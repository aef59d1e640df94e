------------------------------- MODULE Bridge -------------------------------
(***************************************************************************)
(* Requests with the Storacha service they call, on Lambda: UploadService  *)
(* with StorachaService itself where UploadService has its promise.  What  *)
(* the two share is the request and the environment: its process is the    *)
(* one that holds the client, so a timeout takes both away.                *)
(***************************************************************************)
EXTENDS Integers

CONSTANTS Requests, Processes, Wallets, Proofs, Spaces, DidOf, Nobody,
          Cids, Exts, NoExt, Cid, NameExt, MimeExt, BackupEnv, ProofsRotate

\* What StorachaService and UploadService assume of their constants.
ASSUME BridgeConstantsOK ==
    /\ DidOf \in [Proofs -> Spaces \cup {Nobody}]
    /\ Cid \in [Requests -> Cids]
    /\ NameExt \in [Requests -> Exts \cup {NoExt}]
    /\ MimeExt \in [Requests -> Exts \cup {NoExt}]
    /\ Nobody \notin Requests \cup Processes \cup Wallets \cup Proofs \cup Spaces
    /\ BackupEnv \in {"unset", "", "true", "false"}
    /\ ProofsRotate \in BOOLEAN

VARIABLES
    rows, assigned, client, contents,               \* those of StorachaService:
    call, host, auth, found, target, outcome,       \* its pc and at are call and host
    pc, at, result, dirs, bucket                    \* those of UploadService

Service ==
    INSTANCE StorachaService WITH
        pc <- call, at <- host, None <- Nobody, Lambda <- TRUE

\* What UploadService has of the service is what StorachaService promises.
Upload ==
    INSTANCE UploadService WITH
        given  <- [w \in Wallets |-> Service!OwnSpaces(w)],
        owner  <- [r \in Requests |-> Service!Owner(r)],
        status <- [r \in Requests |-> Service!Status(r)]

serviceVars == <<rows, assigned, client, contents, call, host, auth, found, target, outcome>>
uploadVars  == <<pc, at, result, dirs, bucket>>
vars == <<serviceVars, uploadVars>>

Init ==
    /\ Service!Init
    /\ pc     = [r \in Requests |-> "idle"]
    /\ at     = [r \in Requests |-> Nobody]
    /\ result = [r \in Requests |-> "none"]
    /\ dirs   = [p \in Processes |-> {}]
    /\ bucket = [k \in Upload!Keys |-> Nobody]

-----------------------------------------------------------------------------

Arrive(r) ==
    /\ UNCHANGED serviceVars
    /\ \E p \in Processes : Upload!Arrive(r, p)

\* Guards, multer and pipes, the archive, the bucket and the removal of files.
Handle(r) ==
    /\ UNCHANGED serviceVars
    /\ \/ Upload!Refuse(r) \/ Upload!FileMissing(r)
       \/ Upload!ReceiveFile(r) \/ Upload!ReceiveFails(r)
       \/ Upload!RejectFile(r) \/ Upload!AcceptZip(r) \/ Upload!UnzipFails(r)
       \/ Upload!HeadFinds(r) \/ Upload!HeadMisses(r)
       \/ Upload!PutObject(r) \/ Upload!PutFails(r)
       \/ Upload!Cleanup(r) \/ Upload!CleanupFails(r)

\* An image is for the space of its caller, an archive, which has been
\* extracted by now, for that of the owner its route names.
CallStoracha(r, a) ==
    /\ a.walletAddress # Nobody
    /\ \/ Upload!Goto(r, "pipes", "storacha") /\ a.spaceOwnerAddress = Nobody
       \/ Upload!Goto(r, "unzip", "storacha") /\ a.spaceOwnerAddress # Nobody
    /\ Service!BeginUpload(r, at[r], a)
    /\ UNCHANGED <<result, dirs, bucket>>

\* The call goes on between two awaits.
Await(r) ==
    /\ Service!Proceed(r)
    /\ call'[r] # "done"
    /\ UNCHANGED uploadVars

\* It returns a cid ...
Return(r) ==
    /\ Service!Proceed(r)
    /\ call'[r] = "done" /\ outcome'[r] = "ok"
    /\ Upload!Goto(r, "storacha", IF Upload!Backup THEN "head" ELSE "cleanup")
    /\ result' = [result EXCEPT ![r] = "ok"]
    /\ UNCHANGED <<dirs, bucket>>

\* A plausible bug: a rejected call that nothing awaits.
CatchesNothing(r) ==
    /\ Service!Proceed(r)
    /\ call'[r] = "done" /\ outcome'[r] # "ok"
    /\ UNCHANGED uploadVars

\* A plausible bug: the result is set before the call and kept by the catch.
CatchKeepsResult(r) ==
    /\ Service!Proceed(r)
    /\ call'[r] = "done" /\ outcome'[r] # "ok"
    /\ Upload!Finally(r, "storacha", "ok")
    /\ UNCHANGED <<dirs, bucket>>

\* A plausible bug: a failed call is tried again.
CatchTriesAgain(r) ==
    /\ Service!Proceed(r)
    /\ call'[r] = "done" /\ outcome'[r] # "ok"
    /\ Upload!Goto(r, "storacha", "pipes")
    /\ UNCHANGED <<result, dirs, bucket>>

\* ... or throws, whatever it throws.
Catch(r) ==
    /\ Service!Proceed(r)
    /\ call'[r] = "done" /\ outcome'[r] # "ok"
    /\ Upload!Finally(r, "storacha", "storachaError")
    /\ UNCHANGED <<dirs, bucket>>

-----------------------------------------------------------------------------
(* An environment goes away with its client, and with or without its disk. *)

ClientDies(p) == Service!ProcessExits(p) \/ (~client[p].made /\ UNCHANGED serviceVars)

IdleExit(p) ==
    /\ ~Upload!Busy(p)
    /\ ClientDies(p)
    /\ dirs' = [dirs EXCEPT ![p] = {}]
    /\ UNCHANGED <<pc, at, result, bucket>>

\* The call, if one is under way, ends with the process that serves it.
Timeout(r) ==
    /\ at[r] # Nobody
    /\ \/ Service!ProcessExits(at[r])
       \/ ~client[at[r]].made /\ call[r] \in {"idle", "done"} /\ UNCHANGED serviceVars
    /\ Upload!Answer(r, pc[r], "lost")
    /\ Upload!DiskOutlives(at[r])
    /\ UNCHANGED bucket \/ (pc[r] = "put" /\ Upload!Puts(r))

-----------------------------------------------------------------------------

Operator == Service!Operator /\ UNCHANGED uploadVars

\* What the event loop resumes when a promise settles.
Progress(r) ==
    \/ Handle(r)
    \/ \E a \in Service!AuthInfo : CallStoracha(r, a)
    \/ Await(r) \/ Return(r) \/ Catch(r)

Next ==
    \/ Operator
    \/ \E r \in Requests : Arrive(r) \/ Progress(r) \/ Timeout(r)
    \/ \E p \in Processes : IdleExit(p)

Spec == Init /\ [][Next]_vars

\* Every await of a request settles.
FairSpec == Spec /\ \A r \in Requests : WF_vars(Progress(r))

-----------------------------------------------------------------------------
(* Properties                                                              *)

\* Requests that run the service itself do what UploadService says of requests
\* that have its promise, timeouts and exits of environments included.
ImplementsUploadService == Upload!Spec

\* Every request is answered or lost with its process, whatever its calls of
\* Storacha, the table, the bucket and the disk end in: the chain from the
\* guards to the removal of the files has no place to be stuck.
EveryRequestIsAnswered == \A r \in Requests : pc[r] # "idle" ~> pc[r] = "done"

\* What a caller that is told of success can count on, across the service, the
\* table and the bucket: its payload is in one space, of the owner its route
\* named, whose next upload finds a did in the table, and where copies are
\* made there is one.  None of it is taken back by the requests that follow.
AcksHold ==
    \A r \in Requests : pc[r] = "done" /\ result[r] = "ok" =>
        /\ \E s \in Service!OwnSpaces(Service!Owner(r)) :
              \A t \in Spaces : r \in contents[t] <=> t = s
        /\ rows[Service!Owner(r)].did # Nobody
        /\ Upload!Backup => bucket[Upload!KeyOf[r]] # Nobody

\* The order of a request's places.
PlaceNo == [idle |-> 0, guards |-> 1, pipes |-> 2, unzip |-> 3, storacha |-> 4,
            head |-> 5, put |-> 6, cleanup |-> 7, done |-> 8]

\* Nothing is tried twice: neither a request nor its call ever goes back, and
\* whatever the event loop resumes takes one of them on, so that a request is
\* over after at most 17 steps of its own.
NothingIsRetried ==
    [][\A r \in Requests :
          /\ PlaceNo[pc[r]] <= PlaceNo[pc'[r]]
          /\ Service!CallNo[call[r]] <= Service!CallNo[call'[r]]
          /\ Progress(r) => pc'[r] # pc[r] \/ call'[r] # call[r]]_vars
=============================================================================
