---------------------------- MODULE UploadService ----------------------------
(***************************************************************************)
(* A request from the route to its answer (src/upload, src/s3): guards,    *)
(* the file on disk, pipes, unzip, Storacha, the copy in the S3 bucket and *)
(* the removal of the files, on Lambda, where an environment serves one    *)
(* request at a time.  Storacha is used through the promise of             *)
(* SpaceUpload, which StorachaService implements.                          *)
(*                                                                         *)
(* A payload is named by the request that carries it; requests with equal  *)
(* contents (a caller that tries again) have one cid, and if their files   *)
(* have one extension as well they share the key in the bucket.            *)
(***************************************************************************)
CONSTANTS
    Requests,
    Processes,  \* Lambda environments
    Wallets,
    Spaces,
    Nobody,     \* no request, no process, no wallet
    Cids,
    Exts,
    NoExt,      \* no extension
    Cid,        \* the cid of what a request sends to Storacha
    NameExt,    \* the extension of the name its file is sent with
    MimeExt,    \* the extension of the media type it is sent with
    BackupEnv   \* the environment variable BACKUP_TO_IPFS_NODE, or "unset"

ASSUME UploadConstantsOK ==
    /\ Cid \in [Requests -> Cids]
    /\ NameExt \in [Requests -> Exts \cup {NoExt}]
    /\ MimeExt \in [Requests -> Exts \cup {NoExt}]
    /\ Nobody \notin Requests \cup Processes \cup Wallets
    /\ BackupEnv \in {"unset", "", "true", "false"}

VARIABLES
    given, owner, status, contents,   \* those of SpaceUpload
    pc,      \* where a request is
    at,      \* the environment that serves it
    result,  \* what its handler returns or throws
    dirs,    \* the requests whose directory is on the disk of an environment
    bucket   \* the payload under each key

spaceVars == <<given, owner, status, contents>>
vars == <<given, owner, status, contents, pc, at, result, dirs, bucket>>

Storacha == INSTANCE SpaceUpload

Places == {"idle", "guards", "pipes", "unzip", "storacha", "head", "put", "cleanup", "done"}

Results == {"none", "ok", "unauthorized", "noFile", "storeError", "badFile", "dirError", "badZip",
            "storachaError", "s3Error", "cleanupError", "lost"}

\* multer keeps the name, and adds an extension only where it has none.
Extension(r) == IF NameExt[r] = NoExt THEN MimeExt[r] ELSE NameExt[r]

\* The key in the bucket is the cid with the extension of the file on disk.
Keys  == Cids \X (Exts \cup {NoExt})
KeyOf == [r \in Requests |-> <<Cid[r], Extension(r)>>]

\* Boolean(process.env...): every string but the empty one is true.
Backup == BackupEnv \notin {"unset", ""}

\* The platform gives an environment one invocation at a time.
Busy(p) == \E r \in Requests : at[r] = p

Init ==
    /\ Storacha!Init
    /\ pc     = [r \in Requests |-> "idle"]
    /\ at     = [r \in Requests |-> Nobody]
    /\ result = [r \in Requests |-> "none"]
    /\ dirs   = [p \in Processes |-> {}]
    /\ bucket = [k \in Keys |-> Nobody]

Goto(r, from, to) ==
    /\ pc[r] = from
    /\ pc' = [pc EXCEPT ![r] = to]
    /\ UNCHANGED at

\* The try block ends: what it returned or threw waits for the finally block.
Finally(r, from, res) ==
    /\ Goto(r, from, "cleanup")
    /\ result' = [result EXCEPT ![r] = res]

Answer(r, from, res) ==
    /\ pc[r] = from
    /\ pc' = [pc EXCEPT ![r] = "done"]
    /\ at' = [at EXCEPT ![r] = Nobody]
    /\ result' = [result EXCEPT ![r] = res]

-----------------------------------------------------------------------------
(* Before the handler: guards, then multer, then pipes                     *)

Arrive(r, p) ==
    /\ pc[r] = "idle"
    /\ ~Busy(p)
    /\ pc' = [pc EXCEPT ![r] = "guards"]
    /\ at' = [at EXCEPT ![r] = p]
    /\ UNCHANGED <<spaceVars, result, dirs, bucket>>

Refuse(r) ==
    /\ Answer(r, "guards", "unauthorized")
    /\ UNCHANGED <<spaceVars, dirs, bucket>>

\* No multipart field: ParseFilePipe has nothing to look at.
FileMissing(r) ==
    /\ Answer(r, "guards", "noFile")
    /\ UNCHANGED <<spaceVars, dirs, bucket>>

\* A plausible bug: one directory for all the uploads of an environment.
MakesSharedDir(r) == dirs' = [dirs EXCEPT ![at[r]] = @ \cup {at[r]}]

MakesDir(r) == dirs' = [dirs EXCEPT ![at[r]] = @ \cup {r}]

ReceiveFile(r) ==
    /\ Goto(r, "guards", "pipes")
    /\ MakesDir(r)
    /\ UNCHANGED <<spaceVars, result, bucket>>

\* The write fails (a full disk, an aborted request); multer removes the file
\* it had begun, and nobody the directory.
ReceiveFails(r) ==
    /\ Answer(r, "guards", "storeError")
    /\ UNCHANGED dirs \/ MakesDir(r)
    /\ UNCHANGED <<spaceVars, bucket>>

\* Too big, not of the type of the route, or a path that is no address: the
\* handler is not called, and only the handler removes files.
RejectFile(r) ==
    /\ Answer(r, "pipes", "badFile")
    /\ UNCHANGED <<spaceVars, dirs, bucket>>

AcceptZip(r) ==
    /\ Goto(r, "pipes", "unzip")
    /\ UNCHANGED <<spaceVars, result, dirs, bucket>>

-----------------------------------------------------------------------------
(* The handlers: uploadZip and uploadFile of UploadService                 *)

\* An image goes to Storacha at once, a zip when it has been extracted.
CallStoracha(r, w) ==
    /\ Goto(r, "pipes", "storacha") \/ Goto(r, "unzip", "storacha")
    /\ Storacha!Begin(r, w)
    /\ UNCHANGED <<result, dirs, bucket>>

\* A plausible bug: an archive that cannot be read is answered at once.
UnzipFailsOutright(r) ==
    /\ Answer(r, "unzip", "badZip")
    /\ UNCHANGED <<spaceVars, dirs, bucket>>

\* A plausible bug: the upload does not wait for the extraction.
UnzipFailsLate(r) ==
    /\ Finally(r, "storacha", "badZip")
    /\ Storacha!Fail(r)
    /\ UNCHANGED <<dirs, bucket>>

\* The directory for the content cannot be made, which unzip leaves to its
\* callers, or the archive cannot be extracted, which it answers itself.
UnzipFails(r) ==
    /\ Finally(r, "unzip", "dirError") \/ Finally(r, "unzip", "badZip")
    /\ UNCHANGED <<spaceVars, dirs, bucket>>

StorachaSucceeds(r, s) ==
    /\ Goto(r, "storacha", IF Backup THEN "head" ELSE "cleanup")
    /\ result' = [result EXCEPT ![r] = "ok"]
    /\ Storacha!Succeed(r, s)
    /\ UNCHANGED <<dirs, bucket>>

\* A plausible bug: the copy is made whatever Storacha said.
StorachaFailsOpen(r) ==
    /\ Goto(r, "storacha", "head")
    /\ Storacha!Fail(r)
    /\ UNCHANGED <<result, dirs, bucket>>

StorachaFails(r) ==
    /\ Finally(r, "storacha", "storachaError")
    /\ Storacha!Fail(r)
    /\ UNCHANGED <<dirs, bucket>>

\* S3Service.uploadFile with overwrite = false: the key is looked up first.
HeadFinds(r) ==
    /\ Goto(r, "head", "cleanup")
    /\ bucket[KeyOf[r]] # Nobody
    /\ UNCHANGED <<spaceVars, result, dirs, bucket>>

\* Any error of the lookup, of which "not found" is one, leads to the copy.
HeadMisses(r) ==
    /\ Goto(r, "head", "put")
    /\ UNCHANGED <<spaceVars, result, dirs, bucket>>

Puts(r) == bucket' = [bucket EXCEPT ![KeyOf[r]] = r]

PutObject(r) ==
    /\ Goto(r, "put", "cleanup")
    /\ Puts(r)
    /\ UNCHANGED <<spaceVars, result, dirs>>

\* A plausible bug: the copy is taken for optional.
PutFailsSilently(r) ==
    /\ Goto(r, "put", "cleanup")
    /\ UNCHANGED <<spaceVars, result, dirs, bucket>>

PutFails(r) ==
    /\ Finally(r, "put", "s3Error")
    /\ UNCHANGED bucket \/ Puts(r)
    /\ UNCHANGED <<spaceVars, dirs>>

Cleanup(r) ==
    /\ Answer(r, "cleanup", result[r])
    /\ dirs' = [dirs EXCEPT ![at[r]] = @ \ {r}]
    /\ UNCHANGED <<spaceVars, bucket>>

\* The throw of a finally block takes the place of the result.
CleanupFails(r) ==
    /\ Answer(r, "cleanup", "cleanupError")
    /\ UNCHANGED <<spaceVars, dirs, bucket>>

-----------------------------------------------------------------------------
(* An environment goes away, with its disk or (after a timeout) without.   *)

DiskOutlives(p) == UNCHANGED dirs \/ dirs' = [dirs EXCEPT ![p] = {}]

IdleExit(p) ==
    /\ ~Busy(p)
    /\ dirs[p] # {}
    /\ dirs' = [dirs EXCEPT ![p] = {}]
    /\ UNCHANGED <<spaceVars, pc, at, result, bucket>>

\* What was under way may have been completed at the other end.
Timeout(r) ==
    /\ at[r] # Nobody
    /\ Answer(r, pc[r], "lost")
    /\ DiskOutlives(at[r])
    /\ IF pc[r] = "storacha" THEN Storacha!Fail(r) ELSE UNCHANGED spaceVars
    /\ UNCHANGED bucket \/ (pc[r] = "put" /\ Puts(r))

-----------------------------------------------------------------------------

Operator ==
    \E w \in Wallets, s \in Spaces :
        Storacha!Give(w, s) /\ UNCHANGED <<pc, at, result, dirs, bucket>>

Step(r) ==
    \/ \E p \in Processes : Arrive(r, p)
    \/ Refuse(r) \/ FileMissing(r)
    \/ ReceiveFile(r) \/ ReceiveFails(r)
    \/ RejectFile(r) \/ AcceptZip(r)
    \/ \E w \in Wallets : CallStoracha(r, w)
    \/ UnzipFails(r)
    \/ \E s \in Spaces : StorachaSucceeds(r, s)
    \/ StorachaFails(r)
    \/ HeadFinds(r) \/ HeadMisses(r)
    \/ PutObject(r) \/ PutFails(r)
    \/ Cleanup(r) \/ CleanupFails(r)
    \/ Timeout(r)

Next ==
    \/ Operator
    \/ \E r \in Requests : Step(r)
    \/ \E p \in Processes : IdleExit(p)

Spec == Init /\ [][Next]_vars

-----------------------------------------------------------------------------
(* Properties                                                              *)

TypeOK ==
    /\ given \in [Wallets -> SUBSET Spaces]
    /\ owner \in [Requests -> Wallets \cup {Nobody}]
    /\ status \in [Requests -> {"idle", "running", "ok", "failed"}]
    /\ contents \in [Spaces -> SUBSET Requests]
    /\ pc \in [Requests -> Places]
    /\ at \in [Requests -> Processes \cup {Nobody}]
    /\ result \in [Requests -> Results]
    /\ dirs \in [Processes -> SUBSET Requests]
    /\ bucket \in [Keys -> Requests \cup {Nobody}]

Answered(r, res) == pc[r] = "done" /\ result[r] \in res

\* A caller that is told of success has its payload in a space of the owner
\* it named and, where copies are made, some equal payload in the bucket.
AckedIsKept ==
    \A r \in Requests : Answered(r, {"ok"}) =>
        /\ \E s \in given[owner[r]] : r \in contents[s]
        /\ Backup => bucket[KeyOf[r]] # Nobody

\* The bucket never holds a payload that is not in a space: the copy is made
\* under the cid that Storacha has answered with.
BackupsAreStored ==
    \A k \in Keys : bucket[k] # Nobody => \E s \in Spaces : bucket[k] \in contents[s]

\* A request turned down before Storacha leaves nothing there or in the bucket.
TurnedDownLeavesNothing ==
    \A r \in Requests :
        Answered(r, {"unauthorized", "noFile", "storeError", "badFile", "dirError", "badZip"}) =>
            /\ \A s \in Spaces : r \notin contents[s]
            /\ \A k \in Keys : bucket[k] # r

\* Files stay on a disk only for the request under way there, for requests
\* turned down after their file was written but before the handler, which
\* is what removes it, and for those whose removal failed or did not run.
TempSwept ==
    \A p \in Processes : \A r \in dirs[p] :
        at[r] = p \/ Answered(r, {"badFile", "storeError", "cleanupError", "lost"})

\* template.yml sets "false" outside of production: no copy is to be made.
NoBackupWhenFalse ==
    BackupEnv = "false" => \A k \in Keys : bucket[k] = Nobody
=============================================================================
