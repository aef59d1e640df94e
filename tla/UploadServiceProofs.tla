------------------------- MODULE UploadServiceProofs -------------------------
EXTENDS UploadService, TLAPS

LEMMA KeysOfRequests == KeyOf \in [Requests -> Keys]
BY UploadConstantsOK DEF KeyOf, Keys, Extension

\* Where a request stands with Storacha, by its place in the handler, ...
Staged ==
    \A r \in Requests :
        /\ pc[r] \in {"idle", "guards", "pipes", "unzip"} =>
              status[r] = "idle" /\ result[r] = "none"
        /\ pc[r] = "storacha" <=> status[r] = "running"
        /\ pc[r] \in {"head", "put"} => status[r] = "ok"
        /\ pc[r] \notin {"idle", "done"} => at[r] \in Processes
        /\ pc[r] \in {"idle", "done"} => at[r] = Nobody

\* ... what Storacha has made of it, ...
Kept ==
    \A r \in Requests :
        /\ status[r] = "idle" => \A s \in Spaces : r \notin contents[s]
        /\ status[r] # "idle" => owner[r] \in Wallets
        /\ status[r] = "ok" => \E s \in given[owner[r]] : r \in contents[s]

\* ... what its result says of that, ...
Told ==
    \A r \in Requests :
        /\ result[r] = "ok" => status[r] = "ok"
        /\ result[r] \in {"unauthorized", "noFile", "storeError", "badFile", "dirError", "badZip"} =>
              status[r] = "idle"
        /\ result[r] = "ok" /\ Backup /\ pc[r] \notin {"head", "put"} => bucket[KeyOf[r]] # Nobody

\* ... and what may be in the bucket.
Copied == \A k \in Keys : bucket[k] # Nobody => status[bucket[k]] = "ok"

UploadInv == TypeOK /\ Staged /\ Kept /\ Told /\ Copied

-----------------------------------------------------------------------------
(* The steps, by what they do to a request                                 *)

\* A step on disk alone: the request goes on, is turned down or its files go.
OnDisk(r) ==
    \/ \E p \in Processes : Arrive(r, p)
    \/ Refuse(r) \/ FileMissing(r)
    \/ ReceiveFile(r) \/ ReceiveFails(r)
    \/ RejectFile(r) \/ AcceptZip(r)
    \/ UnzipFails(r)
    \/ Cleanup(r) \/ CleanupFails(r)

AtStoracha(r) ==
    \/ \E w \in Wallets : CallStoracha(r, w)
    \/ \E s \in Spaces : StorachaSucceeds(r, s)
    \/ StorachaFails(r)

AtBucket(r) == HeadFinds(r) \/ HeadMisses(r) \/ PutObject(r) \/ PutFails(r)

LEMMA UploadInit == Init => UploadInv
<1> SUFFICES ASSUME Init PROVE UploadInv
  OBVIOUS
<1> USE DEF Init, Storacha!Init
<1>1. TypeOK
  BY DEF TypeOK, Places, Results
<1>2. Staged /\ Kept /\ Told
  BY DEF Staged, Kept, Told
<1>3. Copied
  BY DEF Copied
<1> QED
  BY <1>1, <1>2, <1>3 DEF UploadInv

TurnedDown == {"unauthorized", "noFile", "storeError", "badFile", "dirError", "badZip"}

LEMMA DiskStep ==
    ASSUME UploadInv, NEW r \in Requests, OnDisk(r)
    PROVE  UploadInv'
<1> USE DEF UploadInv, TypeOK, Places, Results, Goto, Answer, Finally, MakesDir, spaceVars
<1>1. /\ UNCHANGED <<given, owner, status, contents, bucket>>
      /\ pc' \in [Requests -> Places] /\ at' \in [Requests -> Processes \cup {Nobody}]
      /\ result' \in [Requests -> Results]
      /\ \A q \in Requests : q # r => pc'[q] = pc[q] /\ at'[q] = at[q] /\ result'[q] = result[q]
  BY DEF OnDisk, Arrive, Refuse, FileMissing, ReceiveFile, ReceiveFails, RejectFile, AcceptZip,
     UnzipFails, Cleanup, CleanupFails
<1>2. dirs' \in [Processes -> SUBSET Requests]
  BY DEF OnDisk, Arrive, Refuse, FileMissing, ReceiveFile, ReceiveFails, RejectFile, AcceptZip,
     UnzipFails, Cleanup, CleanupFails, Staged
<1>3. \/ /\ pc[r] \in {"idle", "guards", "pipes"} /\ pc'[r] \in {"guards", "pipes", "unzip"}
         /\ result'[r] = result[r] /\ at'[r] \in Processes
      \/ /\ pc[r] = "unzip" /\ pc'[r] = "cleanup"
         /\ result'[r] \in {"dirError", "badZip"} /\ at'[r] = at[r]
      \/ /\ pc[r] \in {"guards", "pipes"} /\ pc'[r] = "done"
         /\ result'[r] \in TurnedDown /\ at'[r] = Nobody
      \/ /\ pc[r] = "cleanup" /\ pc'[r] = "done"
         /\ result'[r] \in {result[r], "cleanupError"} /\ at'[r] = Nobody
  <2>1. CASE \E p \in Processes : Arrive(r, p)
    BY <2>1 DEF Arrive
  <2>2. CASE Refuse(r) \/ FileMissing(r) \/ ReceiveFails(r) \/ RejectFile(r)
    BY <2>2 DEF Refuse, FileMissing, ReceiveFails, RejectFile, TurnedDown
  <2>3. CASE ReceiveFile(r) \/ AcceptZip(r)
    BY <2>3 DEF ReceiveFile, AcceptZip, Staged
  <2>4. CASE UnzipFails(r)
    BY <2>4 DEF UnzipFails
  <2>5. CASE Cleanup(r) \/ CleanupFails(r)
    BY <2>5 DEF Cleanup, CleanupFails
  <2> QED
    BY <2>1, <2>2, <2>3, <2>4, <2>5 DEF OnDisk
<1>4. Staged'
  BY <1>1, <1>3, UploadConstantsOK DEF Staged
<1>5. Told'
  BY <1>1, <1>3 DEF Staged, Told, TurnedDown
<1>6. Kept' /\ Copied'
  BY <1>1 DEF Kept, Copied
<1> QED
  BY <1>1, <1>2, <1>4, <1>5, <1>6

\* A call of Storacha moves one request, to a space of its owner.
LEMMA StorachaStep ==
    ASSUME UploadInv, NEW r \in Requests, AtStoracha(r)
    PROVE  UploadInv'
<1> USE DEF UploadInv, TypeOK, Places, Results, Goto, Finally
<1>1. CASE \E w \in Wallets : CallStoracha(r, w)
  <2>1. PICK w \in Wallets : CallStoracha(r, w)
    BY <1>1
  <2>2. /\ pc[r] \in {"pipes", "unzip"} /\ pc' = [pc EXCEPT ![r] = "storacha"]
        /\ status[r] = "idle" /\ status' = [status EXCEPT ![r] = "running"]
        /\ owner' = [owner EXCEPT ![r] = w]
        /\ UNCHANGED <<at, given, contents, result, dirs, bucket>>
    BY <2>1 DEF CallStoracha, Storacha!Begin
  <2>3. TypeOK' /\ Staged'
    BY <2>2 DEF Staged
  <2>4. Kept' /\ Told' /\ Copied'
    BY <2>2 DEF Kept, Told, Copied, Staged
  <2> QED
    BY <2>3, <2>4
<1>2. CASE \E s \in Spaces : StorachaSucceeds(r, s)
  <2>1. PICK s \in Spaces : StorachaSucceeds(r, s)
    BY <1>2
  <2>2. /\ pc[r] = "storacha" /\ pc' = [pc EXCEPT ![r] = IF Backup THEN "head" ELSE "cleanup"]
        /\ status[r] = "running" /\ status' = [status EXCEPT ![r] = "ok"]
        /\ s \in given[owner[r]] /\ contents' = [contents EXCEPT ![s] = @ \cup {r}]
        /\ result' = [result EXCEPT ![r] = "ok"]
        /\ UNCHANGED <<at, given, owner, dirs, bucket>>
    BY <2>1 DEF StorachaSucceeds, Storacha!Succeed, Storacha!Stored
  <2>3. TypeOK' /\ Staged'
    BY <2>2 DEF Staged
  <2>4. Kept'
    BY <2>2 DEF Kept, Staged
  <2>5. Told' /\ Copied'
    BY <2>2 DEF Told, Copied
  <2> QED
    BY <2>3, <2>4, <2>5
<1>3. CASE StorachaFails(r)
  <2>1. /\ pc[r] = "storacha" /\ pc' = [pc EXCEPT ![r] = "cleanup"]
        /\ status[r] = "running" /\ status' = [status EXCEPT ![r] = "failed"]
        /\ \/ UNCHANGED contents
           \/ \E s \in Spaces : contents' = [contents EXCEPT ![s] = @ \cup {r}]
        /\ result' = [result EXCEPT ![r] = "storachaError"]
        /\ UNCHANGED <<at, given, owner, dirs, bucket>>
    BY <1>3 DEF StorachaFails, Storacha!Fail, Storacha!Stored
  <2>2. contents' \in [Spaces -> SUBSET Requests]
        /\ \A s \in Spaces, q \in Requests :
              /\ q \in contents[s] => q \in contents'[s]
              /\ q # r => (q \in contents'[s] <=> q \in contents[s])
    BY <2>1
  <2>3. TypeOK' /\ Staged'
    BY <2>1, <2>2 DEF Staged
  <2>4. Kept'
    BY <2>1, <2>2 DEF Kept, Staged
  <2>5. Told' /\ Copied'
    BY <2>1 DEF Told, Copied
  <2> QED
    BY <2>3, <2>4, <2>5
<1> QED
  BY <1>1, <1>2, <1>3 DEF AtStoracha

LEMMA BucketStep ==
    ASSUME UploadInv, NEW r \in Requests, AtBucket(r)
    PROVE  UploadInv'
<1> USE DEF UploadInv, TypeOK, Places, Results, Goto, Finally, spaceVars
<1>1. /\ pc[r] \in {"head", "put"}
      /\ \/ pc' = [pc EXCEPT ![r] = "put"] /\ UNCHANGED <<result, bucket>>
         \/ /\ pc' = [pc EXCEPT ![r] = "cleanup"] /\ UNCHANGED result
            /\ \/ bucket[KeyOf[r]] # Nobody /\ UNCHANGED bucket
               \/ bucket' = [bucket EXCEPT ![KeyOf[r]] = r]
         \/ /\ pc' = [pc EXCEPT ![r] = "cleanup"]
            /\ result' = [result EXCEPT ![r] = "s3Error"]
            /\ UNCHANGED bucket \/ bucket' = [bucket EXCEPT ![KeyOf[r]] = r]
      /\ UNCHANGED <<at, given, owner, status, contents, dirs>>
  BY DEF AtBucket, HeadFinds, HeadMisses, PutObject, PutFails, Puts
<1>2. KeyOf[r] \in Keys /\ r # Nobody /\ status[r] = "ok"
  BY <1>1, UploadConstantsOK, KeysOfRequests DEF Staged
<1>3. TypeOK' /\ Staged'
  BY <1>1 DEF Staged
<1>4. \A k \in Keys : bucket'[k] \in {bucket[k], r} /\ (bucket[k] # Nobody => bucket'[k] # Nobody)
  BY <1>1, <1>2
<1>5. Copied' /\ Kept'
  BY <1>1, <1>2, <1>4 DEF Copied, Kept
<1>6. Told'
  <2>1. ASSUME NEW q \in Requests, q # r
        PROVE  pc'[q] = pc[q] /\ result'[q] = result[q] /\ status'[q] = status[q]
    BY <1>1, <2>1
  <2>2. \A q \in Requests : bucket[KeyOf[q]] # Nobody => bucket'[KeyOf[q]] # Nobody
    BY <1>4, KeysOfRequests
  <2>3. result'[r] = "ok" /\ pc'[r] \notin {"head", "put"} => bucket'[KeyOf[r]] # Nobody
    BY <1>1, <1>2
  <2>4. result'[r] \in {result[r], "s3Error"} /\ status'[r] = status[r]
    BY <1>1
  <2> QED
    BY <2>1, <2>2, <2>3, <2>4, <1>2 DEF Told, Backup
<1> QED
  BY <1>3, <1>5, <1>6

LEMMA TimeoutStep ==
    ASSUME UploadInv, NEW r \in Requests, Timeout(r)
    PROVE  UploadInv'
<1> USE DEF UploadInv, TypeOK, Places, Results, Answer
<1>1. /\ at[r] \in Processes /\ pc[r] \notin {"idle", "done"}
      /\ pc' = [pc EXCEPT ![r] = "done"] /\ at' = [at EXCEPT ![r] = Nobody]
      /\ result' = [result EXCEPT ![r] = "lost"]
      /\ UNCHANGED <<given, owner>>
  BY DEF Timeout, Staged, Storacha!Fail, spaceVars
<1>2. dirs' \in [Processes -> SUBSET Requests]
  BY <1>1 DEF Timeout, DiskOutlives
<1>3. /\ bucket' = bucket \/ (pc[r] = "put" /\ bucket' = [bucket EXCEPT ![KeyOf[r]] = r])
      /\ KeyOf[r] \in Keys /\ r # Nobody
  BY UploadConstantsOK, KeysOfRequests DEF Timeout, Puts
<1>4. \/ pc[r] # "storacha" /\ UNCHANGED <<status, contents>>
      \/ /\ pc[r] = "storacha" /\ status' = [status EXCEPT ![r] = "failed"]
         /\ \/ UNCHANGED contents
            \/ \E s \in Spaces : contents' = [contents EXCEPT ![s] = @ \cup {r}]
  BY DEF Timeout, Storacha!Fail, Storacha!Stored, spaceVars
<1>5. /\ contents' \in [Spaces -> SUBSET Requests]
      /\ \A s \in Spaces, q \in Requests :
            /\ q \in contents[s] => q \in contents'[s]
            /\ q # r \/ pc[r] # "storacha" => (q \in contents'[s] <=> q \in contents[s])
  BY <1>4
<1>6. \A q \in Requests : q # r \/ pc[r] # "storacha" => status'[q] = status[q]
  BY <1>4
<1>7. TypeOK'
  BY <1>1, <1>2, <1>3, <1>4, <1>5
<1>8. Staged'
  BY <1>1, <1>4 DEF Staged
<1>9. Kept'
  BY <1>1, <1>4, <1>5, <1>6 DEF Kept, Staged
<1>10. \A k \in Keys : /\ bucket'[k] = bucket[k] \/ (bucket'[k] = r /\ pc[r] = "put")
                       /\ bucket[k] # Nobody => bucket'[k] # Nobody
  BY <1>3
<1>11. Told'
  <2>1. ASSUME NEW q \in Requests, q # r
        PROVE  pc'[q] = pc[q] /\ result'[q] = result[q] /\ status'[q] = status[q]
    BY <1>1, <1>6, <2>1
  <2>2. \A q \in Requests : bucket[KeyOf[q]] # Nobody => bucket'[KeyOf[q]] # Nobody
    BY <1>10, KeysOfRequests
  <2>3. result'[r] = "lost"
    BY <1>1
  <2> QED
    BY <2>1, <2>2, <2>3 DEF Told, Backup
<1>12. Copied'
  BY <1>4, <1>6, <1>10 DEF Copied, Staged
<1> QED
  BY <1>7, <1>8, <1>9, <1>11, <1>12

LEMMA UploadNext == UploadInv /\ [Next]_vars => UploadInv'
<1> SUFFICES ASSUME UploadInv, [Next]_vars PROVE UploadInv'
  OBVIOUS
<1>1. CASE Operator
  <2>1. PICK w \in Wallets, s \in Spaces : given' = [given EXCEPT ![w] = @ \cup {s}]
    BY <1>1 DEF Operator, Storacha!Give
  <2>2. UNCHANGED <<owner, status, contents, pc, at, result, dirs, bucket>>
    BY <1>1 DEF Operator, Storacha!Give
  <2>3. given' \in [Wallets -> SUBSET Spaces] /\ \A v \in Wallets : given[v] \subseteq given'[v]
    BY <2>1 DEF UploadInv, TypeOK
  <2> QED
    BY <2>2, <2>3 DEF UploadInv, TypeOK, Staged, Kept, Told, Copied
<1>2. ASSUME NEW r \in Requests, Step(r) PROVE UploadInv'
  BY <1>2, DiskStep, StorachaStep, BucketStep, TimeoutStep DEF Step, OnDisk, AtStoracha, AtBucket
<1>3. ASSUME NEW p \in Processes, IdleExit(p) PROVE UploadInv'
  BY <1>3 DEF IdleExit, spaceVars, UploadInv, TypeOK, Staged, Kept, Told, Copied
<1>4. CASE UNCHANGED vars
  BY <1>4 DEF vars, UploadInv, TypeOK, Staged, Kept, Told, Copied
<1> QED
  BY <1>1, <1>2, <1>3, <1>4 DEF Next

LEMMA UploadInvariant == Spec => []UploadInv
BY UploadInit, UploadNext, PTL DEF Spec

-----------------------------------------------------------------------------

\* Requests, disks, spaces and the bucket keep their types: no disk holds a
\* directory that is no request's, and no key a payload that was not sent.
THEOREM UploadIsTyped == Spec => []TypeOK
<1>1. UploadInv => TypeOK
  BY DEF UploadInv
<1> QED
  BY <1>1, UploadInvariant, PTL

\* An acknowledged payload is in a space of the owner its route named and,
\* where copies are made, has an equal payload in the bucket, whatever calls
\* fail, environments go away and callers try again.
THEOREM AckedPayloadsAreKept == Spec => []AckedIsKept
<1>1. UploadInv => AckedIsKept
  BY DEF UploadInv, Kept, Told, AckedIsKept, Answered
<1> QED
  BY <1>1, UploadInvariant, PTL

\* Nothing is in the bucket that is not in a space.
THEOREM CopiesFollowStoracha == Spec => []BackupsAreStored
<1>1. UploadInv => BackupsAreStored
  BY DEF UploadInv, TypeOK, Kept, Copied, BackupsAreStored
<1> QED
  BY <1>1, UploadInvariant, PTL

\* What is turned down before Storacha leaves no trace there or in the bucket.
THEOREM TurnedDownRequestsLeaveNothing == Spec => []TurnedDownLeavesNothing
<1>1. UploadInv => TurnedDownLeavesNothing
  BY UploadConstantsOK DEF UploadInv, TypeOK, Kept, Told, Copied, TurnedDownLeavesNothing, Answered
<1> QED
  BY <1>1, UploadInvariant, PTL

\* No request is at its copy, and none has made one.
BucketUntouched ==
    /\ \A r \in Requests : pc[r] \notin {"head", "put"}
    /\ \A k \in Keys : bucket[k] = Nobody

LEMMA UntouchedNext ==
    ASSUME ~Backup, UploadInv, BucketUntouched, [Next]_vars
    PROVE  BucketUntouched'
<1> USE DEF BucketUntouched, Goto, Answer, Finally
<1>1. pc \in [Requests -> Places]
  BY DEF UploadInv, TypeOK
<1>2. ASSUME NEW r \in Requests, OnDisk(r) \/ AtStoracha(r) PROVE BucketUntouched'
  BY <1>1, <1>2 DEF OnDisk, Arrive, Refuse, FileMissing, ReceiveFile, ReceiveFails, RejectFile,
     AcceptZip, UnzipFails, Cleanup, CleanupFails, AtStoracha, CallStoracha, StorachaSucceeds,
     StorachaFails
<1>3. ASSUME NEW r \in Requests, AtBucket(r) PROVE FALSE
  BY <1>3 DEF AtBucket, HeadFinds, HeadMisses, PutObject, PutFails
<1>4. ASSUME NEW r \in Requests, Timeout(r) PROVE BucketUntouched'
  BY <1>1, <1>4 DEF Timeout
<1>5. ASSUME Operator \/ (\E p \in Processes : IdleExit(p)) \/ UNCHANGED vars
      PROVE  UNCHANGED <<pc, bucket>>
  BY <1>5 DEF Operator, IdleExit, vars
<1> QED
  BY <1>2, <1>3, <1>4, <1>5 DEF Next, Step, OnDisk, AtStoracha, AtBucket

\* Without a value for BACKUP_TO_IPFS_NODE, or with an empty one, no payload
\* ever gets to the bucket.
THEOREM NoCopiesWhenUnset ==
    ASSUME BackupEnv \in {"unset", ""}
    PROVE  Spec => []BucketUntouched
<1>1. ~Backup
  BY DEF Backup
<1>2. Init => BucketUntouched
  BY DEF Init, BucketUntouched
<1>3. UploadInv /\ BucketUntouched /\ [Next]_vars => BucketUntouched'
  BY <1>1, UntouchedNext
<1> QED
  BY <1>2, <1>3, UploadInvariant, PTL DEF Spec

-----------------------------------------------------------------------------
(* The files                                                               *)

\* A request has no directory before its file is received.
NotYet == \A r \in Requests : pc[r] \in {"idle", "guards"} => \A p \in Processes : r \notin dirs[p]

SweptInv == TempSwept /\ NotYet

LEMMA SweptNext == UploadInv /\ SweptInv /\ [Next]_vars => SweptInv'
<1> SUFFICES ASSUME UploadInv, SweptInv, [Next]_vars PROVE SweptInv'
  OBVIOUS
<1> USE DEF SweptInv, TempSwept, NotYet, Answered, Goto, Answer, Finally
<1>0. /\ pc \in [Requests -> Places] /\ at \in [Requests -> Processes \cup {Nobody}]
      /\ result \in [Requests -> Results] /\ dirs \in [Processes -> SUBSET Requests]
      /\ Nobody \notin Processes
      /\ \A q \in Requests : IF pc[q] \in {"idle", "done"} THEN at[q] = Nobody ELSE at[q] \in Processes
  BY UploadConstantsOK DEF UploadInv, TypeOK, Staged
<1>1. CASE Operator
  BY <1>1 DEF Operator
<1>2. ASSUME NEW r \in Requests, Step(r) PROVE SweptInv'
  <2>1. CASE \E p \in Processes : Arrive(r, p)
    BY <1>0, <2>1 DEF Arrive
  <2>2. CASE Refuse(r) \/ FileMissing(r)
    BY <1>0, <2>2 DEF Refuse, FileMissing
  <2>3. CASE ReceiveFile(r) \/ AcceptZip(r) \/ UnzipFails(r)
    BY <1>0, <2>3 DEF ReceiveFile, MakesDir, AcceptZip, UnzipFails
  <2>4. CASE ReceiveFails(r) \/ RejectFile(r)
    BY <1>0, <2>4 DEF ReceiveFails, RejectFile, MakesDir
  <2>5. CASE AtStoracha(r)
    BY <1>0, <2>5 DEF AtStoracha, CallStoracha, StorachaSucceeds, StorachaFails
  <2>6. CASE AtBucket(r)
    BY <1>0, <2>6 DEF AtBucket, HeadFinds, HeadMisses, PutObject, PutFails
  <2>7. CASE Cleanup(r) \/ CleanupFails(r)
    BY <1>0, <2>7 DEF Cleanup, CleanupFails
  <2>8. CASE Timeout(r)
    BY <1>0, <2>8 DEF Timeout, DiskOutlives
  <2> QED
    BY <1>2, <2>1, <2>2, <2>3, <2>4, <2>5, <2>6, <2>7, <2>8 DEF Step, AtStoracha, AtBucket
<1>3. ASSUME NEW p \in Processes, IdleExit(p) PROVE SweptInv'
  BY <1>3 DEF IdleExit
<1>4. CASE UNCHANGED vars
  BY <1>4 DEF vars
<1> QED
  BY <1>1, <1>2, <1>3, <1>4 DEF Next

\* A handler removes its files whatever it returns or throws; what stays is
\* that of requests that never reached their handler or lost their process.
THEOREM HandlersSweepTheirFiles == Spec => []TempSwept
<1>1. Init => SweptInv
  BY DEF Init, SweptInv, TempSwept, NotYet
<1>2. SweptInv => TempSwept
  BY DEF SweptInv
<1> QED
  BY <1>1, <1>2, SweptNext, UploadInvariant, PTL DEF Spec
=============================================================================
