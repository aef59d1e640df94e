---------------------------- MODULE BridgeProofs ----------------------------
(***************************************************************************)
(* Requests that run the service themselves are requests that have its     *)
(* promise: what UploadServiceProofs shows of the latter holds of them.    *)
(***************************************************************************)
EXTENDS Bridge, TLAPS

\* The service with what has been proved of it on Lambda, where no call's
\* space is ever moved by another call.
Proved ==
    INSTANCE StorachaIsolationProofs WITH
        pc <- call, at <- host, None <- Nobody, Lambda <- TRUE

\* UploadService with what has been proved of it.
Kept ==
    INSTANCE UploadServiceProofs WITH
        given  <- [w \in Wallets |-> Service!OwnSpaces(w)],
        owner  <- [r \in Requests |-> Service!Owner(r)],
        status <- [r \in Requests |-> Service!Status(r)]

-----------------------------------------------------------------------------
(* It is the service that Bridge is composed of.                           *)

LEMMA SameState ==
    /\ Service!vars = Proved!vars
    /\ \A w \in Wallets : Service!OwnSpaces(w) = Proved!OwnSpaces(w)
    /\ \A r \in Requests :
          /\ Service!Owner(r) = Proved!Owner(r)
          /\ Service!Status(r) = Proved!Status(r)
          /\ Service!Active(r) = Proved!Active(r)
    /\ Service!AuthInfo = Proved!AuthInfo
BY DEF Service!vars, Proved!vars, Service!OwnSpaces, Proved!OwnSpaces, Service!Owner,
   Proved!Owner, Service!Status, Proved!Status, Service!Active, Proved!Active,
   Service!AuthInfo, Proved!AuthInfo

LEMMA SameInit == Service!Init <=> Proved!Init
BY DEF Service!Init, Proved!Init, Service!NoRow, Proved!NoRow, Service!NoClient, Proved!NoClient,
   Service!NoAuth, Proved!NoAuth

LEMMA SameOperator ==
    ASSUME NEW w \in Wallets, NEW p \in Proofs
    PROVE  /\ Service!AssociateSpace(w, p) <=> Proved!AssociateSpace(w, p)
           /\ Service!ReplaceProof(w, p) <=> Proved!ReplaceProof(w, p)
BY DEF Service!AssociateSpace, Proved!AssociateSpace, Service!ReplaceProof, Proved!ReplaceProof,
   Service!NoRow, Proved!NoRow

LEMMA SameBegin ==
    ASSUME NEW r \in Requests, NEW p \in Processes, NEW a \in Service!AuthInfo
    PROVE  Service!BeginUpload(r, p, a) <=> Proved!BeginUpload(r, p, a)
BY DEF Service!BeginUpload, Proved!BeginUpload, Service!Accepts, Proved!Accepts,
   Service!ActiveOn, Proved!ActiveOn, Service!Active, Proved!Active

LEMMA SameExit ==
    ASSUME NEW p \in Processes
    PROVE  Service!ProcessExits(p) <=> Proved!ProcessExits(p)
BY DEF Service!ProcessExits, Proved!ProcessExits, Service!NoClient, Proved!NoClient,
   Service!NoRow, Proved!NoRow, Service!ActiveOn, Proved!ActiveOn, Service!Active, Proved!Active

LEMMA SameProceed ==
    ASSUME NEW r \in Requests
    PROVE  Service!Proceed(r) <=> Proved!Proceed(r)
<1> USE DEF Service!Goto, Proved!Goto, Service!Settle, Proved!Settle, Service!NoRow, Proved!NoRow,
            Service!LookupAddress, Proved!LookupAddress, Service!ParsedDid, Proved!ParsedDid
<1>1. /\ Service!CreateClient(r) <=> Proved!CreateClient(r)
      /\ Service!CreateFails(r) <=> Proved!CreateFails(r)
  BY DEF Service!CreateClient, Proved!CreateClient, Service!CreateFails, Proved!CreateFails,
     Service!FreshClient, Proved!FreshClient
<1>2. /\ Service!FindSpace(r) <=> Proved!FindSpace(r)
      /\ Service!FindNothing(r) <=> Proved!FindNothing(r)
      /\ Service!FindFails(r) <=> Proved!FindFails(r)
  BY DEF Service!FindSpace, Proved!FindSpace, Service!FindNothing, Proved!FindNothing,
     Service!FindFails, Proved!FindFails
<1>3. /\ Service!SelectStoredDid(r) <=> Proved!SelectStoredDid(r)
      /\ Service!StoredDidUnknown(r) <=> Proved!StoredDidUnknown(r)
  BY DEF Service!SelectStoredDid, Proved!SelectStoredDid, Service!StoredDidUnknown,
     Proved!StoredDidUnknown, Service!Selectable, Proved!Selectable, Service!Selecting,
     Proved!Selecting
<1>4. /\ Service!AddSpace(r) <=> Proved!AddSpace(r)
      /\ Service!ProofRejected(r) <=> Proved!ProofRejected(r)
  BY DEF Service!AddSpace, Proved!AddSpace, Service!ProofRejected, Proved!ProofRejected,
     Service!Adding, Proved!Adding
<1>5. /\ Service!SelectParsedDid(r) <=> Proved!SelectParsedDid(r)
      /\ Service!SelectParsedFails(r) <=> Proved!SelectParsedFails(r)
  BY DEF Service!SelectParsedDid, Proved!SelectParsedDid, Service!SelectParsedFails,
     Proved!SelectParsedFails, Service!Selectable, Proved!Selectable, Service!Selecting,
     Proved!Selecting
<1>6. /\ Service!SaveDid(r) <=> Proved!SaveDid(r)
      /\ Service!SaveDidFails(r) <=> Proved!SaveDidFails(r)
  BY DEF Service!SaveDid, Proved!SaveDid, Service!SaveDidFails, Proved!SaveDidFails,
     Service!WriteDid, Proved!WriteDid
<1>7. /\ Service!FilesFail(r) <=> Proved!FilesFail(r)
      /\ Service!NotASingleFile(r) <=> Proved!NotASingleFile(r)
      /\ Service!StartTransfer(r) <=> Proved!StartTransfer(r)
      /\ Service!NoCurrentSpace(r) <=> Proved!NoCurrentSpace(r)
  BY DEF Service!FilesFail, Proved!FilesFail, Service!NotASingleFile, Proved!NotASingleFile,
     Service!StartTransfer, Proved!StartTransfer, Service!NoCurrentSpace, Proved!NoCurrentSpace
<1>8. /\ Service!FinishTransfer(r) <=> Proved!FinishTransfer(r)
      /\ Service!FailTransfer(r) <=> Proved!FailTransfer(r)
  BY DEF Service!FinishTransfer, Proved!FinishTransfer, Service!FailTransfer, Proved!FailTransfer
<1> QED
  BY <1>1, <1>2, <1>3, <1>4, <1>5, <1>6, <1>7, <1>8 DEF Service!Proceed, Proved!Proceed

LEMMA SameNext == Service!Next <=> Proved!Next
<1>1. Service!Operator <=> Proved!Operator
  BY SameOperator DEF Service!Operator, Proved!Operator
<1>2. \A r \in Requests : Service!Arrive(r) <=> Proved!Arrive(r)
  BY SameBegin, SameState DEF Service!Arrive, Proved!Arrive
<1> QED
  BY <1>1, <1>2, SameProceed, SameExit DEF Service!Next, Proved!Next

\* What the service promises is what UploadService has of it.
LEMMA SamePromise ==
    /\ Proved!Promise!Init => Upload!Storacha!Init
    /\ UNCHANGED Proved!Promise!vars => UNCHANGED Upload!spaceVars
    /\ \A w \in Wallets, s \in Spaces : Proved!Promise!Give(w, s) => Upload!Storacha!Give(w, s)
    /\ \A r \in Requests :
          /\ \A w \in Wallets : Proved!Promise!Begin(r, w) => Upload!Storacha!Begin(r, w)
          /\ \A s \in Spaces : Proved!Promise!Succeed(r, s) => Upload!Storacha!Succeed(r, s)
          /\ Proved!Promise!Fail(r) => Upload!Storacha!Fail(r)
<1> USE DEF Proved!OwnSpaces, Service!OwnSpaces, Proved!Owner, Service!Owner, Proved!Status,
            Service!Status
<1>1. /\ Proved!Promise!Init => Upload!Storacha!Init
      /\ UNCHANGED Proved!Promise!vars => UNCHANGED Upload!spaceVars
  BY DEF Proved!Promise!Init, Upload!Storacha!Init, Proved!Promise!vars, Upload!spaceVars
<1>2. ASSUME NEW w \in Wallets, NEW s \in Spaces, Proved!Promise!Give(w, s)
      PROVE  Upload!Storacha!Give(w, s)
  BY <1>2 DEF Proved!Promise!Give, Upload!Storacha!Give
<1>3. ASSUME NEW r \in Requests, NEW w \in Wallets, Proved!Promise!Begin(r, w)
      PROVE  Upload!Storacha!Begin(r, w)
  BY <1>3 DEF Proved!Promise!Begin, Upload!Storacha!Begin
<1>4. ASSUME NEW r \in Requests, NEW s \in Spaces, Proved!Promise!Succeed(r, s)
      PROVE  Upload!Storacha!Succeed(r, s)
  BY <1>4 DEF Proved!Promise!Succeed, Upload!Storacha!Succeed, Proved!Promise!Stored,
     Upload!Storacha!Stored
<1>5. ASSUME NEW r \in Requests, Proved!Promise!Fail(r) PROVE Upload!Storacha!Fail(r)
  BY <1>5 DEF Proved!Promise!Fail, Upload!Storacha!Fail, Proved!Promise!Stored,
     Upload!Storacha!Stored
<1> QED
  BY <1>1, <1>2, <1>3, <1>4, <1>5

-----------------------------------------------------------------------------
(* A request and its call                                                  *)

\* An environment serves one request, which has a call under way exactly
\* while it waits for Storacha, and in that environment.
Linked ==
    /\ pc \in [Requests -> Upload!Places]
    /\ at \in [Requests -> Processes \cup {Nobody}]
    /\ dirs \in [Processes -> SUBSET Requests]
    /\ \A r \in Requests :
          /\ at[r] = Nobody <=> pc[r] \in {"idle", "done"}
          /\ pc[r] \in {"idle", "guards", "pipes", "unzip"} => call[r] = "idle"
          /\ Proved!Active(r) <=> pc[r] = "storacha"
          /\ Proved!Active(r) => host[r] = at[r]
    /\ \A q, r \in Requests : at[q] = at[r] /\ at[q] # Nobody => q = r

BridgeInv == Proved!IsolationInv /\ Linked

\* Every step of the bridge is one of the service or none.
LEMMA ServiceSteps ==
    ASSUME Linked, [Next]_vars
    PROVE  [Proved!Next]_Proved!vars
<1>1. ASSUME UNCHANGED serviceVars PROVE UNCHANGED Proved!vars
  BY <1>1 DEF serviceVars, Proved!vars
<1>2. ASSUME Operator PROVE Proved!Next
  BY <1>2, SameOperator DEF Operator, Service!Operator, Proved!Operator, Proved!Next
<1>3. ASSUME NEW r \in Requests, Await(r) \/ Return(r) \/ Catch(r) PROVE Proved!Next
  BY <1>3, SameProceed DEF Await, Return, Catch, Proved!Next
<1>4. ASSUME NEW r \in Requests, NEW a \in Service!AuthInfo, CallStoracha(r, a)
      PROVE  Proved!Next
  <2>1. at[r] \in Processes
    BY <1>4 DEF CallStoracha, Upload!Goto, Linked
  <2>2. Proved!BeginUpload(r, at[r], a)
    BY <1>4, <2>1, SameBegin DEF CallStoracha
  <2> QED
    BY <1>4, <2>1, <2>2, SameState DEF CallStoracha, Proved!Arrive, Proved!Next
<1>5. ASSUME NEW p \in Processes, Service!ProcessExits(p) PROVE Proved!Next
  BY <1>5, SameExit DEF Proved!Next
<1>6. ASSUME NEW r \in Requests, Timeout(r) PROVE [Proved!Next]_Proved!vars
  <2>1. at[r] \in Processes
    BY <1>6 DEF Timeout, Linked
  <2> QED
    BY <1>1, <1>5, <1>6, <2>1 DEF Timeout
<1> QED
  BY <1>1, <1>2, <1>3, <1>4, <1>5, <1>6
     DEF Next, Progress, Arrive, Handle, IdleExit, ClientDies, vars

LEMMA BridgeInit == Init => BridgeInv
<1> SUFFICES ASSUME Init PROVE BridgeInv
  OBVIOUS
<1>1. Proved!IsolationInv
  BY BridgeConstantsOK, SameInit, Proved!IsolationInit DEF Init
<1>2. call = [r \in Requests |-> "idle"]
  BY DEF Init, Service!Init
<1>3. Linked
  BY <1>2 DEF Init, Linked, Upload!Places, Proved!Active
<1> QED
  BY <1>1, <1>3 DEF BridgeInv

\* A request whose environment is not the one that ends keeps its call.
LEMMA ExitSame ==
    ASSUME BridgeInv, NEW p \in Processes, Proved!ProcessExits(p)
    PROVE  \A q \in Requests :
              IF at[q] = p /\ pc[q] = "storacha"
              THEN Proved!ActiveOn(q, p) /\ call'[q] = "done"
              ELSE ~Proved!ActiveOn(q, p) /\ call'[q] = call[q] /\ host'[q] = host[q]
BY DEF BridgeInv, Linked, Proved!ProcessExits, Proved!ActiveOn

LEMMA LinkedNext ==
    ASSUME BridgeInv, Proved!Typed', Proved!TransfersLand, [Next]_vars
    PROVE  Linked'
<1> USE DEF Proved!Active
<1>1. /\ Linked /\ Proved!IsolationInv /\ Proved!Typed
      /\ call \in [Requests -> Proved!Places] /\ host \in [Requests -> Processes \cup {Nobody}]
      /\ Nobody \notin Processes
  BY BridgeConstantsOK DEF BridgeInv, Proved!IsolationInv, Proved!TableInv, Proved!Typed, Proved!TypeOK
<1>2. ASSUME UNCHANGED <<call, host, pc, at, dirs>> PROVE Linked'
  BY <1>1, <1>2 DEF Linked
<1>3. CASE Operator
  BY <1>2, <1>3 DEF Operator, Service!Operator, Service!AssociateSpace, Service!ReplaceProof, uploadVars
<1>4. ASSUME NEW r \in Requests, Arrive(r) PROVE Linked'
  <2>1. PICK p \in Processes : Upload!Arrive(r, p)
    BY <1>4 DEF Arrive
  <2>2. /\ pc[r] = "idle" /\ \A q \in Requests : at[q] # p
        /\ pc' = [pc EXCEPT ![r] = "guards"] /\ at' = [at EXCEPT ![r] = p]
        /\ UNCHANGED <<call, host, dirs>>
    BY <1>4, <2>1 DEF Arrive, serviceVars, Upload!Arrive, Upload!Busy
  <2> QED
    BY <1>1, <2>2 DEF Linked, Upload!Places
<1>5. ASSUME NEW r \in Requests, Handle(r) PROVE Linked'
  <2> USE DEF Upload!Goto, Upload!Answer, Upload!Finally
  <2>1. UNCHANGED <<call, host>>
    BY <1>5 DEF Handle, serviceVars
  <2>2. dirs' \in [Processes -> SUBSET Requests]
    BY <1>1, <1>5 DEF Linked, Handle, Upload!Refuse, Upload!FileMissing, Upload!ReceiveFile,
       Upload!ReceiveFails, Upload!MakesDir, Upload!RejectFile, Upload!AcceptZip,
       Upload!UnzipFails, Upload!HeadFinds, Upload!HeadMisses, Upload!PutObject,
       Upload!PutFails, Upload!Cleanup, Upload!CleanupFails
  <2>3. /\ pc[r] \notin {"idle", "storacha", "done"}
        /\ \/ /\ pc' = [pc EXCEPT ![r] = "done"] /\ at' = [at EXCEPT ![r] = Nobody]
           \/ /\ pc[r] = "guards" /\ pc' = [pc EXCEPT ![r] = "pipes"] /\ at' = at
           \/ /\ pc[r] = "pipes" /\ pc' = [pc EXCEPT ![r] = "unzip"] /\ at' = at
           \/ /\ pc' = [pc EXCEPT ![r] = "put"] /\ at' = at
           \/ /\ pc' = [pc EXCEPT ![r] = "cleanup"] /\ at' = at
    BY <1>5 DEF Handle, Upload!Refuse, Upload!FileMissing, Upload!ReceiveFile,
       Upload!ReceiveFails, Upload!RejectFile, Upload!AcceptZip,
       Upload!UnzipFails, Upload!HeadFinds, Upload!HeadMisses, Upload!PutObject,
       Upload!PutFails, Upload!Cleanup, Upload!CleanupFails
  <2> QED
    BY <1>1, <2>1, <2>2, <2>3 DEF Linked, Upload!Places
<1>6. ASSUME NEW r \in Requests, NEW a \in Service!AuthInfo, CallStoracha(r, a) PROVE Linked'
  <2>1. /\ pc[r] \in {"pipes", "unzip"} /\ pc' = [pc EXCEPT ![r] = "storacha"]
        /\ UNCHANGED <<at, dirs>>
        /\ call[r] = "idle" /\ host' = [host EXCEPT ![r] = at[r]]
        /\ \/ call' = [call EXCEPT ![r] = "lookup"]
           \/ call' = [call EXCEPT ![r] = "creating"]
    BY <1>6 DEF CallStoracha, Upload!Goto, Service!BeginUpload
  <2> QED
    BY <1>1, <2>1 DEF Linked, Upload!Places
<1>7. ASSUME NEW r \in Requests, Proved!Proceed(r)
      PROVE  /\ \A q \in Requests : q # r => call'[q] = call[q] /\ host'[q] = host[q]
             /\ call'[r] # "done" => call'[r] # "idle" /\ host'[r] = host[r]
             /\ call[r] \notin {"idle", "done"}
  BY <1>1, <1>7, BridgeConstantsOK, Proved!OthersUntouched, Proved!PromiseWaits DEF Proved!SameCall
<1>8. ASSUME NEW r \in Requests, Await(r) PROVE Linked'
  BY <1>1, <1>7, <1>8, SameProceed DEF Await, uploadVars, Linked
<1>9. ASSUME NEW r \in Requests, Return(r) \/ Catch(r) PROVE Linked'
  <2>1. /\ Proved!Proceed(r) /\ call'[r] = "done"
        /\ pc[r] = "storacha" /\ UNCHANGED <<at, dirs>>
        /\ \/ pc' = [pc EXCEPT ![r] = "head"]
           \/ pc' = [pc EXCEPT ![r] = "cleanup"]
    BY <1>9, SameProceed DEF Return, Catch, Upload!Goto, Upload!Finally
  <2> QED
    BY <1>1, <1>7, <2>1 DEF Linked, Upload!Places
<1>10. ASSUME NEW p \in Processes, IdleExit(p) PROVE Linked'
  <2>1. UNCHANGED <<pc, at>> /\ dirs' \in [Processes -> SUBSET Requests]
        /\ \A q \in Requests : at[q] # p
    BY <1>1, <1>10 DEF IdleExit, Upload!Busy, Linked
  <2>2. \A q \in Requests : call'[q] = call[q] /\ host'[q] = host[q]
    BY <1>10, <2>1, ExitSame, SameExit DEF IdleExit, ClientDies, serviceVars
  <2> QED
    BY <1>1, <2>1, <2>2 DEF Linked
<1>11. ASSUME NEW r \in Requests, Timeout(r) PROVE Linked'
  <2>1. /\ at[r] \in Processes /\ pc' = [pc EXCEPT ![r] = "done"]
        /\ at' = [at EXCEPT ![r] = Nobody] /\ dirs' \in [Processes -> SUBSET Requests]
    BY <1>1, <1>11 DEF Timeout, Upload!Answer, Upload!DiskOutlives, Linked
  <2>2. /\ \A q \in Requests : q # r => call'[q] = call[q] /\ host'[q] = host[q]
        /\ call'[r] = "done" \/ (call'[r] = call[r] /\ call[r] = "idle")
    <3>1. CASE Service!ProcessExits(at[r])
      <4>1. \A q \in Requests : q # r => at[q] # at[r]
        BY <1>1, <2>1 DEF Linked
      <4> QED
        BY <1>1, <2>1, <3>1, <4>1, ExitSame, SameExit DEF Linked
    <3>2. CASE call[r] \in {"idle", "done"} /\ UNCHANGED serviceVars
      BY <3>2 DEF serviceVars
    <3> QED
      BY <1>11, <3>1, <3>2 DEF Timeout
  <2> QED
    BY <1>1, <2>1, <2>2 DEF Linked, Upload!Places
<1>12. CASE UNCHANGED vars
  BY <1>2, <1>12 DEF vars, serviceVars, uploadVars
<1> QED
  BY <1>3, <1>4, <1>5, <1>6, <1>8, <1>9, <1>10, <1>11, <1>12 DEF Next, Progress

LEMMA ServiceFacts ==
    ASSUME BridgeInv, [Next]_vars
    PROVE  /\ Proved!IsolationInv' /\ Proved!Typed /\ Proved!Typed' /\ Proved!TransfersLand
           /\ [Proved!Next]_Proved!vars
<1>1. [Proved!Next]_Proved!vars
  BY ServiceSteps DEF BridgeInv
<1>2. Proved!IsolationInv'
  BY <1>1, BridgeConstantsOK, Proved!IsolationNext DEF BridgeInv
<1>3. Proved!Typed /\ Proved!Typed'
  BY <1>2 DEF BridgeInv, Proved!IsolationInv, Proved!TableInv
<1>4. Proved!TransfersLand
  BY <1>1, <1>3, BridgeConstantsOK, Proved!ContentsGrowByTransfers
<1> QED
  BY <1>1, <1>2, <1>3, <1>4

LEMMA BridgeNext == BridgeInv /\ [Next]_vars => BridgeInv'
BY ServiceFacts, LinkedNext DEF BridgeInv

LEMMA BridgeInvariant == Spec => []BridgeInv
BY BridgeInit, BridgeNext, PTL DEF Spec

\* With requests around it the service is still the StorachaService that the
\* other theorems are about: all that holds of it on Lambda holds of a bridge.
THEOREM RequestsRunStorachaService == Spec => Service!Spec
<1>1. Init => Service!Init
  BY DEF Init
<1>2. BridgeInv /\ [Next]_vars => [Service!Next]_Service!vars
  BY ServiceFacts, SameNext DEF Service!vars, Proved!vars
<1> QED
  BY <1>1, <1>2, BridgeInvariant, PTL DEF Spec, Service!Spec

-----------------------------------------------------------------------------
(* What a caller that is told of success can count on                      *)

LEMMA KeysOfRequests == Upload!KeyOf \in [Requests -> Upload!Keys]
BY BridgeConstantsOK DEF Upload!KeyOf, Upload!Keys, Upload!Extension

\* Success is the service's to report, and the copy's to confirm.
AckInv ==
    /\ result \in [Requests -> Upload!Results]
    /\ bucket \in [Upload!Keys -> Requests \cup {Nobody}]
    /\ \A r \in Requests : result[r] = "ok" =>
          /\ outcome[r] = "ok"
          /\ Upload!Backup /\ pc[r] \in {"cleanup", "done"} => bucket[Upload!KeyOf[r]] # Nobody

LEMMA AckInit == Init => AckInv
BY BridgeConstantsOK DEF Init, AckInv, Upload!Results

LEMMA AckNext ==
    ASSUME BridgeInv, AckInv, [Next]_vars
    PROVE  AckInv'
<1> USE DEF Upload!Goto, Upload!Answer, Upload!Finally
<1>1. /\ pc \in [Requests -> Upload!Places] /\ result \in [Requests -> Upload!Results]
      /\ bucket \in [Upload!Keys -> Requests \cup {Nobody}]
      /\ Upload!KeyOf \in [Requests -> Upload!Keys] /\ Nobody \notin Requests
  BY BridgeConstantsOK, KeysOfRequests DEF BridgeInv, Linked, AckInv
<1>2. \A q \in Requests : outcome[q] = "ok" => outcome'[q] = "ok"
  <2>1. Proved!Typed /\ [Proved!Next]_Proved!vars
    BY ServiceFacts
  <2>2. \A q \in Requests : outcome[q] = "ok" => call[q] = "done"
    BY <2>1 DEF Proved!Typed, Proved!Placed
  <2> QED
    BY <2>1, <2>2, BridgeConstantsOK, Proved!CallsEnd
<1>3. ASSUME UNCHANGED <<pc, result, bucket>> PROVE AckInv'
  BY <1>2, <1>3 DEF AckInv
<1>4. ASSUME NEW r \in Requests, Upload!Puts(r)
      PROVE  /\ bucket' \in [Upload!Keys -> Requests \cup {Nobody}]
             /\ bucket'[Upload!KeyOf[r]] # Nobody
             /\ \A k \in Upload!Keys : bucket[k] # Nobody => bucket'[k] # Nobody
  BY <1>1, <1>4 DEF Upload!Puts
<1>5. ASSUME NEW r \in Requests, Arrive(r) PROVE AckInv'
  BY <1>1, <1>2, <1>5 DEF Arrive, Upload!Arrive, AckInv
<1>6. ASSUME NEW r \in Requests, Handle(r) PROVE AckInv'
  <2>1. CASE Upload!Refuse(r) \/ Upload!FileMissing(r) \/ Upload!ReceiveFile(r)
             \/ Upload!ReceiveFails(r) \/ Upload!RejectFile(r)
    BY <1>1, <1>2, <2>1 DEF AckInv, Upload!Results, Upload!Refuse, Upload!FileMissing,
       Upload!ReceiveFile, Upload!ReceiveFails, Upload!RejectFile
  <2>2. CASE Upload!AcceptZip(r) \/ Upload!UnzipFails(r) \/ Upload!Cleanup(r)
             \/ Upload!CleanupFails(r)
    BY <1>1, <1>2, <2>2 DEF AckInv, Upload!Results, Upload!AcceptZip, Upload!UnzipFails,
       Upload!Cleanup, Upload!CleanupFails
  <2>3. CASE Upload!HeadFinds(r) \/ Upload!HeadMisses(r)
    BY <1>1, <1>2, <2>3 DEF AckInv, Upload!HeadFinds, Upload!HeadMisses
  <2>4. CASE Upload!PutObject(r)
    BY <1>1, <1>2, <1>4, <2>4 DEF AckInv, Upload!PutObject
  <2>5. CASE Upload!PutFails(r)
    BY <1>1, <1>2, <1>4, <2>5 DEF AckInv, Upload!Results, Upload!PutFails
  <2> QED
    BY <1>6, <2>1, <2>2, <2>3, <2>4, <2>5 DEF Handle
<1>7. ASSUME NEW r \in Requests, NEW a \in Service!AuthInfo, CallStoracha(r, a) PROVE AckInv'
  BY <1>1, <1>2, <1>7 DEF CallStoracha, AckInv
<1>8. ASSUME NEW r \in Requests, Return(r) PROVE AckInv'
  BY <1>1, <1>2, <1>8 DEF Return, AckInv, Upload!Results
<1>9. ASSUME NEW r \in Requests, Catch(r) PROVE AckInv'
  BY <1>1, <1>2, <1>9 DEF Catch, AckInv, Upload!Results
<1>10. ASSUME NEW r \in Requests, Timeout(r) PROVE AckInv'
  BY <1>1, <1>2, <1>4, <1>10 DEF Timeout, AckInv, Upload!Results
<1>11. ASSUME Operator \/ (\E r \in Requests : Await(r)) \/ (\E p \in Processes : IdleExit(p))
              \/ UNCHANGED vars
       PROVE  AckInv'
  BY <1>3, <1>11 DEF Operator, Await, IdleExit, vars, uploadVars
<1> QED
  BY <1>5, <1>6, <1>7, <1>8, <1>9, <1>10, <1>11 DEF Next, Progress

\* A caller that is told of success has its payload in one space, of the owner
\* it named, a did in the owner's row and, where copies are made, a copy in the
\* bucket, for any number of requests, environments, wallets and proofs, and
\* whatever times out: the service's theorems and the request's in one.
THEOREM AcksHoldEndToEnd == Spec => []AcksHold
<1>1. BridgeInv /\ AckInv => AcksHold
  <2> SUFFICES ASSUME BridgeInv, AckInv, NEW r \in Requests, pc[r] = "done", result[r] = "ok"
               PROVE  /\ \E s \in Service!OwnSpaces(Service!Owner(r)) :
                            \A t \in Spaces : r \in contents[t] <=> t = s
                      /\ rows[Service!Owner(r)].did # Nobody
                      /\ Upload!Backup => bucket[Upload!KeyOf[r]] # Nobody
    BY DEF AcksHold
  <2>1. outcome[r] = "ok" /\ (Upload!Backup => bucket[Upload!KeyOf[r]] # Nobody)
    BY DEF AckInv
  <2>2. Proved!SuccessIsStored /\ Proved!UploadsInOwnSpace /\ Proved!DidSaved
    BY DEF BridgeInv, Proved!IsolationInv, Proved!StoredInv, Proved!TableInv
  <2>3. PICK s \in Spaces : \A t \in Spaces : r \in contents[t] <=> t = s
    BY <2>1, <2>2 DEF Proved!SuccessIsStored
  <2>4. s \in Proved!OwnSpaces(Proved!Owner(r))
    BY <2>2, <2>3 DEF Proved!UploadsInOwnSpace
  <2>5. Service!Owner(r) = Proved!Owner(r) /\ s \in Service!OwnSpaces(Service!Owner(r))
    BY <2>4 DEF Service!Owner, Proved!Owner, Service!OwnSpaces, Proved!OwnSpaces
  <2>6. rows[Service!Owner(r)].did # Nobody
    BY <2>1, <2>2, <2>5 DEF Proved!DidSaved
  <2> QED
    BY <2>1, <2>3, <2>5, <2>6
<1> QED
  BY <1>1, AckInit, AckNext, BridgeInvariant, PTL DEF Spec

-----------------------------------------------------------------------------
(* Nothing is tried twice                                                  *)

LEMMA CallGoesForward ==
    ASSUME BridgeInv, [Next]_vars, NEW r \in Requests
    PROVE  /\ Service!CallNo[call[r]] <= Service!CallNo[call'[r]]
           /\ Await(r) \/ Return(r) \/ Catch(r) => call'[r] # call[r]
<1> USE DEF Service!CallNo, Proved!CallNo, Proved!Places, Proved!Active
<1>1. /\ Linked /\ Proved!Typed /\ [Proved!Next]_Proved!vars
      /\ call \in [Requests -> Proved!Places] /\ call' \in [Requests -> Proved!Places]
  BY ServiceFacts DEF BridgeInv, Proved!Typed, Proved!TypeOK
<1>2. ASSUME Proved!Proceed(r)
      PROVE  Service!CallNo[call[r]] < Service!CallNo[call'[r]] /\ call'[r] # call[r]
  <2>1. \A a \in Proved!Places : Service!CallNo[a] = Proved!CallNo[a] /\ Service!CallNo[a] \in Int
    OBVIOUS
  <2> HIDE DEF Service!CallNo, Proved!CallNo, Proved!Places
  <2>2. Proved!CallNo[call[r]] < Proved!CallNo[call'[r]]
    BY <1>1, <1>2, BridgeConstantsOK, Proved!ProceedGoesForward
  <2> QED
    BY <1>1, <2>1, <2>2
<1>3. ASSUME NEW q \in Requests, Proved!Proceed(q), q # r PROVE call'[r] = call[r]
  BY <1>1, <1>3, BridgeConstantsOK, Proved!OthersUntouched DEF Proved!SameCall
<1>4. ASSUME NEW q \in Requests, NEW p \in Processes, NEW a \in Proved!AuthInfo,
             Proved!BeginUpload(q, p, a)
      PROVE  Service!CallNo[call[r]] <= Service!CallNo[call'[r]]
  BY <1>1, <1>4 DEF Proved!BeginUpload
<1>5. ASSUME NEW p \in Processes, Proved!ProcessExits(p)
      PROVE  call'[r] = call[r] \/ call'[r] = "done"
  BY <1>1, <1>5 DEF Proved!ProcessExits
<1>6. ASSUME Proved!Operator \/ UNCHANGED Proved!vars PROVE call' = call
  BY <1>6 DEF Proved!Operator, Proved!AssociateSpace, Proved!ReplaceProof, Proved!vars
<1>7. Service!CallNo[call[r]] <= Service!CallNo[call'[r]]
  <2>1. call'[r] = call[r] \/ call'[r] = "done" => Service!CallNo[call[r]] <= Service!CallNo[call'[r]]
    BY <1>1
  <2>2. Service!CallNo[call[r]] < Service!CallNo[call'[r]] =>
           Service!CallNo[call[r]] <= Service!CallNo[call'[r]]
    BY <1>1
  <2> HIDE DEF Service!CallNo, Proved!CallNo, Proved!Places
  <2> QED
    BY <1>1, <1>2, <1>3, <1>4, <1>5, <1>6, <2>1, <2>2 DEF Proved!Next, Proved!Arrive
<1>8. Await(r) \/ Return(r) \/ Catch(r) => call'[r] # call[r]
  BY <1>2, SameProceed DEF Await, Return, Catch
<1> QED
  BY <1>7, <1>8

LEMMA RequestGoesForward ==
    ASSUME Linked, Linked', [Next]_vars, NEW r \in Requests
    PROVE  /\ PlaceNo[pc[r]] <= PlaceNo[pc'[r]]
           /\ Handle(r) \/ (\E a \in Service!AuthInfo : CallStoracha(r, a)) => pc'[r] # pc[r]
<1> USE DEF PlaceNo, Upload!Places, Upload!Goto, Upload!Answer, Upload!Finally
<1>1. pc \in [Requests -> Upload!Places] /\ pc' \in [Requests -> Upload!Places]
  BY DEF Linked
<1>2. ASSUME NEW q \in Requests, Handle(q)
      PROVE  /\ q = r => PlaceNo[pc[r]] < PlaceNo[pc'[r]]
             /\ q # r => pc'[r] = pc[r]
  <2>1. CASE Upload!Refuse(q) \/ Upload!FileMissing(q) \/ Upload!ReceiveFile(q)
             \/ Upload!ReceiveFails(q) \/ Upload!RejectFile(q)
    BY <1>1, <2>1 DEF Upload!Refuse, Upload!FileMissing, Upload!ReceiveFile,
       Upload!ReceiveFails, Upload!RejectFile
  <2>2. CASE Upload!AcceptZip(q) \/ Upload!UnzipFails(q) \/ Upload!HeadFinds(q)
             \/ Upload!HeadMisses(q)
    BY <1>1, <2>2 DEF Upload!AcceptZip, Upload!UnzipFails, Upload!HeadFinds, Upload!HeadMisses
  <2>3. CASE Upload!PutObject(q) \/ Upload!PutFails(q) \/ Upload!Cleanup(q)
             \/ Upload!CleanupFails(q)
    BY <1>1, <2>3 DEF Upload!PutObject, Upload!PutFails, Upload!Cleanup, Upload!CleanupFails
  <2> QED
    BY <1>2, <2>1, <2>2, <2>3 DEF Handle
<1>3. ASSUME NEW q \in Requests, NEW a \in Service!AuthInfo, CallStoracha(q, a)
      PROVE  /\ q = r => PlaceNo[pc[r]] < PlaceNo[pc'[r]]
             /\ q # r => pc'[r] = pc[r]
  BY <1>1, <1>3 DEF CallStoracha
<1>4. ASSUME NEW q \in Requests, Arrive(q) PROVE PlaceNo[pc[r]] <= PlaceNo[pc'[r]]
  BY <1>1, <1>4 DEF Arrive, Upload!Arrive
<1>5. ASSUME NEW q \in Requests, Return(q) \/ Catch(q) PROVE PlaceNo[pc[r]] <= PlaceNo[pc'[r]]
  BY <1>1, <1>5 DEF Return, Catch
<1>6. ASSUME NEW q \in Requests, Timeout(q) PROVE PlaceNo[pc[r]] <= PlaceNo[pc'[r]]
  BY <1>1, <1>6 DEF Timeout
<1>7. ASSUME Operator \/ (\E q \in Requests : Await(q)) \/ (\E p \in Processes : IdleExit(p))
             \/ UNCHANGED vars
      PROVE  pc' = pc
  BY <1>7 DEF Operator, Await, IdleExit, vars, uploadVars
<1>8. PlaceNo[pc[r]] <= PlaceNo[pc'[r]]
  <2>1. pc'[r] = pc[r] => PlaceNo[pc[r]] <= PlaceNo[pc'[r]]
    BY <1>1
  <2>2. PlaceNo[pc[r]] < PlaceNo[pc'[r]] => PlaceNo[pc[r]] <= PlaceNo[pc'[r]]
    BY <1>1
  <2> HIDE DEF PlaceNo, Upload!Places, Upload!Goto, Upload!Answer, Upload!Finally
  <2>3. ASSUME NEW q \in Requests, Handle(q) PROVE PlaceNo[pc[r]] <= PlaceNo[pc'[r]]
    BY <1>2, <2>1, <2>2, <2>3
  <2>4. ASSUME NEW q \in Requests, NEW a \in Service!AuthInfo, CallStoracha(q, a)
        PROVE  PlaceNo[pc[r]] <= PlaceNo[pc'[r]]
    BY <1>3, <2>1, <2>2, <2>4
  <2> QED
    BY <1>4, <1>5, <1>6, <1>7, <2>1, <2>3, <2>4 DEF Next, Progress
<1> QED
  BY <1>1, <1>2, <1>3, <1>8

\* A request never goes back and neither does its call, and each step of its
\* own takes one of them on: what makes every request end, once the event loop
\* is fair, for any number of requests and environments.
THEOREM RequestsGoForward == Spec => NothingIsRetried
<1>1. BridgeInv /\ [Next]_vars =>
        [\A r \in Requests :
            /\ PlaceNo[pc[r]] <= PlaceNo[pc'[r]]
            /\ Service!CallNo[call[r]] <= Service!CallNo[call'[r]]
            /\ Progress(r) => pc'[r] # pc[r] \/ call'[r] # call[r]]_vars
  BY CallGoesForward, RequestGoesForward, BridgeNext DEF BridgeInv, Progress
<1> QED
  BY <1>1, BridgeInvariant, PTL DEF Spec, NothingIsRetried

-----------------------------------------------------------------------------
(* The promise is kept to the requests                                     *)

\* What the steps of the service and those of the request have to match.
LEMMA SpaceStays == UNCHANGED serviceVars => UNCHANGED Upload!spaceVars
BY DEF serviceVars, Upload!spaceVars, Service!OwnSpaces, Service!Owner, Service!Status

LEMMA CallSteps ==
    ASSUME BridgeInv, Proved!Typed', Proved!TransfersLand, NEW r \in Requests
    PROVE  /\ Await(r) => UNCHANGED Upload!vars
           /\ Return(r) => \E s \in Spaces : Upload!StorachaSucceeds(r, s)
           /\ Catch(r) => Upload!StorachaFails(r)
<1> USE BridgeConstantsOK DEF BridgeInv
<1>1. ASSUME Await(r) PROVE UNCHANGED Upload!vars
  <2>1. UNCHANGED Proved!Promise!vars
    BY <1>1, SameProceed, Proved!PromiseWaits DEF Await
  <2>2. UNCHANGED Upload!spaceVars
    BY <2>1, SamePromise
  <2> QED
    BY <1>1, <2>2 DEF Await, uploadVars, Upload!vars, Upload!spaceVars
<1>2. ASSUME Return(r) PROVE \E s \in Spaces : Upload!StorachaSucceeds(r, s)
  <2>1. target[r] \in Spaces /\ Proved!Promise!Succeed(r, target[r])
    BY <1>2, SameProceed, Proved!PromiseSucceeds DEF Return
  <2>2. Upload!Storacha!Succeed(r, target[r])
    BY <2>1, SamePromise
  <2>3. Upload!StorachaSucceeds(r, target[r])
    BY <1>2, <2>2 DEF Return, Upload!StorachaSucceeds
  <2> QED
    BY <2>1, <2>3
<1>3. ASSUME Catch(r) PROVE Upload!StorachaFails(r)
  <2>1. /\ Proved!Active(r) /\ UNCHANGED <<assigned, auth>>
        /\ \A q \in Requests : q # r => Proved!SameCall(q)
    BY <1>3, SameProceed, Proved!ProceedSame DEF Catch
  <2>2. Proved!Promise!Fail(r)
    BY <1>3, <2>1, Proved!PromiseFail DEF Catch
  <2> QED
    BY <1>3, <2>2, SamePromise DEF Catch, Upload!StorachaFails
<1> QED
  BY <1>1, <1>2, <1>3

LEMMA ExitSteps ==
    ASSUME BridgeInv, Proved!Typed', Proved!TransfersLand, NEW p \in Processes,
           Service!ProcessExits(p)
    PROVE  \/ \E r \in Requests : at[r] = p /\ pc[r] = "storacha" /\ Upload!Storacha!Fail(r)
           \/ (\A r \in Requests : at[r] = p => pc[r] # "storacha") /\ UNCHANGED Upload!spaceVars
<1> USE BridgeConstantsOK DEF BridgeInv
<1>1. Proved!ProcessExits(p)
  BY SameExit
<1>2. /\ \A r \in Requests : Proved!ActiveOn(r, p) => Proved!Promise!Fail(r)
      /\ (\A r \in Requests : ~Proved!ActiveOn(r, p)) => UNCHANGED Proved!Promise!vars
  BY <1>1, Proved!PromiseExit
<1>3. \A r \in Requests : Proved!ActiveOn(r, p) <=> at[r] = p /\ pc[r] = "storacha"
  BY <1>1, ExitSame
<1> QED
  BY <1>2, <1>3, SamePromise

LEMMA UploadSteps ==
    ASSUME BridgeInv, [Next]_vars
    PROVE  [Upload!Next]_Upload!vars
<1>1. Linked /\ Proved!Typed /\ Proved!Typed' /\ Proved!TransfersLand
  BY ServiceFacts DEF BridgeInv
<1>2. CASE Operator
  <2>1. UNCHANGED Proved!Promise!vars \/ \E w \in Wallets, s \in Spaces : Proved!Promise!Give(w, s)
    BY <1>1, <1>2, BridgeConstantsOK, SameOperator, Proved!PromiseOperator
       DEF Operator, Service!Operator
  <2>2. UNCHANGED Upload!spaceVars \/ \E w \in Wallets, s \in Spaces : Upload!Storacha!Give(w, s)
    BY <2>1, SamePromise
  <2> QED
    BY <1>2, <2>2 DEF Operator, uploadVars, Upload!Operator, Upload!Next, Upload!vars,
       Upload!spaceVars
<1>3. ASSUME NEW r \in Requests, Arrive(r) \/ Handle(r) PROVE Upload!Next
  BY <1>3 DEF Arrive, Handle, Upload!Step, Upload!Next
<1>4. ASSUME NEW r \in Requests, NEW a \in Service!AuthInfo, CallStoracha(r, a)
      PROVE  Upload!Next
  <2>1. at[r] \in Processes /\ a.walletAddress # Nobody
    BY <1>1, <1>4 DEF CallStoracha, Upload!Goto, Linked
  <2>2. Proved!BeginUpload(r, at[r], a) /\ a \in Proved!AuthInfo
    BY <1>4, <2>1, SameBegin, SameState DEF CallStoracha
  <2>3. PICK w \in Wallets : Proved!Promise!Begin(r, w)
    BY <1>1, <2>1, <2>2, BridgeConstantsOK, Proved!PromiseBegin
  <2>4. Upload!CallStoracha(r, w)
    BY <1>4, <2>3, SamePromise DEF CallStoracha, Upload!CallStoracha
  <2> QED
    BY <2>4 DEF Upload!Step, Upload!Next
<1>5. ASSUME NEW r \in Requests, Await(r) \/ Return(r) \/ Catch(r)
      PROVE  [Upload!Next]_Upload!vars
  BY <1>1, <1>5, CallSteps DEF Upload!Step, Upload!Next
<1>6. ASSUME NEW p \in Processes, IdleExit(p) PROVE [Upload!Next]_Upload!vars
  <2>1. UNCHANGED Upload!spaceVars
    BY <1>1, <1>6, ExitSteps, SpaceStays DEF IdleExit, ClientDies, Upload!Busy
  <2>2. CASE dirs[p] # {}
    BY <1>6, <2>1, <2>2 DEF IdleExit, Upload!IdleExit, Upload!Next
  <2>3. CASE dirs[p] = {}
    <3>1. dirs' = dirs
      BY <1>1, <1>6, <2>3 DEF IdleExit, Linked
    <3> QED
      BY <1>6, <2>1, <3>1 DEF IdleExit, Upload!vars, Upload!spaceVars
  <2> QED
    BY <2>2, <2>3
<1>7. ASSUME NEW r \in Requests, Timeout(r) PROVE Upload!Next
  <2>1. at[r] \in Processes /\ \A q \in Requests : at[q] = at[r] => q = r
    BY <1>1, <1>7 DEF Timeout, Linked
  <2>2. IF pc[r] = "storacha" THEN Upload!Storacha!Fail(r) ELSE UNCHANGED Upload!spaceVars
    <3>1. CASE Service!ProcessExits(at[r])
      BY <1>1, <2>1, <3>1, ExitSteps
    <3>2. CASE call[r] \in {"idle", "done"} /\ UNCHANGED serviceVars
      BY <1>1, <3>2, SpaceStays DEF Linked, Proved!Active
    <3> QED
      BY <1>7, <3>1, <3>2 DEF Timeout
  <2>3. Upload!Timeout(r)
    BY <1>7, <2>2 DEF Timeout, Upload!Timeout
  <2> QED
    BY <2>3 DEF Upload!Step, Upload!Next
<1>8. CASE UNCHANGED vars
  BY <1>8, SpaceStays DEF vars, uploadVars, Upload!vars, Upload!spaceVars
<1> QED
  BY <1>2, <1>3, <1>4, <1>5, <1>6, <1>7, <1>8 DEF Next, Progress

LEMMA UploadInit == Init => Upload!Init
<1> SUFFICES ASSUME Init PROVE Upload!Init
  OBVIOUS
<1>1. Upload!Storacha!Init
  BY BridgeConstantsOK, SameInit, SamePromise, Proved!PromiseInit DEF Init
<1> QED
  BY <1>1 DEF Init, Upload!Init

\* Requests that run the service itself do what UploadService says of requests
\* that have its promise: timeouts and exits included, all that holds of
\* UploadService holds of them.
THEOREM RequestsImplementUploadService == Spec => ImplementsUploadService
BY BridgeInvariant, UploadInit, UploadSteps, PTL DEF Spec, ImplementsUploadService, Upload!Spec

-----------------------------------------------------------------------------
(* It is the UploadService that has been proved about.                     *)

LEMMA SameUploadInit == Upload!Init => Kept!Init
BY DEF Upload!Init, Kept!Init, Upload!Storacha!Init, Kept!Storacha!Init, Upload!Keys, Kept!Keys

LEMMA SameUploadStep ==
    ASSUME NEW r \in Requests
    PROVE  Upload!Step(r) => Kept!Step(r)
<1> USE DEF Upload!Goto, Kept!Goto, Upload!Answer, Kept!Answer, Upload!Finally, Kept!Finally,
            Upload!spaceVars, Kept!spaceVars
<1>1. /\ \A p \in Processes : Upload!Arrive(r, p) => Kept!Arrive(r, p)
      /\ Upload!Refuse(r) => Kept!Refuse(r)
      /\ Upload!FileMissing(r) => Kept!FileMissing(r)
  BY DEF Upload!Arrive, Kept!Arrive, Upload!Busy, Kept!Busy, Upload!Refuse, Kept!Refuse,
     Upload!FileMissing, Kept!FileMissing
<1>2. /\ Upload!ReceiveFile(r) => Kept!ReceiveFile(r)
      /\ Upload!ReceiveFails(r) => Kept!ReceiveFails(r)
  BY DEF Upload!ReceiveFile, Kept!ReceiveFile, Upload!ReceiveFails, Kept!ReceiveFails,
     Upload!MakesDir, Kept!MakesDir
<1>3. /\ Upload!RejectFile(r) => Kept!RejectFile(r)
      /\ Upload!AcceptZip(r) => Kept!AcceptZip(r)
      /\ Upload!UnzipFails(r) => Kept!UnzipFails(r)
  BY DEF Upload!RejectFile, Kept!RejectFile, Upload!AcceptZip, Kept!AcceptZip,
     Upload!UnzipFails, Kept!UnzipFails
<1>4. /\ \A w \in Wallets : Upload!CallStoracha(r, w) => Kept!CallStoracha(r, w)
      /\ \A s \in Spaces : Upload!StorachaSucceeds(r, s) => Kept!StorachaSucceeds(r, s)
      /\ Upload!StorachaFails(r) => Kept!StorachaFails(r)
  BY DEF Upload!CallStoracha, Kept!CallStoracha, Upload!StorachaSucceeds, Kept!StorachaSucceeds,
     Upload!StorachaFails, Kept!StorachaFails, Upload!Storacha!Begin, Kept!Storacha!Begin,
     Upload!Storacha!Succeed, Kept!Storacha!Succeed, Upload!Storacha!Fail, Kept!Storacha!Fail,
     Upload!Storacha!Stored, Kept!Storacha!Stored, Upload!Backup, Kept!Backup
<1>5. /\ Upload!HeadFinds(r) => Kept!HeadFinds(r)
      /\ Upload!HeadMisses(r) => Kept!HeadMisses(r)
      /\ Upload!PutObject(r) => Kept!PutObject(r)
      /\ Upload!PutFails(r) => Kept!PutFails(r)
  BY DEF Upload!HeadFinds, Kept!HeadFinds, Upload!HeadMisses, Kept!HeadMisses, Upload!PutObject,
     Kept!PutObject, Upload!PutFails, Kept!PutFails, Upload!Puts, Kept!Puts, Upload!KeyOf,
     Kept!KeyOf, Upload!Extension, Kept!Extension
<1>6. /\ Upload!Cleanup(r) => Kept!Cleanup(r)
      /\ Upload!CleanupFails(r) => Kept!CleanupFails(r)
      /\ Upload!Timeout(r) => Kept!Timeout(r)
  BY DEF Upload!Cleanup, Kept!Cleanup, Upload!CleanupFails, Kept!CleanupFails, Upload!Timeout,
     Kept!Timeout, Upload!DiskOutlives, Kept!DiskOutlives, Upload!Storacha!Fail,
     Kept!Storacha!Fail, Upload!Storacha!Stored, Kept!Storacha!Stored, Upload!Puts, Kept!Puts,
     Upload!KeyOf, Kept!KeyOf, Upload!Extension, Kept!Extension
<1> QED
  BY <1>1, <1>2, <1>3, <1>4, <1>5, <1>6 DEF Upload!Step, Kept!Step

LEMMA SameUpload == Upload!Spec => Kept!Spec
<1>1. Upload!Operator => Kept!Operator
  BY DEF Upload!Operator, Kept!Operator, Upload!Storacha!Give, Kept!Storacha!Give
<1>2. ASSUME NEW p \in Processes PROVE Upload!IdleExit(p) => Kept!IdleExit(p)
  BY DEF Upload!IdleExit, Kept!IdleExit, Upload!Busy, Kept!Busy, Upload!spaceVars, Kept!spaceVars
<1>3. [Upload!Next]_Upload!vars => [Kept!Next]_Kept!vars
  BY <1>1, <1>2, SameUploadStep DEF Upload!Next, Kept!Next, Upload!vars, Kept!vars
<1> QED
  BY <1>3, SameUploadInit, PTL DEF Upload!Spec, Kept!Spec

\* What holds of requests with the promise of the service holds of requests
\* that run it: a copy in the bucket is of a payload in a space, a request
\* turned down before Storacha leaves nothing anywhere, and the files it had
\* on disk are gone unless its handler never ran, was cut off or failed to.
THEOREM RequestsKeepWhatTheyAreTrustedWith ==
    Spec => [](/\ Upload!BackupsAreStored
               /\ Upload!TurnedDownLeavesNothing
               /\ Upload!TempSwept)
<1>1. Spec => Kept!Spec
  BY RequestsImplementUploadService, SameUpload DEF ImplementsUploadService
<1>2. /\ Kept!Spec => []Kept!BackupsAreStored
      /\ Kept!Spec => []Kept!TurnedDownLeavesNothing
      /\ Kept!Spec => []Kept!TempSwept
  BY BridgeConstantsOK, Kept!CopiesFollowStoracha, Kept!TurnedDownRequestsLeaveNothing,
     Kept!HandlersSweepTheirFiles
<1>3. /\ Kept!BackupsAreStored => Upload!BackupsAreStored
      /\ Kept!TurnedDownLeavesNothing => Upload!TurnedDownLeavesNothing
      /\ Kept!TempSwept => Upload!TempSwept
  BY DEF Kept!BackupsAreStored, Upload!BackupsAreStored, Kept!TurnedDownLeavesNothing,
     Upload!TurnedDownLeavesNothing, Kept!TempSwept, Upload!TempSwept, Kept!Answered,
     Upload!Answered, Kept!Keys, Upload!Keys
<1> QED
  BY <1>1, <1>2, <1>3, PTL
=============================================================================
