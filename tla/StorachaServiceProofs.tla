------------------------ MODULE StorachaServiceProofs ------------------------
EXTENDS StorachaService, Integers, TLAPS

-----------------------------------------------------------------------------
(* Types                                                                   *)

\* What selecting and adding a space make of a client.
LEMMA SelectingClient ==
    ASSUME NEW c \in Client, NEW s \in Spaces
    PROVE  /\ Selecting(c, s) \in Client
           /\ Selecting(c, s).made = c.made
           /\ Selecting(c, s).known = c.known
           /\ Selecting(c, s).current = s
BY DEF Selecting, Client

LEMMA AddingClient ==
    ASSUME NEW c \in Client, NEW s \in Spaces
    PROVE  /\ Adding(c, s) \in Client
           /\ Adding(c, s).made = c.made
           /\ Adding(c, s).known = c.known \cup {s}
BY DEF Adding, Client

\* A row that is there has a proof.
RowsFilled == \A w \in Wallets : rows[w] # NoRow => rows[w].proof \in Proofs

\* The places of a call between the read of its row and its end.
RowInHand == {"select", "addSpace", "selectParsed", "saveDid", "files", "uploading"}

\* A call that has begun has a wallet to work for and, while it runs, a
\* process; the row it has read has a proof, which it has parsed by the time
\* it selects the proof's space.
Placed ==
    \A r \in Requests :
        /\ pc[r] = "idle" => auth[r] = NoAuth
        /\ pc[r] # "idle" => auth[r].walletAddress # None
        /\ Active(r) => at[r] \in Processes
        /\ pc[r] = "uploading" => target[r] \in Spaces
        /\ pc[r] # "uploading" => target[r] = None
        /\ pc[r] # "done" => outcome[r] = "none"
        /\ pc[r] \in RowInHand => found[r].proof \in Proofs /\ rows[Owner(r)].proof \in Proofs
        /\ pc[r] \in {"selectParsed", "saveDid"} => ParsedDid(r) \in Spaces

Typed == TypeOK /\ RowsFilled /\ Placed

\* The looked-up address is that of a wallet as soon as the call has begun.
LEMMA OwnerIsAWallet ==
    ASSUME Typed, NEW r \in Requests, pc[r] # "idle"
    PROVE  Owner(r) \in Wallets /\ LookupAddress(r) = Owner(r)
BY DEF Typed, TypeOK, Placed, AuthInfo, Owner, LookupAddress

\* The update of the did column leaves the proof of every row alone.
LEMMA DidWritten ==
    ASSUME Typed, NEW r \in Requests, pc[r] = "saveDid", WriteDid(r)
    PROVE  /\ rows' \in [Wallets -> Row]
           /\ \A w \in Wallets :
                 /\ rows'[w].proof = rows[w].proof
                 /\ rows'[w].did = IF w = Owner(r) THEN ParsedDid(r) ELSE rows[w].did
           /\ RowsFilled'
<1>1. Owner(r) \in Wallets /\ LookupAddress(r) = Owner(r)
  BY OwnerIsAWallet
<1>2. ParsedDid(r) \in Spaces /\ rows[Owner(r)].proof \in Proofs /\ rows \in [Wallets -> Row]
  BY DEF Typed, TypeOK, Placed, RowInHand
<1>3. rows' = [rows EXCEPT ![Owner(r)].did = ParsedDid(r)]
  BY <1>1 DEF WriteDid
<1>4. /\ rows' \in [Wallets -> Row]
      /\ \A w \in Wallets :
            /\ rows'[w].proof = rows[w].proof
            /\ rows'[w].did = IF w = Owner(r) THEN ParsedDid(r) ELSE rows[w].did
  BY <1>1, <1>2, <1>3 DEF Row
<1>5. \A w \in Wallets : w # Owner(r) => rows'[w] = rows[w]
  BY <1>2, <1>3
<1> QED
  BY <1>2, <1>4, <1>5 DEF Typed, RowsFilled

LEMMA ProofReplaced ==
    ASSUME rows \in [Wallets -> Row], NEW w \in Wallets, NEW p \in Proofs, ReplaceProof(w, p)
    PROVE  /\ rows' \in [Wallets -> Row]
           /\ \A v \in Wallets :
                 /\ rows'[v].proof = IF v = w THEN p ELSE rows[v].proof
                 /\ rows'[v].did = rows[v].did
BY DEF ReplaceProof, Row

LEMMA TypedInit == Init => Typed
BY ConstantsOK DEF Init, Typed, TypeOK, RowsFilled, RowInHand, Placed, Owner, Row, NoRow, Client, NoClient, AuthInfo, NoAuth,
   Places, Outcomes, Active

LEMMA TypedNext == Typed /\ [Next]_vars => Typed'
<1> SUFFICES ASSUME Typed, [Next]_vars PROVE Typed'
  OBVIOUS
<1> USE DEF Typed, TypeOK, RowsFilled, RowInHand, Placed, ParsedDid, Owner, Row, NoRow, AuthInfo,
            NoAuth, Places, Outcomes, Active
<1>1. ASSUME NEW w \in Wallets, NEW p \in Proofs, AssociateSpace(w, p) PROVE Typed'
  BY <1>1 DEF AssociateSpace
<1>2. ASSUME NEW w \in Wallets, NEW p \in Proofs, ReplaceProof(w, p) PROVE Typed'
  <2>1. rows' \in [Wallets -> Row] /\ \A v \in Wallets : rows'[v].proof \in {rows[v].proof, p}
    BY <1>2, ProofReplaced
  <2>2. RowsFilled'
    BY <1>2, <2>1 DEF ReplaceProof
  <2>3. Placed'
    BY <1>2, <2>1, OwnerIsAWallet DEF ReplaceProof
  <2> QED
    BY <1>2, <2>1, <2>2, <2>3 DEF ReplaceProof
<1>3. ASSUME NEW r \in Requests, NEW p \in Processes, NEW a \in AuthInfo,
             a.walletAddress # None, BeginUpload(r, p, a)
      PROVE  Typed'
  BY <1>3 DEF BeginUpload
<1>4. ASSUME NEW r \in Requests, Proceed(r) PROVE Typed'
  <2> USE DEF Goto, Settle
  <2>1. CASE CreateClient(r)
    BY <2>1 DEF CreateClient, Client, FreshClient
  <2>2. CASE CreateFails(r)
    BY <2>2 DEF CreateFails
  <2>3. CASE FindSpace(r)
    BY <2>3, OwnerIsAWallet DEF FindSpace
  <2>4. CASE FindNothing(r)
    BY <2>4 DEF FindNothing
  <2>5. CASE FindFails(r)
    BY <2>5 DEF FindFails
  <2>6. CASE SelectStoredDid(r)
    <3>1. found[r].did \in Spaces
      BY <2>6 DEF SelectStoredDid, Selectable, Client
    <3>2. client' \in [Processes -> Client]
      BY <2>6, <3>1, SelectingClient DEF SelectStoredDid
    <3> QED
      BY <2>6, <3>2 DEF SelectStoredDid
  <2>7. CASE StoredDidUnknown(r)
    BY <2>7 DEF StoredDidUnknown
  <2>8. CASE AddSpace(r)
    <3>1. ParsedDid(r) \in Spaces
      BY <2>8, ConstantsOK DEF AddSpace, Goto
    <3>2. client' \in [Processes -> Client]
      BY <2>8, <3>1, AddingClient DEF AddSpace
    <3> QED
      BY <2>8, <3>1, <3>2 DEF AddSpace
  <2>9. CASE ProofRejected(r)
    BY <2>9 DEF ProofRejected
  <2>10. CASE SelectParsedDid(r)
    <3>1. client' \in [Processes -> Client]
      BY <2>10, SelectingClient DEF SelectParsedDid
    <3> QED
      BY <2>10, <3>1 DEF SelectParsedDid
  <2>11. CASE SelectParsedFails(r)
    BY <2>11 DEF SelectParsedFails
  <2>12. CASE SaveDid(r)
    BY <2>12, DidWritten DEF SaveDid
  <2>13. CASE SaveDidFails(r)
    <3>1. /\ rows' \in [Wallets -> Row]
          /\ RowsFilled'
          /\ \A w \in Wallets : rows'[w].proof = rows[w].proof
      BY <2>13, DidWritten DEF SaveDidFails
    <3>2. Placed'
      BY <2>13, <3>1, OwnerIsAWallet DEF SaveDidFails
    <3> QED
      BY <2>13, <3>1, <3>2 DEF SaveDidFails
  <2>14. CASE FilesFail(r)
    BY <2>14 DEF FilesFail
  <2>15. CASE NotASingleFile(r)
    BY <2>15 DEF NotASingleFile
  <2>16. CASE StartTransfer(r)
    <3>1. client[at[r]].current \in Spaces
      BY <2>16 DEF StartTransfer, Client
    <3> QED
      BY <2>16, <3>1 DEF StartTransfer
  <2>17. CASE NoCurrentSpace(r)
    BY <2>17 DEF NoCurrentSpace
  <2>18. CASE FinishTransfer(r)
    BY <2>18 DEF FinishTransfer
  <2>19. CASE FailTransfer(r)
    <3>1. Settle(r, "uploading", "uploadError") /\ UNCHANGED <<rows, assigned, client, auth>>
      BY <2>19 DEF FailTransfer
    <3>2. CASE UNCHANGED contents
      BY <3>1, <3>2
    <3>3. CASE contents' = [contents EXCEPT ![target[r]] = @ \cup {r}]
      <4>1. contents' \in [Spaces -> SUBSET Requests]
        BY <3>3
      <4>2. Placed'
        BY <3>1
      <4> QED
        BY <3>1, <4>1, <4>2
    <3> QED
      BY <2>19, <3>2, <3>3 DEF FailTransfer
  <2> QED
    BY <1>4, <2>1, <2>2, <2>3, <2>4, <2>5, <2>6, <2>7, <2>8, <2>9, <2>10, <2>11, <2>12, <2>13,
       <2>14, <2>15, <2>16, <2>17, <2>18, <2>19 DEF Proceed
<1>5. ASSUME NEW p \in Processes, ProcessExits(p) PROVE Typed'
  BY <1>5 DEF ProcessExits, ActiveOn, Client, NoClient
<1>6. CASE UNCHANGED vars
  BY <1>6 DEF vars
<1> QED
  BY <1>1, <1>2, <1>3, <1>4, <1>5, <1>6 DEF Next, Operator, Arrive

\* Every variable keeps its type, for any number of requests, processes,
\* wallets, proofs and spaces, on Lambda and on the local server.
THEOREM TypeCorrect == Spec => []TypeOK
<1>1. Spec => []Typed
  BY TypedInit, TypedNext, PTL DEF Spec
<1>2. Typed => TypeOK
  BY DEF Typed
<1> QED
  BY <1>1, <1>2, PTL

-----------------------------------------------------------------------------
(* The Spaces table                                                        *)

\* The table holds a wallet's own proofs and dids, ...
RowsOwn ==
    \A w \in Wallets :
        /\ rows[w].proof # None => rows[w].proof \in assigned[w]
        /\ rows[w].did # None => rows[w].did \in OwnSpaces(w)

\* ... and so does the copy of its row a call works from, while a did that
\* was there when the row was read is never removed.
FoundOwn ==
    \A r \in Requests : pc[r] \in RowInHand =>
        /\ found[r].proof \in assigned[Owner(r)]
        /\ found[r].did # None =>
              /\ found[r].did \in OwnSpaces(Owner(r))
              /\ rows[Owner(r)].did # None

\* A call is past setUserSpace only when its row has a did.
DidSaved ==
    \A r \in Requests :
        pc[r] \in {"files", "uploading"} \/ outcome[r] = "ok" => rows[Owner(r)].did # None

TableInv == Typed /\ RowsOwn /\ FoundOwn /\ DidSaved

\* A step that neither reads nor writes the table: no call comes to hold a
\* row, leaves setUserSpace, or succeeds without having been past it.
OffTable ==
    /\ UNCHANGED <<rows, assigned>>
    /\ \A r \in Requests :
          /\ pc[r] # "idle" => auth'[r] = auth[r]
          /\ pc'[r] \in RowInHand => pc[r] \in RowInHand /\ found'[r] = found[r]
          /\ pc'[r] \in {"files", "uploading"} => pc[r] \in {"files", "uploading"}
          /\ outcome'[r] = "ok" => outcome[r] = "ok" \/ pc[r] = "uploading"

\* The steps of setUserSpace that have to do with the table.
OnTable(r) == FindSpace(r) \/ SelectStoredDid(r) \/ SaveDid(r) \/ SaveDidFails(r)

LEMMA TableSteps ==
    ASSUME Typed, [Next]_vars
    PROVE  \/ OffTable
           \/ \E w \in Wallets, p \in Proofs : AssociateSpace(w, p) \/ ReplaceProof(w, p)
           \/ \E r \in Requests : OnTable(r)
<1> USE DEF OffTable, RowInHand, Goto, Settle
<1>1. pc \in [Requests -> Places] /\ auth \in [Requests -> AuthInfo]
      /\ outcome \in [Requests -> Outcomes] /\ found \in [Requests -> Row]
  BY DEF Typed, TypeOK
<1>2. ASSUME NEW r \in Requests, NEW p \in Processes, NEW a \in AuthInfo, BeginUpload(r, p, a)
      PROVE  OffTable
  BY <1>1, <1>2 DEF BeginUpload
<1>3. ASSUME NEW r \in Requests, Proceed(r) PROVE OffTable \/ OnTable(r)
  <2>1. CASE CreateClient(r) \/ CreateFails(r)
    BY <1>1, <2>1 DEF CreateClient, CreateFails
  <2>2. CASE FindNothing(r) \/ FindFails(r)
    BY <1>1, <2>2 DEF FindNothing, FindFails
  <2>3. CASE StoredDidUnknown(r) \/ AddSpace(r) \/ ProofRejected(r)
    BY <1>1, <2>3 DEF StoredDidUnknown, AddSpace, ProofRejected
  <2>4. CASE SelectParsedDid(r) \/ SelectParsedFails(r)
    BY <1>1, <2>4 DEF SelectParsedDid, SelectParsedFails
  <2>5. CASE FilesFail(r) \/ NotASingleFile(r) \/ StartTransfer(r) \/ NoCurrentSpace(r)
    BY <1>1, <2>5 DEF FilesFail, NotASingleFile, StartTransfer, NoCurrentSpace
  <2>6. CASE FinishTransfer(r) \/ FailTransfer(r)
    BY <1>1, <2>6 DEF FinishTransfer, FailTransfer
  <2> QED
    BY <1>3, <2>1, <2>2, <2>3, <2>4, <2>5, <2>6 DEF Proceed, OnTable
<1>4. ASSUME NEW p \in Processes, ProcessExits(p) PROVE OffTable
  BY <1>1, <1>4 DEF ProcessExits, ActiveOn, Active
<1>5. CASE UNCHANGED vars
  BY <1>1, <1>5 DEF vars
<1> QED
  BY <1>2, <1>3, <1>4, <1>5 DEF Next, Operator, Arrive

LEMMA TableInvInit == Init => TableInv
BY TypedInit DEF Init, TableInv, RowsOwn, FoundOwn, DidSaved, RowInHand, NoRow

LEMMA TableInvNext == TableInv /\ [Next]_vars => TableInv'
<1> SUFFICES ASSUME TableInv, [Next]_vars PROVE TableInv'
  OBVIOUS
<1>1. Typed /\ Typed'
  BY TypedNext DEF TableInv
<1>2. \A r \in Requests : pc[r] # "idle" => Owner(r) \in Wallets
  BY <1>1, OwnerIsAWallet
<1> USE DEF TableInv, RowsOwn, FoundOwn, DidSaved, RowInHand
<1>3. CASE OffTable
  <2>1. \A r \in Requests : pc[r] # "idle" => Owner(r)' = Owner(r)
    BY <1>3 DEF OffTable, Owner
  <2> QED
    BY <1>1, <1>3, <2>1 DEF OffTable, OwnSpaces, Typed, Placed
<1>4. ASSUME NEW w \in Wallets, NEW p \in Proofs, AssociateSpace(w, p) PROVE TableInv'
  <2>1. /\ rows' = [rows EXCEPT ![w] = [proof |-> p, did |-> None]]
        /\ assigned' = [assigned EXCEPT ![w] = @ \cup {p}]
        /\ rows[w] = NoRow
        /\ UNCHANGED <<pc, auth, found, outcome>>
    BY <1>4 DEF AssociateSpace
  <2>2. \A v \in Wallets : assigned[v] \subseteq assigned'[v]
    BY <1>1, <2>1 DEF Typed, TypeOK
  <2> QED
    BY <1>1, <1>2, <2>1, <2>2 DEF OwnSpaces, Owner, NoRow, Typed, TypeOK, Placed
<1>5. ASSUME NEW w \in Wallets, NEW p \in Proofs, ReplaceProof(w, p) PROVE TableInv'
  <2>1. /\ assigned' = [assigned EXCEPT ![w] = @ \cup {p}]
        /\ UNCHANGED <<pc, auth, found, outcome>>
    BY <1>5 DEF ReplaceProof
  <2>2. \A v \in Wallets : assigned[v] \subseteq assigned'[v]
    BY <1>1, <2>1 DEF Typed, TypeOK
  <2>3. \A v \in Wallets : /\ rows'[v].proof = IF v = w THEN p ELSE rows[v].proof
                           /\ rows'[v].did = rows[v].did
    BY <1>1, <1>5, ProofReplaced DEF Typed, TypeOK
  <2>4. \A v \in Wallets : OwnSpaces(v) \subseteq OwnSpaces(v)'
    BY <2>2 DEF OwnSpaces
  <2>5. \A q \in Requests : Owner(q)' = Owner(q)
    BY <2>1 DEF Owner
  <2>6. RowsOwn'
    BY <1>1, <2>1, <2>2, <2>3, <2>4 DEF Typed, TypeOK
  <2>7. FoundOwn'
    BY <1>2, <2>1, <2>2, <2>3, <2>4, <2>5
  <2>8. DidSaved'
    BY <1>1, <1>2, <2>1, <2>3, <2>5 DEF Typed, Placed
  <2> QED
    BY <1>1, <2>6, <2>7, <2>8
<1>6. ASSUME NEW r \in Requests, OnTable(r) PROVE TableInv'
  <2>1. UNCHANGED auth /\ pc[r] # "idle" /\ \A q \in Requests : Owner(q)' = Owner(q)
    BY <1>6 DEF OnTable, FindSpace, SelectStoredDid, SaveDid, SaveDidFails, Goto, Settle, Owner
  <2>2. CASE FindSpace(r)
    <3>1. /\ found' = [found EXCEPT ![r] = rows[Owner(r)]]
          /\ rows[Owner(r)] # NoRow
          /\ pc' = [pc EXCEPT ![r] = "select"]
          /\ UNCHANGED <<rows, assigned, outcome>>
      BY <1>1, <2>1, <2>2, OwnerIsAWallet DEF FindSpace, Goto
    <3>2. Owner(r) \in Wallets /\ rows[Owner(r)].proof # None
      BY <1>1, <1>2, <2>1, <3>1, ConstantsOK DEF Typed, RowsFilled
    <3>3. FoundOwn'
      BY <1>1, <2>1, <3>1, <3>2 DEF OwnSpaces, Typed, TypeOK
    <3>4. RowsOwn' /\ DidSaved'
      BY <1>1, <2>1, <3>1 DEF OwnSpaces, Typed, TypeOK
    <3> QED
      BY <1>1, <3>3, <3>4
  <2>3. CASE SelectStoredDid(r)
    <3>1. found[r].did # None
      BY <1>1, <2>3, ConstantsOK DEF SelectStoredDid, Selectable, Goto, Typed, TypeOK, Placed, Client
    <3> QED
      BY <1>1, <1>2, <2>1, <2>3, <3>1 DEF SelectStoredDid, Goto, OwnSpaces, Typed, TypeOK, Placed
  <2>4. ASSUME pc[r] = "saveDid", WriteDid(r), UNCHANGED assigned
        PROVE  /\ RowsOwn'
               /\ \A w \in Wallets : rows[w].did # None => rows'[w].did # None
               /\ rows'[Owner(r)].did # None
    <3>1. ParsedDid(r) \in OwnSpaces(Owner(r))
      BY <1>1, <2>4, ConstantsOK DEF OwnSpaces, ParsedDid, Typed, Placed
    <3>2. ParsedDid(r) # None /\ Owner(r) \in Wallets
      BY <1>1, <1>2, <2>4, ConstantsOK DEF Typed, Placed
    <3>3. \A w \in Wallets :
             /\ rows'[w].proof = rows[w].proof
             /\ rows'[w].did = IF w = Owner(r) THEN ParsedDid(r) ELSE rows[w].did
      BY <1>1, <2>4, DidWritten
    <3> QED
      BY <2>4, <3>1, <3>2, <3>3 DEF OwnSpaces
  <2>5. CASE SaveDid(r)
    BY <1>1, <1>2, <2>1, <2>4, <2>5 DEF SaveDid, Goto, OwnSpaces, Typed, TypeOK, Placed
  <2>6. CASE SaveDidFails(r)
    <3>1. \A w \in Wallets : rows[w].did # None => rows'[w].did # None
      BY <2>4, <2>6 DEF SaveDidFails, Settle
    <3>2. RowsOwn'
      BY <2>4, <2>6 DEF SaveDidFails, Settle, OwnSpaces
    <3> QED
      BY <1>1, <1>2, <2>1, <2>6, <3>1, <3>2 DEF SaveDidFails, Settle, OwnSpaces, Typed, TypeOK, Placed
  <2> QED
    BY <1>6, <2>2, <2>3, <2>5, <2>6 DEF OnTable
<1> QED
  BY <1>1, <1>3, <1>4, <1>5, <1>6, TableSteps

LEMMA TableInvariant == Spec => []TableInv
BY TableInvInit, TableInvNext, PTL DEF Spec

\* The did column never holds a space of another wallet, whatever calls run
\* at the same time: the did is that of the proof in the row the call read,
\* and not of the client, which the calls share.
THEOREM DidsAreOwn == Spec => []DidOfOwnProof
<1>1. TableInv => DidOfOwnProof
  BY DEF TableInv, RowsOwn, DidOfOwnProof
<1> QED
  BY <1>1, TableInvariant, PTL

\* A wallet for which an upload has succeeded has a did in its row.
THEOREM SuccessfulWalletsHaveADid == Spec => []SuccessSavesDid
<1>1. TableInv => SuccessSavesDid
  BY DEF TableInv, DidSaved, SuccessSavesDid
<1> QED
  BY <1>1, TableInvariant, PTL

-----------------------------------------------------------------------------
(* A step of one call leaves the calls of other processes alone.           *)

SameCall(q) ==
    /\ pc'[q] = pc[q] /\ at'[q] = at[q] /\ found'[q] = found[q]
    /\ target'[q] = target[q] /\ outcome'[q] = outcome[q]

LEMMA OthersUntouched ==
    ASSUME Typed, NEW r \in Requests, Proceed(r)
    PROVE  /\ Active(r)
           /\ UNCHANGED auth
           /\ at'[r] = at[r] \/ pc'[r] = "done"
           /\ \A q \in Requests : q # r => SameCall(q)
           /\ \A p \in Processes : p # at[r] => client'[p] = client[p]
<1> USE DEF Goto, Settle, SameCall, Active
<1>1. /\ pc \in [Requests -> Places] /\ at \in [Requests -> Processes \cup {None}]
      /\ found \in [Requests -> Row] /\ target \in [Requests -> Spaces \cup {None}]
      /\ outcome \in [Requests -> Outcomes] /\ client \in [Processes -> Client]
      /\ Active(r) => at[r] \in Processes
  BY DEF Typed, TypeOK, Placed
<1>2. CASE CreateClient(r) \/ CreateFails(r)
  BY <1>1, <1>2 DEF CreateClient, CreateFails
<1>3. CASE FindSpace(r) \/ FindNothing(r) \/ FindFails(r)
  BY <1>1, <1>3 DEF FindSpace, FindNothing, FindFails
<1>4. CASE SelectStoredDid(r) \/ StoredDidUnknown(r)
  BY <1>1, <1>4 DEF SelectStoredDid, StoredDidUnknown
<1>5. CASE AddSpace(r) \/ ProofRejected(r)
  BY <1>1, <1>5 DEF AddSpace, ProofRejected
<1>6. CASE SelectParsedDid(r) \/ SelectParsedFails(r)
  BY <1>1, <1>6 DEF SelectParsedDid, SelectParsedFails
<1>7. CASE SaveDid(r) \/ SaveDidFails(r)
  BY <1>1, <1>7 DEF SaveDid, SaveDidFails
<1>8. CASE FilesFail(r) \/ NotASingleFile(r) \/ StartTransfer(r) \/ NoCurrentSpace(r)
  BY <1>1, <1>8 DEF FilesFail, NotASingleFile, StartTransfer, NoCurrentSpace
<1>9. CASE FinishTransfer(r) \/ FailTransfer(r)
  BY <1>1, <1>9 DEF FinishTransfer, FailTransfer
<1> QED
  BY <1>2, <1>3, <1>4, <1>5, <1>6, <1>7, <1>8, <1>9 DEF Proceed

\* Each step of a call takes it to a later place.
LEMMA ProceedGoesForward ==
    ASSUME Typed, NEW r \in Requests, Proceed(r)
    PROVE  pc'[r] \in Places /\ CallNo[pc[r]] < CallNo[pc'[r]]
<1> USE DEF Goto, Settle, CallNo, Places
<1>1. pc \in [Requests -> Places]
  BY DEF Typed, TypeOK
<1>2. CASE CreateClient(r) \/ CreateFails(r)
  BY <1>1, <1>2 DEF CreateClient, CreateFails
<1>3. CASE FindSpace(r) \/ FindNothing(r) \/ FindFails(r)
  BY <1>1, <1>3 DEF FindSpace, FindNothing, FindFails
<1>4. CASE SelectStoredDid(r) \/ StoredDidUnknown(r)
  BY <1>1, <1>4 DEF SelectStoredDid, StoredDidUnknown
<1>5. CASE AddSpace(r) \/ ProofRejected(r)
  BY <1>1, <1>5 DEF AddSpace, ProofRejected
<1>6. CASE SelectParsedDid(r) \/ SelectParsedFails(r)
  BY <1>1, <1>6 DEF SelectParsedDid, SelectParsedFails
<1>7. CASE SaveDid(r) \/ SaveDidFails(r)
  BY <1>1, <1>7 DEF SaveDid, SaveDidFails
<1>8. CASE FilesFail(r) \/ NotASingleFile(r) \/ StartTransfer(r) \/ NoCurrentSpace(r)
  BY <1>1, <1>8 DEF FilesFail, NotASingleFile, StartTransfer, NoCurrentSpace
<1>9. CASE FinishTransfer(r) \/ FailTransfer(r)
  BY <1>1, <1>9 DEF FinishTransfer, FailTransfer
<1> QED
  BY <1>2, <1>3, <1>4, <1>5, <1>6, <1>7, <1>8, <1>9 DEF Proceed

\* The payloads a step adds are those of calls in transfer, to their targets.
TransfersLand ==
    \A s \in Spaces, q \in Requests :
        /\ q \in contents[s] => q \in contents'[s]
        /\ q \in contents'[s] => q \in contents[s] \/ (/\ pc[q] = "uploading" /\ target[q] = s
                                                     /\ pc'[q] = "done")

LEMMA ContentsGrowByTransfers ==
    ASSUME Typed, [Next]_vars
    PROVE  TransfersLand
<1> USE DEF TransfersLand
<1>1. contents \in [Spaces -> SUBSET Requests]
  BY DEF Typed, TypeOK
<1>2. CASE UNCHANGED contents
  BY <1>1, <1>2
<1>3. ASSUME NEW r \in Requests, FinishTransfer(r) \/ FailTransfer(r), contents' # contents
      PROVE  TransfersLand
  <2>1. pc[r] = "uploading" /\ contents' = [contents EXCEPT ![target[r]] = @ \cup {r}]
    BY <1>3 DEF FinishTransfer, FailTransfer, Settle
  <2>2. pc'[r] = "done"
    BY <1>3 DEF FinishTransfer, FailTransfer, Settle, Typed, TypeOK
  <2> QED
    BY <1>1, <2>1, <2>2
<1>4. ASSUME NEW p \in Processes, ProcessExits(p)
      PROVE  TransfersLand
  BY <1>1, <1>4 DEF ProcessExits
<1>5. ASSUME NEW w \in Wallets, NEW p \in Proofs, AssociateSpace(w, p) \/ ReplaceProof(w, p)
      PROVE  UNCHANGED contents
  BY <1>5 DEF AssociateSpace, ReplaceProof
<1>6. ASSUME NEW r \in Requests, NEW p \in Processes, NEW a \in AuthInfo, BeginUpload(r, p, a)
      PROVE  UNCHANGED contents
  BY <1>6 DEF BeginUpload
<1>7. ASSUME NEW r \in Requests, Proceed(r)
      PROVE  UNCHANGED contents \/ FinishTransfer(r) \/ FailTransfer(r)
  BY <1>7 DEF Proceed, CreateClient, CreateFails, FindSpace, FindNothing, FindFails,
     SelectStoredDid, StoredDidUnknown, AddSpace, ProofRejected, SelectParsedDid,
     SelectParsedFails, SaveDid, SaveDidFails, FilesFail, NotASingleFile, StartTransfer,
     NoCurrentSpace
<1>8. CASE UNCHANGED vars
  BY <1>2, <1>8 DEF vars
<1> QED
  BY <1>2, <1>3, <1>4, <1>5, <1>6, <1>7, <1>8 DEF Next, Operator, Arrive

-----------------------------------------------------------------------------
(* Payloads                                                                *)

\* Only a call that is over has its payload anywhere, so that the transfer of
\* a call that succeeds is the first and the last of its payload.
StoredWhenDone ==
    \A r \in Requests : pc[r] # "done" => \A s \in Spaces : r \notin contents[s]

StoredInv == Typed /\ StoredWhenDone /\ SuccessIsStored

\* A call that is over stays as it ended, and one ends well only by its own transfer.
LEMMA CallsEnd ==
    ASSUME Typed, [Next]_vars, NEW r \in Requests
    PROVE  /\ pc[r] = "done" => pc'[r] = "done" /\ outcome'[r] = outcome[r]
           /\ outcome'[r] = "ok" => outcome[r] = "ok" \/ FinishTransfer(r)
<1>1. pc \in [Requests -> Places] /\ outcome \in [Requests -> Outcomes]
  BY DEF Typed, TypeOK
<1>2. ASSUME NEW q \in Requests, Proceed(q)
      PROVE  /\ pc[r] = "done" => pc'[r] = "done" /\ outcome'[r] = outcome[r]
             /\ outcome'[r] = "ok" => outcome[r] = "ok" \/ FinishTransfer(r)
  <2>1. CASE q # r
    BY <1>2, <2>1, OthersUntouched DEF SameCall
  <2>2. CASE q = r
    <3>1. pc[r] # "done"
      BY <1>2, <2>2, OthersUntouched DEF Active
    <3>2. outcome'[r] = "ok" => outcome[r] = "ok" \/ FinishTransfer(r)
      BY <1>1, <1>2, <2>2 DEF Proceed, CreateClient, CreateFails, FindSpace, FindNothing, FindFails,
         SelectStoredDid, StoredDidUnknown, AddSpace, ProofRejected, SelectParsedDid,
         SelectParsedFails, SaveDid, SaveDidFails, FilesFail, NotASingleFile, StartTransfer,
         NoCurrentSpace, FailTransfer, Goto, Settle
    <3> QED
      BY <3>1, <3>2
  <2> QED
    BY <2>1, <2>2
<1>3. ASSUME NEW q \in Requests, NEW p \in Processes, NEW a \in AuthInfo, BeginUpload(q, p, a)
      PROVE  UNCHANGED outcome /\ (pc[r] = "done" => pc'[r] = "done")
  BY <1>1, <1>3 DEF BeginUpload
<1>4. ASSUME NEW p \in Processes, ProcessExits(p)
      PROVE  /\ outcome'[r] \in {outcome[r], "lost"}
             /\ pc[r] = "done" => pc'[r] = "done" /\ outcome'[r] = outcome[r]
  BY <1>1, <1>4 DEF ProcessExits, ActiveOn, Active
<1>5. ASSUME NEW w \in Wallets, NEW p \in Proofs, AssociateSpace(w, p) \/ ReplaceProof(w, p)
      PROVE  UNCHANGED <<pc, outcome>>
  BY <1>5 DEF AssociateSpace, ReplaceProof
<1>6. CASE UNCHANGED vars
  BY <1>6 DEF vars
<1> QED
  BY <1>2, <1>3, <1>4, <1>5, <1>6 DEF Next, Operator, Arrive

LEMMA StoredInvInit == Init => StoredInv
BY TypedInit DEF Init, StoredInv, StoredWhenDone, SuccessIsStored

LEMMA StoredInvNext == StoredInv /\ [Next]_vars => StoredInv'
<1> SUFFICES ASSUME StoredInv, [Next]_vars PROVE StoredInv'
  OBVIOUS
<1>1. Typed /\ Typed' /\ TransfersLand
  BY TypedNext, ContentsGrowByTransfers DEF StoredInv
<1>2. StoredWhenDone'
  BY <1>1, CallsEnd DEF StoredInv, StoredWhenDone, TransfersLand
<1>3. ASSUME NEW r \in Requests, outcome'[r] = "ok"
      PROVE  \E s \in Spaces : \A t \in Spaces : r \in contents'[t] <=> t = s
  <2>1. CASE outcome[r] = "ok"
    <3>1. pc[r] = "done"
      BY <1>1, <2>1 DEF Typed, Placed
    <3>2. \A t \in Spaces : r \in contents'[t] <=> r \in contents[t]
      BY <1>1, <3>1 DEF TransfersLand
    <3> QED
      BY <2>1, <3>2 DEF StoredInv, SuccessIsStored
  <2>2. CASE FinishTransfer(r)
    <3>1. pc[r] = "uploading" /\ target[r] \in Spaces /\ contents \in [Spaces -> SUBSET Requests]
      BY <1>1, <2>2 DEF FinishTransfer, Settle, Typed, TypeOK, Placed
    <3>2. \A t \in Spaces : r \in contents'[t] <=> t = target[r]
      BY <2>2, <3>1 DEF FinishTransfer, StoredInv, StoredWhenDone
    <3> QED
      BY <3>1, <3>2
  <2> QED
    BY <1>1, <1>3, <2>1, <2>2, CallsEnd
<1> QED
  BY <1>1, <1>2, <1>3 DEF StoredInv, SuccessIsStored

\* A caller that was given a cid has its payload in one space and no other.
THEOREM SuccessesAreStored == Spec => []SuccessIsStored
<1>1. Spec => []StoredInv
  BY StoredInvInit, StoredInvNext, PTL DEF Spec
<1>2. StoredInv => SuccessIsStored
  BY DEF StoredInv
<1> QED
  BY <1>1, <1>2, PTL
=============================================================================
