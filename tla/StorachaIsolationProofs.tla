----------------------- MODULE StorachaIsolationProofs -----------------------
(***************************************************************************)
(* The calls a process serves share a client whose current space any of    *)
(* them may change.  What that can do to a call, on either deployment, and *)
(* what one invocation at a time buys: every upload goes to a space of the *)
(* wallet its route names.                                                 *)
(***************************************************************************)
EXTENDS StorachaServiceProofs

\* The payload of a call is listed in spaces of its owner only.
OwnUploads(r) == \A s \in Spaces : r \in contents[s] => s \in OwnSpaces(Owner(r))

-----------------------------------------------------------------------------
(* A call's own steps                                                      *)

\* Nothing between the selection of a call's space and the start of its
\* transfer moves the client away from that space but the steps of others.
LEMMA OwnStep ==
    ASSUME TableInv, NEW r \in Requests, Safe(r), Proceed(r)
    PROVE  Safe(r)'
<1> DEFINE c == client[at[r]]
<1> USE DEF Safe, ClientReady, TransferOf, ErrorOf, Goto, Settle, ParsedDid
<1>1. /\ pc \in [Requests -> Places] /\ at \in [Requests -> Processes \cup {None}]
      /\ found \in [Requests -> Row] /\ target \in [Requests -> Spaces \cup {None}]
      /\ outcome \in [Requests -> Outcomes] /\ client \in [Processes -> Client]
      /\ pc[r] \notin {"uploading"} => target[r] = None
      /\ pc[r] \in {"selectParsed", "saveDid"} => ParsedDid(r) \in Spaces
  BY DEF TableInv, Typed, TypeOK, Placed
<1>2. ClientReady(r) /\ TransferOf(r) /\ ErrorOf(r)
  OBVIOUS
<1>3. at[r] \in Processes /\ c \in Client
  BY <1>1, OthersUntouched DEF TableInv, Typed, TypeOK, Placed
<1>4. CASE CreateClient(r) \/ CreateFails(r)
  BY <1>1, <1>2, <1>4 DEF CreateClient, CreateFails
<1>5. CASE FindSpace(r) \/ FindNothing(r) \/ FindFails(r)
  BY <1>1, <1>2, <1>5 DEF FindSpace, FindNothing, FindFails
<1>6. CASE SelectStoredDid(r)
  <2>1. found[r].did \in Spaces
    BY <1>3, <1>6 DEF SelectStoredDid, Selectable, Client
  <2>2. client'[at[r]].current = found[r].did
    BY <1>1, <1>3, <1>6, <2>1, SelectingClient DEF SelectStoredDid
  <2> QED
    BY <1>1, <1>2, <1>6, <2>1, <2>2, ConstantsOK DEF SelectStoredDid
<1>7. CASE StoredDidUnknown(r) \/ ProofRejected(r)
  BY <1>1, <1>2, <1>7 DEF StoredDidUnknown, ProofRejected
<1>8. CASE AddSpace(r)
  <2>1. ParsedDid(r) \in Spaces
    BY <1>8, ConstantsOK DEF TableInv, Typed, Placed, RowInHand, AddSpace
  <2>2. ParsedDid(r) \in client'[at[r]].known
    BY <1>1, <1>3, <1>8, <2>1, AddingClient DEF AddSpace
  <2> QED
    BY <1>1, <1>2, <1>8, <2>2 DEF AddSpace
<1>9. CASE SelectParsedDid(r)
  <2>1. client'[at[r]].current = ParsedDid(r)
    BY <1>1, <1>3, <1>9, SelectingClient DEF SelectParsedDid
  <2> QED
    BY <1>1, <1>2, <1>9, <2>1 DEF SelectParsedDid
<1>10. ~SelectParsedFails(r)
  BY <1>2 DEF SelectParsedFails, Selectable
<1>11. CASE SaveDid(r) \/ SaveDidFails(r)
  BY <1>1, <1>2, <1>11, ConstantsOK DEF SaveDid, SaveDidFails
<1>12. CASE FilesFail(r) \/ NotASingleFile(r)
  BY <1>1, <1>2, <1>12 DEF FilesFail, NotASingleFile
<1>13. CASE StartTransfer(r)
  BY <1>1, <1>2, <1>13 DEF StartTransfer
<1>14. ~NoCurrentSpace(r)
  BY <1>2 DEF NoCurrentSpace
<1>15. CASE FinishTransfer(r) \/ FailTransfer(r)
  BY <1>1, <1>2, <1>15 DEF FinishTransfer, FailTransfer
<1> QED
  BY <1>4, <1>5, <1>6, <1>7, <1>8, <1>9, <1>10, <1>11, <1>12, <1>13, <1>14, <1>15 DEF Proceed

\* By its row: a call in transfer sends its payload to a space of its owner.
LEMMA TargetIsOwn ==
    ASSUME TableInv, NEW r \in Requests, pc[r] = "uploading", TransferOf(r)
    PROVE  target[r] \in OwnSpaces(Owner(r))
<1>1. target[r] \in Spaces /\ target[r] \in {ParsedDid(r), found[r].did}
  BY ConstantsOK DEF TableInv, Typed, Placed, TransferOf
<1>2. /\ found[r].proof \in assigned[Owner(r)]
      /\ found[r].did # None => found[r].did \in OwnSpaces(Owner(r))
  BY DEF TableInv, FoundOwn, RowInHand
<1> QED
  BY <1>1, <1>2, ConstantsOK DEF OwnSpaces, ParsedDid

-----------------------------------------------------------------------------
(* The steps of others                                                     *)

\* A step leaves a call safe unless it moves the call's space.
LEMMA SafeStep ==
    ASSUME TableInv, NEW q \in Requests, Safe(q), [Next]_vars, ~Moved(q)
    PROVE  Safe(q)'
<1> USE DEF Safe, ClientReady, TransferOf, ErrorOf, ParsedDid
<1>1. /\ Typed /\ client \in [Processes -> Client] /\ pc \in [Requests -> Places]
      /\ outcome \in [Requests -> Outcomes]
  BY DEF TableInv, Typed, TypeOK
<1>2. ASSUME SameCall(q) PROVE Safe(q)'
  BY <1>2 DEF SameCall, Moved
<1>3. ASSUME NEW w \in Wallets, NEW p \in Proofs, AssociateSpace(w, p) \/ ReplaceProof(w, p)
      PROVE  SameCall(q)
  BY <1>3 DEF AssociateSpace, ReplaceProof, SameCall
<1>4. ASSUME NEW r \in Requests, NEW p \in Processes, NEW a \in AuthInfo, BeginUpload(r, p, a)
      PROVE  Safe(q)'
  <2>1. CASE r = q
    BY <1>1, <1>4, <2>1 DEF BeginUpload
  <2>2. CASE r # q
    BY <1>2, <1>4, <2>2, <1>1 DEF BeginUpload, SameCall, Typed, TypeOK
  <2> QED
    BY <2>1, <2>2
<1>5. ASSUME NEW r \in Requests, Proceed(r), r # q PROVE SameCall(q)
  BY <1>1, <1>5, OthersUntouched
<1>6. ASSUME NEW p \in Processes, ProcessExits(p) PROVE Safe(q)'
  <2>1. CASE ActiveOn(q, p)
    BY <1>1, <1>6, <2>1 DEF ProcessExits
  <2>2. CASE ~ActiveOn(q, p)
    BY <1>2, <1>6, <2>2 DEF ProcessExits, SameCall
  <2> QED
    BY <2>1, <2>2
<1>7. CASE UNCHANGED vars
  BY <1>2, <1>7 DEF vars, SameCall
<1> QED
  BY <1>2, <1>3, <1>4, <1>5, <1>6, <1>7, OwnStep DEF Next, Operator, Arrive

LEMMA OwnSpacesStay ==
    ASSUME Typed, [Next]_vars, NEW r \in Requests, pc[r] # "idle"
    PROVE  Owner(r)' = Owner(r) /\ OwnSpaces(Owner(r)) \subseteq OwnSpaces(Owner(r))'
<1>1. assigned \in [Wallets -> SUBSET Proofs] /\ Owner(r) \in Wallets /\ auth \in [Requests -> AuthInfo]
  BY OwnerIsAWallet DEF Typed, TypeOK
<1>2. CASE OffTable
  BY <1>2 DEF OffTable, Owner, OwnSpaces
<1>3. ASSUME NEW w \in Wallets, NEW p \in Proofs, AssociateSpace(w, p) \/ ReplaceProof(w, p)
      PROVE  Owner(r)' = Owner(r) /\ OwnSpaces(Owner(r)) \subseteq OwnSpaces(Owner(r))'
  <2>1. UNCHANGED auth /\ assigned' = [assigned EXCEPT ![w] = @ \cup {p}]
    BY <1>3 DEF AssociateSpace, ReplaceProof
  <2>2. Owner(r)' = Owner(r)
    BY <2>1 DEF Owner
  <2>3. assigned[Owner(r)] \subseteq assigned'[Owner(r)]
    BY <1>1, <2>1
  <2> QED
    BY <2>2, <2>3 DEF OwnSpaces
<1>4. ASSUME NEW q \in Requests, OnTable(q) PROVE UNCHANGED <<auth, assigned>>
  BY <1>4 DEF OnTable, FindSpace, SelectStoredDid, SaveDid, SaveDidFails
<1> QED
  BY <1>2, <1>3, <1>4, TableSteps DEF Owner, OwnSpaces

\* The payload of a safe call lands in the spaces of its owner.
LEMMA OwnUploadsStep ==
    ASSUME TableInv, StoredInv, NEW q \in Requests, OwnUploads(q), TransferOf(q), [Next]_vars
    PROVE  OwnUploads(q)'
<1> SUFFICES ASSUME NEW s \in Spaces, q \in contents'[s]
             PROVE  s \in OwnSpaces(Owner(q))'
  BY DEF OwnUploads
<1>1. q \in contents[s] \/ (pc[q] = "uploading" /\ target[q] = s)
  BY ContentsGrowByTransfers DEF TransfersLand, TableInv
<1>2. s \in OwnSpaces(Owner(q))
  BY <1>1, TargetIsOwn DEF OwnUploads
<1>3. pc[q] # "idle"
  BY <1>1 DEF StoredInv, StoredWhenDone
<1> QED
  BY <1>2, <1>3, OwnSpacesStay DEF TableInv

-----------------------------------------------------------------------------
(* Calls that share a client                                               *)

LEMMA SafeInit == Init => \A r \in Requests : Safe(r) /\ OwnUploads(r)
BY DEF Init, Safe, ClientReady, TransferOf, ErrorOf, OwnUploads

\* On either deployment, with any number of calls over one client, nothing but
\* the loss of its space between two awaits takes from a call what it relies on.
THEOREM HarmTakesAMove == Spec => OnlyMovesDoHarm
<1>1. TableInv /\ [Next]_vars =>
        [\A r \in Requests : Safe(r) /\ ~Moved(r) => Safe(r)']_vars
  BY SafeStep
<1> QED
  BY <1>1, TableInvariant, PTL DEF Spec, OnlyMovesDoHarm

\* What a call is spared whose space is never moved: its payload is in spaces
\* of its owner only, and it does not fail for the state of the client.
Unharmed(r) == OwnUploads(r) /\ ErrorOf(r)

\* A call that nobody moves the space of is unharmed from beginning to end,
\* whatever becomes of the calls around it and of the client meanwhile.
THEOREM SharingIsSafeUntilMoved ==
    ASSUME NEW r \in Requests
    PROVE  Spec /\ [][~Moved(r)]_vars => []Unharmed(r)
<1> DEFINE Inv == TableInv /\ StoredInv /\ Safe(r) /\ OwnUploads(r)
<1>1. Init => Inv
  BY TableInvInit, StoredInvInit, SafeInit
<1>2. Inv /\ [Next]_vars /\ [~Moved(r)]_vars => Inv'
  <2> SUFFICES ASSUME Inv, [Next]_vars, [~Moved(r)]_vars PROVE Inv'
    OBVIOUS
  <2>1. ~Moved(r)
    BY DEF vars, Moved, TableInv, Typed, TypeOK
  <2> QED
    BY <2>1, TableInvNext, StoredInvNext, SafeStep, OwnUploadsStep DEF Safe
<1>3. Inv => Unharmed(r)
  BY DEF Safe, Unharmed
<1> HIDE DEF Inv
<1> QED
  BY <1>1, <1>2, <1>3, PTL DEF Spec

-----------------------------------------------------------------------------
(* Calls that overlap in init                                              *)

\* A client that is neither replaced nor gone keeps what it has.
LEMMA ClientGrows ==
    ASSUME TableInv, [Next]_vars, NEW p \in Processes, ~ProcessExits(p),
           \A q \in Requests : CreateClient(q) => at[q] # p
    PROVE  /\ client'[p].made = client[p].made
           /\ client[p].known \subseteq client'[p].known
           /\ client[p].current # None => client'[p].current # None
<1>1. Typed /\ client \in [Processes -> Client]
  BY DEF TableInv, Typed, TypeOK
<1>2. ASSUME client'[p] = client[p]
      PROVE  /\ client'[p].made = client[p].made
             /\ client[p].known \subseteq client'[p].known
             /\ client[p].current # None => client'[p].current # None
  BY <1>2
<1>3. ASSUME NEW r \in Requests, Proceed(r), at[r] = p
      PROVE  \/ client'[p] = client[p]
             \/ \E s \in Spaces : client'[p] \in {Selecting(client[p], s), Adding(client[p], s)}
  <2>1. CASE SelectStoredDid(r)
    <3>1. found[r].did \in Spaces
      BY <1>1, <1>3, <2>1 DEF SelectStoredDid, Selectable, Client
    <3> QED
      BY <1>1, <1>3, <2>1, <3>1 DEF SelectStoredDid
  <2>2. CASE SelectParsedDid(r)
    <3>1. ParsedDid(r) \in Spaces
      BY <1>1, <1>3, <2>2 DEF SelectParsedDid, Selectable, Client
    <3> QED
      BY <1>1, <1>3, <2>2, <3>1 DEF SelectParsedDid
  <2>3. CASE AddSpace(r)
    <3>1. ParsedDid(r) \in Spaces
      BY <2>3, ConstantsOK DEF TableInv, Typed, Placed, RowInHand, AddSpace, Goto, ParsedDid
    <3> QED
      BY <1>1, <1>3, <2>3, <3>1 DEF AddSpace
  <2>4. CASE ~SelectStoredDid(r) /\ ~SelectParsedDid(r) /\ ~AddSpace(r)
    <3>1. client' = client
      BY <1>3, <2>4 DEF Proceed, CreateFails, FindSpace, FindNothing, FindFails,
         StoredDidUnknown, ProofRejected, SelectParsedFails, SaveDid, SaveDidFails, FilesFail,
         NotASingleFile, StartTransfer, NoCurrentSpace, FinishTransfer, FailTransfer
    <3> QED
      BY <3>1
  <2> QED
    BY <2>1, <2>2, <2>3, <2>4
<1>4. ASSUME NEW s \in Spaces, client'[p] \in {Selecting(client[p], s), Adding(client[p], s)}
      PROVE  /\ client'[p].made = client[p].made
             /\ client[p].known \subseteq client'[p].known
             /\ client[p].current # None => client'[p].current # None
  <2>1. client[p] \in Client
    BY <1>1
  <2>2. CASE client'[p] = Selecting(client[p], s)
    BY <2>1, <2>2, SelectingClient, ConstantsOK
  <2>3. CASE client'[p] = Adding(client[p], s)
    <3>1. client'[p].current = IF client[p].current = None THEN s ELSE client[p].current
      BY <2>1, <2>3 DEF Adding, Client
    <3> QED
      BY <2>1, <2>3, <3>1, AddingClient, ConstantsOK
  <2> QED
    BY <1>4, <2>2, <2>3
<1>5. ASSUME NEW r \in Requests, Proceed(r), at[r] # p PROVE client'[p] = client[p]
  BY <1>1, <1>5, OthersUntouched
<1>6. ASSUME NEW q \in Processes, ProcessExits(q) PROVE client'[p] = client[p]
  <2>1. q # p
    BY <1>6
  <2>2. client' = [client EXCEPT ![q] = NoClient]
    BY <1>6 DEF ProcessExits
  <2> QED
    BY <1>1, <2>1, <2>2
<1>7. ASSUME Operator \/ (\E r \in Requests : Arrive(r)) \/ UNCHANGED vars
      PROVE  client' = client
  BY <1>7 DEF Operator, AssociateSpace, ReplaceProof, Arrive, BeginUpload, vars
<1>8. client'[p] = client[p] \/ \E s \in Spaces :
         client'[p] \in {Selecting(client[p], s), Adding(client[p], s)}
  BY <1>3, <1>5, <1>6, <1>7 DEF Next
<1> QED
  BY <1>2, <1>4, <1>8

\* Nothing of a call's own, and nothing of others but a client in the place of
\* its own, takes its space from it.
LEMMA HasSpaceStep ==
    ASSUME TableInv, NEW q \in Requests, HasSpace(q), [Next]_vars,
           \A r \in Requests : CreateClient(r) => at[r] # at[q] \/ r = q
    PROVE  HasSpace(q)'
<1> USE DEF HasSpace, ErrorOf, ParsedDid
<1>1. /\ Typed /\ client \in [Processes -> Client] /\ pc \in [Requests -> Places]
      /\ outcome \in [Requests -> Outcomes] /\ found \in [Requests -> Row]
      /\ at \in [Requests -> Processes \cup {None}]
      /\ Active(q) => at[q] \in Processes
  BY DEF TableInv, Typed, TypeOK, Placed
<1>2. ASSUME SameCall(q) PROVE HasSpace(q)'
  <2>1. CASE pc[q] \in {"selectParsed", "saveDid", "files"}
    <3>1. at[q] \in Processes /\ ~ProcessExits(at[q])
      BY <1>1, <1>2, <2>1 DEF Active, ActiveOn, ProcessExits, SameCall
    <3>2. \A r \in Requests : CreateClient(r) => at[r] # at[q]
      BY <2>1 DEF CreateClient, Goto
    <3>3. /\ client[at[q]].known \subseteq client'[at[q]].known
          /\ client[at[q]].current # None => client'[at[q]].current # None
      BY <3>1, <3>2, ClientGrows
    <3> QED
      BY <1>2, <2>1, <3>3 DEF SameCall
  <2>2. CASE pc[q] \notin {"selectParsed", "saveDid", "files"}
    BY <1>2, <2>2 DEF SameCall
  <2> QED
    BY <2>1, <2>2
<1>3. ASSUME Proceed(q) PROVE HasSpace(q)'
  <2> USE DEF Goto, Settle
  <2>1. at[q] \in Processes /\ client[at[q]] \in Client
    BY <1>1, <1>3, OthersUntouched
  <2>2. CASE CreateClient(q) \/ CreateFails(q) \/ FindSpace(q) \/ FindNothing(q) \/ FindFails(q)
    BY <1>1, <2>2 DEF CreateClient, CreateFails, FindSpace, FindNothing, FindFails
  <2>3. CASE SelectStoredDid(q)
    <3>1. found[q].did \in Spaces
      BY <2>1, <2>3 DEF SelectStoredDid, Selectable, Client
    <3>2. client'[at[q]].current = found[q].did
      BY <1>1, <2>1, <2>3, <3>1, SelectingClient DEF SelectStoredDid
    <3> QED
      BY <1>1, <2>3, <3>1, <3>2, ConstantsOK DEF SelectStoredDid
  <2>4. CASE StoredDidUnknown(q) \/ ProofRejected(q)
    BY <1>1, <2>4 DEF StoredDidUnknown, ProofRejected
  <2>5. CASE AddSpace(q)
    <3>1. ParsedDid(q) \in Spaces
      BY <2>5, ConstantsOK DEF TableInv, Typed, Placed, RowInHand, AddSpace
    <3>2. ParsedDid(q) \in client'[at[q]].known
      BY <1>1, <2>1, <2>5, <3>1, AddingClient DEF AddSpace
    <3> QED
      BY <1>1, <2>5, <3>2 DEF AddSpace
  <2>6. CASE SelectParsedDid(q)
    <3>1. ParsedDid(q) \in Spaces
      BY <2>1, <2>6 DEF SelectParsedDid, Selectable, Client
    <3>2. client'[at[q]].current = ParsedDid(q)
      BY <1>1, <2>1, <2>6, <3>1, SelectingClient DEF SelectParsedDid
    <3> QED
      BY <1>1, <2>6, <3>1, <3>2, ConstantsOK DEF SelectParsedDid
  <2>7. ~SelectParsedFails(q) /\ ~NoCurrentSpace(q)
    BY DEF SelectParsedFails, NoCurrentSpace, Selectable
  <2>8. CASE SaveDid(q) \/ SaveDidFails(q)
    BY <1>1, <2>8 DEF SaveDid, SaveDidFails
  <2>9. CASE FilesFail(q) \/ NotASingleFile(q) \/ StartTransfer(q) \/ FinishTransfer(q)
             \/ FailTransfer(q)
    BY <1>1, <2>9 DEF FilesFail, NotASingleFile, StartTransfer, FinishTransfer, FailTransfer
  <2> QED
    BY <1>3, <2>2, <2>3, <2>4, <2>5, <2>6, <2>7, <2>8, <2>9 DEF Proceed
<1>4. ASSUME NEW r \in Requests, NEW p \in Processes, NEW a \in AuthInfo, BeginUpload(r, p, a)
      PROVE  HasSpace(q)'
  <2>1. CASE r = q
    BY <1>1, <1>4, <2>1 DEF BeginUpload
  <2>2. CASE r # q
    BY <1>1, <1>2, <1>4, <2>2 DEF BeginUpload, SameCall
  <2> QED
    BY <2>1, <2>2
<1>5. ASSUME NEW r \in Requests, Proceed(r), r # q PROVE SameCall(q)
  BY <1>1, <1>5, OthersUntouched
<1>6. ASSUME NEW p \in Processes, ProcessExits(p) PROVE HasSpace(q)'
  <2>1. CASE ActiveOn(q, p)
    BY <1>1, <1>6, <2>1 DEF ProcessExits
  <2>2. CASE ~ActiveOn(q, p)
    BY <1>2, <1>6, <2>2 DEF ProcessExits, SameCall
  <2> QED
    BY <2>1, <2>2
<1>7. ASSUME Operator \/ UNCHANGED vars PROVE SameCall(q)
  BY <1>7 DEF Operator, AssociateSpace, ReplaceProof, SameCall, vars
<1> QED
  BY <1>2, <1>3, <1>4, <1>5, <1>6, <1>7 DEF Next, Arrive

\* A call that goes to create a client has found none.
LEMMA CreationBegins ==
    ASSUME Typed, [Next]_vars, NEW q \in Requests, pc'[q] = "creating"
    PROVE  \/ pc[q] = "creating" /\ at'[q] = at[q]
           \/ ~client[at'[q]].made /\ client' = client
<1>1. pc \in [Requests -> Places] /\ at \in [Requests -> Processes \cup {None}]
  BY DEF Typed, TypeOK
<1>2. ASSUME NEW r \in Requests, NEW p \in Processes, NEW a \in AuthInfo, BeginUpload(r, p, a)
      PROVE  \/ pc[q] = "creating" /\ at'[q] = at[q]
             \/ ~client[at'[q]].made /\ client' = client
  BY <1>1, <1>2 DEF BeginUpload
<1>3. ASSUME NEW r \in Requests, Proceed(r) PROVE pc[q] = "creating" /\ at'[q] = at[q]
  <2>1. pc'[r] # "creating"
    BY <1>1, <1>3, ProceedGoesForward, OthersUntouched DEF CallNo, Places, Active
  <2> QED
    BY <1>3, <2>1, OthersUntouched DEF SameCall
<1>4. ASSUME Operator \/ (\E p \in Processes : ProcessExits(p)) \/ UNCHANGED vars
      PROVE  pc[q] = "creating" /\ at'[q] = at[q]
  BY <1>1, <1>4 DEF Operator, AssociateSpace, ReplaceProof, ProcessExits, vars
<1> QED
  BY <1>2, <1>3, <1>4 DEF Next, Arrive

\* For any number of calls and processes, on either deployment: the race in
\* init is over when the process has started, and calls that overlap later
\* lose no space to it.
THEOREM StartsEnd == Spec => OnlyStartsLoseSpaces
<1>1. ASSUME TableInv, [Next]_vars, NEW r \in Requests, HasSpace(r), Warm(at[r])
      PROVE  HasSpace(r)'
  <2>1. \A q \in Requests : CreateClient(q) => at[q] # at[r]
    BY <1>1 DEF Warm, CreateClient, Goto
  <2> QED
    BY <1>1, <2>1, HasSpaceStep
<1>2. ASSUME TableInv, [Next]_vars, NEW p \in Processes, Warm(p), client'[p].made
      PROVE  Warm(p)'
  <2> SUFFICES ASSUME NEW q \in Requests, pc'[q] = "creating", at'[q] = p PROVE FALSE
    BY <1>2 DEF Warm
  <2> QED
    BY <1>2, CreationBegins DEF Warm, TableInv
<1>3. TableInv /\ [Next]_vars =>
        [/\ \A r \in Requests : HasSpace(r) /\ ~HasSpace(r)' => ~Warm(at[r])
         /\ \A p \in Processes : Warm(p) => Warm(p)' \/ ~client'[p].made]_vars
  BY <1>1, <1>2
<1> QED
  BY <1>3, TableInvariant, PTL DEF Spec, OnlyStartsLoseSpaces

\* Only a call that finds no client creates one.
FirstToCreate == \A r \in Requests : pc[r] = "creating" => ~client[at[r]].made

\* A call past init works with a client.
HasClient(r) == Active(r) /\ pc[r] # "creating" => client[at[r]].made

LEMMA HasClientStep ==
    ASSUME TableInv, NEW q \in Requests, HasClient(q), [Next]_vars
    PROVE  HasClient(q)'
<1> SUFFICES ASSUME Active(q)', pc'[q] # "creating" PROVE client'[at'[q]].made
  BY DEF HasClient
<1>1. /\ Typed /\ client \in [Processes -> Client] /\ pc \in [Requests -> Places]
      /\ at \in [Requests -> Processes \cup {None}]
      /\ Active(q) => at[q] \in Processes
  BY DEF TableInv, Typed, TypeOK, Placed
<1>2. ASSUME Active(q), pc[q] # "creating", at'[q] = at[q] PROVE client'[at'[q]].made
  <2>1. at[q] \in Processes /\ ~ProcessExits(at[q]) /\ client[at[q]].made
    BY <1>1, <1>2 DEF ProcessExits, ActiveOn, Active, HasClient
  <2>2. CASE \E r \in Requests : CreateClient(r) /\ at[r] = at[q]
    BY <1>1, <1>2, <2>1, <2>2 DEF CreateClient, FreshClient
  <2>3. CASE \A r \in Requests : CreateClient(r) => at[r] # at[q]
    BY <1>2, <2>1, <2>3, ClientGrows
  <2> QED
    BY <2>2, <2>3
<1>3. ASSUME NEW r \in Requests, NEW p \in Processes, NEW a \in AuthInfo, BeginUpload(r, p, a)
      PROVE  client'[at'[q]].made
  <2>1. CASE r = q
    BY <1>1, <1>3, <2>1 DEF BeginUpload
  <2>2. CASE r # q
    BY <1>1, <1>2, <1>3, <2>2 DEF BeginUpload, Active
  <2> QED
    BY <2>1, <2>2
<1>4. ASSUME NEW r \in Requests, Proceed(r) PROVE client'[at'[q]].made
  <2>1. CASE r # q
    BY <1>1, <1>2, <1>4, <2>1, OthersUntouched DEF SameCall, Active
  <2>2. CASE r = q /\ pc[q] # "creating"
    BY <1>1, <1>2, <1>4, <2>2, OthersUntouched DEF Active
  <2>3. CASE r = q /\ pc[q] = "creating"
    <3>1. CreateClient(q)
      BY <1>1, <1>4, <2>3 DEF Proceed, CreateFails, FindSpace, FindNothing, FindFails,
         SelectStoredDid, StoredDidUnknown, AddSpace, ProofRejected, SelectParsedDid,
         SelectParsedFails, SaveDid, SaveDidFails, FilesFail, NotASingleFile, StartTransfer,
         NoCurrentSpace, FinishTransfer, FailTransfer, Goto, Settle, Active
    <3> QED
      BY <1>1, <2>3, <3>1 DEF CreateClient, FreshClient, Active
  <2> QED
    BY <2>1, <2>2, <2>3
<1>5. ASSUME NEW p \in Processes, ProcessExits(p) PROVE client'[at'[q]].made
  BY <1>1, <1>2, <1>5 DEF ProcessExits, Active, ActiveOn
<1>6. ASSUME Operator \/ UNCHANGED vars PROVE client'[at'[q]].made
  BY <1>2, <1>6 DEF Operator, AssociateSpace, ReplaceProof, Active, vars
<1> QED
  BY <1>3, <1>4, <1>5, <1>6 DEF Next, Arrive

\* A server none of whose calls is still in init when the first client is made
\* (whose first call, say, is alone until then) never fails a call for the
\* client, however many calls share it later.
THEOREM WarmServersFailNoCall == Spec /\ []FirstToCreate => []NoClientError
<1> DEFINE Inv == TableInv /\ \A r \in Requests : HasSpace(r) /\ HasClient(r)
<1>1. Init => Inv
  BY TableInvInit DEF Init, HasSpace, HasClient, ErrorOf, Active
<1>2. Inv /\ FirstToCreate /\ [Next]_vars => Inv'
  <2> SUFFICES ASSUME Inv, FirstToCreate, [Next]_vars PROVE Inv'
    OBVIOUS
  <2>1. ASSUME NEW q \in Requests PROVE HasSpace(q)' /\ HasClient(q)'
    <3>1. CASE \E r \in Requests : CreateClient(r) /\ at[r] = at[q] /\ r # q
      <4>1. PICK r \in Requests : CreateClient(r) /\ at[r] = at[q] /\ r # q
        BY <3>1
      <4>2. ~Active(q) \/ pc[q] = "creating"
        BY <4>1 DEF FirstToCreate, CreateClient, Goto, HasClient
      <4>3. SameCall(q)
        BY <4>1, OthersUntouched DEF Proceed, TableInv
      <4>4. HasSpace(q)'
        BY <4>2, <4>3 DEF HasSpace, ErrorOf, SameCall, Active
      <4> QED
        BY <4>4, HasClientStep
    <3>2. CASE \A r \in Requests : CreateClient(r) => at[r] # at[q] \/ r = q
      BY <3>2, HasSpaceStep, HasClientStep
    <3> QED
      BY <3>1, <3>2
  <2> QED
    BY <2>1, TableInvNext
<1>3. Inv => NoClientError
  BY DEF HasSpace, ErrorOf, NoClientError
<1> HIDE DEF Inv
<1> QED
  BY <1>1, <1>2, <1>3, PTL DEF Spec

-----------------------------------------------------------------------------
(* One invocation at a time                                                *)

Alone ==
    \A q, r \in Requests : Active(q) /\ Active(r) /\ at[q] = at[r] => q = r

IsolationInv ==
    /\ TableInv
    /\ Alone
    /\ FirstToCreate
    /\ \A r \in Requests : Safe(r)
    /\ UploadsInOwnSpace
    /\ StoredInv

LEMMA IsolationInit == Init => IsolationInv
BY TableInvInit, StoredInvInit, SafeInit
   DEF Init, IsolationInv, Alone, Active, FirstToCreate, UploadsInOwnSpace

LEMMA AloneNext ==
    ASSUME Lambda, Typed, Alone, [Next]_vars
    PROVE  Alone'
<1> USE DEF Alone, Active
<1>1. /\ pc \in [Requests -> Places] /\ at \in [Requests -> Processes \cup {None}]
  BY DEF Typed, TypeOK
<1>2. ASSUME NEW r \in Requests, NEW p \in Processes, NEW a \in AuthInfo, BeginUpload(r, p, a)
      PROVE  Alone'
  BY <1>1, <1>2 DEF BeginUpload, Accepts, ActiveOn
<1>3. ASSUME NEW r \in Requests, Proceed(r) PROVE Alone'
  BY <1>1, <1>3, OthersUntouched DEF SameCall
<1>4. ASSUME NEW p \in Processes, ProcessExits(p) PROVE Alone'
  BY <1>1, <1>4 DEF ProcessExits, ActiveOn
<1>5. ASSUME NEW w \in Wallets, NEW p \in Proofs, AssociateSpace(w, p) \/ ReplaceProof(w, p)
      PROVE  Alone'
  BY <1>5 DEF AssociateSpace, ReplaceProof
<1>6. CASE UNCHANGED vars
  BY <1>6 DEF vars
<1> QED
  BY <1>2, <1>3, <1>4, <1>5, <1>6 DEF Next, Operator, Arrive

\* A step that leaves a call where it is leaves its client as it is: no other
\* call of its process is there to change it.
LEMMA ClientStays ==
    ASSUME Typed, Alone, [Next]_vars, NEW q \in Requests, Active(q), pc'[q] = pc[q]
    PROVE  client'[at[q]] = client[at[q]] /\ at'[q] = at[q]
<1>1. /\ at[q] \in Processes /\ client \in [Processes -> Client] /\ pc \in [Requests -> Places]
  BY DEF Typed, TypeOK, Placed
<1>2. ASSUME NEW w \in Wallets, NEW p \in Proofs, AssociateSpace(w, p) \/ ReplaceProof(w, p)
      PROVE  UNCHANGED <<client, at>>
  BY <1>2 DEF AssociateSpace, ReplaceProof
<1>3. ASSUME NEW r \in Requests, NEW p \in Processes, NEW a \in AuthInfo, BeginUpload(r, p, a)
      PROVE  client' = client /\ at'[q] = at[q]
  BY <1>1, <1>3 DEF BeginUpload, Active, Typed, TypeOK
<1>4. ASSUME NEW r \in Requests, Proceed(r)
      PROVE  client'[at[q]] = client[at[q]] /\ at'[q] = at[q]
  <2>1. r # q
    BY <1>1, <1>4, ProceedGoesForward DEF CallNo, Places
  <2>2. SameCall(q) /\ at[r] # at[q]
    BY <1>4, <2>1, OthersUntouched DEF Alone
  <2> QED
    BY <1>1, <1>4, <2>2, OthersUntouched DEF SameCall
<1>5. ASSUME NEW p \in Processes, ProcessExits(p)
      PROVE  client'[at[q]] = client[at[q]] /\ at'[q] = at[q]
  BY <1>1, <1>5 DEF ProcessExits, ActiveOn, Active
<1>6. CASE UNCHANGED vars
  BY <1>6 DEF vars
<1> QED
  BY <1>2, <1>3, <1>4, <1>5, <1>6 DEF Next, Operator, Arrive

LEMMA FirstToCreateNext ==
    ASSUME Typed, Alone, FirstToCreate, [Next]_vars
    PROVE  FirstToCreate'
<1> SUFFICES ASSUME NEW q \in Requests, pc'[q] = "creating" PROVE ~client'[at'[q]].made
  BY DEF FirstToCreate
<1>1. CASE pc[q] = "creating"
  BY <1>1, ClientStays DEF FirstToCreate, Active
<1>2. CASE pc[q] # "creating"
  BY <1>2, CreationBegins
<1> QED
  BY <1>1, <1>2

LEMMA IsolationNext ==
    ASSUME Lambda, IsolationInv, [Next]_vars
    PROVE  IsolationInv'
<1>1. /\ Typed /\ TableInv /\ TableInv' /\ Alone /\ Alone' /\ FirstToCreate'
      /\ StoredInv /\ StoredInv'
  BY AloneNext, FirstToCreateNext, TableInvNext, StoredInvNext DEF IsolationInv, TableInv
<1>2. ASSUME NEW q \in Requests PROVE Safe(q)' /\ OwnUploads(q)'
  <2>1. ~Moved(q)
    BY <1>1, ClientStays DEF Moved, Active
  <2>2. Safe(q) /\ OwnUploads(q)
    BY DEF IsolationInv, UploadsInOwnSpace, OwnUploads
  <2> QED
    BY <1>1, <2>1, <2>2, SafeStep, OwnUploadsStep DEF Safe
<1>3. UploadsInOwnSpace'
  BY <1>1, <1>2 DEF UploadsInOwnSpace, OwnUploads, TableInv, Typed, TypeOK
<1> QED
  BY <1>1, <1>2, <1>3 DEF IsolationInv

LEMMA IsolationInvariant == ASSUME Lambda PROVE Spec => []IsolationInv
BY IsolationInit, IsolationNext, PTL DEF Spec

\* On Lambda a payload is never listed in a space of a wallet other than the
\* one its route names, for any number of environments, wallets and proofs,
\* and while the operator replaces proofs.
THEOREM UploadsStayInOwnSpaces == ASSUME Lambda PROVE Spec => []UploadsInOwnSpace
<1>1. IsolationInv => UploadsInOwnSpace
  BY DEF IsolationInv
<1> QED
  BY <1>1, IsolationInvariant, PTL

\* On Lambda a transfer starts in the space that the call's own row led to.
THEOREM TransfersGoByRow == ASSUME Lambda PROVE Spec => []TransferByRowRead
<1>1. IsolationInv => TransferByRowRead
  BY DEF IsolationInv, Safe, TransferByRowRead, TransferOf
<1> QED
  BY <1>1, IsolationInvariant, PTL

\* On Lambda a client forgets no space as long as its process lives: only a
\* process without a client creates one.
THEOREM ClientsForgetNothing == ASSUME Lambda PROVE Spec => ClientKeepsSpaces
<1>1. ASSUME IsolationInv, [Next]_vars, NEW p \in Processes, client[p].made, client'[p].made
      PROVE  client[p].known \subseteq client'[p].known
  <2>1. client \in [Processes -> Client] /\ TableInv /\ FirstToCreate
    BY <1>1 DEF IsolationInv, TableInv, Typed, TypeOK
  <2>2. ~ProcessExits(p)
    BY <1>1, <2>1 DEF ProcessExits, NoClient
  <2>3. \A q \in Requests : CreateClient(q) => at[q] # p
    BY <1>1, <2>1 DEF CreateClient, Goto, FirstToCreate
  <2> QED
    BY <1>1, <2>1, <2>2, <2>3, ClientGrows
<1>2. IsolationInv /\ [Next]_vars =>
        [\A p \in Processes :
            client[p].made /\ client'[p].made => client[p].known \subseteq client'[p].known]_vars
  BY <1>1
<1> QED
  BY <1>2, IsolationInvariant, PTL DEF Spec, ClientKeepsSpaces

\* On Lambda no call fails because of the state another one left the client in.
THEOREM NoCallFailsForTheClient == ASSUME Lambda PROVE Spec => []NoClientError
<1>1. IsolationInv => NoClientError
  BY DEF IsolationInv, NoClientError, Safe, ErrorOf
<1> QED
  BY <1>1, IsolationInvariant, PTL

-----------------------------------------------------------------------------
(* A table whose proofs are never replaced                                 *)

\* A wallet has had no proof but the one in its row.
OneProof == \A w \in Wallets : assigned[w] \subseteq {rows[w].proof}

LEMMA OneProofInit == Init => OneProof
BY DEF Init, OneProof

LEMMA OneProofNext ==
    ASSUME ~ProofsRotate, Typed, OneProof, [Next]_vars
    PROVE  OneProof'
<1>1. rows \in [Wallets -> Row] /\ assigned \in [Wallets -> SUBSET Proofs]
  BY DEF Typed, TypeOK
<1>2. CASE OffTable
  BY <1>2 DEF OffTable, OneProof
<1>3. ASSUME NEW w \in Wallets, NEW p \in Proofs, AssociateSpace(w, p) \/ ReplaceProof(w, p)
      PROVE  OneProof'
  <2>1. /\ rows[w].proof = None
        /\ rows' = [rows EXCEPT ![w] = [proof |-> p, did |-> None]]
        /\ assigned' = [assigned EXCEPT ![w] = @ \cup {p}]
    BY <1>3 DEF AssociateSpace, ReplaceProof, NoRow
  <2>2. assigned[w] = {}
    BY <1>1, <2>1, ConstantsOK DEF OneProof
  <2> QED
    BY <1>1, <2>1, <2>2 DEF OneProof
<1>4. ASSUME NEW r \in Requests, OnTable(r) PROVE OneProof'
  <2>1. UNCHANGED assigned /\ (UNCHANGED rows \/ (pc[r] = "saveDid" /\ WriteDid(r)))
    BY <1>4 DEF OnTable, FindSpace, SelectStoredDid, SaveDid, SaveDidFails, Goto, Settle
  <2> QED
    BY <2>1, DidWritten DEF OneProof
<1> QED
  BY <1>2, <1>3, <1>4, TableSteps

\* On Lambda, and as long as no proof is replaced, every upload goes to the
\* space of the very proof that the row of its wallet holds.
THEOREM UploadsFollowTheProof ==
    ASSUME Lambda, ~ProofsRotate
    PROVE  Spec => []UploadFollowsProof
<1>1. IsolationInv /\ OneProof => UploadFollowsProof
  <2> SUFFICES ASSUME IsolationInv, OneProof, NEW r \in Requests, target[r] # None
               PROVE  target[r] = ParsedDid(r)
    BY DEF UploadFollowsProof
  <2>1. pc[r] \in RowInHand /\ target[r] \in {ParsedDid(r), found[r].did}
    BY DEF IsolationInv, Safe, TransferOf, TableInv, Typed, Placed, RowInHand
  <2>2. CASE target[r] = found[r].did
    <3>1. /\ Owner(r) \in Wallets
          /\ found[r].proof \in assigned[Owner(r)]
          /\ found[r].did \in OwnSpaces(Owner(r))
      BY <2>1, <2>2, OwnerIsAWallet DEF IsolationInv, TableInv, FoundOwn, RowInHand
    <3> QED
      BY <2>2, <3>1 DEF OneProof, OwnSpaces, ParsedDid
  <2> QED
    BY <2>1, <2>2
<1>2. IsolationInv /\ OneProof /\ [Next]_vars => OneProof'
  BY OneProofNext DEF IsolationInv, TableInv
<1> QED
  BY <1>1, <1>2, OneProofInit, IsolationInvariant, PTL DEF Spec

-----------------------------------------------------------------------------
(* The promise to the caller                                               *)

LEMMA PromiseInit == Init => Promise!Init
BY DEF Init, Promise!Init, OwnSpaces, Owner, NoAuth, Status

\* Associating or replacing a proof gives the wallet the space of the proof;
\* a value that is no proof gives it nothing.
LEMMA PromiseOperator ==
    ASSUME Typed, NEW w \in Wallets, NEW p \in Proofs, AssociateSpace(w, p) \/ ReplaceProof(w, p)
    PROVE  UNCHANGED Promise!vars \/ \E s \in Spaces : Promise!Give(w, s)
<1>1. /\ assigned' = [assigned EXCEPT ![w] = @ \cup {p}]
      /\ UNCHANGED <<auth, pc, outcome, contents>>
  BY DEF AssociateSpace, ReplaceProof
<1>2. \A r \in Requests : Owner(r)' = Owner(r) /\ Status(r)' = Status(r)
  BY <1>1 DEF Owner, Status
<1>3. assigned \in [Wallets -> SUBSET Proofs]
  BY DEF Typed, TypeOK
<1>4. CASE DidOf[p] = None
  <2>1. \A v \in Wallets : OwnSpaces(v)' = OwnSpaces(v)
    BY <1>1, <1>3, <1>4 DEF OwnSpaces
  <2> QED
    BY <1>1, <1>2, <2>1 DEF Promise!vars
<1>5. CASE DidOf[p] # None
  <2>1. \A v \in Wallets : OwnSpaces(v)' = IF v = w THEN OwnSpaces(v) \cup {DidOf[p]} ELSE OwnSpaces(v)
    BY <1>1, <1>3, <1>5 DEF OwnSpaces
  <2>2. Promise!Give(w, DidOf[p])
    BY <1>1, <1>2, <2>1 DEF Promise!Give
  <2>3. DidOf[p] \in Spaces
    BY <1>5, ConstantsOK
  <2> QED
    BY <2>2, <2>3
<1> QED
  BY <1>4, <1>5

LEMMA PromiseBegin ==
    ASSUME Typed, NEW r \in Requests, NEW p \in Processes, NEW a \in AuthInfo,
           a.walletAddress # None, BeginUpload(r, p, a)
    PROVE  \E w \in Wallets : Promise!Begin(r, w)
<1>1. /\ pc[r] = "idle" /\ pc' = [pc EXCEPT ![r] = IF client[p].made THEN "lookup" ELSE "creating"]
      /\ auth' = [auth EXCEPT ![r] = a]
      /\ UNCHANGED <<assigned, contents, outcome>>
  BY DEF BeginUpload
<1>2. pc \in [Requests -> Places] /\ auth \in [Requests -> AuthInfo]
  BY DEF Typed, TypeOK
<1>3. Owner(r)' \in Wallets
  BY <1>1, <1>2 DEF Owner, AuthInfo
<1>4. \A q \in Requests : q # r => Owner(q)' = Owner(q) /\ Status(q)' = Status(q)
  BY <1>1, <1>2 DEF Owner, Status
<1>5. Status(r) = "idle" /\ Status(r)' = "running"
  BY <1>1, <1>2 DEF Status
<1>6. \A v \in Wallets : OwnSpaces(v)' = OwnSpaces(v)
  BY <1>1 DEF OwnSpaces
<1>7. Promise!Begin(r, Owner(r)')
  BY <1>1, <1>3, <1>4, <1>5, <1>6 DEF Promise!Begin
<1> QED
  BY <1>3, <1>7

\* A call whose end is not a success: nothing or its payload has landed.
LEMMA PromiseFail ==
    ASSUME IsolationInv, Typed', TransfersLand, NEW r \in Requests, Active(r),
           pc'[r] = "done", outcome'[r] # "ok", UNCHANGED <<assigned, auth>>,
           \A q \in Requests : q # r => SameCall(q)
    PROVE  Promise!Fail(r)
<1>1. /\ contents \in [Spaces -> SUBSET Requests] /\ contents' \in [Spaces -> SUBSET Requests]
      /\ pc[r] = "uploading" => target[r] \in OwnSpaces(Owner(r)) /\ target[r] \in Spaces
  BY TargetIsOwn DEF IsolationInv, Safe, TableInv, Typed, TypeOK, Placed
<1>2. \A q \in Requests : Owner(q)' = Owner(q)
  BY DEF Owner
<1>3. \A w \in Wallets : OwnSpaces(w)' = OwnSpaces(w)
  BY DEF OwnSpaces
<1>4. \A q \in Requests : Status(q)' = IF q = r THEN "failed" ELSE Status(q)
  BY DEF Status, SameCall
<1>5. Status(r) = "running"
  BY DEF Status, Active
<1>6. \A s \in Spaces, q \in Requests :
         q \in contents'[s] <=> \/ q \in contents[s]
                                \/ /\ q = r /\ r \in contents'[s]
                                   /\ pc[r] = "uploading" /\ target[r] = s
  BY DEF TransfersLand, SameCall
<1>7. contents' = contents \/ \E s \in Spaces : Promise!Stored(r, s)
  <2>1. CASE pc[r] = "uploading" /\ r \in contents'[target[r]]
    <3>1. contents' = [contents EXCEPT ![target[r]] = @ \cup {r}]
      BY <1>1, <1>6, <2>1
    <3>2. Owner(r) \in Wallets
      BY <2>1, OwnerIsAWallet DEF IsolationInv, TableInv
    <3> QED
      BY <1>1, <2>1, <3>1, <3>2 DEF Promise!Stored
  <2>2. CASE ~(pc[r] = "uploading" /\ r \in contents'[target[r]])
    BY <1>1, <1>6, <2>2
  <2> QED
    BY <2>1, <2>2
<1> QED
  BY <1>2, <1>3, <1>4, <1>5, <1>7 DEF Promise!Fail

\* What a step of a call leaves as it is.
LEMMA ProceedSame ==
    ASSUME IsolationInv, NEW r \in Requests, Proceed(r)
    PROVE  /\ Active(r)
           /\ UNCHANGED <<assigned, auth>>
           /\ \A q \in Requests : q # r => SameCall(q)
           /\ \A q \in Requests : Owner(q)' = Owner(q)
           /\ \A w \in Wallets : OwnSpaces(w)' = OwnSpaces(w)
<1>1. UNCHANGED assigned
  BY DEF Proceed, CreateClient, CreateFails, FindSpace, FindNothing, FindFails,
     SelectStoredDid, StoredDidUnknown, AddSpace, ProofRejected, SelectParsedDid,
     SelectParsedFails, SaveDid, SaveDidFails, FilesFail, NotASingleFile, StartTransfer,
     NoCurrentSpace, FinishTransfer, FailTransfer
<1>2. /\ Active(r) /\ UNCHANGED <<assigned, auth>>
      /\ \A q \in Requests : q # r => SameCall(q)
  BY <1>1, OthersUntouched DEF IsolationInv, TableInv
<1> QED
  BY <1>2 DEF Owner, OwnSpaces

LEMMA PromiseWaits ==
    ASSUME IsolationInv, Typed', TransfersLand, NEW r \in Requests, Proceed(r), pc'[r] # "done"
    PROVE  pc'[r] # "idle" /\ UNCHANGED Promise!vars
<1>1. contents \in [Spaces -> SUBSET Requests] /\ contents' \in [Spaces -> SUBSET Requests]
  BY DEF IsolationInv, TableInv, Typed, TypeOK
<1>2. \A s \in Spaces, q \in Requests : q \in contents'[s] <=> q \in contents[s]
  BY ProceedSame DEF TransfersLand, SameCall
<1>3. contents' = contents
  BY <1>1, <1>2
<1>4. pc'[r] # "idle"
  BY DEF Proceed, CreateClient, CreateFails, FindSpace, FindNothing, FindFails,
     SelectStoredDid, StoredDidUnknown, AddSpace, ProofRejected, SelectParsedDid,
     SelectParsedFails, SaveDid, SaveDidFails, FilesFail, NotASingleFile, StartTransfer,
     NoCurrentSpace, FinishTransfer, FailTransfer, Goto, Settle, IsolationInv, TableInv,
     Typed, TypeOK
<1>5. \A q \in Requests : Status(q)' = Status(q)
  BY <1>4, ProceedSame DEF Status, SameCall, Active
<1> QED
  BY <1>3, <1>4, <1>5, ProceedSame DEF Promise!vars

LEMMA PromiseSucceeds ==
    ASSUME IsolationInv, Typed', TransfersLand, NEW r \in Requests, Proceed(r),
           pc'[r] = "done", outcome'[r] = "ok"
    PROVE  target[r] \in Spaces /\ Promise!Succeed(r, target[r])
<1>1. FinishTransfer(r)
  <2>1. outcome[r] # "ok"
    BY ProceedSame DEF IsolationInv, TableInv, Typed, Placed, Active
  <2>2. [Next]_vars
    BY DEF Next
  <2> QED
    BY <2>1, <2>2, CallsEnd DEF IsolationInv, TableInv
<1>2. /\ pc[r] = "uploading"
      /\ contents' = [contents EXCEPT ![target[r]] = @ \cup {r}]
  BY <1>1 DEF FinishTransfer, Settle
<1>3. target[r] \in Spaces /\ target[r] \in OwnSpaces(Owner(r)) /\ Owner(r) \in Wallets
  BY <1>2, TargetIsOwn, OwnerIsAWallet DEF IsolationInv, Safe, TableInv, Typed, Placed
<1>4. \A q \in Requests : Status(q)' = IF q = r THEN "ok" ELSE Status(q)
  BY ProceedSame DEF Status, SameCall
<1>5. Status(r) = "running"
  BY <1>2 DEF Status
<1>6. Promise!Succeed(r, target[r])
  BY <1>2, <1>3, <1>4, <1>5, ProceedSame DEF Promise!Succeed, Promise!Stored
<1> QED
  BY <1>3, <1>6

LEMMA PromiseProceed ==
    ASSUME IsolationInv, Typed', TransfersLand, NEW r \in Requests, Proceed(r)
    PROVE  [Promise!Next]_Promise!vars
<1>1. CASE pc'[r] # "done"
  BY <1>1, PromiseWaits
<1>2. CASE pc'[r] = "done" /\ outcome'[r] # "ok"
  BY <1>2, ProceedSame, PromiseFail DEF Promise!Next
<1>3. CASE pc'[r] = "done" /\ outcome'[r] = "ok"
  BY <1>3, PromiseSucceeds DEF Promise!Next
<1> QED
  BY <1>1, <1>2, <1>3

\* The process serves one call at most, which fails with it.
LEMMA PromiseExit ==
    ASSUME IsolationInv, Typed', TransfersLand, NEW p \in Processes, ProcessExits(p)
    PROVE  /\ \A r \in Requests : ActiveOn(r, p) => Promise!Fail(r)
           /\ (\A r \in Requests : ~ActiveOn(r, p)) => UNCHANGED Promise!vars
<1>1. /\ UNCHANGED <<assigned, auth>>
      /\ \A q \in Requests : ~ActiveOn(q, p) => SameCall(q)
      /\ \A q \in Requests : ActiveOn(q, p) => pc'[q] = "done" /\ outcome'[q] = "lost"
  BY DEF ProcessExits, SameCall
<1>2. ASSUME NEW r \in Requests, ActiveOn(r, p) PROVE Promise!Fail(r)
  <2>1. \A q \in Requests : q # r => ~ActiveOn(q, p)
    BY <1>2 DEF IsolationInv, Alone, ActiveOn
  <2>2. Active(r)
    BY <1>2 DEF ActiveOn
  <2>3. pc'[r] = "done" /\ outcome'[r] = "lost"
    BY <1>2 DEF ProcessExits
  <2>4. UNCHANGED <<assigned, auth>> /\ \A q \in Requests : q # r => SameCall(q)
    BY <1>1, <2>1
  <2> QED
    BY <2>2, <2>3, <2>4, PromiseFail
<1>3. ASSUME \A r \in Requests : ~ActiveOn(r, p) PROVE UNCHANGED Promise!vars
  <2>1. \A q \in Requests : SameCall(q)
    BY <1>1, <1>3
  <2>2. contents \in [Spaces -> SUBSET Requests] /\ contents' \in [Spaces -> SUBSET Requests]
    BY DEF IsolationInv, TableInv, Typed, TypeOK
  <2>3. \A s \in Spaces, q \in Requests : q \in contents'[s] <=> q \in contents[s]
    BY <2>1 DEF TransfersLand, SameCall
  <2>4. contents' = contents
    BY <2>2, <2>3
  <2>5. \A q \in Requests : Owner(q)' = Owner(q) /\ Status(q)' = Status(q)
    BY <1>1, <2>1 DEF Owner, Status, SameCall
  <2>6. \A w \in Wallets : OwnSpaces(w)' = OwnSpaces(w)
    BY <1>1 DEF OwnSpaces
  <2> QED
    BY <2>4, <2>5, <2>6 DEF Promise!vars
<1> QED
  BY <1>2, <1>3

\* On Lambda the service keeps the promise of SpaceUpload to its callers.
THEOREM KeepsItsPromise == ASSUME Lambda PROVE Spec => ImplementsSpaceUpload
<1>1. ASSUME IsolationInv, IsolationInv', [Next]_vars PROVE [Promise!Next]_Promise!vars
  <2>1. Typed /\ Typed' /\ TransfersLand
    BY <1>1, ContentsGrowByTransfers DEF IsolationInv, TableInv
  <2>2. CASE UNCHANGED vars
    BY <2>2 DEF vars, Promise!vars, OwnSpaces, Owner, Status
  <2>3. ASSUME NEW p \in Processes, ProcessExits(p) PROVE [Promise!Next]_Promise!vars
    BY <1>1, <2>1, <2>3, PromiseExit DEF Promise!Next
  <2>4. ASSUME Operator \/ \E r \in Requests : Arrive(r) PROVE [Promise!Next]_Promise!vars
    BY <2>1, <2>4, PromiseOperator, PromiseBegin DEF Operator, Arrive, Promise!Next
  <2> QED
    BY <1>1, <2>1, <2>2, <2>3, <2>4, PromiseProceed DEF Next
<1> QED
  BY <1>1, PromiseInit, IsolationInvariant, PTL DEF Spec, ImplementsSpaceUpload, Promise!Spec
=============================================================================
