--------------------------- MODULE StorachaService ---------------------------
(***************************************************************************)
(* The part of the bridge that puts a payload into a Storacha space        *)
(* (src/storacha/storacha.service.ts).  One Storacha client object lives   *)
(* in each Node process and is shared by every request that process        *)
(* serves; the space an upload goes to is a mutable field of that object.  *)
(* The Spaces table is shared by all processes.                            *)
(*                                                                         *)
(* Every `await` of the service is a point where another request may run,  *)
(* so an action is the code between two awaits.  Two deployments exist:    *)
(* AWS Lambda, where a process serves one invocation at a time             *)
(* (lambdaEntrypoint.ts), and the long-lived server of main.ts, where it   *)
(* serves any number.                                                      *)
(*                                                                         *)
(* Of a UCAN proof only the space it delegates matters, DidOf[p]; a proof  *)
(* that `parse` or `addSpace` rejects has DidOf[p] = None.  Payloads are   *)
(* named by the request that carries them.                                 *)
(***************************************************************************)
CONSTANTS
    Requests,     \* calls of uploadFile / uploadZip
    Processes,    \* Lambda execution environments, or the one local server
    Wallets,      \* lower-case 0x addresses
    Proofs,       \* values of the proofBase64 column
    Spaces,       \* space DIDs
    DidOf,        \* the space a proof delegates, or None
    None,         \* null / undefined
    Lambda,       \* TRUE: one request at a time in a process
    ProofsRotate  \* TRUE: an operator may replace the proof of a row

ASSUME ConstantsOK ==
    /\ DidOf \in [Proofs -> Spaces \cup {None}]
    /\ None \notin Spaces \cup Proofs \cup Wallets
    /\ Lambda \in BOOLEAN
    /\ ProofsRotate \in BOOLEAN

VARIABLES
    rows,      \* the Spaces table, by walletAddress
    assigned,  \* history: the proofs each wallet has ever had
    client,    \* StorachaService._client of each process
    contents,  \* the payloads listed in each space, on the Storacha network
    pc,        \* where the call of each request is
    at,        \* the process that serves it
    auth,      \* its AuthInfo
    found,     \* its local `space`: the row as it was read
    target,    \* the space its transfer was started in
    outcome    \* what the call returned or threw

vars == <<rows, assigned, client, contents, pc, at, auth, found, target, outcome>>

(***************************************************************************)
(* A missing row is one whose (not nullable) proof column is None.         *)
(***************************************************************************)
Row   == [proof: Proofs \cup {None}, did: Spaces \cup {None}]
NoRow == [proof |-> None, did |-> None]

(***************************************************************************)
(* The client as the service uses it: the spaces added to its in-memory    *)
(* store and the space selected last.  made = FALSE: _client is undefined. *)
(***************************************************************************)
Client      == [made: BOOLEAN, known: SUBSET Spaces, current: Spaces \cup {None}]
NoClient    == [made |-> FALSE, known |-> {}, current |-> None]
FreshClient == [made |-> TRUE,  known |-> {}, current |-> None]

\* uploadFile leaves spaceOwnerAddress undefined, uploadZip always sets it.
AuthInfo == [walletAddress: Wallets \cup {None},
             spaceOwnerAddress: Wallets \cup {None}]
NoAuth   == [walletAddress |-> None, spaceOwnerAddress |-> None]

\* A plausible bug: the space of the caller, who for a zip is a validator.
LookupOfCaller(r) == auth[r].walletAddress

LookupAddress(r) ==
    IF auth[r].spaceOwnerAddress # None
    THEN auth[r].spaceOwnerAddress
    ELSE auth[r].walletAddress

Places == {"idle", "creating", "lookup", "select", "addSpace", "selectParsed",
           "saveDid", "files", "uploading", "done"}

\* "ok" is a 201; the others name the throw that ended the call, and "lost"
\* a call whose process went away.
Outcomes == {"none", "ok", "initError", "dbError", "notFound", "proofError",
             "clientError", "filesError", "badRequest", "noSpace", "uploadError", "lost"}

Active(r)      == pc[r] \notin {"idle", "done"}
ActiveOn(r, p) == Active(r) /\ at[r] = p

Goto(r, from, to) ==
    /\ pc[r] = from
    /\ pc' = [pc EXCEPT ![r] = to]
    /\ UNCHANGED outcome

\* The call returns or throws, and its locals are gone.
Settle(r, from, result) ==
    /\ pc[r] = from
    /\ pc' = [pc EXCEPT ![r] = "done"]
    /\ outcome' = [outcome EXCEPT ![r] = result]
    /\ at' = [at EXCEPT ![r] = None]
    /\ found' = [found EXCEPT ![r] = NoRow]
    /\ target' = [target EXCEPT ![r] = None]

Init ==
    /\ rows     = [w \in Wallets |-> NoRow]
    /\ assigned = [w \in Wallets |-> {}]
    /\ client   = [p \in Processes |-> NoClient]
    /\ contents = [s \in Spaces |-> {}]
    /\ pc       = [r \in Requests |-> "idle"]
    /\ at       = [r \in Requests |-> None]
    /\ auth     = [r \in Requests |-> NoAuth]
    /\ found    = [r \in Requests |-> NoRow]
    /\ target   = [r \in Requests |-> None]
    /\ outcome  = [r \in Requests |-> "none"]

-----------------------------------------------------------------------------
(* The operator.  The README has a proof added to the table under a 0x     *)
(* address; the did column is left to the program.                         *)

AssociateSpace(w, p) ==
    /\ rows[w] = NoRow
    /\ rows' = [rows EXCEPT ![w] = [proof |-> p, did |-> None]]
    /\ assigned' = [assigned EXCEPT ![w] = @ \cup {p}]
    /\ UNCHANGED <<client, contents, pc, at, auth, found, target, outcome>>

\* Bound: a wallet is never given back a proof it had before.
ReplaceProof(w, p) ==
    /\ ProofsRotate
    /\ rows[w] # NoRow
    /\ p \notin assigned[w]
    /\ rows' = [rows EXCEPT ![w].proof = p]
    /\ assigned' = [assigned EXCEPT ![w] = @ \cup {p}]
    /\ UNCHANGED <<client, contents, pc, at, auth, found, target, outcome>>

-----------------------------------------------------------------------------
(* uploadFile / uploadZip: init()                                          *)

\* The platform: a Lambda environment takes one invocation at a time.
Accepts(p) == Lambda => \A q \in Requests : ~ActiveOn(q, p)

\* A plausible bug: init without its early return.
BeginAnew(r, p, a) ==
    /\ pc[r] = "idle"
    /\ Accepts(p)
    /\ pc' = [pc EXCEPT ![r] = "creating"]
    /\ at' = [at EXCEPT ![r] = p]
    /\ auth' = [auth EXCEPT ![r] = a]
    /\ UNCHANGED <<rows, assigned, client, contents, found, target, outcome>>

\* The call runs up to its first await: init returns at once when _client is
\* set, else it goes on to import the library and to create a client.
BeginUpload(r, p, a) ==
    /\ pc[r] = "idle"
    /\ Accepts(p)
    /\ pc' = [pc EXCEPT ![r] = IF client[p].made THEN "lookup" ELSE "creating"]
    /\ at' = [at EXCEPT ![r] = p]
    /\ auth' = [auth EXCEPT ![r] = a]
    /\ UNCHANGED <<rows, assigned, client, contents, found, target, outcome>>

\* create() resolves and _client is assigned, whatever it held by then.
CreateClient(r) ==
    /\ Goto(r, "creating", "lookup")
    /\ client' = [client EXCEPT ![at[r]] = FreshClient]
    /\ UNCHANGED <<rows, assigned, contents, at, auth, found, target>>

CreateFails(r) ==
    /\ Settle(r, "creating", "initError")
    /\ UNCHANGED <<rows, assigned, client, contents, auth>>

-----------------------------------------------------------------------------
(* setUserSpace                                                            *)

\* findOneBy: the row is read now and used after the await.
FindSpace(r) ==
    /\ Goto(r, "lookup", "select")
    /\ rows[LookupAddress(r)] # NoRow
    /\ found' = [found EXCEPT ![r] = rows[LookupAddress(r)]]
    /\ UNCHANGED <<rows, assigned, client, contents, at, auth, target>>

FindNothing(r) ==
    /\ Settle(r, "lookup", "notFound")
    /\ rows[LookupAddress(r)] = NoRow
    /\ UNCHANGED <<rows, assigned, client, contents, auth>>

FindFails(r) ==
    /\ Settle(r, "lookup", "dbError")
    /\ UNCHANGED <<rows, assigned, client, contents, auth>>

\* parsedSpace.did(): the space of the proof in the row that was read.
ParsedDid(r) == DidOf[found[r].proof]

\* The library's setCurrentSpace: it throws unless the space has been added.
Selectable(c, s) == s \in c.known
Selecting(c, s)  == [c EXCEPT !.current = s]

\* The library's addSpace: the first space added also becomes the current one.
Adding(c, s) ==
    [c EXCEPT !.known   = @ \cup {s},
              !.current = IF @ = None THEN s ELSE @]

\* A plausible bug: a space the client knows is taken for the selected one.
SkipsSelection(r) ==
    /\ Goto(r, "select", "files")
    /\ Selectable(client[at[r]], found[r].did)
    /\ UNCHANGED <<rows, assigned, client, contents, at, auth, found, target>>

SelectStoredDid(r) ==
    /\ Goto(r, "select", "files")
    /\ Selectable(client[at[r]], found[r].did)
    /\ client' = [client EXCEPT ![at[r]] = Selecting(@, found[r].did)]
    /\ UNCHANGED <<rows, assigned, contents, at, auth, found, target>>

\* The catch block: no did yet, or a space this client has not added.
StoredDidUnknown(r) ==
    /\ Goto(r, "select", "addSpace")
    /\ ~Selectable(client[at[r]], found[r].did)
    /\ UNCHANGED <<rows, assigned, client, contents, at, auth, found, target>>

\* A plausible bug: a value that is no proof is added like one.
AddUnparsed(r) ==
    /\ Goto(r, "addSpace", "selectParsed")
    /\ client' = [client EXCEPT ![at[r]] = Adding(@, ParsedDid(r))]
    /\ UNCHANGED <<rows, assigned, contents, at, auth, found, target>>

\* A plausible bug: the proof is parsed and its space not added.
ParsesOnly(r) ==
    /\ Goto(r, "addSpace", "selectParsed")
    /\ ParsedDid(r) # None
    /\ UNCHANGED <<rows, assigned, client, contents, at, auth, found, target>>

AddSpace(r) ==
    /\ Goto(r, "addSpace", "selectParsed")
    /\ ParsedDid(r) # None
    /\ client' = [client EXCEPT ![at[r]] = Adding(@, ParsedDid(r))]
    /\ UNCHANGED <<rows, assigned, contents, at, auth, found, target>>

\* A plausible bug: the call that parses a bad proof is never settled.
ProofHangs(r) ==
    /\ pc[r] = "addSpace"
    /\ ParsedDid(r) = None
    /\ UNCHANGED vars

\* A plausible bug: a call that fails leaves the next one a client to make.
RejectionDropsClient(r) ==
    /\ Settle(r, "addSpace", "proofError")
    /\ ParsedDid(r) = None
    /\ client' = [client EXCEPT ![at[r]] = NoClient]
    /\ UNCHANGED <<rows, assigned, contents, auth>>

ProofRejected(r) ==
    /\ Settle(r, "addSpace", "proofError")
    /\ ParsedDid(r) = None
    /\ UNCHANGED <<rows, assigned, client, contents, auth>>

\* A plausible bug: the space that was just added is taken for the current one.
SkipsParsedSelection(r) ==
    /\ Goto(r, "selectParsed", "saveDid")
    /\ Selectable(client[at[r]], ParsedDid(r))
    /\ UNCHANGED <<rows, assigned, client, contents, at, auth, found, target>>

SelectParsedDid(r) ==
    /\ Goto(r, "selectParsed", "saveDid")
    /\ Selectable(client[at[r]], ParsedDid(r))
    /\ client' = [client EXCEPT ![at[r]] = Selecting(@, ParsedDid(r))]
    /\ UNCHANGED <<rows, assigned, contents, at, auth, found, target>>

\* Thrown inside the catch block, so nothing handles it: a plain 500.
SelectParsedFails(r) ==
    /\ Settle(r, "selectParsed", "clientError")
    /\ ~Selectable(client[at[r]], ParsedDid(r))
    /\ UNCHANGED <<rows, assigned, client, contents, auth>>

\* A plausible bug: the did is that of the client, not of the parsed proof.
WriteCurrentDid(r) == rows' = [rows EXCEPT ![LookupAddress(r)].did = client[at[r]].current]

WriteDid(r) == rows' = [rows EXCEPT ![LookupAddress(r)].did = ParsedDid(r)]

SaveDid(r) ==
    /\ Goto(r, "saveDid", "files")
    /\ WriteDid(r)
    /\ UNCHANGED <<assigned, client, contents, at, auth, found, target>>

\* A plausible bug: a failed update is taken for a cache that was not filled.
SaveDidFailsSilently(r) ==
    /\ Goto(r, "saveDid", "files")
    /\ UNCHANGED <<rows, assigned, client, contents, at, auth, found, target>>

\* The error may be that of the answer to an update that was committed.
SaveDidFails(r) ==
    /\ Settle(r, "saveDid", "dbError")
    /\ UNCHANGED rows \/ WriteDid(r)
    /\ UNCHANGED <<assigned, client, contents, auth>>

-----------------------------------------------------------------------------
(* filesFromPaths has answered: the client's upload starts, and reads the  *)
(* current space before its first await.                                   *)

\* A stat or readdir of filesFromPaths rejects.
FilesFail(r) ==
    /\ Settle(r, "files", "filesError")
    /\ UNCHANGED <<rows, assigned, client, contents, auth>>

\* uploadFile only: the path gave no file (a hidden name).
NotASingleFile(r) ==
    /\ auth[r].spaceOwnerAddress = None
    /\ Settle(r, "files", "badRequest")
    /\ UNCHANGED <<rows, assigned, client, contents, auth>>

StartTransfer(r) ==
    /\ Goto(r, "files", "uploading")
    /\ client[at[r]].current # None
    /\ target' = [target EXCEPT ![r] = client[at[r]].current]
    /\ UNCHANGED <<rows, assigned, client, contents, at, auth, found>>

NoCurrentSpace(r) ==
    /\ Settle(r, "files", "noSpace")
    /\ client[at[r]].current = None
    /\ UNCHANGED <<rows, assigned, client, contents, auth>>

FinishTransfer(r) ==
    /\ Settle(r, "uploading", "ok")
    /\ contents' = [contents EXCEPT ![target[r]] = @ \cup {r}]
    /\ UNCHANGED <<rows, assigned, client, auth>>

\* A plausible bug: the catch logs and falls through to the return.
FailTransferSilently(r) ==
    /\ Settle(r, "uploading", "ok")
    /\ UNCHANGED <<rows, assigned, client, contents, auth>>

\* The error may be that of the answer to an upload that was registered.
FailTransfer(r) ==
    /\ Settle(r, "uploading", "uploadError")
    /\ \/ UNCHANGED contents
       \/ contents' = [contents EXCEPT ![target[r]] = @ \cup {r}]
    /\ UNCHANGED <<rows, assigned, client, auth>>

-----------------------------------------------------------------------------
(* The process goes away: an idle environment is recycled, an invocation   *)
(* runs into its timeout, the server is stopped.  Transfers that were      *)
(* under way may or may not have been registered.                          *)

ProcessExits(p) ==
    /\ client[p].made \/ \E r \in Requests : ActiveOn(r, p)
    /\ client' = [client EXCEPT ![p] = NoClient]
    /\ pc' = [r \in Requests |-> IF ActiveOn(r, p) THEN "done" ELSE pc[r]]
    /\ outcome' = [r \in Requests |-> IF ActiveOn(r, p) THEN "lost" ELSE outcome[r]]
    /\ \E landed \in SUBSET {r \in Requests : ActiveOn(r, p) /\ pc[r] = "uploading"} :
          contents' = [s \in Spaces |-> contents[s] \cup {r \in landed : target[r] = s}]
    /\ at' = [r \in Requests |-> IF ActiveOn(r, p) THEN None ELSE at[r]]
    /\ found' = [r \in Requests |-> IF ActiveOn(r, p) THEN NoRow ELSE found[r]]
    /\ target' = [r \in Requests |-> IF ActiveOn(r, p) THEN None ELSE target[r]]
    /\ UNCHANGED <<rows, assigned, auth>>

-----------------------------------------------------------------------------

Operator == \E w \in Wallets, p \in Proofs : AssociateSpace(w, p) \/ ReplaceProof(w, p)

\* A call that has begun goes on until it settles.
Proceed(r) ==
    \/ CreateClient(r) \/ CreateFails(r)
    \/ FindSpace(r) \/ FindNothing(r) \/ FindFails(r)
    \/ SelectStoredDid(r) \/ StoredDidUnknown(r)
    \/ AddSpace(r) \/ ProofRejected(r)
    \/ SelectParsedDid(r) \/ SelectParsedFails(r)
    \/ SaveDid(r) \/ SaveDidFails(r)
    \/ FilesFail(r) \/ NotASingleFile(r) \/ StartTransfer(r) \/ NoCurrentSpace(r)
    \/ FinishTransfer(r) \/ FailTransfer(r)

\* Every request has a wallet address; a zip names the owner of its space too.
Arrive(r) ==
    \E p \in Processes, a \in AuthInfo :
        a.walletAddress # None /\ BeginUpload(r, p, a)

Next ==
    \/ Operator
    \/ \E r \in Requests : Arrive(r) \/ Proceed(r)
    \/ \E p \in Processes : ProcessExits(p)

Spec == Init /\ [][Next]_vars

\* Every await of the service settles: the event loop resumes a call whose
\* promise has resolved or rejected.
FairSpec == Spec /\ \A r \in Requests : WF_vars(Proceed(r))

-----------------------------------------------------------------------------
(* Properties                                                              *)

TypeOK ==
    /\ rows \in [Wallets -> Row]
    /\ assigned \in [Wallets -> SUBSET Proofs]
    /\ client \in [Processes -> Client]
    /\ contents \in [Spaces -> SUBSET Requests]
    /\ pc \in [Requests -> Places]
    /\ at \in [Requests -> Processes \cup {None}]
    /\ auth \in [Requests -> AuthInfo]
    /\ found \in [Requests -> Row]
    /\ target \in [Requests -> Spaces \cup {None}]
    /\ outcome \in [Requests -> Outcomes]

\* Whose space the route names: that of :spaceOwnerAddress for a zip, and
\* that of the caller for a file (upload.controller.ts).
Owner(r) ==
    LET a == auth[r]
    IN  IF a.spaceOwnerAddress = None THEN a.walletAddress ELSE a.spaceOwnerAddress

\* The spaces of the proofs a wallet has or had.
OwnSpaces(w) == {DidOf[p] : p \in assigned[w]} \ {None}

\* A payload is only ever listed in a space whose proof the operator gave to
\* the address the route names: setUserSpace selects the space in the shared
\* client, and the upload reads it back from there some awaits later.
UploadsInOwnSpace ==
    \A s \in Spaces : \A r \in contents[s] : s \in OwnSpaces(Owner(r))

\* A transfer goes by the row its own call has read, and by nothing another
\* call did to the client since: to the space of the row's proof or, in a
\* client that knows it, to the space of the row's did.
TransferByRowRead ==
    \A r \in Requests : target[r] # None => target[r] \in {ParsedDid(r), found[r].did}

\* The did column, which every process writes, never holds a space of another
\* wallet, whatever other requests have done to the shared client meanwhile.
DidOfOwnProof ==
    \A w \in Wallets : rows[w].did # None => rows[w].did \in OwnSpaces(w)

\* A caller that got its cid has its payload listed in exactly one space.
SuccessIsStored ==
    \A r \in Requests :
        outcome[r] = "ok" => \E s \in Spaces : \A t \in Spaces : r \in contents[t] <=> t = s

\* After a first success the row keeps a did, so that the next call of the
\* wallet can select its space before it parses the proof.
SuccessSavesDid ==
    \A r \in Requests : outcome[r] = "ok" => rows[Owner(r)].did # None

\* The client never fails a call for its own state: a space that was just
\* added can be selected, and one that was selected is there at the upload.
NoClientError == \A r \in Requests : outcome[r] \notin {"clientError", "noSpace"}

\* A call that has begun is answered, or its process is gone: no combination
\* of client, row and proof leaves a call without a next step.
EveryCallSettles == \A r \in Requests : pc[r] # "idle" ~> pc[r] = "done"

\* The order of a call's places, which it goes through once and only forwards.
CallNo == [idle |-> 0, creating |-> 1, lookup |-> 2, select |-> 3, addSpace |-> 4,
           selectParsed |-> 5, saveDid |-> 6, files |-> 7, uploading |-> 8, done |-> 9]

\* While a process lives its client forgets no space that was added to it
\* (a client is created once: init returns early when _client is set).
ClientKeepsSpaces ==
    [][\A p \in Processes :
          client[p].made /\ client'[p].made => client[p].known \subseteq client'[p].known]_vars

\* What a call relies on: that the client it works with holds what its place
\* requires, that its transfer goes where its own row led, and that it has not
\* been turned down for the state of the client.
ClientReady(r) ==
    LET c == client[at[r]]
    IN  /\ pc[r] = "selectParsed" => ParsedDid(r) \in c.known
        /\ pc[r] = "saveDid" => c.current = ParsedDid(r)
        /\ pc[r] = "files" => c.current # None /\ c.current \in {ParsedDid(r), found[r].did}

TransferOf(r) == target[r] # None => target[r] \in {ParsedDid(r), found[r].did}

ErrorOf(r) == outcome[r] \notin {"clientError", "noSpace"}

Safe(r) == ClientReady(r) /\ TransferOf(r) /\ ErrorOf(r)

\* Awaits lie between the addition of a call's space, its selection and its
\* use.  While the call waits there, a step of another moves its space when the
\* client no longer knows it or has another one for the current.
Moved(r) ==
    LET was == client[at[r]]
        is  == client'[at[r]]
    IN  /\ pc'[r] = pc[r]
        /\ \/ pc[r] = "selectParsed" /\ ~(was.known \subseteq is.known)
           \/ pc[r] \in {"saveDid", "files"} /\ is.current # was.current

\* Sharing a client does no other harm: on the local server too a call loses
\* what it relies on in no step but one that moves its space, whatever state
\* the calls before it and beside it have left the client in.
OnlyMovesDoHarm == [][\A r \in Requests : Safe(r) /\ ~Moved(r) => Safe(r)']_vars

\* What keeps the client from failing a call: the space its proof was parsed to
\* is known, or some space is current.
HasSpace(r) ==
    LET c == client[at[r]]
    IN  /\ pc[r] = "selectParsed" => ParsedDid(r) \in c.known
        /\ pc[r] \in {"saveDid", "files"} => c.current # None
        /\ ErrorOf(r)

\* The client is made, and no call of the process is still to assign another.
Warm(p) ==
    /\ client[p].made
    /\ \A q \in Requests : pc[q] = "creating" => at[q] # p

\* init tests _client before its awaits and assigns it after them, so that calls
\* that overlap replace each other's client.  That ends with the start of the
\* process: a warm one stays so while it lives, and none of its calls, however
\* they overlap, finds its space gone from the client or the client without one.
OnlyStartsLoseSpaces ==
    [][/\ \A r \in Requests : HasSpace(r) /\ ~HasSpace(r)' => ~Warm(at[r])
       /\ \A p \in Processes : Warm(p) => Warm(p)' \/ ~client'[p].made]_vars

\* The service implements the promise it makes to its callers.
Status(r) ==
    IF pc[r] = "idle" THEN "idle"
    ELSE IF pc[r] # "done" THEN "running"
    ELSE IF outcome[r] = "ok" THEN "ok" ELSE "failed"

Promise ==
    INSTANCE SpaceUpload WITH
        Nobody <- None,
        given  <- [w \in Wallets |-> OwnSpaces(w)],
        owner  <- [r \in Requests |-> Owner(r)],
        status <- [r \in Requests |-> Status(r)]

\* One invocation at a time in a process, every step of the service is a step
\* of SpaceUpload or changes nothing a caller can see.
ImplementsSpaceUpload == Promise!Spec

\* An upload goes to the space of the proof its row held when it was read:
\* the README has an operator choose a wallet's space by the proof alone.  A
\* did that was saved for an earlier proof of the wallet would be preferred
\* to it, so this is for tables whose proofs are never replaced.
UploadFollowsProof ==
    \A r \in Requests : target[r] # None => target[r] = ParsedDid(r)
=============================================================================
