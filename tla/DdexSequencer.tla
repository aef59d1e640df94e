---------------------------- MODULE DdexSequencer ----------------------------
(***************************************************************************)
(* The sequencer contract behind its proxy (src/contracts/ddexSequencer,   *)
(* src/contracts/ERC1967Proxy), which names the whitelists the bridge asks *)
(* (src/auth/auth.service.ts:50), with the whitelist contracts themselves. *)
(* Blobs are submitted by listed data providers and taken from the queue   *)
(* by listed validators; the queue is a list linked through a mapping.     *)
(*                                                                         *)
(* As for Whitelist, guards and effects are those of the bytecode          *)
(* (DdexSequencer__factory.ts:514, ERC1967Proxy__factory.ts:91), and a     *)
(* transaction is one step.  The image, the journal and the seal of a proof*)
(* are judged by the emitter, a contract outside of the repository; a call *)
(* it turns down reverts.                                                  *)
(***************************************************************************)
EXTENDS Whitelist, Sequences, Naturals

CONSTANTS
    Implementations,  \* contracts with this code behind the proxy
    Hashes,           \* blob hashes
    Emitters,         \* emitter contracts
    Zero              \* the zero address, or the zero hash

ASSUME SequencerConstantsOK ==
    Zero \notin Accounts \cup Lists \cup Implementations \cup Hashes \cup Emitters

VARIABLES
    implementation,   \* of the proxy; Zero before the proxy is deployed
    initialized,      \* of the proxy's storage
    whitelists,       \* the address of each whitelist
    owner,
    ddexEmitter,
    disabled,         \* whether whitelisting is disabled
    blobQueueHead,
    blobQueueTail,
    blobs,            \* what the contract knows of each hash
    order             \* history: the hashes submitted and not yet taken

settings  == <<initialized, whitelists, owner, ddexEmitter, disabled>>
blobQueue == <<blobQueueHead, blobQueueTail, blobs, order>>
vars      == <<registry, implementation, settings, blobQueue>>

WhitelistId == {"DATA_PROVIDERS", "VALIDATORS"}

\* A blob that is not in the queue.  Its blobId and its imageId are only shown.
NoBlob == [nextBlob |-> Zero, submitted |-> FALSE, proposer |-> Zero]

Init ==
    /\ RegistryInit
    /\ implementation = Zero
    /\ initialized = FALSE
    /\ whitelists = [id \in WhitelistId |-> Zero]
    /\ owner = Zero
    /\ ddexEmitter = Zero
    /\ disabled = FALSE
    /\ blobQueueHead = Zero
    /\ blobQueueTail = Zero
    /\ blobs = [h \in Hashes |-> NoBlob]
    /\ order = <<>>

-----------------------------------------------------------------------------
(* Settings                                                                *)

\* A plausible bug: nothing keeps initialize from being called once more.
InitializeAgain(c, dp, val) ==
    /\ initialized' = TRUE
    /\ whitelists' = [whitelists EXCEPT !["DATA_PROVIDERS"] = dp, !["VALIDATORS"] = val]
    /\ owner' = c
    /\ UNCHANGED <<ddexEmitter, disabled, blobQueue>>

\* A plausible bug: the owner is an address that was given, not the caller.
InitializeGivenOwner(c, dp, val) ==
    /\ ~initialized
    /\ dp \in Lists \cup {Zero} /\ val \in Lists \cup {Zero}
    /\ initialized' = TRUE
    /\ whitelists' = [whitelists EXCEPT !["DATA_PROVIDERS"] = dp, !["VALIDATORS"] = val]
    /\ owner' = val
    /\ UNCHANGED <<ddexEmitter, disabled, blobQueue>>

\* Each address is that of a whitelist contract or zero.
Initialize(c, dp, val) ==
    /\ ~initialized
    /\ dp \in Lists \cup {Zero} /\ val \in Lists \cup {Zero}
    /\ initialized' = TRUE
    /\ whitelists' = [whitelists EXCEPT !["DATA_PROVIDERS"] = dp, !["VALIDATORS"] = val]
    /\ owner' = c
    /\ UNCHANGED <<ddexEmitter, disabled, blobQueue>>

\* A plausible bug: the one who deployed the proxy stays its owner for good.
NotRenounced(c) == owner \in {c, Zero}

onlyOwner(c) == owner = c

TransferOwnership(c, a) ==
    /\ onlyOwner(c)
    /\ a # Zero
    /\ owner' = a
    /\ UNCHANGED <<initialized, whitelists, ddexEmitter, disabled, blobQueue>>

RenounceOwnership(c) ==
    /\ onlyOwner(c)
    /\ owner' = Zero
    /\ UNCHANGED <<initialized, whitelists, ddexEmitter, disabled, blobQueue>>

SetDdexEmitter(c, e) ==
    /\ onlyOwner(c)
    /\ ddexEmitter' = e
    /\ UNCHANGED <<initialized, whitelists, owner, disabled, blobQueue>>

SetWhitelistingStatus(c, d) ==
    /\ onlyOwner(c)
    /\ disabled' = d
    /\ UNCHANGED <<initialized, whitelists, owner, ddexEmitter, blobQueue>>

-----------------------------------------------------------------------------
(* The queue                                                               *)

\* The caller is on the list; a list at the zero address cannot be asked.
Listed(id, c) ==
    \/ disabled
    \/ whitelists[id] # Zero /\ isWhitelisted(whitelists[id], c)

\* A plausible bug: the hash is not looked up first.
SubmitNewBlobTwice(c, h) ==
    /\ Listed("DATA_PROVIDERS", c)
    /\ ddexEmitter # Zero
    /\ \/ /\ blobQueueHead = Zero
          /\ blobQueueHead' = h
          /\ blobs' = [blobs EXCEPT ![h].submitted = TRUE, ![h].proposer = c]
       \/ /\ blobQueueHead # Zero
          /\ UNCHANGED blobQueueHead
          /\ blobs' = [blobs EXCEPT ![h].submitted = TRUE, ![h].proposer = c,
                                    ![blobQueueTail].nextBlob = h]
    /\ blobQueueTail' = h
    /\ order' = Append(order, h)
    /\ UNCHANGED settings

\* The emitter has said which images it supports; h is the hash of the blob
\* that the transaction carries.
SubmitNewBlob(c, h) ==
    /\ Listed("DATA_PROVIDERS", c)
    /\ ddexEmitter # Zero
    /\ ~blobs[h].submitted
    /\ \/ /\ blobQueueHead = Zero
          /\ blobQueueHead' = h
          /\ blobs' = [blobs EXCEPT ![h].submitted = TRUE, ![h].proposer = c]
       \/ /\ blobQueueHead # Zero
          /\ UNCHANGED blobQueueHead
          /\ blobs' = [blobs EXCEPT ![h].submitted = TRUE, ![h].proposer = c,
                                    ![blobQueueTail].nextBlob = h]
    /\ blobQueueTail' = h
    /\ order' = Append(order, h)
    /\ UNCHANGED settings

\* A plausible bug: only the mark of a blob that leaves is cleared.
MoveFirstKeepsLink ==
    /\ blobQueueHead' = IF blobQueueHead = blobQueueTail THEN Zero ELSE blobs[blobQueueHead].nextBlob
    /\ blobQueueTail' = IF blobQueueHead = blobQueueTail THEN Zero ELSE blobQueueTail
    /\ blobs' = [h \in Hashes |-> IF h = blobQueueHead THEN [blobs[h] EXCEPT !.submitted = FALSE]
                                                        ELSE blobs[h]]
    /\ order' = IF order = <<>> THEN <<>> ELSE Tail(order)
    /\ UNCHANGED settings

\* The internal _moveQueue: the first blob is cleared, whatever comes after.
MoveFirst ==
    /\ \/ /\ blobQueueHead = blobQueueTail
          /\ blobQueueHead' = Zero
          /\ blobQueueTail' = Zero
       \/ /\ blobQueueHead # blobQueueTail
          /\ blobQueueHead' = blobs[blobQueueHead].nextBlob
          /\ UNCHANGED blobQueueTail
    /\ blobs' = [h \in Hashes |-> IF h = blobQueueHead THEN NoBlob ELSE blobs[h]]
    /\ order' = IF order = <<>> THEN <<>> ELSE Tail(order)
    /\ UNCHANGED settings

\* The emitter, which is asked before the queue is moved, has verified the
\* proof.  It is taken to make no call of the sequencer meanwhile.
SubmitProof(c) ==
    /\ Listed("VALIDATORS", c)
    /\ blobQueueHead # Zero
    /\ ddexEmitter # Zero
    /\ MoveFirst

\* The owner moves an empty queue, too.
MoveQueue(c) ==
    /\ onlyOwner(c)
    /\ MoveFirst

-----------------------------------------------------------------------------
(* The proxy                                                               *)

\* Whatever the proxy delegates on behalf of c.
Call(c) ==
    \/ \E dp, val \in Lists \cup {Zero} : Initialize(c, dp, val)
    \/ \E a \in Accounts \cup {Zero} : TransferOwnership(c, a)
    \/ RenounceOwnership(c)
    \/ \E e \in Emitters \cup {Zero} : SetDdexEmitter(c, e)
    \/ \E d \in BOOLEAN : SetWhitelistingStatus(c, d)
    \/ \E h \in Hashes : SubmitNewBlob(c, h)
    \/ SubmitProof(c)
    \/ MoveQueue(c)

\* The call that goes with the address of a new implementation, if there is one.
Data(c) == Call(c) \/ UNCHANGED <<settings, blobQueue>>

\* The constructor of the proxy; test/fixture.ts:69 has it initialize at once.
Deploy(c, i) ==
    /\ implementation = Zero
    /\ implementation' = i
    /\ Data(c)

Delegate(c) ==
    /\ implementation # Zero
    /\ Call(c)
    /\ UNCHANGED implementation

UpgradeToAndCall(c, i) ==
    /\ implementation # Zero
    /\ onlyOwner(c)
    /\ implementation' = i
    /\ Data(c)

Next ==
    \E c \in Accounts :
        \/ \E w \in Lists : Moderation(c, w) /\ UNCHANGED <<implementation, settings, blobQueue>>
        \/ \E i \in Implementations : Deploy(c, i) /\ UNCHANGED registry
        \/ Delegate(c) /\ UNCHANGED registry
        \/ \E i \in Implementations : UpgradeToAndCall(c, i) /\ UNCHANGED registry

Spec == Init /\ [][Next]_vars

-----------------------------------------------------------------------------
(* Properties                                                              *)

TypeOK ==
    /\ RegistryTypeOK
    /\ implementation \in Implementations \cup {Zero}
    /\ initialized \in BOOLEAN
    /\ whitelists \in [WhitelistId -> Lists \cup {Zero}]
    /\ owner \in Accounts \cup {Zero}
    /\ ddexEmitter \in Emitters \cup {Zero}
    /\ disabled \in BOOLEAN
    /\ blobQueueHead \in Hashes \cup {Zero}
    /\ blobQueueTail \in Hashes \cup {Zero}
    /\ blobs \in [Hashes -> [nextBlob : Hashes \cup {Zero}, submitted : BOOLEAN,
                             proposer : Accounts \cup {Zero}]]
    /\ order \in Seq(Hashes)

\* The linked list is the queue of the blobs that were submitted and not taken:
\* its links lead from the head through each of them, in their order, to the
\* tail, and no hash outside of it is marked or keeps a link of an earlier stay.
QueueIsLinked ==
    /\ blobQueueHead = IF order = <<>> THEN Zero ELSE order[1]
    /\ blobQueueTail = IF order = <<>> THEN Zero ELSE order[Len(order)]
    /\ \A i, j \in 1 .. Len(order) : order[i] = order[j] => i = j
    /\ \A i \in 1 .. Len(order) :
           blobs[order[i]].nextBlob = IF i = Len(order) THEN Zero ELSE order[i + 1]
    /\ \A h \in Hashes : blobs[h].submitted <=> \E i \in 1 .. Len(order) : order[i] = h
    /\ \A h \in Hashes : ~blobs[h].submitted => blobs[h] = NoBlob

\* What anyone can see of the contract is a queue: nothing is taken out of turn,
\* lost, or there twice, whoever submits, proves or moves.
Queue == INSTANCE BlobQueue
    WITH queue <- order, front <- blobQueueHead, back <- blobQueueTail,
         waiting <- {h \in Hashes : blobs[h].submitted}
ImplementsBlobQueue == Queue!Spec

\* Once the sequencer is initialised its whitelists are what they are: none of
\* its calls, an upgrade to the same code with any of them included, names
\* others.  The bridge keeps what it has read of them for the life of a process.
WhitelistsStayNamed == [][initialized => UNCHANGED whitelists]_vars

\* When the owner has renounced, the sequencer can no longer be changed by
\* anybody: there is no way back to an owner, and only the queue goes on.
OwnerlessIsFixed ==
    [][initialized /\ owner = Zero => UNCHANGED <<implementation, settings>>]_vars

\* A whitelist that has lost its last administrator gets no role holder any
\* more: moderators can only become fewer.
RolesAreHandedOn ==
    [][\A w \in Lists :
          roles[w][DEFAULT_ADMIN_ROLE] = {} => \A r \in Role : roles'[w][r] \subseteq roles[w][r]]_vars
=============================================================================
