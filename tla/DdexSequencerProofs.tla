------------------------ MODULE DdexSequencerProofs ------------------------
(***************************************************************************)
(* Theorems about DdexSequencer for any accounts, lists and blobs.  The    *)
(* invariant is TypeOK, QueueIsLinked and what the constructor of the proxy*)
(* adds: nothing is initialised before the proxy is there.                 *)
(***************************************************************************)
EXTENDS DdexSequencer, TLAPS

DeployedFirst == implementation = Zero => ~initialized

\* What a step leaves of everything but the contract behind the proxy.
Rest == <<registry, settings, blobQueue>>

-----------------------------------------------------------------------------
(* The contracts of the whitelists                                         *)

\* What an account does to a whitelist contract keeps its types, and hands out
\* no role that has no administrator.
LEMMA ModerationStep ==
    ASSUME RegistryTypeOK, NEW c \in Accounts, NEW w \in Lists, Moderation(c, w)
    PROVE  /\ RegistryTypeOK'
           /\ \A v \in Lists : roles[v][DEFAULT_ADMIN_ROLE] = {} =>
                  \A r \in Role : roles'[v][r] \subseteq roles[v][r]
<1> USE DEF RegistryTypeOK, Role, DEFAULT_ADMIN_ROLE, MODERATOR_ROLE
<1>1. ASSUME NEW r \in Role, NEW a \in Accounts, GrantRole(c, w, r, a)
      PROVE  RegistryTypeOK' /\ \A v \in Lists : roles[v][DEFAULT_ADMIN_ROLE] = {} =>
                  \A q \in Role : roles'[v][q] \subseteq roles[v][q]
  <2>1. roles[w][DEFAULT_ADMIN_ROLE] # {}
    BY <1>1 DEF GrantRole, hasRole, getRoleAdmin
  <2>2. RegistryTypeOK'
    BY <1>1 DEF GrantRole
  <2>3. \A v \in Lists : v # w => roles'[v] = roles[v]
    BY <1>1 DEF GrantRole
  <2> QED BY <2>1, <2>2, <2>3
<1>2. ASSUME NEW r \in Role, NEW a \in Accounts, RevokeRole(c, w, r, a)
      PROVE  RegistryTypeOK' /\ \A v \in Lists : \A q \in Role : roles'[v][q] \subseteq roles[v][q]
  BY <1>2 DEF RevokeRole
<1>3. ASSUME NEW r \in Role, RenounceRole(c, w, r)
      PROVE  RegistryTypeOK' /\ \A v \in Lists : \A q \in Role : roles'[v][q] \subseteq roles[v][q]
  BY <1>3 DEF RenounceRole
<1>4. ASSUME NEW a \in Accounts, AddToWhitelist(c, w, a) \/ RemoveFromWhitelist(c, w, a)
      PROVE  RegistryTypeOK' /\ roles' = roles
  BY <1>4 DEF AddToWhitelist, RemoveFromWhitelist
<1> QED BY <1>1, <1>2, <1>3, <1>4 DEF Moderation

-----------------------------------------------------------------------------
(* The settings                                                            *)

\* Settled(c) holds of a call that leaves the queue alone.
Settled(c) ==
    \/ \E dp, val \in Lists \cup {Zero} : Initialize(c, dp, val)
    \/ \E a \in Accounts \cup {Zero} : TransferOwnership(c, a)
    \/ RenounceOwnership(c)
    \/ \E e \in Emitters \cup {Zero} : SetDdexEmitter(c, e)
    \/ \E d \in BOOLEAN : SetWhitelistingStatus(c, d)

SettingsTypeOK ==
    /\ initialized \in BOOLEAN
    /\ whitelists \in [WhitelistId -> Lists \cup {Zero}]
    /\ owner \in Accounts \cup {Zero}
    /\ ddexEmitter \in Emitters \cup {Zero}
    /\ disabled \in BOOLEAN

\* A call for the settings keeps their types and the queue, names whitelists only
\* when it initialises, and changes nothing when there is no owner left.
LEMMA SettledStep ==
    ASSUME SettingsTypeOK, NEW c \in Accounts, Settled(c)
    PROVE  /\ SettingsTypeOK' /\ UNCHANGED blobQueue
           /\ initialized => UNCHANGED whitelists
           /\ ~(initialized /\ owner = Zero)
<1> USE SequencerConstantsOK DEF SettingsTypeOK, blobQueue, onlyOwner
<1>1. ASSUME NEW dp \in Lists \cup {Zero}, NEW val \in Lists \cup {Zero}, Initialize(c, dp, val)
      PROVE  SettingsTypeOK' /\ UNCHANGED blobQueue /\ ~initialized
  BY <1>1 DEF Initialize, WhitelistId
<1>2. ASSUME \/ \E a \in Accounts \cup {Zero} : TransferOwnership(c, a)
             \/ RenounceOwnership(c)
             \/ \E e \in Emitters \cup {Zero} : SetDdexEmitter(c, e)
             \/ \E d \in BOOLEAN : SetWhitelistingStatus(c, d)
      PROVE  SettingsTypeOK' /\ UNCHANGED blobQueue /\ UNCHANGED whitelists /\ owner = c
  BY <1>2 DEF TransferOwnership, RenounceOwnership, SetDdexEmitter, SetWhitelistingStatus
<1> QED BY <1>1, <1>2 DEF Settled

-----------------------------------------------------------------------------
(* The queue                                                               *)

QueueTypeOK ==
    /\ blobQueueHead \in Hashes \cup {Zero}
    /\ blobQueueTail \in Hashes \cup {Zero}
    /\ blobs \in [Hashes -> [nextBlob : Hashes \cup {Zero}, submitted : BOOLEAN,
                             proposer : Accounts \cup {Zero}]]
    /\ order \in Seq(Hashes)

QueueInv == QueueTypeOK /\ QueueIsLinked

\* A new blob is linked behind the last one.
LEMMA SubmitStep ==
    ASSUME QueueInv, NEW c \in Accounts, NEW h \in Hashes, SubmitNewBlob(c, h)
    PROVE  QueueInv' /\ ~blobs[h].submitted /\ order' = Append(order, h) /\ UNCHANGED settings
<1> USE SequencerConstantsOK DEF QueueInv, QueueTypeOK
<1>1. ~blobs[h].submitted /\ order' = Append(order, h) /\ blobQueueTail' = h /\ UNCHANGED settings
  BY DEF SubmitNewBlob
<1>2. /\ order' \in Seq(Hashes) /\ Len(order') = Len(order) + 1 /\ Len(order) \in Nat
      /\ \A i \in 1 .. Len(order) : order'[i] = order[i] /\ order[i] \in Hashes
      /\ order'[Len(order) + 1] = h
  BY <1>1
<1>3. \A i \in 1 .. Len(order) : order[i] # h
  BY <1>1 DEF QueueIsLinked
<1>4. CASE blobQueueHead = Zero
  <2>1. order = <<>>
    BY <1>2, <1>4 DEF QueueIsLinked
  <2>2. blobQueueHead' = h /\ blobs' = [blobs EXCEPT ![h].submitted = TRUE, ![h].proposer = c]
    BY <1>4 DEF SubmitNewBlob
  <2>3. blobs[h].nextBlob = Zero
    BY <1>1 DEF QueueIsLinked, NoBlob
  <2>4. QueueTypeOK'
    BY <1>1, <1>2, <2>2
  <2>5. Len(order') = 1 /\ order'[1] = h /\ order' # <<>>
    BY <1>2, <2>1
  <2>6. QueueIsLinked'
    BY <1>1, <2>1, <2>2, <2>3, <2>5 DEF QueueIsLinked, NoBlob
  <2> QED BY <1>1, <2>4, <2>6
<1>5. CASE blobQueueHead # Zero
  <2> DEFINE n == Len(order)
  <2>1. order # <<>> /\ n \in Nat /\ n > 0 /\ blobQueueTail = order[n] /\ blobQueueTail \in Hashes
    BY <1>2, <1>5 DEF QueueIsLinked
  <2>2. /\ blobQueueHead' = blobQueueHead
        /\ blobs' = [blobs EXCEPT ![h].submitted = TRUE, ![h].proposer = c,
                                  ![blobQueueTail].nextBlob = h]
    BY <1>5 DEF SubmitNewBlob
  <2>3. blobQueueTail # h
    BY <1>3, <2>1
  <2>4. QueueTypeOK'
    <3> DEFINE Blob == [nextBlob : Hashes \cup {Zero}, submitted : BOOLEAN,
                        proposer : Accounts \cup {Zero}]
               b == [blobs EXCEPT ![h].submitted = TRUE, ![h].proposer = c]
    <3>1. b \in [Hashes -> Blob]
      OBVIOUS
    <3>2. blobs' = [b EXCEPT ![blobQueueTail].nextBlob = h]
      BY <2>2
    <3>3. blobs' \in [Hashes -> Blob]
      <4> HIDE DEF b
      <4> QED BY <3>1, <3>2
    <3> QED BY <1>1, <1>2, <2>1, <2>2, <3>3
  <2>5. /\ blobs'[h].submitted /\ blobs'[h].nextBlob = Zero
        /\ blobs'[blobQueueTail].submitted = blobs[blobQueueTail].submitted
        /\ blobs'[blobQueueTail].nextBlob = h
        /\ \A g \in Hashes \ {h, blobQueueTail} : blobs'[g] = blobs[g]
    BY <1>1, <2>1, <2>2, <2>3 DEF QueueIsLinked, NoBlob
  <2>6. /\ blobQueueHead' = order'[1] /\ blobQueueTail' = order'[Len(order')]
        /\ order' # <<>>
    BY <1>1, <1>2, <2>1, <2>2 DEF QueueIsLinked
  <2>7. \A i, j \in 1 .. Len(order') : order'[i] = order'[j] => i = j
    <3> SUFFICES ASSUME NEW i \in 1 .. n + 1, NEW j \in 1 .. n + 1, order'[i] = order'[j]
                 PROVE  i = j
      BY <1>2
    <3>1. CASE i \in 1 .. n /\ j \in 1 .. n
      BY <3>1, <1>2 DEF QueueIsLinked
    <3>2. CASE i = n + 1 \/ j = n + 1
      BY <3>2, <1>2, <1>3, <2>1
    <3> QED BY <3>1, <3>2, <2>1
  <2>8. \A i \in 1 .. Len(order') :
            blobs'[order'[i]].nextBlob = IF i = Len(order') THEN Zero ELSE order'[i + 1]
    <3> SUFFICES ASSUME NEW i \in 1 .. n + 1
                 PROVE  blobs'[order'[i]].nextBlob = IF i = n + 1 THEN Zero ELSE order'[i + 1]
      BY <1>2
    <3>1. CASE i = n + 1
      BY <3>1, <1>2, <2>5
    <3>2. CASE i = n
      BY <3>2, <1>2, <2>1, <2>5
    <3>3. CASE i \in 1 .. n - 1
      <4>1. i \in 1 .. n /\ n \in 1 .. n /\ i # n /\ i + 1 \in 1 .. n
        BY <3>3, <2>1
      <4>2. order[i] # h /\ order[i] # blobQueueTail /\ order[i] \in Hashes
        BY <4>1, <1>2, <1>3, <2>1 DEF QueueIsLinked
      <4>3. blobs[order[i]].nextBlob = order[i + 1]
        BY <4>1 DEF QueueIsLinked
      <4>4. order'[i] = order[i] /\ order'[i + 1] = order[i + 1]
        BY <4>1, <1>2
      <4> QED BY <4>1, <4>2, <4>3, <4>4, <2>5
    <3> QED BY <3>1, <3>2, <3>3, <2>1
  <2>9. \A g \in Hashes : blobs'[g].submitted <=> \E i \in 1 .. Len(order') : order'[i] = g
    <3> SUFFICES ASSUME NEW g \in Hashes
                 PROVE  blobs'[g].submitted <=> \E i \in 1 .. n + 1 : order'[i] = g
      BY <1>2
    <3>1. CASE g = h
      BY <3>1, <1>2, <2>1, <2>5
    <3>2. CASE g # h
      <4>1. blobs'[g].submitted = blobs[g].submitted
        BY <3>2, <2>5
      <4>2. (\E i \in 1 .. n + 1 : order'[i] = g) <=> \E i \in 1 .. n : order[i] = g
        BY <3>2, <1>2, <2>1
      <4> QED BY <4>1, <4>2 DEF QueueIsLinked
    <3> QED BY <3>1, <3>2
  <2>10. \A g \in Hashes : ~blobs'[g].submitted => blobs'[g] = NoBlob
    <3>1. blobs[blobQueueTail].submitted
      BY <2>1 DEF QueueIsLinked
    <3> QED BY <3>1, <2>1, <2>5 DEF QueueIsLinked
  <2>11. QueueIsLinked'
    BY <2>6, <2>7, <2>8, <2>9, <2>10 DEF QueueIsLinked, NoBlob
  <2> QED BY <1>1, <2>4, <2>11
<1> QED BY <1>4, <1>5

\* The first blob leaves the list, if there is one.
LEMMA MoveStep ==
    ASSUME QueueInv, MoveFirst
    PROVE  /\ QueueInv' /\ UNCHANGED settings
           /\ order = <<>> => UNCHANGED blobQueue
           /\ order # <<>> => order' = Tail(order)
<1> USE SequencerConstantsOK DEF QueueInv, QueueTypeOK
<1>0. UNCHANGED settings
  BY DEF MoveFirst
<1> DEFINE n == Len(order)
<1>1. CASE order = <<>>
  <2>1. blobQueueHead = Zero /\ blobQueueTail = Zero
    BY <1>1 DEF QueueIsLinked
  <2>2. blobQueueHead' = Zero /\ blobQueueTail' = Zero /\ order' = order
    BY <1>1, <2>1 DEF MoveFirst
  <2>3. blobs' = blobs
    BY <2>1 DEF MoveFirst
  <2> QED BY <1>0, <1>1, <2>1, <2>2, <2>3 DEF blobQueue, QueueIsLinked
<1>2. CASE order # <<>>
  <2>1. n \in Nat /\ n > 0 /\ \A i \in 1 .. n : order[i] \in Hashes
    BY <1>2
  <2>2. /\ order' = Tail(order) /\ order' \in Seq(Hashes) /\ Len(order') = n - 1
        /\ \A i \in 1 .. n - 1 : order'[i] = order[i + 1]
    BY <1>2, <2>1 DEF MoveFirst
  <2>3. blobQueueHead = order[1] /\ blobQueueTail = order[n] /\ blobQueueHead \in Hashes
    BY <1>2, <2>1 DEF QueueIsLinked
  <2>4. blobQueueHead = blobQueueTail <=> n = 1
    <3> HIDE DEF QueueInv, QueueTypeOK, n
    <3>1. 1 \in 1 .. n /\ n \in 1 .. n
      BY <2>1
    <3>2. order[1] = order[n] => 1 = n
      BY <3>1 DEF QueueIsLinked, QueueInv, n
    <3> QED BY <2>3, <3>2
  <2>5. blobs' = [h \in Hashes |-> IF h = order[1] THEN NoBlob ELSE blobs[h]]
    BY <2>3 DEF MoveFirst
  <2>6. \A h \in Hashes : blobs'[h].submitted <=> \E i \in 2 .. n : order[i] = h
    <3> SUFFICES ASSUME NEW h \in Hashes
                 PROVE  blobs'[h].submitted <=> \E i \in 2 .. n : order[i] = h
      OBVIOUS
    <3>1. CASE h = order[1]
      <4>1. \A i \in 2 .. n : order[i] # h
        BY <3>1, <2>1 DEF QueueIsLinked
      <4> QED BY <3>1, <4>1, <2>5 DEF NoBlob
    <3>2. CASE h # order[1]
      BY <3>2, <2>1, <2>5 DEF QueueIsLinked
    <3> QED BY <3>1, <3>2
  <2>7. (\E i \in 2 .. n : TRUE) <=> n > 1
    BY <2>1
  <2>8. \A h \in Hashes : blobs'[h].submitted <=> \E i \in 1 .. Len(order') : order'[i] = h
    <3> SUFFICES ASSUME NEW h \in Hashes
                 PROVE  (\E i \in 2 .. n : order[i] = h) <=> \E i \in 1 .. n - 1 : order'[i] = h
      BY <2>2, <2>6
    <3>1. ASSUME NEW i \in 2 .. n, order[i] = h PROVE \E j \in 1 .. n - 1 : order'[j] = h
      <4>1. i - 1 \in 1 .. n - 1 /\ order'[i - 1] = order[i - 1 + 1]
        BY <2>1, <2>2
      <4> QED BY <3>1, <4>1, <2>1
    <3>2. ASSUME NEW i \in 1 .. n - 1, order'[i] = h PROVE \E j \in 2 .. n : order[j] = h
      <4>1. i + 1 \in 2 .. n /\ order[i + 1] = h
        BY <3>2, <2>1, <2>2
      <4> QED BY <4>1
    <3> QED BY <3>1, <3>2
  <2>9. \A h \in Hashes : ~blobs'[h].submitted => blobs'[h] = NoBlob
    BY <2>5 DEF QueueIsLinked
  <2>10. \A i, j \in 1 .. Len(order') : order'[i] = order'[j] => i = j
    <3> SUFFICES ASSUME NEW i \in 1 .. n - 1, NEW j \in 1 .. n - 1, order'[i] = order'[j]
                 PROVE  i = j
      BY <2>2
    <3>1. i + 1 \in 1 .. n /\ j + 1 \in 1 .. n /\ order[i + 1] = order[j + 1]
      BY <2>1, <2>2
    <3> QED BY <3>1, <2>1 DEF QueueIsLinked
  <2>11. \A i \in 1 .. Len(order') :
             blobs'[order'[i]].nextBlob = IF i = Len(order') THEN Zero ELSE order'[i + 1]
    <3> SUFFICES ASSUME NEW i \in 1 .. n - 1
                 PROVE  blobs'[order'[i]].nextBlob = IF i = n - 1 THEN Zero ELSE order'[i + 1]
      BY <2>2
    <3>1. i + 1 \in 1 .. n /\ 1 \in 1 .. n /\ i + 1 # 1 /\ order'[i] = order[i + 1]
      BY <2>1, <2>2
    <3>2. order[i + 1] # order[1] /\ order[i + 1] \in Hashes
      BY <3>1, <2>1 DEF QueueIsLinked
    <3>3. blobs'[order'[i]].nextBlob = IF i + 1 = n THEN Zero ELSE order[i + 1 + 1]
      BY <3>1, <3>2, <2>5 DEF QueueIsLinked
    <3>4. i # n - 1 => order'[i + 1] = order[i + 1 + 1]
      BY <2>1, <2>2
    <3> QED BY <3>3, <3>4, <2>1
  <2>12. CASE n = 1
    <3>1. order' = <<>> /\ blobQueueHead' = Zero /\ blobQueueTail' = Zero
      BY <2>12, <2>2, <2>4 DEF MoveFirst
    <3>2. QueueTypeOK'
      BY <3>1, <2>2, <2>5 DEF NoBlob
    <3> QED BY <1>0, <1>2, <2>2, <2>8, <2>9, <2>10, <2>11, <3>1, <3>2 DEF QueueIsLinked, NoBlob
  <2>13. CASE n > 1
    <3>1. blobQueueHead' = blobs[order[1]].nextBlob /\ blobQueueTail' = order[n]
      BY <2>1, <2>13, <2>3, <2>4 DEF MoveFirst
    <3>2. blobs[order[1]].nextBlob = order[2] /\ order[2] \in Hashes
      BY <2>1, <2>13 DEF QueueIsLinked
    <3>3. 1 \in 1 .. n - 1 /\ n - 1 \in 1 .. n - 1 /\ 1 + 1 = 2 /\ n - 1 + 1 = n
      BY <2>1, <2>13
    <3>4. order' # <<>> /\ order'[1] = order[2] /\ order'[Len(order')] = order[n]
      <4>1. order'[1] = order[2] /\ order'[n - 1] = order[n]
        BY <2>2, <3>3
      <4>2. order'[Len(order')] = order'[n - 1] /\ Len(order') > 0
        BY <2>1, <2>2, <2>13
      <4> HIDE DEF QueueInv, QueueTypeOK, n
      <4>3. order' # <<>>
        BY <4>2
      <4> QED BY <4>1, <4>2, <4>3, Zenon
    <3>5. QueueTypeOK'
      <4>1. blobQueueHead' \in Hashes /\ blobQueueTail' \in Hashes
        BY <3>1, <3>2, <2>1, <2>13
      <4>2. blobs' \in [Hashes -> [nextBlob : Hashes \cup {Zero}, submitted : BOOLEAN,
                                  proposer : Accounts \cup {Zero}]]
        BY <2>5 DEF NoBlob
      <4> QED BY <2>2, <4>1, <4>2
    <3> QED BY <1>0, <1>2, <2>2, <2>8, <2>9, <2>10, <2>11, <3>1, <3>2, <3>4, <3>5
            DEF QueueIsLinked, NoBlob
  <2>14. n = 1 \/ n > 1
    <3> HIDE DEF QueueInv, QueueTypeOK, n
    <3> QED BY <2>1
  <2> QED BY <2>12, <2>13, <2>14
<1> QED BY <1>1, <1>2

-----------------------------------------------------------------------------
(* The theorems                                                            *)

\* A call is one for the settings, a new blob, or one that moves the queue.
LEMMA CallStep ==
    ASSUME SettingsTypeOK, QueueInv, NEW c \in Accounts, Call(c)
    PROVE  /\ SettingsTypeOK' /\ QueueInv'
           /\ initialized => UNCHANGED whitelists
           /\ initialized /\ owner = Zero => UNCHANGED settings
           /\ \/ UNCHANGED blobQueue
              \/ \E h \in Hashes : ~blobs[h].submitted /\ order' = Append(order, h)
              \/ order # <<>> /\ order' = Tail(order)
<1>1. CASE Settled(c)
  <2>1. SettingsTypeOK' /\ UNCHANGED blobQueue
    BY <1>1, SettledStep
  <2>2. QueueInv'
    BY <2>1 DEF QueueInv, QueueTypeOK, QueueIsLinked, blobQueue
  <2>3. (initialized => UNCHANGED whitelists) /\ ~(initialized /\ owner = Zero)
    BY <1>1, SettledStep
  <2> QED BY <2>1, <2>2, <2>3
<1>2. CASE \E h \in Hashes : SubmitNewBlob(c, h)
  <2>1. PICK h \in Hashes : SubmitNewBlob(c, h)
    BY <1>2
  <2>2. QueueInv' /\ ~blobs[h].submitted /\ order' = Append(order, h) /\ UNCHANGED settings
    BY <2>1, SubmitStep
  <2> QED BY <2>2 DEF settings, SettingsTypeOK
<1>3. CASE MoveFirst
  <2>1. /\ QueueInv' /\ UNCHANGED settings
        /\ order = <<>> => UNCHANGED blobQueue
        /\ order # <<>> => order' = Tail(order)
    BY <1>3, MoveStep
  <2> QED BY <2>1 DEF settings, SettingsTypeOK
<1>4. Settled(c) \/ (\E h \in Hashes : SubmitNewBlob(c, h)) \/ MoveFirst
  BY DEF Call, Settled, SubmitProof, MoveQueue
<1> QED BY <1>1, <1>2, <1>3, <1>4

Inv == TypeOK /\ QueueIsLinked /\ DeployedFirst

LEMMA InvParts ==
    Inv <=> /\ RegistryTypeOK /\ SettingsTypeOK /\ QueueInv
            /\ implementation \in Implementations \cup {Zero} /\ DeployedFirst
BY DEF Inv, TypeOK, SettingsTypeOK, QueueInv, QueueTypeOK

LEMMA InitInv == Init => Inv
<1> SUFFICES ASSUME Init PROVE Inv
  OBVIOUS
<1>1. RegistryTypeOK
  BY DEF Init, RegistryInit, RegistryTypeOK
<1>2. SettingsTypeOK
  BY DEF Init, SettingsTypeOK
<1>3. QueueInv
  <2>1. order \in Seq(Hashes) /\ Len(order) = 0
    BY DEF Init
  <2>2. QueueTypeOK
    BY <2>1 DEF Init, QueueTypeOK, NoBlob
  <2>3. QueueIsLinked
    BY <2>1 DEF Init, QueueIsLinked, NoBlob
  <2> QED BY <2>2, <2>3 DEF QueueInv
<1> QED BY <1>1, <1>2, <1>3, InvParts DEF Init, DeployedFirst

\* What any transaction keeps and does, as far as the theorems need it.
Seen ==
    /\ Inv'
    /\ initialized => UNCHANGED whitelists
    /\ initialized /\ owner = Zero => UNCHANGED <<implementation, settings>>
    /\ \A v \in Lists : roles[v][DEFAULT_ADMIN_ROLE] = {} =>
           \A r \in Role : roles'[v][r] \subseteq roles[v][r]
    /\ \/ UNCHANGED blobQueue
       \/ \E h \in Hashes : ~blobs[h].submitted /\ order' = Append(order, h)
       \/ order # <<>> /\ order' = Tail(order)

LEMMA StepSeen == Inv /\ [Next]_vars => Seen
<1> SUFFICES ASSUME Inv, [Next]_vars PROVE Seen
  OBVIOUS
<1>1. RegistryTypeOK /\ SettingsTypeOK /\ QueueInv /\ DeployedFirst
      /\ implementation \in Implementations \cup {Zero}
  BY InvParts
<1>2. CASE UNCHANGED vars
  <2>1. Inv'
    BY <1>1, <1>2, InvParts
       DEF vars, registry, settings, blobQueue, RegistryTypeOK, SettingsTypeOK, QueueInv,
           QueueTypeOK, QueueIsLinked, DeployedFirst, Inv, TypeOK
  <2> QED BY <1>2, <2>1 DEF vars, registry, settings, blobQueue, Seen
<1>3. ASSUME NEW c \in Accounts, NEW w \in Lists, Moderation(c, w),
             UNCHANGED <<implementation, settings, blobQueue>>
      PROVE  Seen
  <2>1. RegistryTypeOK' /\ \A v \in Lists : roles[v][DEFAULT_ADMIN_ROLE] = {} =>
            \A r \in Role : roles'[v][r] \subseteq roles[v][r]
    BY <1>1, <1>3, ModerationStep
  <2>2. SettingsTypeOK' /\ DeployedFirst' /\ implementation' \in Implementations \cup {Zero}
    BY <1>1, <1>3 DEF settings, SettingsTypeOK, DeployedFirst
  <2>3. QueueInv'
    BY <1>1, <1>3 DEF blobQueue, QueueInv, QueueTypeOK, QueueIsLinked
  <2>4. Inv'
    BY <2>1, <2>2, <2>3 DEF Inv, TypeOK, SettingsTypeOK, QueueInv, QueueTypeOK
  <2> QED BY <1>3, <2>1, <2>4 DEF Seen, settings
<1>4. ASSUME NEW c \in Accounts, Data(c), UNCHANGED registry,
             implementation' \in Implementations \cup {Zero},
             implementation' = Zero => ~initialized',
             initialized /\ owner = Zero => UNCHANGED implementation
      PROVE  Seen
  <2>1. /\ SettingsTypeOK' /\ QueueInv'
        /\ initialized => UNCHANGED whitelists
        /\ initialized /\ owner = Zero => UNCHANGED settings
        /\ \/ UNCHANGED blobQueue
           \/ \E h \in Hashes : ~blobs[h].submitted /\ order' = Append(order, h)
           \/ order # <<>> /\ order' = Tail(order)
    <3>1. CASE Call(c)
      BY <1>1, <3>1, CallStep
    <3>2. CASE UNCHANGED <<settings, blobQueue>>
      <4>1. QueueInv'
        BY <1>1, <3>2 DEF blobQueue, QueueInv, QueueTypeOK, QueueIsLinked
      <4> QED BY <1>1, <3>2, <4>1 DEF settings, SettingsTypeOK
    <3> QED BY <1>4, <3>1, <3>2 DEF Data
  <2>2. RegistryTypeOK' /\ roles' = roles
    BY <1>1, <1>4 DEF registry, RegistryTypeOK
  <2>3. Inv'
    BY <1>4, <2>1, <2>2 DEF Inv, TypeOK, SettingsTypeOK, QueueInv, QueueTypeOK, DeployedFirst
  <2> QED BY <1>4, <2>1, <2>2, <2>3 DEF Seen
<1>5. ASSUME NEW c \in Accounts, NEW i \in Implementations, Deploy(c, i), UNCHANGED registry
      PROVE  Seen
  <2>1. Data(c) /\ implementation' = i /\ i # Zero /\ ~initialized
    BY <1>1, <1>5, SequencerConstantsOK DEF Deploy, DeployedFirst
  <2> QED BY <1>4, <1>5, <2>1
<1>6. ASSUME NEW c \in Accounts, Delegate(c), UNCHANGED registry
      PROVE  Seen
  <2>1. Data(c) /\ implementation' = implementation /\ implementation # Zero
    BY <1>6 DEF Delegate, Data
  <2> QED BY <1>1, <1>4, <1>6, <2>1
<1>7. ASSUME NEW c \in Accounts, NEW i \in Implementations, UpgradeToAndCall(c, i),
             UNCHANGED registry
      PROVE  Seen
  <2>1. Data(c) /\ implementation' = i /\ i # Zero /\ owner = c /\ c # Zero
    BY <1>7, SequencerConstantsOK DEF UpgradeToAndCall, onlyOwner
  <2> QED BY <1>4, <1>7, <2>1
<1> QED BY <1>2, <1>3, <1>5, <1>6, <1>7 DEF Next

LEMMA InvHolds == Spec => []Inv
<1>1. Inv /\ [Next]_vars => Inv'
  BY StepSeen DEF Seen
<1> QED BY InitInv, <1>1, PTL DEF Spec

\* Every variable of the sequencer and of the whitelist contracts keeps its type.
THEOREM SequencerIsTyped == Spec => []TypeOK
<1>1. Inv => TypeOK
  BY DEF Inv
<1> QED BY InvHolds, <1>1, PTL

\* The links of the mapping lead through the blobs that wait, in the order in
\* which they came, whoever submits, proves, moves or upgrades.
THEOREM TheQueueIsLinked == Spec => []QueueIsLinked
<1>1. Inv => QueueIsLinked
  BY DEF Inv
<1> QED BY InvHolds, <1>1, PTL

\* An initialised sequencer names the same whitelists for ever.
THEOREM NamedWhitelistsStay == Spec => WhitelistsStayNamed
<1>1. Inv /\ [Next]_vars => [initialized => UNCHANGED whitelists]_vars
  BY StepSeen DEF Seen
<1> QED BY InvHolds, <1>1, PTL DEF Spec, WhitelistsStayNamed

\* Nobody gets hold of a sequencer whose owner has renounced.
THEOREM RenouncedForGood == Spec => OwnerlessIsFixed
<1>1. Inv /\ [Next]_vars =>
          [initialized /\ owner = Zero => UNCHANGED <<implementation, settings>>]_vars
  BY StepSeen DEF Seen
<1> QED BY InvHolds, <1>1, PTL DEF Spec, OwnerlessIsFixed

\* Without an administrator a whitelist contract gets no new role holder.
THEOREM RolesNeedAnAdministrator == Spec => RolesAreHandedOn
<1>1. Inv /\ [Next]_vars =>
          [\A w \in Lists : roles[w][DEFAULT_ADMIN_ROLE] = {} =>
              \A r \in Role : roles'[w][r] \subseteq roles[w][r]]_vars
  BY StepSeen DEF Seen
<1> QED BY InvHolds, <1>1, PTL DEF Spec, RolesAreHandedOn

\* The ends and the marks of a linked list are those of the queue.
LEMMA LinkedShows ==
    ASSUME NEW s \in Seq(Hashes), NEW f, NEW b, NEW m \in SUBSET Hashes,
           f = IF s = <<>> THEN Zero ELSE s[1],
           b = IF s = <<>> THEN Zero ELSE s[Len(s)],
           \A h \in Hashes : h \in m <=> \E i \in 1 .. Len(s) : s[i] = h
    PROVE  Queue!Shows(s, f, b, m)
<1>1. \A i \in 1 .. Len(s) : s[i] \in Hashes
  OBVIOUS
<1>2. m = {s[i] : i \in 1 .. Len(s)}
  BY <1>1
<1> QED BY <1>2 DEF Queue!Shows

\* The contract implements the queue of BlobQueue.
THEOREM TheQueueIsAQueue == Spec => ImplementsBlobQueue
<1>1. Init => Queue!Init
  <2> SUFFICES ASSUME Init PROVE Queue!Init
    OBVIOUS
  <2>1. QueueIsLinked /\ order \in Seq(Hashes)
    BY InitInv DEF Inv, TypeOK
  <2>2. Queue!Shows(order, blobQueueHead, blobQueueTail, {h \in Hashes : blobs[h].submitted})
    BY <2>1, LinkedShows DEF QueueIsLinked
  <2> QED BY <2>2 DEF Init, Queue!Init
<1>2. Inv /\ Inv' /\ [Next]_vars => [Queue!Next]_(Queue!vars)
  <2> SUFFICES ASSUME Inv, Inv', [Next]_vars PROVE [Queue!Next]_(Queue!vars)
    OBVIOUS
  <2>1. Queue!Shows(order', blobQueueHead', blobQueueTail', {h \in Hashes : blobs'[h].submitted})
    <3>1. (TypeOK /\ QueueIsLinked)'
      BY DEF Inv
    <3>2. order' \in Seq(Hashes)
      BY <3>1 DEF TypeOK
    <3> QED BY <3>1, <3>2, LinkedShows DEF QueueIsLinked
  <2>2. CASE UNCHANGED blobQueue
    BY <2>2 DEF blobQueue, Queue!vars
  <2>3. ASSUME NEW h \in Hashes, ~blobs[h].submitted, order' = Append(order, h)
        PROVE  Queue!Next
    BY <2>1, <2>3 DEF Queue!Next, Queue!Submit
  <2>4. CASE order # <<>> /\ order' = Tail(order)
    BY <2>1, <2>4 DEF Queue!Next, Queue!Take
  <2> QED BY <2>2, <2>3, <2>4, StepSeen DEF Seen
<1> QED BY InvHolds, <1>1, <1>2, PTL DEF Spec, Queue!Spec, ImplementsBlobQueue
=============================================================================
