-------------------------- MODULE AuthServiceProofs --------------------------
(***************************************************************************)
(* Who is let in, for any number of requests, processes, wallets and       *)
(* whitelists, and however the chain changes meanwhile.                    *)
(***************************************************************************)
EXTENDS AuthService, TLAPS

\* A process holds only whitelists the sequencer has named since it began, each
\* for its own client type; the one named now is among them.
CacheInv ==
    \A p \in Processes, t \in ClientType :
        /\ named[t] \in since[p][t]
        /\ _whitelists[p][t] # None => _whitelists[p][t] \in since[p][t]

\* What a call has been told of its whitelist, and what it has seen of the
\* chain: Listed and FullyListed were watched at every step of it.
CallInv(r) ==
    /\ Active(r) => at[r] \in Processes /\ wallet[r] \in Wallets
    /\ pc[r] \in {"assign", "ask"} => whitelist[r] \in since[at[r]][token[r]]
    /\ Active(r) /\ Listed(r) => ever[r]
    /\ Active(r) /\ always[r] => FullyListed(r)
    /\ pc[r] = "handled" => ever[r]
    /\ pc[r] = "notListed" /\ token[r] = route[r] => ~always[r]

AuthInv == TypeOK /\ CacheInv /\ \A r \in Requests : CallInv(r)

LEMMA AuthInit == Init => AuthInv
BY AuthConstantsOK
   DEF Address, Init, AuthInv, TypeOK, CacheInv, CallInv, Active, Places, Answers, ClientType

\* A step of the chain is seen by every call under way.
LEMMA ChainSteps ==
    ASSUME AuthInv, Chain
    PROVE  AuthInv'
<1>1. CASE \E w \in Whitelists, a \in Wallets : AddToWhitelist(w, a) \/ RemoveFromWhitelist(w, a)
  <2>1. PICK w \in Whitelists, a \in Wallets : AddToWhitelist(w, a) \/ RemoveFromWhitelist(w, a)
    BY <1>1
  <2>2. UNCHANGED <<named, since, _whitelists, pc, at, token, wallet, route, whitelist>>
    BY <2>1 DEF AddToWhitelist, RemoveFromWhitelist, Watched, request
  <2>3. TypeOK'
    <3>1. members' \in [Whitelists -> SUBSET Wallets]
      <4>1. members \in [Whitelists -> SUBSET Wallets]
        BY DEF AuthInv, TypeOK
      <4>2. members[w] \cup {a} \in SUBSET Wallets /\ members[w] \ {a} \in SUBSET Wallets
        BY <4>1
      <4> QED
        BY <2>1, <4>1, <4>2 DEF AddToWhitelist, RemoveFromWhitelist
    <3>2. ever' \in [Requests -> BOOLEAN] /\ always' \in [Requests -> BOOLEAN]
      BY <2>1 DEF AuthInv, TypeOK, AddToWhitelist, RemoveFromWhitelist, Watched
    <3> QED
      BY <2>2, <3>1, <3>2 DEF AuthInv, TypeOK
  <2>4. CacheInv'
    BY <2>2 DEF AuthInv, CacheInv
  <2>5. \A r \in Requests : CallInv(r)'
    <3> SUFFICES ASSUME NEW r \in Requests PROVE CallInv(r)'
      OBVIOUS
    <3>1. CallInv(r)
      BY DEF AuthInv
    <3>2. Active(r)' = Active(r)
      BY <2>2 DEF Active
    <3>3. /\ Active(r)' /\ Listed(r)' => ever'[r]
          /\ Active(r)' /\ always'[r] => FullyListed(r)'
          /\ ever[r] => ever'[r]
          /\ always'[r] => always[r]
      BY <2>1, <3>2 DEF AuthInv, TypeOK, AddToWhitelist, RemoveFromWhitelist, Watched
    <3> QED
      BY <2>2, <3>1, <3>2, <3>3 DEF CallInv
  <2> QED
    BY <2>3, <2>4, <2>5 DEF AuthInv
<1>2. CASE \E t \in ClientType, w \in Address : UpgradeSequencer(t, w)
  <2>1. PICK t \in ClientType, w \in Address : UpgradeSequencer(t, w)
    BY <1>2
  <2>2. UNCHANGED <<members, _whitelists, pc, at, token, wallet, route, whitelist>>
    BY <2>1 DEF UpgradeSequencer, Watched, request
  <2>3. \A p \in Processes, u \in ClientType :
          since'[p][u] = IF u = t THEN since[p][u] \cup {w} ELSE since[p][u]
    BY <2>1 DEF AuthInv, TypeOK, UpgradeSequencer
  <2>4. TypeOK'
    BY <2>1, <2>2 DEF AuthInv, TypeOK, UpgradeSequencer, Watched
  <2>5. CacheInv'
    BY <2>1, <2>2, <2>3 DEF AuthInv, TypeOK, CacheInv, UpgradeSequencer
  <2>6. \A r \in Requests : CallInv(r)'
    <3> SUFFICES ASSUME NEW r \in Requests PROVE CallInv(r)'
      OBVIOUS
    <3>1. CallInv(r) /\ token[r] \in ClientType
      BY DEF AuthInv, TypeOK
    <3>2. pc[r] \in {"assign", "ask"} => Active(r)
      BY DEF Active, Places
    <3>3. (whitelist[r] \in since[at[r]][token[r]] => whitelist[r] \in since[at[r]][token[r]]')
            \/ ~Active(r)
      BY <2>2, <2>3, <3>1 DEF CallInv
    <3>4. Active(r)' = Active(r)
      BY <2>2 DEF Active
    <3>5. /\ Active(r)' /\ Listed(r)' => ever'[r]
          /\ Active(r)' /\ always'[r] => FullyListed(r)'
          /\ ever[r] => ever'[r]
          /\ always'[r] => always[r]
      BY <2>1, <3>4 DEF AuthInv, TypeOK, UpgradeSequencer, Watched
    <3> QED
      BY <2>2, <3>1, <3>2, <3>3, <3>4, <3>5 DEF CallInv
  <2> QED
    BY <2>4, <2>5, <2>6 DEF AuthInv
<1> QED
  BY <1>1, <1>2 DEF Chain

\* A new call goes by the whitelist its process keeps, or has none yet.
LEMMA Receives ==
    ASSUME AuthInv, NEW r \in Requests, NEW p \in Processes, NEW t \in ClientType,
           NEW u \in ClientType, NEW a \in Wallets, Receive(r, p, t, a, u)
    PROVE  AuthInv'
<1> USE DEF Receive, Goto, chain
<1>1. TypeOK'
  BY DEF AuthInv, TypeOK, Places, Answers, Cached, Listed, FullyListed
<1>2. CacheInv'
  BY DEF AuthInv, CacheInv
<1>3. CallInv(r)'
  <2>1. /\ pc'[r] \in {"id", "ask"} /\ at'[r] = p /\ token'[r] = t /\ wallet'[r] = a /\ route'[r] = u
        /\ whitelist'[r] = Cached(p, t) /\ UNCHANGED since
        /\ pc'[r] = "ask" => Cached(p, t) # None
    BY DEF AuthInv, TypeOK
  <2>2. ever'[r] = Listed(r)' /\ always'[r] = FullyListed(r)'
    BY Zenon DEF AuthInv, TypeOK
  <2> QED
    BY <2>1, <2>2 DEF AuthInv, CacheInv, CallInv, Cached
<1>4. ASSUME NEW q \in Requests, q # r PROVE CallInv(q)'
  BY <1>4 DEF AuthInv, TypeOK, CallInv, Active, Listed, FullyListed
<1> QED
  BY <1>1, <1>2, <1>3, <1>4 DEF AuthInv

\* The steps of a call that change neither the chain nor its cached part.
LEMMA CallSteps ==
    ASSUME AuthInv, NEW r \in Requests,
           \/ Refuse(r) \/ ReadId(r) \/ ReadAddress(r)
           \/ Admit(r) \/ TurnAwayRole(r) \/ TurnAway(r) \/ RpcFailure(r)
    PROVE  AuthInv'
<1> USE DEF Reply
<1>1. /\ UNCHANGED <<named, members, since, _whitelists, at, token, wallet, route>>
      /\ \E to \in Places \cup Answers : pc' = [pc EXCEPT ![r] = to]
      /\ \A q \in Requests : q # r => /\ whitelist'[q] = whitelist[q] /\ pc'[q] = pc[q]
                                      /\ ever'[q] = ever[q] /\ always'[q] = always[q]
  BY DEF AuthInv, TypeOK, Refuse, ReadId, ReadAddress, Admit, TurnAwayRole, TurnAway, RpcFailure,
         Goto, chain, request, history, Places, Answers
<1>2. TypeOK'
  <2>1. ever' \in [Requests -> BOOLEAN] /\ always' \in [Requests -> BOOLEAN]
    BY DEF AuthInv, TypeOK, Refuse, ReadId, ReadAddress, Admit, TurnAwayRole, TurnAway, RpcFailure,
           history
  <2>2. whitelist' \in [Requests -> Address \cup {None}]
    BY DEF AuthInv, TypeOK, Refuse, ReadId, ReadAddress, Admit, TurnAwayRole, TurnAway, RpcFailure
  <2> QED
    BY <1>1, <2>1, <2>2 DEF AuthInv, TypeOK
<1>3. CacheInv'
  BY <1>1 DEF AuthInv, CacheInv
<1>4. ASSUME NEW q \in Requests, q # r PROVE CallInv(q)'
  BY <1>1, <1>4 DEF AuthInv, CallInv, Active, Listed, FullyListed
<1>5. CallInv(r)'
  <2> USE DEF Goto
  <2>1. CallInv(r) /\ pc \in [Requests -> Places \cup Answers]
        /\ whitelist \in [Requests -> Address \cup {None}] /\ token[r] \in ClientType
        /\ ever \in [Requests -> BOOLEAN] /\ always \in [Requests -> BOOLEAN]
    BY DEF AuthInv, TypeOK
  <2>2. (Listed(r)' <=> Listed(r)) /\ (FullyListed(r)' <=> FullyListed(r))
    BY <1>1 DEF Listed, FullyListed
  <2>3. CASE Refuse(r) \/ RpcFailure(r) \/ TurnAwayRole(r)
    <3>1. pc'[r] \in {"refused", "rpcError", "wrongRole"}
      BY <2>1, <2>3 DEF Refuse, RpcFailure, TurnAwayRole
    <3> QED
      BY <3>1 DEF CallInv, Active, Places
  <2>4. CASE ReadId(r)
    BY <1>1, <2>1, <2>2, <2>4 DEF CallInv, ReadId, Active, Places, history
  <2>5. CASE ReadAddress(r)
    <3>1. at[r] \in Processes
      BY <2>1, <2>5 DEF CallInv, ReadAddress, Active, Places
    <3>2. whitelist'[r] = named[token[r]] /\ named[token[r]] \in since[at[r]][token[r]]
      BY <2>1, <2>5, <3>1 DEF AuthInv, CacheInv, ReadAddress
    <3> QED
      BY <1>1, <2>1, <2>2, <2>5, <3>2 DEF CallInv, ReadAddress, Active, Places, history
  <2>6. CASE Admit(r)
    <3>1. Active(r) /\ Listed(r)
      BY <2>1, <2>6 DEF CallInv, Admit, OnList, Active, Places, Listed
    <3>2. pc'[r] = "handled" /\ ever[r] /\ ever'[r] = ever[r]
      BY <2>1, <2>6, <3>1 DEF CallInv, Admit
    <3> QED
      BY <3>2 DEF CallInv, Active, Places
  <2>7. CASE TurnAway(r)
    <3>1. Active(r) /\ (token[r] = route[r] => ~FullyListed(r))
      BY <2>1, <2>7 DEF CallInv, TurnAway, OnList, Active, Places, FullyListed
    <3>2. pc'[r] = "notListed" /\ (token[r] = route[r] => ~always[r]) /\ always'[r] = always[r]
      BY <2>1, <2>7, <3>1 DEF CallInv, TurnAway
    <3> QED
      BY <1>1, <3>2 DEF CallInv, Active, Places
  <2> QED
    BY <2>3, <2>4, <2>5, <2>6, <2>7
<1> QED
  BY <1>2, <1>3, <1>4, <1>5 DEF AuthInv

\* A call puts into the cache what the sequencer named while it lasted.
LEMMA Assigns ==
    ASSUME AuthInv, NEW r \in Requests, AssignWhitelist(r)
    PROVE  AuthInv'
<1> USE DEF AssignWhitelist, Goto, chain, request, history
<1>1. at[r] \in Processes /\ whitelist[r] \in since[at[r]][token[r]]
  BY DEF AuthInv, CallInv, Active, Places
<1>2. whitelist[r] \in Address
  BY <1>1 DEF AuthInv, TypeOK
<1>3. TypeOK'
  BY <1>1, <1>2 DEF AuthInv, TypeOK, Places
<1>4. CacheInv'
  BY <1>1 DEF AuthInv, TypeOK, CacheInv
<1>5. \A q \in Requests : CallInv(q)'
  BY DEF AuthInv, TypeOK, CallInv, Active, Places, Listed, FullyListed
<1> QED
  BY <1>3, <1>4, <1>5 DEF AuthInv

\* The calls of a process that ends are lost, and its history begins again.
LEMMA Exits ==
    ASSUME AuthInv, NEW p \in Processes, ProcessExits(p)
    PROVE  AuthInv'
<1> USE DEF ProcessExits, Lost, request, history
<1>1. TypeOK'
  BY DEF AuthInv, TypeOK, Places, Answers
<1>2. CacheInv'
  BY DEF AuthInv, TypeOK, CacheInv
<1>3. ASSUME NEW q \in Requests PROVE CallInv(q)'
  <2>1. CASE Active(q) /\ at[q] = p
    BY <2>1 DEF CallInv, Active, Places
  <2>2. CASE Active(q) /\ at[q] # p
    <3>1. /\ pc'[q] = pc[q] /\ since'[at[q]] = since[at[q]] /\ whitelist'[q] = whitelist[q]
          /\ ever'[q] = ever[q] /\ always'[q] = always[q]
      BY <2>2 DEF AuthInv, TypeOK
    <3> QED
      BY <2>2, <3>1 DEF AuthInv, CallInv, Active, Listed, FullyListed
  <2>3. CASE ~Active(q)
    BY <2>3 DEF AuthInv, CallInv, Active, Places
  <2> QED
    BY <2>1, <2>2, <2>3
<1> QED
  BY <1>1, <1>2, <1>3 DEF AuthInv

LEMMA AuthInvariant == Spec => []AuthInv
<1>1. ASSUME AuthInv, [Next]_vars PROVE AuthInv'
  <2>1. CASE UNCHANGED vars
    BY <1>1, <2>1 DEF AuthInv, TypeOK, CacheInv, CallInv, Active, Listed, FullyListed,
                      vars, chain, request, history
  <2> QED
    BY <1>1, <2>1, ChainSteps, Receives, CallSteps, Assigns, Exits DEF Next, Step
<1> QED
  BY <1>1, AuthInit, PTL DEF Spec

\* The state of the processes, the calls and the chain keeps its types.
THEOREM AuthIsTyped == Spec => []TypeOK
<1>1. AuthInv => TypeOK
  BY DEF AuthInv
<1> QED
  BY <1>1, AuthInvariant, PTL

\* A handler runs only for a wallet that, during its call, was on a whitelist
\* of the type its route is for, named since the process that serves it began.
THEOREM HandledRequestsWereListed == Spec => []HandledWasListed
<1>1. AuthInv => HandledWasListed
  BY DEF AuthInv, CallInv, HandledWasListed
<1> QED
  BY <1>1, AuthInvariant, PTL

\* A wallet that is listed throughout its call is not told that it is not.
THEOREM ListedWalletsAreLetIn == Spec => []ListedIsNotTurnedAway
<1>1. AuthInv => ListedIsNotTurnedAway
  BY DEF AuthInv, CallInv, ListedIsNotTurnedAway
<1> QED
  BY <1>1, AuthInvariant, PTL

-----------------------------------------------------------------------------
(* The sequencer of the repository, which never names another whitelist    *)

NamedStays == [][UNCHANGED named]_vars

\* No process has seen a whitelist named that is not named now.
OneNamed == \A p \in Processes, t \in ClientType : since[p][t] = {named[t]}

\* What a process keeps, or a call is about to ask, is the whitelist in force.
CacheIsCurrent ==
    /\ \A p \in Processes, t \in ClientType : _whitelists[p][t] \in {None, named[t]}
    /\ \A r \in Requests : pc[r] \in {"assign", "ask"} => whitelist[r] = named[token[r]]

LEMMA OneNamedInit == Init => OneNamed
BY DEF Init, OneNamed

LEMMA OneNamedNext ==
    ASSUME TypeOK, OneNamed, [Next]_vars, UNCHANGED named
    PROVE  OneNamed'
<1>1. ASSUME UNCHANGED since PROVE OneNamed'
  BY <1>1 DEF OneNamed
<1>2. CASE Chain
  <2>1. ASSUME NEW t \in ClientType, NEW w \in Address, UpgradeSequencer(t, w) PROVE OneNamed'
    <3>1. named[t] = w
      BY <2>1 DEF UpgradeSequencer, TypeOK
    <3>2. \A p \in Processes, u \in ClientType :
            since'[p][u] = IF u = t THEN since[p][u] \cup {w} ELSE since[p][u]
      BY <2>1 DEF UpgradeSequencer, TypeOK
    <3> QED
      BY <3>1, <3>2 DEF OneNamed
  <2>2. ASSUME NEW w \in Whitelists, NEW a \in Wallets,
               AddToWhitelist(w, a) \/ RemoveFromWhitelist(w, a)
        PROVE  UNCHANGED since
    BY <2>2 DEF AddToWhitelist, RemoveFromWhitelist
  <2> QED
    BY <1>1, <1>2, <2>1, <2>2 DEF Chain
<1>3. ASSUME NEW r \in Requests, Step(r) PROVE UNCHANGED since
  BY <1>3 DEF Step, Receive, Refuse, Reply, ReadId, ReadAddress, AssignWhitelist, Admit,
     TurnAwayRole, TurnAway, RpcFailure, chain
<1>4. ASSUME NEW p \in Processes, ProcessExits(p) PROVE OneNamed'
  BY <1>4 DEF ProcessExits, OneNamed, TypeOK
<1>5. CASE UNCHANGED vars
  BY <1>1, <1>5 DEF vars, chain
<1> QED
  BY <1>1, <1>2, <1>3, <1>4, <1>5 DEF Next

\* As long as the sequencer keeps its whitelists, which the contract of the
\* repository does (DdexSequencerProofs, NamedWhitelistsStay), caching them for
\* the life of a process costs nothing: every question goes to the whitelist
\* in force for the client type of its token.
THEOREM CachesAreCurrent == Spec /\ NamedStays => []CacheIsCurrent
<1>1. ASSUME AuthInv, OneNamed PROVE CacheIsCurrent
  <2>1. ASSUME NEW r \in Requests, pc[r] \in {"assign", "ask"}
        PROVE  whitelist[r] = named[token[r]]
    <3>1. at[r] \in Processes /\ token[r] \in ClientType /\ whitelist[r] \in since[at[r]][token[r]]
      BY <1>1, <2>1 DEF AuthInv, TypeOK, CallInv, Active, Places
    <3> QED
      BY <1>1, <3>1 DEF OneNamed
  <2> QED
    BY <1>1, <2>1 DEF AuthInv, CacheInv, OneNamed, CacheIsCurrent
<1>2. AuthInv /\ OneNamed /\ [Next]_vars /\ [UNCHANGED named]_vars => OneNamed'
  BY OneNamedNext DEF AuthInv, vars, chain
<1> QED
  BY <1>1, <1>2, OneNamedInit, AuthInvariant, PTL DEF Spec, NamedStays
=============================================================================
