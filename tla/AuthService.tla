----------------------------- MODULE AuthService -----------------------------
(***************************************************************************)
(* Who is let in (src/auth): the guards of the two routes and the service  *)
(* that asks the chain.  The sequencer contract names a whitelist contract *)
(* for each client type; a process looks it up once and keeps it for its   *)
(* life, and asks it for the caller at every request.  The chain changes   *)
(* meanwhile: wallets are added and removed, and an upgrade of the         *)
(* sequencer names another whitelist.                                      *)
(*                                                                         *)
(* Every call to the chain is evaluated at the node some time before its   *)
(* answer is used.  Of a token only the client type it names and the       *)
(* wallet its signature resolves to matter.                                *)
(***************************************************************************)
CONSTANTS
    Requests,
    Processes,
    Wallets,
    Whitelists,   \* whitelist contracts
    Zero,         \* the zero address, at which there is no contract
    None

ASSUME AuthConstantsOK ==
    /\ None \notin Whitelists \cup Processes \cup Wallets \cup {Zero}
    /\ Zero \notin Whitelists

ClientType == {"OWEN", "VALIDATOR"}

\* What the sequencer may name: its initialize takes a zero address for a list.
Address == Whitelists \cup {Zero}

VARIABLES
    named,      \* the whitelist the sequencer names for each client type
    members,    \* the wallets on each whitelist
    _whitelists,\* AuthService._whitelists of each process
    since,      \* history: what the sequencer has named since a process began
    pc,         \* where a request is
    at,         \* the process that serves it
    token,      \* the client type its token names
    wallet,     \* the wallet its token resolves to
    route,      \* the client type its route is for
    whitelist,  \* the contract its call got or is going to ask
    ever,       \* history: its wallet was listed at some moment of the call
    always      \* history: its wallet was listed at every moment of the call

chain   == <<named, members, since>>
request == <<token, wallet, route>>
history == <<ever, always>>
vars    == <<chain, _whitelists, pc, at, request, whitelist, history>>

Places  == {"idle", "id", "address", "assign", "ask"}
Answers == {"handled", "refused", "notListed", "wrongRole", "rpcError", "lost"}

Active(r) == pc[r] \in Places \ {"idle"}

\* The wallet is on some, or on every, whitelist of the type its route is for
\* that the sequencer has named in the life of the process that serves it.
Listed(r)      == \E w \in since[at[r]][route[r]] \ {Zero} : wallet[r] \in members[w]
FullyListed(r) == \A w \in since[at[r]][route[r]] \ {Zero} : wallet[r] \in members[w]

Init ==
    /\ named \in [ClientType -> Address]
    /\ members = [w \in Whitelists |-> {}]
    /\ _whitelists = [p \in Processes |-> [t \in ClientType |-> None]]
    /\ since = [p \in Processes |-> [t \in ClientType |-> {named[t]}]]
    /\ pc = [r \in Requests |-> "idle"]
    /\ at = [r \in Requests |-> None]
    /\ token = [r \in Requests |-> "OWEN"]
    /\ wallet = [r \in Requests |-> None]
    /\ route = [r \in Requests |-> "OWEN"]
    /\ whitelist = [r \in Requests |-> None]
    /\ ever = [r \in Requests |-> FALSE]
    /\ always = [r \in Requests |-> FALSE]

-----------------------------------------------------------------------------
(* The chain                                                               *)

\* What the requests under way have seen of the chain after a step of it.
Watched ==
    /\ UNCHANGED <<_whitelists, pc, at, request, whitelist>>
    /\ ever' = [r \in Requests |-> ever[r] \/ (Active(r) /\ Listed(r)')]
    /\ always' = [r \in Requests |-> always[r] /\ (Active(r) => FullyListed(r)')]

AddToWhitelist(w, a) ==
    /\ members' = [members EXCEPT ![w] = @ \cup {a}]
    /\ UNCHANGED <<named, since>>
    /\ Watched

RemoveFromWhitelist(w, a) ==
    /\ members' = [members EXCEPT ![w] = @ \ {a}]
    /\ UNCHANGED <<named, since>>
    /\ Watched

\* An upgrade to a version that names another whitelist: the one in the
\* repository keeps those it was initialised with (DdexSequencer,
\* WhitelistsStayNamed).
UpgradeSequencer(t, w) ==
    /\ named' = [named EXCEPT ![t] = w]
    /\ since' = [p \in Processes |-> [since[p] EXCEPT ![t] = @ \cup {w}]]
    /\ UNCHANGED members
    /\ Watched

-----------------------------------------------------------------------------
(* AuthGuard, up to the first call to the chain                            *)

Goto(r, from, to) ==
    /\ pc[r] = from
    /\ pc' = [pc EXCEPT ![r] = to]

\* The answer of the request; the locals of the call are gone with it, and of
\* its history what the answer is judged by is kept.
Reply(r, from, to) ==
    /\ Goto(r, from, to)
    /\ whitelist' = [whitelist EXCEPT ![r] = None]
    /\ ever' = [ever EXCEPT ![r] = @ /\ to = "handled"]
    /\ always' = [always EXCEPT ![r] = @ /\ to = "notListed"]
    /\ UNCHANGED <<chain, _whitelists, at, request>>

\* A plausible bug: one cached whitelist for both client types.
AnyCached(p, t) ==
    LET u == CHOOSE u \in ClientType : u # t
    IN  IF _whitelists[p][t] # None THEN _whitelists[p][t] ELSE _whitelists[p][u]

Cached(p, t) == _whitelists[p][t]

Receive(r, p, t, a, u) ==
    /\ UNCHANGED <<chain, _whitelists>>
    /\ Goto(r, "idle", IF Cached(p, t) # None THEN "ask" ELSE "id")
    /\ at' = [at EXCEPT ![r] = p]
    /\ token' = [token EXCEPT ![r] = t]
    /\ wallet' = [wallet EXCEPT ![r] = a]
    /\ route' = [route EXCEPT ![r] = u]
    /\ whitelist' = [whitelist EXCEPT ![r] = Cached(p, t)]
    /\ ever' = [ever EXCEPT ![r] = Listed(r)']
    /\ always' = [always EXCEPT ![r] = FullyListed(r)']

\* No header; or a header of another client type, or with another signature.
Refuse(r) == Reply(r, "idle", "refused")

-----------------------------------------------------------------------------
(* getWhitelist and isWhitelisted                                          *)

\* The identifiers of the two whitelists are constants of the sequencer.
ReadId(r) ==
    /\ Goto(r, "id", "address")
    /\ UNCHANGED <<chain, _whitelists, at, request, whitelist, history>>

ReadAddress(r) ==
    /\ Goto(r, "address", "assign")
    /\ whitelist' = [whitelist EXCEPT ![r] = named[token[r]]]
    /\ UNCHANGED <<chain, _whitelists, at, request, history>>

\* A plausible bug: the call that is under way is kept, not its answer.
AssignCall(r) ==
    /\ Goto(r, "assign", "ask")
    /\ _whitelists' = [_whitelists EXCEPT ![at[r]][token[r]] = r]
    /\ UNCHANGED <<chain, at, request, whitelist, history>>

\* The answer comes, whatever another call has put there meanwhile.
AssignWhitelist(r) ==
    /\ Goto(r, "assign", "ask")
    /\ _whitelists' = [_whitelists EXCEPT ![at[r]][token[r]] = whitelist[r]]
    /\ UNCHANGED <<chain, at, request, whitelist, history>>

\* isWhitelisted is evaluated; its answer is the last thing the call waits
\* for, then AuthGuard and the role guard decide.  At the zero address nothing
\* answers, which is an error of the call, with this contract in the cache.
OnList(r) == wallet[r] \in members[whitelist[r]]

\* A plausible bug: a contract without an answer is taken for "not listed".
TurnAwayUnasked(r) ==
    /\ Reply(r, "ask", "notListed")
    /\ whitelist[r] = Zero \/ ~OnList(r)

Admit(r) ==
    /\ Reply(r, "ask", "handled")
    /\ whitelist[r] # Zero
    /\ OnList(r)
    /\ token[r] = route[r]

\* OnlyOwenGuard on the route for files, OnlyValidatorGuard on that for zips.
TurnAwayRole(r) ==
    /\ Reply(r, "ask", "wrongRole")
    /\ whitelist[r] # Zero
    /\ OnList(r)
    /\ token[r] # route[r]

TurnAway(r) ==
    /\ Reply(r, "ask", "notListed")
    /\ whitelist[r] # Zero
    /\ ~OnList(r)

RpcFailure(r) ==
    \E from \in Places \ {"idle"} : Reply(r, from, "rpcError")

-----------------------------------------------------------------------------

Lost(r, p) == Active(r) /\ at[r] = p

ProcessExits(p) ==
    /\ _whitelists' = [_whitelists EXCEPT ![p] = [t \in ClientType |-> None]]
    /\ since' = [since EXCEPT ![p] = [t \in ClientType |-> {named[t]}]]
    /\ pc' = [r \in Requests |-> IF Lost(r, p) THEN "lost" ELSE pc[r]]
    /\ whitelist' = [r \in Requests |-> IF Lost(r, p) THEN None ELSE whitelist[r]]
    /\ ever' = [r \in Requests |-> ever[r] /\ ~Lost(r, p)]
    /\ always' = [r \in Requests |-> always[r] /\ ~Lost(r, p)]
    /\ UNCHANGED <<named, members, at, request>>

Chain ==
    \/ \E w \in Whitelists, a \in Wallets : AddToWhitelist(w, a) \/ RemoveFromWhitelist(w, a)
    \/ \E t \in ClientType, w \in Address : UpgradeSequencer(t, w)

Step(r) ==
    \/ \E p \in Processes, t, u \in ClientType, a \in Wallets : Receive(r, p, t, a, u)
    \/ Refuse(r)
    \/ ReadId(r) \/ ReadAddress(r) \/ AssignWhitelist(r)
    \/ Admit(r) \/ TurnAwayRole(r) \/ TurnAway(r) \/ RpcFailure(r)

Next ==
    \/ Chain
    \/ \E r \in Requests : Step(r)
    \/ \E p \in Processes : ProcessExits(p)

Spec == Init /\ [][Next]_vars

-----------------------------------------------------------------------------
(* Properties                                                              *)

TypeOK ==
    /\ named \in [ClientType -> Address]
    /\ members \in [Whitelists -> SUBSET Wallets]
    /\ _whitelists \in [Processes -> [ClientType -> Address \cup {None}]]
    /\ since \in [Processes -> [ClientType -> SUBSET Address]]
    /\ pc \in [Requests -> Places \cup Answers]
    /\ at \in [Requests -> Processes \cup {None}]
    /\ token \in [Requests -> ClientType]
    /\ wallet \in [Requests -> Wallets \cup {None}]
    /\ route \in [Requests -> ClientType]
    /\ whitelist \in [Requests -> Address \cup {None}]
    /\ ever \in [Requests -> BOOLEAN]
    /\ always \in [Requests -> BOOLEAN]

\* A request reaches its handler only if, at some moment of the call, its
\* wallet was on a whitelist of the client type the route is for that the
\* sequencer has named since the process began: the cached contract may be an
\* old one, but never one of the other type, and its answer is a fresh one.
HandledWasListed == \A r \in Requests : pc[r] = "handled" => ever[r]

\* A wallet that is on all those whitelists throughout the call is never told
\* that it is not listed, whatever fails: errors of the chain, and a list that
\* the sequencer has at the zero address, are a 500.
ListedIsNotTurnedAway ==
    \A r \in Requests : pc[r] = "notListed" /\ token[r] = route[r] => ~always[r]
=============================================================================
