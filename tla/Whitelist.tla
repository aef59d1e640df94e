------------------------------ MODULE Whitelist ------------------------------
(***************************************************************************)
(* The whitelist contract (src/contracts/whitelist): who may list wallets, *)
(* and which wallets are listed.  The repository has the contract as its   *)
(* interface and its bytecode (Whitelist__factory.ts:364); the guards and  *)
(* the effects below are those of the bytecode, disassembled and executed. *)
(*                                                                         *)
(* A transaction is one step.  One that reverts leaves everything as it is *)
(* and is no step at all.                                                  *)
(***************************************************************************)
CONSTANTS
    Accounts,   \* wallets that send transactions, or are listed
    Lists       \* the deployed whitelist contracts

VARIABLES
    roles,      \* who holds a role in a contract (slot 0)
    whitelist   \* the wallets a contract lists (slot 1)

registry == <<roles, whitelist>>

DEFAULT_ADMIN_ROLE == "DEFAULT_ADMIN"
MODERATOR_ROLE     == "MODERATOR"
Role == {DEFAULT_ADMIN_ROLE, MODERATOR_ROLE}

\* The constructor gives both roles to the owner it is called with.
RegistryInit ==
    /\ roles \in [Lists -> {[r \in Role |-> {o}] : o \in Accounts}]
    /\ whitelist = [w \in Lists |-> {}]

-----------------------------------------------------------------------------

hasRole(w, r, a) == a \in roles[w][r]

\* A plausible bug: each role administers itself.
OwnAdmin(r) == r

\* Nothing in the bytecode sets another one.
getRoleAdmin(r) == DEFAULT_ADMIN_ROLE

isWhitelisted(w, a) == a \in whitelist[w]

GrantRole(c, w, r, a) ==
    /\ hasRole(w, getRoleAdmin(r), c)
    /\ roles' = [roles EXCEPT ![w][r] = @ \cup {a}]
    /\ UNCHANGED whitelist

RevokeRole(c, w, r, a) ==
    /\ hasRole(w, getRoleAdmin(r), c)
    /\ roles' = [roles EXCEPT ![w][r] = @ \ {a}]
    /\ UNCHANGED whitelist

\* The caller names itself, as a confirmation.
RenounceRole(c, w, r) ==
    /\ roles' = [roles EXCEPT ![w][r] = @ \ {c}]
    /\ UNCHANGED whitelist

AddToWhitelist(c, w, a) ==
    /\ hasRole(w, MODERATOR_ROLE, c)
    /\ whitelist' = [whitelist EXCEPT ![w] = @ \cup {a}]
    /\ UNCHANGED roles

RemoveFromWhitelist(c, w, a) ==
    /\ hasRole(w, MODERATOR_ROLE, c)
    /\ whitelist' = [whitelist EXCEPT ![w] = @ \ {a}]
    /\ UNCHANGED roles

\* A transaction that the account c sends to the contract w.
Moderation(c, w) ==
    \/ \E r \in Role, a \in Accounts : GrantRole(c, w, r, a) \/ RevokeRole(c, w, r, a)
    \/ \E r \in Role : RenounceRole(c, w, r)
    \/ \E a \in Accounts : AddToWhitelist(c, w, a) \/ RemoveFromWhitelist(c, w, a)

RegistryTypeOK ==
    /\ roles \in [Lists -> [Role -> SUBSET Accounts]]
    /\ whitelist \in [Lists -> SUBSET Accounts]
=============================================================================
