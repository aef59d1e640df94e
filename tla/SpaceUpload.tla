----------------------------- MODULE SpaceUpload -----------------------------
(***************************************************************************)
(* What a call of StorachaService.uploadFile or uploadZip promises, without *)
(* clients, processes, rows or dids: a payload is put into a space that was *)
(* given to its owner, the caller is told so only when it is there, and a   *)
(* call that fails leaves the payload in such a space or nowhere.           *)
(***************************************************************************)
CONSTANTS Requests, Wallets, Spaces, Nobody

VARIABLES
    given,     \* the spaces each wallet has been given
    owner,     \* the wallet whose space a request is for
    status,    \* "idle", "running", "ok" or "failed"
    contents   \* the payloads listed in each space

vars == <<given, owner, status, contents>>

Init ==
    /\ given    = [w \in Wallets |-> {}]
    /\ owner    = [r \in Requests |-> Nobody]
    /\ status   = [r \in Requests |-> "idle"]
    /\ contents = [s \in Spaces |-> {}]

\* The operator gives a wallet one more space; none is ever taken back.
Give(w, s) ==
    /\ given' = [given EXCEPT ![w] = @ \cup {s}]
    /\ UNCHANGED <<owner, status, contents>>

Begin(r, w) ==
    /\ status[r] = "idle"
    /\ owner' = [owner EXCEPT ![r] = w]
    /\ status' = [status EXCEPT ![r] = "running"]
    /\ UNCHANGED <<given, contents>>

Stored(r, s) ==
    /\ s \in given[owner[r]]
    /\ contents' = [contents EXCEPT ![s] = @ \cup {r}]

Succeed(r, s) ==
    /\ status[r] = "running"
    /\ Stored(r, s)
    /\ status' = [status EXCEPT ![r] = "ok"]
    /\ UNCHANGED <<given, owner>>

Fail(r) ==
    /\ status[r] = "running"
    /\ UNCHANGED contents \/ \E s \in Spaces : Stored(r, s)
    /\ status' = [status EXCEPT ![r] = "failed"]
    /\ UNCHANGED <<given, owner>>

Next ==
    \/ \E w \in Wallets, s \in Spaces : Give(w, s)
    \/ \E r \in Requests :
          \/ \E w \in Wallets : Begin(r, w)
          \/ \E s \in Spaces : Succeed(r, s)
          \/ Fail(r)

Spec == Init /\ [][Next]_vars
=============================================================================
