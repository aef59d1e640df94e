------------------------------ MODULE BlobQueue ------------------------------
(***************************************************************************)
(* What the sequencer promises of the blobs it is given: they wait in the  *)
(* order in which they came, none of them twice, the first one is the only *)
(* one that can leave, and the two ends of the queue can be seen by anyone.*)
(***************************************************************************)
EXTENDS Sequences, Naturals

CONSTANTS Hashes, Zero

VARIABLES
    queue,      \* the blobs that wait, in their order
    front,      \* the first and the last of them, as the outside sees them
    back,
    waiting     \* the blobs that are known to wait

vars == <<queue, front, back, waiting>>

\* What can be seen of a queue q.
Shows(q, f, b, w) ==
    /\ f = IF q = <<>> THEN Zero ELSE q[1]
    /\ b = IF q = <<>> THEN Zero ELSE q[Len(q)]
    /\ w = {q[i] : i \in 1 .. Len(q)}

Init ==
    /\ queue = <<>>
    /\ Shows(queue, front, back, waiting)

Submit(h) ==
    /\ h \notin waiting
    /\ queue' = Append(queue, h)
    /\ Shows(queue', front', back', waiting')

Take ==
    /\ queue # <<>>
    /\ queue' = Tail(queue)
    /\ Shows(queue', front', back', waiting')

Next == Take \/ \E h \in Hashes : Submit(h)

Spec == Init /\ [][Next]_vars
=============================================================================
