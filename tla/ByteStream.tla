----------------------------- MODULE ByteStream -----------------------------
(***************************************************************************)
(* What a queue between an interrupt and the dispatcher promises: the      *)
(* bytes, numbered as they were sent, come out in that order, each once,   *)
(* and no more than Capacity of them wait.                                 *)
(***************************************************************************)
EXTENDS Naturals, Sequences

CONSTANT Capacity

VARIABLES
    contents,   \* the bytes that wait
    sent        \* how many were sent

Init == contents = <<>> /\ sent = 0

Put(n) ==
    /\ Len(contents) + n <= Capacity
    /\ contents' = contents \o [k \in 1 .. n |-> sent + k]
    /\ sent' = sent + n

Take(n) ==
    /\ n <= Len(contents)
    /\ contents' = SubSeq(contents, n + 1, Len(contents))
    /\ UNCHANGED sent

Next == \E n \in 1 .. Capacity : Put(n) \/ Take(n)

Spec == Init /\ [][Next]_<<contents, sent>>

=============================================================================
