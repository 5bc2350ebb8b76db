----------------------------- MODULE PublishLog -----------------------------
(***************************************************************************)
(* What publications promise their readers: a log of versions, each a list *)
(* of nodes under a key of its own, that only grows, newest last, and      *)
(* never has an empty list.                                                *)
(***************************************************************************)
EXTENDS Naturals, Sequences

CONSTANT Node

VARIABLE log     \* the versions published, in the order of publication

Entry == [ver: Nat \ {0}, set: (SUBSET Node) \ {{}}]

Init == log = <<>>

\* Whoever has read the log up to some version has read a prefix of every later log.
Grows ==
    /\ Len(log') = Len(log) + 1
    /\ SubSeq(log', 1, Len(log)) = log

Next ==
    /\ Grows
    /\ LET new == log'[Len(log')]
       IN  new \in Entry /\ \A k \in 1..Len(log) : log[k].ver < new.ver

Spec == Init /\ [][Next]_log
=============================================================================
