---------------------------- MODULE MCSendDraft ----------------------------
(* Instances of SendDraft for TLC.                                         *)
EXTENDS SendDraft, TLC

CONSTANTS s1, s2, c1, e1, d1, d2, b1, b2

Nobody == {}
OneSender == {s1}
TwoSenders == {s1, s2}
OneClient == {c1}
OneEditor == {e1}
JobDrafter == {d1}
InboxDrafter == {d2}
TwoBodies == {b1, b2}
Risky == {b2}
Either == {TRUE, FALSE}

OwnLoops == [a \in Actors |-> a]

Busy(actors) == Cardinality({a \in actors : pc[a] # "idle"})

\* Bound: two of any kind are under way at once, or two senders and one other.
FewAtOnce == Busy(Actors) <= 2 \/ Busy(Actors \ Senders) <= 1

Symmetry == Permutations(Senders)
=============================================================================
