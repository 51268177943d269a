------------------------- MODULE MCProviderAdapters -------------------------
(* Instances of ProviderAdapters for TLC.                                  *)
EXTENDS ProviderAdapters, TLC

CONSTANTS e1, e2, g1, g2, c1, c2, m1, m2, i1, i2, i3, i4, i5, d1, d2, b1

TwoEvents == {e1, e2}
TwoGuests == {g1, g2}
TwoCallers == {c1, c2}
TwoMails == {m1, m2}
FiveIds == {i1, i2, i3, i4, i5}
TwoDrafting == {d1, d2}
OneBatch == {b1}

\* Events, mails and calls are interchangeable, and every property treats them alike.
Symmetry ==
  Permutations(Events) \union Permutations(Callers) \union
  Permutations(Mails) \union Permutations(Drafting)
=============================================================================
