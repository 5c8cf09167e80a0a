----------------------------- MODULE MCVolumes -----------------------------
EXTENDS Volumes

\* "a-" and "a_2d" share a path; t is a thin volume of the first, the reserved
\* name stands for the hidden volumes that are listed with the others.
AMinus == <<"a", "-">>
AHex   == <<"a", "_", "2", "d">>
Thin   == <<"t">>
Hidden == <<"h", "_", "t", "m", "e", "t", "a">>

FourNames    == {AMinus, AHex, Thin, Hidden}
HiddenNames  == {Hidden}
ThinHasPool  == [n \in FourNames |-> IF n = Thin THEN AMinus ELSE <<>>]

\* The pool before and after its volume, a hidden volume that comes and goes,
\* a name that clashes with the pool's, and no volume at all.
SomeLists ==
  {<<>>, <<Thin, AMinus>>, <<Thin, AMinus, Hidden>>, <<AMinus, Thin, AHex>>}
=============================================================================
