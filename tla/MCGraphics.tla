---------------------------- MODULE MCGraphics ----------------------------
EXTENDS Graphics

CONSTANTS w1, w2

SomeWins == {w1, w2}

Alike == Permutations(SomeWins)

\* Over the left, the upper, the right and the lower edge; each meets others.
SomePlaces == {<<-1, 2>>, <<1, -1>>, <<2, 2>>, <<0, 4>>}

SomeSpots == {<<2, 5>>}

Ends == {-1, 1}
=============================================================================
