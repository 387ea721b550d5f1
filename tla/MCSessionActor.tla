--------------------------- MODULE MCSessionActor ---------------------------
\* Instances of SessionActor for TLC; the bounds are given in the .cfg files.
EXTENDS SessionActor

CONSTANTS m1, m2, m3

OneMessage    == {m1}
TwoMessages   == {m1, m2}
ThreeMessages == {m1, m2, m3}
=============================================================================
