--------------------------- MODULE MCAutoservice ----------------------------
\* Instances of Autoservice for TLC.
EXTENDS Autoservice

CONSTANTS a, b, u, v

OwnChannel == {<<u, a>>, <<v, b>>}

\* One of the two threads nests its starts.
OneNests == [x \in {u, v} |-> IF x = u THEN 2 ELSE 1]
=============================================================================
