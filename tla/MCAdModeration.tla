--------------------------- MODULE MCAdModeration ---------------------------
EXTENDS AdModeration

CONSTANTS a1, a2, null, Null, no

\* "Null" is "null" typed with a capital letter; "no" is too short to count.
MCLower == [w \in Words |-> IF w = Null THEN null ELSE w]
=============================================================================
