--------------------------- MODULE MCRegistration ---------------------------
EXTENDS Registration

CONSTANTS r1, r2, r3, e1, e2, g1, g2, f1, f2

\* One Google and one Facebook identity share an address; g2 is a second
\* Google identity with that address, as after an account was opened anew,
\* and f2 a Facebook one with another.
MCProviderOf == [i \in Identities |-> IF i \in {f1, f2} THEN "FACEBOOK" ELSE "GOOGLE"]
MCEmailOf == [i \in Identities |-> IF i = f2 THEN e2 ELSE e1]
=============================================================================
