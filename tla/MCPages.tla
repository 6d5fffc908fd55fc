------------------------------- MODULE MCPages ------------------------------
EXTENDS Pages

\* Of the sizes asked for, 2 is served, none and 3 are refused.
MCMaxSize == [h \in Handlers |-> 2]
=============================================================================
