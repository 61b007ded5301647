--------------------------- MODULE MCReferenceInbox ---------------------------
EXTENDS ReferenceInbox, TLC
CONSTANTS c1, c2, v1, v2, b1, january, february

Symmetry == Permutations({c1, c2}) \cup Permutations({v1, v2}) \cup Permutations({january, february})
=============================================================================
