--------------------------- MODULE MCResharingHost ---------------------------
EXTENDS ResharingHost

CONSTANTS o1, o2, o3, n1, n2, n3

\* Spec 8.6: an old committee of three reshares to a new committee of three.
MCOld == {o1, o2, o3}
MCNew == {n1, n2, n3}
=============================================================================
