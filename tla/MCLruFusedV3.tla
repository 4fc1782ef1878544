----------------------------- MODULE MCLruFusedV3 ---------------------------
EXTENDS LruFusedV3

\* Four positions, eight slots, eight tokens: the proportions of the kernel.
MCWideLists ==
  {[p \in Positions |-> s[p + 1]] :
     s \in {<<0, 1, 2, 3>>, <<6, Invalid, 2, 1>>, <<2, 2, 7, 2>>}}

\* The unified buffer holds zeros or any other number when the kernel starts.
MCLeftover == {0, -2}
=============================================================================
