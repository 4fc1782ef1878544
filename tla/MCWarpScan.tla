----------------------------- MODULE MCWarpScan -----------------------------
EXTENDS WarpScan

\* No flag, all, every third one, and only those of the first and last warps.
MCFlags ==
  {{}, Positions, {p \in Positions : p % 3 = 1},
   {p \in Positions : (p % Threads) \div WarpSize \in {0, WarpSize - 1}}}
=============================================================================
