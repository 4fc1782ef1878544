--------------------------- MODULE MCResidentAddrs --------------------------
EXTENDS ResidentAddrs

\* Counts, tokens alternating between two blocks, a table with and without an
\* unmapped block.
MCRowInputs ==
  {[count |-> c,
    tokens |-> [i \in 0 .. TopK - 1 |->
                  IF i >= c THEN -1 ELSE IF i % 2 = e THEN 1 ELSE BlockSize],
    slots |-> [i \in 0 .. TopK - 1 |-> IF i < c THEN TopK - 1 - i ELSE -1],
    table |-> [b \in 0 .. MaxNumBlocks - 1 |-> IF b = 1 THEN u ELSE 3]] :
     c \in 0 .. TopK, e \in {0, 1}, u \in {-1, 5}}
=============================================================================
