----------------------------- MODULE MCLruPhased ----------------------------
EXTENDS LruPhased

\* Lists of tokens with repetitions, and some with an invalid or out-of-range
\* entry, for two positions.
MCTopKLists ==
  [Positions -> {0, 1, 2}]
    \cup {[p \in Positions |-> IF p = 0 THEN Invalid ELSE 0],
          [p \in Positions |-> IF p = 0 THEN 1 ELSE MaxToken]}

\* Lists without repetitions, which share some tokens and not others.
MCUniqueLists ==
  {[p \in Positions |-> s[p + 1]] : s \in {<<0, 1>>, <<1, 2>>, <<3, 0>>}}

\* No stable prefix, one that cuts the tokens, and one past every token.
MCPrefixes == {-1, 1, MaxToken + 1}
=============================================================================
