---------------------------- MODULE LruReference ----------------------------
(***************************************************************************)
(* What one LRU Compact call does to one request row, stated once and      *)
(* independently of any kernel: sequences in LRU order (oldest first), no  *)
(* scratch, no epochs, no lanes.  The phased SIMT kernels (LruPhased), the *)
(* 1024-lane fused kernel (LruFusedV3) and the whole offload step          *)
(* (OffloadPipeline) are built on it or compared with it.                  *)
(*                                                                         *)
(* A row is the resident state of one request:                             *)
(*   lastReq      the request the row was last used for                    *)
(*   slotToToken  the token each resident slot holds, Invalid if none      *)
(*   lru          the slots, least recently used first                     *)
(* Arrays are functions on 0 .. n-1, as in the code.                       *)
(***************************************************************************)
EXTENDS Integers, Sequences, FiniteSetsExt

CONSTANTS
  TopK,      \* positions of the top-k list
  Capacity,  \* resident slots of a row
  MaxToken   \* tokens are 0 .. MaxToken-1

Invalid   == -1
Positions == 0 .. TopK - 1
Slots     == 0 .. Capacity - 1
Tokens    == 0 .. MaxToken - 1

\* A 0-based array as a sequence.
AsSeq(f, n) == [i \in 1 .. n |-> f[i - 1]]

\* The first n entries of an array come from s, the others are Invalid.
Padded(s, n) == [i \in 0 .. n - 1 |-> IF i < Len(s) THEN s[i + 1] ELSE Invalid]

FreshRow(req) ==
  [lastReq     |-> req,
   slotToToken |-> [s \in Slots |-> Invalid],
   lru         |-> [o \in Slots |-> o]]

\* Mutant: the first token past the stable prefix is kept.
AdmitInclusive(row, req, prefix) ==
  IF row.lastReq # req THEN FreshRow(req)
  ELSE [row EXCEPT !.slotToToken =
          [s \in Slots |-> IF @[s] \in Tokens /\ @[s] > prefix THEN Invalid ELSE @[s]]]

\* A row that changes hands forgets everything; otherwise the tokens past the
\* stable prefix, which the host may have rewritten, are forgotten.
Admit(row, req, prefix) ==
  IF row.lastReq # req THEN FreshRow(req)
  ELSE [row EXCEPT !.slotToToken =
          [s \in Slots |-> IF @[s] \in Tokens /\ @[s] >= prefix THEN Invalid ELSE @[s]]]

Requested(topk) == {topk[p] : p \in Positions} \cap Tokens

FirstPos(topk, t) == Min({p \in Positions : topk[p] = t})

\* The slots in LRU order that hold a requested token, and the others.
HitSlots(row, topk) ==
  SelectSeq(AsSeq(row.lru, Capacity),
            LAMBDA s : s \in Slots /\ row.slotToToken[s] \in Requested(topk))

EvictableSlots(row, topk) ==
  SelectSeq(AsSeq(row.lru, Capacity),
            LAMBDA s : s \in Slots /\ row.slotToToken[s] \notin Requested(topk))

\* The slot a position is served from without a copy.  Only the first position
\* of a token is, from the most recently used of the slots that hold it.
HitAt(row, topk, p) ==
  LET hits == HitSlots(row, topk)
      same == {i \in DOMAIN hits : row.slotToToken[hits[i]] = topk[p]}
  IN  IF same = {} \/ FirstPos(topk, topk[p]) # p THEN Invalid ELSE hits[Max(same)]

\* The positions that need a copy.
Misses(row, topk) ==
  SelectSeq(AsSeq([p \in Positions |-> p], TopK),
            LAMBDA p : topk[p] \in Tokens /\ HitAt(row, topk, p) = Invalid)

\* The result of one call on an admitted row: the misses take the least
\* recently used evictable slots; then come the copied slots and the hits.
CompactAdmitted(row, topk) ==
  LET hits   == HitSlots(row, topk)
      evict  == EvictableSlots(row, topk)
      misses == Misses(row, topk)
      n      == Min({Len(misses), Len(evict)})
      taken  == SubSeq(evict, 1, n)
      kept   == SubSeq(evict, n + 1, Len(evict))
      missOf(s) == CHOOSE i \in 1 .. n : evict[i] = s
  IN  [lastReq     |-> row.lastReq,
       slotToToken |-> [s \in Slots |-> IF \E i \in 1 .. n : evict[i] = s
                                        THEN topk[misses[missOf(s)]]
                                        ELSE row.slotToToken[s]],
       lru         |-> Padded(kept \o taken \o hits, Capacity),
       current     |-> [p \in Positions |->
                          IF \E i \in 1 .. n : misses[i] = p
                          THEN evict[CHOOSE i \in 1 .. n : misses[i] = p]
                          ELSE HitAt(row, topk, p)],
       missCount   |-> n,
       missTokens  |-> Padded([i \in DOMAIN misses |-> topk[misses[i]]], TopK),
       missSlots   |-> Padded(taken, TopK)]

Compact(row, req, topk, prefix) == CompactAdmitted(Admit(row, req, prefix), topk)
=============================================================================
