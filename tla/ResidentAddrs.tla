---------------------------- MODULE ResidentAddrs ---------------------------
(***************************************************************************)
(* ComputeLruResidentAddrs turns the misses of all rows into packed copy   *)
(* descriptors, first those of the keys and then those of the values.      *)
(*                                                                         *)
(* Generic kernel: every thread counts the valid misses of all rows for    *)
(* itself and writes those of the rows it owns, a grid stride apart.       *)
(* Parallel kernel (one row): every lane owns the misses thread and        *)
(* thread + Lanes and writes them at their stable ranks; the ranks and the *)
(* total come from the scan of module WarpScan.                            *)
(*                                                                         *)
(* An address is kept as the tuple it is computed from: <<side, block,     *)
(* offset>> in the host pool, <<side, row * capacity + slot>> on the       *)
(* device.  The sizes are those of the side.                               *)
(***************************************************************************)
EXTENDS Integers, FiniteSets

CONSTANTS
  RowCounts,          \* the values of numReqs
  TopK, BlockSize, MaxNumBlocks,
  ResidentCapacity,
  GridDim, BlockDim,  \* launch geometry of the generic kernel
  LanePairs,          \* RESIDENT_ADDRS_THREADS: half of RESIDENT_ADDRS_MAX_TOPK
  RowInputs           \* [count, tokens, slots, table] a row may come with

ASSUME AddrsAssumption ==
  /\ RowCounts \subseteq Nat \ {0} /\ TopK > 0 /\ BlockSize > 0 /\ MaxNumBlocks > 0 /\ ResidentCapacity > 0
  /\ GridDim > 0 /\ BlockDim > 0 /\ LanePairs > 0

VARIABLES
  numReqs,   \* rows of the batch
  rows,      \* miss_count, miss_tokens, miss_slots and block_table, by row
  src, dst,  \* gvas_buffer and addr_buffer
  numTokens, \* num_tokens_buffer
  req,       \* by thread of the generic kernel: the row it is at
  start,     \* by thread: req_start, the packed index of that row
  ranked     \* by lane of the parallel kernel: it has published

vars == <<numReqs, rows, src, dst, numTokens, req, start, ranked>>

Rows == 0 .. numReqs - 1

\* IsResidentAddrsParallelShape
Parallel == numReqs = 1 /\ TopK <= 2 * LanePairs

\* Threads by their first row, blockIdx.x + threadIdx.x * gridDim.x.
Threads == 0 .. GridDim * BlockDim - 1
Stride  == GridDim * BlockDim
Nil     == <<>>

Count(r) == IF rows[r].count < 0 THEN 0
            ELSE IF rows[r].count > TopK THEN TopK ELSE rows[r].count

BlockOf(r, i) == rows[r].tokens[i] \div BlockSize

\* The misses of row r that get a descriptor.
Valid(r) ==
  {i \in 0 .. Count(r) - 1 :
     /\ rows[r].tokens[i] >= 0
     /\ rows[r].slots[i] \in 0 .. ResidentCapacity - 1
     /\ BlockOf(r, i) < MaxNumBlocks
     /\ rows[r].table[BlockOf(r, i)] >= 0}

\* Valid misses of the rows below n.
CountBelow(n) == Cardinality({<<r, i>> \in (0 .. n - 1) \X (0 .. TopK - 1) : i \in Valid(r)})

TotalValid == CountBelow(numReqs)

Source(side, r, i) ==
  <<side, rows[r].table[BlockOf(r, i)], rows[r].tokens[i] % BlockSize>>

Target(side, r, i) == <<side, r * ResidentCapacity + rows[r].slots[i]>>

Init ==
  /\ numReqs \in RowCounts
  /\ rows \in [Rows -> RowInputs]
  /\ src = [k \in 0 .. 2 * numReqs * TopK - 1 |-> Nil]
  /\ dst = src
  /\ numTokens = -1
  /\ req = [t \in Threads |-> t]
  /\ start = [t \in Threads |-> CountBelow(t)]
  /\ ranked = {}

\* Writes the descriptors of the misses in "which" of row r, miss i at place(i).
Write(r, which, place(_)) ==
  /\ src' = [k \in DOMAIN src |->
       IF \E i \in which : place(i) = k
       THEN Source("K", r, CHOOSE i \in which : place(i) = k)
       ELSE IF \E i \in which : TotalValid + place(i) = k
       THEN Source("V", r, CHOOSE i \in which : TotalValid + place(i) = k)
       ELSE src[k]]
  /\ dst' = [k \in DOMAIN dst |->
       IF \E i \in which : place(i) = k
       THEN Target("K", r, CHOOSE i \in which : place(i) = k)
       ELSE IF \E i \in which : TotalValid + place(i) = k
       THEN Target("V", r, CHOOSE i \in which : TotalValid + place(i) = k)
       ELSE dst[k]]

\* Mutant: the start of the next row is counted from the one just written.
NextStartRelative(t) == start[t] + Cardinality(Valid(req[t]))

\* The packed start of the next row the thread owns.
NextStart(t) == CountBelow(req[t] + Stride)

\* One row of a thread of the generic kernel.
Row(t) ==
  /\ ~Parallel /\ req[t] < numReqs
  /\ LET r == req[t]
     IN  Write(r, Valid(r), LAMBDA i : start[t] + Cardinality({j \in Valid(r) : j < i}))
  /\ numTokens' = IF t = 0 THEN 2 * TotalValid ELSE numTokens
  /\ req' = [req EXCEPT ![t] = @ + Stride]
  /\ start' = [start EXCEPT ![t] = IF req[t] + Stride < numReqs THEN NextStart(t) ELSE @]
  /\ UNCHANGED <<numReqs, rows, ranked>>

\* Mutant: only the first of the two items.
LaneItemsFirst(l) == {l}

\* A lane of the parallel kernel publishes its items after the scans.
LaneItems(l) == {l, l + LanePairs}

Publish(l) ==
  /\ Parallel /\ l \notin ranked
  /\ Write(0, LaneItems(l) \cap Valid(0), LAMBDA i : Cardinality({j \in Valid(0) : j < i}))
  /\ numTokens' = IF l = 0 THEN 2 * TotalValid ELSE numTokens
  /\ ranked' = ranked \cup {l}
  /\ UNCHANGED <<numReqs, rows, req, start>>

Ended == IF Parallel THEN ranked = 0 .. LanePairs - 1
         ELSE \A t \in Threads : req[t] >= numReqs

Return == Ended /\ UNCHANGED vars

Next ==
  \/ \E t \in Threads : Row(t)
  \/ \E l \in 0 .. LanePairs - 1 : Publish(l)
  \/ Return

Spec == Init /\ [][Next]_vars

-----------------------------------------------------------------------------
\* All key descriptors, then all value descriptors, each in the order of the
\* rows and of the misses, without gaps: what sparse copy relies on when it
\* takes half of num_tokens as the index of the first value.
Packed ==
  Ended =>
    /\ numTokens = 2 * TotalValid
    /\ \A r \in Rows : \A i \in Valid(r) :
         LET k == CountBelow(r) + Cardinality({j \in Valid(r) : j < i})
         IN  /\ src[k] = Source("K", r, i) /\ src[k + TotalValid] = Source("V", r, i)
             /\ dst[k] = Target("K", r, i) /\ dst[k + TotalValid] = Target("V", r, i)

\* No two descriptors write the same resident slot, and none is left unwritten:
\* the copies can run on all cores at once.
TargetsDistinct ==
  Ended => \A k, m \in 0 .. numTokens - 1 : k # m => dst[k] # Nil /\ dst[k] # dst[m]
=============================================================================
