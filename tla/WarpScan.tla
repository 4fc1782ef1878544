------------------------------ MODULE WarpScan ------------------------------
(***************************************************************************)
(* The two-level prefix scan that the fused LRU kernel (inPlace) and the   *)
(* parallel ResidentAddrs kernel (not inPlace) run tile after tile.  The   *)
(* lanes of a warp move together and shuffle registers; the warps meet in  *)
(* shared arrays and at block barriers only, and run at their own pace     *)
(* between them.                                                           *)
(*                                                                         *)
(* In place, the result overwrites the array of warp totals (evictA), the   *)
(* total of the tile is the result of the last lane, and the caller adds a *)
(* fourth barrier.  Otherwise results stay in registers, lane 0 leaves the *)
(* total in a control word, and the next scan follows without a barrier.   *)
(* The fused kernel scans two flags at once in separate arrays; one is     *)
(* modelled.                                                               *)
(***************************************************************************)
EXTENDS Integers, FiniteSets

CONSTANTS
  WarpSize,  \* lanes of a warp, and warps of the block: a power of two
  Stages,    \* its logarithm, the number of shuffle stages
  Tiles,     \* consecutive scans
  Kernels,   \* the values of inPlace: which of the two kernels
  FlagSets   \* the sets of positions whose flag is up

ASSUME ScanAssumption == WarpSize = 2^Stages /\ Stages > 0 /\ Tiles > 0 /\ Kernels \subseteq BOOLEAN

Threads   == WarpSize * WarpSize
Lanes     == 0 .. WarpSize - 1
Warps     == 0 .. WarpSize - 1
Positions == 0 .. Tiles * Threads - 1

VARIABLES
  inPlace,  \* which of the two kernels runs
  flagged,  \* the flags, the input of the scans
  a,        \* evictA / warpTotals
  b,        \* evictB / warpBases
  total,    \* control[CONTROL_TOTAL]
  pc,       \* by warp: steps taken, Steps of them for each tile
  reg,      \* by warp and lane: the inclusive sums
  top,      \* warp 0's registers: the totals it scans
  base,     \* by warp: the total of the tiles before
  ranks     \* by position: the rank the kernel uses, Nil before it is known

vars == <<inPlace, flagged, a, b, total, pc, reg, top, base, ranks>>

Nil   == -1
Steps == 5

Tile(w)      == pc[w] \div Steps
Position(w, l) == Tile(w) * Threads + w * WarpSize + l
Flag(w, l)   == IF Position(w, l) \in flagged THEN 1 ELSE 0

Init ==
  /\ inPlace \in Kernels /\ flagged \in FlagSets
  /\ a = [i \in 0 .. Threads - 1 |-> Nil] /\ b = [l \in Lanes |-> Nil] /\ total = Nil
  /\ pc = [w \in Warps |-> 0]
  /\ reg = [w \in Warps |-> [l \in Lanes |-> 0]]
  /\ top = [l \in Lanes |-> 0]
  /\ base = [w \in Warps |-> 0]
  /\ ranks = [p \in Positions |-> Nil]

\* asc_shfl_up by each offset 1, 2, 4 ... below the warp size.
ShuffleScan(x) ==
  LET after[k \in 0 .. Stages] ==
        IF k = 0 THEN x
        ELSE [l \in Lanes |-> after[k - 1][l] +
                IF l >= 2^(k - 1) THEN after[k - 1][l - 2^(k - 1)] ELSE 0]
  IN  after[Stages]

\* Mutant: the last barrier of a tile is left out.
BarriersButLast == IF inPlace THEN {1, 3, 4} ELSE {1, 3}

\* The steps that a warp begins by passing a barrier.
Barriers == IF inPlace THEN {0, 1, 3, 4} ELSE {1, 3, 4}

\* Warp w takes step k; at a barrier it waits until all warps have come so far.
Takes(w, k) ==
  /\ Tile(w) < Tiles /\ pc[w] % Steps = k
  /\ k \in Barriers => \A v \in Warps : pc[v] >= pc[w]
  /\ pc' = [pc EXCEPT ![w] = @ + 1]
  /\ UNCHANGED <<inPlace, flagged>>

\* Scan within the warp; its last lane publishes the warp's total.
ScanWarp(w) ==
  /\ Takes(w, 0)
  /\ LET sums == ShuffleScan([l \in Lanes |-> Flag(w, l)])
     IN  /\ reg' = [reg EXCEPT ![w] = sums]
         /\ a' = [a EXCEPT ![w] = sums[WarpSize - 1]]
  /\ UNCHANGED <<b, total, top, base, ranks>>

\* Warp 0 loads the totals, scans them and stores the warps' bases.
LoadTotals(w) ==
  /\ Takes(w, 1)
  /\ top' = IF w = 0 THEN [l \in Lanes |-> a[l]] ELSE top
  /\ UNCHANGED <<a, b, total, reg, base, ranks>>

StoreBases(w) ==
  /\ Takes(w, 2)
  /\ b' = IF w = 0 THEN [l \in Lanes |-> ShuffleScan(top)[l] - top[l]] ELSE b
  /\ UNCHANGED <<a, total, reg, top, base, ranks>>

\* Every lane adds its warp's base.
AddBase(w) ==
  /\ Takes(w, 3)
  /\ IF inPlace
     THEN /\ a' = [i \in DOMAIN a |-> IF i \div WarpSize = w
                                      THEN b[w] + reg[w][i % WarpSize] ELSE a[i]]
          /\ UNCHANGED <<total, reg>>
     ELSE /\ reg' = [reg EXCEPT ![w] = [l \in Lanes |-> b[w] + @[l] - Flag(w, l)]]
          /\ total' = IF w = 0 THEN b[WarpSize - 1] + a[WarpSize - 1] ELSE total
          /\ UNCHANGED a
  /\ UNCHANGED <<b, top, base, ranks>>

\* The caller takes the ranks and adds the total to its running base.
Use(w) ==
  /\ Takes(w, 4)
  /\ LET rank(l) == base[w] + IF inPlace THEN a[w * WarpSize + l] - Flag(w, l) ELSE reg[w][l]
     IN  ranks' = [p \in Positions |->
           IF \E l \in Lanes : p = Position(w, l) THEN rank(p % WarpSize) ELSE ranks[p]]
  /\ base' = [base EXCEPT ![w] = @ + IF inPlace THEN a[Threads - 1] ELSE total]
  /\ UNCHANGED <<a, b, total, reg, top>>

Finished ==
  /\ \A w \in Warps : Tile(w) = Tiles
  /\ UNCHANGED vars

Next ==
  \/ \E w \in Warps :
       ScanWarp(w) \/ LoadTotals(w) \/ StoreBases(w) \/ AddBase(w) \/ Use(w)
  \/ Finished

Spec == Init /\ [][Next]_vars

-----------------------------------------------------------------------------
\* The ranks are the stable exclusive ranks of the flagged positions over all
\* tiles, whatever the pace of the warps and the reuse of the shared arrays.
StableRanks ==
  \A p \in Positions : ranks[p] # Nil => ranks[p] = Cardinality({q \in flagged : q < p})

\* The warps end with the same running total, the number of flags: they take
\* the same branches after the scans.
TotalsAgree ==
  \A w \in Warps : Tile(w) = Tiles => base[w] = Cardinality(flagged)
=============================================================================
