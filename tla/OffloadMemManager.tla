------------------------- MODULE OffloadMemManager --------------------------
(***************************************************************************)
(* AccOffloadMemManager: the best-fit allocator of the host DRAM pool.     *)
(* The idle ranges are kept twice, ordered by address (addressIdleTree_)   *)
(* and by size (sizeIdleTree_); addressUsedTree_ holds the live ones.  A   *)
(* std::map from offset to size is the set of its entries: two entries     *)
(* never share an offset, because emplace leaves a present key alone.      *)
(***************************************************************************)
EXTENDS Integers, FiniteSets

CONSTANTS
  PoolSize,   \* size_
  Align,      \* alignSize, 16 in the code
  HasBase,    \* base_ # nullptr; FALSE when the set-up of the pool has failed
  Requests,   \* sizes callers may ask for
  Addresses   \* offsets from base_ callers may release

ASSUME PoolAssumption ==
  /\ PoolSize \in Nat \ {0}
  /\ Align \in Nat \ {0}
  /\ HasBase \in BOOLEAN
  /\ Requests \subseteq Nat
  /\ Addresses \subseteq Int

Nil == -1

VARIABLES
  addressIdleTree,  \* idle ranges, by offset
  sizeIdleTree,     \* idle ranges, by (size, offset)
  addressUsedTree,  \* live ranges, by offset
  reply             \* what the last call returned

vars == <<addressIdleTree, sizeIdleTree, addressUsedTree, reply>>

MemoryRange(o, s) == [offset |-> o, size |-> s]

End(r) == r.offset + r.size

\* Mutant: the size is not rounded up.
AlignUpMissing(n) == n

AllocatedSizeAlignUp(n) == ((n + Align - 1) \div Align) * Align

\* std::map::emplace
Emplace(tree, r) ==
  IF \E q \in tree : q.offset = r.offset THEN tree ELSE tree \cup {r}

\* std::map::erase by key
Erase(tree, o) == {q \in tree : q.offset # o}

\* The order of sizeIdleTree_ (RangeSizeFirstComparator), as "not after".
NotAfter(r, q) == r.size < q.size \/ (r.size = q.size /\ r.offset <= q.offset)

\* Mutant: an exact fit is skipped.
LowerBoundStrict(r, n) ==
  r \in sizeIdleTree /\ r.size > n
  /\ \A q \in sizeIdleTree : q.size > n => NotAfter(r, q)

\* r is sizeIdleTree_.lower_bound({0, n})
LowerBound(r, n) ==
  /\ r \in sizeIdleTree
  /\ r.size >= n
  /\ \A q \in sizeIdleTree : q.size >= n => NotAfter(r, q)

Answer(op, arg, res) == reply' = [op |-> op, arg |-> arg, res |-> res]

Init ==
  /\ addressIdleTree = {MemoryRange(0, PoolSize)}
  /\ sizeIdleTree = {MemoryRange(0, PoolSize)}
  /\ addressUsedTree = {}
  /\ reply = [op |-> "none", arg |-> Nil, res |-> Nil]

-----------------------------------------------------------------------------
\* Mutant: the remainder of the range is forgotten.
CarveWhole(r, size) ==
  /\ addressIdleTree' = Erase(addressIdleTree, r.offset)
  /\ sizeIdleTree' = sizeIdleTree \ {r}
  /\ addressUsedTree' =
       Emplace(addressUsedTree, MemoryRange(r.offset, AllocatedSizeAlignUp(size)))

\* Carves AllocatedSizeAlignUp(size) bytes from the front of range r and gives
\* the rest back to both idle trees.
Carve(r, size) ==
  LET n    == AllocatedSizeAlignUp(size)
      left == MemoryRange(r.offset + n, r.size - n)
      addr == Erase(addressIdleTree, r.offset)
      szs  == sizeIdleTree \ {r}
  IN  /\ addressIdleTree' = IF r.size > n THEN Emplace(addr, left) ELSE addr
      /\ sizeIdleTree' = IF r.size > n THEN szs \cup {left} ELSE szs
      /\ addressUsedTree' = Emplace(addressUsedTree, MemoryRange(r.offset, n))

Allocate(size) ==
  /\ size # 0 /\ size <= PoolSize /\ HasBase
  /\ \E r \in sizeIdleTree :
       /\ LowerBound(r, AllocatedSizeAlignUp(size))
       /\ \E a \in addressIdleTree : a.offset = r.offset
       /\ Carve(r, size)
       /\ Answer("alloc", size, r.offset)

AllocateFails(size) ==
  /\ (size # 0 /\ size <= PoolSize /\ HasBase) =>
       \A r \in sizeIdleTree :
         LowerBound(r, AllocatedSizeAlignUp(size)) =>
           \A a \in addressIdleTree : a.offset # r.offset
  /\ Answer("alloc", size, Nil)
  /\ UNCHANGED <<addressIdleTree, sizeIdleTree, addressUsedTree>>

\* Mutants: the predecessor is never merged; it is merged without the test
\* that it is adjacent.
PrevNever(o) == {}
PrevUnchecked(o) ==
  {q \in addressIdleTree :
     q.offset < o
     /\ \A p \in addressIdleTree : p.offset < o => p.offset <= q.offset}

\* The idle entry just before offset o, when it ends exactly there.
Prev(o) ==
  {q \in addressIdleTree :
     /\ q.offset < o
     /\ \A p \in addressIdleTree : p.offset < o => p.offset <= q.offset
     /\ End(q) = o}

\* Mutant: the successor is never merged.
NextAtNever(o) == {}

\* The idle entry that starts at offset o.
NextAt(o) == {q \in addressIdleTree : q.offset = o}

\* Gives u back, merged with its idle neighbours, to both idle trees.
Coalesce(u) ==
  LET prev  == Prev(u.offset)
      next  == NextAt(End(u))
      final == MemoryRange(
                 IF prev = {} THEN u.offset ELSE (CHOOSE q \in prev : TRUE).offset,
                 u.size + (IF prev = {} THEN 0 ELSE (CHOOSE q \in prev : TRUE).size)
                        + (IF next = {} THEN 0 ELSE (CHOOSE q \in next : TRUE).size))
  IN  /\ addressIdleTree' = Emplace(addressIdleTree \ (prev \cup next), final)
      /\ sizeIdleTree' = (sizeIdleTree \ (prev \cup next)) \cup {final}

Release(o) ==
  /\ o >= 0 /\ o < PoolSize
  /\ \E u \in addressUsedTree :
       /\ u.offset = o
       /\ addressUsedTree' = addressUsedTree \ {u}
       /\ Coalesce(u)
  /\ Answer("free", o, 0)

ReleaseFails(o) ==
  /\ \/ o < 0
     \/ o >= PoolSize
     \/ \A u \in addressUsedTree : u.offset # o
  /\ Answer("free", o, Nil)
  /\ UNCHANGED <<addressIdleTree, sizeIdleTree, addressUsedTree>>

Next ==
  \/ \E size \in Requests : Allocate(size) \/ AllocateFails(size)
  \/ \E o \in Addresses : Release(o) \/ ReleaseFails(o)

Spec == Init /\ [][Next]_vars

-----------------------------------------------------------------------------
Disjoint(r, q) == End(r) <= q.offset \/ End(q) <= r.offset

\* Every entry of every tree is a non-empty aligned range of the pool, and the
\* two idle trees, updated by separate calls, hold the same ranges.
TypeOK ==
  /\ \A r \in addressIdleTree \cup addressUsedTree :
       /\ r \in [offset : Nat, size : Nat]
       /\ r.size > 0 /\ End(r) <= PoolSize
       /\ r.offset % Align = 0
  /\ \A r \in addressUsedTree : r.size % Align = 0
  /\ sizeIdleTree = addressIdleTree
  /\ reply \in [op : {"none", "alloc", "free"}, arg : Int, res : Int]

\* No byte belongs to two ranges: what Allocate returns is never part of
\* another live allocation or of idle space it could hand out again.
NoOverlap ==
  /\ \A r, q \in addressIdleTree : r = q \/ Disjoint(r, q)
  /\ \A r, q \in addressUsedTree : r = q \/ Disjoint(r, q)
  /\ \A r \in addressIdleTree, q \in addressUsedTree : Disjoint(r, q)

\* No byte is lost: each one is idle or belongs to a live allocation.
NoLeak ==
  \A b \in 0 .. (PoolSize - 1) :
    \E r \in addressIdleTree \cup addressUsedTree : r.offset <= b /\ b < End(r)

\* Release merges with both neighbours, so two idle ranges never touch.
Coalesced == \A r, q \in addressIdleTree : End(r) # q.offset

\* The inductive invariant: the pool is partitioned into the live ranges and
\* maximal idle ranges.
Inv == TypeOK /\ NoOverlap /\ NoLeak /\ Coalesced

\* When everything has been released the pool is one idle range again, whatever
\* the order of the calls was: fragmentation does not accumulate.
DrainsToWhole ==
  addressUsedTree = {} => addressIdleTree = {MemoryRange(0, PoolSize)}

\* The trees implement the allocator that callers see.
Pool == INSTANCE HostPool WITH owned <- addressUsedTree
PoolSpec == Pool!Spec
=============================================================================
