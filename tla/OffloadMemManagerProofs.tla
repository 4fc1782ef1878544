---------------------- MODULE OffloadMemManagerProofs -----------------------
(***************************************************************************)
(* Proofs, for every pool size, alignment and set of requests, that the    *)
(* three trees of AccOffloadMemManager partition the pool and implement    *)
(* HostPool.                                                               *)
(***************************************************************************)
EXTENDS OffloadMemManager, WellFoundedInduction, TLAPS

-----------------------------------------------------------------------------
(* Arithmetic of AllocatedSizeAlignUp *)

\* Euclidean division by the alignment.
LEMMA DivMod ==
  ASSUME NEW x \in Int, NEW a \in Nat \ {0}
  PROVE  /\ x \div a \in Int
         /\ x % a \in 0 .. (a - 1)
         /\ x = a * (x \div a) + (x % a)
  BY SMT

\* A multiple of the alignment is aligned.
LEMMA MultipleAligned ==
  ASSUME NEW k \in Int, NEW a \in Nat \ {0}
  PROVE  (k * a) % a = 0
  BY SMT

\* The sum of aligned numbers is aligned.
LEMMA SumAligned ==
  ASSUME NEW x \in Int, NEW y \in Int, NEW a \in Nat \ {0},
         x % a = 0, y % a = 0
  PROVE  (x + y) % a = 0
  <1>1. /\ (x \div a) \in Int /\ (y \div a) \in Int
        /\ x = a * (x \div a) /\ y = a * (y \div a)
    BY DivMod, SMT
  <1>2. x + y = ((x \div a) + (y \div a)) * a
    BY <1>1, SMT
  <1>3. ((x \div a) + (y \div a)) \in Int
    BY <1>1
  <1> QED
    BY <1>2, <1>3, MultipleAligned

\* AllocatedSizeAlignUp rounds up to an aligned size.
LEMMA AlignUpFacts ==
  ASSUME NEW n \in Nat, n > 0
  PROVE  LET m == AllocatedSizeAlignUp(n)
         IN  m \in Nat /\ m >= n /\ m > 0 /\ m % Align = 0
  <1> USE PoolAssumption
  <1> DEFINE d == (n + Align - 1) \div Align
  <1>0. n + Align - 1 \in Int
    OBVIOUS
  <1>1. /\ d \in Int /\ (n + Align - 1) % Align \in 0 .. (Align - 1)
        /\ n + Align - 1 = Align * d + ((n + Align - 1) % Align)
    BY <1>0, DivMod
  <1>2. d >= 0
    BY <1>1, SMT
  <1>3. d * Align \in Nat /\ d * Align >= n
    BY <1>1, <1>2, SMT
  <1>4. (d * Align) % Align = 0
    BY <1>1, MultipleAligned
  <1> QED
    BY <1>3, <1>4 DEF AllocatedSizeAlignUp

-----------------------------------------------------------------------------
(* What the trees' operations do in a partitioned pool *)

\* Two idle ranges, or two live ones, with the same offset are the same.
LEMMA OffsetIsKey ==
  ASSUME Inv
  PROVE  /\ \A r, q \in addressIdleTree : r.offset = q.offset => r = q
         /\ \A r, q \in addressUsedTree : r.offset = q.offset => r = q
  BY DEF Inv, TypeOK, NoOverlap, Disjoint, End

\* Carving keeps both idle trees equal: the found range gives way to the rest
\* of it, and a new live range appears.
LEMMA CarveEffect ==
  ASSUME Inv, NEW size \in Nat, size > 0,
         NEW r \in addressIdleTree, r.size >= AllocatedSizeAlignUp(size),
         Carve(r, size)
  PROVE  LET n == AllocatedSizeAlignUp(size)
             rest == IF r.size > n
                     THEN {MemoryRange(r.offset + n, r.size - n)} ELSE {}
         IN  /\ addressIdleTree' = (addressIdleTree \ {r}) \cup rest
             /\ sizeIdleTree' = addressIdleTree'
             /\ addressUsedTree' = addressUsedTree \cup {MemoryRange(r.offset, n)}
  <1> DEFINE n == AllocatedSizeAlignUp(size)
             left == MemoryRange(r.offset + n, r.size - n)
  <1>1. n \in Nat /\ n > 0
    BY AlignUpFacts
  <1> HIDE DEF n
  <1>2. Erase(addressIdleTree, r.offset) = addressIdleTree \ {r}
    BY OffsetIsKey DEF Erase
  <1>3. ASSUME r.size > n
        PROVE  Emplace(addressIdleTree \ {r}, left) = (addressIdleTree \ {r}) \cup {left}
    <2>1. \A q \in addressIdleTree \ {r} : q.offset # left.offset
      BY <1>1, <1>3 DEF Inv, TypeOK, NoOverlap, Disjoint, End, MemoryRange
    <2> QED
      BY <2>1 DEF Emplace
  <1>4. Emplace(addressUsedTree, MemoryRange(r.offset, n))
          = addressUsedTree \cup {MemoryRange(r.offset, n)}
    <2>1. \A q \in addressUsedTree : q.offset # r.offset
      BY DEF Inv, TypeOK, NoOverlap, Disjoint, End
    <2> QED
      BY <2>1 DEF Emplace, MemoryRange
  <1>5. sizeIdleTree = addressIdleTree
    BY DEF Inv, TypeOK
  <1> QED
    BY <1>2, <1>3, <1>4, <1>5 DEF Carve, n

\* The predecessor Release looks for is the idle range that ends where the
\* released one starts, if there is one.
LEMMA PrevIsAdjacent ==
  ASSUME Inv, NEW o \in Nat
  PROVE  Prev(o) = {q \in addressIdleTree : End(q) = o}
  BY DEF Prev, Inv, TypeOK, NoOverlap, Disjoint, End

\* What Release does to a live range u: it disappears, the idle ranges that
\* touch it disappear, and one range spanning all of them appears.
LEMMA CoalesceEffect ==
  ASSUME Inv, NEW u \in addressUsedTree, Coalesce(u)
  PROVE  LET touching == {q \in addressIdleTree : End(q) = u.offset \/ q.offset = End(u)}
         IN  \E f \in [offset : Nat, size : Nat] :
               /\ addressIdleTree' = (addressIdleTree \ touching) \cup {f}
               /\ sizeIdleTree' = addressIdleTree'
               /\ \/ f.offset = u.offset /\ \A q \in addressIdleTree : End(q) # u.offset
                  \/ \E q \in addressIdleTree : f.offset = q.offset /\ End(q) = u.offset
               /\ \/ End(f) = End(u) /\ \A q \in addressIdleTree : q.offset # End(u)
                  \/ \E q \in addressIdleTree : End(f) = End(q) /\ q.offset = End(u)
  <1> DEFINE prev == Prev(u.offset)
             next == NextAt(End(u))
             pq == CHOOSE q \in prev : TRUE
             nq == CHOOSE q \in next : TRUE
             fo == IF prev = {} THEN u.offset ELSE pq.offset
             fs == u.size + (IF prev = {} THEN 0 ELSE pq.size)
                          + (IF next = {} THEN 0 ELSE nq.size)
             f == MemoryRange(fo, fs)
             touching == {q \in addressIdleTree : End(q) = u.offset \/ q.offset = End(u)}
  <1>1. prev = {q \in addressIdleTree : End(q) = u.offset}
    BY PrevIsAdjacent DEF Inv, TypeOK
  <1>2. next = {q \in addressIdleTree : q.offset = End(u)}
    BY DEF NextAt
  <1>3. prev # {} => pq \in addressIdleTree /\ End(pq) = u.offset
    BY <1>1
  <1>4. next # {} => nq \in addressIdleTree /\ nq.offset = End(u)
    BY <1>2
  <1>5. touching = prev \cup next
    BY <1>1, <1>2
  <1>6. /\ addressIdleTree' = Emplace(addressIdleTree \ touching, f)
        /\ sizeIdleTree' = (addressIdleTree \ touching) \cup {f}
    <2>1. /\ addressIdleTree' = Emplace(addressIdleTree \ (prev \cup next), f)
          /\ sizeIdleTree' = (sizeIdleTree \ (prev \cup next)) \cup {f}
      BY Zenon DEF Coalesce
    <2>2. sizeIdleTree = addressIdleTree
      BY DEF Inv, TypeOK
    <2> HIDE DEF prev, next, f, touching
    <2> QED
      BY <2>1, <2>2, <1>5
  <1> HIDE DEF prev, next, pq, nq, touching
  <1>7. /\ u \in [offset : Nat, size : Nat] /\ u.size > 0
        /\ prev # {} => pq \in [offset : Nat, size : Nat]
        /\ next # {} => nq \in [offset : Nat, size : Nat]
    BY <1>3, <1>4 DEF Inv, TypeOK
  <1>8. /\ f \in [offset : Nat, size : Nat]
        /\ f.offset = fo /\ f.size = fs
    BY <1>7 DEF MemoryRange
  <1>9. /\ \/ f.offset = u.offset /\ \A q \in addressIdleTree : End(q) # u.offset
           \/ \E q \in addressIdleTree : f.offset = q.offset /\ End(q) = u.offset
        /\ \/ End(f) = End(u) /\ \A q \in addressIdleTree : q.offset # End(u)
           \/ \E q \in addressIdleTree : End(f) = End(q) /\ q.offset = End(u)
    <2>1. CASE prev = {} /\ next = {}
      BY <2>1, <1>1, <1>2, <1>7, <1>8 DEF End
    <2>2. CASE prev = {} /\ next # {}
      BY <2>2, <1>1, <1>2, <1>4, <1>7, <1>8 DEF End
    <2>3. CASE prev # {} /\ next = {}
      BY <2>3, <1>1, <1>2, <1>3, <1>7, <1>8 DEF End
    <2>4. CASE prev # {} /\ next # {}
      <3>1. f.offset = pq.offset /\ f.size = u.size + pq.size + nq.size
        BY <2>4, <1>7, <1>8
      <3>2. pq \in addressIdleTree /\ End(pq) = u.offset
        BY <2>4, <1>3
      <3>3. nq \in addressIdleTree /\ nq.offset = End(u)
        BY <2>4, <1>4
      <3>4. /\ u.offset \in Nat /\ u.size \in Nat
            /\ pq.offset \in Nat /\ pq.size \in Nat
            /\ nq.offset \in Nat /\ nq.size \in Nat
        BY <2>4, <1>7
      <3> HIDE DEF f
      <3>5. End(f) = End(nq)
        BY <3>1, <3>2, <3>3, <3>4 DEF End
      <3> QED
        BY <3>1, <3>2, <3>3, <3>5
    <2> QED
      BY <2>1, <2>2, <2>3, <2>4
  <1> HIDE DEF fo, fs, f
  <1>10. \A q \in addressIdleTree \ touching : q.offset # f.offset
    BY <1>8, <1>9 DEF touching, Inv, TypeOK, NoOverlap, Disjoint, End
  <1>11. Emplace(addressIdleTree \ touching, f) = (addressIdleTree \ touching) \cup {f}
    BY <1>10 DEF Emplace
  <1> QED
    BY <1>6, <1>8, <1>9, <1>11 DEF touching

-----------------------------------------------------------------------------
(* Invariance *)

\* The constructor's single idle range partitions the pool.
LEMMA InitInv == Init => Inv
  <1> SUFFICES ASSUME Init PROVE Inv
    OBVIOUS
  <1> USE PoolAssumption DEF Init, MemoryRange, End
  <1>1. 0 % Align = 0
    BY SMT
  <1>2. TypeOK
    BY <1>1 DEF TypeOK, Nil
  <1>3. NoOverlap
    BY DEF NoOverlap
  <1>4. NoLeak
    BY DEF NoLeak
  <1>5. Coalesced
    BY DEF Coalesced
  <1> QED
    BY <1>2, <1>3, <1>4, <1>5 DEF Inv

\* A successful Allocate keeps the partition.
LEMMA AllocateInv ==
  ASSUME Inv, NEW size \in Requests, Allocate(size)
  PROVE  Inv'
  <1> DEFINE n == AllocatedSizeAlignUp(size)
  <1>1. size \in Nat /\ size > 0
    BY PoolAssumption DEF Allocate
  <1>2. n \in Nat /\ n > 0 /\ n % Align = 0
    BY <1>1, AlignUpFacts
  <1>3. PICK r \in sizeIdleTree :
          LowerBound(r, n) /\ Carve(r, size) /\ Answer("alloc", size, r.offset)
    BY DEF Allocate
  <1>4. r \in addressIdleTree /\ r.size >= n
    BY <1>3 DEF Inv, TypeOK, LowerBound
  <1> DEFINE left == MemoryRange(r.offset + n, r.size - n)
             rest == IF r.size > n THEN {left} ELSE {}
             new == MemoryRange(r.offset, n)
  <1>5. /\ addressIdleTree' = (addressIdleTree \ {r}) \cup rest
        /\ sizeIdleTree' = addressIdleTree'
        /\ addressUsedTree' = addressUsedTree \cup {new}
    BY <1>1, <1>3, <1>4, CarveEffect
  <1> HIDE DEF n
  <1>6. /\ r \in [offset : Nat, size : Nat] /\ r.size > 0
        /\ End(r) <= PoolSize /\ r.offset % Align = 0
    BY <1>4 DEF Inv, TypeOK
  <1>7. /\ new.offset = r.offset /\ new.size = n /\ new \in [offset : Nat, size : Nat]
        /\ left.offset = r.offset + n /\ left.size = r.size - n
        /\ r.size > n => left \in [offset : Nat, size : Nat] /\ left.size > 0
    BY <1>2, <1>6 DEF MemoryRange
  <1>8. (r.offset + n) % Align = 0
    <2>1. r.offset \in Int /\ n \in Int /\ Align \in Nat \ {0}
      BY <1>2, <1>6, PoolAssumption
    <2> QED
      BY <2>1, <1>2, <1>6, SumAligned
  <1> HIDE DEF left, new
  <1>9. TypeOK'
    <2>1. reply' \in [op : {"none", "alloc", "free"}, arg : Int, res : Int]
      BY <1>1, <1>3, <1>6 DEF Answer
    <2>2. \A q \in addressIdleTree' \cup addressUsedTree' :
            /\ q \in [offset : Nat, size : Nat]
            /\ q.size > 0 /\ End(q) <= PoolSize /\ q.offset % Align = 0
      <3> SUFFICES ASSUME NEW q \in addressIdleTree' \cup addressUsedTree'
                   PROVE  /\ q \in [offset : Nat, size : Nat]
                          /\ q.size > 0 /\ End(q) <= PoolSize /\ q.offset % Align = 0
        OBVIOUS
      <3>1. CASE q \in addressIdleTree \cup addressUsedTree
        BY <3>1 DEF Inv, TypeOK
      <3>2. CASE q = new
        BY <3>2, <1>2, <1>4, <1>6, <1>7, PoolAssumption DEF End
      <3>3. CASE q = left /\ r.size > n
        BY <3>3, <1>2, <1>6, <1>7, <1>8 DEF End
      <3> QED
        BY <1>5, <3>1, <3>2, <3>3
    <2>3. \A q \in addressUsedTree' : q.size % Align = 0
      BY <1>2, <1>5, <1>7 DEF Inv, TypeOK
    <2> QED
      BY <1>5, <2>1, <2>2, <2>3 DEF TypeOK, End
  <1>10. NoOverlap'
    BY <1>2, <1>4, <1>5, <1>6, <1>7 DEF Inv, TypeOK, NoOverlap, Disjoint, End
  <1>11. NoLeak'
    <2> SUFFICES ASSUME NEW b \in 0 .. (PoolSize - 1)
                 PROVE  \E q \in addressIdleTree' \cup addressUsedTree' :
                          q.offset <= b /\ b < End(q)
      BY DEF NoLeak, End
    <2>1. PICK q \in addressIdleTree \cup addressUsedTree : q.offset <= b /\ b < End(q)
      BY DEF Inv, NoLeak
    <2>2. CASE q # r
      BY <2>1, <2>2, <1>5
    <2>3. CASE q = r /\ b < r.offset + n
      BY <2>1, <2>3, <1>2, <1>5, <1>6, <1>7 DEF End
    <2>4. CASE q = r /\ ~(b < r.offset + n)
      BY <2>1, <2>4, <1>2, <1>4, <1>5, <1>6, <1>7, PoolAssumption DEF End
    <2> QED
      BY <2>2, <2>3, <2>4
  <1>12. Coalesced'
    BY <1>2, <1>4, <1>5, <1>6, <1>7 DEF Inv, TypeOK, NoOverlap, Coalesced, Disjoint, End
  <1> QED
    BY <1>9, <1>10, <1>11, <1>12 DEF Inv

\* A successful Release keeps the partition and leaves no two idle ranges side
\* by side.
LEMMA ReleaseInv ==
  ASSUME Inv, NEW o \in Addresses, Release(o)
  PROVE  Inv'
  <1>1. PICK u \in addressUsedTree :
          addressUsedTree' = addressUsedTree \ {u} /\ Coalesce(u)
    BY DEF Release
  <1> DEFINE touching ==
        {q \in addressIdleTree : End(q) = u.offset \/ q.offset = End(u)}
  <1>2. PICK f \in [offset : Nat, size : Nat] :
          /\ addressIdleTree' = (addressIdleTree \ touching) \cup {f}
          /\ sizeIdleTree' = addressIdleTree'
          /\ \/ f.offset = u.offset /\ \A q \in addressIdleTree : End(q) # u.offset
             \/ \E q \in addressIdleTree : f.offset = q.offset /\ End(q) = u.offset
          /\ \/ End(f) = End(u) /\ \A q \in addressIdleTree : q.offset # End(u)
             \/ \E q \in addressIdleTree : End(f) = End(q) /\ q.offset = End(u)
    BY <1>1, CoalesceEffect
  <1>3. /\ u \in [offset : Nat, size : Nat] /\ u.size > 0
        /\ End(u) <= PoolSize /\ u.offset % Align = 0
    BY DEF Inv, TypeOK
  \* f spans u and the idle ranges that touch it, and nothing else
  <1>4. /\ f.offset <= u.offset /\ End(u) <= End(f) /\ End(f) <= PoolSize
        /\ f.size > 0 /\ f.offset % Align = 0
    <2>1. \A q \in addressIdleTree :
            /\ q \in [offset : Nat, size : Nat] /\ q.size > 0
            /\ End(q) <= PoolSize /\ q.offset % Align = 0
      BY DEF Inv, TypeOK
    <2>2. f.offset <= u.offset /\ f.offset % Align = 0
      <3>1. CASE f.offset = u.offset
        BY <3>1, <1>3
      <3>2. CASE \E q \in addressIdleTree : f.offset = q.offset /\ End(q) = u.offset
        BY <3>2, <2>1, <1>3 DEF End
      <3> QED
        BY <3>1, <3>2, <1>2
    <2>3. End(u) <= End(f) /\ End(f) <= PoolSize
      <3>1. CASE End(f) = End(u)
        BY <3>1, <1>3 DEF End
      <3>2. CASE \E q \in addressIdleTree : End(f) = End(q) /\ q.offset = End(u)
        <4>1. PICK q \in addressIdleTree : End(f) = End(q) /\ q.offset = End(u)
          BY <3>2
        <4>2. q.offset <= End(q)
          BY <2>1 DEF End
        <4> QED
          BY <4>1, <4>2, <2>1
      <3> QED
        BY <3>1, <3>2, <1>2
    <2>4. f.size > 0
      BY <2>2, <2>3, <1>3 DEF End
    <2> QED
      BY <2>2, <2>3, <2>4
  <1>5. \A q \in touching : f.offset <= q.offset /\ End(q) <= End(f)
    <2> SUFFICES ASSUME NEW q \in addressIdleTree, End(q) = u.offset \/ q.offset = End(u)
                 PROVE  f.offset <= q.offset /\ End(q) <= End(f)
      OBVIOUS
    <2>1. \A p \in addressIdleTree : p \in [offset : Nat, size : Nat] /\ p.size > 0
      BY DEF Inv, TypeOK
    <2>2. \A p \in addressIdleTree : p = q \/ Disjoint(p, q)
      BY DEF Inv, NoOverlap
    <2>3. \A p \in addressIdleTree : End(p) = End(q) \/ p.offset = q.offset => p = q
      BY <2>1, <2>2 DEF Disjoint, End
    <2>4. CASE End(q) = u.offset
      <3>1. f.offset = q.offset
        BY <2>3, <2>4, <1>2
      <3> QED
        BY <3>1, <2>1, <2>4, <1>3, <1>4 DEF End
    <2>5. CASE q.offset = End(u)
      <3>1. End(f) = End(q)
        BY <2>3, <2>5, <1>2
      <3> QED
        BY <3>1, <2>1, <2>5, <1>3, <1>4 DEF End
    <2> QED
      BY <2>4, <2>5
  <1>6. \A q \in (addressIdleTree \ touching) \cup (addressUsedTree \ {u}) : Disjoint(q, f)
    <2> SUFFICES ASSUME NEW q \in (addressIdleTree \ touching) \cup (addressUsedTree \ {u})
                 PROVE  Disjoint(q, f)
      OBVIOUS
    <2>1. q \in [offset : Nat, size : Nat] /\ q.size > 0 /\ Disjoint(q, u)
      BY DEF Inv, TypeOK, NoOverlap, Disjoint
    <2>2. \A p \in touching : Disjoint(q, p)
      BY DEF Inv, NoOverlap, Disjoint
    <2>3. \/ f.offset = u.offset
          \/ \E p \in touching : f.offset = p.offset /\ End(p) = u.offset
      BY <1>2
    <2>4. \/ End(f) = End(u)
          \/ \E p \in touching : End(f) = End(p) /\ p.offset = End(u)
      BY <1>2
    <2>5. \A p \in touching : p \in [offset : Nat, size : Nat] /\ p.size > 0
      BY DEF Inv, TypeOK
    <2> HIDE DEF touching
    <2> QED
      BY <1>3, <2>1, <2>2, <2>3, <2>4, <2>5 DEF Disjoint, End
  <1>7. TypeOK'
    <2>1. reply' \in [op : {"none", "alloc", "free"}, arg : Int, res : Int]
      BY PoolAssumption DEF Release, Answer
    <2> QED
      BY <1>1, <1>2, <1>4, <2>1 DEF Inv, TypeOK, End
  <1>8. NoOverlap'
    BY <1>1, <1>2, <1>6 DEF Inv, NoOverlap, Disjoint, End
  <1>9. NoLeak'
    <2> SUFFICES ASSUME NEW b \in 0 .. (PoolSize - 1)
                 PROVE  \E q \in addressIdleTree' \cup addressUsedTree' :
                          q.offset <= b /\ b < End(q)
      BY DEF NoLeak, End
    <2>1. PICK q \in addressIdleTree \cup addressUsedTree : q.offset <= b /\ b < End(q)
      BY DEF Inv, NoLeak
    <2>2. q \in [offset : Nat, size : Nat]
      BY DEF Inv, TypeOK
    <2>3. CASE q \in touching \/ q = u
      BY <2>1, <2>2, <2>3, <1>2, <1>3, <1>4, <1>5, PoolAssumption DEF End
    <2>4. CASE ~(q \in touching \/ q = u)
      BY <2>1, <2>4, <1>1, <1>2
    <2> QED
      BY <2>3, <2>4
  <1>10. Coalesced'
    <2>1. \A q \in addressIdleTree \ touching : End(q) # f.offset /\ End(f) # q.offset
      BY <1>2 DEF Inv, Coalesced
    <2>2. End(f) # f.offset
      BY <1>4 DEF End
    <2> QED
      BY <2>1, <2>2, <1>2 DEF Inv, Coalesced, End
  <1> QED
    BY <1>7, <1>8, <1>9, <1>10 DEF Inv

\* AccOffloadMemManager keeps its trees consistent: Allocate and Release, the
\* failing ones included, preserve the partition of the pool.
THEOREM Invariance == Spec => []Inv
  <1>1. Init => Inv
    BY InitInv
  <1>2. Inv /\ [Next]_vars => Inv'
    <2> SUFFICES ASSUME Inv, [Next]_vars PROVE Inv'
      OBVIOUS
    <2>1. ASSUME NEW size \in Requests, Allocate(size) PROVE Inv'
      BY <2>1, AllocateInv
    <2>2. ASSUME NEW size \in Requests, AllocateFails(size) PROVE Inv'
      <3>1. size \in Int
        BY PoolAssumption
      <3> QED
        BY <2>2, <3>1 DEF AllocateFails, Answer, Nil, Inv, TypeOK, NoOverlap,
                          NoLeak, Coalesced, Disjoint, End
    <2>3. ASSUME NEW o \in Addresses, Release(o) PROVE Inv'
      BY <2>3, ReleaseInv
    <2>4. ASSUME NEW o \in Addresses, ReleaseFails(o) PROVE Inv'
      <3>1. o \in Int
        BY PoolAssumption
      <3> QED
        BY <2>4, <3>1 DEF ReleaseFails, Answer, Nil, Inv, TypeOK, NoOverlap,
                          NoLeak, Coalesced, Disjoint, End
    <2>5. CASE UNCHANGED vars
      BY <2>5 DEF vars, Inv, TypeOK, NoOverlap, NoLeak, Coalesced, Disjoint, End
    <2> QED
      BY <2>1, <2>2, <2>3, <2>4, <2>5 DEF Next
  <1> QED
    BY <1>1, <1>2, PTL DEF Spec

\* No two live or idle ranges overlap, for every pool: the part of Invariance
\* callers depend on directly.
THEOREM Disjointness == Spec => []NoOverlap
  <1>1. Inv => NoOverlap
    BY DEF Inv
  <1> QED
    BY <1>1, Invariance, PTL

\* In a partitioned pool an idle range is maximal: a byte that follows it
\* belongs to a live range.
LEMMA IdleIsMaximal ==
  ASSUME Inv, NEW r \in addressIdleTree, End(r) < PoolSize
  PROVE  \E q \in addressUsedTree : q.offset <= End(r) /\ End(r) < End(q)
  <1>1. End(r) \in 0 .. (PoolSize - 1)
    BY PoolAssumption DEF Inv, TypeOK, End
  <1>2. PICK q \in addressIdleTree \cup addressUsedTree :
          q.offset <= End(r) /\ End(r) < End(q)
    BY <1>1 DEF Inv, NoLeak
  <1>3. q \notin addressIdleTree
    BY <1>2 DEF Inv, TypeOK, NoOverlap, Coalesced, Disjoint, End
  <1> QED
    BY <1>2, <1>3

\* Once every allocation is released, Release has rebuilt the one idle range
\* the constructor started from.
THEOREM Drained == Spec => []DrainsToWhole
  <1>1. Inv => DrainsToWhole
    <2> SUFFICES ASSUME Inv, addressUsedTree = {}
                 PROVE  addressIdleTree = {MemoryRange(0, PoolSize)}
      BY DEF DrainsToWhole
    <2>1. PICK r \in addressIdleTree : r.offset <= 0 /\ 0 < End(r)
      BY PoolAssumption DEF Inv, NoLeak
    <2>2. r \in [offset : Nat, size : Nat] /\ End(r) <= PoolSize
      BY DEF Inv, TypeOK
    <2>3. End(r) = PoolSize
      BY <2>2, IdleIsMaximal, PoolAssumption DEF End
    <2>4. r.offset = 0 /\ r.size = PoolSize
      BY <2>1, <2>2, <2>3, PoolAssumption DEF End
    <2>5. r = MemoryRange(0, PoolSize)
      BY <2>2, <2>4 DEF MemoryRange
    <2>6. \A q \in addressIdleTree : q = r
      BY <2>4, PoolAssumption DEF Inv, TypeOK, NoOverlap, Disjoint, End
    <2> QED
      BY <2>5, <2>6
  <1> QED
    BY <1>1, Invariance, PTL

-----------------------------------------------------------------------------
(* Refinement of HostPool *)

\* A non-empty set of naturals has a least element.
LEMMA LeastNat ==
  ASSUME NEW T, T \subseteq Nat, T # {}
  PROVE  \E m \in T : \A x \in T : m <= x
  <1>1. ASSUME NEW x \in Nat, NEW m \in Nat, x < m
        PROVE  <<x, m>> \in OpToRel(<, Nat)
    BY <1>1, Zenon DEF OpToRel
  <1>2. PICK m \in T : \A x \in T : ~(<<x, m>> \in OpToRel(<, Nat))
    BY NatLessThanWellFounded, WFMin, Zenon
  <1>3. \A x \in T : ~(x < m)
    BY <1>1, <1>2, Zenon
  <1> QED
    BY <1>3

\* lower_bound finds a range whenever some idle range is large enough.
LEMMA LowerBoundExists ==
  ASSUME Inv, NEW n \in Nat, NEW q \in sizeIdleTree, q.size >= n
  PROVE  \E r \in sizeIdleTree : LowerBound(r, n)
  <1> DEFINE fits == {r \in sizeIdleTree : r.size >= n}
             sizes == {r.size : r \in fits}
  <1>1. \A r \in fits : r \in [offset : Nat, size : Nat]
    BY DEF Inv, TypeOK
  <1>2. sizes \subseteq Nat /\ sizes # {}
    BY <1>1
  <1>4. PICK m \in sizes : \A x \in sizes : m <= x
    BY <1>2, LeastNat
  <1> DEFINE best == {r \in fits : r.size = m}
             offsets == {r.offset : r \in best}
  <1>5. offsets \subseteq Nat /\ offsets # {}
    BY <1>1
  <1>7. PICK k \in offsets : \A x \in offsets : k <= x
    BY <1>5, LeastNat
  <1>8. PICK r \in best : r.offset = k
    OBVIOUS
  <1>9. ASSUME NEW p \in sizeIdleTree, p.size >= n PROVE NotAfter(r, p)
    <2>1. p \in [offset : Nat, size : Nat] /\ r \in [offset : Nat, size : Nat]
      BY <1>1, <1>9
    <2>2. m <= p.size /\ r.size = m
      BY <1>4, <1>9
    <2>3. p.size = m => k <= p.offset
      BY <1>7, <1>9
    <2> QED
      BY <2>1, <2>2, <2>3, <1>8 DEF NotAfter
  <1> QED
    BY <1>9 DEF LowerBound

\* A run of free bytes lies inside one idle range, so it is no longer than the
\* longest of them.
LEMMA FreeRunFits ==
  ASSUME Inv, NEW n \in Nat, n > 0, NEW o \in Nat, Pool!FreeRun(o, n)
  PROVE  \E r \in addressIdleTree : r.size >= n
  <1>1. o + n <= PoolSize /\ \A b \in o .. (o + n - 1) : Pool!Free(b)
    BY DEF Pool!FreeRun
  <1>2. o \in 0 .. (PoolSize - 1)
    BY <1>1, PoolAssumption
  <1>3. PICK r \in addressIdleTree \cup addressUsedTree : r.offset <= o /\ o < End(r)
    BY <1>2 DEF Inv, NoLeak
  <1>4. r \in addressIdleTree
    BY <1>1, <1>3 DEF Pool!Free, Pool!Holds, End
  <1>5. r \in [offset : Nat, size : Nat]
    BY DEF Inv, TypeOK
  <1>6. ASSUME End(r) < o + n PROVE FALSE
    <2>1. PICK q \in addressUsedTree : q.offset <= End(r) /\ End(r) < End(q)
      BY <1>1, <1>4, <1>5, <1>6, IdleIsMaximal, PoolAssumption DEF End
    <2>2. End(r) \in o .. (o + n - 1)
      BY <1>3, <1>5, <1>6 DEF End
    <2> QED
      BY <1>1, <2>1, <2>2 DEF Pool!Free, Pool!Holds, End
  <1> QED
    BY <1>3, <1>4, <1>5, <1>6 DEF End

\* The trees implement the allocator callers see: every range handed out is
\* aligned and free, and a request is refused only if no free run could hold it.
THEOREM Refinement == Spec => PoolSpec
  <1>1. Init => Pool!Init
    BY DEF Init, Pool!Init, Nil, Pool!Nil
  <1>2. Inv /\ [Next]_vars => [Pool!Next]_(Pool!vars)
    <2> SUFFICES ASSUME Inv, [Next]_vars PROVE [Pool!Next]_(Pool!vars)
      OBVIOUS
    <2>1. ASSUME NEW size \in Requests, Allocate(size) PROVE Pool!Allocate(size)
      <3> DEFINE n == AllocatedSizeAlignUp(size)
      <3>1. size \in Nat /\ size > 0 /\ size <= PoolSize /\ HasBase
        BY <2>1, PoolAssumption DEF Allocate
      <3>2. n \in Nat /\ n > 0
        BY <3>1, AlignUpFacts
      <3>3. PICK r \in sizeIdleTree :
              LowerBound(r, n) /\ Carve(r, size) /\ Answer("alloc", size, r.offset)
        BY <2>1 DEF Allocate
      <3>4. r \in addressIdleTree /\ r.size >= n
        BY <3>3 DEF Inv, TypeOK, LowerBound
      <3>5. addressUsedTree' = addressUsedTree \cup {MemoryRange(r.offset, n)}
        BY <3>1, <3>3, <3>4, CarveEffect
      <3>6. /\ r \in [offset : Nat, size : Nat] /\ r.offset % Align = 0
            /\ r.offset + r.size <= PoolSize
        BY <3>4 DEF Inv, TypeOK, End
      <3>7. Pool!AllocatedSizeAlignUp(size) = n
        BY DEF Pool!AllocatedSizeAlignUp, AllocatedSizeAlignUp
      <3> HIDE DEF n
      <3>8. r.offset \in 0 .. PoolSize
        BY <3>6, PoolAssumption
      <3>9. Pool!FreeRun(r.offset, n)
        BY <3>2, <3>4, <3>6, PoolAssumption
           DEF Pool!FreeRun, Pool!Free, Pool!Holds, Inv, TypeOK, NoOverlap, Disjoint, End
      <3>10. /\ MemoryRange(r.offset, n) = Pool!MemoryRange(r.offset, n)
             /\ Pool!Answer("alloc", size, r.offset)
        BY <3>3 DEF MemoryRange, Pool!MemoryRange, Answer, Pool!Answer
      <3> QED
        BY <3>1, <3>5, <3>6, <3>7, <3>8, <3>9, <3>10 DEF Pool!Allocate
    <2>2. ASSUME NEW size \in Requests, AllocateFails(size) PROVE Pool!AllocateFails(size)
      <3> DEFINE n == AllocatedSizeAlignUp(size)
      <3>1. size \in Nat
        BY PoolAssumption
      <3>2. ASSUME size > 0, size <= PoolSize, HasBase,
                   NEW o \in 0 .. PoolSize, Pool!FreeRun(o, n)
            PROVE  FALSE
        <4>1. n \in Nat /\ n > 0
          BY <3>1, <3>2, AlignUpFacts
        <4>2. PICK q \in addressIdleTree : q.size >= n
          BY <3>2, <4>1, FreeRunFits, PoolAssumption
        <4>3. sizeIdleTree = addressIdleTree
          BY DEF Inv, TypeOK
        <4>4. PICK r \in sizeIdleTree : LowerBound(r, n)
          BY <4>1, <4>2, <4>3, LowerBoundExists
        <4> QED
          BY <2>2, <3>1, <3>2, <4>3, <4>4, PoolAssumption DEF AllocateFails
      <3>3. Pool!AllocatedSizeAlignUp(size) = n
        BY DEF Pool!AllocatedSizeAlignUp, AllocatedSizeAlignUp
      <3> HIDE DEF n
      <3> QED
        BY <2>2, <3>2, <3>3
           DEF AllocateFails, Pool!AllocateFails, Answer, Pool!Answer, Nil, Pool!Nil
    <2>3. ASSUME NEW o \in Addresses, Release(o) PROVE Pool!Release(o)
      BY <2>3 DEF Release, Pool!Release, Answer, Pool!Answer
    <2>4. ASSUME NEW o \in Addresses, ReleaseFails(o) PROVE Pool!ReleaseFails(o)
      <3>1. \A u \in addressUsedTree : u.offset # o
        BY <2>4, PoolAssumption DEF ReleaseFails, Inv, TypeOK, End
      <3> QED
        BY <2>4, <3>1 DEF ReleaseFails, Pool!ReleaseFails, Answer, Pool!Answer, Nil, Pool!Nil
    <2>5. CASE UNCHANGED vars
      BY <2>5 DEF vars, Pool!vars
    <2> QED
      BY <2>1, <2>2, <2>3, <2>4, <2>5 DEF Next, Pool!Next
  <1> QED
    BY <1>1, <1>2, Invariance, PTL DEF Spec, PoolSpec, Pool!Spec
=============================================================================
