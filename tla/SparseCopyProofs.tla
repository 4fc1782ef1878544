-------------------------- MODULE SparseCopyProofs --------------------------
(***************************************************************************)
(* For every number of cores, descriptors, lengths and buffer size: the    *)
(* shares of the cores partition the descriptors, so each is copied by one *)
(* core, to the end and not beyond.                                        *)
(***************************************************************************)
EXTENDS SparseCopy, TLAPS

\* The descriptors of core c.
Mine(c) == (KStart(c) .. KEnd(c) - 1) \cup (VStart(c) .. VEnd(c) - 1)

TypeInv ==
  /\ size \in Nat
  /\ lens \in [Tasks -> Nat]
  /\ task \in [CoreIds -> Nat]
  /\ times \in [CoreIds -> Nat]
  /\ copied \in [Tasks -> Nat]

\* A core is at one of its descriptors, or past its last one.
Placed == \A c \in CoreIds : task[c] \in Mine(c) \/ task[c] = VEnd(c)

\* A core's descriptors behind it are complete, those ahead untouched, and the
\* one it is at has had "times" full chunks, or all of it.
Progress ==
  \A c \in CoreIds : \A i \in Mine(c) :
    /\ i < task[c] => copied[i] = lens[i]
    /\ i = task[c] => copied[i] = IF Left(c) > 0 THEN times[c] * UbOnceSize ELSE lens[i]
    /\ i > task[c] => copied[i] = 0

IInv == TypeInv /\ Placed /\ Progress

-----------------------------------------------------------------------------
\* Division: a share times the number of cores is at most the whole.
LEMMA ShareFits ==
  ASSUME size \in Nat
  PROVE  PerCore \in Nat /\ Cores * PerCore <= size
<1>1. Cores \in Nat /\ Cores > 0
  BY CopyAssumption
<1> QED
  BY <1>1, SMT DEF PerCore

\* Products of core numbers and shares are ordered like the core numbers.
LEMMA MulMono ==
  ASSUME NEW a \in Nat, NEW b \in Nat, NEW p \in Nat, a < b
  PROVE  a * p \in Nat /\ b * p \in Nat /\ a * p + p <= b * p
<1>1. PICK k \in Nat : b = a + 1 + k
  <2>1. b - a - 1 \in Nat /\ b = a + 1 + (b - a - 1)
    OBVIOUS
  <2> QED
    BY <2>1
<1>2. b * p = a * p + p + k * p /\ k * p \in Nat
  BY <1>1
<1> QED
  BY <1>2

\* The shares are consecutive and end at size.
LEMMA Shares ==
  ASSUME size \in Nat, NEW c \in CoreIds
  PROVE  /\ KStart(c) \in Nat /\ KEnd(c) \in Nat
         /\ KStart(c) <= KEnd(c) /\ KEnd(c) <= size
         /\ VStart(c) = size + KStart(c) /\ VEnd(c) = size + KEnd(c)
         /\ \A d \in CoreIds : c < d => KEnd(c) <= KStart(d)
<1> DEFINE p == PerCore
<1>1. Cores \in Nat \ {0} /\ c \in Nat /\ c <= Cores - 1 /\ Cores - 1 \in Nat
  BY CopyAssumption DEF CoreIds
<1>2. p \in Nat /\ Cores * p <= size
  BY ShareFits
<1>3. Cores * p = (Cores - 1) * p + p /\ (Cores - 1) * p \in Nat
  BY <1>1, <1>2
<1>4. c * p \in Nat
  BY <1>1, <1>2
<1>5. c < Cores - 1 => c * p + p <= (Cores - 1) * p
  BY <1>1, <1>2, MulMono
<1>6. \A d \in CoreIds : c < d => c # Cores - 1 /\ c * p + p <= d * p
  BY <1>1, <1>2, MulMono DEF CoreIds
<1>7. KStart(c) = c * p /\ \A d \in CoreIds : KStart(d) = d * p
  BY DEF KStart
<1>8. c = Cores - 1 => KEnd(c) = size
  BY <1>2, <1>3, <1>7 DEF KEnd
<1>9. c # Cores - 1 => KEnd(c) = c * p + p
  BY <1>7 DEF KEnd
<1> HIDE DEF p
<1> QED
  BY <1>1, <1>2, <1>3, <1>4, <1>5, <1>6, <1>7, <1>8, <1>9 DEF VStart, VEnd

\* No descriptor has two owners.
LEMMA OwnersApart ==
  ASSUME size \in Nat, NEW c \in CoreIds, NEW d \in CoreIds, c # d
  PROVE  Mine(c) \cap Mine(d) = {}
<1>1. c \in Int /\ d \in Int /\ (c < d \/ d < c)
  BY CopyAssumption DEF CoreIds
<1>2. /\ KStart(c) \in Nat /\ KEnd(c) \in Nat /\ KEnd(c) <= size
      /\ VStart(c) = size + KStart(c) /\ VEnd(c) = size + KEnd(c)
      /\ c < d => KEnd(c) <= KStart(d)
  BY Shares
<1>3. /\ KStart(d) \in Nat /\ KEnd(d) \in Nat /\ KEnd(d) <= size
      /\ VStart(d) = size + KStart(d) /\ VEnd(d) = size + KEnd(d)
      /\ d < c => KEnd(d) <= KStart(c)
  BY Shares
<1> QED
  BY <1>1, <1>2, <1>3 DEF Mine

\* Every key has an owner.
LEMMA KeyOwned ==
  ASSUME size \in Nat, NEW i \in Nat, i < size
  PROVE  \E c \in CoreIds : KStart(c) <= i /\ i < KEnd(c)
<1> DEFINE p == PerCore
<1>1. Cores \in Nat \ {0} /\ Cores - 1 \in Nat /\ Cores - 1 \in CoreIds
  BY CopyAssumption DEF CoreIds
<1>2. p \in Nat
  BY ShareFits
<1>3. CASE i >= (Cores - 1) * p
  <2>1. KStart(Cores - 1) = (Cores - 1) * p /\ (Cores - 1) * p \in Nat
    BY <1>1, <1>2 DEF KStart
  <2>2. KEnd(Cores - 1) = size
    BY <2>1, <1>2 DEF KEnd
  <2> QED
    BY <1>1, <1>3, <2>1, <2>2
<1>4. CASE i < (Cores - 1) * p
  <2>1. p > 0
    BY <1>1, <1>2, <1>4
  <2> DEFINE c == i \div p
  <2>2. c \in Nat /\ c * p <= i /\ i < c * p + p
    BY <1>2, <2>1, SMT
  <2>3. c < Cores - 1
    <3>1. SUFFICES ASSUME ~(c < Cores - 1) PROVE FALSE
      OBVIOUS
    <3>2. c = Cores - 1 \/ (Cores - 1) * p + p <= c * p
      <4> HIDE DEF c, p
      <4>1. c = Cores - 1 \/ Cores - 1 < c
        BY <3>1, <1>1, <2>2
      <4> QED
        BY <4>1, <1>1, <1>2, <2>2, MulMono
    <3>3. (Cores - 1) * p \in Nat /\ c * p \in Nat
      BY <1>1, <1>2, <2>2
    <3> HIDE DEF c, p
    <3> QED
      BY <3>2, <3>3, <2>2, <1>2, <1>4
  <2>4. c \in CoreIds /\ c # Cores - 1
    BY <1>1, <2>2, <2>3 DEF CoreIds
  <2>5. KStart(c) = c * p /\ KEnd(c) = c * p + p
    BY <2>4 DEF KStart, KEnd
  <2> HIDE DEF c, p
  <2> QED
    BY <2>2, <2>4, <2>5
<1>5. i >= (Cores - 1) * p \/ i < (Cores - 1) * p
  <2>1. (Cores - 1) * p \in Nat
    BY <1>1, <1>2
  <2> HIDE DEF p
  <2> QED
    BY <2>1
<1> QED
  BY <1>3, <1>4, <1>5

\* Every descriptor has an owner.
LEMMA Owned ==
  ASSUME size \in Nat, NEW i \in Tasks
  PROVE  \E c \in CoreIds : i \in Mine(c)
<1>1. CASE i < size
  <2>1. PICK c \in CoreIds : KStart(c) <= i /\ i < KEnd(c)
    BY <1>1, KeyOwned DEF Tasks
  <2>2. KStart(c) \in Nat /\ KEnd(c) \in Nat
    BY Shares
  <2> QED
    BY <2>1, <2>2 DEF Mine, Tasks
<1>2. CASE i >= size
  <2>1. i - size \in Nat /\ i - size < size
    BY <1>2 DEF Tasks
  <2>2. PICK c \in CoreIds : KStart(c) <= i - size /\ i - size < KEnd(c)
    BY <2>1, KeyOwned
  <2>3. /\ KStart(c) \in Nat /\ KEnd(c) \in Nat
        /\ VStart(c) = size + KStart(c) /\ VEnd(c) = size + KEnd(c)
    BY Shares
  <2>4. i \in VStart(c) .. VEnd(c) - 1
    BY <2>2, <2>3 DEF Tasks
  <2> QED
    BY <2>4 DEF Mine
<1> QED
  BY <1>1, <1>2 DEF Tasks

-----------------------------------------------------------------------------
\* Where a core turns next: to one of its descriptors, or past its last one;
\* and it has skipped none of them.
LEMMA SettleNext ==
  ASSUME size \in Nat, NEW c \in CoreIds, NEW i \in Nat,
         i \in KStart(c) .. KEnd(c) \/ i \in VStart(c) .. VEnd(c)
  PROVE  /\ Settle(c, i) \in Nat
         /\ Settle(c, i) \in Mine(c) \/ Settle(c, i) = VEnd(c)
         /\ Settle(c, i) >= i
         /\ \A j \in Mine(c) : j < i \/ j >= Settle(c, i)
<1>1. /\ KStart(c) \in Nat /\ KEnd(c) \in Nat
      /\ KStart(c) <= KEnd(c) /\ KEnd(c) <= size
      /\ VStart(c) = size + KStart(c) /\ VEnd(c) = size + KEnd(c)
  BY Shares
<1> QED
  BY <1>1 DEF Settle, Mine

LEMMA MineTasks ==
  ASSUME size \in Nat, NEW c \in CoreIds
  PROVE  Mine(c) \subseteq Tasks
<1>1. /\ KStart(c) \in Nat /\ KEnd(c) \in Nat /\ KEnd(c) <= size
      /\ VStart(c) = size + KStart(c) /\ VEnd(c) = size + KEnd(c)
  BY Shares
<1> QED
  BY <1>1 DEF Mine, Tasks

LEMMA InitInv == Init => IInv
<1> SUFFICES ASSUME Init PROVE IInv
  OBVIOUS
<1>1. size \in Nat /\ UbOnceSize \in Nat \ {0} /\ Lens \subseteq Nat
  BY CopyAssumption DEF Init
<1>2. ASSUME NEW c \in CoreIds
      PROVE  /\ task[c] \in Nat
             /\ task[c] \in Mine(c) \/ task[c] = VEnd(c)
             /\ \A j \in Mine(c) : j >= task[c]
  <2>1. KStart(c) \in Nat /\ KStart(c) \in KStart(c) .. KEnd(c) /\ size \in Nat
    BY <1>1, Shares
  <2>2. \A j \in Mine(c) : j >= KStart(c) /\ j \in Int
    BY <1>1, Shares DEF Mine
  <2>3. task[c] = Settle(c, KStart(c))
    BY DEF Init
  <2> QED
    BY <1>1, <2>1, <2>2, <2>3, SettleNext
<1>3. TypeInv
  <2>1. lens \in [Tasks -> Nat] /\ copied \in [Tasks -> Nat] /\ times \in [CoreIds -> Nat]
    BY <1>1 DEF Init
  <2>2. task \in [CoreIds -> Nat]
    BY <1>2 DEF Init
  <2> QED
    BY <1>1, <2>1, <2>2 DEF TypeInv
<1>4. Placed
  BY <1>2 DEF Placed
<1>5. Progress
  <2> SUFFICES ASSUME NEW c \in CoreIds, NEW i \in Mine(c)
               PROVE  /\ i < task[c] => copied[i] = lens[i]
                      /\ i = task[c] => copied[i] =
                           IF Left(c) > 0 THEN times[c] * UbOnceSize ELSE lens[i]
                      /\ i > task[c] => copied[i] = 0
    BY DEF Progress
  <2>1. i \in Tasks /\ i \in Int
    BY <1>1, MineTasks DEF Tasks
  <2>2. i >= task[c] /\ task[c] \in Nat
    BY <1>2
  <2>3. copied[i] = 0 /\ times[c] = 0 /\ lens[i] \in Nat
    BY <1>3, <2>1 DEF Init, TypeInv
  <2>4. i = task[c] => Left(c) = lens[i]
    BY <1>1, <2>3 DEF Left
  <2>5. times[c] * UbOnceSize = 0
    BY <1>1, <2>3
  <2> QED
    BY <2>1, <2>2, <2>3, <2>4, <2>5
<1> QED
  BY <1>3, <1>4, <1>5 DEF IInv

LEMMA ChunkInv ==
  ASSUME IInv, NEW c \in CoreIds, Chunk(c)
  PROVE  IInv'
<1> DEFINE k == task[c]
           n == IF Left(c) > UbOnceSize THEN UbOnceSize ELSE Left(c)
<1>1. /\ size \in Nat /\ lens \in [Tasks -> Nat] /\ task \in [CoreIds -> Nat]
      /\ times \in [CoreIds -> Nat] /\ copied \in [Tasks -> Nat]
      /\ UbOnceSize \in Nat /\ UbOnceSize > 0
  BY CopyAssumption DEF IInv, TypeInv
<1>2. k \in Mine(c) /\ k \in Tasks /\ Left(c) > 0
  BY <1>1, MineTasks DEF Chunk, Working, Mine
<1>3. Left(c) = lens[k] - times[c] * UbOnceSize /\ times[c] * UbOnceSize \in Nat
      /\ lens[k] \in Nat
  BY <1>1, <1>2 DEF Left
<1>4. copied[k] = times[c] * UbOnceSize
  BY <1>1, <1>2 DEF IInv, Progress, Tasks
<1>5. size' = size /\ lens' = lens /\ task' = task
  BY DEF Chunk
<1>6. copied' = [copied EXCEPT ![k] = @ + n] /\ times' = [times EXCEPT ![c] = @ + 1]
  BY DEF Chunk, ChunkLen
<1>7. n \in Nat
  BY <1>1, <1>3, <1>2
<1>8. \A d \in CoreIds : Mine(d)' = Mine(d) /\ VEnd(d)' = VEnd(d)
  BY <1>5 DEF Mine, KStart, KEnd, VStart, VEnd, PerCore
<1>9. Tasks' = Tasks
  BY <1>5 DEF Tasks
<1>10. TypeInv'
  <2>1. copied' \in [Tasks -> Nat]
    <3> HIDE DEF n, k
    <3> QED
      BY <1>1, <1>2, <1>6, <1>7
  <2>2. times' \in [CoreIds -> Nat]
    BY <1>1, <1>6
  <2> QED
    BY <1>1, <1>5, <1>9, <2>1, <2>2 DEF TypeInv
<1>11. Placed'
  BY <1>5, <1>8 DEF IInv, Placed
<1>12. Progress'
  <2> SUFFICES ASSUME NEW d \in CoreIds, NEW i \in Mine(d)
               PROVE  /\ i < task[d] => copied'[i] = lens[i]
                      /\ i = task[d] => copied'[i] =
                           IF Left(d)' > 0 THEN times'[d] * UbOnceSize ELSE lens[i]
                      /\ i > task[d] => copied'[i] = 0
    BY <1>5, <1>8 DEF Progress
  <2>1. CASE d # c
    <3>1. i # k
      BY <1>1, <1>2, <2>1, OwnersApart
    <3>2. i \in Tasks
      BY <1>1, MineTasks
    <3>3. copied'[i] = copied[i] /\ times'[d] = times[d] /\ Left(d)' = Left(d)
      BY <1>1, <1>5, <1>6, <2>1, <3>1, <3>2 DEF Left
    <3> QED
      BY <3>3 DEF IInv, Progress
  <2>2. CASE d = c
    <3>1. i \in Tasks /\ i \in Int /\ k \in Int
      BY <1>1, <1>2, MineTasks DEF Tasks
    <3>2. CASE i # k
      <4>1. copied'[i] = copied[i]
        BY <1>1, <1>6, <3>1, <3>2
      <4> QED
        BY <2>2, <3>2, <4>1 DEF IInv, Progress
    <3>3. CASE i = k
      <4>1. copied'[i] = times[c] * UbOnceSize + n
        BY <1>1, <1>2, <1>4, <1>6, <3>3
      <4>2. times'[c] = times[c] + 1 /\ times[c] \in Nat
        BY <1>1, <1>6
      <4>3. times'[c] * UbOnceSize = times[c] * UbOnceSize + UbOnceSize
        BY <1>1, <4>2
      <4>4. Left(c)' = Left(c) - UbOnceSize
        BY <1>1, <1>3, <1>5, <4>3 DEF Left
      <4>5. i = task[c] /\ ~(i < task[c]) /\ ~(i > task[c])
        BY <3>1, <3>3
      <4>6. CASE Left(c) > UbOnceSize
        BY <1>1, <1>2, <1>3, <2>2, <3>3, <4>1, <4>3, <4>4, <4>5, <4>6
      <4>7. CASE Left(c) <= UbOnceSize
        BY <1>1, <1>2, <1>3, <2>2, <3>3, <4>1, <4>3, <4>4, <4>5, <4>7
      <4> QED
        BY <1>1, <1>3, <4>6, <4>7
    <3> QED
      BY <3>2, <3>3
  <2> QED
    BY <2>1, <2>2
<1> QED
  BY <1>10, <1>11, <1>12 DEF IInv

LEMMA AdvanceInv ==
  ASSUME IInv, NEW c \in CoreIds, Advance(c)
  PROVE  IInv'
<1> DEFINE k == task[c]
           s == Settle(c, k + 1)
<1>1. /\ size \in Nat /\ lens \in [Tasks -> Nat] /\ task \in [CoreIds -> Nat]
      /\ times \in [CoreIds -> Nat] /\ copied \in [Tasks -> Nat]
      /\ UbOnceSize \in Nat /\ UbOnceSize > 0
  BY CopyAssumption DEF IInv, TypeInv
<1>2. k \in Mine(c) /\ k \in Tasks /\ k \in Nat /\ ~(Left(c) > 0)
  <2>1. k \in Mine(c) /\ k \in Nat /\ Left(c) <= 0
    BY <1>1 DEF Advance, Working, Mine
  <2>2. k \in Tasks
    BY <1>1, <2>1, MineTasks
  <2>3. Left(c) \in Int
    BY <1>1, <2>2 DEF Left
  <2> QED
    BY <2>1, <2>2, <2>3
<1>3. copied[k] = lens[k]
  BY <1>2 DEF IInv, Progress
<1>4. size' = size /\ lens' = lens /\ copied' = copied
  BY DEF Advance
<1>5. task' = [task EXCEPT ![c] = s] /\ times' = [times EXCEPT ![c] = 0]
  BY DEF Advance
<1>6. /\ s \in Nat /\ (s \in Mine(c) \/ s = VEnd(c)) /\ s >= k + 1
      /\ \A j \in Mine(c) : j < k + 1 \/ j >= s
  <2>1. /\ KStart(c) \in Nat /\ KEnd(c) \in Nat
        /\ VStart(c) = size + KStart(c) /\ VEnd(c) = size + KEnd(c)
    BY <1>1, Shares
  <2>2. k + 1 \in Nat /\ (k + 1 \in KStart(c) .. KEnd(c) \/ k + 1 \in VStart(c) .. VEnd(c))
    BY <1>2, <2>1, <1>1 DEF Mine
  <2> QED
    BY <1>1, <2>2, SettleNext
<1>7. \A d \in CoreIds : Mine(d)' = Mine(d) /\ VEnd(d)' = VEnd(d)
  BY <1>4 DEF Mine, KStart, KEnd, VStart, VEnd, PerCore
<1>8. Tasks' = Tasks
  BY <1>4 DEF Tasks
<1> HIDE DEF s
<1>9. TypeInv'
  BY <1>1, <1>4, <1>5, <1>6, <1>8 DEF TypeInv
<1>10. Placed'
  BY <1>1, <1>5, <1>6, <1>7 DEF IInv, Placed
<1>11. Progress'
  <2> SUFFICES ASSUME NEW d \in CoreIds, NEW i \in Mine(d)
               PROVE  /\ i < task'[d] => copied[i] = lens[i]
                      /\ i = task'[d] => copied[i] =
                           IF Left(d)' > 0 THEN times'[d] * UbOnceSize ELSE lens[i]
                      /\ i > task'[d] => copied[i] = 0
    BY <1>4, <1>7 DEF Progress
  <2>1. CASE d # c
    <3>1. task'[d] = task[d] /\ times'[d] = times[d] /\ Left(d)' = Left(d)
      BY <1>1, <1>4, <1>5, <2>1 DEF Left
    <3> QED
      BY <3>1 DEF IInv, Progress
  <2>2. CASE d = c
    <3>1. i \in Tasks /\ i \in Int
      BY <1>1, MineTasks DEF Tasks
    <3>2. task'[c] = s /\ times'[c] = 0
      BY <1>1, <1>5
    <3>3. i < s => copied[i] = lens[i]
      <4>1. i < s => i < k \/ i = k
        BY <1>2, <1>6, <2>2, <3>1
      <4> QED
        BY <4>1, <1>3, <2>2 DEF IInv, Progress
    <3>4. i >= s => copied[i] = 0
      <4>1. i >= s => i > k
        BY <1>2, <1>6, <3>1
      <4> QED
        BY <4>1, <2>2 DEF IInv, Progress
    <3>5. i = s => Left(c)' = lens[i] /\ times'[c] * UbOnceSize = 0 /\ lens[i] \in Nat
      <4>1. times'[c] * UbOnceSize = 0
        BY <1>1, <3>2
      <4>2. i = s => Left(c)' = lens[i] - 0
        BY <1>4, <3>2, <4>1 DEF Left
      <4> QED
        BY <1>1, <3>1, <4>1, <4>2
    <3> QED
      BY <1>6, <2>2, <3>1, <3>2, <3>3, <3>4, <3>5
  <2> QED
    BY <2>1, <2>2
<1> QED
  BY <1>9, <1>10, <1>11 DEF IInv

\* The inductive invariant of the kernel.
THEOREM Invariance == Spec => []IInv
<1>1. Init => IInv
  BY InitInv
<1>2. IInv /\ [Next]_vars => IInv'
  <2> SUFFICES ASSUME IInv, [Next]_vars PROVE IInv'
    OBVIOUS
  <2>1. ASSUME NEW c \in CoreIds, Chunk(c) PROVE IInv'
    BY <2>1, ChunkInv
  <2>2. ASSUME NEW c \in CoreIds, Advance(c) PROVE IInv'
    BY <2>2, AdvanceInv
  <2>3. CASE UNCHANGED vars
    BY <2>3 DEF vars, IInv, TypeInv, Placed, Progress, Mine, Tasks, KStart, KEnd, VStart, VEnd,
                PerCore, Left
  <2> QED
    BY <2>1, <2>2, <2>3 DEF Next, Return
<1> QED
  BY <1>1, <1>2, PTL DEF Spec

\* Whatever the number of descriptors and cores, two cores never work on the
\* same descriptor.
THEOREM Apart == Spec => []CoresApart
<1>1. IInv => CoresApart
  <2> SUFFICES ASSUME IInv, NEW c \in CoreIds, NEW d \in CoreIds, c # d, Working(c), Working(d)
               PROVE  task[c] # task[d]
    BY DEF CoresApart
  <2>1. task[c] \in Mine(c) /\ task[d] \in Mine(d)
    BY DEF Working, Mine
  <2> QED
    BY <2>1, OwnersApart DEF IInv, TypeInv
<1> QED
  BY <1>1, Invariance, PTL

\* When all cores have stopped, every byte of every descriptor is copied.
THEOREM Complete == Spec => []CompleteAtEnd
<1>1. IInv => CompleteAtEnd
  <2> SUFFICES ASSUME IInv, Ended, NEW i \in Tasks PROVE copied[i] = lens[i]
    BY DEF CompleteAtEnd
  <2>1. size \in Nat
    BY DEF IInv, TypeInv
  <2>2. PICK c \in CoreIds : i \in Mine(c)
    BY <2>1, Owned
  <2>3. task[c] \notin Mine(c)
    BY DEF Ended, Working, Mine
  <2>4. task[c] = VEnd(c)
    BY <2>3 DEF IInv, Placed
  <2>5. i < VEnd(c)
    <3>1. /\ KStart(c) \in Nat /\ KEnd(c) \in Nat /\ KEnd(c) <= size
          /\ VStart(c) = size + KStart(c) /\ VEnd(c) = size + KEnd(c)
      BY <2>1, Shares
    <3> QED
      BY <2>1, <2>2, <3>1 DEF Mine
  <2> QED
    BY <2>2, <2>4, <2>5 DEF IInv, Progress
<1> QED
  BY <1>1, Invariance, PTL

\* No core copies a byte twice or beyond a descriptor's end.
THEOREM Bounded == Spec => []NeverTooMuch
<1>1. IInv => NeverTooMuch
  <2> SUFFICES ASSUME IInv, NEW i \in Tasks PROVE copied[i] <= lens[i]
    BY DEF NeverTooMuch
  <2>1. /\ size \in Nat /\ lens[i] \in Nat /\ copied[i] \in Nat /\ i \in Int
        /\ task \in [CoreIds -> Nat] /\ times \in [CoreIds -> Nat]
        /\ UbOnceSize \in Nat
    BY CopyAssumption DEF IInv, TypeInv, Tasks
  <2>2. PICK c \in CoreIds : i \in Mine(c)
    BY <2>1, Owned
  <2>3. /\ i < task[c] => copied[i] = lens[i]
        /\ i = task[c] => copied[i] = IF Left(c) > 0 THEN times[c] * UbOnceSize ELSE lens[i]
        /\ i > task[c] => copied[i] = 0
    BY <2>2 DEF IInv, Progress
  <2>4. i = task[c] => Left(c) = lens[i] - times[c] * UbOnceSize
    BY DEF Left
  <2>5. times[c] * UbOnceSize \in Nat /\ task[c] \in Nat
    BY <2>1, <2>2
  <2> QED
    BY <2>1, <2>3, <2>4, <2>5
<1> QED
  BY <1>1, Invariance, PTL
=============================================================================
