------------------------------ MODULE HostPool ------------------------------
(***************************************************************************)
(* What callers of the DRAM pool rely on, stated on bytes and without any  *)
(* tree: an allocation owns an aligned range that no other live allocation *)
(* touches, it is refused only when no run of free bytes is long enough or *)
(* there is no memory at all, and only the exact address of a live         *)
(* allocation can be released.                                             *)
(***************************************************************************)
EXTENDS Integers

CONSTANTS
  PoolSize,  \* bytes managed
  Align,     \* allocation granularity
  HasBase,   \* whether there is memory behind the pool
  Requests,  \* sizes callers may ask for
  Addresses  \* offsets callers may release

Nil == -1  \* a null address, and the error return of Release

VARIABLES
  owned,  \* the live allocations: records [offset, size]
  reply   \* what the last call returned

vars == <<owned, reply>>

AllocatedSizeAlignUp(n) == ((n + Align - 1) \div Align) * Align

MemoryRange(o, s) == [offset |-> o, size |-> s]

Holds(r, b) == r.offset <= b /\ b < r.offset + r.size

Free(b) == \A r \in owned : ~Holds(r, b)

\* The n bytes from offset o on lie in the pool and nobody owns one of them.
FreeRun(o, n) ==
  /\ o \in Nat
  /\ o + n <= PoolSize
  /\ \A b \in o .. (o + n - 1) : Free(b)

Answer(op, arg, res) == reply' = [op |-> op, arg |-> arg, res |-> res]

Init ==
  /\ owned = {}
  /\ reply = [op |-> "none", arg |-> Nil, res |-> Nil]

Allocate(size) ==
  /\ size > 0 /\ size <= PoolSize /\ HasBase
  /\ \E o \in 0 .. PoolSize :
       /\ o % Align = 0
       /\ FreeRun(o, AllocatedSizeAlignUp(size))
       /\ owned' = owned \cup {MemoryRange(o, AllocatedSizeAlignUp(size))}
       /\ Answer("alloc", size, o)

AllocateFails(size) ==
  /\ (size > 0 /\ size <= PoolSize /\ HasBase) =>
       \A o \in 0 .. PoolSize : ~FreeRun(o, AllocatedSizeAlignUp(size))
  /\ Answer("alloc", size, Nil)
  /\ UNCHANGED owned

Release(o) ==
  /\ \E r \in owned : r.offset = o /\ owned' = owned \ {r}
  /\ Answer("free", o, 0)

ReleaseFails(o) ==
  /\ \A r \in owned : r.offset # o
  /\ Answer("free", o, Nil)
  /\ UNCHANGED owned

Next ==
  \/ \E size \in Requests : Allocate(size) \/ AllocateFails(size)
  \/ \E o \in Addresses : Release(o) \/ ReleaseFails(o)

Spec == Init /\ [][Next]_vars
=============================================================================
