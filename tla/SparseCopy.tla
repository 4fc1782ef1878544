----------------------------- MODULE SparseCopy -----------------------------
(***************************************************************************)
(* The sparse-copy kernel: Cores vector cores share the packed descriptors *)
(* without talking to each other.  Core c takes a consecutive share of the *)
(* keys and the same share of the values; the last one also takes what the *)
(* division leaves over.  A copy longer than the buffer goes through it    *)
(* chunk by chunk.                                                         *)
(***************************************************************************)
EXTENDS Integers

CONSTANTS
  Cores,      \* aivNum_
  MaxTasks,   \* bound: key descriptors of a launch
  Lens,       \* lengths a descriptor may have
  UbOnceSize  \* UB_ONCE_SIZE

ASSUME CopyAssumption ==
  /\ Cores \in Nat \ {0} /\ MaxTasks \in Nat /\ UbOnceSize \in Nat \ {0}
  /\ Lens \subseteq Nat

CoreIds == 0 .. Cores - 1

VARIABLES
  size,    \* size_: key descriptors, half of num_tokens
  lens,    \* by task: its length
  task,    \* by core: the descriptor it is at
  times,   \* by core: chunks of that descriptor already copied
  copied   \* history, by task: the bytes copied so far

vars == <<size, lens, task, times, copied>>

\* Mutant: rounded up, the last core's share is what is left.
PerCoreUp == (size + Cores - 1) \div Cores

PerCore == size \div Cores

KStart(c) == c * PerCore

\* Mutant: nobody takes what the division leaves over.
KEndEven(c) == KStart(c) + PerCore

KEnd(c) == IF c = Cores - 1 THEN KStart(c) + (size - (Cores - 1) * PerCore)
           ELSE KStart(c) + PerCore

VStart(c) == size + KStart(c)

VEnd(c) == size + KEnd(c)

Tasks == 0 .. 2 * size - 1

\* The descriptor a core turns to when it has done with i: the next one of its
\* keys, then its first value.
Settle(c, i) == IF i = KEnd(c) THEN VStart(c) ELSE i

Init ==
  /\ size \in 0 .. MaxTasks
  /\ lens \in [Tasks -> Lens]
  /\ task = [c \in CoreIds |-> Settle(c, KStart(c))]
  /\ times = [c \in CoreIds |-> 0]
  /\ copied = [i \in Tasks |-> 0]

Working(c) == task[c] \in KStart(c) .. KEnd(c) - 1 \/ task[c] \in VStart(c) .. VEnd(c) - 1

Left(c) == lens[task[c]] - times[c] * UbOnceSize

\* Mutant: always a full buffer.
ChunkLenFull(c) == UbOnceSize

ChunkLen(c) == IF Left(c) > UbOnceSize THEN UbOnceSize ELSE Left(c)

\* One chunk of the copy.
Chunk(c) ==
  /\ Working(c) /\ Left(c) > 0
  /\ copied' = [copied EXCEPT ![task[c]] = @ + ChunkLen(c)]
  /\ times' = [times EXCEPT ![c] = @ + 1]
  /\ UNCHANGED <<size, lens, task>>

\* The copy of a descriptor is complete.
Advance(c) ==
  /\ Working(c) /\ Left(c) <= 0
  /\ task' = [task EXCEPT ![c] = Settle(c, @ + 1)]
  /\ times' = [times EXCEPT ![c] = 0]
  /\ UNCHANGED <<size, lens, copied>>

Ended == \A c \in CoreIds : ~Working(c)

Return == Ended /\ UNCHANGED vars

Next == (\E c \in CoreIds : Chunk(c) \/ Advance(c)) \/ Return

Spec == Init /\ [][Next]_vars

-----------------------------------------------------------------------------
\* No byte is copied twice and no core copies beyond a descriptor's end.
NeverTooMuch == \A i \in Tasks : copied[i] <= lens[i]

\* No two cores are ever at the same descriptor.
CoresApart ==
  \A c, d \in CoreIds : (c # d /\ Working(c) /\ Working(d)) => task[c] # task[d]

\* When the kernel ends every descriptor has been copied to its last byte,
\* however few or many there are for the number of cores.
CompleteAtEnd == Ended => \A i \in Tasks : copied[i] = lens[i]
=============================================================================
