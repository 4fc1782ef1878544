------------------------------ MODULE LruPhased -----------------------------
(***************************************************************************)
(* The generic SIMT fallback of LRU Compact: five kernels per request row, *)
(* launched one row after the other on one stream.  The Plan kernel keeps  *)
(* its membership marks and its plan in token_mark and token_pos, scratch  *)
(* arrays that survive from call to call, that rows share (row modulo the  *)
(* number of workspaces) and whose old contents the epoch makes harmless.  *)
(*                                                                         *)
(* Inside a kernel the threads write disjoint elements, so a kernel is one *)
(* step; between kernels everything is in global memory.                   *)
(***************************************************************************)
EXTENDS LruReference, FiniteSets

CONSTANTS
  NumReqs,         \* rows of the batch
  Workspaces,      \* LRU_COMPACT_WORKSPACE_THREADS
  EpochThreshold,  \* LRU_EPOCH_RESET_THRESHOLD
  ReqIds,          \* request ids the rows are used for
  NoReq,           \* the id last_req_ids starts with
  TopKLists,       \* top-k lists the attention may select
  Prefixes         \* stable prefix lengths the host may announce

ASSUME PhasedAssumption ==
  \* CanUseProductionPhasedLru
  /\ NumReqs > 0 /\ TopK > 0 /\ Capacity > 0 /\ MaxToken >= 3
  /\ Capacity <= MaxToken /\ TopK <= MaxToken - 2
  /\ EpochThreshold > 3
  /\ NoReq \notin ReqIds
  /\ TopKLists \subseteq [Positions -> Int]
  /\ Prefixes \subseteq Int

Rows == 0 .. NumReqs - 1

VARIABLES
  rows,   \* last_req_ids, slot_to_token and lru_slots, by row
  out,    \* current_slots, miss_count, miss_tokens and miss_slots, by row
  mark,   \* token_mark, by workspace
  pos,    \* token_pos, by workspace
  epoch,  \* epochs, by workspace
  stage,  \* the kernel that runs next
  cur,    \* the row it runs for
  input,  \* what the running call was given for that row
  before  \* history: the row, and its last current_slots, when the call started

vars == <<rows, out, mark, pos, epoch, stage, cur, input, before>>

ws == cur % Workspaces

EmptyOut ==
  [current    |-> [p \in Positions |-> Invalid],
   missCount  |-> 0,
   missTokens |-> [p \in Positions |-> Invalid],
   missSlots  |-> [p \in Positions |-> Invalid]]

\* Between two rows: no inputs, nothing recorded.
NoInput == [req |-> NoReq]

Init ==
  /\ rows = [r \in Rows |-> FreshRow(NoReq)]
  /\ out = [r \in Rows |-> EmptyOut]
  /\ mark = [w \in 0 .. Workspaces - 1 |-> [t \in Tokens |-> 0]]
  /\ pos = [w \in 0 .. Workspaces - 1 |-> [t \in Tokens |-> 0]]
  /\ epoch = [w \in 0 .. Workspaces - 1 |-> 0]
  /\ stage = "reset"
  /\ cur = 0
  /\ input = NoInput
  /\ before = NoInput

-----------------------------------------------------------------------------
\* The launch of a row, with its inputs, and its first kernel.
Reset ==
  /\ stage = "reset"
  /\ \E req \in ReqIds, topk \in TopKLists, prefix \in Prefixes :
       /\ input' = [req |-> req, topk |-> topk, prefix |-> prefix]
       /\ rows' = IF rows[cur].lastReq = req THEN rows
                  ELSE [rows EXCEPT ![cur] = FreshRow(req)]
  /\ before' = [row |-> rows[cur], current |-> out[cur].current]
  /\ stage' = "prepare"
  /\ UNCHANGED <<out, mark, pos, epoch, cur>>

ClampPrefix(n) == IF n < 0 THEN 0 ELSE IF n > MaxToken THEN MaxToken ELSE n

Prepare ==
  /\ stage = "prepare"
  /\ out' = [out EXCEPT ![cur] = EmptyOut]
  /\ rows' = [rows EXCEPT ![cur].slotToToken =
                [s \in Slots |-> IF @[s] \in Tokens /\ @[s] >= ClampPrefix(input.prefix)
                                 THEN Invalid ELSE @[s]]]
  /\ stage' = "plan"
  /\ UNCHANGED <<mark, pos, epoch, cur, input, before>>

\* Mutant: the epochs are never found to have run out.
EpochSpentNever == epoch[ws] >= -1

\* The marks and the epoch a plan starts from: cleared when the workspace is
\* new or the epochs have run out, kept otherwise.
EpochSpent == epoch[ws] >= -1 \/ epoch[ws] <= 1 - EpochThreshold

\* Mutant: the epoch stays what it was.
NextEpochSame == IF EpochSpent THEN -2 ELSE epoch[ws]

NextEpoch == IF EpochSpent THEN -2 ELSE epoch[ws] - 1

StartMark == IF EpochSpent THEN [t \in Tokens |-> 0] ELSE mark[ws]

StartPos == IF EpochSpent THEN [t \in Tokens |-> Invalid] ELSE pos[ws]

\* token_mark and token_pos after the pass over the top-k list: a token is
\* entered at its first position, unless its mark already is the epoch.
Marked ==
  [t \in Tokens |-> IF t \in Requested(input.topk) THEN NextEpoch ELSE StartMark[t]]

Placed ==
  [t \in Tokens |->
     IF t \in Requested(input.topk) /\ StartMark[t] # NextEpoch
     THEN FirstPos(input.topk, t) ELSE StartPos[t]]

\* Mutant: position 0 is taken for "no position".
IsHitPastZero(s) ==
  s \in Slots /\ rows[cur].slotToToken[s] \in Tokens
    /\ Marked[rows[cur].slotToToken[s]] = NextEpoch /\ Placed[rows[cur].slotToToken[s]] > 0

\* The slot holds a token marked with the epoch.
IsHit(s) ==
  s \in Slots /\ rows[cur].slotToToken[s] \in Tokens
    /\ Marked[rows[cur].slotToToken[s]] = NextEpoch

\* The scan in LRU order overwrites: the last hit on a position stays.
Served ==
  [p \in Positions |->
     LET at == {o \in Slots : IsHit(rows[cur].lru[o])
                              /\ Placed[rows[cur].slotToToken[rows[cur].lru[o]]] = p}
     IN  IF at = {} THEN Invalid ELSE rows[cur].lru[Max(at)]]

Plan ==
  /\ stage = "plan"
  /\ LET order  == AsSeq(rows[cur].lru, Capacity)
         hits   == SelectSeq(order, IsHit)
         evict  == SelectSeq(order, LAMBDA s : s \in Slots /\ ~IsHit(s))
         misses == SelectSeq(AsSeq([p \in Positions |-> p], TopK),
                     LAMBDA p : input.topk[p] \in Tokens /\ Served[p] < 0)
     IN  \* evictable slots from the front, hit slots from the back
         /\ mark' = [mark EXCEPT ![ws] =
              [i \in Tokens |->
                 IF i < Len(evict) THEN evict[i + 1]
                 ELSE IF MaxToken - 1 - i < Len(hits) THEN hits[MaxToken - i]
                 ELSE Marked[i]]]
         \* positions of the misses from the front, two counts at the back
         /\ pos' = [pos EXCEPT ![ws] =
              [i \in Tokens |->
                 IF i = MaxToken - 2 THEN Len(evict)
                 ELSE IF i = MaxToken - 1 THEN Len(hits)
                 ELSE IF i < Len(misses) THEN misses[i + 1]
                 ELSE Placed[i]]]
         /\ out' = [out EXCEPT ![cur].current = Served,
                               ![cur].missTokens =
                                  Padded([i \in DOMAIN misses |-> input.topk[misses[i]]], TopK),
                               ![cur].missCount = Min({Len(misses), Len(evict)})]
         /\ rows' = [rows EXCEPT ![cur].lru =
              [o \in Slots |-> LET s == @[o]
                               IN  IF s \notin Slots THEN Invalid
                                   ELSE IF IsHit(s) THEN -s - 2 ELSE s]]
  /\ epoch' = [epoch EXCEPT ![ws] = NextEpoch]
  /\ stage' = "assign"
  /\ UNCHANGED <<cur, input, before>>

\* Mutant: the last miss is left out.
AssignedButLast ==
  {i \in 0 .. out[cur].missCount - 2 : mark[ws][i] \in Slots /\ pos[ws][i] \in Positions}

\* The misses with a slot and a position in range.
Assigned ==
  {i \in 0 .. out[cur].missCount - 1 : mark[ws][i] \in Slots /\ pos[ws][i] \in Positions}

\* Mutant: entered at the position in the list, not at the number of the miss.
MissSlotsByPosition ==
  [p \in Positions |-> LET by == {i \in Assigned : pos[ws][i] = p}
                       IN  IF by = {} THEN out[cur].missSlots[p] ELSE mark[ws][Max(by)]]

MissSlots ==
  [i \in Positions |-> IF i \in Assigned THEN mark[ws][i] ELSE out[cur].missSlots[i]]

Assign ==
  /\ stage = "assign"
  /\ rows' = [rows EXCEPT ![cur].slotToToken =
       [s \in Slots |->
          LET by == {i \in Assigned : mark[ws][i] = s}
          IN  IF by = {} THEN @[s] ELSE out[cur].missTokens[Max(by)]]]
  /\ out' = [out EXCEPT
       ![cur].current = [p \in Positions |->
          LET by == {i \in Assigned : pos[ws][i] = p}
          IN  IF by = {} THEN @[p] ELSE mark[ws][Max(by)]],
       ![cur].missSlots = MissSlots]
  /\ stage' = "rebuild"
  /\ UNCHANGED <<mark, pos, epoch, cur, input, before>>

unassigned == pos[ws][MaxToken - 2] - out[cur].missCount

\* Mutant: the unassigned evictable slots are read from the front.
NewLruFromFront ==
  [o \in Slots |->
     IF o < unassigned THEN mark[ws][o]
     ELSE IF o < pos[ws][MaxToken - 2] THEN out[cur].missSlots[o - unassigned]
     ELSE mark[ws][MaxToken - 1 - (o - pos[ws][MaxToken - 2])]]

\* Mutant: the copied slots come before the unassigned ones.
NewLruCopiedFirst ==
  [o \in Slots |->
     IF o < out[cur].missCount THEN out[cur].missSlots[o]
     ELSE IF o < pos[ws][MaxToken - 2] THEN mark[ws][o]
     ELSE mark[ws][MaxToken - 1 - (o - pos[ws][MaxToken - 2])]]

\* The new LRU order: unassigned evictable slots, copied slots, hit slots.
NewLru ==
  LET evictable == pos[ws][MaxToken - 2]
      valid     == evictable + pos[ws][MaxToken - 1]
  IN  [o \in Slots |->
         IF o < unassigned THEN mark[ws][out[cur].missCount + o]
         ELSE IF o < evictable THEN out[cur].missSlots[o - unassigned]
         ELSE IF o < valid THEN mark[ws][MaxToken - 1 - (o - evictable)]
         ELSE Invalid]

Rebuild ==
  /\ stage = "rebuild"
  /\ rows' = [rows EXCEPT ![cur].lru = NewLru]
  /\ stage' = "done"
  /\ UNCHANGED <<out, mark, pos, epoch, cur, input, before>>

\* The host moves on to the next row, and after the last one to the next call.
NextRow ==
  /\ stage = "done"
  /\ cur' = (cur + 1) % NumReqs
  /\ stage' = "reset"
  /\ input' = NoInput
  /\ before' = NoInput
  /\ UNCHANGED <<rows, out, mark, pos, epoch>>

Next == Reset \/ Prepare \/ Plan \/ Assign \/ Rebuild \/ NextRow

Spec == Init /\ [][Next]_vars

-----------------------------------------------------------------------------
TypeOK ==
  /\ stage \in {"reset", "prepare", "plan", "assign", "rebuild", "done"}
  /\ cur \in Rows
  /\ \A r \in Rows :
       /\ rows[r].lastReq \in ReqIds \cup {NoReq}
       /\ rows[r].slotToToken \in [Slots -> Tokens \cup {Invalid}]
       /\ rows[r].lru \in [Slots -> -Capacity - 1 .. Capacity - 1]
       /\ out[r].current \in [Positions -> Slots \cup {Invalid}]
       /\ out[r].missCount \in 0 .. TopK
       /\ out[r].missTokens \in [Positions -> Tokens \cup {Invalid}]
       /\ out[r].missSlots \in [Positions -> Slots \cup {Invalid}]
  /\ \A w \in 0 .. Workspaces - 1 :
       epoch[w] \in 1 - EpochThreshold .. 0

Done == stage = "done"

Admitted == Admit(before.row, input.req, input.prefix)

Result == [lastReq    |-> rows[cur].lastReq,      slotToToken |-> rows[cur].slotToToken,
           lru        |-> rows[cur].lru,          current     |-> out[cur].current,
           missCount  |-> out[cur].missCount,     missTokens  |-> out[cur].missTokens,
           missSlots  |-> out[cur].missSlots]

\* Whatever earlier calls and other rows left in token_mark, token_pos and the
\* epoch, the five kernels compute the reference result.
MatchesReference ==
  Done => Result = Compact(before.row, input.req, input.topk, input.prefix)

\* lru_slots of a row that no kernel is working on is a permutation of its
\* slots: no slot is lost to, or duplicated by, the in-place encoding.
LruIsPermutation ==
  \A r \in Rows : (r # cur \/ stage \notin {"assign", "rebuild"}) =>
    {rows[r].lru[o] : o \in Slots} = Slots

\* A position is answered with a slot that slot_to_token gives to its token,
\* and no two positions are answered with the same slot.
AnswersAreResident ==
  Done => \A p \in Positions : out[cur].current[p] # Invalid =>
    /\ rows[cur].slotToToken[out[cur].current[p]] = input.topk[p]
    /\ \A q \in Positions \ {p} : out[cur].current[q] # out[cur].current[p]

\* slot_to_token claims nothing new without a copy: a slot whose token changed
\* is a miss that is handed on with that token.
ChangesAreMisses ==
  Done => \A s \in Slots : rows[cur].slotToToken[s] # Admitted.slotToToken[s] =>
    \E i \in 0 .. out[cur].missCount - 1 :
      out[cur].missSlots[i] = s /\ out[cur].missTokens[i] = rows[cur].slotToToken[s]

\* A requested token that is resident is never evicted to make room for a miss.
HitsSurvive ==
  Done => \A s \in Slots : Admitted.slotToToken[s] \in Requested(input.topk) =>
    rows[cur].slotToToken[s] = Admitted.slotToToken[s]

\* When the list has no duplicates and fits, and no two slots hold the same
\* token, every requested token is served.  (An earlier list with duplicates
\* leaves a token in several slots; all of them are then protected as hits.)
ServesAll ==
  /\ Done
  /\ Cardinality(Requested(input.topk)) = TopK /\ TopK <= Capacity
  /\ \A s, u \in Slots : (s # u /\ Admitted.slotToToken[s] # Invalid) =>
                           Admitted.slotToToken[s] # Admitted.slotToToken[u]
  => \A p \in Positions : out[cur].current[p] # Invalid

\* Lists without duplicates never put a token into two slots of a row, however
\* requests, prefixes and lists alternate.
TokenResidentOnce ==
  \A r \in Rows : \A s, u \in Slots :
    (s # u /\ rows[r].slotToToken[s] # Invalid) =>
       rows[r].slotToToken[s] # rows[r].slotToToken[u]

\* Least recently used: a slot the previous call of the row answered with is
\* taken only when every slot it did not answer with is taken too or hit.
RecentSlotsKept ==
  (Done /\ before.row.lastReq = input.req) =>
    LET used  == {before.current[p] : p \in Positions}
        taken == {out[cur].missSlots[i] : i \in 0 .. out[cur].missCount - 1}
        hit   == {s \in Slots : Admitted.slotToToken[s] \in Requested(input.topk)}
    IN  taken \cap used # {} => Slots \subseteq used \cup taken \cup hit
=============================================================================
