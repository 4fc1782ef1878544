--------------------------- MODULE OffloadPipeline --------------------------
(***************************************************************************)
(* One decode step after another on one row: LRU Compact picks slots,      *)
(* ResidentAddrs turns its misses into descriptors, sparse copy's cores    *)
(* carry them out in any order, the attention reads.  The operators are    *)
(* queued on one stream, so each starts when the one before has ended.     *)
(*                                                                         *)
(* Compact is the reference of LruReference, which the kernels of          *)
(* LruPhased and LruFusedV3 compute; descriptors and cores are those of    *)
(* ResidentAddrs and SparseCopy, taken by what those modules establish.    *)
(***************************************************************************)
EXTENDS LruReference

CONSTANTS
  Reqs, NoOwner,
  TopKLists,   \* the top-k lists
  MaxVersion,  \* bound: how often a token is rewritten
  Rewritten    \* bound: the <<request, token>> that are

VARIABLES
  host, dirty,  \* the host pool and what it has rewritten, as in ResidentCache
  row,          \* last_req_ids, slot_to_token, lru_slots
  plan,         \* current_slots and the misses of the running step
  topk,         \* its top-k list
  descs,        \* descriptors not yet copied
  data,         \* by side and slot: the resident buffers
  stage

vars == <<host, dirty, row, plan, topk, descs, data, stage>>

Sides == {"K", "V"}
NoPlan == [missCount |-> 0]
Nothing == [req |-> NoOwner, token |-> Invalid, version |-> 0]

Init ==
  /\ host = [r \in Reqs |-> [t \in Tokens |-> 0]]
  /\ dirty = [r \in Reqs |-> MaxToken]
  /\ row = FreshRow(NoOwner)
  /\ plan = NoPlan /\ topk = <<>> /\ descs = {}
  /\ data = [x \in Sides |-> [s \in Slots |-> Nothing]]
  /\ stage = "idle"

\* The host rewrites a token while no step of the row is running.
Rewrite(r, t) ==
  /\ stage = "idle" /\ host[r][t] < MaxVersion
  /\ host' = [host EXCEPT ![r][t] = @ + 1]
  /\ dirty' = [dirty EXCEPT ![r] = Min({@, t})]
  /\ UNCHANGED <<row, plan, topk, descs, data, stage>>

\* The prefixes the host may announce.
Announced(r) == 0 .. dirty[r]

LruCompact(r) ==
  /\ stage = "idle"
  /\ \E list \in TopKLists, prefix \in Announced(r) :
       LET c == Compact(row, r, list, prefix)
       IN  /\ row' = [lastReq |-> c.lastReq, slotToToken |-> c.slotToToken, lru |-> c.lru]
           /\ plan' = [current |-> c.current, missCount |-> c.missCount,
                       missTokens |-> c.missTokens, missSlots |-> c.missSlots]
           /\ topk' = list
  /\ dirty' = [dirty EXCEPT ![r] = MaxToken]
  /\ stage' = "addrs"
  /\ UNCHANGED <<host, descs, data>>

\* Mutant: values are copied to where the keys of the next miss go.
DescsShifted ==
  {[side |-> "K", token |-> plan.missTokens[i], slot |-> plan.missSlots[i]] :
     i \in 0 .. plan.missCount - 1}
    \cup {[side |-> "V", token |-> plan.missTokens[i],
           slot |-> plan.missSlots[(i + 1) % plan.missCount]] : i \in 0 .. plan.missCount - 1}

Descs ==
  {[side |-> x, token |-> plan.missTokens[i], slot |-> plan.missSlots[i]] :
     x \in Sides, i \in 0 .. plan.missCount - 1}

ComputeLruResidentAddrs ==
  /\ stage = "addrs"
  /\ descs' = Descs
  /\ stage' = "copy"
  /\ UNCHANGED <<host, dirty, row, plan, topk, data>>

\* A core copies one descriptor.
CopyOne(d) ==
  /\ stage = "copy" /\ d \in descs
  /\ data' = [data EXCEPT ![d.side][d.slot] =
       [req |-> row.lastReq, token |-> d.token, version |-> host[row.lastReq][d.token]]]
  /\ descs' = descs \ {d}
  /\ UNCHANGED <<host, dirty, row, plan, topk, stage>>

\* The copies are done; the attention reads, and the step ends.
Attend ==
  /\ stage = "copy" /\ descs = {}
  /\ stage' = "idle" /\ plan' = NoPlan /\ topk' = <<>>
  /\ UNCHANGED <<host, dirty, row, descs, data>>

Next ==
  \/ \E rt \in Rewritten : Rewrite(rt[1], rt[2])
  \/ \E r \in Reqs : LruCompact(r)
  \/ ComputeLruResidentAddrs
  \/ \E d \in descs : CopyOne(d)
  \/ Attend

Spec == Init /\ [][Next]_vars

-----------------------------------------------------------------------------
\* What the attention reads for a position is the current version of the token
\* it asked for, keys and values, of its own request.
ReadsCurrent ==
  (stage = "copy" /\ descs = {}) =>
    \A p \in Positions : plan.current[p] # Invalid =>
      \A x \in Sides :
        data[x][plan.current[p]] =
          [req |-> row.lastReq, token |-> topk[p], version |-> host[row.lastReq][topk[p]]]

\* The pipeline implements the cache it is meant to be.
Pending ==
  IF stage = "addrs" THEN {<<x, plan.missSlots[i]>> : x \in Sides, i \in 0 .. plan.missCount - 1}
  ELSE {<<d.side, d.slot>> : d \in descs}

Cache == INSTANCE ResidentCache WITH
  owner <- row.lastReq, holds <- row.slotToToken, pending <- Pending

CacheSpec == Cache!Spec

\* Once the copies of a step are done, every slot that slot_to_token says holds
\* a token the host has not rewritten since holds its current bytes, whether
\* or not the step asked for it: a later hit needs no copy.
Coherent == Cache!Coherent
=============================================================================
