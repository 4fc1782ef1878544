----------------------------- MODULE LruFusedV3 -----------------------------
(***************************************************************************)
(* The fused 1024-lane LRU Compact kernel (V3) on one request row.  All    *)
(* lanes share a workspace in unified buffer (UB); asc_syncthreads cuts    *)
(* the kernel into segments.  Within a segment the lanes run in any order, *)
(* one iteration of a lane's strided loop at a time; the last one to       *)
(* arrive at the barrier opens it (Sync).                                  *)
(*                                                                         *)
(* The two-level warp scan is taken here by what it returns, the inclusive *)
(* prefix counts of the flags the lanes bring to it; WarpScan models how.  *)
(***************************************************************************)
EXTENDS LruReference, FiniteSets

CONSTANTS
  Threads,    \* lanes, LRU_FUSED_V3_THREADS
  ReqIds,     \* request ids the row is used for
  NoReq,      \* the id last_req_ids starts with
  TopKLists,  \* top-k lists the attention may select
  Prefixes,   \* stable prefix lengths the host may announce
  Leftover    \* what uninitialised unified buffer may hold

ASSUME FusedAssumption ==
  /\ Threads > 0 /\ TopK % Threads = 0 /\ Capacity % Threads = 0 /\ MaxToken % Threads = 0
  /\ TopK <= MaxToken - 2 /\ TopK <= Capacity /\ Capacity <= MaxToken
  /\ NoReq \notin ReqIds

Lanes == 0 .. Threads - 1

Epoch == -2  \* LRU_FUSED_V3_EPOCH

VARIABLES
  gm,      \* the row in global memory
  out,     \* current_slots, the misses and the epoch in global memory
  ub,      \* the workspace
  phase,   \* the segment the lanes are in
  tile,    \* its tile, when it is the body of a loop over tiles
  it,      \* by lane: iterations of the segment already done
  base,    \* by lane: the registers evictBase, hitBase and missBase
  input,   \* what the running call was given
  before   \* history: the row when the call started

vars == <<gm, out, ub, phase, tile, it, base, input, before>>

Idle == [req |-> NoReq]

Init ==
  /\ gm = FreshRow(NoReq)
  /\ out = Idle /\ ub = Idle /\ base = Idle /\ input = Idle /\ before = Idle
  /\ phase = "idle" /\ tile = 0
  /\ it = [t \in Lanes |-> 0]

-----------------------------------------------------------------------------
\* The kernel stages the three true inputs; the rest of the buffer holds
\* whatever was there.
Launch ==
  /\ phase = "idle"
  /\ \E req \in ReqIds, topk \in TopKLists, prefix \in Prefixes, x \in Leftover :
       /\ input' = [req |-> req, topk |-> topk, prefix |-> prefix]
       /\ ub' = [slotToToken |-> gm.slotToToken, lru |-> gm.lru,
                 current    |-> [p \in Positions |-> x],
                 missTokens |-> [p \in Positions |-> x],
                 missSlots  |-> [p \in Positions |-> x],
                 mark       |-> [t \in Tokens |-> x],
                 pos        |-> [t \in Tokens |-> x],
                 evictFlag  |-> [t \in Lanes |-> FALSE],
                 hitFlag    |-> [t \in Lanes |-> FALSE],
                 missCount  |-> x, resetRow |-> FALSE, prefix |-> x]
  /\ base' = [t \in Lanes |-> [evict |-> 0, hit |-> 0, miss |-> 0]]
  /\ before' = gm
  /\ phase' = "control"
  /\ UNCHANGED <<gm, out, tile, it>>

\* Lane 0 alone writes the control words.
Control ==
  /\ phase = "control" /\ it[0] = 0
  /\ ub' = [ub EXCEPT !.missCount = 0,
                      !.resetRow = gm.lastReq # input.req,
                      !.prefix = IF input.prefix < 0 THEN 0
                                 ELSE IF input.prefix > MaxToken THEN MaxToken
                                 ELSE input.prefix]
  /\ it' = [it EXCEPT ![0] = 1]
  /\ UNCHANGED <<gm, out, phase, tile, base, input, before>>

\* Lane t takes its next iteration of segment ph, on element i of its loop.
Takes(t, ph, n) ==
  /\ phase = ph /\ it[t] * Threads + t < n
  /\ it' = [it EXCEPT ![t] = @ + 1]
  /\ UNCHANGED <<gm, out, phase, tile, input, before>>

At(t) == it[t] * Threads + t

\* The output arrays and the slots, element by element.
Prepare(t) ==
  /\ Takes(t, "prepare", Capacity)
  /\ LET i == At(t)
         stale == ub.slotToToken[i] \in Tokens /\ ub.slotToToken[i] >= ub.prefix
     IN  ub' = [ub EXCEPT
           !.current    = IF i \in Positions THEN [@ EXCEPT ![i] = Invalid] ELSE @,
           !.missTokens = IF i \in Positions THEN [@ EXCEPT ![i] = Invalid] ELSE @,
           !.missSlots  = IF i \in Positions THEN [@ EXCEPT ![i] = Invalid] ELSE @,
           !.slotToToken[i] = IF ub.resetRow \/ stale THEN Invalid ELSE @,
           !.lru[i]         = IF ub.resetRow THEN i ELSE @]
  /\ UNCHANGED base

\* What the scan returns to lane t, its own flag included.
Scan(flags, t) == Cardinality({u \in 0 .. t : flags[u]})

Flag(b) == IF b THEN 1 ELSE 0

-----------------------------------------------------------------------------
\* A row that changes hands: the misses get the slots 0, 1, 2 ... in order.
FastFlag(t) ==
  /\ Takes(t, "fastFlag", Threads)
  /\ ub' = [ub EXCEPT !.evictFlag[t] = input.topk[tile + t] \in Tokens]
  /\ UNCHANGED base

FastUse(t) ==
  /\ Takes(t, "fastUse", Threads)
  /\ LET p     == tile + t
         valid == ub.evictFlag[t]
         rank  == base[t].miss + Scan(ub.evictFlag, t) - Flag(valid)
     IN  /\ ub' = IF valid /\ rank < Capacity
                  THEN [ub EXCEPT !.current[p] = rank,
                                  !.missTokens[rank] = input.topk[p],
                                  !.missSlots[rank] = rank,
                                  !.slotToToken[rank] = input.topk[p]]
                  ELSE ub
         /\ base' = [base EXCEPT ![t].miss = @ + Scan(ub.evictFlag, Threads - 1)]

FastLru(t) ==
  /\ Takes(t, "fastLru", Capacity)
  /\ LET assigned  == Min({base[t].miss, Capacity})
         remaining == Capacity - assigned
     IN  ub' = [ub EXCEPT
           !.missCount = IF t = 0 THEN assigned ELSE @,
           !.lru[At(t)] = IF At(t) < remaining THEN assigned + At(t) ELSE At(t) - remaining]
  /\ UNCHANGED base

-----------------------------------------------------------------------------
Clear(t) ==
  /\ Takes(t, "clear", MaxToken)
  /\ ub' = [ub EXCEPT !.mark[At(t)] = Invalid, !.pos[At(t)] = TopK]
  /\ UNCHANGED base

\* Mutant: a plain store instead of the atomic minimum.
StorePos(old, p) == p

AtomicMin(old, p) == Min({old, p})

\* The first position of each requested token.
FirstOccurrence(t) ==
  /\ Takes(t, "first", TopK)
  /\ LET token == input.topk[At(t)]
     IN  ub' = IF token \in Tokens
               THEN [ub EXCEPT !.pos[token] = AtomicMin(@, At(t))] ELSE ub
  /\ UNCHANGED base

AtomicMax(old, o) == Max({old, o})

\* Hits are encoded in the LRU order; the last one of each token is elected.
Encode(t) ==
  /\ Takes(t, "encode", Capacity)
  /\ LET o     == At(t)
         slot  == ub.lru[o]
         token == ub.slotToToken[slot]
         hit   == token \in Tokens /\ ub.pos[token] < TopK
     IN  ub' = IF slot \notin Slots THEN [ub EXCEPT !.lru[o] = Invalid]
               ELSE IF ~hit THEN ub
               ELSE [ub EXCEPT !.lru[o] = -slot - 2, !.mark[token] = AtomicMax(@, o)]
  /\ UNCHANGED base

\* The elected slot serves its token's first position.
Serve(t) ==
  /\ Takes(t, "serve", Capacity)
  /\ LET slot  == -ub.lru[At(t)] - 2
         token == ub.slotToToken[slot]
     IN  ub' = IF slot >= 0 /\ ub.mark[token] = At(t)
               THEN [ub EXCEPT !.current[ub.pos[token]] = slot] ELSE ub
  /\ UNCHANGED base

\* Evictable slots to the front of token_mark, hit slots to its back.
LruFlag(t) ==
  /\ Takes(t, "lruFlag", Threads)
  /\ ub' = [ub EXCEPT !.evictFlag[t] = ub.lru[tile + t] \in Slots,
                      !.hitFlag[t] = ub.lru[tile + t] <= -2]
  /\ UNCHANGED base

HitPlace(t) == MaxToken - 1 - base[t].hit - (Scan(ub.hitFlag, t) - 1)

LruUse(t) ==
  /\ Takes(t, "lruUse", Threads)
  /\ LET code  == ub.lru[tile + t]
         place == IF ub.evictFlag[t] THEN base[t].evict + Scan(ub.evictFlag, t) - 1
                  ELSE HitPlace(t)
     IN  ub' = IF ub.evictFlag[t] THEN [ub EXCEPT !.mark[place] = code]
               ELSE IF ub.hitFlag[t] THEN [ub EXCEPT !.mark[place] = -code - 2]
               ELSE ub
  /\ base' = [base EXCEPT ![t].evict = @ + Scan(ub.evictFlag, Threads - 1),
                          ![t].hit   = @ + Scan(ub.hitFlag, Threads - 1)]

IsMiss(p) == input.topk[p] \in Tokens /\ ub.current[p] < 0

\* BlockAny1024: each lane contributes whether one of its positions is a miss.
AnyMiss(t) ==
  /\ Takes(t, "anyMiss", Threads)
  /\ ub' = [ub EXCEPT !.evictFlag[t] = \E p \in Positions : p % Threads = t /\ IsMiss(p)]
  /\ UNCHANGED base

MissFlag(t) ==
  /\ Takes(t, "missFlag", Threads)
  /\ ub' = [ub EXCEPT !.evictFlag[t] = IsMiss(tile + t)]
  /\ UNCHANGED base

MissUse(t) ==
  /\ Takes(t, "missUse", Threads)
  /\ LET place == base[t].miss + Scan(ub.evictFlag, t) - 1
     IN  ub' = IF ub.evictFlag[t]
               THEN [ub EXCEPT !.missTokens[place] = input.topk[tile + t],
                               !.pos[place] = tile + t]
               ELSE ub
  /\ base' = [base EXCEPT ![t].miss = @ + Scan(ub.evictFlag, Threads - 1)]

\* Lane 0 leaves the counts.
Counts ==
  /\ phase = "counts" /\ it[0] = 0
  /\ ub' = [ub EXCEPT !.missCount = Min({base[0].miss, base[0].evict}),
                      !.pos = [@ EXCEPT ![MaxToken - 2] = base[0].evict,
                                        ![MaxToken - 1] = base[0].hit]]
  /\ it' = [it EXCEPT ![0] = 1]
  /\ UNCHANGED <<gm, out, phase, tile, base, input, before>>

Assign(t) ==
  /\ Takes(t, "assign", ub.missCount)
  /\ LET i == At(t)
     IN  ub' = IF ub.mark[i] \in Slots /\ ub.pos[i] \in Positions
               THEN [ub EXCEPT !.slotToToken[ub.mark[i]] = ub.missTokens[i],
                               !.current[ub.pos[i]] = ub.mark[i],
                               !.missSlots[i] = ub.mark[i]]
               ELSE ub
  /\ UNCHANGED base

Rebuild(t) ==
  /\ Takes(t, "rebuild", Capacity)
  /\ LET o          == At(t)
         evictable  == ub.pos[MaxToken - 2]
         unassigned == evictable - ub.missCount
     IN  ub' = [ub EXCEPT !.lru[o] =
           IF o < unassigned THEN ub.mark[ub.missCount + o]
           ELSE IF o < evictable THEN ub.missSlots[o - unassigned]
           ELSE IF o < evictable + ub.pos[MaxToken - 1]
           THEN ub.mark[MaxToken - 1 - (o - evictable)]
           ELSE Invalid]
  /\ UNCHANGED base

\* The lanes copy the result out.  No lane reads what another one writes here,
\* and nothing runs on the row before the kernel ends, so this is one step.
Publish ==
  /\ phase = "publish"
  /\ gm' = [lastReq |-> input.req, slotToToken |-> ub.slotToToken, lru |-> ub.lru]
  /\ out' = [current    |-> ub.current,    missCount |-> ub.missCount,
             missTokens |-> ub.missTokens, missSlots |-> ub.missSlots,
             epoch      |-> Epoch]
  /\ phase' = "done"
  /\ UNCHANGED <<ub, tile, it, base, input, before>>

\* The kernel has ended and its outputs have been taken by the next operator.
Return ==
  /\ phase = "done"
  /\ out' = Idle /\ ub' = Idle /\ base' = Idle /\ input' = Idle /\ before' = Idle
  /\ phase' = "idle"
  /\ UNCHANGED <<gm, tile, it>>

-----------------------------------------------------------------------------
\* The elements a segment's loop runs over.
Extent ==
  [control |-> 1, prepare |-> Capacity, fastFlag |-> Threads, fastUse |-> Threads,
   fastLru |-> Capacity, clear |-> MaxToken, first |-> TopK, encode |-> Capacity,
   serve |-> Capacity, lruFlag |-> Threads, lruUse |-> Threads, anyMiss |-> Threads,
   missFlag |-> Threads, missUse |-> Threads, counts |-> 1,
   assign |-> IF phase = "assign" THEN ub.missCount ELSE 0, rebuild |-> Capacity]

\* The segment after the barrier, and its tile.
More(n) == tile + Threads < n

Following ==
  CASE phase = "control"  -> <<"prepare", 0>>
    [] phase = "prepare"  -> IF ub.resetRow THEN <<"fastFlag", 0>> ELSE <<"clear", 0>>
    [] phase = "fastFlag" -> <<"fastUse", tile>>
    [] phase = "fastUse"  -> IF More(TopK) THEN <<"fastFlag", tile + Threads>>
                             ELSE <<"fastLru", 0>>
    [] phase = "clear"    -> <<"first", 0>>
    [] phase = "first"    -> <<"encode", 0>>
    [] phase = "encode"   -> <<"serve", 0>>
    [] phase = "serve"    -> <<"lruFlag", 0>>
    [] phase = "lruFlag"  -> <<"lruUse", tile>>
    [] phase = "lruUse"   -> IF More(Capacity) THEN <<"lruFlag", tile + Threads>>
                             ELSE <<"anyMiss", 0>>
    [] phase = "anyMiss"  -> IF Scan(ub.evictFlag, Threads - 1) > 0
                             THEN <<"missFlag", 0>> ELSE <<"counts", 0>>
    [] phase = "missFlag" -> <<"missUse", tile>>
    [] phase = "missUse"  -> IF More(TopK) THEN <<"missFlag", tile + Threads>>
                             ELSE <<"counts", 0>>
    [] phase = "counts"   -> <<"assign", 0>>
    [] phase = "assign"   -> <<"rebuild", 0>>
    [] OTHER              -> <<"publish", 0>>

\* asc_syncthreads: every lane has run its loop to the end.
Sync ==
  /\ phase \in DOMAIN Extent
  /\ \A t \in Lanes : it[t] * Threads + t >= Extent[phase]
  /\ phase' = Following[1] /\ tile' = Following[2]
  /\ it' = [t \in Lanes |-> 0]
  /\ UNCHANGED <<gm, out, ub, base, input, before>>

Lane(t) ==
  \/ Prepare(t) \/ FastFlag(t) \/ FastUse(t) \/ FastLru(t)
  \/ Clear(t) \/ FirstOccurrence(t) \/ Encode(t) \/ Serve(t)
  \/ LruFlag(t) \/ LruUse(t) \/ AnyMiss(t) \/ MissFlag(t) \/ MissUse(t)
  \/ Assign(t) \/ Rebuild(t)

Next ==
  \/ Launch \/ Control \/ Counts \/ Sync \/ Publish \/ Return
  \/ \E t \in Lanes : Lane(t)

Spec == Init /\ [][Next]_vars

-----------------------------------------------------------------------------
Result == [lastReq    |-> gm.lastReq,  slotToToken |-> gm.slotToToken,
           lru        |-> gm.lru,      current     |-> out.current,
           missCount  |-> out.missCount,    missTokens  |-> out.missTokens,
           missSlots  |-> out.missSlots]

\* However the lanes are scheduled between two barriers, and whatever the
\* unified buffer held, the kernel publishes the reference result: that of the
\* five phased kernels, so the two paths can be exchanged.
MatchesReference ==
  phase = "done" => Result = Compact(before, input.req, input.topk, input.prefix)
=============================================================================
