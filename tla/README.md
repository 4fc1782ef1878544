# A formal model of MemFabric Hybrid and its sparse KV offload

The repository pools the DRAM and HBM of several NPUs into one memory. Its parts,
bottom up:

- **hybm** (`src/src/hybm`): reserves, maps, exports and imports memory; transports;
  data copies.
- **acc_links** (`src/src/acc_links`): TCP links with worker threads.
- **smem** (`src/src/smem`): a key-value *configuration store* over acc_links, through
  which processes find each other; *groups* of ranks over the store (barriers,
  all-gathers, joins and leaves); on top of those, big memory (`smem_bm`), the
  transfer engine (`smem_trans`) and shared memory (`smem_shm`).
- **acc_offload** (`src/src/acc_offload`): sparse KV-cache offload. KV blocks live in a
  host DRAM pool. For each request a row of resident slots on the device is refilled,
  decode step after decode step, with the tokens the attention's top-k selects:
  *LRU Compact* decides which slots change, *ResidentAddrs* turns the misses into copy
  descriptors, *sparse copy* carries them out.
- **zbal** (`src/app/zbal`): an application with its own collectives and allocator.

The models cover the offload from its allocator to its kernels, the static groups and
the TCP configuration store. `PROJECT.json` lists every component, those not modelled
included, the hazards of the code with the line where each one bites, and, for every
definition that models code, the lines it stands for.

## Modules

| component | specification | abstract specification | proofs | TLC instance |
|---|---|---|---|---|
| host DRAM pool | `OffloadMemManager` | `HostPool` | `OffloadMemManagerProofs` | `MCOffloadMemManager` |
| LRU Compact, phased kernels | `LruPhased` | `LruReference` (a function) | | `MCLruPhased` (two cfgs) |
| LRU Compact, fused kernel | `LruFusedV3` | `LruReference` | | `MCLruFusedV3` |
| the scan of two kernels | `WarpScan` | | | `MCWarpScan` |
| ResidentAddrs | `ResidentAddrs` | | | `MCResidentAddrs` |
| sparse copy | `SparseCopy` | | `SparseCopyProofs` | `MCSparseCopy` |
| one decode step (composition) | `OffloadPipeline` | `ResidentCache` | `ResidentCacheProofs` | `MCOffloadPipeline` |
| static group | `GroupSync` | | `GroupSyncProofs` | `MCGroupSync` |
| configuration store | `ConfigStore`, `StoreOps` | `AtomicStore` | | `MCConfigStore` (three cfgs) |

Definitions whose comment begins with "Mutant" or "Mutants" are mistaken variants of the one they
precede (a dropped guard, an off-by-one), the mutants of `PROJECT.json`: put in the place of
the real definition they make TLC report the property named there, which shows that the
property depends on that line of the code.

### Host DRAM pool

`OffloadMemManager` keeps the three trees of `AccOffloadMemManager`
(`acc_offload_mem_manager.h`): the idle ranges by size and by address, and the used
ranges. `Allocate` takes the best fit, `Release` merges with either neighbour; every
early return is a disjunct. `HasBase` is `base_ != nullptr`: without memory behind it a
pool refuses everything, which the proofs cover and the run leaves out. `HostPool` says on
bytes what callers rely on.

### LRU Compact

`LruReference` defines `Compact(row, req, topk, prefix)`: the row afterwards, the slot of
each top-k position and the list of misses. It is a function of its inputs and has no
epochs, scratch arrays or lanes.

`LruPhased` models the five kernels of the generic SIMT path. The marks and the plan live
in `token_mark` and `token_pos`, which survive from call to call and are shared by rows;
an epoch that counts down makes old contents harmless and is restarted at a threshold.
The threads of one kernel write disjoint elements, so a kernel is one step.

`LruFusedV3` models the fused 1024-lane kernel: in each segment between two
`asc_syncthreads`, lanes run in any order, one loop iteration at a time. Unified buffer
that the kernel does not stage starts with anything in `Leftover`. The kernel reads no
epoch and leaves the constant -2 in the row's epoch word, whatever was there. The warp scan is used
by its result; `WarpScan` models how the scan computes it, with warps at their own pace
between barriers and shared arrays reused from tile to tile, for both kernels that
contain it.

### ResidentAddrs and sparse copy

`ResidentAddrs` has the generic kernel (each thread recomputes where its rows start) and
the one-row parallel kernel. An address is the tuple it is computed from. `SparseCopy`
divides the descriptors among the cores and copies in chunks of the buffer's size.

### One decode step

`OffloadPipeline` runs Compact, ResidentAddrs, the cores of sparse copy and the attention
in stream order on one row, while between calls requests take turns and the host rewrites
tokens. It uses `LruReference!Compact` for the kernels (justified by the runs
`lru_phased` and `lru_fused_v3`) and takes descriptors and cores by what
`resident_addrs` and `sparse_copy` establish. It assumes that the blocks of requested
tokens are mapped, and that the stable prefix that the host announces does not reach past
a rewritten token. `ResidentCache` is the promise to the attention: a slot the row serves
a token from holds the bytes that the host has for it now.

### Static group

`GroupSync` models `GroupBarrier` and `GroupAllGather` of `smem_net_group_engine.cpp`, of
the whole group and of user keys. Each step is one request to the store, which serves it
atomically (this is what `config_store` shows of the store). A barrier's counter is the
length of the sequence of arrivals. The ranks of a user key number themselves in rank
order. A wait may time out at any moment while its key is absent; the rank then goes on
to its next call.

### Configuration store

`StoreOps` has what each handler does to the data: SET, GET, ADD (with the overflow test
on a long of `LongMax`), REMOVE, APPEND, WRITE (with its two limits) and CAS. `AtomicStore`
is a store whose calls take effect at one instant between call and return; a call whose
link broke may take effect once, later, or never. It says in its own terms what a call
computes: ADD succeeds if and only if the sum is a long, CAS if and only if the key is
missing or has the expected value. That rule of CAS is the server's, not the header's (see
the findings). `ConfigStore` is the implementation: the client's calling threads, its link
worker and its table of contexts; links with generations; the server's workers, whose
handlers change data under `storeMutex_` and send the answers after releasing it, one at a
time; the timer thread; the rank-state thread; and broken links, which the two sides notice
at different times.

A WRITE whose offset exceeds 65535 times its size is dropped by `WriteHandler` without an
answer (`smem_tcp_config_store_server.cpp:749`). The client does not check the offset and
waits without a timeout, so its caller returns only when the link breaks. The model has
this path (`Unanswered`), and `OneAnswer` and `CallsReturn` name it as their exception.

Modelled are ranked clients with one calling thread each, the in-memory backend, and the
requests that the client's own functions build: one key, the values the operation needs, a
decimal number for ADD, the offset in front of a WRITE's value. The replies to any other
message are left out. A client watches only what it does not watch already. Sequence numbers are
per client. A deadline is abstracted: at any moment some set of the timed waiters is late.
A link that stays up delivers in order.

## What the runs check

All runs but the last two are expected to pass. `tlc -config MC….cfg MC…` repeats one.

| run | instance | properties |
|---|---|---|
| `mem_manager` | 11 bytes, alignment 2, requests 0, 1, 2, 3, 5, 12, every address from below the pool to its end | `TypeOK`, `NoOverlap`, `NoLeak`, `Coalesced`, `DrainsToWhole`, refinement `PoolSpec` |
| `lru_phased` | 1 row, 2 positions, 2 slots, 4 tokens, 2 requests, 3 prefixes | `TypeOK`, `MatchesReference`, `LruIsPermutation`, `AnswersAreResident`, `ChangesAreMisses`, `HitsSurvive`, `ServesAll` |
| `lru_phased_rows` | 2 rows on one workspace, 2 positions, 3 slots, 4 tokens, 2 requests, 1 prefix, 3 lists without duplicates | `MatchesReference`, `TokenResidentOnce`, `RecentSlotsKept` |
| `lru_fused_v3` | 2 lanes, 4 positions, 8 slots, 8 tokens, 3 lists, 2 requests, 1 prefix | `MatchesReference` |
| `warp_scan` | 4 warps of 4 lanes, 2 tiles, both kernels | `StableRanks`, `TotalsAgree` |
| `resident_addrs` | 1 or 3 rows, 2 threads or 2 lanes, blocks mapped or not | `Packed`, `TargetsDistinct` |
| `sparse_copy` | 3 cores, up to 4 key descriptors, 1 or 3 chunks | `NeverTooMuch`, `CoresApart`, `CompleteAtEnd` |
| `offload_pipeline` | 2 requests on one row of 3 slots, 3 tokens, rewrites | `ReadsCurrent`, `Coherent`, refinement `CacheSpec` |
| `group_sync` | 3 ranks, 3 gathers of all, 2 barriers of a pair between them | `TypeOK`, `LeavesTogether`, `GathersAll`, `OldKeysQueued`, `RemovesOnlyDone`, liveness `AllReturn` |
| `config_store` | 2 clients on 2 workers, five plans of up to two calls each and up to one break per client | `TypeOK`, `NoLostWakeup`, `OneAnswer`, `WatchInForce`, `WatchersTold`, refinement `IsAtomic`, liveness `CallsReturn` |
| `config_store_rewatch` | two watches of one key, one break | `WatchInForce`, violated |
| `config_store_cas` | set and exchange against a removal | `CasAsDocumented`, violated |

What they show:

- **mem_manager.** After any calls, failing ones included, the trees partition the pool,
  idle neighbours are merged, and the pool is whole again once everything is released. A
  request is refused only if no free run could hold it.
- **lru_phased, lru_phased_rows.** Whatever earlier calls and other rows left in the
  shared scratch arrays, and across restarts of the epoch, a call computes the
  reference. The reference itself never loses a slot, never serves a position from a slot
  that does not hold its token, never evicts a requested resident token, and evicts the
  least recently used. After lists with duplicates a token may sit in two slots;
  `ServesAll` and `TokenResidentOnce` therefore speak of lists without.
- **lru_fused_v3, warp_scan.** The fused kernel publishes the same result under every
  schedule of its lanes between barriers, also on a filled row that changes hands or whose
  prefix drops a token: both paths compute the same function of the row. Serving one row
  by both kernels in turn is not modelled.
- **resident_addrs, sparse_copy, offload_pipeline.** Descriptors are packed without gap or
  overlap, each is copied once and completely, and the attention never reads stale bytes
  for a token within the stable prefix.
- **group_sync.** Nobody leaves a round before all members arrived, gathers deliver each
  member's data of that very round in rank order, also after timeouts. Without timeouts,
  old keys are removed neither too early nor never.
- **config_store.** No wakeup is lost, no caller is answered twice or left without an answer
  (but for the WRITE above), watches in force are told of every change that SET, ADD, APPEND
  or CAS makes, calls are atomic and compute what `AtomicStore` says, and the contents go
  when the last link breaks and at no other time.

### Bounds

The pool is no multiple of the alignment, so its tail is an idle range with an unaligned
size. `lru_phased` has as few slots as positions, and `lru_phased_rows` one more, without
which every slot would be recent; so eviction, full hits and full misses all occur. In
both, top-k is the number of tokens less 2, the largest the kernels accept; that there are
as many slots as tokens is only so in `lru_fused_v3`. A single prefix that drops just the
highest token makes slots go stale at every call and keeps others. Epochs restart after a
few calls (`EpochThreshold` 5 and 4) instead of after about 2^30. The fused kernel keeps
the proportions of the real one (top-k : capacity : tokens = 1 : 2 : 2) with two or more
loop iterations per lane; two lanes suffice for its conflicts, which are between pairs.
Four warps of four lanes make both levels of the scan take two shuffle stages, and two
tiles reuse every array. Three rounds with `RemoveInterval` 2 and `DelayCount` 1 (2 and 10
in the code) are the fewest in which a key is removed while members can still be in a call.
The store runs through alternative plans, each with its calls and its breaks, so that their
states add up instead of multiplying: the waiting client's connection breaks, the waking
client's connection breaks, both break (so the last client leaves and comes back), ADD at,
below and above both ends of a long of -4 to 3, and WRITE inside, behind, beyond the total
limit and beyond the offset limit. A client that calls twice has a call to fail and one to
make after the reconnection. `MaxVersion`, `MaxSn`, `MaxTasks` and `Plans` are the bounds
that no code corresponds to; `LongMax`, `MaxU16Index` and `MaxWriteTotal` stand for limits
of the code.

### Deadlock and fairness

The three `config_store` runs turn TLC's deadlock check off: clients whose
calls are over, or that wait forever for a key that nobody sets, really stop. In
`GroupSync` the end of all programs is the stuttering action `Finish`; any other stop is
reported.

`GroupSync` assumes weak fairness of each rank: a thread that can go on goes on. A
timeout is never forced, and `AllReturn` speaks of runs in which none happens.
`ConfigStore` assumes weak fairness of each client's calling thread and link worker, of
the server's handling of each link, of each sending thread, of the timer and of the
rank-state thread. These are operating-system threads that loop until shutdown; the
timer thread polls deadlines, and the sockets, which have keepalive on, report a dead peer. No client is
assumed to call and no link to break. `CallsReturn` asks of GETs that
wait forever and of unanswered WRITEs only that they return once their connection is gone.
The other specifications make no fairness assumption and state no liveness.

## What is proved

`tlapm M.tla` checks the proofs of module `M`. They hold for every value of the constants
that satisfies the named assumptions, and rest on nothing else.

- **`OffloadMemManagerProofs`**, from `PoolAssumption`. `Invariance`: `Inv`, the
  conjunction of `TypeOK`, `NoOverlap`, `NoLeak` and `Coalesced`, always holds. None of the
  four is inductive alone: `Release` finds the right neighbours only because the trees
  agree and the ranges are disjoint. `Disjointness` (`NoOverlap`) follows at once.
  `Drained` (`DrainsToWhole`): an idle range is maximal, since by `NoLeak` the byte after
  it belongs to some range, which by `Coalesced` is in use; with nothing in use, the idle
  range at 0 therefore ends at the pool's end. `Refinement` (`PoolSpec`): each step of the trees is a step of
  `HostPool`; the hard part is that a refusal is justified, because a free run lies within
  one idle range.
- **`SparseCopyProofs`**, from `CopyAssumption`. The shares of the cores partition the
  descriptors (arithmetic of the division and its remainder). The inductive invariant adds
  where each core is and what is copied behind, at and ahead of it. From it: `Apart`
  (`CoresApart`), `Bounded` (`NeverTooMuch`) and `Complete` (`CompleteAtEnd`).
- **`ResidentCacheProofs`**, from `Bounded`. `Coherence` (`Coherent` of `ResidentCache`).
  `Coherent` speaks of moments without pending copies; the inductive `Fresh` says the same
  of every slot whose own copy is done. That the pipeline implements `ResidentCache` is
  model-checked (`CacheSpec`).
- **`GroupSyncProofs`**, from `GroupAssumption`: any ranks, channels and programs.
  `TypeCorrect` (`TypeOK`), `NobodyLeavesEarly` (`LeavesTogether`), whatever calls time out,
  and `CleaningIsSafe` (`RemovesOnlyDone`). The argument: an add key holds distinct members
  that have arrived (`Arrived`), so a count equal to the size of the group means that all
  have (`Complete`, by cardinality); a wait key is only set then. For the cleaning, a rank
  queues keys `RemoveInterval` >= 2 rounds behind its own, so it has returned from the round
  after theirs, in which all members had arrived (`Ahead`), having left the older one.

Only model-checked:

- liveness (`AllReturn`, `CallsReturn`), which the prover does not handle;
- the LRU kernels, the scan and ResidentAddrs against their references: what a kernel loop
  computes for every length is an induction over data that the installed provers cannot do;
- `GathersAll` and `OldKeysQueued`;
- everything about `ConfigStore`, its refinement of `AtomicStore` included. The two share
  the form of requests and contents, not what a request computes.

## Findings

`config_store_rewatch`: a client that watches a key again over a link that already carried a
watch of it is not told of changes. `WatchHandler` (`smem_tcp_config_store_server.cpp:564`)
enters the watch with `emplace` under the link's id, which keeps the entry of the first
watch, whose number the client has forgotten. `smem_config_store.h:175` promises that "When
the key is updated, the specified notify function is invoked". In the run, the link breaks
after the first watch has registered its context; `LinkBrokenHandler` fails the context, the
request goes out over the next link all the same, and the second watch follows it there. On
one link, Watch, Unwatch and Watch do it, since `Unwatch` is local to the client. The
listening thread of a group watches again in both ways: over the same link after a wrong key
or size (`smem_net_group_engine.cpp:910`), over the next one after a link failure.

`config_store_cas`: CAS of a key that does not exist succeeds whatever value is expected
(`smem_tcp_config_store_server.cpp:839`), while `smem_config_store.h:152` says of the
expected value "empty string equals non-exist". In the run a client removes the key between
the SET and the CAS of another.

## What is not modelled

- **Store:** unranked clients, automatic rank assignment, recovery of a restarted server,
  heartbeats, the etcd and external backends, and the high-availability election. WRITE
  wakes nobody: `NoLostWakeup` is checked with no one waiting for a key that WRITE creates.
- **Links:** send queues, partial writes, the listener and the delayed clean-up. `ConfigStore`
  assumes that a link that stays up delivers; `acc_tcp_link_complex_default.h:433` deletes
  a message that finds the socket full, which the hazards list.
- **Groups:** dynamic membership (joins, updates, leaves, link-downs).
- **smem_bm, smem_trans, smem_shm, hybm, zbal:** nothing yet. Driver calls, library
  loading, TLS, logging, bindings and byte layouts are not state of the protocols.
- **Offload:** the legacy LRU kernel, and the entries and their manager. Timing, memory
  ordering inside a warp and the hardware's copy engines are taken as specified.

## Plan

In this order. The hazards of `PROJECT.json` that no property covers yet say which item they
wait for.

1. **Dynamic groups** over `AtomicStore`: `GroupListenEvent`, `GroupJoin`, `GroupUpdate`,
   `GroupLeave`, link-down events. Agreement of the ranks on the membership, progress of
   the events, the event whose failed handling is dropped. Two or three ranks, one
   link-down.
2. **Store, the rest:** unranked clients, rank assignment, recovery.
3. **Election** (`smem_ha_config_store.cpp`) with leases and partitions: one leader, no
   lost trigger.
4. **Links:** send queues and partial writes, composed with the store's assumption on links.
5. **hybm:** address manager with the range pool, which should refine the same kind of
   abstract pool; queue pairs counted by references; the reconnector.
6. **smem_bm and smem_trans:** join with two barriers and rollback, on `GroupSync`; the
   tables of remote slices.
7. **Offload:** the legacy LRU kernel against `LruReference`; the entry manager.
8. **Proofs:** type correctness, `NoLostWakeup` and `OneAnswer` of `ConfigStore`; the slot
   permutation and answers of `LruReference`; `OffloadPipeline` implements `ResidentCache`;
   the agreement invariant of item 1. Four modules hold theorems now.

`lru_phased_rows` can be merged into `lru_phased` when a new component asks for its run.
