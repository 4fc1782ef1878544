------------------------------ MODULE GroupSync ------------------------------
(* The barrier and all-gather of a static group (smem_net_group_engine.cpp).   *)
(*                                                                             *)
(* A channel is one sequence of collective calls: the barriers, or the         *)
(* all-gathers, of the whole group or of one user key.  Round n of a channel   *)
(* owns two keys of the config store: the add key, which every member adds     *)
(* itself to, and the wait key, which the member that completes the round sets *)
(* and all of them wait for.  The member that opens round n queues the keys of *)
(* round n - RemoveInterval for removal, and removes them once its queue holds *)
(* more than DelayCount keys.                                                  *)
(*                                                                             *)
(* Each step makes one request to the store, which serves it atomically under  *)
(* its mutex.  The value of an add key is kept as the sequence of its arrivals:*)
(* the appended entries of a gather; a barrier's counter is its length.        *)
EXTENDS Integers, Sequences, FiniteSets, TLC

CONSTANTS
    Ranks,           \* a set of integers
    Channels,
    Members,         \* Members[ch]: the ranks that call ch
    IsGather,        \* IsGather[ch]: an all-gather, else a barrier
    Program,         \* Program[r]: the channels rank r calls, in order
    RemoveInterval,  \* REMOVE_INTERVAL, 2
    DelayCount,      \* DEFAULT_STORE_KEY_DELAY_CLEAN_COUNT, 10
    MaxSn            \* bound on the rounds of a channel

ASSUME GroupAssumption ==
    /\ Ranks \subseteq Int /\ IsFiniteSet(Ranks)
    /\ Members \in [Channels -> SUBSET Ranks]
    /\ IsGather \in [Channels -> BOOLEAN]
    /\ Program \in [Ranks -> Seq(Channels)]
    /\ \A r \in Ranks : \A i \in 1..Len(Program[r]) : r \in Members[Program[r][i]]
    /\ RemoveInterval \in Nat /\ RemoveInterval >= 2
    /\ DelayCount \in Nat /\ MaxSn \in Nat

VARIABLES
    pos,       \* pos[r]: the call r is in, or makes next
    sn,        \* sn[r][ch]: r's serial number of ch (barrierGroupSn_, userGroupBarrierSn_...)
    pc,        \* pc[r]: where r is in the call
    val,       \* val[r]: the length its Add or Append returned
    entries,   \* entries[ch][n]: the value of the add key, empty when absent
    released,  \* the wait keys that are set, as <<ch, n>>
    delayed,   \* delayed[r]: delayCleanKeyList_, oldest first
    last,      \* last[r]: what r's last call returned
    failed     \* history: the ranks one of whose calls timed out

vars == <<pos, sn, pc, val, entries, released, delayed, last, failed>>

Steps == {"idle", "clean", "release", "wait", "fetch"}

Key(ch, n, part) == [ch |-> ch, n |-> n, part |-> part]

Keys == [ch : Channels, n : 1..MaxSn, part : {"add", "wait"}]

\* An entry of a gather: the rank it is prefixed with, and what that rank
\* sends in this round.
Entry(r, n) == [rank |-> r, data |-> <<r, n>>]

Entries == [rank : Ranks, data : Ranks \X (1..MaxSn)]

Op(r) == Program[r][pos[r]]

Round(r) == sn[r][Op(r)]

Size(ch) == Cardinality(Members[ch])

InCall(r, ch) == pc[r] # "idle" /\ Op(r) = ch

Nothing == [ok |-> FALSE]

Init ==
    /\ pos = [r \in Ranks |-> 1]
    /\ sn = [r \in Ranks |-> [ch \in Channels |-> 0]]
    /\ pc = [r \in Ranks |-> "idle"]
    /\ val = [r \in Ranks |-> 0]
    /\ entries = [ch \in Channels |-> [n \in 1..MaxSn |-> <<>>]]
    /\ released = {}
    /\ delayed = [r \in Ranks |-> <<>>]
    /\ last = [r \in Ranks |-> Nothing]
    /\ failed = {}

-----------------------------------------------------------------------------
\* Mutant: the round before this one is taken to be over.
OldRoundPrevious(n) == n - 1

\* Mutant: one round too far back.
OldRoundShifted(n) == n - RemoveInterval - 1

\* The round whose keys the opener of round n queues.
OldRound(n) == n - RemoveInterval

\* Mutant: the wait key is forgotten.
OldAddKey(ch, n) == <<Key(ch, n, "add")>>

OldKeys(ch, n) == <<Key(ch, n, "add"), Key(ch, n, "wait")>>

\* Mutant: one arrival too early.
IsLastButOne(ch, v) == v = Size(ch) - 1

\* val == size
IsLast(ch, v) == v = Size(ch)

\* What follows, for the v-th arrival with keys q queued: the loop of
\* GroupOldKeyDelayClean, then setting the wait key or just waiting for it.
Proceed(ch, v, q) ==
    IF Len(q) > DelayCount THEN "clean" ELSE IF IsLast(ch, v) THEN "release" ELSE "wait"

\* The next serial number, and one Add or Append under it.  Only the first to
\* arrive queues the old keys, and only once there are old keys.
Arrive(r) ==
    /\ pc[r] = "idle"
    /\ LET ch == Op(r)
           n == sn[r][ch] + 1
           arrived == Append(entries[ch][n], Entry(r, n))
           queue == delayed[r] \o (IF Len(arrived) = 1 /\ n > RemoveInterval
                                   THEN OldKeys(ch, OldRound(n)) ELSE <<>>)
       IN  /\ n <= MaxSn
           /\ sn' = [sn EXCEPT ![r][ch] = n]
           /\ entries' = [entries EXCEPT ![ch][n] = arrived]
           /\ val' = [val EXCEPT ![r] = Len(arrived)]
           /\ delayed' = [delayed EXCEPT ![r] = queue]
           /\ pc' = [pc EXCEPT ![r] = Proceed(ch, Len(arrived), queue)]
    /\ UNCHANGED <<pos, released, last, failed>>

\* GroupOldKeyDelayClean's loop: one Remove, of the oldest queued key.
Clean(r) ==
    /\ pc[r] = "clean"
    /\ LET k == Head(delayed[r])
       IN  /\ entries' = IF k.part = "add" THEN [entries EXCEPT ![k.ch][k.n] = <<>>] ELSE entries
           /\ released' = IF k.part = "wait" THEN released \ {<<k.ch, k.n>>} ELSE released
    /\ delayed' = [delayed EXCEPT ![r] = Tail(@)]
    /\ pc' = [pc EXCEPT ![r] = Proceed(Op(r), val[r], Tail(delayed[r]))]
    /\ UNCHANGED <<pos, sn, val, last, failed>>

\* The last to arrive sets the wait key.
Release(r) ==
    /\ pc[r] = "release"
    /\ released' = released \cup {<<Op(r), Round(r)>>}
    /\ pc' = [pc EXCEPT ![r] = "wait"]
    /\ UNCHANGED <<pos, sn, val, entries, delayed, last, failed>>

Return(r, result) ==
    /\ last' = [last EXCEPT ![r] = result]
    /\ pc' = [pc EXCEPT ![r] = "idle"]
    /\ pos' = [pos EXCEPT ![r] = @ + 1]
    /\ val' = [val EXCEPT ![r] = 0]
    /\ UNCHANGED <<sn, entries, released, delayed>>

\* Get of the wait key, answered.
Waited(r) == pc[r] = "wait" /\ <<Op(r), Round(r)>> \in released

\* Get of the wait key or of the add key, out of time while the key is absent.
Timeout(r) ==
    /\ \/ pc[r] = "wait" /\ <<Op(r), Round(r)>> \notin released
       \/ pc[r] = "fetch" /\ entries[Op(r)][Round(r)] = <<>>
    /\ Return(r, Nothing)
    /\ failed' = failed \cup {r}

\* Mutant: the received data in order of arrival.
GatherRecv(recv) == [i \in 1..Len(recv) |-> recv[i].data]

\* The received data in rank order, whatever the order of arrival.
SortGatherRecv(recv) ==
    LET sorted == SortSeq(recv, LAMBDA a, b : a.rank < b.rank)
    IN  [i \in 1..Len(recv) |-> sorted[i].data]

Fetched(r) ==
    /\ pc[r] = "fetch" /\ entries[Op(r)][Round(r)] # <<>>
    /\ LET output == entries[Op(r)][Round(r)]
       IN  Return(r, IF Len(output) = Size(Op(r))
                     THEN [ok |-> TRUE, ch |-> Op(r), n |-> Round(r), recv |-> SortGatherRecv(output)]
                     ELSE Nothing)
    /\ UNCHANGED failed

\* GroupBarrier returns.
Pass(r) ==
    /\ Waited(r)
    /\ Return(r, [ok |-> TRUE, ch |-> Op(r), n |-> Round(r)])
    /\ UNCHANGED failed

\* GroupAllGather goes on to get the whole value.
Collect(r) ==
    /\ Waited(r)
    /\ pc' = [pc EXCEPT ![r] = "fetch"]
    /\ UNCHANGED <<pos, sn, val, entries, released, delayed, last, failed>>

Synchronise(r) == Arrive(r) \/ Clean(r) \/ Release(r)

Calling(r) == pos[r] <= Len(Program[r])

\* GroupBarrier, of the group or of a user key.
GroupBarrier(r) ==
    /\ Calling(r) /\ ~IsGather[Op(r)]
    /\ Synchronise(r) \/ Pass(r)

\* GroupAllGather, of the group or of a user key.
GroupAllGather(r) ==
    /\ Calling(r) /\ IsGather[Op(r)]
    /\ Synchronise(r) \/ Collect(r) \/ Fetched(r)

\* Every program has run to its end.
Finish ==
    /\ \A r \in Ranks : ~Calling(r)
    /\ UNCHANGED vars

Next ==
    \/ \E r \in Ranks : GroupBarrier(r) \/ GroupAllGather(r) \/ Timeout(r)
    \/ Finish

Spec == Init /\ [][Next]_vars

\* A rank that can go on goes on; a timeout is never forced.
Fairness == \A r \in Ranks : WF_vars(GroupBarrier(r) \/ GroupAllGather(r))

FairSpec == Spec /\ Fairness

-----------------------------------------------------------------------------
TypeOK ==
    /\ pos \in [Ranks -> Nat \ {0}]
    /\ sn \in [Ranks -> [Channels -> 0..MaxSn]]
    /\ pc \in [Ranks -> Steps]
    /\ val \in [Ranks -> Nat]
    /\ entries \in [Channels -> [1..MaxSn -> Seq(Entries)]]
    /\ released \subseteq Channels \X (1..MaxSn)
    /\ delayed \in [Ranks -> Seq(Keys)]
    /\ DOMAIN last = Ranks
    /\ failed \subseteq Ranks
    /\ \A r \in Ranks : pc[r] # "idle" => Calling(r) /\ Round(r) >= 1

\* A barrier or gather that returned SM_OK did so only after every member had
\* arrived in that round ("all guys wait for waitKey status", GroupBarrier),
\* also when earlier calls timed out and keys were removed meanwhile.
LeavesTogether ==
    \A r \in Ranks : last[r].ok =>
        \A m \in Members[last[r].ch] : sn[m][last[r].ch] >= last[r].n

\* A gather that returned SM_OK delivered what every member sent in that very
\* round, in rank order (SortGatherRecv).
GathersAll ==
    \A r \in Ranks : last[r].ok /\ IsGather[last[r].ch] =>
        LET recv == last[r].recv
            ids == Members[last[r].ch]
        IN  /\ Len(recv) = Cardinality(ids)
            /\ \A m \in ids :
                 recv[Cardinality({i \in ids : i <= m})] = <<m, last[r].n>>

\* Rank m has returned from round n of ch.
Done(m, ch, n) == sn[m][ch] > n \/ (sn[m][ch] = n /\ ~InCall(m, ch))

\* As long as no call has timed out, a key is removed from the store only when
\* every member has returned from its round: GroupOldKeyDelayClean never takes
\* a key that somebody still adds to or waits for.
RemovesOnlyDone ==
    [][\A ch \in Channels, n \in 1..MaxSn :
        (/\ failed = {}
         /\ \/ entries[ch][n] # <<>> /\ entries'[ch][n] = <<>>
            \/ <<ch, n>> \in released /\ <<ch, n>> \notin released')
        => \A m \in Members[ch] : Done(m, ch, n)]_vars

\* No key leaks: as long as no call has timed out, a key of a round that is
\* RemoveInterval or more behind the latest one waits in some rank's queue.
OldKeysQueued ==
    failed = {} =>
        \A r \in Ranks, ch \in Channels, n \in 1..MaxSn :
            n + RemoveInterval <= sn[r][ch] =>
                \A part \in {"add", "wait"} :
                    (IF part = "add" THEN entries[ch][n] # <<>> ELSE <<ch, n>> \in released)
                    => \E q \in Ranks : \E i \in 1..Len(delayed[q]) :
                           delayed[q][i] = Key(ch, n, part)

\* Unless a call times out, every call of every rank returns.
AllReturn == [](failed = {}) => <>(\A r \in Ranks : ~Calling(r))

=============================================================================
