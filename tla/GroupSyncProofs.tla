-------------------------- MODULE GroupSyncProofs --------------------------
(***************************************************************************)
(* For every set of ranks, every channels and programs, and whatever calls *)
(* time out: a barrier or gather returns SM_OK only after all its members  *)
(* have arrived; and as long as none timed out, keys are removed only from *)
(* rounds that every member has returned from.                             *)
(***************************************************************************)
EXTENDS GroupSync, FiniteSetTheorems, TLAPS

\* Every member has arrived in round n.
AllIn(ch, n) == \A m \in Members[ch] : sn[m][ch] >= n

\* An add key holds members that arrived in its round, each once.
Arrived ==
  \A ch \in Channels, n \in 1..MaxSn :
    /\ \A i \in 1..Len(entries[ch][n]) :
         LET q == entries[ch][n][i].rank IN q \in Members[ch] /\ sn[q][ch] >= n
    /\ \A i, j \in 1..Len(entries[ch][n]) :
         entries[ch][n][i].rank = entries[ch][n][j].rank => i = j

\* Whoever knows that the round is complete is right.
Complete ==
  /\ \A r \in Ranks :
       \/ pc[r] = "clean" /\ IsLast(Op(r), val[r])
       \/ pc[r] \in {"release", "fetch"}
       => AllIn(Op(r), Round(r))
  /\ \A k \in released : AllIn(k[1], k[2])

\* So is a successful result.
Results ==
  \A r \in Ranks :
    \/ last[r] = Nothing
    \/ /\ last[r].ok = TRUE
       /\ last[r].ch \in Channels /\ last[r].n \in 1..MaxSn
       /\ AllIn(last[r].ch, last[r].n)

\* A rank queues keys of rounds that are RemoveInterval behind its own.
Queued ==
  \A r \in Ranks : \A i \in 1..Len(delayed[r]) :
    LET k == delayed[r][i] IN r \in Members[k.ch] /\ k.n + RemoveInterval <= sn[r][k.ch]

\* Without timeouts, a rank that has returned from a round has seen it complete.
Ahead ==
  failed = {} =>
    \A r \in Ranks, ch \in Channels, n \in 1..MaxSn :
      r \in Members[ch] /\ Done(r, ch, n) => AllIn(ch, n)

\* A rank that is removing keys has keys to remove.
Draining == \A r \in Ranks : pc[r] = "clean" => delayed[r] # <<>>

IInv == TypeOK /\ Arrived /\ Complete /\ Results /\ Queued /\ Draining /\ Ahead

-----------------------------------------------------------------------------
LEMMA Bounds == RemoveInterval \in Nat /\ RemoveInterval >= 2 /\ MaxSn \in Nat /\ DelayCount \in Nat
BY GroupAssumption

\* The next serial number of a rank that is not at its last.
LEMMA NextRound ==
  ASSUME NEW x \in 0..MaxSn, x + 1 <= MaxSn
  PROVE  x + 1 \in 1..MaxSn /\ x = (x + 1) - 1
BY Bounds

\* A rank that may queue the keys of round n is past the round after it.
LEMMA RoundAfter ==
  ASSUME NEW n \in 1..MaxSn, NEW x \in 0..MaxSn, n + RemoveInterval <= x
  PROVE  n + 1 \in 1..MaxSn /\ x > n + 1
BY Bounds

\* What is behind a number is behind a larger one.
LEMMA StaysBehind ==
  ASSUME NEW a \in Int, NEW b \in Int, NEW c \in Int, NEW d \in Int, a + b <= c, d >= c
  PROVE  a + b <= d
OBVIOUS

\* A serial number just assigned.
LEMMA SnSet ==
  ASSUME TypeOK, NEW r \in Ranks, NEW ch \in Channels, NEW n, sn' = [sn EXCEPT ![r][ch] = n]
  PROVE  sn'[r][ch] = n
BY DEF TypeOK

\* Assigning one add key leaves the others.
LEMMA OtherEntriesStay ==
  ASSUME TypeOK, NEW c \in Channels, NEW k \in 1..MaxSn, NEW s,
         entries' = [entries EXCEPT ![c][k] = s],
         NEW ch \in Channels, NEW n \in 1..MaxSn, ~(c = ch /\ k = n)
  PROVE  entries'[ch][n] = entries[ch][n]
<1>1. entries \in [Channels -> [1..MaxSn -> Seq(Entries)]]
  BY DEF TypeOK
<1>2. CASE c # ch
  BY <1>1, <1>2
<1>3. CASE c = ch /\ k # n
  <2>1. entries'[ch] = [entries[ch] EXCEPT ![k] = s]
    BY <1>1, <1>3
  <2> QED
    BY <1>1, <1>3, <2>1
<1> QED
  BY <1>2, <1>3

\* The channel of a call is a channel of the caller's.
LEMMA OpType ==
  ASSUME TypeOK, NEW r \in Ranks, Calling(r)
  PROVE  Op(r) \in Channels /\ r \in Members[Op(r)] /\ Round(r) \in 0..MaxSn
<1>1. pos[r] \in 1..Len(Program[r]) /\ Program[r] \in Seq(Channels)
  BY GroupAssumption DEF TypeOK, Calling
<1>2. Op(r) \in Channels
  BY <1>1 DEF Op
<1>3. r \in Members[Op(r)]
  BY <1>1, GroupAssumption DEF Op
<1> QED
  BY <1>2, <1>3 DEF TypeOK, Round

\* The steps there are.
LEMMA Split ==
  ASSUME TypeOK, [Next]_vars
  PROVE  \/ \E r \in Ranks :
              /\ Calling(r)
              /\ Arrive(r) \/ Clean(r) \/ Release(r) \/ Pass(r) \/ Collect(r) \/ Fetched(r)
                   \/ Timeout(r)
         \/ UNCHANGED vars
<1>1. ASSUME NEW r \in Ranks, Timeout(r) PROVE Calling(r)
  BY <1>1 DEF Timeout, TypeOK
<1> QED
  BY <1>1 DEF Next, GroupBarrier, GroupAllGather, Synchronise, Finish

LEMMA TypeInit == Init => TypeOK
BY GroupAssumption DEF Init, TypeOK, Steps, Keys

LEMMA TypeNext ==
  ASSUME TypeOK, [Next]_vars
  PROVE  TypeOK'
<1>1. CASE UNCHANGED vars
  BY <1>1 DEF TypeOK, vars, Calling, Round, Op
<1>2. ASSUME NEW r \in Ranks, Calling(r), Arrive(r) PROVE TypeOK'
  <2> DEFINE ch == Op(r)
             n == sn[r][ch] + 1
             arrived == Append(entries[ch][n], Entry(r, n))
             queue == delayed[r] \o (IF Len(arrived) = 1 /\ n > RemoveInterval
                                     THEN OldKeys(ch, OldRound(n)) ELSE <<>>)
  <2>1. /\ pc[r] = "idle" /\ n <= MaxSn
        /\ sn' = [sn EXCEPT ![r][ch] = n]
        /\ entries' = [entries EXCEPT ![ch][n] = arrived]
        /\ val' = [val EXCEPT ![r] = Len(arrived)]
        /\ delayed' = [delayed EXCEPT ![r] = queue]
        /\ pc' = [pc EXCEPT ![r] = Proceed(ch, Len(arrived), queue)]
        /\ UNCHANGED <<pos, released, last, failed>>
    BY <1>2 DEF Arrive
  <2>2. ch \in Channels /\ n \in 1..MaxSn /\ sn[r][ch] \in 0..MaxSn
    <3>1. ch \in Channels
      BY <1>2, OpType
    <3>2. sn[r][ch] \in 0..MaxSn
      BY <3>1 DEF TypeOK
    <3> QED
      BY <2>1, <3>1, <3>2, NextRound
  <2>3. arrived \in Seq(Entries) /\ Len(arrived) \in Nat
    <3>1. Entry(r, n) \in Entries
      BY <2>2 DEF Entry, Entries
    <3>2. entries[ch] \in [1..MaxSn -> Seq(Entries)]
      BY <2>2 DEF TypeOK
    <3>3. entries[ch][n] \in Seq(Entries)
      BY <2>2, <3>2
    <3> QED
      BY <3>1, <3>3
  <2>4. queue \in Seq(Keys)
    <3>1. CASE Len(arrived) = 1 /\ n > RemoveInterval
      <4>1. OldRound(n) \in 1..MaxSn
        BY <2>2, <3>1, Bounds DEF OldRound
      <4>2. Key(ch, OldRound(n), "add") \in Keys /\ Key(ch, OldRound(n), "wait") \in Keys
        BY <2>2, <4>1 DEF Key, Keys
      <4>3. OldKeys(ch, OldRound(n)) \in Seq(Keys)
        BY <4>2 DEF OldKeys
      <4> QED
        BY <3>1, <4>3 DEF TypeOK
    <3>2. CASE ~(Len(arrived) = 1 /\ n > RemoveInterval)
      BY <3>2 DEF TypeOK
    <3> QED
      BY <3>1, <3>2
  <2>5. Proceed(ch, Len(arrived), queue) \in Steps
    BY DEF Proceed, Steps
  <2> HIDE DEF n, arrived, queue
  <2>6. sn' \in [Ranks -> [Channels -> 0..MaxSn]]
    BY <2>1, <2>2 DEF TypeOK
  <2>7. \A q \in Ranks : pc'[q] # "idle" => Calling(q)' /\ Round(q)' >= 1
    <3> SUFFICES ASSUME NEW q \in Ranks, pc'[q] # "idle"
                 PROVE  Calling(q)' /\ Round(q)' >= 1
      OBVIOUS
    <3>1. CASE q = r
      <4>1. sn'[r][ch] = n /\ n >= 1
        BY <2>1, <2>2 DEF TypeOK
      <4> QED
        BY <1>2, <2>1, <3>1, <4>1 DEF Calling, Round, Op
    <3>2. CASE q # r
      BY <2>1, <3>2 DEF TypeOK, Calling, Round, Op
    <3> QED
      BY <3>1, <3>2
  <2>8. entries' \in [Channels -> [1..MaxSn -> Seq(Entries)]]
    BY <2>1, <2>2, <2>3 DEF TypeOK
  <2> QED
    BY <2>1, <2>3, <2>4, <2>5, <2>6, <2>7, <2>8 DEF TypeOK
<1>3. ASSUME NEW r \in Ranks, Calling(r), Clean(r) PROVE TypeOK'
  <2> DEFINE k == Head(delayed[r])
  <2>1. delayed[r] \in Seq(Keys)
    BY DEF TypeOK
  <2>2. entries' = entries \/ entries' = [entries EXCEPT ![k.ch][k.n] = <<>>]
    BY <1>3 DEF Clean
  <2>3. entries' \in [Channels -> [1..MaxSn -> Seq(Entries)]]
    <3>1. CASE entries' = entries
      BY <3>1 DEF TypeOK
    <3>2. CASE entries' = [entries EXCEPT ![k.ch][k.n] = <<>>]
      <4> DEFINE c == k.ch
                 n == k.n
      <4> HIDE DEF c, n
      <4>1. entries' = [entries EXCEPT ![c][n] = <<>>]
        BY <3>2 DEF c, n
      <4>2. <<>> \in Seq(Entries)
        OBVIOUS
      <4>3. entries \in [Channels -> [1..MaxSn -> Seq(Entries)]]
        BY DEF TypeOK
      <4> QED
        BY <4>1, <4>2, <4>3
    <3> QED
      BY <2>2, <3>1, <3>2
  <2>4. released' \subseteq released
    BY <1>3 DEF Clean
  <2>5. delayed' \in [Ranks -> Seq(Keys)]
    <3>1. CASE delayed[r] = <<>>
      BY <1>3, <3>1 DEF Clean, TypeOK
    <3>2. CASE delayed[r] # <<>>
      BY <1>3, <3>2, <2>1 DEF Clean, TypeOK
    <3> QED
      BY <3>1, <3>2
  <2>6. Proceed(Op(r), val[r], Tail(delayed[r])) \in Steps
    BY DEF Proceed, Steps
  <2>7. pc' \in [Ranks -> Steps]
    BY <1>3, <2>6 DEF Clean, TypeOK
  <2>8. \A q \in Ranks : pc'[q] # "idle" => pc[q] # "idle"
    BY <1>3 DEF Clean, TypeOK
  <2> QED
    BY <1>3, <2>3, <2>4, <2>5, <2>7, <2>8 DEF Clean, TypeOK, Calling, Round, Op
<1>4. ASSUME NEW r \in Ranks, Calling(r), Release(r) PROVE TypeOK'
  <2>1. <<Op(r), Round(r)>> \in Channels \X (1..MaxSn)
    <3>1. Op(r) \in Channels /\ Round(r) \in 0..MaxSn
      BY <1>4, OpType
    <3>2. Round(r) >= 1
      BY <1>4 DEF Release, TypeOK
    <3> QED
      BY <3>1, <3>2, Bounds
  <2>2. \A q \in Ranks : pc'[q] # "idle" => pc[q] # "idle"
    BY <1>4 DEF Release, TypeOK
  <2>3. pc' \in [Ranks -> Steps]
    BY <1>4 DEF Release, TypeOK, Steps
  <2> QED
    BY <1>4, <2>1, <2>2, <2>3 DEF Release, TypeOK, Calling, Round, Op
<1>5. ASSUME NEW r \in Ranks, NEW result, Return(r, result), failed' \subseteq Ranks
      PROVE  TypeOK'
  <2>1. pos' \in [Ranks -> Nat \ {0}]
    BY <1>5 DEF Return, TypeOK
  <2>2. pc' \in [Ranks -> Steps] /\ val' \in [Ranks -> Nat]
    BY <1>5 DEF Return, TypeOK, Steps
  <2>3. DOMAIN last' = Ranks
    BY <1>5 DEF Return, TypeOK
  <2>4. \A q \in Ranks : pc'[q] # "idle" => q # r /\ pc[q] # "idle"
    BY <1>5 DEF Return, TypeOK
  <2>5. \A q \in Ranks : pc'[q] # "idle" => Calling(q)' /\ Round(q)' >= 1
    BY <1>5, <2>4 DEF Return, TypeOK, Calling, Round, Op
  <2> QED
    BY <1>5, <2>1, <2>2, <2>3, <2>5 DEF Return, TypeOK
<1>6. ASSUME NEW r \in Ranks, Calling(r), Collect(r) PROVE TypeOK'
  <2>1. \A q \in Ranks : pc'[q] # "idle" => pc[q] # "idle"
    BY <1>6 DEF Collect, Waited, TypeOK
  <2>2. pc' \in [Ranks -> Steps]
    BY <1>6 DEF Collect, TypeOK, Steps
  <2> QED
    BY <1>6, <2>1, <2>2 DEF Collect, TypeOK, Calling, Round, Op
<1>7. ASSUME NEW r \in Ranks, Pass(r) \/ Fetched(r) \/ Timeout(r) PROVE TypeOK'
  <2>1. (\E result : Return(r, result)) /\ failed' \subseteq Ranks
    BY <1>7 DEF Pass, Fetched, Timeout, TypeOK
  <2> QED
    BY <1>5, <2>1
<1> QED
  BY <1>1, <1>2, <1>3, <1>4, <1>6, <1>7, Split

-----------------------------------------------------------------------------
\* Serial numbers only grow, and those of others stay.
LEMMA SnGrows ==
  ASSUME TypeOK, [Next]_vars
  PROVE  \A m \in Ranks, ch \in Channels : sn'[m][ch] >= sn[m][ch]
<1> SUFFICES ASSUME NEW m \in Ranks, NEW ch \in Channels
             PROVE  sn'[m][ch] >= sn[m][ch]
  OBVIOUS
<1>0. sn[m][ch] \in Int
  BY Bounds DEF TypeOK
<1>1. CASE UNCHANGED sn
  BY <1>0, <1>1
<1>2. ASSUME NEW r \in Ranks, Arrive(r), Calling(r)
      PROVE  sn'[m][ch] >= sn[m][ch]
  <2>1. sn' = [sn EXCEPT ![r][Op(r)] = sn[r][Op(r)] + 1]
    BY <1>2 DEF Arrive
  <2>2. Op(r) \in Channels /\ sn[r][Op(r)] \in Int
    BY <1>2, OpType, Bounds DEF TypeOK
  <2> QED
    BY <1>0, <2>1, <2>2 DEF TypeOK
<1> QED
  BY <1>1, <1>2, Split DEF Clean, Release, Pass, Collect, Fetched, Timeout, Return, vars

LEMMA SnType ==
  ASSUME TypeOK, [Next]_vars, NEW r \in Ranks, NEW ch \in Channels
  PROVE  /\ sn[r][ch] \in Int /\ sn'[r][ch] \in Int
         /\ sn'[r][ch] >= sn[r][ch]
<1>1. 0..MaxSn \subseteq Int
  BY Bounds
<1>2. sn[r][ch] \in Int
  BY <1>1 DEF TypeOK
<1>3. TypeOK'
  BY TypeNext
<1>4. sn'[r][ch] \in Int
  BY <1>1, <1>3 DEF TypeOK
<1> QED
  BY <1>2, <1>4, SnGrows

\* A complete round stays complete.
LEMMA AllInKept ==
  ASSUME TypeOK, [Next]_vars, NEW ch \in Channels, NEW n \in Int, AllIn(ch, n)
  PROVE  AllIn(ch, n)'
<1> SUFFICES ASSUME NEW m \in Members[ch] PROVE sn'[m][ch] >= n
  BY DEF AllIn
<1>1. m \in Ranks
  BY GroupAssumption
<1>2. sn[m][ch] \in Int /\ sn'[m][ch] \in Int
  BY <1>1, SnType
<1>3. sn[m][ch] >= n /\ sn'[m][ch] >= sn[m][ch]
  BY <1>1, SnGrows DEF AllIn
<1> QED
  BY <1>2, <1>3

\* As many distinct members as there are members are all the members.
LEMMA Full ==
  ASSUME NEW ch \in Channels, NEW s \in Seq(Entries), Len(s) = Size(ch),
         \A i \in 1..Len(s) : s[i].rank \in Members[ch],
         \A i, j \in 1..Len(s) : s[i].rank = s[j].rank => i = j
  PROVE  \A m \in Members[ch] : \E i \in 1..Len(s) : s[i].rank = m
<1> DEFINE f == [i \in 1..Len(s) |-> s[i].rank]
<1>1. f \in Injection(1..Len(s), Members[ch])
  BY DEF Injection, IsInjective
<1>2. Members[ch] \subseteq Ranks /\ IsFiniteSet(Ranks)
  BY GroupAssumption
<1>3. IsFiniteSet(Members[ch])
  BY <1>2, FS_Subset
<1>4. Len(s) \in Nat
  OBVIOUS
<1>5. Cardinality(1..Len(s)) = Len(s)
  BY <1>4, FS_Interval
<1>6. f \in Surjection(1..Len(s), Members[ch])
  BY <1>1, <1>3, <1>5, FS_Injection DEF Size
<1> QED
  BY <1>6 DEF Surjection

\* What Arrive does: r enters round n of ch, the add key becomes s, r's queue d.
Arrival(r, ch, n, s, d) ==
  /\ ch = Op(r) /\ r \in Members[ch] /\ pc[r] = "idle"
  /\ sn[r][ch] = n - 1
  /\ s = Append(entries[ch][n], Entry(r, n))
  /\ \/ d = delayed[r]
     \/ n > RemoveInterval /\ d = delayed[r] \o OldKeys(ch, OldRound(n))
  /\ sn' = [sn EXCEPT ![r][ch] = n]
  /\ entries' = [entries EXCEPT ![ch][n] = s]
  /\ val' = [val EXCEPT ![r] = Len(s)]
  /\ delayed' = [delayed EXCEPT ![r] = d]
  /\ pc' = [pc EXCEPT ![r] = Proceed(ch, Len(s), d)]
  /\ pos' = pos /\ released' = released /\ last' = last /\ failed' = failed

LEMMA ArriveFacts ==
  ASSUME TypeOK, NEW r \in Ranks, Calling(r), Arrive(r)
  PROVE  \E ch \in Channels, n \in 1..MaxSn, s \in Seq(Entries), d \in Seq(Keys) :
           Arrival(r, ch, n, s, d)
<1> DEFINE ch == Op(r)
           n == sn[r][ch] + 1
           s == Append(entries[ch][n], Entry(r, n))
           q == delayed[r] \o (IF Len(s) = 1 /\ n > RemoveInterval
                               THEN OldKeys(ch, OldRound(n)) ELSE <<>>)
<1>1. /\ pc[r] = "idle" /\ n <= MaxSn
      /\ sn' = [sn EXCEPT ![r][ch] = n]
      /\ entries' = [entries EXCEPT ![ch][n] = s]
      /\ val' = [val EXCEPT ![r] = Len(s)]
      /\ delayed' = [delayed EXCEPT ![r] = q]
      /\ pc' = [pc EXCEPT ![r] = Proceed(ch, Len(s), q)]
      /\ pos' = pos /\ released' = released /\ last' = last /\ failed' = failed
  BY DEF Arrive
<1>2. ch \in Channels /\ r \in Members[ch]
  BY OpType
<1>3. sn[r][ch] \in 0..MaxSn
  BY <1>2 DEF TypeOK
<1>4. n \in 1..MaxSn /\ sn[r][ch] = n - 1
  BY <1>1, <1>3, NextRound
<1>5. s \in Seq(Entries) /\ q \in Seq(Keys)
  <2>1. entries[ch] \in [1..MaxSn -> Seq(Entries)] /\ Entry(r, n) \in Entries
    BY <1>2, <1>4 DEF TypeOK, Entry, Entries
  <2>2. s \in Seq(Entries)
    <3>1. entries[ch][n] \in Seq(Entries)
      BY <1>4, <2>1
    <3> QED
      BY <2>1, <3>1
  <2>3. TypeOK'
    BY TypeNext DEF Next, GroupBarrier, GroupAllGather, Synchronise
  <2>4. q = delayed'[r]
    BY <1>1 DEF TypeOK
  <2>5. delayed'[r] \in Seq(Keys)
    BY <2>3 DEF TypeOK
  <2> QED
    BY <2>2, <2>4, <2>5
<1>6. \/ q = delayed[r]
      \/ n > RemoveInterval /\ q = delayed[r] \o OldKeys(ch, OldRound(n))
  <2>1. CASE Len(s) = 1 /\ n > RemoveInterval
    BY <2>1
  <2>2. CASE ~(Len(s) = 1 /\ n > RemoveInterval)
    <3>1. \A d \in Seq(Keys) : d \o <<>> = d
      OBVIOUS
    <3>2. delayed[r] \in Seq(Keys)
      BY DEF TypeOK
    <3>3. q = delayed[r] \o <<>>
      BY <2>2
    <3> QED
      BY <3>1, <3>2, <3>3
  <2> QED
    BY <2>1, <2>2
<1> HIDE DEF ch, n, s, q
<1>7. ch = Op(r) /\ s = Append(entries[ch][n], Entry(r, n))
  BY DEF ch, n, s
<1>8. Arrival(r, ch, n, s, q)
  BY <1>1, <1>2, <1>4, <1>6, <1>7 DEF Arrival
<1> QED
  BY <1>2, <1>4, <1>5, <1>8

-----------------------------------------------------------------------------
LEMMA ArrivedNext ==
  ASSUME TypeOK, Arrived, [Next]_vars
  PROVE  Arrived'
<1> SUFFICES ASSUME NEW ch \in Channels, NEW n \in 1..MaxSn
             PROVE  /\ \A i \in 1..Len(entries'[ch][n]) :
                         LET q == entries'[ch][n][i].rank IN q \in Members[ch] /\ sn'[q][ch] >= n
                    /\ \A i, j \in 1..Len(entries'[ch][n]) :
                         entries'[ch][n][i].rank = entries'[ch][n][j].rank => i = j
  BY DEF Arrived
<1> DEFINE s == entries[ch][n]
<1>0. n \in Int
  BY Bounds
<1>1. s \in Seq(Entries)
  <2>1. entries[ch] \in [1..MaxSn -> Seq(Entries)]
    BY DEF TypeOK
  <2> QED
    BY <2>1
<1>2. /\ \A i \in 1..Len(s) : s[i].rank \in Members[ch] /\ sn[s[i].rank][ch] >= n
      /\ \A i, j \in 1..Len(s) : s[i].rank = s[j].rank => i = j
  BY DEF Arrived
<1>3. \A m \in Members[ch] : /\ sn[m][ch] \in Int /\ sn'[m][ch] \in Int
                             /\ sn'[m][ch] >= sn[m][ch]
  <2>1. \A m \in Members[ch] : m \in Ranks
    BY GroupAssumption
  <2>2. TypeOK' /\ 0..MaxSn \subseteq Int
    BY TypeNext, Bounds
  <2>3. \A m \in Ranks : sn[m][ch] \in Int /\ sn'[m][ch] \in Int
    BY <2>2 DEF TypeOK
  <2> QED
    BY <2>1, <2>3, SnGrows
<1>4. \A i \in 1..Len(s) : sn'[s[i].rank][ch] >= n
  <2> SUFFICES ASSUME NEW i \in 1..Len(s) PROVE sn'[s[i].rank][ch] >= n
    OBVIOUS
  <2> DEFINE q == s[i].rank
  <2>1. q \in Members[ch] /\ sn[q][ch] >= n
    BY <1>2
  <2> HIDE DEF q
  <2>2. sn'[q][ch] >= n
    BY <1>0, <1>3, <2>1
  <2> QED
    BY <2>2 DEF q
<1>5. CASE entries'[ch][n] = s
  BY <1>2, <1>4, <1>5
<1>6. CASE entries'[ch][n] = <<>>
  BY <1>6
<1>7. ASSUME NEW r \in Ranks, r \in Members[ch], sn[r][ch] = n - 1, sn'[r][ch] = n,
             entries'[ch][n] = Append(s, Entry(r, n))
      PROVE  /\ \A i \in 1..Len(entries'[ch][n]) :
                  LET q == entries'[ch][n][i].rank IN q \in Members[ch] /\ sn'[q][ch] >= n
             /\ \A i, j \in 1..Len(entries'[ch][n]) :
                  entries'[ch][n][i].rank = entries'[ch][n][j].rank => i = j
  <2> DEFINE t == entries'[ch][n]
  <2>1. Entry(r, n) \in Entries /\ Entry(r, n).rank = r
    BY DEF Entry, Entries
  <2>2. /\ Len(t) = Len(s) + 1 /\ Len(s) \in Nat
        /\ \A i \in 1..Len(s) : t[i] = s[i]
        /\ t[Len(s) + 1] = Entry(r, n)
    BY <1>1, <1>7, <2>1
  <2>3. \A i \in 1..Len(s) : s[i].rank # r
    <3>1. ~(sn[r][ch] >= n)
      BY <1>0, <1>7
    <3> QED
      BY <1>2, <3>1, Zenon
  <2> HIDE DEF s, t
  <2>4. \A i \in 1..Len(t) : i \in 1..Len(s) \/ i = Len(s) + 1
    BY <2>2
  <2>5. \A i \in 1..Len(t) : t[i].rank \in Members[ch] /\ sn'[t[i].rank][ch] >= n
    BY <1>0, <1>2, <1>4, <1>7, <2>1, <2>2, <2>4
  <2>6. \A i, j \in 1..Len(t) : t[i].rank = t[j].rank => i = j
    BY <1>2, <2>1, <2>2, <2>3, <2>4
  <2> QED
    BY <2>5, <2>6 DEF t
<1>8. ASSUME NEW r \in Ranks, Calling(r), Arrive(r)
      PROVE  \/ entries'[ch][n] = s
             \/ /\ r \in Members[ch] /\ sn[r][ch] = n - 1 /\ sn'[r][ch] = n
                /\ entries'[ch][n] = Append(s, Entry(r, n))
  <2>0. PICK c \in Channels, k \in 1..MaxSn, t \in Seq(Entries), d \in Seq(Keys) :
           Arrival(r, c, k, t, d)
    BY <1>8, ArriveFacts
  <2>1. /\ r \in Members[c]
        /\ sn[r][c] = k - 1
        /\ t = Append(entries[c][k], Entry(r, k))
        /\ sn' = [sn EXCEPT ![r][c] = k]
        /\ entries' = [entries EXCEPT ![c][k] = t]
    BY <2>0 DEF Arrival
  <2>2. CASE c = ch /\ k = n
    <3>1. entries'[ch][n] = t /\ sn'[r][ch] = n
      BY <2>1, <2>2 DEF TypeOK
    <3> QED
      BY <2>1, <2>2, <3>1
  <2>3. CASE ~(c = ch /\ k = n)
    BY <2>1, <2>3 DEF TypeOK
  <2> QED
    BY <2>2, <2>3
<1>9. ASSUME NEW r \in Ranks, Clean(r)
      PROVE  entries'[ch][n] = s \/ entries'[ch][n] = <<>>
  <2>1. \/ entries' = entries
        \/ \E c, k : entries' = [entries EXCEPT ![c][k] = <<>>]
    BY <1>9 DEF Clean
  <2>2. ASSUME NEW c, NEW k, entries' = [entries EXCEPT ![c][k] = <<>>]
        PROVE  entries'[ch][n] = s \/ entries'[ch][n] = <<>>
    BY <2>2 DEF TypeOK
  <2> QED
    BY <2>1, <2>2
<1>10. CASE entries' = entries
  BY <1>5, <1>10
<1> QED
  BY <1>5, <1>6, <1>7, <1>8, <1>9, <1>10, Split
  DEF Release, Pass, Collect, Fetched, Timeout, Return, vars

LEMMA CompleteNext ==
  ASSUME TypeOK, Arrived, Complete, [Next]_vars
  PROVE  Complete'
<1> DEFINE Knows(q) == \/ pc[q] = "clean" /\ IsLast(Op(q), val[q])
                       \/ pc[q] \in {"release", "fetch"}
<1>1. \A k \in released : AllIn(k[1], k[2])'
  <2> SUFFICES ASSUME NEW k \in released PROVE AllIn(k[1], k[2])'
    OBVIOUS
  <2>1. k[1] \in Channels /\ k[2] \in Int /\ AllIn(k[1], k[2])
    BY Bounds DEF TypeOK, Complete
  <2> QED
    BY <2>1, AllInKept
<1>2. ASSUME NEW q \in Ranks, pc[q] # "idle", AllIn(Op(q), Round(q)),
             Op(q)' = Op(q), Round(q)' = Round(q)
      PROVE  AllIn(Op(q), Round(q))'
  <2>1. Op(q) \in Channels /\ Round(q) \in Int
    BY <1>2, OpType, Bounds DEF TypeOK
  <2>2. \A c \in Channels, k \in Int : AllIn(c, k) => AllIn(c, k)'
    BY AllInKept
  <2>3. \A m \in Members[Op(q)] : sn'[m][Op(q)] >= Round(q)
    BY <1>2, <2>1, <2>2 DEF AllIn
  <2> QED
    BY <1>2, <2>3 DEF AllIn
<1>3. ASSUME NEW r \in Ranks, Calling(r), Arrive(r) PROVE Complete'
  <2>0. PICK ch \in Channels, n \in 1..MaxSn, s \in Seq(Entries), d \in Seq(Keys) :
           Arrival(r, ch, n, s, d)
    BY <1>3, ArriveFacts
  <2>1. /\ ch = Op(r) /\ r \in Members[ch]
        /\ s = Append(entries[ch][n], Entry(r, n))
        /\ sn' = [sn EXCEPT ![r][ch] = n]
        /\ entries' = [entries EXCEPT ![ch][n] = s]
        /\ val' = [val EXCEPT ![r] = Len(s)]
        /\ pc' = [pc EXCEPT ![r] = Proceed(ch, Len(s), d)]
        /\ pos' = pos /\ released' = released
    BY <2>0 DEF Arrival
  <2>2. ASSUME NEW q \in Ranks, q # r, Knows(q)' PROVE AllIn(Op(q), Round(q))'
    <3>1. Knows(q) /\ pc[q] # "idle" /\ Op(q)' = Op(q) /\ Round(q)' = Round(q)
      BY <2>1, <2>2 DEF TypeOK, Op, Round
    <3> QED
      BY <1>2, <3>1 DEF Complete
  <2>3. ASSUME Knows(r)' PROVE AllIn(Op(r), Round(r))'
    <3>1. Op(r)' = ch /\ Round(r)' = n /\ val'[r] = Len(s) /\ pc'[r] = Proceed(ch, Len(s), d)
      BY <2>1 DEF TypeOK, Op, Round
    <3>2. Len(s) = Size(ch)
      BY <2>3, <3>1 DEF Proceed, IsLast, Size
    <3>3. entries'[ch][n] = s
      BY <2>1 DEF TypeOK
    <3>4. Arrived'
      BY ArrivedNext
    <3>5. /\ \A i \in 1..Len(s) : s[i].rank \in Members[ch] /\ sn'[s[i].rank][ch] >= n
          /\ \A i, j \in 1..Len(s) : s[i].rank = s[j].rank => i = j
      BY <3>3, <3>4 DEF Arrived
    <3>6. \A m \in Members[ch] : \E i \in 1..Len(s) : s[i].rank = m
      BY <3>2, <3>5, Full
    <3>7. \A m \in Members[ch] : sn'[m][ch] >= n
      BY <3>5, <3>6
    <3> QED
      BY <3>1, <3>7 DEF AllIn
  <2> QED
    BY <1>1, <2>1, <2>2, <2>3 DEF Complete
<1>4. ASSUME NEW r \in Ranks, Calling(r), Clean(r) PROVE Complete'
  <2>1. released' \subseteq released
    BY <1>4 DEF Clean
  <2>2. ASSUME NEW q \in Ranks, Knows(q)' PROVE AllIn(Op(q), Round(q))'
    <3>1. Knows(q) /\ pc[q] # "idle" /\ Op(q)' = Op(q) /\ Round(q)' = Round(q)
      <4>1. CASE q = r
        BY <1>4, <2>2, <4>1 DEF Clean, TypeOK, Op, Round, Proceed, IsLast, Size
      <4>2. CASE q # r
        BY <1>4, <2>2, <4>2 DEF Clean, TypeOK, Op, Round
      <4> QED
        BY <4>1, <4>2
    <3> QED
      BY <1>2, <3>1 DEF Complete
  <2> QED
    BY <1>1, <2>1, <2>2 DEF Complete
<1>5. ASSUME NEW r \in Ranks, Calling(r), Release(r) PROVE Complete'
  <2>1. pc[r] = "release" /\ AllIn(Op(r), Round(r))
    BY <1>5 DEF Release, Complete
  <2>2. AllIn(Op(r), Round(r))' /\ Op(r)' = Op(r) /\ Round(r)' = Round(r)
    BY <1>2, <1>5, <2>1 DEF Release, Op, Round
  <2>3. \A k \in released' : AllIn(k[1], k[2])'
    <3> SUFFICES ASSUME NEW k \in released', k \notin released PROVE AllIn(k[1], k[2])'
      BY <1>1
    <3>1. k = <<Op(r), Round(r)>>
      BY <1>5 DEF Release
    <3>2. \A m \in Members[Op(r)] : sn'[m][Op(r)] >= Round(r)
      BY <2>2 DEF AllIn
    <3> QED
      BY <3>1, <3>2 DEF AllIn
  <2>4. ASSUME NEW q \in Ranks, Knows(q)' PROVE AllIn(Op(q), Round(q))'
    <3>1. Knows(q) /\ pc[q] # "idle" /\ Op(q)' = Op(q) /\ Round(q)' = Round(q)
      BY <1>5, <2>4 DEF Release, TypeOK, Op, Round
    <3> QED
      BY <1>2, <3>1 DEF Complete
  <2> QED
    BY <2>3, <2>4 DEF Complete
<1>6. ASSUME NEW r \in Ranks, NEW result, Return(r, result) PROVE Complete'
  <2>1. ASSUME NEW q \in Ranks, Knows(q)' PROVE AllIn(Op(q), Round(q))'
    <3>1. q # r
      BY <1>6, <2>1 DEF Return, TypeOK
    <3>2. Knows(q) /\ pc[q] # "idle" /\ Op(q)' = Op(q) /\ Round(q)' = Round(q)
      BY <1>6, <2>1, <3>1 DEF Return, TypeOK, Op, Round
    <3> QED
      BY <1>2, <3>2 DEF Complete
  <2> QED
    BY <1>1, <1>6, <2>1 DEF Complete, Return
<1>7. ASSUME NEW r \in Ranks, Calling(r), Collect(r) PROVE Complete'
  <2>1. pc[r] = "wait" /\ <<Op(r), Round(r)>> \in released
    BY <1>7 DEF Collect, Waited
  <2>2. AllIn(Op(r), Round(r))
    BY <2>1 DEF Complete
  <2>3. ASSUME NEW q \in Ranks, Knows(q)' PROVE AllIn(Op(q), Round(q))'
    <3>1. /\ Knows(q) \/ q = r
          /\ pc[q] # "idle" /\ Op(q)' = Op(q) /\ Round(q)' = Round(q)
      BY <1>7, <2>1, <2>3 DEF Collect, TypeOK, Op, Round
    <3>2. AllIn(Op(q), Round(q))
      BY <2>2, <3>1 DEF Complete
    <3> QED
      BY <1>2, <3>1, <3>2
  <2> QED
    BY <1>1, <1>7, <2>3 DEF Complete, Collect
<1>8. ASSUME UNCHANGED vars PROVE Complete'
  BY <1>8 DEF Complete, vars, AllIn, Op, Round
<1>9. ASSUME NEW r \in Ranks, Pass(r) \/ Fetched(r) \/ Timeout(r)
      PROVE  \E result : Return(r, result)
  BY <1>9 DEF Pass, Fetched, Timeout
<1> QED
  BY <1>3, <1>4, <1>5, <1>6, <1>7, <1>8, <1>9, Split

LEMMA ResultsNext ==
  ASSUME TypeOK, Complete, Results, [Next]_vars
  PROVE  Results'
<1> DEFINE Right(x) == \/ x = Nothing
                       \/ /\ x.ok = TRUE /\ x.ch \in Channels /\ x.n \in 1..MaxSn
                          /\ AllIn(x.ch, x.n)
<1>1. ASSUME NEW x, Right(x) PROVE Right(x)'
  <2>1. CASE x = Nothing
    BY <2>1
  <2>2. CASE /\ x.ok = TRUE /\ x.ch \in Channels /\ x.n \in 1..MaxSn
             /\ AllIn(x.ch, x.n)
    <3>1. x.n \in Int
      BY <2>2, Bounds
    <3>2. \A c \in Channels, k \in Int : AllIn(c, k) => AllIn(c, k)'
      BY AllInKept
    <3>3. \A m \in Members[x.ch] : sn'[m][x.ch] >= x.n
      BY <2>2, <3>1, <3>2 DEF AllIn
    <3> QED
      BY <2>2, <3>3 DEF AllIn
  <2> QED
    BY <1>1, <2>1, <2>2
<1>2. \A r \in Ranks : Right(last[r])
  BY DEF Results
<1>3. ASSUME last' = last PROVE Results'
  <2>1. \A r \in Ranks : Right(last[r])'
    BY <1>1, <1>2, <1>3
  <2> QED
    BY <2>1 DEF Results
<1>4. ASSUME NEW r \in Ranks, NEW x, Return(r, x), Right(x) PROVE Results'
  <2>1. \A q \in Ranks : last'[q] = last[q] \/ last'[q] = x
    BY <1>4 DEF Return, TypeOK
  <2>2. \A q \in Ranks : Right(last[q])'
    BY <1>1, <1>2, <1>4, <2>1
  <2> QED
    BY <2>2 DEF Results
<1>5. ASSUME NEW r \in Ranks, Calling(r), pc[r] # "idle"
      PROVE  Op(r) \in Channels /\ Round(r) \in 1..MaxSn
  <2>1. Op(r) \in Channels /\ Round(r) \in 0..MaxSn /\ Round(r) >= 1
    BY <1>5, OpType DEF TypeOK
  <2> QED
    BY <2>1, Bounds
<1>6. ASSUME NEW r \in Ranks, Calling(r), Pass(r) PROVE Results'
  <2> DEFINE x == [ok |-> TRUE, ch |-> Op(r), n |-> Round(r)]
  <2>1. pc[r] = "wait" /\ <<Op(r), Round(r)>> \in released /\ Return(r, x)
    BY <1>6 DEF Pass, Waited
  <2>2. Op(r) \in Channels /\ Round(r) \in 1..MaxSn /\ AllIn(Op(r), Round(r))
    BY <1>5, <1>6, <2>1 DEF Complete
  <2>3. Right(x)
    BY <2>2
  <2> QED
    BY <1>4, <2>1, <2>3
<1>7. ASSUME NEW r \in Ranks, Calling(r), Fetched(r) PROVE Results'
  <2> DEFINE recv == SortGatherRecv(entries[Op(r)][Round(r)])
             x == [ok |-> TRUE, ch |-> Op(r), n |-> Round(r), recv |-> recv]
  <2>1. pc[r] = "fetch" /\ (Return(r, x) \/ Return(r, Nothing))
    BY <1>7 DEF Fetched
  <2> HIDE DEF recv
  <2>2. Op(r) \in Channels /\ Round(r) \in 1..MaxSn /\ AllIn(Op(r), Round(r))
    BY <1>5, <1>7, <2>1 DEF Complete
  <2>3. Right(x) /\ Right(Nothing)
    BY <2>2
  <2> QED
    BY <1>4, <2>1, <2>3
<1>8. ASSUME NEW r \in Ranks, Timeout(r) PROVE Results'
  BY <1>4, <1>8 DEF Timeout
<1> QED
  BY <1>3, <1>6, <1>7, <1>8, Split DEF Arrive, Clean, Release, Collect, vars

LEMMA DrainingNext ==
  ASSUME TypeOK, Draining, [Next]_vars
  PROVE  Draining'
<1>1. ASSUME NEW r \in Ranks, Calling(r), Arrive(r) PROVE Draining'
  <2>0. PICK ch \in Channels, n \in 1..MaxSn, s \in Seq(Entries), d \in Seq(Keys) :
           Arrival(r, ch, n, s, d)
    BY <1>1, ArriveFacts
  <2>1. /\ delayed' = [delayed EXCEPT ![r] = d]
        /\ pc' = [pc EXCEPT ![r] = Proceed(ch, Len(s), d)]
    BY <2>0 DEF Arrival
  <2>2. Proceed(ch, Len(s), d) = "clean" => d # <<>>
    BY Bounds DEF Proceed
  <2> QED
    BY <2>1, <2>2 DEF Draining, TypeOK
<1>2. ASSUME NEW r \in Ranks, Clean(r) PROVE Draining'
  <2> DEFINE d == Tail(delayed[r])
  <2>1. /\ delayed' = [delayed EXCEPT ![r] = d]
        /\ pc' = [pc EXCEPT ![r] = Proceed(Op(r), val[r], d)]
    BY <1>2 DEF Clean
  <2> HIDE DEF d
  <2>2. Proceed(Op(r), val[r], d) = "clean" => d # <<>>
    <3>1. Len(<<>>) = 0
      OBVIOUS
    <3> QED
      BY <3>1, Bounds DEF Proceed
  <2> QED
    BY <2>1, <2>2 DEF Draining, TypeOK
<1>3. ASSUME delayed' = delayed, \A r \in Ranks : pc'[r] = "clean" => pc[r] = "clean"
      PROVE  Draining'
  BY <1>3 DEF Draining
<1>4. ASSUME NEW r \in Ranks, Release(r) \/ Pass(r) \/ Collect(r) \/ Fetched(r) \/ Timeout(r)
      PROVE  delayed' = delayed /\ \A q \in Ranks : pc'[q] = "clean" => pc[q] = "clean"
  BY <1>4 DEF Release, Pass, Collect, Fetched, Timeout, Return, TypeOK
<1> QED
  BY <1>1, <1>2, <1>3, <1>4, Split DEF vars

LEMMA QueuedNext ==
  ASSUME TypeOK, Queued, Draining, [Next]_vars
  PROVE  Queued'
<1> DEFINE Old(r, k) == r \in Members[k.ch] /\ k.n + RemoveInterval <= sn[r][k.ch]
           Older(r, k) == r \in Members[k.ch] /\ k.n + RemoveInterval <= sn'[r][k.ch]
<1>1. ASSUME NEW r \in Ranks, NEW k \in Keys, Old(r, k) PROVE Older(r, k)
  <2>1. k.ch \in Channels /\ k.n \in 1..MaxSn
    BY DEF Keys
  <2>2. 0..MaxSn \subseteq Int /\ 1..MaxSn \subseteq Int /\ RemoveInterval \in Int
    BY Bounds
  <2>3. sn[r][k.ch] \in Int /\ sn'[r][k.ch] \in Int /\ sn'[r][k.ch] >= sn[r][k.ch]
    BY <2>1, SnType
  <2>4. k.n \in Int /\ r \in Members[k.ch] /\ k.n + RemoveInterval <= sn[r][k.ch]
    BY <1>1, <2>1, <2>2
  <2> QED
    BY <2>2, <2>3, <2>4, StaysBehind
<1>2. \A r \in Ranks : delayed[r] \in Seq(Keys)
  BY DEF TypeOK
<1>a. \A r \in Ranks : \A i \in 1..Len(delayed[r]) : Old(r, delayed[r][i])
  BY DEF Queued
<1>b. ASSUME \A r \in Ranks : \A i \in 1..Len(delayed'[r]) : Older(r, delayed'[r][i])
      PROVE  Queued'
  BY <1>b DEF Queued
<1> HIDE DEF Old, Older
<1>3. \A r \in Ranks : \A i \in 1..Len(delayed[r]) : Older(r, delayed[r][i])
  BY <1>1, <1>2, <1>a
<1>4. ASSUME delayed' = delayed PROVE Queued'
  BY <1>3, <1>4, <1>b
<1>5. ASSUME NEW r \in Ranks, Calling(r), Arrive(r) PROVE Queued'
  <2>0. PICK ch \in Channels, n \in 1..MaxSn, s \in Seq(Entries), d \in Seq(Keys) :
           Arrival(r, ch, n, s, d)
    BY <1>5, ArriveFacts
  <2>1. /\ r \in Members[ch]
        /\ \/ d = delayed[r]
           \/ n > RemoveInterval /\ d = delayed[r] \o OldKeys(ch, OldRound(n))
        /\ sn' = [sn EXCEPT ![r][ch] = n]
        /\ delayed' = [delayed EXCEPT ![r] = d]
    BY <2>0 DEF Arrival
  <2>2. CASE d = delayed[r]
    <3>1. delayed' = delayed
      BY <2>1, <2>2 DEF TypeOK
    <3> QED
      BY <1>4, <3>1
  <2>3. CASE n > RemoveInterval /\ d = delayed[r] \o OldKeys(ch, OldRound(n))
    <3>1. sn'[r][ch] = n /\ n \in Int
      <4>1. n \in Int
        BY Bounds
      <4> QED
        BY <2>1, <4>1, SnSet
    <3>2. \A part : Older(r, Key(ch, OldRound(n), part))
      BY <2>1, <3>1, Bounds DEF Key, OldRound, Older
    <3>3. \A i \in 1..Len(d) :
             \/ i \in 1..Len(delayed[r]) /\ d[i] = delayed[r][i]
             \/ d[i] = Key(ch, OldRound(n), "add") \/ d[i] = Key(ch, OldRound(n), "wait")
      <4> DEFINE a == Key(ch, OldRound(n), "add")
                 b == Key(ch, OldRound(n), "wait")
                 old == delayed[r]
      <4> HIDE DEF a, b, old
      <4>1. old \in Seq(Keys) /\ d = old \o <<a, b>>
        BY <1>2, <2>3 DEF OldKeys, a, b, old
      <4>2. \A i \in 1..Len(old \o <<a, b>>) :
              \/ i \in 1..Len(old) /\ (old \o <<a, b>>)[i] = old[i]
              \/ (old \o <<a, b>>)[i] = a \/ (old \o <<a, b>>)[i] = b
        BY <4>1
      <4> QED
        BY <4>1, <4>2 DEF a, b, old
    <3>4. \A i \in 1..Len(d) : Older(r, d[i])
      BY <1>3, <3>2, <3>3
    <3>5. \A q \in Ranks : delayed'[q] = IF q = r THEN d ELSE delayed[q]
      BY <2>1 DEF TypeOK
    <3> QED
      BY <1>3, <1>b, <3>4, <3>5
  <2> QED
    BY <2>1, <2>2, <2>3
<1>6. ASSUME NEW r \in Ranks, Clean(r), delayed[r] # <<>> PROVE Queued'
  <2>1. \A q \in Ranks : delayed'[q] = IF q = r THEN Tail(delayed[r]) ELSE delayed[q]
    BY <1>6 DEF Clean, TypeOK
  <2>2. \A i \in 1..Len(Tail(delayed[r])) : Older(r, Tail(delayed[r])[i])
    <3>1. \A t \in Seq(Keys) : t # <<>> => \A i \in 1..Len(Tail(t)) :
             i + 1 \in 1..Len(t) /\ Tail(t)[i] = t[i + 1]
      OBVIOUS
    <3> QED
      BY <1>2, <1>3, <1>6, <3>1
  <2> QED
    BY <1>3, <1>b, <2>1, <2>2
<1>7. ASSUME NEW r \in Ranks, Clean(r) PROVE delayed[r] # <<>>
  BY <1>7 DEF Clean, Draining
<1> QED
  BY <1>4, <1>5, <1>6, <1>7, Split DEF Release, Pass, Collect, Fetched, Timeout, Return, vars

LEMMA AheadNext ==
  ASSUME TypeOK, Complete, Ahead, [Next]_vars
  PROVE  Ahead'
<1> SUFFICES ASSUME failed' = {},
                    NEW r \in Ranks, NEW ch \in Channels, NEW n \in 1..MaxSn,
                    r \in Members[ch], Done(r, ch, n)'
             PROVE  AllIn(ch, n)'
  BY DEF Ahead
<1>0. n \in Int /\ sn[r][ch] \in Int /\ sn'[r][ch] \in Int
  BY Bounds, SnType
<1>1. failed = {}
  BY Split DEF Arrive, Clean, Release, Pass, Collect, Fetched, Timeout, vars
<1>2. CASE Done(r, ch, n)
  BY <1>0, <1>1, <1>2, AllInKept DEF Ahead
<1>3. CASE AllIn(ch, n)
  BY <1>0, <1>3, AllInKept
<1>4. ASSUME NEW q \in Ranks, Calling(q), Arrive(q) PROVE Done(r, ch, n)
  <2>0. PICK c \in Channels, k \in 1..MaxSn, s \in Seq(Entries), d \in Seq(Keys) :
           Arrival(q, c, k, s, d)
    BY <1>4, ArriveFacts
  <2>1. /\ c = Op(q) /\ pc[q] = "idle" /\ sn[q][c] = k - 1
        /\ sn' = [sn EXCEPT ![q][c] = k]
        /\ pc' = [pc EXCEPT ![q] = Proceed(c, Len(s), d)]
        /\ pos' = pos
    BY <2>0 DEF Arrival
  <2>2. CASE q = r /\ c = ch
    <3>1. sn'[r][ch] = k /\ InCall(r, ch)' /\ k \in Int
      <4>0. k \in Int
        BY Bounds
      <4>1. pc \in [Ranks -> Steps]
        BY DEF TypeOK
      <4>2. sn'[r][ch] = k
        BY <2>1, <2>2, SnSet
      <4>3. pc'[r] # "idle"
        BY <2>1, <2>2, <4>1 DEF Proceed
      <4>4. Op(r)' = ch
        BY <2>1, <2>2 DEF Op
      <4> QED
        BY <4>0, <4>2, <4>3, <4>4 DEF InCall
    <3>2. k > n
      BY <1>0, <3>1 DEF Done
    <3> QED
      BY <1>0, <2>1, <2>2, <3>1, <3>2 DEF Done, InCall
  <2>3. CASE q = r /\ c # ch
    BY <1>0, <2>1, <2>3 DEF Done, InCall, TypeOK
  <2>4. CASE q # r
    BY <1>0, <2>1, <2>4 DEF Done, InCall, TypeOK, Op
  <2> QED
    BY <2>2, <2>3, <2>4
<1>5. ASSUME sn' = sn, pos' = pos, pc[r] # "idle" => pc'[r] # "idle" PROVE Done(r, ch, n)
  BY <1>5 DEF Done, InCall, Op
<1>6. ASSUME NEW q \in Ranks, Calling(q), NEW x, Return(q, x), AllIn(Op(q), Round(q))
      PROVE  Done(r, ch, n) \/ AllIn(ch, n)
  <2>1. sn' = sn /\ pos' = [pos EXCEPT ![q] = @ + 1] /\ pc' = [pc EXCEPT ![q] = "idle"]
    BY <1>6 DEF Return
  <2>2. CASE q # r
    BY <2>1, <2>2 DEF Done, InCall, Op, TypeOK
  <2>3. CASE q = r /\ Op(q) # ch
    BY <2>1, <2>3 DEF Done, InCall
  <2>4. CASE q = r /\ Op(q) = ch
    <3>1. sn[r][ch] > n \/ sn[r][ch] = n
      BY <2>1 DEF Done
    <3> QED
      BY <1>6, <2>4, <3>1 DEF Done, Round
  <2> QED
    BY <2>2, <2>3, <2>4
<1>7. ASSUME NEW q \in Ranks, Calling(q), Pass(q) PROVE Done(r, ch, n) \/ AllIn(ch, n)
  <2>1. AllIn(Op(q), Round(q)) /\ \E x : Return(q, x)
    BY <1>7 DEF Pass, Waited, Complete
  <2> QED
    BY <1>6, <1>7, <2>1
<1>8. ASSUME NEW q \in Ranks, Calling(q), Fetched(q) PROVE Done(r, ch, n) \/ AllIn(ch, n)
  <2>1. AllIn(Op(q), Round(q)) /\ \E x : Return(q, x)
    BY <1>8 DEF Fetched, Complete
  <2> QED
    BY <1>6, <1>8, <2>1
<1>9. ASSUME NEW q \in Ranks, Timeout(q) PROVE FALSE
  BY <1>9 DEF Timeout
<1>10. ASSUME NEW q \in Ranks, Clean(q) \/ Release(q) \/ Collect(q)
       PROVE  sn' = sn /\ pos' = pos /\ (pc[r] # "idle" => pc'[r] # "idle")
  BY <1>10 DEF Clean, Release, Collect, Proceed, TypeOK
<1> QED
  BY <1>2, <1>3, <1>4, <1>5, <1>7, <1>8, <1>9, <1>10, Split DEF vars

-----------------------------------------------------------------------------
LEMMA InvInit == Init => IInv
<1> SUFFICES ASSUME Init PROVE IInv
  OBVIOUS
<1>1. TypeOK
  BY TypeInit
<1>2. Arrived
  <2>1. \A ch \in Channels, n \in 1..MaxSn : entries[ch][n] = <<>>
    BY DEF Init
  <2>2. 1..Len(<<>>) = {}
    OBVIOUS
  <2> QED
    BY <2>1, <2>2 DEF Arrived
<1>4. Complete
  BY DEF Init, Complete
<1>5. Results
  BY DEF Init, Results
<1>6. Queued /\ Draining
  BY DEF Init, Queued, Draining
<1>3. Ahead
  BY Bounds DEF Init, Ahead, Done
<1> QED
  BY <1>1, <1>2, <1>3, <1>4, <1>5, <1>6 DEF IInv

LEMMA InvNext == IInv /\ [Next]_vars => IInv'
BY TypeNext, ArrivedNext, CompleteNext, ResultsNext, QueuedNext, DrainingNext, AheadNext DEF IInv

\* IInv is an inductive invariant of the protocol.
THEOREM Invariance == Spec => []IInv
BY InvInit, InvNext, PTL DEF Spec

\* For any ranks, channels, programs and delays, and whatever calls time out,
\* the variables keep their types.
THEOREM TypeCorrect == Spec => []TypeOK
<1>1. IInv => TypeOK
  BY DEF IInv
<1> QED
  BY <1>1, Invariance, PTL

\* For any ranks, channels, programs and delays, and whatever calls time out,
\* GroupBarrier and GroupAllGather return SM_OK only after every member has
\* arrived in the round.
THEOREM NobodyLeavesEarly == Spec => []LeavesTogether
<1>1. IInv => LeavesTogether
  <2> SUFFICES ASSUME Results, NEW r \in Ranks, last[r].ok
               PROVE  \A m \in Members[last[r].ch] : sn[m][last[r].ch] >= last[r].n
    BY DEF IInv, LeavesTogether
  <2>1. Nothing.ok = FALSE
    BY DEF Nothing
  <2>2. last[r] # Nothing
    BY <2>1, Zenon
  <2>3. AllIn(last[r].ch, last[r].n)
    BY <2>2, Zenon DEF Results
  <2> QED
    BY <2>3, Zenon DEF AllIn
<1> QED
  BY <1>1, Invariance, PTL

\* For any ranks, channels, programs and delays, with a RemoveInterval of at
\* least 2: as long as no call has timed out, GroupOldKeyDelayClean removes
\* only keys of rounds that every member has returned from.
THEOREM CleaningIsSafe == Spec => RemovesOnlyDone
<1> DEFINE Safe == \A ch \in Channels, n \in 1..MaxSn :
             (/\ failed = {}
              /\ \/ entries[ch][n] # <<>> /\ entries'[ch][n] = <<>>
                 \/ <<ch, n>> \in released /\ <<ch, n>> \notin released')
             => \A m \in Members[ch] : Done(m, ch, n)
<1>1. ASSUME IInv, [Next]_vars PROVE Safe
  <2> SUFFICES ASSUME NEW ch \in Channels, NEW n \in 1..MaxSn, failed = {},
                      \/ entries[ch][n] # <<>> /\ entries'[ch][n] = <<>>
                      \/ <<ch, n>> \in released /\ <<ch, n>> \notin released',
                      NEW m \in Members[ch]
               PROVE  Done(m, ch, n)
    OBVIOUS
  <2>1. TypeOK /\ Queued /\ Draining /\ Ahead
    BY <1>1 DEF IInv
  <2>2. ASSUME NEW r \in Ranks, Calling(r), Arrive(r) PROVE FALSE
    <3>0. PICK c \in Channels, k \in 1..MaxSn, s \in Seq(Entries), d \in Seq(Keys) :
             Arrival(r, c, k, s, d)
      BY <2>1, <2>2, ArriveFacts
    <3>1. /\ s = Append(entries[c][k], Entry(r, k)) /\ released' = released
          /\ entries' = [entries EXCEPT ![c][k] = s]
      BY <3>0 DEF Arrival
    <3>2. entries[c] \in [1..MaxSn -> Seq(Entries)]
      BY <2>1 DEF TypeOK
    <3>3. entries[c][k] \in Seq(Entries) /\ Entry(r, k) \in Entries
      BY <3>2 DEF Entry, Entries
    <3>4. s # <<>>
      BY <3>1, <3>3
    <3> QED
      BY <2>1, <3>1, <3>4 DEF TypeOK
  <2>3. ASSUME NEW r \in Ranks, Calling(r), Clean(r) PROVE Done(m, ch, n)
    <3> DEFINE k == Head(delayed[r])
    <3> HIDE DEF k
    <3>0. /\ entries' = entries \/ entries' = [entries EXCEPT ![k.ch][k.n] = <<>>]
          /\ released' = released \/ released' = released \ {<<k.ch, k.n>>}
      BY <2>3 DEF Clean, k
    <3>2. delayed[r] \in Seq(Keys) /\ delayed[r] # <<>>
      BY <2>1, <2>3 DEF Clean, Draining, TypeOK
    <3>1. k.ch = ch /\ k.n = n
      <4>2. CASE entries[ch][n] # <<>> /\ entries'[ch][n] = <<>>
        <5>0. k \in Keys
          BY <3>2 DEF k
        <5>1. k.ch \in Channels /\ k.n \in 1..MaxSn
          BY <5>0 DEF Keys
        <5>2. entries' = [entries EXCEPT ![k.ch][k.n] = <<>>]
          BY <3>0, <4>2
        <5> QED
          BY <2>1, <4>2, <5>1, <5>2, OtherEntriesStay
      <4>3. CASE <<ch, n>> \in released /\ <<ch, n>> \notin released'
        BY <3>0, <4>3
      <4> QED
        BY <4>2, <4>3
    <3>3. k = delayed[r][1] /\ 1 \in 1..Len(delayed[r])
      BY <3>2 DEF k
    <3>4. r \in Members[ch] /\ n + RemoveInterval <= sn[r][ch]
      BY <2>1, <3>1, <3>3 DEF Queued
    <3>5. m \in Ranks
      BY GroupAssumption
    <3>6. sn[r][ch] \in 0..MaxSn /\ sn[m][ch] \in 0..MaxSn
      BY <2>1, <3>5 DEF TypeOK
    <3>7. n + 1 \in 1..MaxSn /\ sn[r][ch] > n + 1
      BY <3>4, <3>6, RoundAfter
    <3>8. AllIn(ch, n + 1)
      BY <2>1, <3>4, <3>7 DEF Ahead, Done
    <3>9. sn[m][ch] >= n + 1
      BY <3>8 DEF AllIn
    <3> QED
      BY <3>6, <3>9, Bounds DEF Done
  <2>4. ASSUME NEW r \in Ranks, Release(r) PROVE FALSE
    BY <2>4 DEF Release
  <2> QED
    BY <1>1, <2>1, <2>2, <2>3, <2>4, Split
    DEF Pass, Collect, Fetched, Timeout, Return, vars
<1>2. IInv /\ [Next]_vars => [Safe]_vars
  BY <1>1
<1> QED
  BY <1>2, Invariance, PTL DEF Spec, RemovesOnlyDone

=============================================================================
