------------------------- MODULE ResidentCacheProofs ------------------------
(***************************************************************************)
(* Coherence of the resident slots, for every number of requests, tokens,  *)
(* slots and rewrites.  Coherent only speaks of the moments when no copy   *)
(* is pending, so it is not inductive; Fresh says the same of every slot   *)
(* and side whose own copy is done, at any moment, and Owned that a row    *)
(* without an owner holds nothing.                                         *)
(***************************************************************************)
EXTENDS ResidentCache, TLAPS

Current(x, s) ==
  data[x][s] = [req |-> owner, token |-> holds[s], version |-> host[owner][holds[s]]]

Fresh ==
  \A x \in Sides, s \in Slots :
    (<<x, s>> \notin pending /\ holds[s] # None /\ holds[s] < dirty[owner]) => Current(x, s)

Owned ==
  /\ \A s \in Slots : holds[s] # None => owner \in Reqs
  /\ \A x \in Sides, s \in Slots : <<x, s>> \in pending => holds[s] # None

IInv == TypeOK /\ Owned /\ Fresh

\* A token is a natural number below MaxToken, and is not None.
LEMMA TokenFacts ==
  ASSUME Bounded
  PROVE  /\ \A t \in Tokens : t \in Int /\ t >= 0 /\ t < MaxToken /\ t # None
         /\ None \in Int
  BY DEF Bounded, Tokens, None

\* Initially every slot is empty.
LEMMA InitInv == ASSUME Bounded PROVE Init => IInv
<1> SUFFICES ASSUME Init PROVE IInv
  OBVIOUS
<1>1. TypeOK
  <2>1. /\ 0 \in 0 .. MaxVersion
        /\ MaxToken \in 0 .. MaxToken
    BY DEF Bounded
  <2>2. Nothing \in Contents
    BY <2>1 DEF Nothing, Contents
  <2> QED
    BY <2>1, <2>2 DEF Init, TypeOK
<1>2. Owned
  BY DEF Init, Owned
<1>3. Fresh
  BY DEF Init, Fresh
<1> QED
  BY <1>1, <1>2, <1>3 DEF IInv

\* The host rewrites a token of request r: the slots with that token, or a
\* later one, no longer count as fresh.
LEMMA RewriteInv ==
  ASSUME Bounded, IInv, NEW r \in Reqs, NEW t \in Tokens, Rewrite(r, t)
  PROVE  IInv'
<1>1. TypeOK'
  <2>1. host[r][t] + 1 \in 0 .. MaxVersion
    BY DEF Bounded, IInv, TypeOK, Rewrite
  <2>2. host' \in [Reqs -> [Tokens -> 0 .. MaxVersion]]
    BY <2>1 DEF IInv, TypeOK, Rewrite
  <2>3. t \in 0 .. MaxToken
    BY TokenFacts DEF Bounded, Tokens
  <2>4. dirty' \in [Reqs -> 0 .. MaxToken]
    BY <2>3 DEF IInv, TypeOK, Rewrite
  <2> QED
    BY <2>2, <2>4 DEF IInv, TypeOK, Rewrite
<1>2. Owned'
  BY DEF IInv, Owned, Rewrite
<1>3. Fresh'
  <2> SUFFICES ASSUME NEW x \in Sides, NEW s \in Slots,
                      holds[s] # None, holds[s] < dirty'[owner]
               PROVE  Current(x, s)'
    BY DEF Fresh, Rewrite
  <2>1. owner \in Reqs /\ holds[s] \in Tokens
    BY DEF IInv, Owned, TypeOK
  <2>2. CASE owner # r
    <3>1. dirty'[owner] = dirty[owner] /\ host'[owner] = host[owner]
      BY <2>1, <2>2 DEF IInv, TypeOK, Rewrite
    <3>2. Current(x, s)
      BY <3>1 DEF IInv, Fresh, Rewrite
    <3> QED
      BY <3>1, <3>2 DEF Current, Rewrite
  <2>3. CASE owner = r
    <3>1. dirty'[r] = IF t < dirty[r] THEN t ELSE dirty[r]
      BY DEF IInv, TypeOK, Rewrite
    <3>2. dirty[r] \in Int
      BY DEF IInv, TypeOK
    <3>3. holds[s] < dirty[r] /\ holds[s] # t
      BY <2>1, <2>3, <3>1, <3>2, TokenFacts
    <3>4. Current(x, s)
      BY <2>3, <3>3 DEF IInv, Fresh, Rewrite
    <3>5. host'[r][holds[s]] = host[r][holds[s]]
      BY <2>1, <3>3 DEF IInv, TypeOK, Rewrite
    <3> QED
      BY <2>3, <3>4, <3>5 DEF Current, Rewrite
  <2> QED
    BY <2>2, <2>3
<1> QED
  BY <1>1, <1>2, <1>3 DEF IInv

\* A call: a slot that is not replaced keeps a token below the stable prefix,
\* which the host has not rewritten.
LEMMA CallInv ==
  ASSUME Bounded, IInv, NEW r \in Reqs, NEW prefix \in 0 .. MaxToken,
         NEW new \in [Slots -> Tokens \cup {None}], Call(r, prefix, new)
  PROVE  IInv'
<1>1. TypeOK'
  <2>1. MaxToken \in 0 .. MaxToken
    BY DEF Bounded
  <2> QED
    BY <2>1 DEF IInv, TypeOK, Call
<1>2. Owned'
  <2>1. \A x \in Sides, s \in Slots : <<x, s>> \in pending' => new[s] # None
    BY DEF Call
  <2> QED
    BY <2>1 DEF Owned, Call
<1>3. Fresh'
  <2> SUFFICES ASSUME NEW x \in Sides, NEW s \in Slots,
                      <<x, s>> \notin pending', new[s] # None
               PROVE  Current(x, s)'
    BY DEF Fresh, Call
  <2>1. new[s] = Kept(r, prefix, s)
    BY DEF Call
  <2>2. owner = r /\ holds[s] = new[s] /\ holds[s] # None /\ holds[s] < prefix
    BY <2>1 DEF Kept
  <2>3. holds[s] \in Int /\ prefix \in Int /\ dirty[r] \in Int /\ prefix <= dirty[r]
    BY TokenFacts DEF IInv, TypeOK, Call
  <2>4. holds[s] < dirty[owner]
    BY <2>2, <2>3
  <2>5. <<x, s>> \notin pending
    BY DEF Call
  <2>6. Current(x, s)
    BY <2>2, <2>4, <2>5 DEF IInv, Fresh
  <2> QED
    BY <2>2, <2>6 DEF Current, Call
<1> QED
  BY <1>1, <1>2, <1>3 DEF IInv

\* One copy makes its own slot and side current and touches no other.
LEMMA CopyInv ==
  ASSUME Bounded, IInv, NEW x \in Sides, NEW s \in Slots, Copy(x, s)
  PROVE  IInv'
<1>1. holds[s] \in Tokens /\ owner \in Reqs
  BY DEF IInv, Owned, TypeOK, Copy
<1> DEFINE c == [req |-> owner, token |-> holds[s], version |-> host[owner][holds[s]]]
<1>2. c \in Contents
  BY <1>1 DEF IInv, TypeOK, Contents
<1>3. data' = [data EXCEPT ![x][s] = c]
  BY DEF Copy
<1> HIDE DEF c
<1>4. TypeOK'
  <2>1. data' \in [Sides -> [Slots -> Contents]]
    BY <1>2, <1>3 DEF IInv, TypeOK
  <2> QED
    BY <2>1 DEF IInv, TypeOK, Copy
<1>5. Owned'
  BY DEF IInv, Owned, Copy
<1>6. Fresh'
  <2> SUFFICES ASSUME NEW y \in Sides, NEW z \in Slots,
                      <<y, z>> \notin pending', holds[z] # None, holds[z] < dirty[owner]
               PROVE  Current(y, z)'
    BY DEF Fresh, Copy
  <2>1. CASE y = x /\ z = s
    <3>1. data'[x][s] = c
      BY <1>3 DEF IInv, TypeOK
    <3> QED
      BY <2>1, <3>1 DEF c, Current, Copy
  <2>2. CASE ~(y = x /\ z = s)
    <3>1. data'[y][z] = data[y][z]
      BY <1>3, <2>2 DEF IInv, TypeOK
    <3>2. <<y, z>> \notin pending
      BY <2>2 DEF Copy
    <3>3. Current(y, z)
      BY <3>2 DEF IInv, Fresh
    <3> QED
      BY <3>1, <3>3 DEF Current, Copy
  <2> QED
    BY <2>1, <2>2
<1> QED
  BY <1>4, <1>5, <1>6 DEF IInv

\* Every reachable state satisfies the inductive invariant.
THEOREM Invariance == ASSUME Bounded PROVE Spec => []IInv
<1>1. Init => IInv
  BY InitInv
<1>2. IInv /\ [Next]_vars => IInv'
  <2> SUFFICES ASSUME IInv, [Next]_vars PROVE IInv'
    OBVIOUS
  <2>1. ASSUME NEW r \in Reqs, NEW t \in Tokens, Rewrite(r, t) PROVE IInv'
    BY <2>1, RewriteInv
  <2>2. ASSUME NEW r \in Reqs, NEW prefix \in 0 .. MaxToken,
               NEW new \in [Slots -> Tokens \cup {None}], Call(r, prefix, new)
        PROVE  IInv'
    BY <2>2, CallInv
  <2>3. ASSUME NEW x \in Sides, NEW s \in Slots, Copy(x, s) PROVE IInv'
    BY <2>3, CopyInv
  <2>4. CASE UNCHANGED vars
    BY <2>4 DEF vars, IInv, TypeOK, Owned, Fresh, Current
  <2> QED
    BY <2>1, <2>2, <2>3, <2>4 DEF Next
<1> QED
  BY <1>1, <1>2, PTL DEF Spec

\* Once the copies of a call are done, a slot that the row serves a token from
\* holds the bytes the host has for it (LRU Compact, ResidentAddrs and sparse
\* copy taken together).
THEOREM Coherence == ASSUME Bounded PROVE Spec => []Coherent
<1>1. IInv => Coherent
  BY DEF IInv, Fresh, Coherent, Current
<1> QED
  BY <1>1, Invariance, PTL
=============================================================================
