---------------------------- MODULE ResidentCache ---------------------------
(***************************************************************************)
(* What sparse KV offload promises the attention of one row: a resident    *)
(* slot that the row serves a token from holds the bytes the host pool has *)
(* for it now.  Which slots are replaced is left open here; the LRU order, *)
(* the descriptors and the cores are in OffloadPipeline, which implements  *)
(* this specification.                                                     *)
(*                                                                         *)
(* Between two calls the host may rewrite tokens (a rejected speculative   *)
(* suffix, say); the stable prefix it announces with the next call of the  *)
(* request does not reach past the first one it has rewritten.             *)
(***************************************************************************)
EXTENDS Integers

CONSTANTS
  Reqs,        \* requests
  NoOwner,     \* the row serves none yet
  MaxToken,    \* tokens are 0 .. MaxToken-1
  Slots,       \* resident slots
  MaxVersion   \* bound: how often a token is rewritten

Bounded == MaxToken \in Nat /\ MaxVersion \in Nat

Tokens == 0 .. MaxToken - 1
None   == -1
Sides  == {"K", "V"}

VARIABLES
  host,    \* by request and token: the version of its bytes in the host pool
  dirty,   \* by request: first token rewritten since its last call
  owner,   \* the request the row serves
  holds,   \* by slot: the token it is taken to hold
  data,    \* by side and slot: what it holds
  pending  \* the copies still to be done

vars == <<host, dirty, owner, holds, data, pending>>

Contents ==
  [req : Reqs \cup {NoOwner}, token : Tokens \cup {None}, version : 0 .. MaxVersion]
Nothing == [req |-> NoOwner, token |-> None, version |-> 0]

Init ==
  /\ host = [r \in Reqs |-> [t \in Tokens |-> 0]]
  /\ dirty = [r \in Reqs |-> MaxToken]
  /\ owner = NoOwner
  /\ holds = [s \in Slots |-> None]
  /\ data = [x \in Sides |-> [s \in Slots |-> Nothing]]
  /\ pending = {}

\* The host rewrites a token between two calls.
Rewrite(r, t) ==
  /\ pending = {} /\ host[r][t] < MaxVersion
  /\ host' = [host EXCEPT ![r][t] = @ + 1]
  /\ dirty' = [dirty EXCEPT ![r] = IF t < @ THEN t ELSE @]
  /\ UNCHANGED <<owner, holds, data, pending>>

\* The token slot s keeps when request r calls with a stable prefix.
Kept(r, prefix, s) ==
  IF owner = r /\ holds[s] # None /\ holds[s] < prefix THEN holds[s] ELSE None

\* A call replaces any slots, and owes a copy of both sides for each of them.
Call(r, prefix, new) ==
  /\ pending = {} /\ prefix <= dirty[r]
  /\ owner' = r /\ holds' = new
  /\ pending' = {xs \in Sides \X Slots : new[xs[2]] # Kept(r, prefix, xs[2])}
  /\ \A s \in Slots : new[s] = None => Kept(r, prefix, s) = None
  /\ dirty' = [dirty EXCEPT ![r] = MaxToken]
  /\ UNCHANGED <<host, data>>

\* One copy, in any order.
Copy(x, s) ==
  /\ <<x, s>> \in pending
  /\ data' = [data EXCEPT ![x][s] =
       [req |-> owner, token |-> holds[s], version |-> host[owner][holds[s]]]]
  /\ pending' = pending \ {<<x, s>>}
  /\ UNCHANGED <<host, dirty, owner, holds>>

Next ==
  \/ \E r \in Reqs, t \in Tokens : Rewrite(r, t)
  \/ \E r \in Reqs, prefix \in 0 .. MaxToken, new \in [Slots -> Tokens \cup {None}] :
       Call(r, prefix, new)
  \/ \E x \in Sides, s \in Slots : Copy(x, s)

Spec == Init /\ [][Next]_vars

-----------------------------------------------------------------------------
TypeOK ==
  /\ host \in [Reqs -> [Tokens -> 0 .. MaxVersion]]
  /\ dirty \in [Reqs -> 0 .. MaxToken]
  /\ owner \in Reqs \cup {NoOwner}
  /\ holds \in [Slots -> Tokens \cup {None}]
  /\ data \in [Sides -> [Slots -> Contents]]
  /\ pending \subseteq Sides \X Slots

\* Once the copies of a call are done, a slot taken to hold a token of the
\* row's request, one the host has not rewritten since, holds its bytes in the
\* version the host has: keys and values alike.
Coherent ==
  pending = {} => \A s \in Slots :
    (holds[s] # None /\ holds[s] < dirty[owner]) =>
      \A x \in Sides :
        data[x][s] = [req |-> owner, token |-> holds[s], version |-> host[owner][holds[s]]]
=============================================================================
