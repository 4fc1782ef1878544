---------------------------- MODULE AtomicStore ----------------------------
(***************************************************************************)
(* The configuration store as one atomic object: whatever its threads,     *)
(* queues and links do, every call takes effect at one instant between its *)
(* start and its return, and returns what the contents of the store at     *)
(* that instant say.  What a call does to the contents is said here once   *)
(* more, by its result instead of by the steps of its handler.             *)
(*                                                                         *)
(*  - The rule of CAS is the server's: a missing key matches any expected  *)
(*    value.  The rule that smem_config_store.h documents is another one   *)
(*    (CasAsDocumented in ConfigStore).                                    *)
(*  - A GET that waits takes effect together with the change that creates  *)
(*    its key, and times out only at an instant at which the key does not  *)
(*    exist.                                                               *)
(*  - A WRITE with too large an offset never takes effect and never        *)
(*    returns, unless its link breaks.                                     *)
(*  - A call may fail because its link broke.  Its effect may then have    *)
(*    happened, may never happen or may still happen: it is stray until    *)
(*    the server has closed the link.                                      *)
(*  - The contents live as long as one client is connected; they are       *)
(*    cleared when the last one leaves.                                    *)
(***************************************************************************)
EXTENDS StoreOps

CONSTANT Clients

VARIABLES store,    \* the contents: a function from the existing keys
          call,     \* the call of each client: [pc, seq, req, res]
          stray,    \* the requests of failed calls: [cl, seq, req]
          alive     \* the clients that are connected

vars == <<store, call, stray, alive>>

Init ==
    /\ store = <<>>
    /\ call = [c \in Clients |-> [pc |-> "idle"]]
    /\ stray = {}
    /\ alive = Clients

-----------------------------------------------------------------------------
Content(s, k) == IF k \in DOMAIN s THEN s[k] ELSE <<>>

\* The sum of an ADD to the number that a key holds; a missing key counts as 0.
Sum(s, r) == (IF r.key \in DOMAIN s THEN s[r.key][1] ELSE 0) + r.val[1]

\* ADD succeeds if and only if there is a number to add to and the sum is a long.
CanAdd(s, r) == /\ r.key \in DOMAIN s => Len(s[r.key]) = 1
                /\ Sum(s, r) \in (-LongMax - 1)..LongMax

\* A WRITE keeps what is before its offset, filled up with zeros, and what is
\* behind its last byte.
Written(v, off, new) ==
    SubSeq(v \o [i \in 1..off |-> 0], 1, off) \o new \o SubSeq(v, off + Len(new) + 1, Len(v))

\* The requests that are refused, and those that change their key.
Refused(s, r) == \/ r.op = "ADD" /\ ~CanAdd(s, r)
                 \/ r.op = "WRITE" /\ r.off + Len(r.val) > MaxWriteTotal

Matches(s, r) == r.key \in DOMAIN s => s[r.key] = r.exp

Changes(s, r) == \/ r.op \in {"SET", "APPEND"}
                 \/ r.op \in {"ADD", "WRITE"} /\ ~Refused(s, r)
                 \/ r.op = "CAS" /\ Matches(s, r)

\* The value of the key after the request.
NewValue(s, r) ==
    CASE r.op \in {"SET", "CAS"} -> r.val
      [] r.op = "APPEND"         -> Content(s, r.key) \o r.val
      [] r.op = "ADD"            -> <<Sum(s, r)>>
      [] r.op = "WRITE"          -> Written(Content(s, r.key), r.off, r.val)

\* The contents after the request.
After(s, r) == IF Changes(s, r) THEN Put(s, r.key, NewValue(s, r))
               ELSE IF r.op = "REMOVE" THEN Delete(s, r.key) ELSE s

\* The answer to the request.
Reply(s, r) ==
    IF Refused(s, r) THEN Result("INVALID_MESSAGE", <<>>)
    ELSE IF r.op \in {"GET", "REMOVE"} /\ r.key \notin DOMAIN s THEN Result("NOT_EXIST", <<>>)
    ELSE IF r.op = "CAS" /\ ~Matches(s, r) THEN Result("RESTORE", s[r.key])
    ELSE Result("SUCCESS", CASE r.op \in {"ADD", "CAS"} -> NewValue(s, r)
                             [] r.op = "APPEND"         -> <<Len(NewValue(s, r))>>
                             [] r.op = "GET"            -> s[r.key]
                             [] OTHER                   -> <<>>)

\* The request cannot take effect now: it waits for its key, or is never answered.
Held(s, r) == \/ r.op = "GET" /\ r.key \notin DOMAIN s /\ r.wait # "no"
              \/ r.op = "WRITE" /\ r.off > MaxU16Index * Len(r.val)
-----------------------------------------------------------------------------
Called(c) == call[c].pc = "called"

Call(c) ==
    /\ call[c].pc = "idle"
    /\ call'[c].pc = "called"
    /\ call' = [call EXCEPT ![c] = call'[c]]
    /\ UNCHANGED <<store, stray, alive>>

Done(cl, res) == [pc |-> "done", seq |-> cl.seq, req |-> cl.req, res |-> res]

\* The clients whose call is a GET that waits for the key.
Blocked(k) == {c \in Clients : /\ Called(c)
                               /\ call[c].req.op = "GET"
                               /\ call[c].req.key = k
                               /\ call[c].req.wait # "no"}

\* The request takes effect, and with it the calls of the released clients.
Apply(r, released, others) ==
    /\ released \subseteq Blocked(r.key)
    /\ store' = After(store, r)
    /\ r.key \in DOMAIN store' \/ released = {}
    /\ call' = [c \in Clients |->
          IF c \in released THEN Done(call[c], Result("SUCCESS", store'[r.key])) ELSE others[c]]

Do(c) ==
    /\ Called(c)
    /\ ~Held(store, call[c].req)
    /\ \E released \in SUBSET (Clients \ {c}) :
          Apply(call[c].req, released,
                [call EXCEPT ![c] = Done(@, Reply(store, @.req))])
    /\ UNCHANGED <<stray, alive>>

DoStray ==
    \E x \in stray :
       /\ ~Held(store, x.req)
       /\ \E released \in SUBSET Clients : Apply(x.req, released, call)
       /\ stray' = stray \ {x}
       /\ UNCHANGED alive

Forget ==
    /\ \E x \in stray : stray' = stray \ {x}
    /\ UNCHANGED <<store, call, alive>>

Expire ==
    /\ \E late \in SUBSET Clients \ {{}} :
          /\ \A c \in late : /\ Called(c)
                             /\ call[c].req.op = "GET"
                             /\ call[c].req.wait = "timed"
                             /\ call[c].req.key \notin DOMAIN store
          /\ call' = [c \in Clients |-> IF c \in late THEN Done(call[c], Timeout)
                                                      ELSE call[c]]
    /\ UNCHANGED <<store, stray, alive>>

\* The call returns the result it was given.
Return(c) ==
    /\ call[c].pc = "done"
    /\ call' = [call EXCEPT ![c] = [pc |-> "idle"]]
    /\ UNCHANGED <<store, stray, alive>>

\* The call fails; if it has not taken effect it may become a stray.
Fail(c) ==
    /\ call[c].pc # "idle"
    /\ call' = [call EXCEPT ![c] = [pc |-> "idle"]]
    /\ \/ stray' = stray
       \/ /\ Called(c)
          /\ stray' = stray \cup {[cl |-> c, seq |-> call[c].seq, req |-> call[c].req]}
    /\ UNCHANGED <<store, alive>>

Leave(c) ==
    /\ c \in alive
    /\ alive' = alive \ {c}
    /\ store' = IF alive' = {} THEN <<>> ELSE store
    /\ stray' = {x \in stray : x.cl # c}
    /\ UNCHANGED call

Join(c) ==
    /\ c \notin alive
    /\ alive' = alive \cup {c}
    /\ UNCHANGED <<store, call, stray>>

Next == \/ \E c \in Clients : Call(c) \/ Do(c) \/ Return(c) \/ Fail(c) \/ Leave(c) \/ Join(c)
        \/ DoStray \/ Forget \/ Expire

Spec == Init /\ [][Next]_vars
=============================================================================
