------------------------------ MODULE StoreOps ------------------------------
(***************************************************************************)
(* What the requests of the configuration store do to its data: the part   *)
(* of the handlers of AccStoreServer that runs under storeMutex_, over the *)
(* in-memory backend, whose Put and Delete cannot fail.                    *)
(*                                                                         *)
(* The contents of the store are a function from the keys that exist to    *)
(* their values.  A value is a sequence of chunks, a chunk being the       *)
(* number a request carries; a decimal number is a value of one chunk, so  *)
(* an appended text is never read as a number.                             *)
(***************************************************************************)
EXTENDS Integers, Sequences, TLC

CONSTANTS LongMax,        \* the largest number of the C++ type long
          MaxU16Index,    \* MAX_U16_INDEX: limit of a WRITE's offset, per chunk written
          MaxWriteTotal   \* MAX_WRITE_TOTAL_SIZE: limit of the size a WRITE asks for

(***************************************************************************)
(* A request names its operation, its key, the value it carries (val), the *)
(* value a CAS expects (exp), the offset of a WRITE (off) and the wait of  *)
(* a GET: "no" (userDef = 0), "timed" (> 0) or "forever" (< 0).            *)
(***************************************************************************)
Request(op, key, val, exp, off, wait) ==
    [op |-> op, key |-> key, val |-> val, exp |-> exp, off |-> off, wait |-> wait]

Result(code, val) == [code |-> code, val |-> val]

Timeout == Result("TIMEOUT", <<>>)

\* No answer is sent.
NoRes == Result("NONE", <<>>)

Put(s, k, v) == (k :> v) @@ s

Delete(s, k) == [j \in DOMAIN s \ {k} |-> s[j]]

\* What a request did: the new contents, the answer, whether the waiters and
\* watchers of the key are woken and the value they are told.
Outcome(s, res, wakes, told) == [store |-> s, res |-> res, wakes |-> wakes, told |-> told]

Quiet(s, res) == Outcome(s, res, FALSE, <<>>)

\* Mutant: only an update wakes, the creation of a key is forgotten.
UpdateOnlySetEffect(s, r) ==
    Outcome(Put(s, r.key, r.val), Result("SUCCESS", <<>>),
            r.key \in DOMAIN s /\ s[r.key] # r.val, r.val)

SetEffect(s, r) ==
    Outcome(Put(s, r.key, r.val), Result("SUCCESS", <<>>),
            r.key \notin DOMAIN s \/ s[r.key] # r.val, r.val)

IsNumber(v) == Len(v) = 1

AddOverflows(old, inc) ==
    \/ inc > 0 /\ old > LongMax - inc
    \/ inc < 0 /\ old < (-LongMax - 1) - inc

\* Mutant: the sum is stored without the check that it fits into a long.
UncheckedAddEffect(s, r) ==
    LET v == IF r.key \in DOMAIN s THEN <<s[r.key][1] + r.val[1]>> ELSE r.val
    IN  Outcome(Put(s, r.key, v), Result("SUCCESS", v), TRUE, v)

AddEffect(s, r) ==
    IF r.key \notin DOMAIN s
    THEN Outcome(Put(s, r.key, r.val), Result("SUCCESS", r.val), TRUE, r.val)
    ELSE IF ~IsNumber(s[r.key]) \/ AddOverflows(s[r.key][1], r.val[1])
    THEN Quiet(s, Result("INVALID_MESSAGE", <<>>))
    ELSE LET v == <<s[r.key][1] + r.val[1]>>
         IN  Outcome(Put(s, r.key, v), Result("SUCCESS", v), TRUE, v)

\* The waiters and the watchers are told the appended chunk (value), not the
\* whole value (reqVal).
AppendEffect(s, r) ==
    LET v == IF r.key \in DOMAIN s THEN s[r.key] \o r.val ELSE r.val
    IN  Outcome(Put(s, r.key, v), Result("SUCCESS", <<Len(v)>>), TRUE, r.val)

\* The bytes from the offset on are replaced; a missing or short value is
\* filled up with zeros.
Overwrite(v, off, new) ==
    [i \in 1..(IF Len(v) > off + Len(new) THEN Len(v) ELSE off + Len(new)) |->
        IF i > off /\ i <= off + Len(new) THEN new[i - off]
        ELSE IF i <= Len(v) THEN v[i] ELSE 0]

\* The handler returns without a reply when the offset is too large for the size
\* of what is written (STORE_VALIDATE_RETURN), whereas a total that is too large
\* is refused with one.
Unanswered(r) == r.op = "WRITE" /\ r.off > MaxU16Index * Len(r.val)

\* Nobody is woken, even when the key is created.  The client prefixes the value
\* with the offset and checks the length of the key, so the other refusals of the
\* handler do not occur.
WriteEffect(s, r) ==
    LET old == IF r.key \in DOMAIN s THEN s[r.key] ELSE <<>>
    IN  IF Unanswered(r) THEN Quiet(s, NoRes)
        ELSE IF r.off + Len(r.val) > MaxWriteTotal
        THEN Quiet(s, Result("INVALID_MESSAGE", <<>>))
        ELSE Quiet(Put(s, r.key, Overwrite(old, r.off, r.val)), Result("SUCCESS", <<>>))

RemoveEffect(s, r) ==
    IF r.key \in DOMAIN s
    THEN Quiet(Delete(s, r.key), Result("SUCCESS", <<>>))
    ELSE Quiet(s, Result("NOT_EXIST", <<>>))

\* Mutant: an exchange wakes nobody, only the creation of the key does.
SilentCasEffect(s, r) ==
    IF r.key \in DOMAIN s /\ s[r.key] # r.exp
    THEN Quiet(s, Result("RESTORE", s[r.key]))
    ELSE Outcome(Put(s, r.key, r.val), Result("SUCCESS", r.val), r.key \notin DOMAIN s, r.val)

\* A key that does not exist is set whatever value was expected.  An answer with
\* two values tells the client that nothing was exchanged (RESTORE).
CasEffect(s, r) ==
    IF r.key \in DOMAIN s /\ s[r.key] # r.exp
    THEN Quiet(s, Result("RESTORE", s[r.key]))
    ELSE Outcome(Put(s, r.key, r.val), Result("SUCCESS", r.val), TRUE, r.val)

\* A GET that is answered at once.
GetEffect(s, r) ==
    Quiet(s, IF r.key \in DOMAIN s THEN Result("SUCCESS", s[r.key])
                                   ELSE Result("NOT_EXIST", <<>>))

Effect(s, r) ==
    CASE r.op = "SET"    -> SetEffect(s, r)
      [] r.op = "ADD"    -> AddEffect(s, r)
      [] r.op = "APPEND" -> AppendEffect(s, r)
      [] r.op = "WRITE"  -> WriteEffect(s, r)
      [] r.op = "REMOVE" -> RemoveEffect(s, r)
      [] r.op = "CAS"    -> CasEffect(s, r)
      [] r.op = "GET"    -> GetEffect(s, r)

\* A GET of a key that does not exist waits, unless it was told not to.
MustWait(s, r) == r.op = "GET" /\ r.key \notin DOMAIN s /\ r.wait # "no"
=============================================================================
