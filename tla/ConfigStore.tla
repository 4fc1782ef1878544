---------------------------- MODULE ConfigStore ----------------------------
(***************************************************************************)
(* The TCP configuration store: AccStoreServer on one side, one            *)
(* TcpConfigStore per client on the other, and the link between them.      *)
(*                                                                         *)
(* The server handles the requests of a link on the worker thread of that  *)
(* link.  A handler reads and changes the data under storeMutex_ and takes *)
(* the waiters and watchers it has to wake; the answers go out after the   *)
(* mutex is released, one at a time, while other workers and the timer     *)
(* thread run: first the answer to the request, then the waiters, then     *)
(* the watchers.                                                           *)
(*                                                                         *)
(* A client registers the context of a call under its sequence number,     *)
(* sends the request and waits for the context to be finished, by the      *)
(* answer or by the handler of a broken link.  A send on a broken link     *)
(* reconnects once.  Links have generations: 0 is no link.                 *)
(*                                                                         *)
(* Every client has a rank (LinkConnectedHandler enters it into            *)
(* aliveRankSet_) and no external broken-link handler is registered.       *)
(***************************************************************************)
EXTENDS StoreOps, FiniteSets

CONSTANTS Clients,
          Keys,
          Workers,      \* worker threads of the server
          WorkerOf,     \* the worker of each client's links
          Plans         \* the ways in which the clients use the store: calls[c][n] has
                        \* the requests that client c may make as its n-th; breaks[c]
                        \* bounds how often its connection breaks

Timer == "timer"

ASSUME StoreAssumption ==
    /\ WorkerOf \in [Clients -> Workers]
    /\ Timer \notin Workers
    /\ LongMax \in Nat \ {0}
    /\ MaxU16Index \in Nat
    /\ MaxWriteTotal \in Nat
    /\ \A p \in Plans : \A c \in Clients :
          /\ p.breaks[c] \in Nat
          /\ \A n \in DOMAIN p.calls[c] : \A r \in p.calls[c][n] : r.key \in Keys

VARIABLES
    \* clients
    pc,           \* the calling thread: "idle", "registered" or "sent"
    seq,          \* the number of the client's last call (reqSeqGen_)
    req,          \* the request of that call
    ctx,          \* msgClientContext_: the numbers of the blocking calls ...
    watchCtx,     \* ... and the watches: [seq, req]
    up,           \* established_ of the client's link object
    failing,      \* the link broke and its contexts are still to be failed
    \* network
    conn,         \* generation of the live connection of each client
    gen,          \* generation of the client's last link
    toServer,     \* requests on their way
    toClient,     \* answers on their way
    plan,         \* the calls of the clients and the breaks still to come
    \* server
    store,        \* the backend
    waitCtx,      \* waitCtx_: [id, key] of the waiting GETs
    keyWaiters,   \* keyWaiters_: the ids registered for each key
    timedWaiters, \* timedWaiters_: the ids that can time out
    watchWaiters, \* watchWaiters_: the ids of the watches of each key
    rankWaiters,  \* rankStateWaiters_: the ids of the rank-state watches
    rankTasks,    \* rankStateTaskQueue_: the ranks that went down
    alive,        \* aliveRankSet_
    linked,       \* generation of the established link, as the server sees it
    pending,      \* what each worker and the timer thread have still to send
    \* history
    fate          \* the result the current call has been given

clientVars == <<pc, seq, req, ctx, watchCtx, up, failing>>
netVars == <<conn, gen, toServer, toClient, plan>>
waitVars == <<waitCtx, keyWaiters, timedWaiters>>
watchVars == <<watchWaiters, rankWaiters, rankTasks>>
vars == <<clientVars, netVars, store, waitVars, watchVars, alive, linked, pending,
          fate>>

\* The id of a request, as its AccTcpRequestContext knows it.
Id(c, g, n) == [cl |-> c, gen |-> g, seq |-> n]

NoReq == Request("NONE", "none", <<>>, <<>>, 0, "no")

Watching(r) == r.op \in {"WATCH", "WATCH_RANK_STATE"}

Init ==
    /\ pc = [c \in Clients |-> "idle"]
    /\ seq = [c \in Clients |-> 0]
    /\ req = [c \in Clients |-> NoReq]
    /\ ctx = [c \in Clients |-> {}]
    /\ watchCtx = [c \in Clients |-> {}]
    /\ up = [c \in Clients |-> TRUE]
    /\ failing = [c \in Clients |-> FALSE]
    /\ conn = [c \in Clients |-> 1]
    /\ gen = [c \in Clients |-> 1]
    /\ toServer = [c \in Clients |-> <<>>]
    /\ toClient = [c \in Clients |-> <<>>]
    /\ plan \in Plans
    /\ store = <<>>
    /\ waitCtx = {}
    /\ keyWaiters = [k \in Keys |-> {}]
    /\ timedWaiters = {}
    /\ watchWaiters = [k \in Keys |-> {}]
    /\ rankWaiters = {}
    /\ rankTasks = <<>>
    /\ alive = Clients
    /\ linked = [c \in Clients |-> 1]
    /\ pending = [t \in Workers \cup {Timer} |-> {}]
    /\ fate = [c \in Clients |-> NoRes]
-----------------------------------------------------------------------------
(***************************************************************************)
(* The calling thread of a client.                                         *)
(***************************************************************************)

\* SendMessageBlocked, SendWatchRequest: the context is registered before the
\* request is sent.  The numbers are drawn per client, so a number is the index
\* of the call in the plan.  A caller watches only what it does not watch already:
\* the listening threads of a group watch again once their watch has failed.
Register(c) ==
    /\ pc[c] = "idle"
    /\ seq[c] < Len(plan.calls[c])
    /\ \E r \in plan.calls[c][seq[c] + 1] :
          /\ r.op # "UNWATCH"
          /\ Watching(r) => \A w \in watchCtx[c] : w.req # r
          /\ req' = [req EXCEPT ![c] = r]
          /\ ctx' = IF Watching(r) THEN ctx ELSE [ctx EXCEPT ![c] = @ \cup {seq[c] + 1}]
          /\ watchCtx' = IF Watching(r)
                         THEN [watchCtx EXCEPT ![c] = @ \cup {[seq |-> seq[c] + 1, req |-> r]}]
                         ELSE watchCtx
    /\ pc' = [pc EXCEPT ![c] = "registered"]
    /\ seq' = [seq EXCEPT ![c] = @ + 1]
    /\ UNCHANGED <<up, failing, netVars, store, waitVars, watchVars, alive, linked, pending,
                   fate>>

\* Unwatch: only the client forgets the watch.
Unwatch(c) ==
    /\ pc[c] = "idle"
    /\ seq[c] < Len(plan.calls[c])
    /\ \E r \in plan.calls[c][seq[c] + 1] :
          /\ r.op = "UNWATCH"
          /\ watchCtx' = [watchCtx EXCEPT ![c] = {w \in @ : w.req.op = "WATCH" => w.req.key # r.key}]
    /\ seq' = [seq EXCEPT ![c] = @ + 1]
    /\ UNCHANGED <<pc, req, ctx, up, failing, netVars, store, waitVars, watchVars,
                   alive, linked, pending, fate>>

\* The call returns.
Return(c) ==
    /\ pc' = [pc EXCEPT ![c] = "idle"]
    /\ req' = [req EXCEPT ![c] = NoReq]
    /\ fate' = [fate EXCEPT ![c] = NoRes]

\* The request is on the way: a watch returns, a call waits for its answer.
AfterSend(c) ==
    IF Watching(req[c]) THEN Return(c)
    ELSE pc' = [pc EXCEPT ![c] = "sent"] /\ UNCHANGED <<req, fate>>

Message(c) == [seq |-> seq[c], req |-> req[c]]

\* NonBlockSend on an established link.
Send(c) ==
    /\ pc[c] = "registered"
    /\ up[c]
    /\ toServer' = [toServer EXCEPT ![c] = IF conn[c] = gen[c] THEN Append(@, Message(c)) ELSE @]
    /\ AfterSend(c)
    /\ UNCHANGED <<seq, ctx, watchCtx, up, failing, conn, gen, toClient, plan, store,
                   waitVars, watchVars, alive, linked, pending>>

\* NonBlockSend finds the link broken, ReConnectAfterBroken gets a new one, which
\* LinkConnectedHandler accepts unless the rank is still alive, and the request
\* goes out on it.
SendReconnected(c) ==
    /\ pc[c] = "registered"
    /\ ~up[c]
    /\ c \notin alive
    /\ gen' = [gen EXCEPT ![c] = @ + 1]
    /\ conn' = [conn EXCEPT ![c] = gen[c] + 1]
    /\ linked' = [linked EXCEPT ![c] = gen[c] + 1]
    /\ alive' = alive \cup {c}
    /\ up' = [up EXCEPT ![c] = TRUE]
    /\ toServer' = [toServer EXCEPT ![c] = <<Message(c)>>]
    /\ AfterSend(c)
    /\ UNCHANGED <<seq, ctx, watchCtx, failing, toClient, plan, store, waitVars,
                   watchVars, pending>>

\* The reconnection fails: the context is removed and the call returns.
SendFailed(c) ==
    /\ pc[c] = "registered"
    /\ ~up[c]
    /\ ctx' = [ctx EXCEPT ![c] = @ \ {seq[c]}]
    /\ watchCtx' = [watchCtx EXCEPT ![c] = @ \ {Message(c)}]
    /\ Return(c)
    /\ UNCHANGED <<seq, up, failing, netVars, store, waitVars, watchVars, alive, linked,
                   pending>>

\* WaitFinished after SetFailedFinish.
ReturnFailed(c) ==
    /\ pc[c] = "sent"
    /\ seq[c] \notin ctx[c]
    /\ Return(c)
    /\ UNCHANGED <<seq, ctx, watchCtx, up, failing, netVars, store, waitVars, watchVars,
                   alive, linked, pending>>
-----------------------------------------------------------------------------
(***************************************************************************)
(* The worker thread of a client.                                          *)
(***************************************************************************)

\* ReceiveResponseHandler: the answer finishes its call, and the thread returns.
\* The notification of a watch calls its function and changes no state here; an
\* answer nobody waits for is dropped.
ReceiveResponse(c) ==
    /\ toClient[c] # <<>>
    /\ LET m == Head(toClient[c])
       IN  IF m.seq \in ctx[c]
           THEN /\ ctx' = [ctx EXCEPT ![c] = @ \ {m.seq}]
                /\ Return(c)
           ELSE UNCHANGED <<ctx, pc, req, fate>>
    /\ toClient' = [toClient EXCEPT ![c] = Tail(@)]
    /\ UNCHANGED <<seq, watchCtx, up, failing, conn, gen, toServer, plan, store,
                   waitVars, watchVars, alive, linked, pending>>

\* HandleLinkBroken, Break: the link object is marked broken first ...
ClientBreak(c) ==
    /\ up[c]
    /\ conn[c] # gen[c]
    /\ up' = [up EXCEPT ![c] = FALSE]
    /\ failing' = [failing EXCEPT ![c] = TRUE]
    /\ toClient' = [toClient EXCEPT ![c] = <<>>]
    /\ UNCHANGED <<pc, seq, req, ctx, watchCtx, conn, gen, toServer, plan,
                   store, waitVars, watchVars, alive, linked, pending, fate>>

\* Mutant: only the watches are failed; the blocked callers are forgotten.
ClientFailWatches(c) ==
    /\ failing[c]
    /\ failing' = [failing EXCEPT ![c] = FALSE]
    /\ watchCtx' = [watchCtx EXCEPT ![c] = {}]
    /\ UNCHANGED <<pc, seq, req, ctx, up, netVars, store, waitVars, watchVars, alive, linked,
                   pending, fate>>

\* ... then LinkBrokenHandler fails every registered context.
ClientFail(c) ==
    /\ failing[c]
    /\ failing' = [failing EXCEPT ![c] = FALSE]
    /\ ctx' = [ctx EXCEPT ![c] = {}]
    /\ watchCtx' = [watchCtx EXCEPT ![c] = {}]
    /\ UNCHANGED <<pc, seq, req, up, netVars, store, waitVars, watchVars,
                   alive, linked, pending, fate>>

\* The connection breaks; what has arrived can still be read until each side
\* finds out.
Disconnect(c) ==
    /\ conn[c] # 0
    /\ plan.breaks[c] > 0
    /\ plan' = [plan EXCEPT !.breaks[c] = @ - 1]
    /\ conn' = [conn EXCEPT ![c] = 0]
    /\ UNCHANGED <<clientVars, gen, toServer, toClient, store, waitVars, watchVars,
                   alive, linked, pending, fate>>
-----------------------------------------------------------------------------
(***************************************************************************)
(* The worker threads and the timer thread of the server.                  *)
(***************************************************************************)

\* An answer to send: phase 0 is the answer to the request, 1 the waiters, 2 the
\* watchers, in the order in which a handler sends them.
Answer(phase, id, res) == [phase |-> phase, id |-> id, res |-> res]

\* The result is given to every current call among the ids.
Give(ids, res) ==
    [c \in Clients |->
        IF pc[c] = "sent" /\ \E x \in ids : x.cl = c /\ x.seq = seq[c] THEN res ELSE fate[c]]

\* Mutant: the contexts of the ids are taken but not erased from waitCtx_.
TakeOutKept(ids) ==
    /\ waitCtx' = waitCtx
    /\ timedWaiters' = timedWaiters \ ids

\* GetOutWaitersInLock: the ids leave waitCtx_ and timedWaiters_.
TakeOut(ids) ==
    /\ waitCtx' = {w \in waitCtx : w.id \notin ids}
    /\ timedWaiters' = timedWaiters \ ids

\* The ids of keyWaiters_ that still wait.
Waiting(k) == {x \in keyWaiters[k] : \E w \in waitCtx : w.id = x}

\* The next request of the client's link, if its worker is free.
HasRequest(c) == /\ linked[c] # 0
                 /\ toServer[c] # <<>>
                 /\ pending[WorkerOf[c]] = {}

\* Mutant: a request is taken for one of the client's first link.
FirstLinkId(c) == Id(c, 1, Head(toServer[c]).seq)

RequestId(c) == Id(c, linked[c], Head(toServer[c]).seq)

\* The handlers of SET, ADD, APPEND, WRITE, REMOVE and CAS, and of a GET that
\* does not wait.  A WRITE whose offset is too large is taken and not answered.
Handle(c) ==
    /\ HasRequest(c)
    /\ LET r == Head(toServer[c]).req
           e == Effect(store, r)
           woken == IF e.wakes THEN Waiting(r.key) ELSE {}
           watchers == IF e.wakes THEN watchWaiters[r.key] ELSE {}
           told == Result("SUCCESS", e.told)
           given == Give(woken, told)
       IN  /\ ~Watching(r)
           /\ ~MustWait(store, r)
           /\ store' = e.store
           /\ TakeOut(woken)
           /\ keyWaiters' = IF e.wakes THEN [keyWaiters EXCEPT ![r.key] = {}] ELSE keyWaiters
           /\ pending' = [pending EXCEPT ![WorkerOf[c]] =
                  {Answer(0, RequestId(c), res) : res \in {e.res} \ {NoRes}}
                  \cup {Answer(1, x, told) : x \in woken}
                  \cup {Answer(2, x, told) : x \in watchers}]
           /\ fate' = [d \in Clients |->
                  IF d = c THEN Give({RequestId(c)}, e.res)[c] ELSE given[d]]
    /\ toServer' = [toServer EXCEPT ![c] = Tail(@)]
    /\ UNCHANGED <<clientVars, conn, gen, toClient, plan, watchVars, alive, linked>>

\* GetHandler, the key does not exist: the request is registered by id, by key
\* and, if it can time out, with the timer.
HandleWait(c) ==
    /\ HasRequest(c)
    /\ LET r == Head(toServer[c]).req
           id == RequestId(c)
       IN  /\ MustWait(store, r)
           /\ waitCtx' = waitCtx \cup {[id |-> id, key |-> r.key]}
           /\ keyWaiters' = [keyWaiters EXCEPT ![r.key] = @ \cup {id}]
           /\ timedWaiters' = IF r.wait = "timed" THEN timedWaiters \cup {id} ELSE timedWaiters
    /\ toServer' = [toServer EXCEPT ![c] = Tail(@)]
    /\ UNCHANGED <<clientVars, conn, gen, toClient, plan, store, watchVars, alive, linked,
                   pending, fate>>

\* unordered_map::emplace: an entry of the same link stays as it is.
AddWatch(ids, id) == IF \E x \in ids : x.cl = id.cl /\ x.gen = id.gen THEN ids
                                                                       ELSE ids \cup {id}

\* WatchHandler: a key that exists is answered at once.
HandleWatch(c) ==
    /\ HasRequest(c)
    /\ LET r == Head(toServer[c]).req
           id == RequestId(c)
       IN  /\ r.op = "WATCH"
           /\ watchWaiters' = [watchWaiters EXCEPT ![r.key] = AddWatch(@, id)]
           /\ pending' = [pending EXCEPT ![WorkerOf[c]] =
                  {Answer(0, id, Result("SUCCESS", store[k])) : k \in {r.key} \cap DOMAIN store}]
    /\ toServer' = [toServer EXCEPT ![c] = Tail(@)]
    /\ UNCHANGED <<clientVars, conn, gen, toClient, plan, store, waitVars, rankWaiters,
                   rankTasks, alive, linked, fate>>

\* WatchRankStateHandler.
HandleWatchRankState(c) ==
    /\ HasRequest(c)
    /\ Head(toServer[c]).req.op = "WATCH_RANK_STATE"
    /\ rankWaiters' = AddWatch(rankWaiters, RequestId(c))
    /\ toServer' = [toServer EXCEPT ![c] = Tail(@)]
    /\ UNCHANGED <<clientVars, conn, gen, toClient, plan, store, waitVars, watchWaiters,
                   rankTasks, alive, linked, pending, fate>>

\* ReplyWithMessage, outside the mutex: an answer to a broken link is dropped.
Deliver(queues, id, res) ==
    IF linked[id.cl] = id.gen /\ conn[id.cl] = id.gen
    THEN [queues EXCEPT ![id.cl] = Append(@, [seq |-> id.seq, res |-> res])]
    ELSE queues

Reply(t) ==
    \E a \in pending[t] :
       /\ \A b \in pending[t] : a.phase <= b.phase
       /\ pending' = [pending EXCEPT ![t] = @ \ {a}]
       /\ toClient' = Deliver(toClient, a.id, a.res)
       /\ UNCHANGED <<clientVars, conn, gen, toServer, plan, store, waitVars, watchVars,
                      alive, linked, fate>>

\* TimerThreadTask: some of the timed waiters are late.
Expire ==
    /\ pending[Timer] = {}
    /\ \E late \in SUBSET timedWaiters \ {{}} :
          /\ TakeOut(late)
          /\ pending' = [pending EXCEPT ![Timer] = {Answer(0, x, Timeout) : x \in late}]
          /\ fate' = Give(late, Timeout)
    /\ UNCHANGED <<clientVars, netVars, store, keyWaiters, watchVars, alive, linked>>

\* Mutant: any broken link is taken for the last one.
AnyIsLast(c) == c \in alive

\* aliveRankSet_ is empty once the rank is erased.
IsLast(c) == alive = {c}

\* LinkBrokenHandler: the rank and the watches of the link go; the waiting GETs
\* of the link stay.  When no rank is left, everything goes.
LinkBroken(c) ==
    /\ linked[c] # 0
    /\ conn[c] # linked[c]
    /\ pending[WorkerOf[c]] = {}
    /\ LET lost == Id(c, linked[c], 0)
           OfLink(x) == x.cl = lost.cl /\ x.gen = lost.gen
           last == IsLast(c)
       IN  /\ alive' = alive \ {c}
           /\ store' = IF last THEN <<>> ELSE store
           /\ waitCtx' = IF last THEN {} ELSE waitCtx
           /\ keyWaiters' = IF last THEN [k \in Keys |-> {}] ELSE keyWaiters
           /\ timedWaiters' = IF last THEN {} ELSE timedWaiters
           /\ watchWaiters' = [k \in Keys |->
                  IF last THEN {} ELSE {x \in watchWaiters[k] : ~OfLink(x)}]
           /\ rankWaiters' = IF last THEN {} ELSE {x \in rankWaiters : ~OfLink(x)}
           /\ rankTasks' = Append(IF last THEN <<>> ELSE rankTasks, c)
    /\ linked' = [linked EXCEPT ![c] = 0]
    /\ toServer' = [toServer EXCEPT ![c] = <<>>]
    /\ UNCHANGED <<clientVars, conn, gen, toClient, plan, pending, fate>>

\* RankStateTask: every rank-state watch is told of the rank, under the mutex.
RankStateTask ==
    /\ rankTasks # <<>>
    /\ rankTasks' = Tail(rankTasks)
    /\ toClient' = [c \in Clients |->
          LET mine == {x \in rankWaiters : x.cl = c}
          IN  IF mine = {} THEN toClient[c]
              ELSE Deliver(toClient, CHOOSE x \in mine : TRUE,
                           Result("SUCCESS", <<Head(rankTasks)>>))[c]]
    /\ UNCHANGED <<clientVars, conn, gen, toServer, plan, store, waitVars, watchWaiters,
                   rankWaiters, alive, linked, pending, fate>>
-----------------------------------------------------------------------------
Thread(c) == Send(c) \/ SendReconnected(c) \/ SendFailed(c) \/ ReturnFailed(c)

ClientWorker(c) == ReceiveResponse(c) \/ ClientBreak(c) \/ ClientFail(c)

ServerWorker(c) ==
    Handle(c) \/ HandleWait(c) \/ HandleWatch(c) \/ HandleWatchRankState(c) \/ LinkBroken(c)

Next ==
    \/ \E c \in Clients : \/ Register(c) \/ Unwatch(c) \/ Disconnect(c)
                         \/ Thread(c) \/ ClientWorker(c) \/ ServerWorker(c)
    \/ \E t \in Workers \cup {Timer} : Reply(t)
    \/ Expire
    \/ RankStateTask

Spec == Init /\ [][Next]_vars

(***************************************************************************)
(* Fairness: every thread of the clients and of the server keeps running,  *)
(* the timer reaches every deadline and a broken connection is noticed on  *)
(* both sides (end of file, reset or keepalive).  Nothing makes a client   *)
(* call or a connection break.                                             *)
(***************************************************************************)
FairSpec ==
    /\ Spec
    /\ \A c \in Clients : /\ WF_vars(Thread(c))
                          /\ WF_vars(ClientWorker(c))
                          /\ WF_vars(ServerWorker(c))
    /\ \A t \in Workers \cup {Timer} : WF_vars(Reply(t))
    /\ WF_vars(Expire)
    /\ WF_vars(RankStateTask)
-----------------------------------------------------------------------------
(***************************************************************************)
(* Properties.                                                             *)
(***************************************************************************)

Long == (-LongMax - 1)..LongMax

Codes == {"NONE", "SUCCESS", "NOT_EXIST", "RESTORE", "TIMEOUT", "INVALID_MESSAGE"}

IsValue(v) == \A i \in DOMAIN v : v[i] \in Long

\* The type invariant: every number the store holds or returns fits into a long
\* (the overflow check of AddHandler), sequence numbers and link generations are
\* those handed out, and a key is only ever waited for under its own entry.
TypeOK ==
    /\ pc \in [Clients -> {"idle", "registered", "sent"}]
    /\ \A c \in Clients : /\ seq[c] \in 0..Len(plan.calls[c])
                          /\ ctx[c] \subseteq 1..seq[c]
                          /\ \A w \in watchCtx[c] : w.seq \in 1..seq[c]
                          /\ gen[c] \in Nat \ {0}
                          /\ conn[c] \in {0, gen[c]}
                          /\ linked[c] \in 0..gen[c]
                          /\ fate[c].code \in Codes /\ IsValue(fate[c].val)
                          /\ c \in alive <=> linked[c] # 0
    /\ up \in [Clients -> BOOLEAN]
    /\ failing \in [Clients -> BOOLEAN]
    /\ DOMAIN store \subseteq Keys
    /\ \A k \in DOMAIN store : IsValue(store[k])
    /\ timedWaiters \subseteq {w.id : w \in waitCtx}
    /\ rankTasks \in Seq(Clients)

\* No wakeup is lost: a GET waits only for a key that does not exist, under the
\* entry of the key, where the handler that creates the key finds it.  Checked
\* for keys that are not created by WRITE, whose handler wakes nobody.
NoLostWakeup ==
    \A w \in waitCtx : w.key \notin DOMAIN store /\ w.id \in keyWaiters[w.key]

\* What is known of the current call of a client outside the client: the requests
\* on their way, the entries among the waiters and the answers being sent, each
\* with the result it carries.
Traces(c) ==
    LET Mine(x) == x.cl = c /\ x.gen = gen[c] /\ x.seq = seq[c]
    IN  {<<"request", i, NoRes>> : i \in {j \in DOMAIN toServer[c] : toServer[c][j].seq = seq[c]}}
        \cup {<<"waiter", w.key, NoRes>> : w \in {v \in waitCtx : Mine(v.id)}}
        \cup UNION {{<<"reply", t, a.res>> : a \in {b \in pending[t] : Mine(b.id)}} :
                      t \in DOMAIN pending}
        \cup {<<"answer", i, toClient[c][i].res>> :
                 i \in {j \in DOMAIN toClient[c] : toClient[c][j].seq = seq[c]}}

\* A caller is never left alone and never answered twice.  SendMessageBlocked
\* waits without a timeout, so a blocked caller needs exactly one of: its request
\* on the way, an entry among the waiters, an answer on the way; or a broken link
\* whose handler is still to fail the call.  Registering the context before the
\* link is tested, and marking the link broken before the contexts are failed,
\* leave no gap between the two.  The answer carries the result the call was given
\* when it took effect.  The one exception is a WRITE with too large an offset,
\* which WriteHandler drops: its caller waits until the link breaks.
OneAnswer ==
    \A c \in Clients : pc[c] = "sent" /\ seq[c] \in ctx[c] =>
        \/ \E x \in Traces(c) : Traces(c) = {x} /\ x[3] = fate[c]
        \/ Traces(c) = {} /\ (failing[c] \/ (up[c] /\ conn[c] # gen[c]) \/ Unanswered(req[c]))

\* The watches of a client that are in force: its context is registered, and the
\* link that carried the request is established and has delivered it.
InForce(c) ==
    {w \in watchCtx[c] : /\ up[c] /\ ~failing[c]
                         /\ linked[c] = gen[c]
                         /\ ~(pc[c] = "registered" /\ seq[c] = w.seq)
                         /\ \A i \in DOMAIN toServer[c] : toServer[c][i].seq # w.seq
                         /\ conn[c] = gen[c]}

\* A watch in force is known to the server under the number the client knows it
\* by, so the notifications WakeupWaiters and RankStateTask send reach its notify
\* function ("When the key is updated, the specified notify function is invoked",
\* smem_config_store.h).
WatchInForce ==
    \A c \in Clients : \A w \in InForce(c) :
        Id(c, gen[c], w.seq) \in (IF w.req.op = "WATCH" THEN watchWaiters[w.req.key]
                                                       ELSE rankWaiters)

\* Every change of a key that SET, ADD, APPEND or CAS makes is on its way to every
\* watch of the key that is in force (GetWakeupList before the mutex is released).
WatchersTold ==
    [][\A c \in Clients : Handle(c) =>
         LET r == Head(toServer[c]).req
         IN  r.key \in DOMAIN store' /\ r.op # "WRITE"
             /\ (r.key \in DOMAIN store => store[r.key] # store'[r.key]) =>
             \A d \in Clients : \A w \in InForce(d) :
                 w.req.op = "WATCH" /\ w.req.key = r.key =>
                 \E a \in pending'[WorkerOf[c]] : a.id = Id(d, gen[d], w.seq)]_vars

\* The calls as AtomicStore knows them: a call that has been given its result is
\* done.  Watches are not calls.
AtomicCall(c) ==
    IF pc[c] = "idle" \/ Watching(req[c]) THEN [pc |-> "idle"]
    ELSE [pc |-> IF fate[c] = NoRes THEN "called" ELSE "done",
          seq |-> seq[c], req |-> req[c], res |-> fate[c]]

\* The requests on their way whose call has returned, except watches.
AtomicStray ==
    UNION {{[cl |-> c, seq |-> toServer[c][i].seq, req |-> toServer[c][i].req] :
               i \in {j \in DOMAIN toServer[c] :
                        /\ ~Watching(toServer[c][j].req)
                        /\ ~(pc[c] # "idle" /\ seq[c] = toServer[c][j].seq)}} : c \in Clients}

Atomic == INSTANCE AtomicStore WITH call <- [c \in Clients |-> AtomicCall(c)],
                                    stray <- AtomicStray

\* The store behaves like AtomicStore: whatever the interleaving of the workers,
\* the timer and broken links, every call takes effect at one instant between its
\* start and its return and computes what AtomicStore says (ADD refuses exactly the
\* sums that are no long), a GET returns a value the key had at such an instant,
\* it times out only if the key was missing at such an instant, and the contents
\* are cleared when the last client's link breaks and at no other time.
IsAtomic == Atomic!Spec

\* Every call returns, unless it is a GET that waits forever or a WRITE with too
\* large an offset, which the server does not answer; and those return, too, when
\* the connection they were sent over breaks.
CallsReturn ==
    \A c \in Clients :
        (/\ pc[c] # "idle"
         /\ \/ req[c].wait # "forever" /\ ~Unanswered(req[c])
            \/ pc[c] = "sent" /\ conn[c] # gen[c])
        ~> (pc[c] = "idle")

\* The documented rule of CAS, "if the current value for key equals expect, then
\* set the value of key" where for expect the "empty string equals non-exist"
\* (smem_config_store.h): CasHandler exchanges if and only if the expected value
\* is the current one, a missing key having the empty value.
CasAsDocumented ==
    [][\A c \in Clients : Handle(c) =>
         LET r == Head(toServer[c]).req
             cur == IF r.key \in DOMAIN store THEN store[r.key] ELSE <<>>
         IN  r.op = "CAS" =>
             (\E a \in pending'[WorkerOf[c]] : a.phase = 0 /\ a.res.code = "SUCCESS") <=> cur = r.exp]_vars
=============================================================================
