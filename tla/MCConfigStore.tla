--------------------------- MODULE MCConfigStore ---------------------------
(***************************************************************************)
(* The configuration store with two clients on two workers.                *)
(***************************************************************************)
EXTENDS ConfigStore

Get(k, wait)     == Request("GET", k, <<>>, <<>>, 0, wait)
Set(k, v)        == Request("SET", k, <<v>>, <<>>, 0, "no")
Add(k, v)        == Request("ADD", k, <<v>>, <<>>, 0, "no")
App(k, v)        == Request("APPEND", k, <<v>>, <<>>, 0, "no")
Cas(k, e, v)     == Request("CAS", k, <<v>>, e, 0, "no")
Remove(k)        == Request("REMOVE", k, <<>>, <<>>, 0, "no")
Write(k, off, v) == Request("WRITE", k, v, <<>>, off, "no")
Watch(k)         == Request("WATCH", k, <<>>, <<>>, 0, "no")
UnwatchKey(k)    == Request("UNWATCH", k, <<>>, <<>>, 0, "no")
WatchRanks(k)    == Request("WATCH_RANK_STATE", k, <<>>, <<>>, 0, "no")

MCClients == {"a", "b"}

MCWorkerOf == [c \in MCClients |-> IF c = "a" THEN "w1" ELSE "w2"]

\* A plan: the calls of the two clients, and the clients whose connection may break.
Plan(a, b, broken) ==
    [calls |-> [c \in MCClients |-> IF c = "a" THEN a ELSE b],
     breaks |-> [c \in MCClients |-> IF c \in broken THEN 1 ELSE 0]]

\* Waiting, waking and watching while the connection of the waiting client breaks.
MCWaits ==
    Plan(<< {Get("k", "timed"), Watch("k")},
            {Get("k", "forever"), Remove("k"), UnwatchKey("k"), WatchRanks("k")} >>,
         << {Set("k", 1), App("k", 1)}, {Get("k", "no"), Cas("k", <<1>>, 3)} >>,
         {"a"})

\* The same for the connection of the client that wakes the other one.
MCWakes ==
    Plan(<< {Get("k", "timed"), Watch("k")} >>,
         << {Set("k", 1)}, {App("k", 1), Cas("k", <<1>>, 3)} >>, {"b"})

\* Both connections break, so that the last client can leave while the other one
\* waits, comes back or has a request on its way.
MCLeaves ==
    Plan(<< {Get("k", "timed")} >>, << {Set("k", 1)}, {Get("k", "no")} >>, MCClients)

\* ADD up to, at and beyond both ends of long (-4..3), to a missing key, a number
\* and a text.
MCAdds ==
    Plan(<< {Add("k", 2), Add("k", 3), Add("k", -4), App("k", 1)} >>,
         << {Add("k", 1), Add("k", -1), Set("k", 0)}, {Add("k", 1), Add("k", 2), Add("k", -3), Add("k", -4)} >>,
         {})

\* WRITE inside and behind a value, refused (a total of 4 > 3) and without an
\* answer (an offset of 2 > 1 for one chunk).
MCWrites ==
    Plan(<< {Write("m", 0, <<2>>), Write("m", 2, <<1>>), Write("m", 2, <<1, 2>>)}, {Get("m", "no")} >>,
         << {Set("m", 1), Write("m", 1, <<1>>)}, {Write("m", 1, <<3>>), Remove("m")} >>,
         {"a"})

MCPlans == {MCWaits, MCWakes, MCLeaves, MCAdds, MCWrites}

\* A client whose watch is lost with its link and made again over the next one, as
\* the listening thread of a group does.
MCRewatchPlans ==
    {Plan(<< {Watch("k")}, {Watch("k")} >>, << {Set("k", 1)} >>, {"a"})}

\* A client that exchanges the value it set, while another one removes the key.
MCCasPlans ==
    {Plan(<< {Remove("k"), Cas("k", <<>>, 2)} >>, << {Set("k", 1)}, {Cas("k", <<1>>, 3)} >>, {})}
=============================================================================
