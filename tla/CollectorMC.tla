----------------------------- MODULE CollectorMC -----------------------------
(* The Collector on its own, with callbacks in pieces and any order, for TLC. *)
EXTENDS Collector

market(k, s) == [type |-> "market", kind |-> k, sequence |-> s]
marker(s, t) == [type |-> "marker", sequence |-> s, time |-> t]

\* Two kinds, one event each: the smallest publication that can be partial.
PairExpected ==
    [k \in Kind |-> IF k \in {"QUOTE", "TRADE"} THEN 1 ELSE 0]

\* Publications 1 and 2, whole or in pieces and as often as the bounds allow.
\* Publication 2 is stamped by a clock ahead of the client's.
StreamCallbacks ==
    [l \in Listener |->
        CASE l = "market" ->
               { <<market("QUOTE", 1)>>,
                 <<market("TRADE", 1)>>,
                 <<market("TRADE", 2), market("QUOTE", 2)>> }
          [] l = "control" -> { <<marker(1, 1)>>, <<marker(2, 3)>> }
          [] l = "profiles" -> {}]
=============================================================================
