--------------------------- MODULE DeliveryClientMC ---------------------------
(* Two listener threads, two kinds, batches of one and of both kinds.         *)
EXTENDS DeliveryClient

CONSTANTS t1, t2

TwoKinds == <<"QUOTE", "TRADE">>

\* A batch of both kinds, twice as large as the one of a single Quote, so that
\* two threads race for the maximum.
SmallBatches == {[k \in Kind |-> 1],
                 [k \in Kind |-> IF k = "QUOTE" THEN 1 ELSE 0]}

\* Sizes of Profile batches and of legacy callbacks.
SmallCounts == {1, 2}
=============================================================================
