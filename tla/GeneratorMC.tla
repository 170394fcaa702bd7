----------------------------- MODULE GeneratorMC -----------------------------
(* Instances of Generator: two tasks and one text that no task parses from.   *)
(* Task a also publishes TimeAndSales where their subscriptions are modelled. *)
EXTENDS Generator

CONSTANTS a, b, junk, s

OneSymbol == {{s}}

RequiredOfTwo ==
    [t \in {a, b} |-> [k \in Kind |->
        IF k = "QUOTE" \/ t = a THEN {s} ELSE {}]]
=============================================================================
