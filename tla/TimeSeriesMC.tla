---------------------------- MODULE TimeSeriesMC -----------------------------
(* Two symbols, in both modes of the client.                                  *)
EXTENDS TimeSeries

CONSTANTS ibm, msft

\* Publications with TimeAndSales of one symbol or of both, as the rotation of
\* the task's quantity over its symbols yields them.
SomeBatch == {{ibm}, {ibm, msft}}
=============================================================================
