------------------------------ MODULE SessionMC ------------------------------
(* The session with timeouts of one or two clock units; windows do not divide *)
(* the duration, and main() may be late by a whole window.                    *)
EXTENDS Session

AllModes == {"regular", "prefilled", "delayed"}
=============================================================================
