---------------------------- MODULE MCRateWindow -----------------------------
(* Three threads, so that one can overtake two others between any two      *)
(* statements of the critical section.                                     *)
EXTENDS RateWindow

=============================================================================
