-------------------------------- MODULE Clock --------------------------------
(***************************************************************************)
(* A program that computes a clock word: by calculate_clock_bits for an    *)
(* FSCC card, by calculate_clock_bits_335 for a card of the 335 family     *)
(* (examples/clock-rate.c).                                                *)
(***************************************************************************)
EXTENDS ClockSearchProperties, ClockWordProperties

Init ==
  \/ SearchInit /\ WordBegin("idle")
  \/ Begin("idle") /\ rate = (CHOOSE r \in Rate : TRUE) /\ WordInit

Next ==
  \/ SearchNext /\ UNCHANGED word
  \/ WordNext /\ UNCHANGED search

vars == <<search, word>>

\* Both functions are loops over counters that wait for nothing: a process
\* that is scheduled takes its next step.
Spec == Init /\ [][Next]_vars /\ WF_vars(Next)

(* The computation ends, in a word (which the driver then takes) or in an  *)
(* error: every loop counts to its end, whether a divider is skipped, or   *)
(* gone past in steps of 2, 4 or 8; and no step of it gets stuck.          *)
Ends ==
  <>\/ step = "done"
    \/ stage = "loaded"
    \/ stage = "returned" /\ status # 0
=============================================================================
