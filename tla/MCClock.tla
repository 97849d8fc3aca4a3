------------------------------- MODULE MCClock -------------------------------
(***************************************************************************)
(* Values for the constants of Clock.  The search for 335 boards runs      *)
(* through a corner of its grid; what it finds is proved for every grid.   *)
(* The other one can stop at any output divider, with one solution each:   *)
(* they go round the values of the input divider, the resistor and the     *)
(* pump current, and the VCO divider from end to end of what rule 1 takes. *)
(***************************************************************************)
EXTENDS Clock, Sequences

\* Too low and too high for any setting, on either side of the limits of the
\* output dividers, reached exactly, and ordinary ones.
Rates == {0, 9, 10000000, 18432000, 36000001, 45000000, 110592000, 180000000, 180000001}

Turn(seq, n) == seq[(n % Len(seq)) + 1]

\* The ends of the three forms the input divider has, up to the greatest one
\* the VCO divider's range leaves a solution for.
Refs == <<1, 2, 3, 17, 18, 263, 264, 548>>

Pumps == <<125, 250, 375, 500, 625, 750, 875, 1000, 1125, 1250, 1500, 1750, 1875,
           2000, 2250, 2500, 2625, 3000, 3500, 4000>>

\* The VCO dividers rule 1 takes with ref and an output divider.
LeastVco(ref)         == IF ref <= 3 THEN 12 ELSE (15 * ref + 3) \div 4
GreatestVco(ref, div) == LET v == (MaxVco(div) * ref) \div 24 IN IF v > 2055 THEN 2055 ELSE v

\* The dividers the search comes by are multiples of 8, 4, 2 and 1: count goes
\* round all remainders on each of these stretches.
Solution(div) ==
  LET count == div + div \div 8
      ref   == Turn(Refs, count)
      least == LeastVco(ref)
  IN  [ref |-> ref,
       vco |-> least + (((count \div 8) % 5) * (GreatestVco(ref, div) - least)) \div 4,
       rs  |-> Turn(<<64000, 52000, 16000, 4000>>, count \div 20),
       icp |-> Turn(Pumps, count)]

OneEach == [div \in Od |-> {Solution(div)}]

\* The search can stop at every output divider it comes by.
ASSUME StopsAnywhere == \A div \in Od : \A s \in OneEach[div] : Rule1(s, div)
=============================================================================
