----------------------------- MODULE ClockSearch -----------------------------
(***************************************************************************)
(* calculate_clock_bits_335 (lib/raw/calculate-clock-bits.c): the search   *)
(* for the divider settings of an ICS307-02 clock chip that come nearest   *)
(* to a wanted frequency.  Three nested loops run through the output       *)
(* divider od, the reference divider rdw and the VCO divider vdw; low and  *)
(* hi close in on the wanted rate from both sides.                         *)
(*                                                                         *)
(* An unsigned long has 64 bits here: no product of the search is cut.     *)
(* The rate itself is an unsigned of 32: calculate_clock_bits_335 cuts off *)
(* what is above (142), and rate + rate / 10 (1006) must fit.  Rates for   *)
(* which either fails are left out.                                        *)
(* Frequencies of the VCO are compared in kHz, which is exact, because all *)
(* of them and their limits are multiples of 1000 Hz before the division.  *)
(***************************************************************************)
EXTENDS Integers

CONSTANTS
  Rate,     \* the frequencies asked for, in Hz
  MaxRdw,   \* 127 in the code
  MaxVdw    \* 511 in the code

MinVdw == 4

\* Below 3904515000, so that a tenth more is below 2^32.
ASSUME RateAssumption == Rate \subseteq Nat /\ \A r \in Rate : r \div 1000 < 3904515
ASSUME GridAssumption == MaxRdw \in 1..127 /\ MaxVdw \in MinVdw..511

VARIABLES
  step,     \* "search" or "done"; "idle" where the function is not called
  rate,     \* what the caller asked for
  od, rdw, vdw,
  low, hi,  \* the best frequencies found so far on either side of rate
  lowest,   \* lOD, lRDW, lVDW: the setting that gives low
  highest,  \* hOD, hRDW, hVDW: the setting that gives hi
  result    \* the clock word, or Failed

search == <<step, rate, od, rdw, vdw, low, hi, lowest, highest, result>>

Failed  == -1      \* return 1
OutDiv  == (2..8) \cup {10}
Setting == [od : OutDiv, rdw : 1..MaxRdw, vdw : MinVdw..MaxVdw]

\* What the two settings hold before anything was found.
None == [od |-> 1, rdw |-> 1, vdw |-> 1]

inFreq2 == 36864000     \* inFreq * 2, in Hz

\* The highest rate an output divider may be used for, by its number.
MaxRate == <<0, 180000000, 120000000, 90000000, 72000000, 60000000, 50000000, 45000000,
             0, 36000000>>

odskip == rate > MaxRate[od]

\* 60 MHz < range1 < 360 MHz, range2 > 200 kHz.
InRange(s) ==
  /\ 36864 * (s.vdw + 8) > 60000 * (s.rdw + 2)
  /\ 36864 * (s.vdw + 8) < 360000 * (s.rdw + 2)
  /\ 18432000 \div (s.rdw + 2) > 200000

\* A faulty variant: the number of the reference divider is not offset.
CheckRdw(s) == (inFreq2 \div (s.rdw * s.od)) * (s.vdw + 8)

\* The frequency of a setting, the division rounded before the product.
Check(s) == (inFreq2 \div ((s.rdw + 2) * s.od)) * (s.vdw + 8)

-----------------------------------------------------------------------------
(* The body of the innermost loop.                                         *)

Here == [od |-> od, rdw |-> rdw, vdw |-> vdw]

\* A faulty variant: the higher reference divider.
PreferredHigh(old) == old.rdw < rdw \/ (old.rdw = rdw /\ old.vdw < vdw)

\* Of two settings with one frequency: the lower reference divider, then the
\* higher VCO divider.
Preferred(old) == old.rdw > rdw \/ (old.rdw = rdw /\ old.vdw < vdw)

\* A frequency already held, on either side: only the setting may change.
TieLow(check) ==
  /\ check = low
  /\ lowest' = IF Preferred(lowest) THEN Here ELSE lowest
  /\ UNCHANGED <<low, hi, highest>>

TieHigh(check) ==
  /\ check # low /\ check = hi
  /\ highest' = IF Preferred(highest) THEN Here ELSE highest
  /\ UNCHANGED <<low, hi, lowest>>

\* A frequency between them becomes the new one of its side.
NewHigh(check) ==
  /\ low < check /\ check < hi /\ check > rate
  /\ hi' = check /\ highest' = Here
  /\ UNCHANGED <<low, lowest>>

\* A faulty variant: whatever lies between them becomes low.
NewLowAnyway(check) ==
  /\ low < check /\ check < hi
  /\ low' = check /\ lowest' = Here
  /\ UNCHANGED <<hi, highest>>

NewLow(check) ==
  /\ low < check /\ check < hi /\ check <= rate
  /\ low' = check /\ lowest' = Here
  /\ UNCHANGED <<hi, highest>>

Farther(check) ==
  /\ check < low \/ check > hi
  /\ UNCHANGED <<low, hi, lowest, highest>>

Look ==
  /\ step = "search" /\ od <= 10 /\ rdw <= MaxRdw /\ ~odskip
  /\ vdw <= MaxVdw
  /\ IF InRange(Here)
     THEN LET check == Check(Here) IN
          \/ TieLow(check) \/ TieHigh(check)
          \/ NewHigh(check) \/ NewLow(check) \/ Farther(check)
     ELSE UNCHANGED <<low, hi, lowest, highest>>
  /\ vdw' = vdw + 1
  /\ UNCHANGED <<step, rate, od, rdw, result>>

-----------------------------------------------------------------------------
(* The ends of the loops.                                                  *)

NextRdw ==
  /\ step = "search" /\ od <= 10 /\ rdw <= MaxRdw /\ ~odskip
  /\ vdw > MaxVdw
  /\ rdw' = rdw + 1 /\ vdw' = MinVdw
  /\ UNCHANGED <<step, rate, od, low, hi, lowest, highest, result>>

\* A faulty variant: a divider that may not be used is not passed.
NextOdStays ==
  /\ step = "search" /\ od <= 10
  /\ odskip \/ rdw > MaxRdw
  /\ od'  = IF odskip THEN od ELSE IF od = 8 THEN 10 ELSE od + 1
  /\ rdw' = 1 /\ vdw' = MinVdw
  /\ UNCHANGED <<step, rate, low, hi, lowest, highest, result>>

\* 9 is no output divider.
NextOd ==
  /\ step = "search" /\ od <= 10
  /\ odskip \/ rdw > MaxRdw
  /\ od'  = IF od = 8 THEN 10 ELSE od + 1
  /\ rdw' = 1 /\ vdw' = MinVdw
  /\ UNCHANGED <<step, rate, low, hi, lowest, highest, result>>

\* The code of an output divider, by its number.
OdCode == <<0, 17, 22, 19, 20, 23, 21, 18, 0, 16>>

\* A faulty variant: the VCO divider one bit too low.
WordShort(s) == OdCode[s.od] * 2^16 + s.vdw * 2^6 + s.rdw

Word(s) == OdCode[s.od] * 2^16 + s.vdw * 2^7 + s.rdw

\* A faulty variant: the side that is farther away.
BestFarther == IF hi - rate < rate - low THEN lowest ELSE highest

Best == IF hi - rate < rate - low THEN highest ELSE lowest

Finish ==
  /\ step = "search" /\ od > 10
  /\ result' = IF Best.od \in OutDiv THEN Word(Best) ELSE Failed
  /\ step' = "done"
  /\ UNCHANGED <<rate, od, rdw, vdw, low, hi, lowest, highest>>

-----------------------------------------------------------------------------
Begin(first) ==
  /\ step = first
  /\ rate \in Rate
  /\ od = 2 /\ rdw = 1 /\ vdw = MinVdw
  /\ low = rate - rate \div 10 /\ hi = rate + rate \div 10
  /\ lowest = None /\ highest = None
  /\ result = Failed

SearchInit == Begin("search")

SearchNext == Look \/ NextRdw \/ NextOd \/ Finish

\* The loops wait for nothing: a process that is scheduled goes on.
SearchSpec == SearchInit /\ [][SearchNext]_search /\ WF_search(SearchNext)
=============================================================================
