------------------------ MODULE ClockSearchProperties ------------------------
(***************************************************************************)
(* What the clock word found by calculate_clock_bits_335 must be.          *)
(***************************************************************************)
EXTENDS ClockSearch

\* The settings the code may use for a rate.
Usable == {s \in Setting : rate <= MaxRate[s.od] /\ InRange(s)}

Distance(f) == IF f > rate THEN f - rate ELSE rate - f

\* The chip's reading of a word: its divider numbers.
Decode(word) ==
  [od  |-> CHOOSE o \in OutDiv : OdCode[o] = word \div 2^16,
   rdw |-> word % 2^7,
   vdw |-> (word \div 2^7) % 2^9]

\* The settings looked at before the current one.
Seen ==
  {s \in Usable : \/ s.od < od
                  \/ s.od = od /\ s.rdw < rdw
                  \/ s.od = od /\ s.rdw = rdw /\ s.vdw < vdw}

(* Where the loops are and what they hold.                                 *)
SearchTypeOK ==
  /\ step \in {"idle", "search", "done"} /\ rate \in Rate
  /\ od \in OutDiv \cup {11} /\ rdw \in 1..MaxRdw + 1 /\ vdw \in MinVdw..MaxVdw + 1
  /\ low \in Nat /\ hi \in Nat
  /\ lowest \in Setting \cup {None} /\ highest \in Setting \cup {None}
  /\ step = "done" => od = 11

(* The loop invariant: low and hi keep within a tenth of the rate on their *)
(* sides of it, each is the frequency of its setting (once there is one),  *)
(* and no setting seen so far lies strictly between them.                  *)
Sides ==
  /\ rate - rate \div 10 <= low /\ low <= rate
  /\ rate <= hi /\ hi <= rate + rate \div 10

Held(f, s, start) ==
  \/ s = None /\ f = start
  \/ s \in Setting /\ InRange(s) /\ rate <= MaxRate[s.od] /\ Check(s) = f

Bracket ==
  /\ Sides
  /\ Held(low, lowest, rate - rate \div 10)
  /\ Held(hi, highest, rate + rate \div 10)
  /\ \A s \in Seen : Check(s) <= low \/ Check(s) >= hi

SearchInv == SearchTypeOK /\ Bracket

(* When the search ends with a word, the setting it chose may be used for  *)
(* the rate and no other such setting has a frequency nearer to the rate;  *)
(* it is off by a tenth at most.  When it fails, none is nearer than a     *)
(* tenth.                                                                  *)
Nearest ==
  step = "done" =>
    IF Best \in Setting
    THEN /\ Best \in Usable
         /\ Distance(Check(Best)) <= rate \div 10
         /\ \A s \in Usable : Distance(Check(Best)) <= Distance(Check(s))
    ELSE \A s \in Usable : Distance(Check(s)) >= rate \div 10

(* The word carries the chosen dividers, each in its own bits, within the  *)
(* 24 bits the driver sends to the chip (utils.c:1138); there is no word   *)
(* exactly when there is no setting.                                       *)
WordOfBest ==
  step = "done" =>
    IF Best \in Setting
    THEN result \in 0..2^24 - 1 /\ Decode(result) = Best
    ELSE result = Failed

(* Of the settings with the chosen frequency it is the one the comments    *)
(* ask for: the lowest reference divider, "If this combination has a lower *)
(* rdw", and of those the highest VCO divider (1068, 1075).                *)
TieBroken ==
  step = "done" /\ Best \in Setting =>
    \A s \in Usable : Check(s) = Check(Best) =>
      Best.rdw < s.rdw \/ (Best.rdw = s.rdw /\ Best.vdw >= s.vdw)

\* The frequency the chip really gives: rounded after the product, not before.
Actual(s) ==
  LET k == (s.rdw + 2) * s.od
      b == s.vdw + 8
  IN  (inFreq2 \div k) * b + ((inFreq2 % k) * b) \div k

(* The search compares frequencies whose division was rounded before it    *)
(* was multiplied, which is wrong by as many Hz as the VCO divider.  So    *)
(* the frequency the chip really gives is the nearest one but for that.    *)
NearestButRounding ==
  step = "done" /\ Best \in Setting =>
    \A s \in Usable :
      Distance(Actual(Best)) < Distance(Actual(s)) + Best.vdw + s.vdw + 16
=============================================================================
