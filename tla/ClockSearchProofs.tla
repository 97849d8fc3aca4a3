-------------------------- MODULE ClockSearchProofs --------------------------
(***************************************************************************)
(* The search for a 335 board's dividers finds the nearest setting: for    *)
(* every grid of dividers and every rate, by its loop invariant.  Nothing  *)
(* in the proof depends on the formula of Check, or on the limits of       *)
(* InRange: only on the way the loops close in on the rate.                *)
(***************************************************************************)
EXTENDS ClockSearchProperties, TLAPS

(* Frequencies are natural numbers.                                        *)
LEMMA CheckNat ==
  ASSUME NEW s \in Setting
  PROVE  Check(s) \in Nat
<1>1. s.od \in OutDiv /\ s.rdw \in 1..MaxRdw /\ s.vdw \in MinVdw..MaxVdw
  BY DEF Setting
<1>2. s.od \in Nat \ {0} /\ s.rdw + 2 \in Nat \ {0} /\ s.vdw + 8 \in Nat
  BY <1>1, GridAssumption DEF OutDiv, MinVdw
<1> DEFINE k == (s.rdw + 2) * s.od
<1>3. k \in Nat \ {0}
  BY <1>2, SMTT(30)
<1> HIDE DEF k
<1>4. inFreq2 \div k \in Nat
  BY <1>3, SMTT(30) DEF inFreq2
<1> DEFINE q == inFreq2 \div k
<1>5. q \in Nat
  BY <1>4
<1>6. Check(s) = q * (s.vdw + 8)
  BY DEF Check, q, k
<1> HIDE DEF q
<1>7. q * (s.vdw + 8) \in Nat
  BY <1>2, <1>5, SMTT(30)
<1> QED BY <1>6, <1>7

(* The setting under the three counters is one of the grid while there is  *)
(* one to look at.                                                         *)
LEMMA HereInGrid ==
  ASSUME SearchTypeOK, od <= 10, rdw <= MaxRdw, vdw <= MaxVdw
  PROVE  /\ Here \in Setting
         /\ Here.od = od /\ Here.rdw = rdw /\ Here.vdw = vdw
<1>1. od \in OutDiv
  BY DEF SearchTypeOK, OutDiv
<1>2. rdw \in 1..MaxRdw
  BY GridAssumption DEF SearchTypeOK
<1>3. vdw \in MinVdw..MaxVdw
  BY GridAssumption DEF SearchTypeOK, MinVdw
<1> QED BY <1>1, <1>2, <1>3 DEF Here, Setting

(* At the start nothing of the grid has been looked at.                    *)
LEMMA NothingSeen == ASSUME NEW first \in {"idle", "search"}, Begin(first) PROVE Seen = {}
<1>1. ASSUME NEW s \in Seen PROVE FALSE
  <2>1. s.od \in OutDiv /\ s.rdw \in 1..MaxRdw /\ s.vdw \in MinVdw..MaxVdw
    BY <1>1 DEF Seen, Usable, Setting
  <2>2. s.od >= 2 /\ s.rdw >= 1 /\ s.vdw >= 4
    BY <2>1, GridAssumption DEF OutDiv, MinVdw
  <2>3. od = 2 /\ rdw = 1 /\ vdw = 4
    BY DEF Begin, MinVdw
  <2> QED BY <1>1, <2>1, <2>2, <2>3, GridAssumption DEF Seen, OutDiv, MinVdw
<1> QED BY <1>1

(* The search starts with its invariant.                                   *)
LEMMA Initially == ASSUME NEW first \in {"idle", "search"}, Begin(first) PROVE SearchInv
<1>1. rate \in Nat
  BY RateAssumption DEF Begin
<1>2. /\ rate \div 10 \in Nat /\ rate \div 10 <= rate
  BY <1>1, SMTT(30)
<1>3. SearchTypeOK
  BY <1>1, <1>2, GridAssumption DEF Begin, SearchTypeOK, OutDiv, MinVdw, None
<1>4. Sides
  BY <1>1, <1>2 DEF Begin, Sides
<1>5. /\ Held(low, lowest, rate - rate \div 10)
      /\ Held(hi, highest, rate + rate \div 10)
  BY DEF Begin, Held
<1>6. Seen = {}
  BY NothingSeen
<1> QED BY <1>3, <1>4, <1>5, <1>6 DEF SearchInv, Bracket

-----------------------------------------------------------------------------
(* The steps of the loops.                                                 *)

(* A step that leaves both sides alone keeps what is said of them.         *)
LEMMA SidesKept ==
  ASSUME Bracket, UNCHANGED <<rate, low, hi, lowest, highest>>
  PROVE  /\ Sides'
         /\ Held(low, lowest, rate - rate \div 10)'
         /\ Held(hi, highest, rate + rate \div 10)'
<1> QED BY DEF Bracket, Sides, Held, InRange, Check

(* What is usable depends on the rate only.                                *)
LEMMA UsableKept ==
  ASSUME rate' = rate PROVE Usable' = Usable
<1> QED BY DEF Usable, InRange, Setting

(* The end of the innermost loop adds nothing to what was seen.            *)
LEMMA RdwAddsNothing == ASSUME SearchInv, NextRdw PROVE Seen' \subseteq Seen
<1> USE DEF SearchInv
<1>1. ASSUME NEW s \in Seen' PROVE s \in Seen
  <2>1. s \in Usable
    BY <1>1, UsableKept DEF Seen, NextRdw
  <2>2. s.od \in OutDiv /\ s.rdw \in 1..MaxRdw /\ s.vdw \in MinVdw..MaxVdw
    BY <2>1 DEF Usable, Setting
  <2>3. \/ s.od < od
        \/ s.od = od /\ s.rdw < rdw + 1
        \/ s.od = od /\ s.rdw = rdw + 1 /\ s.vdw < MinVdw
    BY <1>1 DEF Seen, NextRdw
  <2>4. /\ rdw \in Nat /\ vdw \in Nat /\ vdw > MaxVdw
        /\ s.rdw \in Nat /\ s.vdw \in Nat /\ s.vdw <= MaxVdw /\ s.vdw >= MinVdw
    BY <2>2, GridAssumption DEF SearchTypeOK, NextRdw, MinVdw
  <2>5. \/ s.od < od
        \/ s.od = od /\ s.rdw < rdw
        \/ s.od = od /\ s.rdw = rdw /\ s.vdw < vdw
    BY <2>3, <2>4, GridAssumption DEF MinVdw
  <2> QED BY <2>1, <2>5 DEF Seen
<1> QED BY <1>1

(* The end of the innermost loop adds nothing to what was seen.            *)
LEMMA RdwStep == ASSUME SearchInv, NextRdw PROVE SearchInv'
<1> USE DEF SearchInv
<1>1. SearchTypeOK'
  <2>1. rdw' \in 1..MaxRdw + 1 /\ vdw' \in MinVdw..MaxVdw + 1
    BY GridAssumption DEF SearchTypeOK, NextRdw, MinVdw
  <2> QED BY <2>1 DEF SearchTypeOK, NextRdw
<1>2. Seen' \subseteq Seen
  BY RdwAddsNothing
<1>3. UNCHANGED <<rate, low, hi, lowest, highest>>
  BY DEF NextRdw
<1>4. \A s \in Seen' : Check(s) <= low' \/ Check(s) >= hi'
  BY <1>2, <1>3 DEF Bracket
<1> QED BY <1>1, <1>3, <1>4, SidesKept DEF Bracket, Check

(* Nor does the end of the middle loop: of a divider that is skipped no    *)
(* setting is usable, and 9 is no divider.                                 *)
LEMMA OdAddsNothing == ASSUME SearchInv, NextOd PROVE Seen' \subseteq Seen
<1> USE DEF SearchInv
<1>1. od \in OutDiv
  BY DEF SearchTypeOK, NextOd, OutDiv
<1>2. ASSUME NEW s \in Seen' PROVE s \in Seen
  <2>1. s \in Usable
    BY <1>2, UsableKept DEF Seen, NextOd
  <2>2. s.od \in OutDiv /\ s.rdw \in 1..MaxRdw /\ s.vdw \in MinVdw..MaxVdw
    BY <2>1 DEF Usable, Setting
  <2>3. s.rdw \in Nat /\ s.rdw >= 1 /\ s.rdw <= MaxRdw /\ s.vdw \in Nat /\ s.vdw >= MinVdw
    BY <2>2, GridAssumption DEF MinVdw
  <2>4. s.od < od'
    BY <1>2, <2>2, <2>3 DEF Seen, NextOd, MinVdw, OutDiv
  <2>5. s.od < od \/ s.od = od
    BY <1>1, <2>2, <2>4 DEF NextOd, OutDiv
  <2>6. CASE s.od = od
    <3>1. rate <= MaxRate[od]
      BY <2>1, <2>6 DEF Usable
    <3>2. ~odskip
      BY <1>1, <3>1, RateAssumption DEF odskip, SearchTypeOK, OutDiv, MaxRate
    <3>3. rdw > MaxRdw /\ rdw \in Nat
      BY <3>2, GridAssumption DEF NextOd, SearchTypeOK
    <3> QED BY <2>1, <2>3, <2>6, <3>3, GridAssumption DEF Seen
  <2> QED BY <2>1, <2>5, <2>6 DEF Seen
<1> QED BY <1>2

(* Nor does the end of the loop over the reference divider.                *)
LEMMA OdStep == ASSUME SearchInv, NextOd PROVE SearchInv'
<1> USE DEF SearchInv
<1>1. od \in OutDiv
  BY DEF SearchTypeOK, NextOd, OutDiv
<1>2. SearchTypeOK'
  <2>1. od' \in OutDiv \cup {11}
    BY <1>1 DEF NextOd, OutDiv
  <2>2. rdw' \in 1..MaxRdw + 1 /\ vdw' \in MinVdw..MaxVdw + 1
    BY GridAssumption DEF NextOd, MinVdw
  <2> QED BY <2>1, <2>2 DEF SearchTypeOK, NextOd
<1>3. Seen' \subseteq Seen
  BY OdAddsNothing
<1>4. UNCHANGED <<rate, low, hi, lowest, highest>>
  BY DEF NextOd
<1>5. \A s \in Seen' : Check(s) <= low' \/ Check(s) >= hi'
  BY <1>3, <1>4 DEF Bracket
<1> QED BY <1>2, <1>4, <1>5, SidesKept DEF Bracket, Check

(* Nor the end of the search.                                              *)
LEMMA FinishStep == ASSUME SearchInv, Finish PROVE SearchInv'
<1> USE DEF SearchInv
<1>1. od = 11
  BY DEF SearchTypeOK, Finish, OutDiv
<1>2. SearchTypeOK'
  BY <1>1 DEF SearchTypeOK, Finish
<1>3. UNCHANGED <<rate, od, rdw, vdw, low, hi, lowest, highest>>
  BY DEF Finish
<1>4. Seen' = Seen
  BY <1>3, UsableKept DEF Seen
<1>5. \A s \in Seen' : Check(s) <= low' \/ Check(s) >= hi'
  BY <1>3, <1>4 DEF Bracket
<1> QED BY <1>2, <1>3, <1>5, SidesKept DEF Bracket, Check

-----------------------------------------------------------------------------
(* The look at a setting.                                                  *)

(* It adds that setting, if it is usable at all, to those seen.            *)
LEMMA SeenGrows ==
  ASSUME SearchInv, Look, NEW s \in Seen'
  PROVE  s \in Seen \/ (s = Here /\ InRange(Here))
<1> USE DEF SearchInv
<1>1. s \in Usable
  BY UsableKept DEF Seen, Look
<1>2. s \in Setting /\ InRange(s)
  BY <1>1 DEF Usable
<1>3. s.od \in OutDiv /\ s.rdw \in 1..MaxRdw /\ s.vdw \in MinVdw..MaxVdw
  BY <1>2 DEF Setting
<1>4. \/ s.od < od
      \/ s.od = od /\ s.rdw < rdw
      \/ s.od = od /\ s.rdw = rdw /\ s.vdw < vdw + 1
  BY DEF Seen, Look
<1>5. CASE s.od = od /\ s.rdw = rdw /\ s.vdw = vdw
  <2>1. s = Here
    BY <1>2, <1>5 DEF Setting, Here
  <2> QED BY <1>2, <2>1
<1>6. CASE ~(s.od = od /\ s.rdw = rdw /\ s.vdw = vdw)
  <2>1. s.vdw \in Nat /\ vdw \in Nat
    BY <1>3, GridAssumption DEF SearchTypeOK, MinVdw
  <2> QED BY <1>1, <1>4, <1>6, <2>1 DEF Seen
<1> QED BY <1>5, <1>6

(* The setting looked at may be used for the rate, if it is in range.      *)
LEMMA HereUsable ==
  ASSUME SearchInv, Look
  PROVE  /\ Here \in Setting
         /\ rate <= MaxRate[Here.od]
         /\ Check(Here) \in Nat /\ rate \in Nat /\ low \in Nat /\ hi \in Nat
<1> USE DEF SearchInv
<1>1. Here \in Setting /\ Here.od = od
  BY HereInGrid DEF Look
<1>2. od \in OutDiv
  BY <1>1 DEF Setting
<1>3. MaxRate[od] \in Nat
  BY <1>2 DEF MaxRate, OutDiv
<1>4. rate \in Nat /\ low \in Nat /\ hi \in Nat
  BY RateAssumption DEF SearchTypeOK
<1> QED BY <1>1, <1>3, <1>4, CheckNat DEF Look, odskip

(* In each of the five cases the sides move towards the rate, past nothing *)
(* seen before, and past the frequency looked at at most up to it.         *)
LEMMA ClosesIn ==
  ASSUME SearchInv, Look, InRange(Here)
  PROVE  /\ Sides'
         /\ low' \in Nat /\ hi' \in Nat /\ low <= low' /\ hi' <= hi
         /\ Check(Here) <= low' \/ Check(Here) >= hi'
<1> USE DEF SearchInv
<1> DEFINE check == Check(Here)
<1>1. check \in Nat /\ rate \in Nat /\ low \in Nat /\ hi \in Nat
  BY HereUsable
<1>2. rate' = rate /\ (rate \div 10) \in Nat
  BY <1>1, SMTT(30) DEF Look
<1>3. \/ TieLow(check) \/ TieHigh(check) \/ NewHigh(check) \/ NewLow(check) \/ Farther(check)
  BY DEF Look
<1>4. \/ UNCHANGED <<low, hi>> /\ (check <= low \/ check >= hi)
      \/ low' = low /\ hi' = check /\ low < check /\ check < hi /\ check > rate
      \/ hi' = hi /\ low' = check /\ low < check /\ check < hi /\ check <= rate
  <2> HIDE DEF check
  <2> QED BY <1>1, <1>3 DEF TieLow, TieHigh, NewHigh, NewLow, Farther
<1> HIDE DEF check
<1>5. Sides'
  BY <1>1, <1>2, <1>4 DEF Bracket, Sides
<1>6. /\ low' \in Nat /\ hi' \in Nat /\ low <= low' /\ hi' <= hi
      /\ check <= low' \/ check >= hi'
  BY <1>1, <1>4
<1> QED BY <1>5, <1>6 DEF check

(* And each side stays the frequency of its setting.                       *)
LEMMA HeldAfterLook ==
  ASSUME SearchInv, Look, InRange(Here)
  PROVE  /\ Held(low, lowest, rate - rate \div 10)'
         /\ Held(hi, highest, rate + rate \div 10)'
         /\ lowest' \in Setting \cup {None} /\ highest' \in Setting \cup {None}
<1> USE DEF SearchInv
<1> DEFINE check == Check(Here)
<1>1. \/ TieLow(check) \/ TieHigh(check) \/ NewHigh(check) \/ NewLow(check) \/ Farther(check)
  BY DEF Look
<1>2. \/ low' = low /\ lowest' = lowest
      \/ low' = check /\ lowest' = Here
  <2> HIDE DEF check
  <2> QED BY <1>1 DEF TieLow, TieHigh, NewHigh, NewLow, Farther
<1>3. \/ hi' = hi /\ highest' = highest
      \/ hi' = check /\ highest' = Here
  <2> HIDE DEF check
  <2> QED BY <1>1 DEF TieLow, TieHigh, NewHigh, NewLow, Farther
<1>4. rate' = rate
  BY DEF Look
<1>5. Here \in Setting /\ rate <= MaxRate[Here.od]
  BY HereUsable
<1>6. /\ Held(low, lowest, rate - rate \div 10)
      /\ Held(hi, highest, rate + rate \div 10)
      /\ lowest \in Setting \cup {None} /\ highest \in Setting \cup {None}
  BY DEF Bracket, SearchTypeOK
<1>7. Held(low', lowest', rate - rate \div 10) /\ lowest' \in Setting \cup {None}
  BY <1>2, <1>5, <1>6 DEF Held
<1>8. Held(hi', highest', rate + rate \div 10) /\ highest' \in Setting \cup {None}
  BY <1>3, <1>5, <1>6 DEF Held
<1> QED BY <1>4, <1>7, <1>8 DEF Held

(* A look at a setting keeps what low and hi stand for.                    *)
LEMMA LookStep == ASSUME SearchInv, Look PROVE SearchInv'
<1> USE DEF SearchInv
<1>1. vdw' \in MinVdw..MaxVdw + 1
  BY GridAssumption DEF SearchTypeOK, Look, MinVdw
<1>2. UNCHANGED <<step, rate, od, rdw>> /\ step = "search"
  BY DEF Look
<1>3. CASE InRange(Here)
  <2>1. SearchTypeOK'
    <3>1. low' \in Nat /\ hi' \in Nat
      BY <1>3, ClosesIn
    <3>2. lowest' \in Setting \cup {None} /\ highest' \in Setting \cup {None}
      BY <1>3, HeldAfterLook
    <3> QED BY <1>1, <1>2, <3>1, <3>2 DEF SearchTypeOK
  <2>2. ASSUME NEW s \in Seen' PROVE Check(s) <= low' \/ Check(s) >= hi'
    <3>1. /\ low \in Nat /\ hi \in Nat /\ low' \in Nat /\ hi' \in Nat
          /\ low <= low' /\ hi' <= hi
      BY <1>3, ClosesIn, HereUsable
    <3>2. CASE s = Here
      BY <1>3, <3>2, ClosesIn
    <3>3. CASE s \in Seen
      <4>1. Check(s) \in Nat
        BY <3>3, CheckNat DEF Seen, Usable
      <4>2. Check(s) <= low \/ Check(s) >= hi
        BY <3>3 DEF Bracket
      <4> QED BY <3>1, <4>1, <4>2
    <3> QED BY <2>2, <3>2, <3>3, SeenGrows
  <2> QED BY <1>3, <2>1, <2>2, ClosesIn, HeldAfterLook DEF Bracket, Check
<1>4. CASE ~InRange(Here)
  <2>1. UNCHANGED <<rate, low, hi, lowest, highest>>
    BY <1>2, <1>4 DEF Look
  <2>2. SearchTypeOK'
    BY <1>1, <1>2, <2>1 DEF SearchTypeOK
  <2>3. \A s \in Seen' : Check(s) <= low' \/ Check(s) >= hi'
    BY <1>4, <2>1, SeenGrows DEF Bracket
  <2> QED BY <2>1, <2>2, <2>3, SidesKept DEF Bracket, Check
<1> QED BY <1>3, <1>4

-----------------------------------------------------------------------------
(* The loop invariant: low and hi are frequencies of settings on either    *)
(* side of the rate, and nothing that was seen lies between them.          *)
THEOREM SearchInvariance == SearchSpec => []SearchInv
<1>1. SearchInit => SearchInv
  BY Initially DEF SearchInit
<1>2. SearchInv /\ [SearchNext]_search => SearchInv'
  <2> SUFFICES ASSUME SearchInv, [SearchNext]_search PROVE SearchInv'
    OBVIOUS
  <2>1. CASE Look
    BY <2>1, LookStep
  <2>2. CASE NextRdw
    BY <2>2, RdwStep
  <2>3. CASE NextOd
    BY <2>3, OdStep
  <2>4. CASE Finish
    BY <2>4, FinishStep
  <2>5. CASE UNCHANGED search
    <3>1. SearchTypeOK'
      BY <2>5 DEF search, SearchInv, SearchTypeOK
    <3>2. Seen' = Seen
      BY <2>5, UsableKept DEF search, Seen
    <3> QED BY <2>5, <3>1, <3>2, SidesKept DEF search, SearchInv, Bracket, Check
  <2> QED BY <2>1, <2>2, <2>3, <2>4, <2>5 DEF SearchNext
<1> QED BY <1>1, <1>2, PTL DEF SearchSpec

(* Once the loops are over, every usable setting was seen.                 *)
LEMMA AllSeen == ASSUME SearchInv, step = "done" PROVE Seen = Usable
<1>1. od = 11
  BY DEF SearchInv, SearchTypeOK
<1>2. \A s \in Usable : s.od \in OutDiv
  BY DEF Usable, Setting
<1> QED BY <1>1, <1>2 DEF Seen, OutDiv

(* The answer is the nearest of all settings that may be used, whatever    *)
(* the rate and the grid; without an answer none is within a tenth.        *)
THEOREM NearestHolds == SearchSpec => []Nearest
<1>1. SearchInv => Nearest
  <2> SUFFICES ASSUME SearchInv, step = "done" PROVE Nearest
    BY DEF Nearest
  <2> DEFINE tenth == rate \div 10
  <2>1. rate \in Nat /\ low \in Nat /\ hi \in Nat
    BY RateAssumption DEF SearchInv, SearchTypeOK
  <2>2. tenth \in Nat
    BY <2>1, SMTT(30)
  <2>3. rate - tenth <= low /\ low <= rate /\ rate <= hi /\ hi <= rate + tenth
    BY DEF SearchInv, Bracket, Sides
  <2>4. \A s \in Usable : Check(s) \in Nat /\ (Check(s) <= low \/ Check(s) >= hi)
    BY AllSeen, CheckNat DEF SearchInv, Bracket, Usable
  <2>5. Held(low, lowest, rate - tenth) /\ Held(hi, highest, rate + tenth)
    BY DEF SearchInv, Bracket
  <2> HIDE DEF tenth
  <2>6. None \notin Setting
    BY DEF None, Setting, OutDiv
  <2>7. CASE hi - rate < rate - low
    <3>1. Best = highest
      BY <2>7 DEF Best
    <3>2. highest \in Setting /\ InRange(highest) /\ rate <= MaxRate[highest.od]
          /\ Check(highest) = hi
      BY <2>1, <2>2, <2>3, <2>5, <2>7 DEF Held
    <3>3. Best \in Usable /\ Check(Best) = hi
      BY <3>1, <3>2 DEF Usable
    <3>4. Distance(hi) = hi - rate
      BY <2>1, <2>3 DEF Distance
    <3>5. \A s \in Usable : hi - rate <= Distance(Check(s))
      BY <2>1, <2>3, <2>4, <2>7 DEF Distance
    <3> QED BY <2>1, <2>2, <2>3, <3>1, <3>2, <3>3, <3>4, <3>5 DEF Nearest, tenth
  <2>8. CASE ~(hi - rate < rate - low)
    <3>1. Best = lowest
      BY <2>8 DEF Best
    <3>2. Distance(low) = rate - low
      BY <2>1, <2>3 DEF Distance
    <3>3. \A s \in Usable : rate - low <= Distance(Check(s))
      BY <2>1, <2>3, <2>4, <2>8 DEF Distance
    <3>4. CASE lowest = None /\ low = rate - tenth
      BY <2>1, <2>2, <2>6, <3>1, <3>3, <3>4 DEF Nearest, tenth
    <3>5. CASE lowest \in Setting /\ InRange(lowest) /\ rate <= MaxRate[lowest.od]
               /\ Check(lowest) = low
      <4>1. Best \in Usable /\ Check(Best) = low
        BY <3>1, <3>5 DEF Usable
      <4> QED BY <2>1, <2>2, <2>3, <3>1, <3>2, <3>3, <3>5, <4>1 DEF Nearest, tenth
    <3> QED BY <2>5, <3>4, <3>5 DEF Held
  <2> QED BY <2>7, <2>8
<1> QED BY <1>1, SearchInvariance, PTL

-----------------------------------------------------------------------------
(* Among equals.  First: an old setting is at least as good as another one *)
(* of its frequency.                                                       *)
AtLeast(old, s) == old.rdw < s.rdw \/ (old.rdw = s.rdw /\ old.vdw >= s.vdw)

(* Of the settings seen, the two that are held are at least as good as any *)
(* other of their frequency.  (Where both sides have met, at a rate below  *)
(* 10, only the lower one is looked at, and only it is ever the answer.)   *)
TieInv ==
  /\ \A s \in Seen : Check(s) = low => AtLeast(lowest, s)
  /\ low < hi => \A s \in Seen : Check(s) = hi => AtLeast(highest, s)

(* Numbers to compare: those of a setting on the grid and of None.         *)
LEMMA Numbers ==
  ASSUME NEW s \in Setting \cup {None}
  PROVE  s.rdw \in Nat \ {0} /\ s.vdw \in Nat \ {0}
<1>1. CASE s \in Setting
  <2>1. s.rdw \in 1..MaxRdw /\ s.vdw \in MinVdw..MaxVdw
    BY <1>1 DEF Setting
  <2> QED BY <2>1, GridAssumption DEF MinVdw
<1>2. CASE s = None
  BY <1>2 DEF None
<1> QED BY <1>1, <1>2

(* A look at a setting keeps it, in each of the five cases: the setting     *)
(* becomes or does not become the nearest of its side, or has no side.      *)
LEMMA TieLook == ASSUME SearchInv, TieInv, Look, InRange(Here) PROVE TieInv'
<1> DEFINE check == Check(Here)
<1>1. /\ Here \in Setting /\ Here.rdw = rdw /\ Here.vdw = vdw
      /\ check \in Nat /\ rate \in Nat /\ low \in Nat /\ hi \in Nat
  BY HereUsable, HereInGrid DEF SearchInv, Look
<1>2. rdw \in Nat \ {0} /\ vdw \in Nat \ {0}
  BY <1>1, Numbers
<1>3. /\ lowest.rdw \in Nat \ {0} /\ lowest.vdw \in Nat \ {0}
      /\ highest.rdw \in Nat \ {0} /\ highest.vdw \in Nat \ {0}
  BY Numbers DEF SearchInv, SearchTypeOK
<1>4. \A s \in Seen' : s \in Seen \/ s = Here
  BY SeenGrows
<1>5. \A s \in Seen : /\ Check(s) \in Nat /\ (Check(s) <= low \/ Check(s) >= hi)
                      /\ s.rdw \in Nat \ {0} /\ s.vdw \in Nat \ {0}
  BY CheckNat, Numbers DEF SearchInv, Bracket, Seen, Usable
<1>6. TieLow(check) \/ TieHigh(check) \/ NewHigh(check) \/ NewLow(check) \/ Farther(check)
  BY DEF Look
<1>7. \A s : Check(s)' = Check(s)
  BY DEF Check
<1> HIDE DEF check
<1>8. CASE TieLow(check)
  <2>1. AtLeast(lowest', Here) /\ \A s \in Seen : Check(s) = low => AtLeast(lowest', s)
    <3>1. CASE Preferred(lowest)
      BY <1>1, <1>2, <1>3, <1>5, <1>8, <3>1 DEF TieLow, Preferred, AtLeast, TieInv
    <3>2. CASE ~Preferred(lowest)
      BY <1>1, <1>2, <1>3, <1>8, <3>2 DEF TieLow, Preferred, AtLeast, TieInv
    <3> QED BY <3>1, <3>2
  <2>2. low' = low /\ hi' = hi /\ highest' = highest /\ check = low
    BY <1>8 DEF TieLow
  <2> QED BY <1>1, <1>4, <1>7, <2>1, <2>2 DEF TieInv, AtLeast, check
<1>9. CASE TieHigh(check)
  <2>1. low < hi =>
          AtLeast(highest', Here) /\ \A s \in Seen : Check(s) = hi => AtLeast(highest', s)
    <3>1. CASE Preferred(highest)
      BY <1>1, <1>2, <1>3, <1>5, <1>9, <3>1 DEF TieHigh, Preferred, AtLeast, TieInv
    <3>2. CASE ~Preferred(highest)
      BY <1>1, <1>2, <1>3, <1>9, <3>2 DEF TieHigh, Preferred, AtLeast, TieInv
    <3> QED BY <3>1, <3>2
  <2>2. low' = low /\ hi' = hi /\ lowest' = lowest /\ check # low
    BY <1>9 DEF TieHigh
  <2> QED BY <1>1, <1>4, <1>7, <2>1, <2>2 DEF TieInv, AtLeast, check
<1>10. CASE NewHigh(check)
  <2>1. low' = low /\ lowest' = lowest /\ hi' = check /\ highest' = Here
        /\ low < check /\ check < hi
    BY <1>10 DEF NewHigh
  <2>2. AtLeast(Here, Here)
    BY <1>1, <1>2 DEF AtLeast
  <2> QED BY <1>1, <1>4, <1>5, <1>7, <2>1, <2>2 DEF TieInv, AtLeast, check
<1>11. CASE NewLow(check)
  <2>1. hi' = hi /\ highest' = highest /\ low' = check /\ lowest' = Here
        /\ low < check /\ check < hi
    BY <1>11 DEF NewLow
  <2>2. AtLeast(Here, Here)
    BY <1>1, <1>2 DEF AtLeast
  <2>3. low < hi
    BY <1>1, <2>1
  <2> QED BY <1>1, <1>4, <1>5, <1>7, <2>1, <2>2, <2>3 DEF TieInv, AtLeast, check
<1>12. CASE Farther(check)
  <2>1. UNCHANGED <<low, hi, lowest, highest>> /\ (check < low \/ check > hi)
    BY <1>12 DEF Farther
  <2>2. low <= hi
    BY <1>1 DEF SearchInv, Bracket, Sides
  <2> QED BY <1>1, <1>4, <1>7, <2>1, <2>2 DEF TieInv, AtLeast, check
<1> QED BY <1>6, <1>8, <1>9, <1>10, <1>11, <1>12

(* The other steps add nothing to what was seen.                           *)
LEMMA TieOther ==
  ASSUME SearchInv, TieInv, Seen' \subseteq Seen, UNCHANGED <<low, hi, lowest, highest>>
  PROVE  TieInv'
<1> QED BY DEF TieInv, AtLeast, Check

(* The answer is the one the code's comments ask for among its equals.     *)
THEOREM TieBrokenHolds == SearchSpec => []TieBroken
<1>1. SearchInit => TieInv
  <2> SUFFICES ASSUME SearchInit PROVE Seen = {}
    BY DEF TieInv
  <2> QED BY NothingSeen DEF SearchInit
<1>2. SearchInv /\ TieInv /\ [SearchNext]_search => TieInv'
  <2> SUFFICES ASSUME SearchInv, TieInv, [SearchNext]_search PROVE TieInv'
    OBVIOUS
  <2>1. CASE Look
    <3>1. CASE InRange(Here)
      BY <2>1, <3>1, TieLook
    <3>2. CASE ~InRange(Here)
      <4>1. Seen' \subseteq Seen
        BY <2>1, <3>2, SeenGrows
      <4> QED BY <2>1, <3>2, <4>1, TieOther DEF Look
    <3> QED BY <3>1, <3>2
  <2>2. CASE NextRdw
    BY <2>2, RdwAddsNothing, TieOther DEF NextRdw
  <2>3. CASE NextOd
    BY <2>3, OdAddsNothing, TieOther DEF NextOd
  <2>4. CASE Finish
    <3>1. Seen' \subseteq Seen
      BY <2>4, UsableKept DEF Finish, Seen
    <3> QED BY <2>4, <3>1, TieOther DEF Finish
  <2>5. CASE UNCHANGED search
    <3>1. Seen' \subseteq Seen
      BY <2>5, UsableKept DEF search, Seen
    <3> QED BY <2>5, <3>1, TieOther DEF search
  <2> QED BY <2>1, <2>2, <2>3, <2>4, <2>5 DEF SearchNext
<1>3. SearchInv /\ TieInv => TieBroken
  <2> SUFFICES ASSUME SearchInv, TieInv, step = "done", Best \in Setting,
                      NEW s \in Usable, Check(s) = Check(Best)
               PROVE  AtLeast(Best, s)
    BY DEF TieBroken, AtLeast
  <2>1. s \in Seen
    BY AllSeen
  <2>2. (Best = highest /\ hi - rate < rate - low) \/ Best = lowest
    BY DEF Best
  <2>3. rate \in Nat /\ low \in Nat /\ hi \in Nat /\ low <= rate /\ rate <= hi
    BY RateAssumption DEF SearchInv, SearchTypeOK, Bracket, Sides
  <2>4. None \notin Setting
    BY DEF None, Setting, OutDiv
  <2>5. CASE Best = highest /\ hi - rate < rate - low
    <3>1. Check(highest) = hi
      BY <2>4, <2>5 DEF SearchInv, Bracket, Held
    <3>2. low < hi
      BY <2>3, <2>5
    <3> QED BY <2>1, <2>5, <3>1, <3>2 DEF TieInv
  <2>6. CASE Best = lowest
    <3>1. Check(lowest) = low
      BY <2>4, <2>6 DEF SearchInv, Bracket, Held
    <3> QED BY <2>1, <2>6, <3>1 DEF TieInv
  <2> QED BY <2>2, <2>5, <2>6
<1> QED BY <1>1, <1>2, <1>3, SearchInvariance, PTL DEF SearchSpec

-----------------------------------------------------------------------------
(* The word.                                                               *)

(* The places of the fields in the word.                                   *)
LEMMA Powers ==
  2^7 = 128 /\ 2^9 = 512 /\ 2^16 = 65536 /\ 2^24 = 16777216
BY SMTT(30)

(* The codes of the output dividers are numbers of 8 bits, all different.  *)
LEMMA OdCodes ==
  /\ \A o \in OutDiv : OdCode[o] \in 0..255
  /\ \A o, p \in OutDiv : OdCode[o] = OdCode[p] => o = p
BY SMTT(30) DEF OdCode, OutDiv

(* A setting's word has its numbers apart, and is read back as it.         *)
LEMMA WordDecoded ==
  ASSUME NEW s \in Setting
  PROVE  Word(s) \in 0..2^24 - 1 /\ Decode(Word(s)) = s
<1> DEFINE c == OdCode[s.od]
           v == s.vdw
           r == s.rdw
           w == c * 65536 + v * 128 + r
<1>1. s.od \in OutDiv /\ c \in 0..255
  BY OdCodes DEF Setting
<1>2. v \in 0..511 /\ r \in 0..127
  <2>1. s.rdw \in 1..MaxRdw /\ s.vdw \in MinVdw..MaxVdw
    BY DEF Setting
  <2>2. MaxRdw \in Nat /\ MaxRdw <= 127 /\ MaxVdw \in Nat /\ MaxVdw <= 511 /\ MinVdw \in Nat
    BY GridAssumption DEF MinVdw
  <2> QED BY <2>1, <2>2
<1>3. Word(s) = w
  BY Powers, SMT DEF Word
<1> HIDE DEF c, v, r
<1>4. /\ w \in Nat /\ w < 16777216
      /\ w \div 65536 = c /\ w % 128 = r /\ w \div 128 = c * 512 + v
  BY <1>1, <1>2, SMTT(30)
<1>5. (c * 512 + v) % 512 = v
  BY <1>1, <1>2, SMTT(30)
<1> HIDE DEF w
<1>6. Word(s) \in 0..2^24 - 1
  BY <1>3, <1>4, Powers, SMTT(30)
<1>7. Decode(Word(s)) = [od |-> CHOOSE o \in OutDiv : OdCode[o] = c, rdw |-> r, vdw |-> v]
  <2>1. /\ Word(s) \div 2^16 = c /\ Word(s) % 2^7 = r /\ (Word(s) \div 2^7) % 2^9 = v
    BY <1>3, <1>4, <1>5, Powers, SMTT(30)
  <2> QED BY <2>1 DEF Decode
<1>8. (CHOOSE o \in OutDiv : OdCode[o] = c) = s.od
  BY <1>1, OdCodes DEF c
<1>9. s = [od |-> s.od, rdw |-> s.rdw, vdw |-> s.vdw]
  BY DEF Setting
<1> QED BY <1>6, <1>7, <1>8, <1>9 DEF r, v

ResultInv ==
  step = "done" => result = IF Best.od \in OutDiv THEN Word(Best) ELSE Failed

(* The word the caller gets carries the dividers found, each in its own    *)
(* bits, on every grid (end of calculate_clock_bits_335).                  *)
THEOREM WordOfBestHolds == SearchSpec => []WordOfBest
<1>1. SearchInit => ResultInv
  BY DEF SearchInit, Begin, ResultInv
<1>2. ResultInv /\ [SearchNext]_search => ResultInv'
  <2> SUFFICES ASSUME ResultInv, [SearchNext]_search PROVE ResultInv'
    OBVIOUS
  <2>1. CASE Finish
    BY <2>1 DEF Finish, ResultInv, Best, Word
  <2>2. CASE Look \/ NextRdw \/ NextOd
    <3>1. step' = "search"
      BY <2>2 DEF Look, NextRdw, NextOd
    <3> QED BY <3>1 DEF ResultInv
  <2>3. CASE UNCHANGED search
    BY <2>3 DEF search, ResultInv, Best, Word
  <2> QED BY <2>1, <2>2, <2>3 DEF SearchNext
<1>3. SearchInv /\ ResultInv => WordOfBest
  <2> SUFFICES ASSUME SearchInv, ResultInv, step = "done"
               PROVE  IF Best \in Setting
                      THEN result \in 0..2^24 - 1 /\ Decode(result) = Best
                      ELSE result = Failed
    BY DEF WordOfBest
  <2>1. Best \in Setting \cup {None}
    BY DEF SearchInv, SearchTypeOK, Best
  <2>2. result = IF Best.od \in OutDiv THEN Word(Best) ELSE Failed
    BY DEF ResultInv
  <2> HIDE DEF Best
  <2>3. CASE Best \in Setting
    <3>1. Best.od \in OutDiv
      BY <2>3 DEF Setting
    <3> QED BY <2>2, <2>3, <3>1, WordDecoded
  <2>4. CASE Best \notin Setting
    <3>1. Best.od \notin OutDiv
      BY <2>1, <2>4 DEF None, OutDiv
    <3> QED BY <2>2, <2>4, <3>1
  <2> QED BY <2>3, <2>4
<1> QED BY <1>1, <1>2, <1>3, SearchInvariance, PTL DEF SearchSpec

-----------------------------------------------------------------------------
(* What rounding costs.                                                    *)

(* The frequency compared is less than the chip's by less than the VCO     *)
(* divider: the remainder of the division, multiplied, is what is missing. *)
LEMMA Rounding ==
  ASSUME NEW s \in Setting
  PROVE  Check(s) \in Nat /\ Actual(s) \in Nat /\ Check(s) <= Actual(s) /\ Actual(s) < Check(s) + s.vdw + 8
<1> DEFINE k == (s.rdw + 2) * s.od
           b == s.vdw + 8
           f == (inFreq2 \div k) * b
           t == inFreq2 % k
           e == (t * b) \div k
<1>1. s.od \in OutDiv /\ s.rdw \in 1..MaxRdw /\ s.vdw \in MinVdw..MaxVdw
  BY DEF Setting
<1>2. s.od \in Nat \ {0} /\ s.rdw \in Nat /\ s.vdw \in Nat
  BY <1>1, GridAssumption DEF OutDiv, MinVdw
<1>3. k \in Nat \ {0} /\ b \in Nat \ {0}
  BY <1>2, SMTT(30)
<1>4. Check(s) = f /\ Check(s) \in Nat
  BY CheckNat DEF Check
<1>5. Actual(s) = f + e
  BY DEF Actual
<1> HIDE DEF k, b
<1>6. t \in Nat /\ t <= k - 1
  BY <1>3, SMTT(30) DEF inFreq2
<1> HIDE DEF t, f
<1>7. t * b \in Nat /\ t * b < k * b
  BY <1>3, <1>6, SMTT(30)
<1> DEFINE p == t * b
<1> HIDE DEF p
<1>8. e \in Nat /\ e < b
  <2>1. p \in Nat /\ p < k * b
    BY <1>7 DEF p
  <2>2. p \div k \in Nat /\ k * (p \div k) <= p
    BY <1>3, <2>1, SMTT(30)
  <2> DEFINE d == p \div k
  <2> HIDE DEF d
  <2>3. d \in Nat /\ k * d < k * b
    BY <1>3, <2>1, <2>2, SMTT(30) DEF d
  <2>4. d < b
    BY <1>3, <2>3, SMTT(30)
  <2> QED BY <2>3, <2>4 DEF d, p
<1> HIDE DEF e
<1> QED BY <1>2, <1>4, <1>5, <1>8, SMTT(30) DEF b

(* The search compares rounded frequencies (calculate_clock_bits_335): the *)
(* setting it chooses is the nearest one but for what rounding costs, for  *)
(* every rate and on every grid.                                           *)
THEOREM NearestButRoundingHolds == SearchSpec => []NearestButRounding
<1>1. SearchInv /\ Nearest => NearestButRounding
  <2> SUFFICES ASSUME SearchInv, Nearest, step = "done", Best \in Setting, NEW s \in Usable
               PROVE  Distance(Actual(Best)) < Distance(Actual(s)) + Best.vdw + s.vdw + 16
    BY DEF NearestButRounding
  <2>1. s \in Setting
    BY DEF Usable
  <2>2. Distance(Check(Best)) <= Distance(Check(s))
    BY DEF Nearest
  <2>3. rate \in Nat /\ s.vdw \in Nat /\ Best.vdw \in Nat
    BY <2>1, RateAssumption, Numbers DEF SearchInv, SearchTypeOK
  <2> DEFINE bc == Check(Best)
             ba == Actual(Best)
             sc == Check(s)
             sa == Actual(s)
             bv == Best.vdw
             sv == s.vdw
  <2>4. bc \in Nat /\ ba \in Nat /\ bc <= ba /\ ba < bc + bv + 8
    BY Rounding
  <2>5. sc \in Nat /\ sa \in Nat /\ sc <= sa /\ sa < sc + sv + 8
    BY <2>1, Rounding
  <2>6. Distance(bc) <= Distance(sc) /\ sv \in Nat /\ bv \in Nat
    BY <2>2, <2>3
  <2> HIDE DEF bc, ba, sc, sa, bv, sv
  <2>7. Distance(ba) < Distance(sa) + bv + sv + 16
    BY <2>3, <2>4, <2>5, <2>6, SMTT(30) DEF Distance
  <2> QED BY <2>7 DEF ba, sa, bv, sv
<1> QED BY <1>1, SearchInvariance, NearestHolds, PTL
=============================================================================
