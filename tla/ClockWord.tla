------------------------------ MODULE ClockWord ------------------------------
(***************************************************************************)
(* calculate_clock_bits (lib/raw/calculate-clock-bits.c): the 20 byte      *)
(* programming word of the ICS307-03 clock chip of FSCC cards, from the    *)
(* search for a solution to the word the driver loads.                     *)
(*                                                                         *)
(* The search is in floating point: which solution satisfies its tests is  *)
(* left open (Accepted), but not the order in which it goes through the    *)
(* output dividers, nor which of them it can stop at.  The five tables     *)
(* that turn a solution into bits are all there.  A byte of the word is    *)
(* the set of its bits that are 1.                                         *)
(***************************************************************************)
EXTENDS Integers, FiniteSets

CONSTANTS
  Accepted, \* of each output divider: the [ref, vco, rs, icp] the tests may accept
  MaxOd,    \* the first output divider tried, 8232 in the code
  Rounds,   \* of reference dividers and errors: 1200 * (ppm + 1) in the code
  Revision  \* of the card: PDEV 0x0f with PREV at most 6, 0x16, or any other

VARIABLES
  stage,     \* where GetICS30703Data is, then the caller and the driver;
             \* "idle" where the function is not called
  round,     \* which of them the search is in; 0 when it is over
  outDiv,    \* od
  solution,  \* theOne and theOther: [ref, vco, rs, icp, od]
  progdata,
  status     \* what GetICS30703Data returned

word == <<stage, round, outDiv, solution, progdata, status>>

MaxR    == 1200
MinV    == 12
MaxV    == 2055
Resistor == {64000, 52000, 16000, 4000}
Pump     == {125, 250, 375, 500, 625, 750, 875, 1000, 1125, 1250, 1500, 1750, 1875,
             2000, 2250, 2500, 2625, 3000, 3500, 4000}

Dividers == [ref : 1..MaxR, vco : MinV..MaxV, rs : Resistor, icp : Pump]

\* The output dividers the tables take.
Od == 2..8232

ASSUME AcceptedAssumption == Accepted \in [Od -> SUBSET Dividers]
ASSUME MaxOdAssumption    == MaxOd \in Od
ASSUME RoundsAssumption   == Rounds \in Nat \ {0}
ASSUME RevisionAssumption == Revision \subseteq {"old green", "232", "other"}

Byte == 0..7

\* The bits of a number (below 2^16) and the two lower bytes of a shifted one.
Bits(n)  == {i \in 0..15 : (n \div 2^i) % 2 = 1}
Low(n)   == {i \in Byte : i \in Bits(n)}
High(n)  == {i \in Byte : i + 8 \in Bits(n)}

\* The low bits of ~n that a mask leaves: those of 2^width - 1 - n.
Not(n, width) == 2^width - 1 - (n % 2^width)

\* progdata[i] = (progdata[i] & ~clear) | set.
Change(data, i, clear, set) == [data EXCEPT ![i] = (@ \ clear) \cup set]

-----------------------------------------------------------------------------
(* The search: output dividers from the highest down, in steps that grow   *)
(* with the divider.                                                       *)

Idle == [ref |-> 0, vco |-> 0, rs |-> 0, icp |-> 0, od |-> 0]

\* A faulty variant: single steps further up than the divider's fields allow.
LessTwice(od) ==
  IF od <= 2060 THEN od - 1 ELSE IF od <= 4120 THEN od - 4 ELSE od - 8

Less(od) ==
  IF od <= 1030 THEN od - 1
  ELSE IF od <= 2060 THEN od - 2
  ELSE IF od <= 4120 THEN od - 4 ELSE od - 8

\* rule1: the limits of the VCO in MHz (the input is 24 MHz).
MaxVco(od) ==
  CASE od = 2 -> 540 [] od = 3 -> 720 [] od \in 38..1029 -> 570 [] OTHER -> 730

Rule1(s, od) == 90 * s.ref <= 24 * s.vco /\ 24 * s.vco <= MaxVco(od) * s.ref

\* The error, the loop's bandwidth and its damping are within their limits.
Found ==
  /\ stage = "search" /\ outDiv > 1
  /\ \E s \in Accepted[outDiv] :
       /\ Rule1(s, outDiv)
       /\ solution' = [ref |-> s.ref, vco |-> s.vco, rs |-> s.rs, icp |-> s.icp, od |-> outDiv]
  /\ stage' = "input" /\ round' = 0
  /\ UNCHANGED <<outDiv, progdata, status>>

TryLess ==
  /\ stage = "search" /\ outDiv > 1
  /\ outDiv' = Less(outDiv)
  /\ UNCHANGED <<stage, round, solution, progdata, status>>

Return(code) == status' = code /\ stage' = "returned"

\* The next reference divider, or an error greater by 1 ppm.
NextRound ==
  /\ stage = "search" /\ outDiv <= 1 /\ round < Rounds
  /\ outDiv' = MaxOd /\ round' = round + 1
  /\ UNCHANGED <<stage, solution, progdata, status>>

\* The caller permits no greater error.
NoSolution ==
  /\ stage = "search" /\ outDiv <= 1 /\ round = Rounds
  /\ Return(2) /\ round' = 0
  /\ UNCHANGED <<outDiv, solution, progdata>>

-----------------------------------------------------------------------------
(* The word: what it holds before the tables, CLK1 enabled and power up.   *)

Blank ==
  [i \in 0..19 |->
     CASE i \in 17..19 -> Byte [] i = 15 -> {2} [] i = 14 -> {0} [] i = 13 -> {6} [] OTHER -> {}]

Goto(next, data) == stage' = next /\ progdata' = data /\ UNCHANGED <<round, outDiv, solution, status>>

Refuse(code) == Return(code) /\ UNCHANGED <<round, outDiv, solution, progdata>>

(* Table 1: the input divider.                                             *)

InputBits(d) ==
  CASE d = 1 -> Change(Change(progdata, 0, {0, 1}, {}), 1, 0..3, {})
    [] d = 2 -> Change(Change(progdata, 0, {0, 1}, {0}), 1, 0..3, {})
    [] d \in 3..17 -> [progdata EXCEPT ![0] = (Low(Not(d - 2, 6) * 4) \ {0, 6, 7}) \cup {1}]
    [] d \in 18..2055 -> [progdata EXCEPT ![0] = Low((d - 8) * 4) \cup {0, 1}, ![1] = High((d - 8) * 4)]

InputDivider ==
  /\ stage = "input"
  /\ IF solution.ref \in 1..2055 THEN Goto("vco", InputBits(solution.ref)) ELSE Refuse(3)

(* Table 2: the VCO divider, over three bits of byte 1 and byte 2.         *)
VcoBits(v) ==
  Change(Change(progdata, 1, {}, Low((v - 8) * 32)), 2, {}, High((v - 8) * 32))

VCODivider ==
  /\ stage = "vco"
  /\ IF solution.vco \in 12..2055 THEN Goto("filter", VcoBits(solution.vco)) ELSE Refuse(4)

(* Table 4: the loop filter resistor, bits 89 and 90.                      *)
FilterBits(rs) ==
  CASE rs = 64000 -> Change(progdata, 11, {1, 2}, {})
    [] rs = 52000 -> Change(progdata, 11, {1, 2}, {2})
    [] rs = 16000 -> Change(progdata, 11, {1, 2}, {1})
    [] rs = 4000  -> Change(progdata, 11, {}, {1, 2})

LoopFilterResistor ==
  /\ stage = "filter"
  /\ IF solution.rs \in Resistor THEN Goto("pump", FilterBits(solution.rs)) ELSE Refuse(5)

(* Table 3: the charge pump current, in hundredths of a microampere.  The  *)
(* bits of byte 11, and whether bit 7 of byte 15 and bit 0 of byte 16 are  *)
(* set.                                                                    *)
PumpBits(icp) ==
  CASE icp \in {125, 250, 375, 500} -> Change(progdata, 11, {}, 3..5)
    [] icp \in {625, 1250, 1875, 2500} -> Change(progdata, 11, {5}, {3, 4})
    [] icp = 750  -> Change(progdata, 11, {3, 5}, {4})
    [] icp \in {875, 1750, 2625, 3500} -> Change(progdata, 11, {4, 5}, {3})
    [] icp \in {1000, 2000, 3000, 4000} -> Change(progdata, 11, {3, 4, 5}, {})
    [] icp \in {1125, 1500} -> Change(progdata, 11, {4}, {3, 5})
    [] icp = 2250 -> Change(progdata, 11, {}, {4})

PumpHigh15 == {250, 500, 1250, 1500, 1750, 2000, 2500, 3500, 4000}
PumpHigh16 == {375, 500, 1125, 1500, 1875, 2250, 2500, 2625, 3000, 3500, 4000}

Put(data, i, bit, on) == Change(data, i, {bit}, IF on THEN {bit} ELSE {})

CurrentBits(icp) ==
  Put(Put(PumpBits(icp), 15, 7, icp \in PumpHigh15), 16, 0, icp \in PumpHigh16)

ChargePumpCurrent ==
  /\ stage = "pump"
  /\ IF solution.icp \in Pump THEN Goto("output", CurrentBits(solution.icp)) ELSE Refuse(6)

-----------------------------------------------------------------------------
(* Table 5: the output divider.                                            *)

\* The small dividers with a code of their own: bit 7 of byte 11 and byte 12.
SmallOd == {2, 3, 4, 5, 6, 7, 9, 11, 13}

SmallBits(od) ==
  LET b12 == [o \in SmallOd |->
                CASE o \in {2, 3} -> {} [] o \in {4, 6} -> {2} [] o \in {5, 7} -> {0}
                  [] o = 9 -> {0, 2} [] o = 11 -> {0, 3} [] o = 13 -> {0, 2, 3}]
  IN  Change(Change(Put(progdata, 11, 7, od \notin {2, 4, 5}),
                    12, IF od \in {2, 3} THEN Byte ELSE {}, b12[od]),
             13, 0..5, {})

\* A faulty variant: byte 13 is cleared, not only its low six bits.
MiddleBitsWhole(od) ==
  Change([Put(progdata, 11, 7, FALSE) EXCEPT
            ![12] = (Low(Not(od - 6, 6) * 4) \ {0, 7}) \cup {1}],
         13, Byte, {})

\* 8 to 37: the complement of the divider.
MiddleBits(od) ==
  Change([Put(progdata, 11, 7, FALSE) EXCEPT
            ![12] = (Low(Not(od - 6, 6) * 4) \ {0, 7}) \cup {1}],
         13, 0..5, {})

\* Above: od = ((x + 3) * 2 + y) * 2^z.  For one x at most one pair <<y, z>>
\* fits, so that the order in which the code tries them does not matter.
Form(od, y, z) == [x |-> (od \div 2^z - y) \div 2 - 3, y |-> y, z |-> z]

Forms(od) ==
  {f \in {Form(od, y, z) : y \in {0, 1}, z \in 0..3} :
     f.x \in 0..511 /\ od = ((f.x + 3) * 2 + f.y) * 2^f.z}

\* The loop over x stops at the first that fits.  z in bits 3 and 4 of byte
\* 12, bit 2 says y = 0, x from bit 5 on.
LargeFields(od) ==
  LET f    == CHOOSE f \in Forms(od) : \A g \in Forms(od) : f.x <= g.x
      data == Change(Change(progdata, 12, {}, Low(f.x * 32)), 13, {}, High(f.x * 32))
  IN  Change(data, 12, 2..4, Low(f.z * 8) \cup (IF f.y = 0 THEN {2} ELSE {}))

\* A divider of no such form goes through the loop without an error.
LargeBits(od) ==
  LET data == IF Forms(od) = {} THEN progdata ELSE LargeFields(od)
  IN  Change(Put(data, 11, 7, TRUE), 12, {0}, {1})

OutputBits(od) ==
  IF od \in SmallOd THEN SmallBits(od)
  ELSE IF od <= 37 THEN MiddleBits(od) ELSE LargeBits(od)

OutputDividerOut1 ==
  /\ stage = "output"
  /\ IF solution.od \in Od
     THEN /\ progdata' = OutputBits(solution.od)
          /\ Return(0)
          /\ UNCHANGED <<round, outDiv, solution>>
     ELSE Refuse(7)

-----------------------------------------------------------------------------
(* The driver, given a word, decides about the crystal by the card's       *)
(* revision, whatever the word says (fastcom_set_clock_bits_fscc).         *)
EnableXtal ==
  /\ stage = "returned" /\ status = 0
  /\ \E r \in Revision :
       progdata' = Put(progdata, 15, 2, r = "other")
  /\ stage' = "loaded"
  /\ UNCHANGED <<round, outDiv, solution, status>>

-----------------------------------------------------------------------------
WordBegin(first) ==
  /\ stage = first /\ round = 1 /\ outDiv = MaxOd /\ solution = Idle
  /\ progdata = Blank /\ status = 0

WordInit == WordBegin("search")

Tables ==
  InputDivider \/ VCODivider \/ LoopFilterResistor \/ ChargePumpCurrent \/ OutputDividerOut1

\* All of it is loops that count to their end: see SearchSpec.
WordNext == Found \/ TryLess \/ NoSolution \/ NextRound \/ Tables \/ EnableXtal

WordSpec == WordInit /\ [][WordNext]_word /\ WF_word(WordNext)
=============================================================================
