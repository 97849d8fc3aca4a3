------------------------- MODULE ClockWordProperties -------------------------
(***************************************************************************)
(* What the programming word of an ICS307-03 must say, read back the way   *)
(* the chip reads it.                                                      *)
(***************************************************************************)
EXTENDS ClockWord

\* Bits of byte i of a word as numbers: one bit, two and four from bit b on.
Bit(data, i, b)  == IF b \in data[i] THEN 1 ELSE 0
Two(data, i, b)  == Bit(data, i, b) + 2 * Bit(data, i, b + 1)
Four(data, i, b) == Two(data, i, b) + 4 * Two(data, i, b + 2)

RefRead(data) ==
  LET kind == data[0] \cap {0, 1} IN
  CASE kind = {}  -> 1
    [] kind = {0} -> 2
    [] kind = {1} -> 17 - Four(data, 0, 2)
    [] OTHER      -> 8 + Four(data, 0, 2) + 16 * Two(data, 0, 6)
                       + 64 * Four(data, 1, 0) + 1024 * Bit(data, 1, 4)

VcoRead(data) ==
  8 + Two(data, 1, 5) + 4 * Bit(data, 1, 7) + 8 * Four(data, 2, 0) + 128 * Four(data, 2, 4)

RsRead(data) ==
  CASE data[11] \cap {1, 2} = {}  -> 64000
    [] data[11] \cap {1, 2} = {2} -> 52000
    [] data[11] \cap {1, 2} = {1} -> 16000
    [] OTHER                      -> 4000

\* One to four units of a current in eight steps.
IcpRead(data) ==
  125 * (8 - (Two(data, 11, 3) + 4 * Bit(data, 11, 5)))
      * (1 + Bit(data, 15, 7) + 2 * Bit(data, 16, 0))

OdRead(data) ==
  LET top  == 7 \in data[11]
      mode == data[12] \cap {0, 1}
      y    == IF 2 \in data[12] THEN 0 ELSE 1
      x    == Two(data, 12, 5) + 4 * Bit(data, 12, 7) + 8 * Four(data, 13, 0) + 128 * Two(data, 13, 4)
  IN  CASE mode = {1} /\ ~top      -> 37 - (Four(data, 12, 2) + 16 * Bit(data, 12, 6))
        [] mode = {1} /\ top       -> ((x + 3) * 2 + y) * 2^Two(data, 12, 3)
        [] data[12] = {}           -> IF top THEN 3 ELSE 2
        [] data[12] = {2}          -> IF top THEN 6 ELSE 4
        [] data[12] = {0}          -> IF top THEN 7 ELSE 5
        [] data[12] = {0, 2}       -> 9
        [] data[12] = {0, 3}       -> 11
        [] data[12] = {0, 2, 3}    -> 13
        [] OTHER                   -> 0

Reading(data) ==
  [ref |-> RefRead(data), vco |-> VcoRead(data), rs |-> RsRead(data), icp |-> IcpRead(data),
   od |-> OdRead(data)]

(* A word that is handed out, and the one the driver loads after it has    *)
(* set or cleared the crystal bit, make the chip use the solution found:   *)
(* the five tables write into each other's bytes, and every output divider *)
(* the search can stop at has a code.  No table refuses a solution (3 to   *)
(* 7): the search's bounds lie inside the tables'.                         *)
WordSaysSolution ==
  stage \in {"returned", "loaded"} =>
    /\ status \in {0, 2}
    /\ status = 0 => Reading(progdata) = solution

(* No bit outside the fields changes on the way but the crystal's: CLK1    *)
(* stays enabled, the chip powered up, all that is not programmed as it    *)
(* was.                                                                    *)
Fields ==
  [i \in 0..19 |->
     CASE i \in {0, 1, 2, 12} -> Byte [] i = 11 -> {1, 2, 3, 4, 5, 7} [] i = 13 -> 0..5
       [] i = 15 -> {2, 7} [] i = 16 -> {0} [] OTHER -> {}]

OnlyFields ==
  \A i \in 0..19 : progdata[i] \ Fields[i] = Blank[i] \ Fields[i]

-----------------------------------------------------------------------------
(* Why: the inductive invariant.                                           *)

WordStage == {"idle", "search", "input", "vco", "filter", "pump", "output", "returned", "loaded"}

\* The output dividers the search comes by: the steps grow with the divider,
\* so that those left have one of the forms of table 5.
Reached ==
  {d \in 1..8232 : /\ d > 1030 => d % 2 = 0
                   /\ d > 2060 => d % 4 = 0
                   /\ d > 4120 => d % 8 = 0}

Solutions == [ref : 1..MaxR, vco : MinV..MaxV, rs : Resistor, icp : Pump, od : Reached \ {1}]

Tabling == {"input", "vco", "filter", "pump", "output"}

\* A solution that is being turned into a word, or has been.
Solved == stage \in Tabling \/ (stage \in {"returned", "loaded"} /\ status = 0)

WordTypeOK ==
  /\ stage \in WordStage
  /\ outDiv \in Reached
  /\ progdata \in [0..19 -> SUBSET Byte]
  /\ status \in {0, 2}
  /\ stage # "returned" => status = 0
  /\ Solved => solution \in Solutions

\* What the tables have written is there, and is not undone by later ones.
Written ==
  Solved =>
    /\ stage # "input" => RefRead(progdata) = solution.ref
    /\ stage \notin {"input", "vco"} => VcoRead(progdata) = solution.vco
    /\ stage \notin {"input", "vco", "filter"} => RsRead(progdata) = solution.rs
    /\ stage \notin {"input", "vco", "filter", "pump"} => IcpRead(progdata) = solution.icp
    /\ stage \notin Tabling => OdRead(progdata) = solution.od

\* The bits that a table sets without clearing them first are still clear.
Clear ==
  /\ stage \in {"idle", "search", "input"} => progdata = Blank
  /\ stage = "vco" => progdata[1] \cap 5..7 = {} /\ progdata[2] = {}
  /\ stage \in {"vco", "filter"} => progdata[11] = {}
  /\ stage \in Tabling \ {"output"} => progdata[11] \subseteq {1, 2}
  /\ stage \in Tabling => progdata[12] = {} /\ progdata[13] \cap 0..5 = {}

WordInv == WordTypeOK /\ Written /\ Clear /\ OnlyFields
=============================================================================
