------------------------------- MODULE MCExar -------------------------------
(***************************************************************************)
(* Values for the constants of Exar: two or four ports with the first and  *)
(* the last in use, arguments at the ends of each range and next to them.  *)
(***************************************************************************)
EXTENDS ExarInvariant

CONSTANTS u1, k1

OneUser == {u1}
OneCard == {k1}

\* 8N1.
EightBits == {{0, 1}}

NoBits  == {{}}
AllBits == {Bits}
Extremes == {{}, Bits}

Set_(name, args) == {Call("set", name, a) : a \in args}
Reading(names)   == {Call("get", n, 0) : n \in names}

PciCalls ==
  [channel \in Channel |->
     Set_("sample_rate", {4, 8, 16}) \cup Set_("tx_trigger", {64, 65}) \cup Set_("rs485", {0, 2})
       \cup Set_("echo_cancel", {0, 1}) \cup Set_("clock_bits", {0}) \cup Set_("nine_bit", {1})
       \cup Reading({"sample_rate", "tx_trigger", "rs485", "echo_cancel"})]

\* Of the rates, one the divisor holds at 8 and 16 samples but not at 4, and
\* the first refused at 16.  Port 0 is there for what the two ports share; only
\* the last port uses the rest.
SharedCalls ==
  Set_("sample_rate", {4, 8, 16}) \cup Set_("termination", {0, 1}) \cup Set_("echo_cancel", {0, 1})
    \cup Reading({"sample_rate", "termination", "echo_cancel"})

OwnCalls ==
  Set_("rx_trigger", {255, 256}) \cup Set_("rs485", {0, 2}) \cup Set_("baud_rate", {470, 7812501})
    \cup Reading({"rx_trigger", "rs485", "baud_rate"})

PcieCalls ==
  [channel \in Channel |-> SharedCalls \cup (IF channel = 0 THEN {} ELSE OwnCalls)]

ClockCalls == [channel \in Channel |-> Set_("clock_bits", {0})]
ZeroCalls  == [channel \in Channel |-> Set_("baud_rate", {0})]
=============================================================================
