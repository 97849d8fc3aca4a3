------------------------------- MODULE MCFscc -------------------------------
(***************************************************************************)
(* Values for the constants of Fscc.  A set of calls has values at both    *)
(* ends of each setting's range and the first ones outside it; the calls   *)
(* are grouped by the registers they share.                                *)
(***************************************************************************)
EXTENDS FsccInvariant, TLC

CONSTANTS u1, u2, k1

OneUser  == {u1}
TwoUsers == {u1, u2}
OneCard  == {k1}

Interchangeable == Permutations(TwoUsers)

\* Whatever the registers hold, the count of external transmit has its enable
\* bit or is none.
ZeroBytes == {[r \in IcrReg |-> 0]}
FullOf(v) == [r \in IcrReg |-> IF r = "EXTH" /\ v # 0 THEN 128 + (v % 128) ELSE v]
OddBytes  == {FullOf(80)}
AnyBytes  == {FullOf(v) : v \in {0, 80, 255}}

\* LCR, FIFO control and EFR: as after power-up, and as an earlier load leaves
\* them on a port the tty driver has not touched since.
Fresh    == [p \in Port |-> [lcr |-> 3, fifo |-> 0, efr |-> 0]]
Reloaded == [p \in Port |-> [lcr |-> 191, fifo |-> 1, efr |-> 16]]
Mixed    == [p \in Port |-> IF p[2] = 0 THEN Fresh[p] ELSE [lcr |-> 191, fifo |-> 0, efr |-> 16]]

NoBits  == {{}}
AnyBits == {{}, FcrBit}

Setting_(name, args) == {Call("set", name, a) : a \in args}
Reading(names)       == {Call("get", n, 0) : n \in names}

\* Settings kept in indexed registers: one register, two registers, an offset
\* encoding, a copy in memory, a shadow.
SettingCalls ==
  Setting_("sample_rate", {3, 4, 17}) \cup Setting_("tx_trigger", {127, 128}) \cup Setting_("rs485", {0, 2})
    \cup Setting_("isochronous", {-2, -1, 8, 10, 11}) \cup Setting_("external_transmit", {0, 8191, 8192})
    \cup Setting_("frame_length", {0, 256, 257}) \cup Setting_("termination", {1})
    \cup Reading({"sample_rate", "tx_trigger", "rs485", "isochronous", "external_transmit", "frame_length"})

\* Everything that rewrites the board's Feature Control Register.
BoardCalls ==
  Setting_("rs485", {0, 1}) \cup Setting_("echo_cancel", {0, 1}) \cup Setting_("clock_bits", {0})
    \cup Reading({"rs485", "echo_cancel", "rx_trigger"})

\* Calls that keep off the Feature Control Register.
OwnPortCalls ==
  Setting_("tx_trigger", {127}) \cup Reading({"tx_trigger"})
=============================================================================
