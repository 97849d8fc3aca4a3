----------------------------- MODULE ExarCalls -----------------------------
(***************************************************************************)
(* The per-port operations of src/utils.c on the two families built on     *)
(* Exar UARTs: "PCI" (Async-335, XR17D15X) and "PCIe" (Async-PCIe,         *)
(* XR17V35X), each as the sequence of register accesses its C function     *)
(* makes.  Ports of these cards share the multi-purpose output pins        *)
(* (MPIO) and the sampling rate registers of their board; a bit there is   *)
(* changed by reading the byte and writing it back, without a lock.        *)
(*                                                                         *)
(* A register used bit by bit is the set of its bits that are 1.  The      *)
(* boards are the Fastcom 422 ones, whose MPIO pins are all outputs.       *)
(***************************************************************************)
EXTENDS Integers, Sequences

CONSTANTS
  Family,     \* "PCI" or "PCIe"
  NumPorts    \* ports of a card

ASSUME FamilyAssumption   == Family \in {"PCI", "PCIe"}
ASSUME NumPortsAssumption == NumPorts \in IF Family = "PCI" THEN {2, 4} ELSE {4, 8}

EINVAL          == 22
EPROTONOSUPPORT == 93

Bits    == 0..7
Channel == 0..NumPorts - 1

-----------------------------------------------------------------------------
(* The accesses.  Read keeps a byte in a local variable of the handler     *)
(* (current_fctr, orig_lcr, saved, ...), Write writes a byte derived from  *)
(* that variable.                                                          *)

Access(io, reg, on, off, val) == [io |-> io, reg |-> reg, on |-> on, off |-> off, val |-> val]

Read(r)           == Access("read", r, {}, {}, 0)
Write(r, on, off) == Access("write", r, on, off, 0)
Load(r, byte)     == Write(r, byte, Bits)
Restore(r)        == Write(r, {}, {})
Store(r, v)       == Access("store", r, {}, {}, v)

\* The baud rate divisor: a local variable computed from the port's sampling
\* rate, and the three bytes it is spread over.
Divide(rate)    == Access("divide", "divisor", {}, {}, rate)
StoreDivisor(r) == Access("store_divisor", r, {}, {}, 0)
Fetch(r)        == Access("fetch", r, {}, {}, 0)
Quotient        == Access("quotient", "divisor", {}, {}, 0)

Refuse(error) == [status |-> -error, steps |-> << >>]
Do(steps)     == [status |-> 0, steps |-> steps]

-----------------------------------------------------------------------------
(* Faulty variants, no part of the specification.                          *)

SampleRate8KeepsFourX(channel, value) ==
  IF value \notin {4, 8, 16} THEN Refuse(EINVAL)
  ELSE LET four  == IF value = 4 THEN Write("4XMODE", {channel}, {}) ELSE Restore("4XMODE")
           eight == IF value = 8 THEN Write("8XMODE", {channel}, {}) ELSE Write("8XMODE", {}, {channel})
       IN  Do(<<Read("4XMODE"), Read("8XMODE"), four, eight>>)

Rs485PciLosesTriggers(channel, enable) ==
  Do(<<Read("FCTR"), Read("MPIOLVL"),
       IF enable # 0 THEN Write("MPIOLVL", {}, {3 + channel}) ELSE Write("MPIOLVL", {3 + channel}, {}),
       IF enable # 0 THEN Load("FCTR", {5}) ELSE Load("FCTR", {})>>)

SetTriggerOffByOne(limit, register, value) ==
  IF value > limit + 1 THEN Refuse(EINVAL) ELSE Do(<<Store(register, value)>>)

ClockBitsNotSaved(first, second) ==
  Do(<<Read("MPIOLVL"), Write("MPIOLVL", first, {0}), Write("MPIOLVL", first \cup {1}, {0}),
       Load("MPIOLVL", first), Load("MPIOLVL", second), Load("MPIOLVL", second \cup {1}),
       Load("MPIOLVL", second), Load("MPIOLVL", {2}), Load("MPIOLVL", {})>>)

EchoPcieAlwaysOn(channel, enable) ==
  Do(<<Read("MPIOLVLH"), Write("MPIOLVLH", {channel}, {})>>)

SetBaudRateDlabStays(value, rate) ==
  IF value > 125000000 \div rate THEN Refuse(EINVAL)
  ELSE Do(<<Read("LCR"), Write("LCR", {7}, {}), Divide(value), Fetch("DLD"),
            StoreDivisor("DLM"), StoreDivisor("DLL"), StoreDivisor("DLD")>>)

SetBaudRateEarlyRestore(value, rate) ==
  IF value > 125000000 \div rate THEN Refuse(EINVAL)
  ELSE Do(<<Read("LCR"), Write("LCR", {7}, {}), Divide(value), Fetch("DLD"),
            StoreDivisor("DLM"), StoreDivisor("DLL"), Restore("LCR"), StoreDivisor("DLD")>>)

GetBaudRateWithoutFraction ==
  Do(<<Read("LCR"), Write("LCR", {7}, {}), Fetch("DLM"), Fetch("DLL"), Quotient, Restore("LCR")>>)

-----------------------------------------------------------------------------
(* Sampling rate, trigger levels.                                          *)

fastcom_set_sample_rate_pci(channel, value) ==
  IF value \notin {8, 16} THEN Refuse(EINVAL)
  ELSE Do(<<Read("8XMODE"), IF value = 8 THEN Write("8XMODE", {channel}, {})
                                         ELSE Write("8XMODE", {}, {channel})>>)

fastcom_set_sample_rate_pcie(channel, value) ==
  IF value \notin {4, 8, 16} THEN Refuse(EINVAL)
  ELSE LET four  == IF value = 4 THEN Write("4XMODE", {channel}, {}) ELSE Write("4XMODE", {}, {channel})
           eight == IF value = 8 THEN Write("8XMODE", {channel}, {}) ELSE Write("8XMODE", {}, {channel})
       IN  Do(<<Read("4XMODE"), Read("8XMODE"), four, eight>>)

fastcom_set_sample_rate(channel, value) ==
  IF Family = "PCI" THEN fastcom_set_sample_rate_pci(channel, value)
                    ELSE fastcom_set_sample_rate_pcie(channel, value)

\* The four trigger setters differ in the limit and the register only.
SetTrigger(limit, register, value) ==
  IF value > limit THEN Refuse(EINVAL) ELSE Do(<<Store(register, value)>>)

TriggerLimit == IF Family = "PCI" THEN 64 ELSE 255

-----------------------------------------------------------------------------
(* Output pins and feature bits.  RS485 drivers and terminations are       *)
(* active low; the PCI family has one echo cancel pin for the board.       *)

fastcom_set_rs485_pci(channel, enable) ==
  LET pin == 3 + channel IN
  Do(<<Read("FCTR"), Read("MPIOLVL"),
       IF enable # 0 THEN Write("MPIOLVL", {}, {pin}) ELSE Write("MPIOLVL", {pin}, {}),
       IF enable # 0 THEN Write("FCTR", {5}, {}) ELSE Write("FCTR", {}, {5})>>)

fastcom_set_rs485_pcie(channel, enable) ==
  Do(<<Read("MCR"), Read("FCTR"),
       IF enable # 0 THEN Write("MCR", {2}, {}) ELSE Write("MCR", {}, {2}),
       IF enable # 0 THEN Write("FCTR", {5}, {}) ELSE Write("FCTR", {}, {5})>>)

fastcom_set_rs485(channel, enable) ==
  IF Family = "PCI" THEN fastcom_set_rs485_pci(channel, enable)
                    ELSE fastcom_set_rs485_pcie(channel, enable)

\* One getter for both families.
fastcom_get_rs485_pci == Do(<<Read("FCTR")>>)

fastcom_set_termination_pcie(channel, enable) ==
  Do(<<Read("MPIOLVL"), IF enable # 0 THEN Write("MPIOLVL", {}, {channel})
                                      ELSE Write("MPIOLVL", {channel}, {})>>)

fastcom_get_termination_pcie == Do(<<Read("MPIOLVL")>>)

EchoRegister     == IF Family = "PCI" THEN "MPIOLVL" ELSE "MPIOLVLH"
EchoBit(channel) == IF Family = "PCI" THEN 7 ELSE channel

fastcom_set_echo_cancel_pci(channel, enable) ==
  Do(<<Read("MPIOLVL"), IF enable # 0 THEN Write("MPIOLVL", {7}, {}) ELSE Write("MPIOLVL", {}, {7})>>)

fastcom_set_echo_cancel_pcie(channel, enable) ==
  Do(<<Read("MPIOLVLH"), IF enable # 0 THEN Write("MPIOLVLH", {channel}, {})
                                       ELSE Write("MPIOLVLH", {}, {channel})>>)

fastcom_set_echo_cancel(channel, enable) ==
  IF Family = "PCI" THEN fastcom_set_echo_cancel_pci(channel, enable)
                    ELSE fastcom_set_echo_cancel_pcie(channel, enable)

fastcom_get_echo_cancel == Do(<<Read(EchoRegister)>>)

\* The clock chip is loaded over pins 0 (data), 1 (clock) and 2 (strobe): two
\* of the 24 rounds, each with any data bit.  From the first round's last
\* write on, "data &= MPIO_SDTA" has dropped the other pins too.
ClockBits(first, second) ==
  Do(<<Read("MPIOLVL"), Write("MPIOLVL", first, {0}), Write("MPIOLVL", first \cup {1}, {0}),
       Load("MPIOLVL", first), Load("MPIOLVL", second), Load("MPIOLVL", second \cup {1}),
       Load("MPIOLVL", second), Load("MPIOLVL", {2}), Load("MPIOLVL", {}), Restore("MPIOLVL")>>)

fastcom_set_clock_bits_pci == {ClockBits(d[1], d[2]) : d \in {{}, {0}} \X {{}, {0}}}

-----------------------------------------------------------------------------
(* Baud rate, PCIe family.  rate is port->sample_rate when the call starts. *)

pcie_set_baud_rate(value, rate) ==
  IF value > 125000000 \div rate THEN Refuse(EINVAL)
  ELSE Do(<<Read("LCR"), Write("LCR", {7}, {}), Divide(value), Fetch("DLD"),
            StoreDivisor("DLM"), StoreDivisor("DLL"), StoreDivisor("DLD"), Restore("LCR")>>)

pcie_get_baud_rate ==
  Do(<<Read("LCR"), Write("LCR", {7}, {}), Fetch("DLM"), Fetch("DLL"), Fetch("DLD"),
       Quotient, Restore("LCR")>>)

-----------------------------------------------------------------------------
(* Start-up.                                                               *)

\* Every MPIO pin an output.  (The branch of the 232 boards, whose pins 6 and
\* 7 are inverted inputs, is left out with those boards.)
PciOutputs  == Do(<<Load("MPIOSEL", {})>>)
PcieOutputs == Do(<<Load("MPIOSEL", {}), Load("MPIOSELH", {})>>)

fastcom_init_gpio == IF Family = "PCI" THEN PciOutputs ELSE PcieOutputs

\* FIFO on, programmable trigger levels.
fastcom_init_triggers ==
  Do(<<Read("FCTR"), Load("FCR", {0}), Write("FCTR", {6, 7}, {})>>)

Call(kind, name, arg) == [kind |-> kind, name |-> name, arg |-> arg]

\* What serialfc_port_new makes of a port; some calls are refused.
serialfc_port_new ==
  << Call("boot", "gpio", 0), Call("boot", "triggers", 0) >>
  \o (IF Family = "PCI" THEN <<Call("set", "clock_bits", 0)>> ELSE << >>)
  \o << Call("set", "rs485", 0),        Call("set", "sample_rate", 16),
        Call("set", "tx_trigger", 32),  Call("set", "rx_trigger", 32),
        Call("set", "termination", 1),  Call("set", "echo_cancel", 0),
        Call("set", "isochronous", -1), Call("set", "frame_length", 1) >>

-----------------------------------------------------------------------------
(* The wrappers that switch on the card type.                              *)

SettingName ==
  {"sample_rate", "tx_trigger", "rx_trigger", "rs485", "echo_cancel"}
    \cup (IF Family = "PCIe" THEN {"termination"} ELSE {})

OtherName ==
  {"clock_bits", "baud_rate", "isochronous", "external_transmit", "frame_length",
   "nine_bit", "clock_rate", "termination"} \ SettingName

Setter(channel, name, arg, rate) ==
  CASE name = "sample_rate" -> {fastcom_set_sample_rate(channel, arg)}
    [] name = "tx_trigger"  -> {SetTrigger(TriggerLimit, "TXTRG", arg)}
    [] name = "rx_trigger"  -> {SetTrigger(TriggerLimit, "RXTRG", arg)}
    [] name = "rs485"       -> {fastcom_set_rs485(channel, arg)}
    [] name = "echo_cancel" -> {fastcom_set_echo_cancel(channel, arg)}
    [] name = "termination" /\ Family = "PCIe" -> {fastcom_set_termination_pcie(channel, arg)}
    [] name = "baud_rate" /\ Family = "PCIe"   -> {pcie_set_baud_rate(arg, rate)}
    [] name = "clock_bits" /\ Family = "PCI"   -> fastcom_set_clock_bits_pci
    [] OTHER                -> {Refuse(EPROTONOSUPPORT)}

\* The register's trigger levels are write-only: the driver answers these and
\* the sampling rate from memory.
Getter(name) ==
  CASE name \in {"sample_rate", "tx_trigger", "rx_trigger"} -> Do(<< >>)
    [] name = "rs485"       -> fastcom_get_rs485_pci
    [] name = "echo_cancel" -> fastcom_get_echo_cancel
    [] name = "termination" /\ Family = "PCIe" -> fastcom_get_termination_pcie
    [] name = "baud_rate" /\ Family = "PCIe"   -> pcie_get_baud_rate
    [] OTHER                -> Refuse(EPROTONOSUPPORT)

Boot(name) == IF name = "gpio" THEN fastcom_init_gpio ELSE fastcom_init_triggers

Handlers(channel, call, rate) ==
  CASE call.kind = "set"  -> Setter(channel, call.name, call.arg, rate)
    [] call.kind = "get"  -> {Getter(call.name)}
    [] call.kind = "boot" -> {Boot(call.name)}
=============================================================================
