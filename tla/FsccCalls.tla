----------------------------- MODULE FsccCalls -----------------------------
(***************************************************************************)
(* The per-port operations of src/utils.c on a card of type FSCC (a        *)
(* 16C950-compatible UART pair behind one board-wide Feature Control       *)
(* Register), each as the sequence of device and memory accesses its C     *)
(* function makes.  Between two accesses of one caller any other caller    *)
(* may run: utils.c takes no lock.                                         *)
(*                                                                         *)
(* An access is a record: io says what kind of access it is, reg which     *)
(* register (or register bit) it is meant for, val the value it carries.   *)
(* Module Fscc gives every kind its effect.                                *)
(***************************************************************************)
EXTENDS Integers, Sequences

CONSTANTS
  Frev,         \* the card's firmware revision, low byte of the VSTR register
  EnableAsync   \* the module parameter fscc_enable_async

ASSUME FrevAssumption  == Frev \in 0..255
ASSUME AsyncAssumption == EnableAsync \in BOOLEAN

\* Error numbers, as the C functions return them (negated).
EINVAL          == 22
EPROTONOSUPPORT == 93
NoMemory        == -1   \* set_clock_bits_fscc returns plain 1, not -ENOMEM

-----------------------------------------------------------------------------
(* The accesses.                                                           *)

Access(io, reg, val) == [io |-> io, reg |-> reg, val |-> val]

SaveLcr      == Access("save_lcr", "LCR", 0)     \* orig_lcr = ioread8(LCR)
ClearLcr     == Access("clear_lcr", "LCR", 0)    \* iowrite8(0, LCR)
RestoreLcr   == Access("restore_lcr", "LCR", 0)  \* iowrite8(orig_lcr, LCR)
SetLcr(v)    == Access("set_lcr", "LCR", v)      \* iowrite8(v, LCR), not undone
Select(r)    == Access("select", r, 0)           \* iowrite8(r_OFFSET, SPR)
Put(r, v)    == Access("put", r, v % 256)        \* iowrite8(v, ICR), meant for r
PutAcr(more) == Access("put_acr", "ACR", more)   \* iowrite8(port->ACR | more, ICR)
Get(r)       == Access("get", r, 0)              \* ioread8(ICR), meant for r
ShadowAcr(v) == Access("shadow", "ACR", v)       \* port->ACR = v
PutTwo(v)    == Access("offset_two", "FCR/EFR", v)  \* iowrite8(v, FCR or EFR)
ReadFcr      == Access("read_fcr", "FCR", 0)     \* ioread32(bar2)
WriteFcr(bit, on)  == Access("write_fcr", bit, on)  \* iowrite32(orig with bit := on)
RaiseFcr(bit)      == Access("raise_fcr", bit, 1)   \* the same, if bit was clear
Pins         == Access("pins", "clock", 0)       \* one word of iowrite32_rep
WriteBack    == Access("write_back", "FCR", 0)   \* its last word, orig_fcr_value

\* A call either refuses with an error before its first access, or does these
\* accesses and returns 0.
Refuse(error) == [status |-> -error, steps |-> << >>]
Do(steps)     == [status |-> 0, steps |-> steps]

-----------------------------------------------------------------------------
(* Faulty variants of handlers below, each with one plausible slip.  They  *)
(* are no part of the specification: put in a handler's place, each one    *)
(* must make TLC refute a property, which shows the property can fail.     *)

SampleRateWithoutClear(value) ==
  IF value < 4 \/ value > 16 THEN Refuse(EINVAL)
  ELSE Do(<<SaveLcr, Select("TCR"), Put("TCR", value), RestoreLcr>>)

TxTriggerIntoRtl(value) ==
  IF value > 127 THEN Refuse(EINVAL)
  ELSE Do(<<SaveLcr, ClearLcr, Select("RTL"), Put("TTL", value), RestoreLcr>>)

GetTxTriggerReadsStayOn ==
  Do(<<SaveLcr, ClearLcr, Select("ACR"), PutAcr(64), Select("TTL"), Get("TTL"), RestoreLcr>>)

GetTxTriggerLcrLost ==
  Do(<<SaveLcr, ClearLcr, Select("ACR"), PutAcr(64), Select("TTL"), Get("TTL"),
       Select("ACR"), PutAcr(0)>>)

ExternalTransmitLowByteOnly(num_chars) ==
  IF num_chars > 8191 THEN Refuse(EINVAL)
  ELSE Do(<<SaveLcr, ClearLcr, Select("EXTH"), Put("EXTH", IF num_chars = 0 THEN 0 ELSE 128),
            Select("EXT"), Put("EXT", num_chars), RestoreLcr>>)

Rs485WithoutRead(enable) ==
  Do(<<SaveLcr, ClearLcr, Select("ACR"), ShadowAcr(IF enable = 0 THEN 0 ELSE 16), PutAcr(0),
       WriteFcr("rs485", enable), RestoreLcr>>)

InitTriggersEfrFirst == Do(<<PutTwo(1), PutTwo(16), SetLcr(191), ShadowAcr(0)>>)

-----------------------------------------------------------------------------
(* Setters and getters of the indexed control registers.                   *)

fastcom_set_sample_rate_fscc(value) ==
  IF value < 4 \/ value > 16 THEN Refuse(EINVAL)
  ELSE Do(<<SaveLcr, ClearLcr, Select("TCR"), Put("TCR", value), RestoreLcr>>)

fastcom_set_tx_trigger_fscc(value) ==
  IF value > 127 THEN Refuse(EINVAL)
  ELSE Do(<<SaveLcr, ClearLcr, Select("TTL"), Put("TTL", value), RestoreLcr>>)

fastcom_set_rx_trigger_fscc(value) ==
  IF value > 127 THEN Refuse(EINVAL)
  ELSE Do(<<SaveLcr, ClearLcr, Select("RTL"), Put("RTL", value), RestoreLcr>>)

\* Indexed registers can be read only while the ICR read enable (0x40) of ACR
\* is on, so every getter turns it on and writes port->ACR back afterwards.
fastcom_get_tx_trigger_fscc ==
  Do(<<SaveLcr, ClearLcr, Select("ACR"), PutAcr(64), Select("TTL"), Get("TTL"),
       Select("ACR"), PutAcr(0), RestoreLcr>>)

fastcom_get_rx_trigger_fscc ==
  Do(<<SaveLcr, ClearLcr, Select("ACR"), PutAcr(64), Select("RTL"), Get("RTL"),
       Select("ACR"), PutAcr(0), RestoreLcr>>)

\* CKS and MDM for each isochronous mode: the two switch statements.
CksReceive(mode) ==
  CASE mode \in {2, 3, 4, 10} -> 9
    [] mode \in {5, 6, 7}     -> 10
    [] mode = 8               -> 11
    [] OTHER                  -> 0

CksTransmit(mode) ==
  CASE mode \in {0, 3, 6, 8} -> 208
    [] mode \in {1, 4, 7}    -> 144
    [] mode \in {9, 10}      -> 16
    [] OTHER                 -> 0

Cks(mode) == CksReceive(mode) + CksTransmit(mode)   \* disjoint bits: |= is +

Mdm(mode) == (IF mode \in {2, 3, 4, 10} THEN 2 ELSE 0)
               + (IF mode \in {0, 3, 6, 8} THEN 4 ELSE 0)

\* A faulty variant: the clocks are chosen, their pins are not set up.
IsochronousWithoutMdm(mode) ==
  IF mode > 10 \/ mode < -1 THEN Refuse(EINVAL)
  ELSE Do(<<SaveLcr, ClearLcr, Select("CKS"), Put("CKS", Cks(mode)), RestoreLcr>>)

fastcom_set_isochronous_fscc(mode) ==
  IF mode > 10 \/ mode < -1 THEN Refuse(EINVAL)
  ELSE Do(<<SaveLcr, ClearLcr, Select("MDM"), Put("MDM", Mdm(mode)),
            Select("CKS"), Put("CKS", Cks(mode)), RestoreLcr>>)

fastcom_get_isochronous_fscc ==
  Do(<<SaveLcr, ClearLcr, Select("ACR"), PutAcr(64), Select("CKS"), Get("CKS"),
       Select("ACR"), PutAcr(0), RestoreLcr>>)

\* EXTH holds the enable bit 0x80 and the count's high bits, EXT its low byte.
fastcom_set_external_transmit_fscc(num_chars) ==
  IF num_chars > 8191 THEN Refuse(EINVAL)
  ELSE LET exth == IF num_chars = 0 THEN 0 ELSE 128 + num_chars \div 256
       IN  Do(<<SaveLcr, ClearLcr, Select("EXTH"), Put("EXTH", exth),
                Select("EXT"), Put("EXT", num_chars), RestoreLcr>>)

fastcom_get_external_transmit_fscc ==
  Do(<<SaveLcr, ClearLcr, Select("ACR"), PutAcr(64), Select("EXT"), Get("EXT"),
       Select("EXTH"), Get("EXTH"), Select("ACR"), PutAcr(0), RestoreLcr>>)

fastcom_set_frame_length_fscc(num_chars) ==
  IF num_chars = 0 \/ num_chars > 256 THEN Refuse(EINVAL)
  ELSE IF Frev < 32 THEN Refuse(EPROTONOSUPPORT)
  ELSE Do(<<SaveLcr, ClearLcr, Select("FLR"), Put("FLR", num_chars - 1), RestoreLcr>>)

fastcom_get_frame_length_fscc ==
  IF Frev < 32 THEN Refuse(EPROTONOSUPPORT)
  ELSE Do(<<SaveLcr, ClearLcr, Select("ACR"), PutAcr(64), Select("FLR"), Get("FLR"),
            Select("ACR"), PutAcr(0), RestoreLcr>>)

-----------------------------------------------------------------------------
(* Operations that change the board-wide Feature Control Register.         *)

fastcom_set_rs485_fscc(enable) ==
  Do(<<SaveLcr, ReadFcr, ClearLcr, Select("ACR"),
       ShadowAcr(IF enable = 0 THEN 0 ELSE 16), PutAcr(0),
       WriteFcr("rs485", enable), RestoreLcr>>)

fastcom_get_rs485_fscc == Do(<<ReadFcr>>)

fastcom_set_echo_cancel_fscc(enable) == Do(<<ReadFcr, WriteFcr("echo", enable)>>)

fastcom_get_echo_cancel_fscc == Do(<<ReadFcr>>)

fscc_enable_async_mode == Do(<<ReadFcr, RaiseFcr("async")>>)

\* The clock chip is loaded by toggling three pins of the FCR; 482 such words
\* are represented by two.
fastcom_set_clock_bits_fscc ==
  {Refuse(NoMemory), Do(<<ReadFcr, Pins, Pins, WriteBack>>)}

-----------------------------------------------------------------------------
(* Start-up.                                                               *)

\* FIFO on, then enhanced mode through the 650 registers; LCR stays 0xbf.
fastcom_init_triggers == Do(<<PutTwo(1), SetLcr(191), PutTwo(16), ShadowAcr(0)>>)

Call(kind, name, arg) == [kind |-> kind, name |-> name, arg |-> arg]

\* What serialfc_port_new makes of a port, with the defaults of config.h.
serialfc_port_new ==
  << Call("boot", "triggers", 0),
     Call("set", "rs485", 0),
     Call("set", "sample_rate", 16),
     Call("set", "tx_trigger", 32),
     Call("set", "rx_trigger", 32),
     Call("set", "termination", 1),
     Call("set", "echo_cancel", 0),
     Call("set", "isochronous", -1),
     Call("set", "frame_length", 1) >>
  \o (IF EnableAsync THEN <<Call("boot", "async", 0)>> ELSE << >>)

-----------------------------------------------------------------------------
(* The wrappers that switch on the card type, for CARD_TYPE_FSCC.          *)

\* What a user can set or get on this family, and what is refused or is no
\* per-port setting.
SettingName ==
  {"sample_rate", "tx_trigger", "rx_trigger", "rs485", "isochronous",
   "external_transmit", "frame_length", "echo_cancel"}

OtherName == {"clock_bits", "termination", "nine_bit", "clock_rate", "baud_rate"}

Setter(name, arg) ==
  CASE name = "sample_rate"       -> {fastcom_set_sample_rate_fscc(arg)}
    [] name = "tx_trigger"        -> {fastcom_set_tx_trigger_fscc(arg)}
    [] name = "rx_trigger"        -> {fastcom_set_rx_trigger_fscc(arg)}
    [] name = "rs485"             -> {fastcom_set_rs485_fscc(arg)}
    [] name = "isochronous"       -> {fastcom_set_isochronous_fscc(arg)}
    [] name = "external_transmit" -> {fastcom_set_external_transmit_fscc(arg)}
    [] name = "frame_length"      -> {fastcom_set_frame_length_fscc(arg)}
    [] name = "echo_cancel"       -> {fastcom_set_echo_cancel_fscc(arg)}
    [] name = "clock_bits"        -> fastcom_set_clock_bits_fscc
    [] OTHER                      -> {Refuse(EPROTONOSUPPORT)}

Getter(name) ==
  CASE name = "sample_rate"       -> Do(<< >>)
    [] name = "tx_trigger"        -> fastcom_get_tx_trigger_fscc
    [] name = "rx_trigger"        -> fastcom_get_rx_trigger_fscc
    [] name = "rs485"             -> fastcom_get_rs485_fscc
    [] name = "isochronous"       -> fastcom_get_isochronous_fscc
    [] name = "external_transmit" -> fastcom_get_external_transmit_fscc
    [] name = "frame_length"      -> fastcom_get_frame_length_fscc
    [] name = "echo_cancel"       -> fastcom_get_echo_cancel_fscc
    [] OTHER                      -> Refuse(EPROTONOSUPPORT)

Boot(name) == IF name = "triggers" THEN fastcom_init_triggers ELSE fscc_enable_async_mode

Handlers(call) ==
  CASE call.kind = "set"  -> Setter(call.name, call.arg)
    [] call.kind = "get"  -> {Getter(call.name)}
    [] call.kind = "boot" -> {Boot(call.name)}
=============================================================================
