-------------------------- MODULE ExarPromiseProofs --------------------------
(***************************************************************************)
(* Proof that Exar ports, with one call at a time on a card, implement     *)
(* module Settings: the accesses of every handler change bits that are     *)
(* their call's own, so that a step of the driver changes no setting but   *)
(* the one that is being set.                                              *)
(***************************************************************************)
EXTENDS ExarProofs

-----------------------------------------------------------------------------
(* What the handlers do to the registers used bit by bit.                  *)

\* Access a is a write of register r that sets bit b if v holds and clears it
\* otherwise, and changes no other bit.
Puts(a, r, b, v) ==
  /\ a.io = "write" /\ a.reg = r
  /\ a.on = (IF v THEN {b} ELSE {}) /\ a.off = (IF v THEN {} ELSE {b})

\* Each switch is on or off in these bits.
Rs485Register   == IF Family = "PCI" THEN "MPIOLVL" ELSE "MCR"
Rs485Bit(ch)    == IF Family = "PCI" THEN 3 + ch ELSE 2

(* Writing one bit, as the setters do.                                     *)
LEMMA OneBit ==
  ASSUME NEW r, NEW b, NEW v
  PROVE  Puts(IF v THEN Write(r, {b}, {}) ELSE Write(r, {}, {b}), r, b, v)
BY DEF Puts, Write, Access

(* The handler of a call under way.                                        *)
LEMMA HandlerOf ==
  ASSUME IInv, NEW c \in Caller, Busy(c)
  PROVE  LET name == call[c].name
             x    == call[c].arg
             ch   == At(c)[2]
             rate == cache[At(c)].sample_rate
         IN \E h : /\ call[c].steps = h.steps /\ call[c].status = h.status
                   /\ call[c].kind = "set" => h \in Setter(ch, name, x, rate)
                   /\ call[c].kind = "get" => h = Getter(name)
                   /\ call[c].kind = "boot" => h = Boot(name)
<1>1. Served
  BY DEF IInv
<1>2. PICK h \in Handlers(At(c)[2], call[c], cache[At(c)].sample_rate) :
        call[c].steps = h.steps /\ call[c].status = h.status
  BY <1>1 DEF Served
<1> QED BY <1>2 DEF Handlers

(* A setter of rs485 makes two reads and two writes.                       *)
LEMMA Rs485Steps ==
  ASSUME IInv, NEW c \in Caller, Busy(c), call[c].kind = "set", call[c].name = "rs485"
  PROVE  LET s  == call[c].steps
             ch == At(c)[2]
         IN  /\ call[c].status = 0 /\ Len(s) = 4
             /\ s[1].io = "read" /\ s[2].io = "read"
             /\ {s[1].reg, s[2].reg} = {Rs485Register, "FCTR"}
             /\ Puts(s[3], Rs485Register, Rs485Bit(ch), (Family = "PCIe") = (call[c].arg # 0))
             /\ Puts(s[4], "FCTR", 5, call[c].arg # 0)
<1> DEFINE s  == call[c].steps
           ch == At(c)[2]
           x  == call[c].arg
           up == IF x # 0 THEN Write("FCTR", {5}, {}) ELSE Write("FCTR", {}, {5})
           pci == IF x # 0 THEN Write("MPIOLVL", {}, {3 + ch}) ELSE Write("MPIOLVL", {3 + ch}, {})
           pcie == IF x # 0 THEN Write("MCR", {2}, {}) ELSE Write("MCR", {}, {2})
<1>1. PICK h : s = h.steps /\ call[c].status = h.status /\ h = fastcom_set_rs485(ch, x)
  BY HandlerOf DEF Setter
<1>2. Puts(up, "FCTR", 5, x # 0) /\ Puts(pci, "MPIOLVL", 3 + ch, ~(x # 0)) /\ Puts(pcie, "MCR", 2, x # 0)
  BY DEF Puts, Write, Access
<1>3. CASE Family = "PCI"
  <2>1. call[c].status = 0 /\ s = <<Read("FCTR"), Read("MPIOLVL"), pci, up>>
    BY <1>1, <1>3 DEF fastcom_set_rs485, fastcom_set_rs485_pci, Do
  <2> HIDE DEF s, up, pci
  <2>2. s[1] = Read("FCTR") /\ s[2] = Read("MPIOLVL") /\ s[3] = pci /\ s[4] = up /\ Len(s) = 4
    BY <2>1
  <2> QED BY <1>2, <1>3, <2>1, <2>2 DEF Rs485Register, Rs485Bit, Read, Access, s, Puts
<1>4. CASE Family = "PCIe"
  <2>1. call[c].status = 0 /\ s = <<Read("MCR"), Read("FCTR"), pcie, up>>
    BY <1>1, <1>4 DEF fastcom_set_rs485, fastcom_set_rs485_pcie, Do
  <2> HIDE DEF s, up, pcie
  <2>2. s[1] = Read("MCR") /\ s[2] = Read("FCTR") /\ s[3] = pcie /\ s[4] = up /\ Len(s) = 4
    BY <2>1
  <2> QED BY <1>2, <1>4, <2>1, <2>2 DEF Rs485Register, Rs485Bit, Read, Access, s, Puts
<1> QED BY <1>3, <1>4, FamilyAssumption

(* The other two switches, and every getter of a switch, take one register. *)
LEMMA PinSteps ==
  ASSUME IInv, NEW c \in Caller, Busy(c), call[c].kind = "set",
         \/ call[c].name = "echo_cancel"
         \/ call[c].name = "termination" /\ Family = "PCIe"
  PROVE  LET s  == call[c].steps
             ch == At(c)[2]
         IN  /\ call[c].status = 0 /\ Len(s) = 2
             /\ s[1].io = "read" /\ s[1].reg = s[2].reg
             /\ call[c].name = "echo_cancel" => Puts(s[2], EchoRegister, EchoBit(ch), call[c].arg # 0)
             /\ call[c].name = "termination" => Puts(s[2], "MPIOLVL", ch, ~(call[c].arg # 0))
<1> DEFINE s  == call[c].steps
           ch == At(c)[2]
           x  == call[c].arg
           echo == IF x # 0 THEN Write(EchoRegister, {EchoBit(ch)}, {}) ELSE Write(EchoRegister, {}, {EchoBit(ch)})
           term == IF x # 0 THEN Write("MPIOLVL", {}, {ch}) ELSE Write("MPIOLVL", {ch}, {})
<1>1. Puts(echo, EchoRegister, EchoBit(ch), x # 0) /\ Puts(term, "MPIOLVL", ch, ~(x # 0))
  BY DEF Puts, Write, Access
<1>2. PICK h : /\ s = h.steps /\ call[c].status = h.status
               /\ h \in Setter(ch, call[c].name, x, cache[At(c)].sample_rate)
  BY HandlerOf
<1>3. CASE call[c].name = "echo_cancel"
  <2>1. h = fastcom_set_echo_cancel(ch, x)
    BY <1>2, <1>3 DEF Setter
  <2>2. call[c].status = 0 /\ s = <<Read(EchoRegister), echo>>
    BY <1>2, <2>1 DEF fastcom_set_echo_cancel, fastcom_set_echo_cancel_pci, fastcom_set_echo_cancel_pcie,
                      EchoRegister, EchoBit, Do
  <2> HIDE DEF s, echo
  <2>3. s[1] = Read(EchoRegister) /\ s[2] = echo /\ Len(s) = 2
    BY <2>2
  <2> QED BY <1>1, <1>3, <2>2, <2>3 DEF Read, Access, Puts, s
<1>4. CASE call[c].name = "termination" /\ Family = "PCIe"
  <2>1. h = fastcom_set_termination_pcie(ch, x)
    BY <1>2, <1>4 DEF Setter
  <2>2. call[c].status = 0 /\ s = <<Read("MPIOLVL"), term>>
    BY <1>2, <2>1 DEF fastcom_set_termination_pcie, Do
  <2> HIDE DEF s, term
  <2>3. s[1] = Read("MPIOLVL") /\ s[2] = term /\ Len(s) = 2
    BY <2>2
  <2> QED BY <1>1, <1>4, <2>2, <2>3 DEF Read, Access, Puts, s
<1> QED BY <1>3, <1>4

\* The settings kept in registers used bit by bit, their registers and their
\* bit there.
BitSetting == {"sample_rate", "rs485", "echo_cancel"}
                \cup (IF Family = "PCIe" THEN {"termination"} ELSE {})

RegistersOf(name) ==
  CASE name = "sample_rate" -> IF Family = "PCI" THEN {"8XMODE"} ELSE RateReg
    [] name = "rs485"       -> {Rs485Register, "FCTR"}
    [] name = "echo_cancel" -> {EchoRegister}
    [] name = "termination" -> {"MPIOLVL"}

BitOf(name, ch, r) ==
  CASE name \in {"sample_rate", "termination"} -> ch
    [] name = "rs485"       -> IF r = "FCTR" THEN 5 ELSE Rs485Bit(ch)
    [] name = "echo_cancel" -> EchoBit(ch)

(* Setting one of them writes its registers once each, with its bit set or *)
(* cleared and nothing else changed.                                       *)
LEMMA BitWrites ==
  ASSUME IInv, NEW c \in Caller, NEW name \in BitSetting, Sets(c, name)
  PROVE  LET s  == call[c].steps
             ch == At(c)[2]
         IN  /\ \A i \in 1..Len(s) : s[i].io \in BitIo
             /\ \A i \in 1..Len(s) : s[i].io = "write" =>
                  /\ s[i].reg \in RegistersOf(name)
                  /\ \E v \in BOOLEAN : Puts(s[i], s[i].reg, BitOf(name, ch, s[i].reg), v)
                  /\ \E j \in 1..i - 1 : s[j].io = "read" /\ s[j].reg = s[i].reg
             /\ \A i, j \in 1..Len(s) :
                  s[i].io = "write" /\ s[j].io = "write" /\ s[i].reg = s[j].reg => i = j
<1> DEFINE s  == call[c].steps
           ch == At(c)[2]
           x  == call[c].arg
           Good == /\ \A i \in 1..Len(s) : s[i].io \in BitIo
                   /\ \A i \in 1..Len(s) : s[i].io = "write" =>
                        /\ s[i].reg \in RegistersOf(name)
                        /\ \E v \in BOOLEAN : Puts(s[i], s[i].reg, BitOf(name, ch, s[i].reg), v)
                        /\ \E j \in 1..i - 1 : s[j].io = "read" /\ s[j].reg = s[i].reg
                   /\ \A i, j \in 1..Len(s) :
                        s[i].io = "write" /\ s[j].io = "write" /\ s[i].reg = s[j].reg => i = j
<1> SUFFICES Good
  OBVIOUS
<1>1. Busy(c) /\ call[c].kind = "set" /\ call[c].name = name /\ call[c].status = 0
  BY DEF Sets
<1>2. ASSUME Len(s) = 2, s[1].io = "read", s[1].reg = s[2].reg, NEW r, NEW v \in BOOLEAN, Puts(s[2], r, BitOf(name, ch, r), v),
             r \in RegistersOf(name)
      PROVE  Good
  <2>1. \A i \in 1..Len(s) : i = 1 \/ i = 2
    BY <1>2
  <2>2. s[2].io = "write" /\ s[2].reg = r
    BY <1>2 DEF Puts
  <2> HIDE DEF s, ch
  <2>3. \A i \in 1..Len(s) : s[i].io \in BitIo
    BY <1>2, <2>1, <2>2 DEF BitIo
  <2>4. \A i \in 1..Len(s) : s[i].io = "write" => i = 2
    BY <1>2, <2>1, <2>2
  <2>5. \E w \in BOOLEAN : Puts(s[2], s[2].reg, BitOf(name, ch, s[2].reg), w)
    BY <1>2, <2>2
  <2>6. 1 \in 1..2 - 1
    OBVIOUS
  <2> QED BY <1>2, <2>2, <2>3, <2>4, <2>5, <2>6
<1>3. ASSUME Len(s) = 4, s[1].io = "read", s[2].io = "read", NEW q, NEW r, {s[1].reg, s[2].reg} = {q, r}, NEW v \in BOOLEAN, NEW w \in BOOLEAN,
             Puts(s[3], q, BitOf(name, ch, q), v), Puts(s[4], r, BitOf(name, ch, r), w),
             q \in RegistersOf(name), r \in RegistersOf(name), q # r
      PROVE  Good
  <2>1. \A i \in 1..Len(s) : i = 1 \/ i = 2 \/ i = 3 \/ i = 4
    BY <1>3
  <2>2. s[3].io = "write" /\ s[3].reg = q /\ s[4].io = "write" /\ s[4].reg = r
    BY <1>3 DEF Puts
  <2> HIDE DEF s, ch
  <2>3. \A i \in 1..Len(s) : s[i].io \in BitIo
    BY <1>3, <2>1, <2>2 DEF BitIo
  <2>4. \A i \in 1..Len(s) : s[i].io = "write" => i = 3 \/ i = 4
    BY <1>3, <2>1, <2>2
  <2>5. /\ \E t \in BOOLEAN : Puts(s[3], s[3].reg, BitOf(name, ch, s[3].reg), t)
        /\ \E t \in BOOLEAN : Puts(s[4], s[4].reg, BitOf(name, ch, s[4].reg), t)
    BY <1>3, <2>2
  <2>6. \A i \in 1..Len(s) : s[i].io = "write" =>
          /\ s[i].reg \in RegistersOf(name)
          /\ \E t \in BOOLEAN : Puts(s[i], s[i].reg, BitOf(name, ch, s[i].reg), t)
          /\ \E j \in 1..i - 1 : s[j].io = "read" /\ s[j].reg = s[i].reg
    <3>1. {1, 2} \subseteq 1..3 - 1 /\ {1, 2} \subseteq 1..4 - 1
      OBVIOUS
    <3>2. \A t \in {q, r} : \E j \in {1, 2} : s[j].io = "read" /\ s[j].reg = t
      BY <1>3
    <3> QED BY <1>3, <2>2, <2>4, <2>5, <3>1, <3>2
  <2>7. \A i, j \in 1..Len(s) :
          s[i].io = "write" /\ s[j].io = "write" /\ s[i].reg = s[j].reg => i = j
    BY <1>3, <2>2, <2>4
  <2> QED BY <2>3, <2>6, <2>7
<1>4. CASE name = "rs485"
  <2> DEFINE v == (Family = "PCIe") = (x # 0)
             w == x # 0
  <2>1. /\ Len(s) = 4 /\ s[1].io = "read" /\ s[2].io = "read" /\ {s[1].reg, s[2].reg} = {Rs485Register, "FCTR"}
        /\ Puts(s[3], Rs485Register, Rs485Bit(ch), v) /\ Puts(s[4], "FCTR", 5, w)
    BY <1>1, <1>4, Rs485Steps
  <2>2. /\ BitOf(name, ch, Rs485Register) = Rs485Bit(ch) /\ BitOf(name, ch, "FCTR") = 5
        /\ Rs485Register \in RegistersOf(name) /\ "FCTR" \in RegistersOf(name) /\ Rs485Register # "FCTR"
    BY <1>4 DEF BitOf, RegistersOf, Rs485Register
  <2>3. v \in BOOLEAN /\ w \in BOOLEAN
    OBVIOUS
  <2> HIDE DEF v, w, s, ch, Good
  <2> QED BY <1>3, <2>1, <2>2, <2>3
<1>5. CASE name = "echo_cancel" \/ name = "termination"
  <2>0. name = "termination" => Family = "PCIe"
    BY <1>5 DEF BitSetting
  <2> DEFINE r == IF name = "termination" THEN "MPIOLVL" ELSE EchoRegister
             v == IF name = "termination" THEN ~(x # 0) ELSE x # 0
  <2>1. /\ Len(s) = 2 /\ s[1].io = "read" /\ s[1].reg = s[2].reg
        /\ Puts(s[2], r, BitOf(name, ch, r), v)
    BY <1>1, <1>5, <2>0, PinSteps DEF BitOf
  <2>2. r \in RegistersOf(name)
    BY <1>5 DEF RegistersOf
  <2>3. v \in BOOLEAN
    OBVIOUS
  <2> HIDE DEF r, v, s, ch, Good
  <2> QED BY <1>2, <2>1, <2>2, <2>3
<1>6. CASE name = "sample_rate" /\ Family = "PCI"
  <2>1. /\ Len(s) = 2 /\ s[1].io = "read" /\ s[1].reg = s[2].reg
        /\ Puts(s[2], "8XMODE", ch, x = 8)
    BY <1>6, RateSteps DEF Puts
  <2>2. "8XMODE" \in RegistersOf(name) /\ BitOf(name, ch, "8XMODE") = ch
    BY <1>6 DEF RegistersOf, BitOf
  <2> DEFINE v == x = 8
  <2>3. v \in BOOLEAN
    OBVIOUS
  <2> HIDE DEF v, s, ch, Good
  <2> QED BY <1>2, <2>1, <2>2, <2>3 DEF v
<1>7. CASE name = "sample_rate" /\ Family = "PCIe"
  <2> DEFINE v == x = 4
             w == x = 8
  <2>1. /\ Len(s) = 4 /\ s[1].io = "read" /\ s[2].io = "read" /\ {s[1].reg, s[2].reg} = {"4XMODE", "8XMODE"}
        /\ Puts(s[3], "4XMODE", ch, v) /\ Puts(s[4], "8XMODE", ch, w)
    BY <1>7, RateSteps DEF Puts
  <2>2. /\ "4XMODE" \in RegistersOf(name) /\ BitOf(name, ch, "4XMODE") = ch
        /\ "8XMODE" \in RegistersOf(name) /\ BitOf(name, ch, "8XMODE") = ch
    BY <1>7 DEF RegistersOf, BitOf, RateReg
  <2>3. v \in BOOLEAN /\ w \in BOOLEAN
    OBVIOUS
  <2> HIDE DEF v, w, s, ch, Good
  <2> QED BY <1>3, <2>1, <2>2, <2>3
<1> QED BY <1>4, <1>5, <1>6, <1>7, FamilyAssumption DEF BitSetting

\* The handlers that set no such bit and leave the clock alone.
OtherHandler(s) ==
  \/ s = << >> \/ s = GetBaud \/ s = InitSteps
  \/ s = <<Load("MPIOSEL", {})>> \/ s = <<Load("MPIOSEL", {}), Load("MPIOSELH", {})>>
  \/ \E x \in Nat : s = SetBaud(x)
  \/ \E r \in {"TXTRG", "RXTRG"}, x \in Nat : s = <<Store(r, x)>>
  \/ \E r \in {"FCTR", EchoRegister, "MPIOLVL"} : s = <<Read(r)>>

(* A getter is one of these.                                               *)
LEMMA GetterSteps ==
  ASSUME NEW name
  PROVE  /\ OtherHandler(Getter(name).steps)
         /\ name \in SettingName => Getter(name).status = 0
         /\ name = "rs485" => Getter(name).steps = <<Read("FCTR")>>
         /\ name = "echo_cancel" => Getter(name).steps = <<Read(EchoRegister)>>
         /\ name = "termination" /\ Family = "PCIe" => Getter(name).steps = <<Read("MPIOLVL")>>
<1>1. CASE name \in {"sample_rate", "tx_trigger", "rx_trigger"}
  <2>1. Getter(name).steps = << >> /\ Getter(name).status = 0
    BY <1>1 DEF Getter, Do
  <2> QED BY <1>1, <2>1 DEF OtherHandler
<1>2. CASE name = "rs485"
  <2>1. Getter(name).steps = <<Read("FCTR")>> /\ Getter(name).status = 0
    BY <1>2 DEF Getter, fastcom_get_rs485_pci, Do
  <2> QED BY <1>2, <2>1 DEF OtherHandler
<1>3. CASE name = "echo_cancel"
  <2>1. Getter(name).steps = <<Read(EchoRegister)>> /\ Getter(name).status = 0
    BY <1>3 DEF Getter, fastcom_get_echo_cancel, Do
  <2> QED BY <1>3, <2>1 DEF OtherHandler
<1>4. CASE name = "termination" /\ Family = "PCIe"
  <2>1. Getter(name).steps = <<Read("MPIOLVL")>> /\ Getter(name).status = 0
    BY <1>4 DEF Getter, fastcom_get_termination_pcie, Do
  <2> QED BY <1>4, <2>1 DEF OtherHandler
<1>5. CASE name = "baud_rate" /\ Family = "PCIe"
  <2>1. Getter(name).steps = GetBaud
    BY <1>5 DEF Getter, pcie_get_baud_rate, GetBaud, Do
  <2> QED BY <1>5, <2>1 DEF OtherHandler, SettingName
<1>6. CASE /\ name \notin {"sample_rate", "tx_trigger", "rx_trigger", "rs485", "echo_cancel"}
           /\ ~(name = "termination" /\ Family = "PCIe") /\ ~(name = "baud_rate" /\ Family = "PCIe")
  <2>1. Getter(name).steps = << >>
    BY <1>6 DEF Getter, Refuse
  <2> QED BY <1>6, <2>1 DEF OtherHandler, SettingName
<1> QED BY <1>1, <1>2, <1>3, <1>4, <1>5, <1>6

(* So is every call but the setters of those bits and the loads of the     *)
(* clock chip.                                                             *)
LEMMA OtherSteps ==
  ASSUME IInv, NEW c \in Caller, Busy(c), call[c].name # "clock_bits",
         \A name \in BitSetting : ~Sets(c, name)
  PROVE  OtherHandler(call[c].steps)
<1> DEFINE s    == call[c].steps
           ch   == At(c)[2]
           x    == call[c].arg
           name == call[c].name
           rate == cache[At(c)].sample_rate
<1>0. /\ call[c].kind \in {"set", "get", "boot"} /\ ch \in Channel
      /\ name # "isochronous" => x \in Nat
  BY CallFacts, Asked DEF IInv
<1>1. PICK h : /\ s = h.steps /\ call[c].status = h.status
               /\ call[c].kind = "set" => h \in Setter(ch, name, x, rate)
               /\ call[c].kind = "get" => h = Getter(name)
               /\ call[c].kind = "boot" => h = Boot(name)
  BY HandlerOf
<1>2. OtherHandler(<< >>)
  BY DEF OtherHandler
<1>3. CASE call[c].kind = "get"
  BY <1>1, <1>3, GetterSteps
<1>4. CASE call[c].kind = "boot"
  <2>1. s = InitSteps \/ s = <<Load("MPIOSEL", {})>> \/ s = <<Load("MPIOSEL", {}), Load("MPIOSELH", {})>>
    BY <1>1, <1>4 DEF Boot, fastcom_init_gpio, fastcom_init_triggers, PciOutputs, PcieOutputs, Do,
                      InitSteps, Load
  <2> QED BY <2>1 DEF OtherHandler
<1>5. CASE call[c].kind = "set"
  <2>1. CASE name = "sample_rate"
    <3>1. call[c].status # 0
      BY <1>5, <2>1 DEF Sets, BitSetting
    <3>2. h = fastcom_set_sample_rate(ch, x)
      BY <1>1, <1>5, <2>1 DEF Setter
    <3>3. s = << >>
      BY <1>1, <3>1, <3>2 DEF fastcom_set_sample_rate, fastcom_set_sample_rate_pci,
                              fastcom_set_sample_rate_pcie, Do, Refuse
    <3> QED BY <1>2, <3>3
  <2>2. CASE name \in Level
    <3>1. h = SetTrigger(TriggerLimit, IF name = "tx_trigger" THEN "TXTRG" ELSE "RXTRG", x)
      BY <1>1, <1>5, <2>2 DEF Setter, Level
    <3>2. s = << >> \/ s = <<Store(IF name = "tx_trigger" THEN "TXTRG" ELSE "RXTRG", x)>>
      BY <1>1, <3>1 DEF SetTrigger, Do, Refuse
    <3>3. x \in Nat
      BY <1>0, <2>2 DEF Level
    <3> QED BY <1>2, <3>2, <3>3 DEF OtherHandler
  <2>3. CASE name \in {"rs485", "echo_cancel"} \/ (name = "termination" /\ Family = "PCIe")
    <3>1. call[c].status = 0
      BY <1>5, <2>3, Rs485Steps, PinSteps
    <3> QED BY <1>5, <2>3, <3>1 DEF Sets, BitSetting
  <2>4. CASE name = "baud_rate" /\ Family = "PCIe"
    <3>1. h = Refuse(EINVAL) \/ h = Do(SetBaud(x))
      BY <1>0, <1>1, <1>5, <2>4, BaudHandlers
    <3>2. s = << >> \/ s = SetBaud(x)
      BY <1>1, <3>1 DEF Refuse, Do
    <3>3. x \in Nat
      BY <1>0, <2>4
    <3> QED BY <1>2, <3>2, <3>3 DEF OtherHandler
  <2>5. CASE /\ name \notin {"sample_rate", "rs485", "echo_cancel"} \cup Level
             /\ ~(name = "termination" /\ Family = "PCIe") /\ ~(name = "baud_rate" /\ Family = "PCIe")
    <3>1. h = Refuse(EPROTONOSUPPORT)
      BY <1>1, <1>5, <2>5 DEF Setter, Level
    <3> QED BY <1>1, <1>2, <3>1 DEF Refuse
  <2> QED BY <2>1, <2>2, <2>3, <2>4, <2>5
<1> QED BY <1>0, <1>3, <1>4, <1>5

(* None of them writes a register that holds a setting, but for bits 6 and *)
(* 7 of FCTR; and but for the baud rate each register is written once.     *)
LEMMA OtherWrites ==
  ASSUME NEW s, OtherHandler(s)
  PROVE  /\ \A i \in 1..Len(s) : s[i].io = "write" =>
              \/ s[i].reg \in {"LCR", "FCR", "MPIOSEL", "MPIOSELH"}
              \/ s[i].reg = "FCTR" /\ s[i].on = {6, 7} /\ s[i].off = {}
         /\ \A i, j \in 1..Len(s) :
              s[i].io = "write" /\ s[j].io = "write" /\ s[i].reg = s[j].reg => i = j \/ s[i].reg = "LCR"
<1> DEFINE Good == /\ \A i \in 1..Len(s) : s[i].io = "write" =>
                        \/ s[i].reg \in {"LCR", "FCR", "MPIOSEL", "MPIOSELH"}
                        \/ s[i].reg = "FCTR" /\ s[i].on = {6, 7} /\ s[i].off = {}
                   /\ \A i, j \in 1..Len(s) :
                        s[i].io = "write" /\ s[j].io = "write" /\ s[i].reg = s[j].reg => i = j \/ s[i].reg = "LCR"
<1> SUFFICES Good
  OBVIOUS
<1>1. CASE s = << >>
  BY <1>1
<1>2. CASE s = GetBaud
  BY <1>2 DEF GetBaud, Read, Write, Fetch, Quotient, Restore, Access
<1>3. CASE s = InitSteps
  BY <1>3 DEF InitSteps, Read, Write, Access
<1>4. CASE s = <<Load("MPIOSEL", {})>>
  BY <1>4 DEF Load, Write, Access
<1>5. CASE s = <<Load("MPIOSEL", {}), Load("MPIOSELH", {})>>
  BY <1>5 DEF Load, Write, Access
<1>6. CASE \E x \in Nat : s = SetBaud(x)
  BY <1>6 DEF SetBaud, Read, Write, Divide, Fetch, StoreDivisor, Restore, Access
<1>7. CASE \E r, x : s = <<Store(r, x)>>
  BY <1>7 DEF Store, Access
<1>8. CASE \E r : s = <<Read(r)>>
  BY <1>8 DEF Read, Access
<1> QED BY <1>1, <1>2, <1>3, <1>4, <1>5, <1>6, <1>7, <1>8 DEF OtherHandler

(* Only the first two calls of start-up are none of the settings.          *)
LEMMA BootNames ==
  ASSUME TypeOK, Attributed, NEW c \in Caller, Busy(c), call[c].kind = "boot"
  PROVE  call[c].name \in {"gpio", "triggers"}
<1>1. c \in Card
  BY Asked
<1>2. /\ (boot[c] % StepsPerPort) + 1 \in 1..StepsPerPort
      /\ call[c].kind = serialfc_port_new[(boot[c] % StepsPerPort) + 1].kind
      /\ call[c].name = serialfc_port_new[(boot[c] % StepsPerPort) + 1].name
  BY <1>1, LoaderAt
<1> QED BY <1>2, StartUpCalls

(* Loading the clock chip rewrites the output pins, last as they were.     *)
LEMMA ClockSteps ==
  ASSUME IInv, NEW c \in Caller, Busy(c), call[c].name = "clock_bits"
  PROVE  LET s == call[c].steps IN
         \/ s = << >>
         \/ /\ Family = "PCI" /\ Len(s) = 10
            /\ s[1].io = "read" /\ s[10] = Restore("MPIOLVL")
            /\ \A i \in 1..Len(s) : s[i].reg = "MPIOLVL" /\ (i > 1 => s[i].io = "write")
            /\ Bits \subseteq OwnBits(s, "MPIOLVL")
<1> DEFINE s == call[c].steps
<1>0. call[c].kind \in {"set", "get", "boot"} /\ (call[c].kind = "boot" => call[c].name \in {"gpio", "triggers"})
  BY CallFacts, BootNames DEF IInv
<1>1. PICK h : /\ s = h.steps /\ call[c].status = h.status
               /\ call[c].kind = "set" => h \in Setter(At(c)[2], "clock_bits", call[c].arg, cache[At(c)].sample_rate)
               /\ call[c].kind = "get" => h = Getter("clock_bits")
  BY HandlerOf
<1>2. CASE call[c].kind = "get" \/ Family # "PCI"
  <2>1. h = Refuse(EPROTONOSUPPORT)
    BY <1>0, <1>1, <1>2 DEF Getter, Setter
  <2> QED BY <1>1, <2>1 DEF Refuse
<1>3. CASE call[c].kind = "set" /\ Family = "PCI"
  <2>1. PICK d \in {{}, {0}} \X {{}, {0}} : h = ClockBits(d[1], d[2])
    BY <1>1, <1>3 DEF Setter, fastcom_set_clock_bits_pci
  <2> DEFINE a == Write("MPIOLVL", d[1], {0})
             b == Write("MPIOLVL", d[1] \cup {1}, {0})
             e == Load("MPIOLVL", d[1])
             f == Load("MPIOLVL", d[2])
             g == Load("MPIOLVL", d[2] \cup {1})
             l == Load("MPIOLVL", {2})
             m == Load("MPIOLVL", {})
  <2>2. s = <<Read("MPIOLVL"), a, b, e, f, g, f, l, m, Restore("MPIOLVL")>>
    BY <1>1, <2>1 DEF ClockBits, Do
  <2>3. /\ \A t \in {a, b, e, f, g, l, m, Restore("MPIOLVL")} : t.reg = "MPIOLVL" /\ t.io = "write"
        /\ m.off = Bits
    BY DEF Write, Load, Restore, Access
  <2> HIDE DEF a, b, e, f, g, l, m
  <2>4. /\ Len(s) = 10 /\ s[1] = Read("MPIOLVL") /\ s[2] = a /\ s[3] = b /\ s[4] = e /\ s[5] = f
        /\ s[6] = g /\ s[7] = f /\ s[8] = l /\ s[9] = m /\ s[10] = Restore("MPIOLVL")
    <3> HIDE DEF s
    <3> QED BY <2>2
  <2>5. s[1].io = "read" /\ s[1].reg = "MPIOLVL"
    BY <2>4 DEF Read, Access
  <2> HIDE DEF s
  <2>6. \A i \in 1..Len(s) : s[i].reg = "MPIOLVL" /\ (i > 1 => s[i].io = "write")
    <3> SUFFICES ASSUME NEW i \in 1..10 PROVE s[i].reg = "MPIOLVL" /\ (i > 1 => s[i].io = "write")
      BY <2>4
    <3>1. i = 1 \/ s[i] \in {a, b, e, f, g, l, m, Restore("MPIOLVL")}
      BY <2>4
    <3> QED BY <2>3, <2>5, <3>1
  <2>7. Bits \subseteq OwnBits(s, "MPIOLVL")
    <3>1. 9 \in {j \in 1..Len(s) : s[j].io = "write" /\ s[j].reg = "MPIOLVL"} /\ s[9].off = Bits
      BY <2>3, <2>4
    <3> QED BY <3>1 DEF OwnBits
  <2> QED BY <1>3, <2>4, <2>5, <2>6, <2>7 DEF s
<1> QED BY <1>0, <1>2, <1>3

SettingReg == {"FCTR", "MCR", "MPIOLVL", "MPIOLVLH", "8XMODE", "4XMODE"}

\* What a call c of a user changes at its access a: the bit of the setting it
\* sets, or the two bits of the programmable trigger levels.
OfSetting(c, a) ==
  \/ \E name \in BitSetting : /\ Sets(c, name) /\ a.reg \in RegistersOf(name)
                              /\ a.on \cup a.off = {BitOf(name, At(c)[2], a.reg)}
  \/ a.reg = "FCTR" /\ a.on \cup a.off = {6, 7}

\* It has read the register before.
ReadBefore(c, i) ==
  \E j \in 1..i - 1 : /\ call[c].steps[j].io = "read"
                     /\ call[c].steps[j].reg = call[c].steps[i].reg

(* A call that writes a register of a setting has read it, writes it once, *)
(* and changes the bit of the setting it sets, or the bits of the          *)
(* programmable trigger levels.                                            *)
LEMMA Writes ==
  ASSUME IInv, NEW c \in Caller, Busy(c), call[c].name # "clock_bits",
         NEW i \in 1..Len(call[c].steps), call[c].steps[i].io = "write", call[c].steps[i].reg \in SettingReg
  PROVE  LET s == call[c].steps
         IN  /\ ReadBefore(c, i) /\ OfSetting(c, s[i])
             /\ OwnBits(s, s[i].reg) = s[i].on \cup s[i].off
<1> DEFINE s == call[c].steps
           a == s[i]
           r == s[i].reg
           Once == \A j \in 1..Len(s) : s[j].io = "write" /\ s[j].reg = r => j = i
           Before == ReadBefore(c, i)
           Owned == OfSetting(c, a)
<1>1. Once /\ Before /\ Owned
  <2>1. CASE \E name \in BitSetting : Sets(c, name)
    <3>1. PICK name \in BitSetting : Sets(c, name)
      BY <2>1
    <3>2. /\ r \in RegistersOf(name)
          /\ \E v \in BOOLEAN : Puts(s[i], r, BitOf(name, At(c)[2], r), v)
          /\ Before /\ Once
      BY <3>1, BitWrites DEF ReadBefore
    <3>3. s[i].on \cup s[i].off = {BitOf(name, At(c)[2], r)}
      BY <3>2 DEF Puts
    <3>4. Owned
      BY <3>1, <3>2, <3>3 DEF OfSetting
    <3> QED BY <3>2, <3>4
  <2>2. CASE ~(\E name \in BitSetting : Sets(c, name))
    <3>1. OtherHandler(s)
      BY <2>2, OtherSteps
    <3>2. r = "FCTR" /\ a.on = {6, 7} /\ a.off = {} /\ Once
      BY <3>1, OtherWrites DEF SettingReg
    <3>3. FctrSafe(s)
      BY BusyShape DEF IInv
    <3>4. Before
      BY <3>2, <3>3 DEF FctrSafe, ReadBefore
    <3>5. Owned
      BY <3>2 DEF OfSetting
    <3> QED BY <3>2, <3>4, <3>5
  <2> QED BY <2>1, <2>2
<1>2. {j \in 1..Len(s) : s[j].io = "write" /\ s[j].reg = r} = {i}
  BY <1>1
<1>3. OwnBits(s, r) = s[i].on \cup s[i].off
  <2> HIDE DEF s
  <2>1. {s[j].on \cup s[j].off : j \in {i}} = {s[i].on \cup s[i].off}
    OBVIOUS
  <2> QED BY <1>2, <2>1 DEF OwnBits
<1> QED BY <1>1, <1>3

(* The same of the access a call is at.                                      *)
LEMMA WritesNow ==
  ASSUME IInv, NEW c \in Caller, Busy(c), call[c].name # "clock_bits",
         NEW r \in SettingReg, Pending(c).io = "write", Pending(c).reg = r,
         call[c].pc \in 1..Len(call[c].steps)
  PROVE  /\ ReadBefore(c, call[c].pc) /\ OfSetting(c, Pending(c))
         /\ OwnBits(call[c].steps, r) = Pending(c).on \cup Pending(c).off
<1>1. Pending(c) = call[c].steps[call[c].pc]
  BY DEF Pending
<1>2. /\ call[c].steps[call[c].pc].io = "write" /\ call[c].steps[call[c].pc].reg = r
      /\ call[c].steps[call[c].pc].reg \in SettingReg
  BY <1>1
<1> QED BY <1>1, <1>2, Writes

-----------------------------------------------------------------------------
(* The registers as the settings see them.                                 *)

\* The pins as they will be again when the clock chip is loaded, every other
\* register as it is.
Seen(p, r) == IF r = "MPIOLVL" THEN Pins(p[1]) ELSE Held(p, r)

(* Only a loader of the clock chip borrows the pins.                       *)
LEMMA PinsOwn ==
  ASSUME AloneOnCard, NEW c \in Caller, Busy(c), At(c)[1] \in Card
  PROVE  /\ Borrows(c, At(c)[1]) => Pins(At(c)[1]) = call[c].kept["MPIOLVL"]
         /\ ~Borrows(c, At(c)[1]) => Pins(At(c)[1]) = board[At(c)[1]]["MPIOLVL"]
<1> DEFINE k == At(c)[1]
<1>1. \A d \in Caller : Borrows(d, k) => d = c
  BY DEF AloneOnCard, Borrows
<1>2. ASSUME Borrows(c, k) PROVE Pins(k) = call[c].kept["MPIOLVL"]
  <2>1. (CHOOSE d \in Caller : Borrows(d, k)) = c
    BY <1>1, <1>2
  <2> QED BY <1>2, <2>1 DEF Pins
<1>3. ASSUME ~Borrows(c, k) PROVE Pins(k) = board[k]["MPIOLVL"]
  BY <1>1, <1>3 DEF Pins
<1> QED BY <1>2, <1>3

(* Nobody borrows the pins of a card that no call works on.                *)
LEMMA PinsFree ==
  ASSUME NEW k \in Card, \A d \in Caller : Busy(d) => At(d)[1] # k
  PROVE  Pins(k) = board[k]["MPIOLVL"]
<1>1. \A d \in Caller : ~Borrows(d, k)
  BY DEF Borrows
<1> QED BY <1>1 DEF Pins

(* The same callers borrowing, and the same pins, are the same pins.       *)
LEMMA PinsSame ==
  ASSUME NEW k \in Card, board'[k]["MPIOLVL"] = board[k]["MPIOLVL"],
         \A d \in Caller : Borrows(d, k)' = Borrows(d, k) /\ (Borrows(d, k) => call'[d] = call[d])
  PROVE  Pins(k)' = Pins(k)
<1>1. CASE \E d \in Caller : Borrows(d, k)
  <2> DEFINE e == CHOOSE d \in Caller : Borrows(d, k)
  <2>1. e \in Caller /\ Borrows(e, k)
    BY <1>1
  <2>2. (CHOOSE d \in Caller : Borrows(d, k)') = e
    BY Zenon
  <2> QED BY <1>1, <2>1, <2>2 DEF Pins
<1>2. CASE ~(\E d \in Caller : Borrows(d, k))
  BY <1>2 DEF Pins
<1> QED BY <1>1, <1>2

(* A call that is no load of the clock chip sees the pins that are.        *)
LEMMA PinsSeen ==
  ASSUME AloneOnCard, NEW c \in Caller, Busy(c), call[c].name # "clock_bits", At(c)[1] \in Card
  PROVE  Pins(At(c)[1]) = board[At(c)[1]]["MPIOLVL"]
<1>1. ~Borrows(c, At(c)[1])
  BY DEF Borrows
<1> QED BY <1>1, PinsOwn

(* An access leaves the bits of a setting as they are seen, but for those  *)
(* it sets or clears itself.                                               *)
LEMMA PerformSeen ==
  ASSUME IInv, AloneOnCard, CopiesFollow, NEW c \in Caller, Perform(c),
         NEW p \in Port, NEW r \in SettingReg, NEW b
  PROVE  \/ b \in Seen(p, r)' <=> b \in Seen(p, r)
         \/ /\ call[c].name # "clock_bits"
            /\ Pending(c).io = "write" /\ Pending(c).reg = r
            /\ p[1] = At(c)[1] /\ (r \notin BoardReg => p = At(c))
            /\ b \in Pending(c).on \cup Pending(c).off
<1> DEFINE s == call[c].steps
           n == call[c].pc
           a == Pending(c)
           k == At(c)[1]
           Mine == a.io = "write" /\ a.reg = r /\ p[1] = k /\ (r \notin BoardReg => p = At(c))
<1>1. /\ Busy(c) /\ At(c) \in Port /\ k \in Card /\ At(c) = <<k, At(c)[2]>>
      /\ n \in 1..Len(s) /\ a = s[n] /\ Len(s) \in Nat /\ n \in Nat
      /\ At(c)' = At(c) /\ call'[c].steps = s /\ call'[c].pc = n + 1 /\ call'[c].name = call[c].name
  BY Turns DEF Turn, Port
<1>2. \A d \in Caller : Busy(d)' = Busy(d) /\ At(d)' = At(d) /\ (d # c => call'[d] = call[d])
  BY PerformedCalls
<1>3. AloneOnCard'
  BY <1>2 DEF AloneOnCard
<1>4. p[1] \in Card /\ r \in UartReg \cup BoardReg /\ "MPIOLVL" \in BoardReg
  BY DEF Port, SettingReg, UartReg, BoardReg
<1>5. Held(p, r)' = IF Mine THEN Derived(c) ELSE Held(p, r)
  BY <1>4, PerformedHardware DEF Held
<1>6. CASE p[1] # k
  <2>1. board'[p[1]]["MPIOLVL"] = board[p[1]]["MPIOLVL"]
    BY <1>4, <1>6, PerformedHardware
  <2>2. \A d \in Caller : Borrows(d, p[1])' = Borrows(d, p[1]) /\ (Borrows(d, p[1]) => call'[d] = call[d])
    BY <1>1, <1>2, <1>6 DEF Borrows
  <2>3. Pins(p[1])' = Pins(p[1])
    BY <1>4, <2>1, <2>2, PinsSame
  <2> QED BY <1>5, <1>6, <2>3 DEF Seen
<1>7. CASE p[1] = k /\ call[c].name = "clock_bits"
  <2>1. /\ s[1].io = "read" /\ \A i \in 1..Len(s) : s[i].reg = "MPIOLVL" /\ (i > 1 => s[i].io = "write")
    BY <1>1, <1>7, ClockSteps
  <2>2. a.reg = "MPIOLVL" /\ s # << >>
    BY <1>1, <2>1
  <2>3. Pins(p[1])' = call'[c].kept["MPIOLVL"]
    <3>1. Borrows(c, p[1])'
      BY <1>1, <1>2, <1>7, <2>2 DEF Borrows
    <3>2. \A d \in Caller : Borrows(d, p[1])' => d = c
      BY <1>3, <3>1 DEF AloneOnCard, Borrows
    <3>3. (CHOOSE d \in Caller : Borrows(d, p[1])') = c
      BY <3>1, <3>2
    <3> QED BY <3>1, <3>3 DEF Pins
  <2>4. Pins(k) = call'[c].kept["MPIOLVL"]
    <3>1. CASE n = 1
      <4>1. ~Borrows(c, k)
        BY <3>1 DEF Borrows
      <4>2. Pins(k) = board[k]["MPIOLVL"]
        BY <1>1, <4>1, PinsOwn
      <4>3. a.io = "read"
        BY <1>1, <2>1, <3>1
      <4>4. call'[c].kept["MPIOLVL"] = Held(At(c), "MPIOLVL")
        <5>1. call'[c].kept = [call[c].kept EXCEPT !["MPIOLVL"] = Held(At(c), "MPIOLVL")]
          BY <2>2, <4>3, PerformedCalls DEF Locals
        <5>2. call[c].kept \in [UartReg \cup BoardReg -> SUBSET Bits]
          BY CallFacts DEF IInv, CallRecord
        <5> QED BY <1>4, <5>1, <5>2
      <4> QED BY <1>4, <4>2, <4>4 DEF Held
    <3>2. CASE n # 1
      <4>1. Borrows(c, k)
        BY <1>1, <1>7, <2>2, <3>2 DEF Borrows
      <4>2. Pins(k) = call[c].kept["MPIOLVL"]
        BY <1>1, <4>1, PinsOwn
      <4>3. a.io = "write"
        BY <1>1, <2>1, <3>2
      <4>4. call'[c].kept = call[c].kept
        BY <4>3, PerformedCalls DEF Locals
      <4> QED BY <4>2, <4>4
    <3> QED BY <3>1, <3>2
  <2>5. r # "MPIOLVL" => Held(p, r)' = Held(p, r)
    BY <1>5, <2>2
  <2>6. Pins(p[1])' = Pins(p[1])
    BY <1>7, <2>3, <2>4
  <2> QED BY <2>5, <2>6 DEF Seen
<1>8. CASE p[1] = k /\ call[c].name # "clock_bits"
  <2>1. Pins(k) = board[k]["MPIOLVL"]
    BY <1>1, <1>8, PinsSeen
  <2>2. Pins(p[1])' = board'[p[1]]["MPIOLVL"]
    <3>1. \A d \in Caller : Busy(d)' /\ At(d)'[1] = p[1] => d = c
      BY <1>1, <1>2, <1>3, <1>8 DEF AloneOnCard
    <3>2. \A d \in Caller : ~Borrows(d, p[1])'
      BY <1>1, <1>8, <3>1 DEF Borrows
    <3> QED BY <3>2 DEF Pins
  <2>3. Seen(p, r) = Held(p, r) /\ Seen(p, r)' = Held(p, r)'
    <3>1. Pins(p[1]) = board[p[1]]["MPIOLVL"]
      BY <1>8, <2>1
    <3>2. CASE r = "MPIOLVL"
      BY <1>4, <2>2, <3>1, <3>2 DEF Seen, Held
    <3>3. CASE r # "MPIOLVL"
      BY <3>3 DEF Seen
    <3> QED BY <3>2, <3>3
  <2>4. CASE ~Mine
    BY <1>5, <2>3, <2>4
  <2>5. CASE Mine /\ b \in a.on \cup a.off
    BY <1>8, <2>5
  <2>6. CASE Mine /\ b \notin a.on \cup a.off
    <3>1. ReadBefore(c, n) /\ OwnBits(s, r) = a.on \cup a.off
      <4>1. Pending(c).io = "write" /\ Pending(c).reg = r /\ call[c].name # "clock_bits"
        BY <1>8, <2>6
      <4> QED BY <1>1, <4>1, WritesNow
    <3>2. PICK j \in 1..n - 1 : s[j].io = "read" /\ s[j].reg = r
      BY <1>1, <2>6, <3>1 DEF ReadBefore
    <3>3. call[c].kept[r] \ OwnBits(s, r) = Held(At(c), r) \ OwnBits(s, r)
      BY <1>1, <3>2 DEF CopiesFollow
    <3>4. Held(At(c), r) = Held(p, r)
      BY <1>8, <2>6 DEF Held
    <3>5. b \in call[c].kept[r] <=> b \in Held(p, r)
      BY <2>6, <3>1, <3>3, <3>4
    <3>6. Derived(c) = (call[c].kept[r] \ a.off) \cup a.on
      BY <2>6 DEF Derived
    <3> QED BY <1>5, <2>3, <2>6, <3>5, <3>6
  <2> QED BY <2>4, <2>5, <2>6
<1> QED BY <1>6, <1>7, <1>8

(* A setting is what its bits, or its trigger register, say.               *)
LEMMA SettingBySeen ==
  ASSUME NEW p \in Port, NEW name \in SettingName,
         name \in BitSetting => \A r \in RegistersOf(name) :
           BitOf(name, p[2], r) \in Seen(p, r)' <=> BitOf(name, p[2], r) \in Seen(p, r),
         name \in Level => byte'[p][RegisterOf[name]] = byte[p][RegisterOf[name]]
  PROVE  Setting(p)'[name] = Setting(p)[name]
<1>1. CASE name = "sample_rate"
  <2>1. /\ "8XMODE" \in BoardReg /\ "4XMODE" \in BoardReg /\ name \in BitSetting
        /\ "8XMODE" \in RegistersOf(name) /\ (Family = "PCIe" => "4XMODE" \in RegistersOf(name))
        /\ \A r : BitOf(name, p[2], r) = p[2]
    BY <1>1 DEF BoardReg, BitSetting, RegistersOf, BitOf, RateReg
  <2>2. /\ p[2] \in board'[p[1]]["8XMODE"] <=> p[2] \in board[p[1]]["8XMODE"]
        /\ Family = "PCIe" => (p[2] \in board'[p[1]]["4XMODE"] <=> p[2] \in board[p[1]]["4XMODE"])
    BY <2>1 DEF Seen, Held
  <2>3. SampleRate(p)' = SampleRate(p)
    BY <2>2 DEF SampleRate
  <2> QED BY <1>1, <2>3 DEF Setting
<1>2. CASE name \in Level
  <2>1. byte'[p][RegisterOf[name]] = byte[p][RegisterOf[name]]
    BY <1>2
  <2>2. CASE name = "tx_trigger"
    BY <2>1, <2>2 DEF Setting, RegisterOf
  <2>3. CASE name = "rx_trigger"
    BY <2>1, <2>3 DEF Setting, RegisterOf
  <2> QED BY <1>2, <2>2, <2>3 DEF Level
<1>3. CASE name = "rs485"
  <2>1. /\ name \in BitSetting /\ "FCTR" \in RegistersOf(name) /\ Rs485Register \in RegistersOf(name)
        /\ BitOf(name, p[2], "FCTR") = 5 /\ BitOf(name, p[2], Rs485Register) = Rs485Bit(p[2])
        /\ "FCTR" \notin BoardReg /\ "MCR" \notin BoardReg
    BY <1>3 DEF BoardReg, BitSetting, RegistersOf, BitOf, Rs485Register
  <2>2. /\ 5 \in uart'[p]["FCTR"] <=> 5 \in uart[p]["FCTR"]
        /\ Rs485Bit(p[2]) \in Seen(p, Rs485Register)' <=> Rs485Bit(p[2]) \in Seen(p, Rs485Register)
    BY <2>1 DEF Seen, Held
  <2>3. CASE Family = "PCI"
    <3>1. 3 + p[2] \in Pins(p[1])' <=> 3 + p[2] \in Pins(p[1])
      BY <2>2, <2>3 DEF Rs485Bit, Rs485Register, Seen
    <3>2. Rs485(p)' = Rs485(p)
      BY <2>2, <2>3, <3>1 DEF Rs485, YesNo
    <3> QED BY <1>3, <3>2 DEF Setting
  <2>4. CASE Family # "PCI"
    <3>1. 2 \in uart'[p]["MCR"] <=> 2 \in uart[p]["MCR"]
      BY <2>1, <2>2, <2>4 DEF Rs485Bit, Rs485Register, Seen, Held
    <3>2. Rs485(p)' = Rs485(p)
      BY <2>2, <2>4, <3>1 DEF Rs485, YesNo
    <3> QED BY <1>3, <3>2 DEF Setting
  <2> QED BY <2>3, <2>4
<1>4. CASE name = "echo_cancel"
  <2>1. name \in BitSetting /\ EchoRegister \in RegistersOf(name) /\ BitOf(name, p[2], EchoRegister) = EchoBit(p[2])
    BY <1>4 DEF BitSetting, RegistersOf, BitOf
  <2>2. EchoBit(p[2]) \in Seen(p, EchoRegister)' <=> EchoBit(p[2]) \in Seen(p, EchoRegister)
    BY <2>1
  <2>3. EchoOf(p)' <=> EchoOf(p)
    BY <2>2 DEF EchoOf, Seen, Held, EchoRegister, BoardReg
  <2>4. YesNo(EchoOf(p))' = YesNo(EchoOf(p))
    BY <2>3 DEF YesNo
  <2> QED BY <1>4, <2>4 DEF Setting
<1>5. CASE name = "termination"
  <2>1. Family = "PCIe"
    BY <1>5 DEF SettingName
  <2>2. name \in BitSetting /\ "MPIOLVL" \in RegistersOf(name) /\ BitOf(name, p[2], "MPIOLVL") = p[2]
    BY <1>5, <2>1 DEF BitSetting, RegistersOf, BitOf
  <2>3. p[2] \in Pins(p[1])' <=> p[2] \in Pins(p[1])
    BY <2>2 DEF Seen
  <2>4. YesNo(p[2] \notin Pins(p[1]))' = YesNo(p[2] \notin Pins(p[1]))
    BY <2>3 DEF YesNo
  <2> QED BY <1>5, <2>4 DEF Setting
<1> QED BY <1>1, <1>2, <1>3, <1>4, <1>5 DEF SettingName, Level

(* Settings share no bit, but the ports of a PCI board their echo cancel.  *)
LEMMA BitsApart ==
  ASSUME NEW m \in BitSetting, NEW n \in BitSetting, NEW ch \in Channel, NEW own \in Channel,
         NEW r \in RegistersOf(m), r \in RegistersOf(n), BitOf(m, own, r) = BitOf(n, ch, r)
  PROVE  /\ m = n /\ r \in SettingReg
         /\ r \in BoardReg /\ n \notin BoardWide => ch = own
<1>1. ch \in 0..7 /\ own \in 0..7 /\ (Family = "PCI" => ch \in 0..3 /\ own \in 0..3)
  BY NumPortsAssumption, FamilyAssumption DEF Channel
<1>2. CASE Family = "PCI"
  BY <1>1, <1>2 DEF BitSetting, RegistersOf, BitOf, Rs485Register, Rs485Bit, EchoRegister, EchoBit,
                    SettingReg, BoardReg, BoardWide
<1>3. CASE Family = "PCIe"
  BY <1>1, <1>3 DEF BitSetting, RegistersOf, BitOf, Rs485Register, Rs485Bit, EchoRegister, EchoBit,
                    SettingReg, BoardReg, BoardWide, RateReg
<1> QED BY <1>2, <1>3, FamilyAssumption

\* The ports whose setting a call on port p may change.
Shares(p, q, name) == IF name \in BoardWide THEN p[1] = q[1] ELSE p = q

(* An access changes the setting that its call sets, and no other.         *)
LEMMA PerformChanges ==
  ASSUME IInv, AloneOnCard, CopiesFollow, NEW c \in Caller, Perform(c),
         NEW p \in Port, NEW name \in SettingName, Setting(p)'[name] # Setting(p)[name]
  PROVE  Sets(c, name) /\ Shares(At(c), p, name)
<1> DEFINE s == call[c].steps
           n == call[c].pc
           a == Pending(c)
<1>1. /\ Busy(c) /\ At(c) \in Port /\ At(c)[2] \in Channel /\ At(c) = <<At(c)[1], At(c)[2]>>
      /\ n \in 1..Len(s) /\ a = s[n]
  BY Turns DEF Turn, Port
<1>2. p[2] \in Channel /\ p = <<p[1], p[2]>>
  BY DEF Port
<1>3. CASE name \in BitSetting /\ \E r \in RegistersOf(name) :
             ~(BitOf(name, p[2], r) \in Seen(p, r)' <=> BitOf(name, p[2], r) \in Seen(p, r))
  <2>1. PICK r \in RegistersOf(name) :
             ~(BitOf(name, p[2], r) \in Seen(p, r)' <=> BitOf(name, p[2], r) \in Seen(p, r))
    BY <1>3
  <2>2. r \in SettingReg
    BY <1>3, BitsApart, <1>2
  <2>3. /\ call[c].name # "clock_bits" /\ a.io = "write" /\ a.reg = r
        /\ p[1] = At(c)[1] /\ (r \notin BoardReg => p = At(c))
        /\ BitOf(name, p[2], r) \in a.on \cup a.off
    BY <2>1, <2>2, PerformSeen
  <2>4. \/ \E m \in BitSetting : /\ Sets(c, m) /\ r \in RegistersOf(m)
                                 /\ a.on \cup a.off = {BitOf(m, At(c)[2], r)}
        \/ r = "FCTR" /\ a.on \cup a.off = {6, 7}
    <3>1. OfSetting(c, Pending(c))
      BY <1>1, <2>2, <2>3, WritesNow
    <3> QED BY <2>3, <3>1 DEF OfSetting
  <2>5. r # "FCTR" \/ BitOf(name, p[2], r) \notin {6, 7}
    BY <1>3 DEF BitSetting, RegistersOf, BitOf, EchoRegister, RateReg
  <2>6. PICK m \in BitSetting : /\ Sets(c, m) /\ r \in RegistersOf(m)
                                /\ a.on \cup a.off = {BitOf(m, At(c)[2], r)}
    BY <2>3, <2>4, <2>5
  <2>7. BitOf(m, At(c)[2], r) = BitOf(name, p[2], r)
    BY <2>3, <2>6
  <2>8. m = name /\ (r \in BoardReg /\ name \notin BoardWide => p[2] = At(c)[2])
    BY <1>1, <1>2, <1>3, <2>6, <2>7, BitsApart
  <2> QED BY <1>1, <1>2, <2>3, <2>6, <2>8 DEF Shares
<1>4. CASE name \in Level /\ byte'[p][RegisterOf[name]] # byte[p][RegisterOf[name]]
  <2>1. RegisterOf[name] \in ByteReg /\ RegisterOf[name] \notin Divisor
    BY <1>4 DEF Level, RegisterOf, ByteReg, Divisor
  <2>2. a \in Accesses
    BY PerformedCalls, DoingFacts
  <2>3. p = At(c) /\ a.io = "store" /\ a.reg = RegisterOf[name]
    BY <1>4, <2>1, <2>2, PerformedHardware DEF Accesses
  <2>4. Sets(c, name)
    <3>1. ~Sets(c, name) => Spares(s, RegisterOf[name])
      BY <1>1, <1>4, BusyShape DEF IInv
    <3> QED BY <1>1, <2>3, <3>1 DEF Spares
  <2> QED BY <2>3, <2>4 DEF Shares
<1> QED BY <1>3, <1>4, SettingBySeen

-----------------------------------------------------------------------------
(* What a call that is done has come to.                                   *)

(* A bit that it has written, it has written for good.                     *)
LEMMA PutsStand ==
  ASSUME WritesStand, NEW c \in Caller, Busy(c), ~Rewrites(c), NEW i \in 1..call[c].pc - 1,
         NEW r, NEW b, NEW v \in BOOLEAN, Puts(call[c].steps[i], r, b, v)
  PROVE  b \in Held(At(c), r) <=> v
<1> DEFINE a == call[c].steps[i]
<1>1. /\ a.io = "write" /\ a.reg = r
      /\ a.on = (IF v THEN {b} ELSE {}) /\ a.off = (IF v THEN {} ELSE {b})
  BY DEF Puts
<1>2. Held(At(c), r) \cap (a.on \cup a.off) = a.on
  BY <1>1 DEF WritesStand
<1> QED BY <1>1, <1>2

(* An accepted set call leaves its setting at the value asked for.         *)
LEMMA SetDone ==
  ASSUME IInv, BoardHeld, WritesStand, NEW c \in Caller, NEW name \in SettingName, Sets(c, name),
         call[c].pc = Len(call[c].steps) + 1
  PROVE  Setting(At(c))[name] = Wanted(name, call[c].arg)
<1> DEFINE s  == call[c].steps
           x  == call[c].arg
           p  == At(c)
           ch == At(c)[2]
<1>1. /\ Busy(c) /\ call[c].kind = "set" /\ call[c].name = name /\ call[c].status = 0
      /\ AloneOnCard /\ RatesFollowCall
  BY DEF Sets, BoardHeld
<1>2. p \in Port /\ p[1] \in Card /\ ch \in Channel
  BY CallFacts DEF IInv
<1>3. CASE name = "sample_rate"
  <2>1. SampleRate(p) = x
    BY <1>1, <1>3, RateWritten
  <2> QED BY <1>3, <2>1 DEF Setting, Wanted, Switch
<1>4. CASE name \in Level
  <2>1. s = <<Store(RegisterOf[name], x)>>
    BY <1>1, <1>4, BusyShape DEF IInv
  <2>2. Len(s) = 1
    BY <2>1
  <2>3. byte[p][RegisterOf[name]] = x
    BY <1>4, <2>2 DEF IInv, LevelsHeld
  <2> QED BY <1>4, <2>3 DEF Setting, Wanted, Switch, Level, RegisterOf
<1>5. ~Rewrites(c)
  BY <1>1 DEF Rewrites, SettingName
<1>6. Pins(p[1]) = board[p[1]]["MPIOLVL"]
  BY <1>1, <1>2, PinsSeen DEF SettingName
<1>7. \A r \in BoardReg : Held(p, r) = board[p[1]][r]
  BY DEF Held
<1>8. CASE name = "rs485"
  <2>1. /\ Len(s) = 4 /\ Puts(s[3], Rs485Register, Rs485Bit(ch), (Family = "PCIe") = (x # 0))
        /\ Puts(s[4], "FCTR", 5, x # 0)
    BY <1>1, <1>8, Rs485Steps
  <2>2. 3 \in 1..call[c].pc - 1 /\ 4 \in 1..call[c].pc - 1
    BY <2>1
  <2>3. 5 \in Held(p, "FCTR") <=> x # 0
    BY <1>1, <1>5, <2>1, <2>2, PutsStand
  <2>4. Rs485Bit(ch) \in Held(p, Rs485Register) <=> (Family = "PCIe") = (x # 0)
    BY <1>1, <1>5, <2>1, <2>2, PutsStand
  <2>5. 5 \in uart[p]["FCTR"] <=> x # 0
    BY <2>3 DEF Held, BoardReg
  <2>6. CASE Family = "PCI"
    <3>1. 3 + ch \notin Pins(p[1]) <=> x # 0
      BY <1>6, <1>7, <2>4, <2>6 DEF Rs485Bit, Rs485Register, BoardReg
    <3>2. Rs485(p) = YesNo(x # 0)
      <4>1. CASE x = 0
        BY <2>5, <2>6, <3>1, <4>1 DEF Rs485, YesNo
      <4>2. CASE x # 0
        BY <2>5, <2>6, <3>1, <4>2 DEF Rs485, YesNo
      <4> QED BY <4>1, <4>2
    <3> QED BY <1>8, <3>2 DEF Setting, Wanted, Switch
  <2>7. CASE Family = "PCIe"
    <3>1. 2 \in uart[p]["MCR"] <=> x # 0
      BY <2>4, <2>7 DEF Rs485Bit, Rs485Register, BoardReg, Held
    <3>2. Rs485(p) = YesNo(x # 0)
      <4>1. CASE x = 0
        BY <2>5, <2>7, <3>1, <4>1 DEF Rs485, YesNo
      <4>2. CASE x # 0
        BY <2>5, <2>7, <3>1, <4>2 DEF Rs485, YesNo
      <4> QED BY <4>1, <4>2
    <3> QED BY <1>8, <3>2 DEF Setting, Wanted, Switch
  <2> QED BY <2>6, <2>7, FamilyAssumption
<1>9. CASE name = "echo_cancel"
  <2>1. Len(s) = 2 /\ Puts(s[2], EchoRegister, EchoBit(ch), x # 0)
    BY <1>1, <1>9, PinSteps
  <2>2. 2 \in 1..call[c].pc - 1
    BY <2>1
  <2>3. EchoBit(ch) \in Held(p, EchoRegister) <=> x # 0
    BY <1>1, <1>5, <2>1, <2>2, PutsStand
  <2>4. EchoOf(p) <=> x # 0
    BY <1>6, <1>7, <2>3 DEF EchoOf, EchoRegister, BoardReg
  <2> QED BY <1>9, <2>4 DEF Setting, Wanted, Switch, YesNo
<1>10. CASE name = "termination"
  <2>0. Family = "PCIe"
    BY <1>10 DEF SettingName
  <2>1. Len(s) = 2 /\ Puts(s[2], "MPIOLVL", ch, ~(x # 0))
    BY <1>1, <1>10, <2>0, PinSteps
  <2>2. 2 \in 1..call[c].pc - 1
    BY <2>1
  <2>3. ch \in Held(p, "MPIOLVL") <=> ~(x # 0)
    BY <1>1, <1>5, <2>1, <2>2, PutsStand
  <2>4. ch \notin Pins(p[1]) <=> x # 0
    BY <1>6, <1>7, <2>3 DEF BoardReg
  <2> QED BY <1>10, <2>4 DEF Setting, Wanted, Switch, YesNo
<1> QED BY <1>3, <1>4, <1>8, <1>9, <1>10 DEF SettingName, Level

(* What a getter has read is what the register holds.                      *)
LEMMA ReadDone ==
  ASSUME CopiesFollow, NEW c \in Caller, Busy(c), NEW r, call[c].steps = <<Read(r)>>,
         call[c].pc = Len(call[c].steps) + 1
  PROVE  call[c].kept[r] = Held(At(c), r)
<1> DEFINE s == call[c].steps
<1>1. Len(s) = 1 /\ s[1].io = "read" /\ s[1].reg = r
  BY DEF Read, Access
<1>2. OwnBits(s, r) = {}
  <2> HIDE DEF s
  <2>1. {j \in 1..Len(s) : s[j].io = "write" /\ s[j].reg = r} = {}
    BY <1>1
  <2> QED BY <2>1 DEF OwnBits
<1>3. 1 \in 1..call[c].pc - 1
  BY <1>1
<1>4. call[c].kept[r] \ OwnBits(s, r) = Held(At(c), r) \ OwnBits(s, r)
  BY <1>1, <1>3 DEF CopiesFollow
<1> QED BY <1>2, <1>4

(* A get call of a setting answers what the setting is.                    *)
LEMMA GetDone ==
  ASSUME IInv, BoardHeld, CopiesFollow, Rs485Whole,
         NEW c \in Caller, NEW name \in SettingName, Ready(At(c)),
         Busy(c), call[c].kind = "get", call[c].name = name, call[c].status = 0,
         call[c].pc = Len(call[c].steps) + 1
  PROVE  Reply(c) = Setting(At(c))[name]
<1> DEFINE s  == call[c].steps
           p  == At(c)
           ch == At(c)[2]
<1>1. p \in Port /\ p[1] \in Card /\ ch \in Channel /\ AloneOnCard /\ RatesHeld
  BY CallFacts DEF IInv, BoardHeld
<1>2. \A d \in Caller, n \in SettingName : At(d) = p => ~Sets(d, n)
  BY DEF IInv, Exclusive, Sets
<1>3. \A n \in 1..StepsPerPort : Programmed(p, n)
  BY <1>1, ReadyProgrammed DEF IInv, TypeOK
<1>4. Pins(p[1]) = board[p[1]]["MPIOLVL"]
  BY <1>1, PinsSeen DEF SettingName
<1>5. PICK h : s = h.steps /\ h = Getter(name)
  BY HandlerOf
<1>6. {"sample_rate", "tx_trigger", "rx_trigger", "rs485"} \subseteq SettingName
  BY DEF SettingName
<1>7. CASE name \in Cached
  <2>1. Reply(c) = cache[p][name]
    BY <1>7 DEF Reply, Cached
  <2>2. CASE name = "sample_rate"
    <3>1. cache[p].sample_rate = SampleRate(p)
      BY <1>1, <1>2, <1>3, <1>6, StartUpLength DEF RatesHeld
    <3> QED BY <2>1, <2>2, <3>1 DEF Setting
  <2>3. CASE name \in Level
    <3>1. PlaceOf[name] \in 1..StepsPerPort
      BY <2>3, StartUpLength DEF Level
    <3>2. byte[p][RegisterOf[name]] = cache[p][name]
      BY <1>1, <1>2, <1>3, <1>6, <2>3, <3>1 DEF IInv, LevelsHeld
    <3> QED BY <2>1, <2>3, <3>2 DEF Setting, Level, RegisterOf
  <2> QED BY <1>7, <2>2, <2>3 DEF Cached, Level
<1>8. CASE name = "rs485"
  <2>1. s = <<Read("FCTR")>>
    BY <1>5, <1>8, GetterSteps
  <2>2. call[c].kept["FCTR"] = uart[p]["FCTR"]
    BY <2>1, ReadDone DEF Held, BoardReg
  <2>3. PlaceOf["rs485"] \in 1..StepsPerPort
    BY StartUpLength DEF PlaceOf
  <2>4. Rs485(p) # Torn
    BY <1>1, <1>2, <1>3, <1>6, <2>3 DEF Rs485Whole
  <2>5. Rs485(p) = YesNo(5 \in uart[p]["FCTR"])
    BY <2>4 DEF Rs485
  <2>6. Reply(c) = YesNo(5 \in call[c].kept["FCTR"])
    BY <1>8 DEF Reply, Cached
  <2> QED BY <1>8, <2>2, <2>5, <2>6 DEF Setting
<1>9. CASE name = "echo_cancel"
  <2>1. s = <<Read(EchoRegister)>>
    BY <1>5, <1>9, GetterSteps
  <2>2. call[c].kept[EchoRegister] = board[p[1]][EchoRegister]
    BY <2>1, ReadDone DEF Held, BoardReg, EchoRegister
  <2>3. EchoOf(p) <=> EchoBit(ch) \in call[c].kept[EchoRegister]
    BY <1>4, <2>2 DEF EchoOf, EchoRegister
  <2>4. Reply(c) = YesNo(EchoBit(ch) \in call[c].kept[EchoRegister])
    BY <1>9 DEF Reply, Cached
  <2> QED BY <1>9, <2>3, <2>4 DEF Setting, YesNo
<1>10. CASE name = "termination"
  <2>0. Family = "PCIe"
    BY <1>10 DEF SettingName
  <2>1. s = <<Read("MPIOLVL")>>
    BY <1>5, <1>10, <2>0, GetterSteps
  <2>2. call[c].kept["MPIOLVL"] = Pins(p[1])
    BY <1>4, <2>1, ReadDone DEF Held, BoardReg
  <2>3. Reply(c) = YesNo(ch \notin call[c].kept["MPIOLVL"])
    BY <1>10 DEF Reply, Cached
  <2> QED BY <1>10, <2>2, <2>3 DEF Setting
<1> QED BY <1>7, <1>8, <1>9, <1>10 DEF SettingName, Cached

-----------------------------------------------------------------------------
(* Start-up.                                                               *)

(* Where start-up sets a setting, and to what.                             *)
LEMMA Places ==
  ASSUME NEW name \in SettingName
  PROVE  /\ PlaceOf[name] \in 1..StepsPerPort - 1
         /\ \A i \in 1..StepsPerPort :
              serialfc_port_new[i].kind = "set" /\ serialfc_port_new[i].name = name <=> i = PlaceOf[name]
         /\ serialfc_port_new[PlaceOf[name]].arg =
              IF name = "sample_rate" THEN 16 ELSE IF name \in Level THEN 32
              ELSE IF name = "termination" THEN 1 ELSE 0
<1> DEFINE first == << Call("boot", "gpio", 0), Call("boot", "triggers", 0) >>
           last  == << Call("set", "rs485", 0),        Call("set", "sample_rate", 16),
                       Call("set", "tx_trigger", 32),  Call("set", "rx_trigger", 32),
                       Call("set", "termination", 1),  Call("set", "echo_cancel", 0),
                       Call("set", "isochronous", -1), Call("set", "frame_length", 1) >>
           At_(i) == serialfc_port_new[i]
           Found(i) == \/ i = PlaceOf["rs485"]       /\ At_(i) = Call("set", "rs485", 0)
                       \/ i = PlaceOf["sample_rate"] /\ At_(i) = Call("set", "sample_rate", 16)
                       \/ i = PlaceOf["tx_trigger"]  /\ At_(i) = Call("set", "tx_trigger", 32)
                       \/ i = PlaceOf["rx_trigger"]  /\ At_(i) = Call("set", "rx_trigger", 32)
                       \/ i = PlaceOf["termination"] /\ At_(i) = Call("set", "termination", 1)
                       \/ i = PlaceOf["echo_cancel"] /\ At_(i) = Call("set", "echo_cancel", 0)
                       \/ /\ i \notin {PlaceOf[n] : n \in {"rs485", "sample_rate", "tx_trigger", "rx_trigger",
                                                           "termination", "echo_cancel"}}
                          /\ At_(i) \in {Call("boot", "gpio", 0), Call("boot", "triggers", 0),
                                         Call("set", "clock_bits", 0), Call("set", "isochronous", -1),
                                         Call("set", "frame_length", 1)}
<1>1. CASE Family = "PCI"
  <2>1. serialfc_port_new = first \o <<Call("set", "clock_bits", 0)>> \o last
    BY <1>1 DEF serialfc_port_new
  <2>2. /\ At_(1) = Call("boot", "gpio", 0) /\ At_(2) = Call("boot", "triggers", 0)
        /\ At_(3) = Call("set", "clock_bits", 0) /\ At_(4) = Call("set", "rs485", 0)
        /\ At_(5) = Call("set", "sample_rate", 16) /\ At_(6) = Call("set", "tx_trigger", 32)
        /\ At_(7) = Call("set", "rx_trigger", 32) /\ At_(8) = Call("set", "termination", 1)
        /\ At_(9) = Call("set", "echo_cancel", 0) /\ At_(10) = Call("set", "isochronous", -1)
        /\ At_(11) = Call("set", "frame_length", 1)
    BY <2>1
  <2>3. /\ PlaceOf["rs485"] = 4 /\ PlaceOf["sample_rate"] = 5 /\ PlaceOf["tx_trigger"] = 6
        /\ PlaceOf["rx_trigger"] = 7 /\ PlaceOf["termination"] = 8 /\ PlaceOf["echo_cancel"] = 9
        /\ StepsPerPort = 11
    BY <1>1, StartUpLength DEF PlaceOf
  <2> HIDE DEF At_
  <2> QED BY <2>2, <2>3 DEF SettingName, Level, At_, Call
<1>2. CASE Family # "PCI"
  <2>1. serialfc_port_new = first \o << >> \o last
    BY <1>2 DEF serialfc_port_new
  <2>2. /\ At_(1) = Call("boot", "gpio", 0) /\ At_(2) = Call("boot", "triggers", 0)
        /\ At_(3) = Call("set", "rs485", 0)
        /\ At_(4) = Call("set", "sample_rate", 16) /\ At_(5) = Call("set", "tx_trigger", 32)
        /\ At_(6) = Call("set", "rx_trigger", 32) /\ At_(7) = Call("set", "termination", 1)
        /\ At_(8) = Call("set", "echo_cancel", 0) /\ At_(9) = Call("set", "isochronous", -1)
        /\ At_(10) = Call("set", "frame_length", 1)
    BY <2>1
  <2>3. /\ PlaceOf["rs485"] = 3 /\ PlaceOf["sample_rate"] = 4 /\ PlaceOf["tx_trigger"] = 5
        /\ PlaceOf["rx_trigger"] = 6 /\ PlaceOf["termination"] = 7 /\ PlaceOf["echo_cancel"] = 8
        /\ StepsPerPort = 10
    BY <1>2, StartUpLength DEF PlaceOf
  <2> HIDE DEF At_
  <2> QED BY <2>2, <2>3 DEF SettingName, Level, At_, Call
<1> QED BY <1>1, <1>2

(* The loader that sets a setting has not set it yet.                      *)
LEMMA LoaderSets ==
  ASSUME IInv, NEW k \in Card, NEW name \in SettingName, Sets(k, name)
  PROVE  ~Programmed(At(k), PlaceOf[name])
<1> DEFINE i == (boot[k] % StepsPerPort) + 1
<1>1. /\ At(k)[2] \in Nat /\ At(k) = <<k, At(k)[2]>> /\ i \in 1..StepsPerPort /\ boot[k] \in Nat
      /\ boot[k] + 1 = At(k)[2] * StepsPerPort + i
      /\ serialfc_port_new[i].kind = "set" /\ serialfc_port_new[i].name = name
  BY LoaderAt DEF IInv, Sets
<1>2. i = PlaceOf[name]
  BY <1>1, Places
<1>3. At(k)[1] = k
  BY <1>1
<1>4. StepsPerPort \in {10, 11}
  BY StartUpLength
<1> HIDE DEF i
<1>5. boot[k] < At(k)[2] * StepsPerPort + PlaceOf[name]
  <2>1. CASE StepsPerPort = 10
    BY <1>1, <1>2, <2>1
  <2>2. CASE StepsPerPort = 11
    BY <1>1, <1>2, <2>2
  <2> QED BY <1>4, <2>1, <2>2
<1>6. PlaceOf[name] \in Nat /\ At(k)[2] * StepsPerPort \in Nat
  <2>1. StepsPerPort \in Nat
    BY <1>4
  <2> QED BY <1>1, <2>1, Places
<1> QED BY <1>1, <1>3, <1>5, <1>6 DEF Programmed

(* A loader at work is at the port whose start-up has begun and is not over. *)
LEMMA LoaderPlace ==
  ASSUME IInv, NEW k \in Card, Busy(k), NEW p \in Port, p[1] = k, NEW m \in 1..StepsPerPort,
         Programmed(p, m), ~Ready(p)
  PROVE  At(k) = p
<1>1. /\ At(k)[2] \in Nat /\ At(k) = <<k, At(k)[2]>> /\ boot[k] \in Nat
      /\ boot[k] < (At(k)[2] + 1) * StepsPerPort
      /\ boot[k] >= At(k)[2] * StepsPerPort
  <2>1. /\ At(k)[2] \in Nat /\ At(k) = <<k, At(k)[2]>> /\ boot[k] \in Nat
        /\ boot[k] < (At(k)[2] + 1) * StepsPerPort
        /\ (boot[k] % StepsPerPort) + 1 \in 1..StepsPerPort
        /\ boot[k] + 1 = At(k)[2] * StepsPerPort + ((boot[k] % StepsPerPort) + 1)
    BY LoaderAt DEF IInv
  <2> DEFINE i == (boot[k] % StepsPerPort) + 1
             ch == At(k)[2]
  <2>2. i \in 1..StepsPerPort /\ boot[k] + 1 = ch * StepsPerPort + i
    BY <2>1
  <2>3. StepsPerPort \in {10, 11}
    BY StartUpLength
  <2> HIDE DEF i
  <2>4. boot[k] >= ch * StepsPerPort
    <3>1. CASE StepsPerPort = 10
      BY <2>1, <2>2, <3>1
    <3>2. CASE StepsPerPort = 11
      BY <2>1, <2>2, <3>2
    <3> QED BY <2>3, <3>1, <3>2
  <2> QED BY <2>1, <2>4
<1>2. p[2] \in Nat /\ p = <<p[1], p[2]>>
  BY Channels DEF Port
<1>3. boot[k] >= p[2] * StepsPerPort + m /\ ~(boot[k] >= (p[2] + 1) * StepsPerPort)
  BY DEF Programmed, Ready
<1>4. At(k)[2] = p[2]
  <2> DEFINE ch == At(k)[2]
             own == p[2]
             b == boot[k]
  <2>1. ch \in Nat /\ own \in Nat /\ b \in Nat /\ m \in 1..StepsPerPort
    BY <1>1, <1>2
  <2>2. b < (ch + 1) * StepsPerPort /\ b >= ch * StepsPerPort
        /\ b >= own * StepsPerPort + m /\ ~(b >= (own + 1) * StepsPerPort)
    BY <1>1, <1>3
  <2> HIDE DEF ch, own, b
  <2>3. ASSUME StepsPerPort = 10 PROVE ch = own
    BY <2>1, <2>2, <2>3
  <2>4. ASSUME StepsPerPort = 11 PROVE ch = own
    BY <2>1, <2>2, <2>4
  <2>5. ch = own
    BY <2>3, <2>4, StartUpLength
  <2> QED BY <2>5 DEF ch, own
<1> QED BY <1>1, <1>2, <1>4

(* The defaults are accepted.                                              *)
LEMMA DefaultDone ==
  ASSUME IInv, NEW c \in Caller, NEW name \in SettingName, Busy(c),
         call[c].kind = "set", call[c].name = name, call[c].arg = serialfc_port_new[PlaceOf[name]].arg
  PROVE  Sets(c, name) /\ Wanted(name, call[c].arg) = Defaults[name]
<1>1. call[c].arg = IF name = "sample_rate" THEN 16 ELSE IF name \in Level THEN 32
                    ELSE IF name = "termination" THEN 1 ELSE 0
  BY Places
<1>2. Wanted(name, call[c].arg) = Defaults[name]
  BY <1>1 DEF Wanted, Defaults, Switch, YesNo, SettingName, Level
<1>3. CASE name \in Level \cup {"sample_rate"}
  BY <1>1, <1>2, <1>3, DefaultsAccepted DEF Level
<1>4. CASE name \in {"rs485", "echo_cancel", "termination"}
  <2>1. call[c].status = 0
    BY <1>4, Rs485Steps, PinSteps DEF SettingName
  <2> QED BY <1>2, <2>1 DEF Sets
<1> QED BY <1>3, <1>4 DEF SettingName, Level

-----------------------------------------------------------------------------
(* The invariant of the settings.                                          *)

(* But for the divisor's and the clock chip's, a call writes each register *)
(* once.                                                                   *)
LEMMA WrittenOnce ==
  ASSUME IInv, NEW c \in Caller, Busy(c), ~Rewrites(c),
         NEW i \in 1..Len(call[c].steps), NEW j \in 1..Len(call[c].steps),
         call[c].steps[i].io = "write", call[c].steps[j].io = "write",
         call[c].steps[i].reg = call[c].steps[j].reg
  PROVE  i = j
<1> DEFINE s == call[c].steps
<1>1. call[c].name # "clock_bits" /\ ~OnDivisor(c)
  BY DEF Rewrites, OnDivisor
<1>2. CASE \E name \in BitSetting : Sets(c, name)
  BY <1>2, BitWrites
<1>3. CASE ~(\E name \in BitSetting : Sets(c, name))
  <2>1. OtherHandler(s)
    BY <1>1, <1>3, OtherSteps
  <2>2. Plain(s)
    BY <1>1, BusyShape DEF IInv
  <2>3. i = j \/ s[i].reg = "LCR"
    BY <2>1, OtherWrites
  <2> QED BY <2>2, <2>3 DEF Plain
<1> QED BY <1>2, <1>3

(* The accesses that a call has made are among its handler's.              *)
LEMMA Made ==
  ASSUME IInv, NEW c \in Caller, Busy(c), NEW i \in 1..call[c].pc - 1
  PROVE  /\ i \in 1..Len(call[c].steps)
         /\ call[c].steps[i].io \in BitIo => call[c].steps[i].reg \in UartReg \cup BoardReg
<1>1. /\ call[c].steps \in Seq(Accesses) /\ Len(call[c].steps) \in Nat /\ call[c].pc \in Nat
      /\ call[c].pc <= Len(call[c].steps) + 1
  BY CallFacts DEF IInv, Served
<1>2. i \in 1..Len(call[c].steps)
  BY <1>1
<1>3. call[c].steps[i] \in Accesses
  BY <1>1, <1>2
<1> QED BY <1>2, <1>3 DEF Accesses

(* An access leaves the registers that other calls under way have read and *)
(* written as they are.                                                    *)
LEMMA OthersHeld ==
  ASSUME IInv, AloneOnCard, NEW c \in Caller, Perform(c), NEW d \in Caller, d # c, Busy(d),
         NEW r \in UartReg \cup BoardReg
  PROVE  Held(At(d), r)' = Held(At(d), r) /\ At(d)[1] # At(c)[1]
<1>1. Busy(c) /\ At(c) \in Port /\ At(d) \in Port /\ At(d)[1] \in Card /\ At(d)' = At(d)
  BY Turns, CallFacts, PerformedCalls DEF Turn, IInv
<1>2. At(d)[1] # At(c)[1]
  BY <1>1 DEF AloneOnCard
<1>3. CASE r \in BoardReg
  BY <1>1, <1>2, <1>3, PerformedHardware DEF Held
<1>4. CASE r \notin BoardReg
  BY <1>1, <1>2, <1>4, PerformedHardware DEF Held
<1> QED BY <1>2, <1>3, <1>4

(* The call's own registers after its access.                              *)
LEMMA OwnHeld ==
  ASSUME IInv, NEW c \in Caller, Perform(c), NEW r \in UartReg \cup BoardReg
  PROVE  Held(At(c), r)' = IF Pending(c).io = "write" /\ Pending(c).reg = r
                           THEN (call[c].kept[r] \ Pending(c).off) \cup Pending(c).on
                           ELSE Held(At(c), r)
<1>1. Busy(c) /\ At(c) \in Port /\ At(c)[1] \in Card /\ At(c)' = At(c)
  BY Turns DEF Turn
<1>2. Pending(c).reg = r => Derived(c) = (call[c].kept[r] \ Pending(c).off) \cup Pending(c).on
  BY DEF Derived
<1>3. Held(At(c), r)' = IF Pending(c).io = "write" /\ Pending(c).reg = r THEN Derived(c) ELSE Held(At(c), r)
  <2>1. CASE r \in BoardReg
    <3>1. board'[At(c)[1]][r] = IF Pending(c).io = "write" /\ Pending(c).reg = r
                                THEN Derived(c) ELSE board[At(c)[1]][r]
      BY <1>1, <2>1, PerformedHardware
    <3> QED BY <1>1, <2>1, <3>1 DEF Held
  <2>2. CASE r \notin BoardReg
    <3>1. uart'[At(c)][r] = IF Pending(c).io = "write" /\ Pending(c).reg = r
                            THEN Derived(c) ELSE uart[At(c)][r]
      BY <1>1, <2>2, PerformedHardware
    <3> QED BY <1>1, <2>2, <3>1 DEF Held
  <2> QED BY <2>1, <2>2
<1> QED BY <1>2, <1>3

(* An access keeps copies and registers together.                          *)
LEMMA PerformCopies ==
  ASSUME IInv, AloneOnCard, CopiesFollow, NEW c \in Caller, Perform(c)
  PROVE  CopiesFollow'
<1> SUFFICES ASSUME NEW d \in Caller, Busy(d)', NEW i \in 1..call'[d].pc - 1,
                    call'[d].steps[i].io = "read", NEW r, r = call'[d].steps[i].reg
             PROVE  call'[d].kept[r] \ OwnBits(call'[d].steps, r) = Held(At(d), r)' \ OwnBits(call'[d].steps, r)
  BY DEF CopiesFollow
<1> DEFINE s == call[c].steps
           n == call[c].pc
           a == Pending(c)
<1>1. /\ Busy(c) /\ n \in 1..Len(s) /\ a = s[n] /\ Len(s) \in Nat /\ n \in Nat
      /\ At(c)' = At(c) /\ call'[c].steps = s /\ call'[c].pc = n + 1
  BY Turns DEF Turn
<1>2. Busy(d) /\ At(d)' = At(d) /\ (d # c => call'[d] = call[d])
  BY PerformedCalls
<1>3. CASE d # c
  <2>1. call'[d] = call[d] /\ i \in 1..call[d].pc - 1 /\ call[d].steps[i].io = "read"
        /\ r = call[d].steps[i].reg
    BY <1>2, <1>3
  <2>2. r \in UartReg \cup BoardReg
    BY <1>2, <2>1, Made DEF BitIo
  <2>3. Held(At(d), r)' = Held(At(d), r)
    BY <1>2, <1>3, <2>2, OthersHeld
  <2>4. call[d].kept[r] \ OwnBits(call[d].steps, r) = Held(At(d), r) \ OwnBits(call[d].steps, r)
    BY <1>2, <2>1 DEF CopiesFollow
  <2> QED BY <2>1, <2>3, <2>4
<1>4. CASE d = c
  <2> DEFINE own == OwnBits(s, r)
  <2>1. i \in 1..n /\ i \in 1..Len(s) /\ s[i].io = "read" /\ r = s[i].reg
    BY <1>1, <1>4
  <2>2. r \in UartReg \cup BoardReg
    <3>1. call[c].steps \in Seq(Accesses)
      BY CallFacts DEF IInv
    <3>2. s[i] \in Accesses
      BY <2>1, <3>1
    <3> QED BY <2>1, <3>2 DEF Accesses, BitIo
  <2>3. /\ a.io = "read" => call'[c].kept = [call[c].kept EXCEPT ![a.reg] = Held(At(c), a.reg)]
        /\ a.io # "read" => call'[c].kept = call[c].kept
        /\ call[c].kept \in [UartReg \cup BoardReg -> SUBSET Bits]
    <3>1. call[c] \in CallRecord
      BY CallFacts DEF IInv
    <3> QED BY <3>1, PerformedCalls DEF Locals, CallRecord
  <2>4. Held(At(c), r)' = IF a.io = "write" /\ a.reg = r
                          THEN (call[c].kept[r] \ a.off) \cup a.on ELSE Held(At(c), r)
    BY <2>2, OwnHeld
  <2>5. CASE a.io = "read" /\ a.reg = r
    BY <1>1, <1>4, <2>2, <2>3, <2>4, <2>5
  <2>6. CASE ~(a.io = "read" /\ a.reg = r)
    <3>1. call'[c].kept[r] = call[c].kept[r]
      BY <2>2, <2>3, <2>6
    <3>2. i # n
      BY <1>1, <2>1, <2>6
    <3>3. call[c].kept[r] \ own = Held(At(c), r) \ own
      <4>1. i \in 1..n - 1
        BY <1>1, <2>1, <3>2
      <4> QED BY <1>1, <2>1, <4>1 DEF CopiesFollow
    <3>4. CASE a.io = "write" /\ a.reg = r
      <4>1. a.on \subseteq own /\ a.off \subseteq own
        <5>1. n \in {j \in 1..Len(s) : s[j].io = "write" /\ s[j].reg = r}
          BY <1>1, <3>4
        <5>2. s[n].on \cup s[n].off \in
                {s[j].on \cup s[j].off : j \in {l \in 1..Len(s) : s[l].io = "write" /\ s[l].reg = r}}
          BY <5>1
        <5> QED BY <1>1, <5>2 DEF OwnBits
      <4>2. Held(At(c), r)' \ own = call[c].kept[r] \ own
        BY <2>4, <3>4, <4>1
      <4> QED BY <1>1, <1>4, <3>1, <4>2
    <3>5. CASE ~(a.io = "write" /\ a.reg = r)
      BY <1>1, <1>4, <2>4, <3>1, <3>3, <3>5
    <3> QED BY <3>4, <3>5
  <2> QED BY <2>5, <2>6
<1> QED BY <1>3, <1>4

(* An access keeps what the calls under way have written.                  *)
LEMMA PerformWrites ==
  ASSUME IInv, AloneOnCard, WritesStand, NEW c \in Caller, Perform(c)
  PROVE  WritesStand'
<1> SUFFICES ASSUME NEW d \in Caller, Busy(d)', ~Rewrites(d)', NEW i \in 1..call'[d].pc - 1, NEW b,
                    b = call'[d].steps[i], b.io = "write", NEW r, r = b.reg
             PROVE  Held(At(d), r)' \cap (b.on \cup b.off) = b.on
  BY DEF WritesStand
<1> DEFINE s == call[c].steps
           n == call[c].pc
           a == Pending(c)
<1>1. /\ Busy(c) /\ n \in 1..Len(s) /\ a = s[n] /\ Len(s) \in Nat /\ n \in Nat
      /\ At(c)' = At(c) /\ call'[c].steps = s /\ call'[c].pc = n + 1
  BY Turns DEF Turn
<1>2. Busy(d) /\ At(d)' = At(d) /\ ~Rewrites(d) /\ (d # c => call'[d] = call[d])
  BY PerformedCalls DEF Rewrites
<1>3. CASE d # c
  <2>1. call'[d] = call[d] /\ i \in 1..call[d].pc - 1 /\ b = call[d].steps[i]
    BY <1>2, <1>3
  <2>2. r \in UartReg \cup BoardReg
    BY <1>2, <2>1, Made DEF BitIo
  <2>3. Held(At(d), r)' = Held(At(d), r)
    BY <1>2, <1>3, <2>2, OthersHeld
  <2>4. Held(At(d), r) \cap (b.on \cup b.off) = b.on
    BY <1>2, <2>1 DEF WritesStand
  <2> QED BY <2>3, <2>4
<1>4. CASE d = c
  <2>1. i \in 1..n /\ i \in 1..Len(s) /\ b = s[i]
    <3>1. call'[d].pc = n + 1 /\ call'[d].steps = s
      BY <1>1, <1>4
    <3> HIDE DEF s, n
    <3>2. i \in 1..n
      BY <1>1, <3>1
    <3> QED BY <1>1, <3>1, <3>2
  <2>2. r \in UartReg \cup BoardReg
    <3>1. call[c].steps \in Seq(Accesses)
      BY CallFacts DEF IInv
    <3>2. s[i] \in Accesses
      BY <2>1, <3>1
    <3> QED BY <2>1, <3>2 DEF Accesses, BitIo
  <2>3. Held(At(c), r)' = IF a.io = "write" /\ a.reg = r
                          THEN (call[c].kept[r] \ a.off) \cup a.on ELSE Held(At(c), r)
    BY <2>2, OwnHeld
  <2>4. CASE i = n
    <3>1. a = b
      BY <1>1, <2>1, <2>4
    <3>2. Held(At(c), r)' = (call[c].kept[r] \ b.off) \cup b.on
      BY <2>3, <3>1
    <3>3. Held(At(c), r)' \cap (b.on \cup b.off) = b.on
      BY <3>2
    <3> QED BY <1>4, <3>3
  <2>5. CASE i # n
    <3>1. i \in 1..n - 1
      BY <1>1, <2>1, <2>5
    <3>2. ~(a.io = "write" /\ a.reg = r)
      BY <1>1, <1>2, <1>4, <2>1, <2>5, WrittenOnce
    <3>3. Held(At(c), r) \cap (b.on \cup b.off) = b.on
      BY <1>1, <1>2, <1>4, <2>1, <3>1 DEF WritesStand
    <3> QED BY <1>4, <2>3, <3>2, <3>3
  <2> QED BY <2>4, <2>5
<1> QED BY <1>3, <1>4

(* The last access of a load of the clock chip puts the pins back.         *)
LEMMA PerformPins ==
  ASSUME IInv, AloneOnCard, PinsReturned, NEW c \in Caller, Perform(c)
  PROVE  PinsReturned'
<1> SUFFICES ASSUME NEW d \in Caller, Borrows(d, At(d)[1])', call'[d].pc > Len(call'[d].steps)
             PROVE  board'[At(d)'[1]]["MPIOLVL"] = call'[d].kept["MPIOLVL"]
  BY DEF PinsReturned
<1> DEFINE s == call[c].steps
           n == call[c].pc
           a == Pending(c)
<1>1. /\ Busy(c) /\ n \in 1..Len(s) /\ a = s[n] /\ Len(s) \in Nat /\ n \in Nat /\ At(c)[1] \in Card
      /\ At(c)' = At(c) /\ call'[c].steps = s /\ call'[c].pc = n + 1 /\ call'[c].name = call[c].name
  BY Turns, PerformedCalls DEF Turn
<1>2. Busy(d) /\ At(d)' = At(d) /\ (d # c => call'[d] = call[d])
  BY PerformedCalls DEF Borrows
<1>3. CASE d # c
  <2>1. call'[d] = call[d] /\ Borrows(d, At(d)[1])
    BY <1>2, <1>3 DEF Borrows
  <2>2. board[At(d)[1]]["MPIOLVL"] = call[d].kept["MPIOLVL"]
    BY <2>1 DEF PinsReturned
  <2>3. Held(At(d), "MPIOLVL")' = Held(At(d), "MPIOLVL")
    BY <1>2, <1>3, OthersHeld DEF BoardReg
  <2> QED BY <1>2, <2>1, <2>2, <2>3 DEF Held, BoardReg
<1>4. CASE d = c
  <2>1. n = Len(s) /\ call[c].name = "clock_bits" /\ s # << >>
    BY <1>1, <1>4 DEF Borrows
  <2>2. a = Restore("MPIOLVL")
    <3>1. Len(s) = 10 /\ s[10] = Restore("MPIOLVL")
      BY <1>1, <2>1, ClockSteps
    <3> HIDE DEF s, n, a
    <3> QED BY <1>1, <2>1, <3>1
  <2>3. a.io = "write" /\ a.reg = "MPIOLVL" /\ a.on = {} /\ a.off = {}
    BY <2>2 DEF Restore, Write, Access
  <2>4. Held(At(c), "MPIOLVL")' = call[c].kept["MPIOLVL"]
    BY <2>3, OwnHeld DEF BoardReg
  <2>5. call'[c].kept = call[c].kept
    BY <2>3, PerformedCalls DEF Locals
  <2> QED BY <1>1, <1>4, <2>4, <2>5 DEF Held, BoardReg
<1> QED BY <1>3, <1>4

(* An access keeps the invariant of the settings.                          *)
LEMMA PerformSettings ==
  ASSUME IInv, BoardHeld, SettingsHeld, NEW c \in Caller, Perform(c)
  PROVE  SettingsHeld'
<1>1. AloneOnCard /\ CopiesFollow /\ WritesStand /\ PinsReturned /\ Rs485Whole /\ DefaultsGiven
  BY DEF BoardHeld, SettingsHeld
<1>2. /\ Busy(c) /\ At(c) \in Port /\ At(c)[2] \in Channel /\ boot' = boot
      /\ \A d \in Caller : At(d)' = At(d) /\ Sets(d, "rs485")' = Sets(d, "rs485")
  <2>1. \A d \in Caller : /\ Busy(d)' = Busy(d) /\ At(d)' = At(d)
                          /\ call'[d].kind = call[d].kind /\ call'[d].name = call[d].name
                          /\ call'[d].status = call[d].status
    BY PerformedCalls
  <2>2. Busy(c) /\ At(c) \in Port /\ At(c)[2] \in Channel
    BY Turns DEF Turn
  <2> QED BY <2>1, <2>2, PerformedCalls DEF Sets
<1>3. CopiesFollow' /\ WritesStand' /\ PinsReturned'
  BY <1>1, PerformCopies, PerformWrites, PerformPins
<1>4. Rs485Whole'
  <2> SUFFICES ASSUME NEW p \in Port, Programmed(p, PlaceOf["rs485"])',
                      \A d \in Caller : At(d)' = p => ~Sets(d, "rs485")'
               PROVE  Rs485(p)' # Torn
    BY DEF Rs485Whole
  <2>1. Programmed(p, PlaceOf["rs485"]) /\ \A d \in Caller : At(d) = p => ~Sets(d, "rs485")
    BY <1>2 DEF Programmed
  <2>2. Rs485(p) # Torn
    BY <1>1, <2>1 DEF Rs485Whole
  <2>3. "rs485" \in SettingName /\ "rs485" \notin BoardWide
    BY DEF SettingName, BoardWide
  <2>4. Setting(p)'["rs485"] = Setting(p)["rs485"]
    BY <1>1, <1>2, <2>1, <2>3, PerformChanges DEF Shares
  <2>5. Setting(p)["rs485"] = Rs485(p) /\ Setting(p)'["rs485"] = Rs485(p)'
    BY <2>3 DEF Setting
  <2> QED BY <2>2, <2>4, <2>5
<1>5. DefaultsGiven'
  <2> SUFFICES ASSUME NEW p \in Port, NEW name \in SettingName, ~Ready(p)', Programmed(p, PlaceOf[name])'
               PROVE  \/ Setting(p)'[name] = Defaults[name]
                      \/ name \in BoardWide /\ \E channel \in Channel : Ready(<<p[1], channel>>)'
    BY DEF DefaultsGiven
  <2>1. ~Ready(p) /\ Programmed(p, PlaceOf[name])
    BY <1>2 DEF Ready, Programmed
  <2>2. ASSUME NEW channel \in Channel, Ready(<<p[1], channel>>) PROVE Ready(<<p[1], channel>>)'
    BY <1>2, <2>2 DEF Ready
  <2>3. CASE Setting(p)'[name] = Setting(p)[name]
    BY <1>1, <2>1, <2>2, <2>3 DEF DefaultsGiven
  <2>4. CASE Setting(p)'[name] # Setting(p)[name]
    <3>1. Sets(c, name) /\ Shares(At(c), p, name)
      BY <1>1, <2>4, PerformChanges
    <3>2. CASE c \in User
      <4>1. Ready(At(c)) /\ At(c) = <<At(c)[1], At(c)[2]>>
        BY <1>2, <3>2, Asked, CallFacts DEF IInv
      <4>2. name \in BoardWide /\ p[1] = At(c)[1]
        BY <2>1, <3>1, <4>1 DEF Shares
      <4> QED BY <1>2, <2>2, <4>1, <4>2
    <3>3. CASE c \in Card
      <4>1. At(c)[1] = c
        BY <1>2, <3>3, LoaderAt DEF IInv
      <4>2. p[1] = c
        BY <3>1, <4>1 DEF Shares
      <4>3. PlaceOf[name] \in 1..StepsPerPort
        BY Places, StartUpLength
      <4>4. At(c) = p
        BY <1>2, <2>1, <3>3, <4>2, <4>3, LoaderPlace
      <4> QED BY <2>1, <3>1, <3>3, <4>4, LoaderSets
    <3> QED BY <3>2, <3>3 DEF Caller
  <2> QED BY <2>3, <2>4
<1> QED BY <1>3, <1>4, <1>5 DEF SettingsHeld

(* Registers and pins that stay the same hold the same settings.           *)
LEMMA SettingSame ==
  ASSUME NEW p \in Port, board' = board, byte' = byte,
         uart'[p]["FCTR"] = uart[p]["FCTR"], uart'[p]["MCR"] = uart[p]["MCR"],
         Pins(p[1])' = Pins(p[1])
  PROVE  Setting(p)' = Setting(p)
<1>1. SampleRate(p)' = SampleRate(p)
  BY DEF SampleRate
<1>2. Rs485(p)' = Rs485(p)
  BY DEF Rs485, YesNo
<1>3. YesNo(EchoOf(p))' = YesNo(EchoOf(p))
  BY DEF EchoOf, YesNo
<1>4. YesNo(p[2] \notin Pins(p[1]))' = YesNo(p[2] \notin Pins(p[1]))
  BY DEF YesNo
<1> QED BY <1>1, <1>2, <1>3, <1>4 DEF Setting

(* Beginning a call changes no setting.                                    *)
LEMMA EnterSame ==
  ASSUME IInv, NEW c \in Caller, NEW p, NEW request, NEW h, Enters(c, p, request, h),
         NEW q \in Port
  PROVE  Setting(q)' = Setting(q)
<1>1. /\ \A d \in Caller : d # c => call'[d] = call[d]
      /\ ~Busy(c) /\ call'[c].pc = 1
  BY EnteredCalls
<1>2. \A k \in Card, d \in Caller :
        Borrows(d, k)' = Borrows(d, k) /\ (Borrows(d, k) => call'[d] = call[d])
  <2> SUFFICES ASSUME NEW k \in Card, NEW d \in Caller
               PROVE  Borrows(d, k)' = Borrows(d, k) /\ (Borrows(d, k) => call'[d] = call[d])
    OBVIOUS
  <2>1. CASE d = c
    BY <1>1, <2>1 DEF Borrows
  <2>2. CASE d # c
    BY <1>1, <2>2 DEF Borrows, Busy, At
  <2> QED BY <2>1, <2>2
<1>3. q[1] \in Card /\ UNCHANGED <<uart, byte, board>>
  BY DEF Port, Enters
<1>4. Pins(q[1])' = Pins(q[1])
  BY <1>2, <1>3, PinsSame
<1> QED BY <1>3, <1>4, SettingSame

(* Nor does returning from it: pins borrowed are back.                     *)
LEMMA ReturnSame ==
  ASSUME IInv, AloneOnCard, PinsReturned, NEW c \in Caller, Return(c), NEW q \in Port
  PROVE  Setting(q)' = Setting(q)
<1>1. /\ \A d \in Caller : d # c => call'[d] = call[d] /\ Busy(d)' = Busy(d) /\ At(d)' = At(d)
      /\ Busy(c) /\ ~Busy(c)' /\ At(c)[1] \in Card
      /\ Len(call[c].steps) \in Nat /\ call[c].pc = Len(call[c].steps) + 1
      /\ UNCHANGED <<uart, byte, board>>
  BY ReturnedCalls, CallFacts DEF IInv
<1>2. q[1] \in Card
  BY DEF Port
<1>3. CASE q[1] = At(c)[1]
  <2>1. Pins(q[1]) = board[q[1]]["MPIOLVL"]
    <3>1. CASE Borrows(c, At(c)[1])
      BY <1>1, <1>3, <3>1, PinsOwn DEF PinsReturned
    <3>2. CASE ~Borrows(c, At(c)[1])
      BY <1>1, <1>3, <3>2, PinsOwn
    <3> QED BY <3>1, <3>2
  <2>2. \A d \in Caller : ~Borrows(d, q[1])'
    BY <1>1, <1>3 DEF AloneOnCard, Borrows
  <2>3. Pins(q[1])' = board'[q[1]]["MPIOLVL"]
    BY <2>2 DEF Pins
  <2> QED BY <1>1, <2>1, <2>3, SettingSame
<1>4. CASE q[1] # At(c)[1]
  <2>1. \A d \in Caller :
          Borrows(d, q[1])' = Borrows(d, q[1]) /\ (Borrows(d, q[1]) => call'[d] = call[d])
    <3> SUFFICES ASSUME NEW d \in Caller
                 PROVE  Borrows(d, q[1])' = Borrows(d, q[1]) /\ (Borrows(d, q[1]) => call'[d] = call[d])
      OBVIOUS
    <3>1. CASE d = c
      BY <1>1, <1>4, <3>1 DEF Borrows
    <3>2. CASE d # c
      BY <1>1, <3>2 DEF Borrows
    <3> QED BY <3>1, <3>2
  <2>2. Pins(q[1])' = Pins(q[1])
    BY <1>1, <1>2, <2>1, PinsSame
  <2> QED BY <1>1, <2>2, SettingSame
<1> QED BY <1>3, <1>4

(* Nor do the line parameters that the tty driver sets.                    *)
LEMMA TtySame ==
  ASSUME IInv, NEW p \in Port, NEW v, TtySetLine(p, v), NEW q \in Port
  PROVE  /\ uart'[q]["FCTR"] = uart[q]["FCTR"] /\ uart'[q]["MCR"] = uart[q]["MCR"]
         /\ q # p => uart'[q] = uart[q]
         /\ Setting(q)' = Setting(q)
<1>1. /\ uart \in [Port -> [UartReg -> SUBSET Bits]]
      /\ uart' = [uart EXCEPT ![p]["LCR"] = v]
      /\ UNCHANGED <<byte, board, call>>
  BY DEF IInv, TypeOK, TtySetLine
<1>2. /\ uart'[q]["FCTR"] = uart[q]["FCTR"] /\ uart'[q]["MCR"] = uart[q]["MCR"]
      /\ q # p => uart'[q] = uart[q]
  BY <1>1 DEF UartReg
<1>3. Pins(q[1])' = Pins(q[1])
  <2>1. q[1] \in Card
    BY DEF Port
  <2>2. \A d \in Caller :
          Borrows(d, q[1])' = Borrows(d, q[1]) /\ (Borrows(d, q[1]) => call'[d] = call[d])
    BY <1>1 DEF Borrows, Busy, At
  <2> QED BY <1>1, <2>1, <2>2, PinsSame
<1> QED BY <1>1, <1>2, <1>3, SettingSame

(* Nor does a step that does nothing.                                      *)
LEMMA StutterSame ==
  ASSUME UNCHANGED <<uart, byte, board, call>>, NEW q \in Port
  PROVE  Setting(q)' = Setting(q)
<1>1. Pins(q[1])' = Pins(q[1])
  <2>1. q[1] \in Card
    BY DEF Port
  <2>2. \A d \in Caller :
          Borrows(d, q[1])' = Borrows(d, q[1]) /\ (Borrows(d, q[1]) => call'[d] = call[d])
    BY DEF Borrows, Busy, At
  <2> QED BY <2>1, <2>2, PinsSame
<1> QED BY <1>1, SettingSame

(* Steps that leave board and ports of the calls under way alone keep what *)
(* those have read and written.                                            *)
LEMMA StillHeld ==
  ASSUME CopiesFollow, WritesStand, PinsReturned, board' = board,
         \A d \in Caller : Busy(d)' =>
           \/ call'[d].pc = 1
           \/ call'[d] = call[d] /\ uart'[At(d)] = uart[At(d)]
  PROVE  CopiesFollow' /\ WritesStand' /\ PinsReturned'
<1>1. ASSUME NEW d \in Caller, Busy(d)', NEW i \in 1..call'[d].pc - 1, NEW r
      PROVE  /\ call'[d] = call[d] /\ Busy(d) /\ At(d)' = At(d) /\ i \in 1..call[d].pc - 1
             /\ Held(At(d), r)' = Held(At(d), r)
  <2>1. call'[d].pc # 1
    BY <1>1
  <2>2. call'[d] = call[d] /\ uart'[At(d)] = uart[At(d)]
    BY <1>1, <2>1
  <2>3. At(d)' = At(d) /\ Busy(d)
    BY <1>1, <2>2 DEF At, Busy
  <2> QED BY <1>1, <2>2, <2>3 DEF Held
<1>2. CopiesFollow'
  <2> SUFFICES ASSUME NEW d \in Caller, Busy(d)', NEW i \in 1..call'[d].pc - 1,
                      call'[d].steps[i].io = "read", NEW r, r = call'[d].steps[i].reg
               PROVE  call'[d].kept[r] \ OwnBits(call'[d].steps, r) = Held(At(d), r)' \ OwnBits(call'[d].steps, r)
    BY DEF CopiesFollow
  <2>1. /\ call'[d] = call[d] /\ Busy(d) /\ i \in 1..call[d].pc - 1
        /\ Held(At(d), r)' = Held(At(d), r)
    BY <1>1
  <2> QED BY <2>1 DEF CopiesFollow
<1>3. WritesStand'
  <2> SUFFICES ASSUME NEW d \in Caller, Busy(d)', ~Rewrites(d)', NEW i \in 1..call'[d].pc - 1, NEW b,
                      b = call'[d].steps[i], b.io = "write", NEW r, r = b.reg
               PROVE  Held(At(d), r)' \cap (b.on \cup b.off) = b.on
    BY DEF WritesStand
  <2>1. /\ call'[d] = call[d] /\ Busy(d) /\ i \in 1..call[d].pc - 1
        /\ Held(At(d), r)' = Held(At(d), r)
    BY <1>1
  <2>2. ~Rewrites(d)
    BY <2>1 DEF Rewrites
  <2> QED BY <2>1, <2>2 DEF WritesStand
<1>4. PinsReturned'
  <2> SUFFICES ASSUME NEW d \in Caller, Borrows(d, At(d)[1])', call'[d].pc > Len(call'[d].steps)
               PROVE  board'[At(d)'[1]]["MPIOLVL"] = call'[d].kept["MPIOLVL"]
    BY DEF PinsReturned
  <2>1. call'[d] = call[d] /\ Busy(d) /\ At(d)' = At(d)
    BY DEF Borrows, Busy, At
  <2>2. Borrows(d, At(d)[1])
    BY <2>1 DEF Borrows
  <2> QED BY <2>1, <2>2 DEF PinsReturned
<1> QED BY <1>2, <1>3, <1>4

(* Beginning a call keeps the invariant of the settings.                   *)
LEMMA EnterSettings ==
  ASSUME IInv, BoardHeld, SettingsHeld, NEW c \in Caller, NEW p, NEW request, NEW h,
         Enters(c, p, request, h)
  PROVE  SettingsHeld'
<1>1. CopiesFollow /\ WritesStand /\ PinsReturned /\ Rs485Whole /\ DefaultsGiven
  BY DEF SettingsHeld
<1>2. /\ \A d \in Caller : d # c => call'[d] = call[d] /\ At(d)' = At(d)
      /\ ~Busy(c) /\ call'[c].pc = 1
  BY EnteredCalls
<1>3. UNCHANGED <<uart, board, boot>>
  BY DEF Enters
<1>4. CopiesFollow' /\ WritesStand' /\ PinsReturned'
  BY <1>1, <1>2, <1>3, StillHeld
<1>5. \A q \in Port : Setting(q)' = Setting(q)
  BY EnterSame
<1>6. Rs485Whole'
  <2> SUFFICES ASSUME NEW q \in Port, Programmed(q, PlaceOf["rs485"])',
                      \A d \in Caller : At(d)' = q => ~Sets(d, "rs485")'
               PROVE  Rs485(q)' # Torn
    BY DEF Rs485Whole
  <2>1. Programmed(q, PlaceOf["rs485"])
    BY <1>3 DEF Programmed
  <2>2. \A d \in Caller : At(d) = q => ~Sets(d, "rs485")
    BY <1>2 DEF Sets, Busy
  <2>3. Rs485(q) # Torn
    BY <1>1, <2>1, <2>2 DEF Rs485Whole
  <2>4. Setting(q)["rs485"] = Rs485(q) /\ Setting(q)'["rs485"] = Rs485(q)'
    BY DEF Setting, SettingName
  <2> QED BY <1>5, <2>3, <2>4
<1>7. DefaultsGiven'
  BY <1>1, <1>3, <1>5 DEF DefaultsGiven, Ready, Programmed
<1> QED BY <1>4, <1>6, <1>7 DEF SettingsHeld

(* So does returning: what a call has set, or start-up's call has given,   *)
(* is there.                                                               *)
LEMMA ReturnSettings ==
  ASSUME IInv, BoardHeld, SettingsHeld, NEW c \in Caller, Return(c)
  PROVE  SettingsHeld'
<1>1. AloneOnCard /\ CopiesFollow /\ WritesStand /\ PinsReturned /\ Rs485Whole /\ DefaultsGiven
  BY DEF BoardHeld, SettingsHeld
<1>2. /\ \A d \in Caller : d # c => call'[d] = call[d] /\ At(d)' = At(d)
      /\ Busy(c) /\ ~Busy(c)' /\ call[c].pc = Len(call[c].steps) + 1
      /\ UNCHANGED <<uart, byte, board>>
  BY ReturnedCalls
<1>3. \A q \in Port : Setting(q)' = Setting(q)
  BY <1>1, ReturnSame
<1>4. \A q \in Port : Ready(q) => Ready(q)'
  <2>1. \A k \in Card : boot'[k] \in Nat /\ boot[k] \in Nat /\ boot'[k] >= boot[k]
    <3>1. boot \in [Card -> 0..NumPorts * StepsPerPort]
      BY DEF IInv, TypeOK
    <3>2. NumPorts * StepsPerPort \in Nat
      BY Channels, StartUpLength
    <3> QED BY <3>1, <3>2, ReturnedMemory
  <2> SUFFICES ASSUME NEW q \in Port, Ready(q) PROVE Ready(q)'
    OBVIOUS
  <2>2. q[1] \in Card /\ q[2] \in Nat /\ StepsPerPort \in Nat
    BY Channels, StartUpLength DEF Port
  <2>3. (q[2] + 1) * StepsPerPort \in Nat
    BY <2>2
  <2> QED BY <2>1, <2>2, <2>3 DEF Ready
<1>5. CopiesFollow' /\ WritesStand' /\ PinsReturned'
  <2>1. \A d \in Caller : Busy(d)' => call'[d] = call[d]
    BY <1>2
  <2> QED BY <1>1, <1>2, <2>1, StillHeld
<1>6. \A name \in SettingName : PlaceOf[name] \in 1..StepsPerPort
  BY Places, StartUpLength
<1>7. ASSUME NEW q \in Port, NEW name \in SettingName,
             Programmed(q, PlaceOf[name])', ~Programmed(q, PlaceOf[name])
      PROVE  At(c) = q /\ Sets(c, name) /\ Setting(q)[name] = Defaults[name]
  <2>1. /\ At(c) = q /\ call[c].kind = serialfc_port_new[PlaceOf[name]].kind
        /\ call[c].name = serialfc_port_new[PlaceOf[name]].name
        /\ call[c].arg = serialfc_port_new[PlaceOf[name]].arg
    BY <1>6, <1>7, NewlyProgrammed
  <2>2. serialfc_port_new[PlaceOf[name]].kind = "set" /\ serialfc_port_new[PlaceOf[name]].name = name
    BY <1>6, Places
  <2>3. Sets(c, name) /\ Wanted(name, call[c].arg) = Defaults[name]
    BY <1>2, <2>1, <2>2, DefaultDone
  <2> QED BY <1>1, <1>2, <2>1, <2>3, SetDone
<1>8. Rs485Whole'
  <2> SUFFICES ASSUME NEW q \in Port, Programmed(q, PlaceOf["rs485"])',
                      \A d \in Caller : At(d)' = q => ~Sets(d, "rs485")'
               PROVE  Rs485(q)' # Torn
    BY DEF Rs485Whole
  <2>0. "rs485" \in SettingName
    BY DEF SettingName
  <2>1. CASE At(c) = q /\ Sets(c, "rs485")
    <3>1. Setting(q)["rs485"] = Wanted("rs485", call[c].arg)
      BY <1>1, <1>2, <2>0, <2>1, SetDone
    <3>2. Wanted("rs485", call[c].arg) # Torn
      BY DEF Wanted, Switch, YesNo, Torn
    <3>3. Setting(q)'["rs485"] = Rs485(q)'
      BY <2>0 DEF Setting
    <3> QED BY <1>3, <3>1, <3>2, <3>3
  <2>2. CASE ~(At(c) = q /\ Sets(c, "rs485"))
    <3>1. Programmed(q, PlaceOf["rs485"])
      BY <1>7, <2>0, <2>2
    <3>2. \A d \in Caller : At(d) = q => ~Sets(d, "rs485")
      BY <1>2, <2>2 DEF Sets, Busy
    <3>3. Rs485(q) # Torn
      BY <1>1, <3>1, <3>2 DEF Rs485Whole
    <3>4. Setting(q)["rs485"] = Rs485(q) /\ Setting(q)'["rs485"] = Rs485(q)'
      BY <2>0 DEF Setting
    <3> QED BY <1>3, <3>3, <3>4
  <2> QED BY <2>1, <2>2
<1>9. DefaultsGiven'
  <2> SUFFICES ASSUME NEW q \in Port, NEW name \in SettingName, ~Ready(q)', Programmed(q, PlaceOf[name])'
               PROVE  \/ Setting(q)'[name] = Defaults[name]
                      \/ name \in BoardWide /\ \E channel \in Channel : Ready(<<q[1], channel>>)'
    BY DEF DefaultsGiven
  <2>1. CASE ~Programmed(q, PlaceOf[name])
    BY <1>3, <1>7, <2>1
  <2>2. CASE Programmed(q, PlaceOf[name])
    <3>1. \/ Setting(q)[name] = Defaults[name]
          \/ name \in BoardWide /\ \E channel \in Channel : Ready(<<q[1], channel>>)
      BY <1>1, <1>4, <2>2 DEF DefaultsGiven
    <3>2. \A channel \in Channel : <<q[1], channel>> \in Port
      BY DEF Port
    <3> QED BY <1>3, <1>4, <3>1, <3>2
  <2> QED BY <2>1, <2>2
<1> QED BY <1>5, <1>8, <1>9 DEF SettingsHeld

(* So do the line parameters, set on a port that no call works on.         *)
LEMMA TtySettings ==
  ASSUME IInv, SettingsHeld, Discipline # "none", NEW p \in Port, NEW v, TtySetLine(p, v)
  PROVE  SettingsHeld'
<1>1. CopiesFollow /\ WritesStand /\ PinsReturned /\ Rs485Whole /\ DefaultsGiven
  BY DEF SettingsHeld
<1>2. Quiet(p) /\ UNCHANGED <<board, boot, call>>
  BY DEF TtySetLine
<1>3. CopiesFollow' /\ WritesStand' /\ PinsReturned'
  <2> SUFFICES ASSUME NEW d \in Caller, Busy(d)' PROVE call'[d] = call[d] /\ uart'[At(d)] = uart[At(d)]
    BY <1>1, <1>2, StillHeld
  <2>1. Busy(d) /\ At(d) \in Port /\ At(d) # p
    BY <1>2, CallFacts DEF IInv, Quiet, Busy, At
  <2> QED BY <1>2, <2>1, TtySame
<1>4. \A q \in Port : Setting(q)' = Setting(q)
  BY TtySame
<1>5. Rs485Whole'
  <2> SUFFICES ASSUME NEW q \in Port, Programmed(q, PlaceOf["rs485"])',
                      \A d \in Caller : At(d)' = q => ~Sets(d, "rs485")'
               PROVE  Rs485(q)' # Torn
    BY DEF Rs485Whole
  <2>1. Programmed(q, PlaceOf["rs485"]) /\ \A d \in Caller : At(d) = q => ~Sets(d, "rs485")
    BY <1>2 DEF Programmed, Sets, Busy, At
  <2>2. Setting(q)["rs485"] = Rs485(q) /\ Setting(q)'["rs485"] = Rs485(q)'
    BY DEF Setting, SettingName
  <2> QED BY <1>1, <1>4, <2>1, <2>2 DEF Rs485Whole
<1>6. DefaultsGiven'
  BY <1>1, <1>2, <1>4 DEF DefaultsGiven, Ready, Programmed
<1> QED BY <1>3, <1>5, <1>6 DEF SettingsHeld

(* Nothing is said of the settings before start-up.                        *)
LEMMA InitSettings == Init => SettingsHeld
<1> SUFFICES ASSUME Init PROVE SettingsHeld
  OBVIOUS
<1>1. \A c \in Caller : ~Busy(c)
  BY DEF Init, Busy, Idle
<1>2. CopiesFollow /\ WritesStand /\ PinsReturned
  BY <1>1 DEF CopiesFollow, WritesStand, PinsReturned, Borrows
<1>3. \A p \in Port, name \in SettingName : ~Programmed(p, PlaceOf[name])
  <2> SUFFICES ASSUME NEW p \in Port, NEW name \in SettingName PROVE ~Programmed(p, PlaceOf[name])
    OBVIOUS
  <2>1. p[1] \in Card /\ p[2] \in Nat /\ StepsPerPort \in Nat /\ PlaceOf[name] \in Nat \ {0}
    BY Channels, StartUpLength, Places DEF Port
  <2>2. boot[p[1]] = 0 /\ p[2] * StepsPerPort \in Nat
    BY <2>1 DEF Init
  <2> QED BY <2>1, <2>2 DEF Programmed
<1>4. Rs485Whole /\ DefaultsGiven
  BY <1>3 DEF Rs485Whole, DefaultsGiven, SettingName
<1> QED BY <1>2, <1>4 DEF SettingsHeld

(* The settings fit together at every step, with the calls under way and   *)
(* with the progress of start-up: see PromiseInv.                          *)
THEOREM PromiseInvariance == ASSUME Discipline # "none" PROVE Spec => []PromiseInv
<1>1. CASE Discipline = "card"
  <2>1. Init => SettingsHeld
    BY InitSettings
  <2>2. ASSUME FullInv, SettingsHeld, [Next]_vars PROVE SettingsHeld'
    <3>0. IInv /\ BoardHeld
      BY <1>1, <2>2 DEF FullInv, BoardInv
    <3>1. ASSUME NEW u \in User, NEW p \in Card \X Opened, NEW request \in Calls[p[2]], Begin(u, p, request)
          PROVE  SettingsHeld'
      <4>1. PICK h : Enters(u, p, request, h)
        BY <3>0, <3>1, BeginEnters
      <4> QED BY <2>2, <3>0, <4>1, EnterSettings DEF Caller
    <3>2. ASSUME NEW k \in Card, BeginBoot(k) PROVE SettingsHeld'
      <4>1. PICK p, request, h : Enters(k, p, request, h)
        BY <3>0, <3>2, BeginEnters
      <4> QED BY <2>2, <3>0, <4>1, EnterSettings DEF Caller
    <3>3. ASSUME NEW c \in Caller, Perform(c) PROVE SettingsHeld'
      BY <2>2, <3>0, <3>3, PerformSettings
    <3>4. ASSUME NEW c \in Caller, Return(c) PROVE SettingsHeld'
      BY <2>2, <3>0, <3>4, ReturnSettings
    <3>5. ASSUME NEW p \in Card \X Opened, NEW v \in Line, TtySetLine(p, v) PROVE SettingsHeld'
      <4>1. p \in Port
        BY OpenedAssumption DEF Port
      <4> QED BY <1>1, <2>2, <3>0, <3>5, <4>1, TtySettings
    <3>6. CASE UNCHANGED vars
      <4>1. UNCHANGED <<uart, byte, board, boot, call>>
        BY <3>6 DEF vars
      <4>2. CopiesFollow' /\ WritesStand' /\ PinsReturned'
        BY <2>2, <4>1, StillHeld DEF SettingsHeld
      <4>3. \A q \in Port : Setting(q)' = Setting(q)
        BY <4>1, StutterSame
      <4>4. Rs485Whole'
        <5>1. \A q \in Port : Rs485(q) = Setting(q)["rs485"] /\ Rs485(q)' = Setting(q)'["rs485"]
          BY DEF Setting, SettingName
        <5>2. Rs485Whole
          BY <2>2 DEF SettingsHeld
        <5> QED BY <4>1, <4>3, <5>1, <5>2 DEF Rs485Whole, Programmed, Sets, Busy, At
      <4>5. DefaultsGiven'
        BY <2>2, <4>1, <4>3 DEF SettingsHeld, DefaultsGiven, Programmed, Ready
      <4> QED BY <4>2, <4>4, <4>5 DEF SettingsHeld
    <3> QED BY <2>2, <3>1, <3>2, <3>3, <3>4, <3>5, <3>6 DEF Next
  <2>3. Spec => []FullInv
    BY FullInvariance
  <2>4. FullInv /\ SettingsHeld => PromiseInv
    BY DEF PromiseInv
  <2> QED BY <2>1, <2>2, <2>3, <2>4, PTL DEF Spec
<1>2. CASE Discipline # "card"
  <2>1. FullInv => PromiseInv
    BY <1>2 DEF PromiseInv
  <2>2. Spec => []FullInv
    BY FullInvariance
  <2> QED BY <2>1, <2>2, PTL
<1> QED BY <1>1, <1>2

-----------------------------------------------------------------------------
(* The steps of the driver as steps of module Settings.                    *)

(* Of a caller's record a user's request tells less.                       *)
LEMMA RequestFields ==
  ASSUME NEW u \in User
  PROVE  /\ (Request(u).kind = "none" <=> ~Busy(u)) /\ (Request(u)'.kind = "none" <=> ~Busy(u)')
         /\ Request(u).kind = call[u].kind /\ Request(u).name = call[u].name
         /\ Request(u).arg = Wanted(call[u].name, call[u].arg)
         /\ Request(u).port = call[u].port /\ Request(u).status = call[u].status
         /\ Request(u)'.port = call'[u].port /\ Request(u)'.status = call'[u].status
         /\ ~Busy(u)' => Request(u)'.value = call'[u].value
BY DEF Request, Busy

(* Equal settings are the same function of the ports.                      *)
LEMMA SameSettings ==
  ASSUME \A p \in Port : Setting(p)' = Setting(p)
  PROVE  [p \in Port |-> Setting(p)]' = [p \in Port |-> Setting(p)]
OBVIOUS

(* So is the progress of start-up.                                         *)
LEMMA SameReady ==
  ASSUME boot' = boot
  PROVE  [p \in Port |-> Ready(p)]' = [p \in Port |-> Ready(p)]
BY DEF Ready

(* And equal requests are the same function of the users.                  *)
LEMMA SameRequests ==
  ASSUME \A u \in User : Request(u)' = Request(u)
  PROVE  [u \in User |-> Request(u)]' = [u \in User |-> Request(u)]
OBVIOUS

(* A step that changes no setting, no port's start-up and no request.      *)
LEMMA Stays ==
  ASSUME \A p \in Port : Setting(p)' = Setting(p), boot' = boot,
         \A u \in User : Request(u)' = Request(u)
  PROVE  UNCHANGED Promise!vars
BY SameSettings, SameReady, SameRequests DEF Promise!vars

(* A call that begins.                                                     *)
LEMMA Begins ==
  ASSUME NEW u \in User, ~Busy(u), Busy(u)', At(u)' \in Port, Ready(At(u)'),
         \A w \in User \ {u} : Request(w)' = Request(w),
         \A p \in Port : Setting(p)' = Setting(p), boot' = boot
  PROVE  Promise!Begin(u)
<1>1. /\ Promise!Busy(u) <=> Busy(u)
      /\ Promise!Busy(u)' <=> Busy(u)'
  BY RequestFields DEF Promise!Busy
<1>2. [w \in User |-> Request(w)]'[u].port = At(u)'
  BY RequestFields DEF At
<1>3. [p \in Port |-> Ready(p)][[w \in User |-> Request(w)]'[u].port]
  BY <1>2
<1>4. \A w \in User \ {u} : [v \in User |-> Request(v)]'[w] = [v \in User |-> Request(v)][w]
  OBVIOUS
<1> QED BY <1>1, <1>3, <1>4, SameSettings, SameReady DEF Promise!Begin

(* Only settings that port p shares change.                                *)
LEMMA Keeps ==
  ASSUME NEW p \in Port, NEW Names,
         \A q \in Port, name \in SettingName :
           Setting(q)'[name] # Setting(q)[name] => name \in Names /\ Shares(p, q, name)
  PROVE  Promise!OthersKeep(p, Names)
<1>1. \A q \in Port, name \in SettingName : Shares(p, q, name) => q \in Promise!Reach(p, name)
  <2> SUFFICES ASSUME NEW q \in Port, NEW name \in SettingName, Shares(p, q, name)
               PROVE  q \in Promise!Reach(p, name)
    OBVIOUS
  <2>1. q[1] \in Card /\ q[2] \in Channel /\ q = <<q[1], q[2]>>
    BY DEF Port
  <2>2. CASE name \in BoardWide
    BY <2>1, <2>2 DEF Shares, Promise!Reach, BoardWide
  <2>3. CASE name \notin BoardWide
    BY <2>3 DEF Shares, Promise!Reach, BoardWide
  <2> QED BY <2>2, <2>3
<1>2. \A q \in Port, name \in SettingName :
        [r \in Port |-> Setting(r)]'[q][name] # [r \in Port |-> Setting(r)][q][name]
          => name \in Names /\ q \in Promise!Reach(p, name)
  BY <1>1
<1> QED BY <1>2 DEF Promise!OthersKeep

(* A step of the start-up of port p.                                       *)
LEMMA Starts ==
  ASSUME NEW p \in Port, ~Ready(p),
         \A q \in Port, name \in SettingName :
           Setting(q)'[name] # Setting(q)[name] => Shares(p, q, name),
         \A q \in Port : q # p => Ready(q)' = Ready(q),
         Ready(p)' => \A name \in SettingName :
           \/ Setting(p)'[name] = Defaults[name]
           \/ name \in BoardWide /\ \E channel \in Channel : Ready(<<p[1], channel>>),
         \A u \in User : Request(u)' = Request(u)
  PROVE  Promise!StartUp(p)
<1>1. ~[q \in Port |-> Ready(q)][p]
  OBVIOUS
<1>2. Promise!OthersKeep(p, SettingName)
  BY Keeps
<1>3. [q \in Port |-> Ready(q)]' \in
        {[q \in Port |-> Ready(q)], [[q \in Port |-> Ready(q)] EXCEPT ![p] = TRUE]}
  <2>1. CASE Ready(p)'
    <3>1. Ready(p)' = TRUE
      BY <2>1 DEF Ready
    <3>2. [q \in Port |-> Ready(q)]' = [[q \in Port |-> Ready(q)] EXCEPT ![p] = TRUE]
      BY <3>1
    <3> QED BY <3>2
  <2>2. CASE ~Ready(p)'
    <3>1. Ready(p)' = Ready(p)
      BY <2>2 DEF Ready
    <3>2. [q \in Port |-> Ready(q)]' = [q \in Port |-> Ready(q)]
      BY <3>1
    <3> QED BY <3>2
  <2> QED BY <2>1, <2>2
<1>4. DOMAIN Defaults = SettingName
  BY DEF Defaults
<1>5. \A q \in {p[1]} \X Channel : q \in Port
  BY DEF Port
<1>6. [q \in Port |-> Ready(q)]'[p] => \A name \in DOMAIN Defaults :
        \/ [q \in Port |-> Setting(q)]'[p][name] = Defaults[name]
        \/ /\ name \in BoardWide
           /\ \E q \in [r \in Port |-> {r[1]} \X Channel][p] : [r \in Port |-> Ready(r)][q]
  <2> SUFFICES ASSUME Ready(p)', NEW name \in SettingName, Setting(p)'[name] # Defaults[name]
               PROVE  name \in BoardWide /\ \E q \in {p[1]} \X Channel : [r \in Port |-> Ready(r)][q]
    BY <1>4
  <2>1. name \in BoardWide /\ \E channel \in Channel : Ready(<<p[1], channel>>)
    OBVIOUS
  <2>2. PICK channel \in Channel : Ready(<<p[1], channel>>)
    BY <2>1
  <2>3. <<p[1], channel>> \in {p[1]} \X Channel
    OBVIOUS
  <2> QED BY <1>5, <2>1, <2>2, <2>3
<1> QED BY <1>1, <1>2, <1>3, <1>6, SameRequests DEF Promise!StartUp, BoardWide

(* An access of a call that sets a setting.                                *)
LEMMA Works ==
  ASSUME NEW u \in User, NEW name \in SettingName, At(u) \in Port, Sets(u, name),
         \A q \in Port, n \in SettingName :
           Setting(q)'[n] # Setting(q)[n] => n = name /\ Shares(At(u), q, n),
         boot' = boot, \A w \in User : Request(w)' = Request(w)
  PROVE  Promise!Work(u)
<1>1. Promise!Open(u, At(u), name)
  BY RequestFields DEF Promise!Open, Sets, At
<1>2. Promise!OthersKeep(At(u), {name})
  BY Keeps
<1> QED BY <1>1, <1>2, SameReady, SameRequests DEF Promise!Work

(* A call that returns.                                                    *)
LEMMA Ends ==
  ASSUME NEW u \in User, At(u) \in Port, Busy(u), ~Busy(u)', call'[u].status = call[u].status,
         call[u].status = 0 /\ call[u].name \in SettingName =>
           IF call[u].kind = "set"
           THEN Setting(At(u))[call[u].name] = Wanted(call[u].name, call[u].arg)
           ELSE call'[u].value = Setting(At(u))[call[u].name],
         \A w \in User \ {u} : Request(w)' = Request(w),
         \A p \in Port : Setting(p)' = Setting(p), boot' = boot
  PROVE  Promise!End(u)
<1>1. /\ Promise!Busy(u) <=> Busy(u)
      /\ Promise!Busy(u)' <=> Busy(u)'
  BY RequestFields DEF Promise!Busy
<1> DEFINE r == [w \in User |-> Request(w)][u]
           s == [w \in User |-> Request(w)]'[u]
           v == [p \in Port |-> Setting(p)][r.port][r.name]
<1>2. s.status = r.status
  BY RequestFields
<1>3. /\ r.kind = call[u].kind /\ r.name = call[u].name /\ r.status = call[u].status
      /\ r.arg = Wanted(call[u].name, call[u].arg) /\ r.port = At(u) /\ s.value = call'[u].value
  BY RequestFields DEF At
<1>4. v = Setting(At(u))[call[u].name]
  BY <1>3
<1>5. r.status = 0 /\ r.name \in SettingName => IF r.kind = "set" THEN v = r.arg ELSE s.value = v
  <2> HIDE DEF r, s, v
  <2> QED BY <1>3, <1>4
<1>6. \A w \in User \ {u} : [x \in User |-> Request(x)]'[w] = [x \in User |-> Request(x)][w]
  OBVIOUS
<1> QED BY <1>1, <1>2, <1>5, <1>6, SameSettings, SameReady DEF Promise!End

(* Who makes no step keeps the request.                                    *)
LEMMA RequestKept ==
  ASSUME NEW u \in User, \/ call'[u] = call[u]
                         \/ /\ Busy(u) /\ Busy(u)'
                            /\ call'[u].kind = call[u].kind /\ call'[u].name = call[u].name
                            /\ call'[u].arg = call[u].arg /\ call'[u].port = call[u].port
                            /\ call'[u].status = call[u].status
  PROVE  Request(u)' = Request(u)
BY DEF Request, Busy

(* Beginning a call begins a request of a user, and is nothing of a loader's. *)
LEMMA EnterImplements ==
  ASSUME IInv, NEW c \in Caller, NEW p, NEW request, NEW h, Enters(c, p, request, h)
  PROVE  IF c \in User THEN Promise!Begin(c) ELSE UNCHANGED Promise!vars
<1>1. /\ \A d \in Caller : d # c => call'[d] = call[d]
      /\ ~Busy(c) /\ Busy(c)' /\ At(c)' = p
  BY EnteredCalls
<1>2. p \in Port /\ boot' = boot /\ (c \in User => Ready(p))
  BY DEF Enters
<1>3. \A q \in Port : Setting(q)' = Setting(q)
  BY EnterSame
<1>4. \A w \in User \ {c} : Request(w)' = Request(w)
  BY <1>1, RequestKept DEF Caller
<1>5. CASE c \in User
  <2>1. Ready(At(c)')
    BY <1>1, <1>2, <1>5
  <2> QED BY <1>1, <1>2, <1>3, <1>4, <1>5, <2>1, Begins
<1>6. CASE c \notin User
  BY <1>2, <1>3, <1>4, <1>6, Stays
<1> QED BY <1>5, <1>6

(* The port that a loader works at is not ready.                           *)
LEMMA LoaderUnready ==
  ASSUME IInv, NEW k \in Card, Busy(k)
  PROVE  ~Ready(At(k)) /\ At(k) \in Port /\ At(k)[1] = k
<1>1. /\ At(k)[2] \in Nat /\ At(k) = <<k, At(k)[2]>> /\ boot[k] \in Nat
      /\ boot[k] < (At(k)[2] + 1) * StepsPerPort
  BY LoaderAt DEF IInv
<1>2. At(k)[1] = k /\ At(k) \in Port
  BY <1>1, CallFacts DEF IInv, Caller
<1>3. (At(k)[2] + 1) * StepsPerPort \in Nat
  BY <1>1, StartUpLength
<1> QED BY <1>1, <1>2, <1>3 DEF Ready

(* An access is work on the setting that its call sets, or a step of the   *)
(* start-up, or nothing.                                                   *)
LEMMA PerformImplements ==
  ASSUME IInv, BoardHeld, SettingsHeld, NEW c \in Caller, Perform(c)
  PROVE  \/ UNCHANGED Promise!vars
         \/ c \in User /\ Promise!Work(c)
         \/ c \in Card /\ Promise!StartUp(At(c))
<1>1. AloneOnCard /\ CopiesFollow
  BY DEF BoardHeld, SettingsHeld
<1>2. Busy(c) /\ At(c) \in Port /\ boot' = boot
  BY Turns, PerformedCalls DEF Turn
<1>3. \A w \in User : Request(w)' = Request(w)
  <2> SUFFICES ASSUME NEW w \in User PROVE Request(w)' = Request(w)
    OBVIOUS
  <2>1. /\ w \in Caller
        /\ w # c => call'[w] = call[w]
        /\ Busy(w)' = Busy(w) /\ call'[w].kind = call[w].kind /\ call'[w].name = call[w].name
        /\ call'[w].arg = call[w].arg /\ call'[w].port = call[w].port
        /\ call'[w].status = call[w].status
    BY PerformedCalls DEF Caller
  <2> QED BY <1>2, <2>1, RequestKept
<1>4. \A q \in Port, name \in SettingName :
        Setting(q)'[name] # Setting(q)[name] => Sets(c, name) /\ Shares(At(c), q, name)
  BY <1>1, PerformChanges
<1>5. CASE c \in Card
  <2>1. ~Ready(At(c)) /\ ~Ready(At(c))'
    BY <1>2, <1>5, LoaderUnready, PerformedCalls DEF Ready
  <2>2. \A q \in Port : Ready(q)' = Ready(q)
    BY <1>2 DEF Ready
  <2> DEFINE p == At(c)
  <2>3. At(c)' = At(c)
    BY PerformedCalls
  <2>4. \A q \in Port, name \in SettingName :
          Setting(q)'[name] # Setting(q)[name] => Shares(At(c), q, name)
    BY <1>4
  <2>5. Promise!StartUp(At(c))
    <3>1. PICK q \in Port : q = At(c)
      BY <1>2
    <3>2. ~Ready(q) /\ ~Ready(q)'
      BY <2>1, <2>2, <3>1
    <3>3. Promise!StartUp(q)
      BY <1>3, <2>2, <2>4, <3>1, <3>2, Starts
    <3> QED BY <3>1, <3>3
  <2> QED BY <1>5, <2>5
<1>6. CASE c \in User /\ \E name \in SettingName : Sets(c, name)
  <2>1. PICK name \in SettingName : Sets(c, name)
    BY <1>6
  <2>2. \A n : Sets(c, n) => n = name
    BY <2>1 DEF Sets
  <2>3. \A q \in Port, n \in SettingName :
          Setting(q)'[n] # Setting(q)[n] => n = name /\ Shares(At(c), q, n)
    BY <1>4, <2>2
  <2> QED BY <1>2, <1>3, <1>6, <2>1, <2>3, Works
<1>7. CASE ~(\E name \in SettingName : Sets(c, name))
  <2>1. \A q \in Port : Setting(q)' = Setting(q)
    <3> SUFFICES ASSUME NEW q \in Port PROVE Setting(q)' = Setting(q)
      OBVIOUS
    <3>1. \A name \in SettingName : Setting(q)'[name] = Setting(q)[name]
      BY <1>4, <1>7
    <3> QED BY <3>1 DEF Setting
  <2> QED BY <1>2, <1>3, <2>1, Stays
<1> QED BY <1>5, <1>6, <1>7 DEF Caller

(* A return ends a user's request, and is a step of a loader's start-up.   *)
LEMMA ReturnImplements ==
  ASSUME IInv, BoardHeld, SettingsHeld, NEW c \in Caller, Return(c)
  PROVE  IF c \in User THEN Promise!End(c) ELSE Promise!StartUp(At(c))
<1>1. /\ AloneOnCard /\ CopiesFollow /\ WritesStand /\ PinsReturned /\ Rs485Whole /\ DefaultsGiven
      /\ TypeOK /\ Attributed
  BY DEF BoardHeld, SettingsHeld, IInv
<1>2. /\ \A d \in Caller : d # c => call'[d] = call[d]
      /\ Busy(c) /\ ~Busy(c)' /\ At(c) \in Port /\ call[c].pc = Len(call[c].steps) + 1
      /\ call'[c] = Idle(call[c].status, Reply(c))
  <2>1. call \in [Caller -> CallRecord]
    BY <1>1 DEF TypeOK
  <2>2. call' = [call EXCEPT ![c] = Idle(call[c].status, Reply(c))]
    BY DEF Return
  <2>3. call'[c] = Idle(call[c].status, Reply(c))
    BY <2>1, <2>2
  <2> QED BY <2>3, ReturnedCalls
<1>3. call'[c].status = call[c].status /\ call'[c].value = Reply(c)
  BY <1>2 DEF Idle
<1>4. \A q \in Port : Setting(q)' = Setting(q)
  BY <1>1, ReturnSame
<1>5. \A w \in User \ {c} : Request(w)' = Request(w)
  BY <1>2, RequestKept DEF Caller
<1>6. CASE c \in User
  <2>1. boot' = boot
    BY <1>6, CallerAssumption DEF Return
  <2>2. Ready(At(c)) /\ call[c].kind \in {"set", "get"}
    BY <1>1, <1>2, <1>6, Asked, CallFacts, CallerAssumption
  <2>3. ASSUME call[c].status = 0, call[c].name \in SettingName
        PROVE  IF call[c].kind = "set"
               THEN Setting(At(c))[call[c].name] = Wanted(call[c].name, call[c].arg)
               ELSE call'[c].value = Setting(At(c))[call[c].name]
    <3>1. CASE call[c].kind = "set"
      <4>1. Sets(c, call[c].name)
        BY <1>2, <2>3, <3>1 DEF Sets
      <4> QED BY <1>1, <1>2, <2>3, <3>1, <4>1, SetDone
    <3>2. CASE call[c].kind = "get"
      BY <1>1, <1>2, <1>3, <2>2, <2>3, <3>2, GetDone
    <3> QED BY <2>2, <3>1, <3>2
  <2>4. Promise!End(c)
    BY <1>2, <1>3, <1>4, <1>5, <1>6, <2>1, <2>3, Ends
  <2> QED BY <1>6, <2>4
<1>7. CASE c \notin User
  <2>1. c \in Card
    BY <1>7 DEF Caller
  <2>2. PICK p \in Port : p = At(c)
    BY <1>2
  <2>3. ~Ready(p) /\ p[1] = c
    BY <1>2, <2>1, <2>2, LoaderUnready
  <2>4. \A q \in Port : q # p => Ready(q)' = Ready(q)
    <3>1. \A q \in Port : Ready(q) = Programmed(q, StepsPerPort) /\ Ready(q)' = Programmed(q, StepsPerPort)'
      <4> SUFFICES ASSUME NEW q \in Port
                   PROVE  Ready(q) = Programmed(q, StepsPerPort) /\ Ready(q)' = Programmed(q, StepsPerPort)'
        OBVIOUS
      <4>1. q[2] \in Nat /\ StepsPerPort \in {10, 11}
        BY Channels, StartUpLength DEF Port
      <4>2. (q[2] + 1) * StepsPerPort = q[2] * StepsPerPort + StepsPerPort
        BY <4>1
      <4> QED BY <4>2 DEF Ready, Programmed
    <3>2. StepsPerPort \in 1..StepsPerPort
      BY StartUpLength
    <3> QED BY <2>2, <3>1, <3>2, NewlyProgrammed
  <2>5. ASSUME Ready(p)', NEW name \in SettingName
        PROVE  \/ Setting(p)'[name] = Defaults[name]
               \/ name \in BoardWide /\ \E channel \in Channel : Ready(<<p[1], channel>>)
    <3>1. /\ p[2] \in Nat /\ StepsPerPort \in {10, 11} /\ boot[c] \in Nat /\ boot'[c] = boot[c] + 1
          /\ PlaceOf[name] \in 1..StepsPerPort - 1
      <4>1. p[2] \in Nat /\ StepsPerPort \in {10, 11}
        BY Channels, StartUpLength DEF Port
      <4>2. boot[c] \in Nat
        BY <1>1, <1>2, <2>1, LoaderAt
      <4> QED BY <2>1, <4>1, <4>2, Places, ReturnedMemory
    <3>2. boot[c] + 1 >= (p[2] + 1) * StepsPerPort
      BY <2>3, <2>5, <3>1 DEF Ready
    <3> DEFINE own   == p[2]
               place == PlaceOf[name]
               b     == boot[c]
    <3>3. own \in Nat /\ b \in Nat /\ place \in 1..StepsPerPort - 1 /\ b + 1 >= (own + 1) * StepsPerPort
      BY <3>1, <3>2
    <3> HIDE DEF own, place, b
    <3>4. ASSUME StepsPerPort = 10 PROVE b >= own * StepsPerPort + place
      BY <3>3, <3>4
    <3>5. ASSUME StepsPerPort = 11 PROVE b >= own * StepsPerPort + place
      BY <3>3, <3>5
    <3>6. Programmed(p, PlaceOf[name])
      BY <2>3, <3>1, <3>4, <3>5 DEF Programmed, own, place, b
    <3> QED BY <1>1, <1>4, <2>3, <3>6 DEF DefaultsGiven
  <2>6. \A w \in User : Request(w)' = Request(w)
    BY <1>5, <1>7
  <2>7. Promise!StartUp(p)
    BY <1>4, <2>3, <2>4, <2>5, <2>6, Starts
  <2> QED BY <1>7, <2>2, <2>7
<1> QED BY <1>6, <1>7

(* Nothing but the line parameters changes in a step of the tty driver.    *)
LEMMA TtyImplements ==
  ASSUME IInv, NEW p \in Port, NEW v, TtySetLine(p, v)
  PROVE  UNCHANGED Promise!vars
<1>1. \A q \in Port : Setting(q)' = Setting(q)
  BY TtySame
<1>2. boot' = boot /\ call' = call
  BY DEF TtySetLine
<1>3. \A w \in User : Request(w)' = Request(w)
  BY <1>2, RequestKept
<1> QED BY <1>1, <1>2, <1>3, Stays

(* Every port has some setting, and none has been started.                 *)
LEMMA InitImplements == Init => Promise!Init
<1> SUFFICES ASSUME Init PROVE Promise!Init
  OBVIOUS
<1>1. TypeOK
  BY InitKeeps DEF IInv
<1>2. \A p \in Port : Setting(p) \in [SettingName -> Int]
  <2> SUFFICES ASSUME NEW p \in Port PROVE Setting(p) \in [SettingName -> Int]
    OBVIOUS
  <2>1. byte[p]["TXTRG"] \in Int /\ byte[p]["RXTRG"] \in Int
    <3>1. byte \in [Port -> [ByteReg -> Byte]]
      BY <1>1 DEF TypeOK
    <3>2. byte[p]["TXTRG"] \in Byte /\ byte[p]["RXTRG"] \in Byte
      BY <3>1 DEF ByteReg
    <3> QED BY <3>2 DEF Byte
  <2>2. SampleRate(p) \in Int /\ Rs485(p) \in Int
    BY DEF SampleRate, Rs485, YesNo, Torn
  <2>3. YesNo(EchoOf(p)) \in Int /\ YesNo(p[2] \notin Pins(p[1])) \in Int
    BY DEF YesNo
  <2> QED BY <2>1, <2>2, <2>3 DEF Setting, SettingName
<1>3. [p \in Port |-> Setting(p)] \in [Port -> [SettingName -> Int]]
  BY <1>2
<1>4. \A p \in Port : Ready(p) = FALSE
  <2> SUFFICES ASSUME NEW p \in Port PROVE Ready(p) = FALSE
    OBVIOUS
  <2>1. p[1] \in Card /\ p[2] \in Nat /\ StepsPerPort \in {10, 11}
    BY Channels, StartUpLength DEF Port
  <2>2. boot[p[1]] = 0
    BY <2>1 DEF Init
  <2>3. (p[2] + 1) * StepsPerPort \in Nat \ {0}
    <3>1. CASE StepsPerPort = 10
      BY <2>1, <3>1
    <3>2. CASE StepsPerPort = 11
      BY <2>1, <3>2
    <3> QED BY <2>1, <3>1, <3>2
  <2> QED BY <2>2, <2>3 DEF Ready
<1>5. [p \in Port |-> Ready(p)] = [p \in Port |-> FALSE]
  BY <1>4
<1>6. \A u \in User : ~Promise!Busy(u)
  <2>1. \A u \in User : ~Busy(u)
    BY DEF Init, Busy, Idle, Caller
  <2> QED BY <2>1, RequestFields DEF Promise!Busy
<1> QED BY <1>3, <1>5, <1>6 DEF Promise!Init

(* With one call at a time on a card the driver implements Settings: what  *)
(* KeepsPromise says holds of every instance.                              *)
THEOREM KeepsPromiseHolds == ASSUME Discipline = "card" PROVE Spec => KeepsPromise
<1>1. ASSUME PromiseInv, [Next]_vars PROVE [Promise!Next]_(Promise!vars)
  <2>0. IInv /\ BoardHeld /\ SettingsHeld
    BY <1>1 DEF PromiseInv, FullInv, BoardInv
  <2>1. ASSUME NEW u \in User, NEW p \in Card \X Opened, NEW request \in Calls[p[2]], Begin(u, p, request)
        PROVE  Promise!Next
    <3>1. PICK h : Enters(u, p, request, h)
      BY <2>0, <2>1, BeginEnters
    <3>2. Promise!Begin(u)
      BY <2>0, <3>1, EnterImplements DEF Caller
    <3> QED BY <3>2 DEF Promise!Next
  <2>2. ASSUME NEW k \in Card, BeginBoot(k) PROVE UNCHANGED Promise!vars
    <3>1. PICK p, request, h : Enters(k, p, request, h)
      BY <2>0, <2>2, BeginEnters
    <3>2. k \in Caller /\ k \notin User
      BY CallerAssumption DEF Caller
    <3> QED BY <2>0, <3>1, <3>2, EnterImplements
  <2>3. ASSUME NEW c \in Caller, Perform(c) PROVE [Promise!Next]_(Promise!vars)
    <3>1. \/ UNCHANGED Promise!vars
          \/ c \in User /\ Promise!Work(c)
          \/ c \in Card /\ Promise!StartUp(At(c))
      BY <2>0, <2>3, PerformImplements
    <3>2. c \in Card => At(c) \in Port
      BY <2>0, CallFacts DEF IInv
    <3> QED BY <3>1, <3>2 DEF Promise!Next
  <2>4. ASSUME NEW c \in Caller, Return(c) PROVE Promise!Next
    <3>1. IF c \in User THEN Promise!End(c) ELSE Promise!StartUp(At(c))
      BY <2>0, <2>4, ReturnImplements
    <3>2. At(c) \in Port
      BY <2>0, CallFacts DEF IInv
    <3> QED BY <3>1, <3>2 DEF Promise!Next
  <2>5. ASSUME NEW p \in Card \X Opened, NEW v \in Line, TtySetLine(p, v) PROVE UNCHANGED Promise!vars
    <3>1. p \in Port
      BY OpenedAssumption DEF Port
    <3> QED BY <2>0, <2>5, <3>1, TtyImplements
  <2>6. CASE UNCHANGED vars
    <3>1. UNCHANGED <<uart, byte, board, boot, call>>
      BY <2>6 DEF vars
    <3>2. \A q \in Port : Setting(q)' = Setting(q)
      BY <3>1, StutterSame
    <3>3. \A w \in User : Request(w)' = Request(w)
      BY <3>1, RequestKept
    <3> QED BY <3>1, <3>2, <3>3, Stays
  <2> QED BY <1>1, <2>1, <2>2, <2>3, <2>4, <2>5, <2>6 DEF Next
<1>2. Spec => []PromiseInv
  BY PromiseInvariance
<1>3. Init => Promise!Init
  BY InitImplements
<1> QED BY <1>1, <1>2, <1>3, PTL DEF Spec, KeepsPromise, Promise!Spec
=============================================================================
