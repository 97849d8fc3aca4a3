----------------------------- MODULE ExarProofs -----------------------------
(***************************************************************************)
(* Proofs about Exar ports of both families, for every set of cards,       *)
(* users, calls and register values, under a discipline that keeps two     *)
(* calls off one port.                                                     *)
(***************************************************************************)
EXTENDS ExarInvariant, TLAPS

-----------------------------------------------------------------------------
(* The handlers.                                                           *)

(* Every access constructor yields a well-typed access.                    *)
LEMMA AccessTypes ==
  /\ \A r \in UartReg \cup BoardReg : Read(r) \in Accesses /\ Restore(r) \in Accesses
  /\ \A r \in UartReg \cup BoardReg, on, off \in SUBSET Bits : Write(r, on, off) \in Accesses
  /\ \A r \in UartReg \cup BoardReg, bits \in SUBSET Bits : Load(r, bits) \in Accesses
  /\ \A r \in ByteReg, v \in Byte : Store(r, v) \in Accesses
  /\ \A v \in Nat : Divide(v) \in Accesses
  /\ \A r \in Divisor : StoreDivisor(r) \in Accesses /\ Fetch(r) \in Accesses
  /\ Quotient \in Accesses
<1>1. ASSUME NEW io \in BitIo \cup ByteIo \cup MathIo,
             NEW r \in UartReg \cup BoardReg \cup ByteReg \cup {"divisor"},
             NEW on \in SUBSET Bits, NEW off \in SUBSET Bits, NEW v \in Nat,
             io \in BitIo => r \in UartReg \cup BoardReg,
             io = "store" => r \in ByteReg /\ v \in Byte,
             io \in {"store_divisor", "fetch"} => r \in Divisor
      PROVE  Access(io, r, on, off, v) \in Accesses
  <2> DEFINE a == Access(io, r, on, off, v)
  <2>1. a \in [io : BitIo \cup ByteIo \cup MathIo,
               reg : UartReg \cup BoardReg \cup ByteReg \cup {"divisor"},
               on : SUBSET Bits, off : SUBSET Bits, val : Nat]
    BY DEF Access
  <2>2. a.io = io /\ a.reg = r /\ a.val = v
    BY DEF Access
  <2>3. /\ a.io \in BitIo => a.reg \in UartReg \cup BoardReg
        /\ a.io = "store" => a.reg \in ByteReg /\ a.val \in Byte
        /\ a.io \in {"store_divisor", "fetch"} => a.reg \in Divisor
    BY <1>1, <2>2
  <2> HIDE DEF a
  <2>4. a \in Accesses
    BY <2>1, <2>3 DEF Accesses
  <2> QED BY <2>4 DEF a
<1>2. {} \in SUBSET Bits /\ Bits \in SUBSET Bits /\ 0 \in Nat
  OBVIOUS
<1>3. \A r \in UartReg \cup BoardReg, on, off \in SUBSET Bits : Write(r, on, off) \in Accesses
  BY <1>1, <1>2 DEF Write, BitIo, ByteIo, MathIo
<1>4. \A r \in UartReg \cup BoardReg : Read(r) \in Accesses /\ Restore(r) \in Accesses
  BY <1>1, <1>2, <1>3 DEF Read, Restore, BitIo, ByteIo, MathIo
<1>5. \A r \in UartReg \cup BoardReg, bits \in SUBSET Bits : Load(r, bits) \in Accesses
  BY <1>2, <1>3 DEF Load
<1>6. \A r \in ByteReg, v \in Byte : Store(r, v) \in Accesses
  BY <1>1, <1>2 DEF Store, Byte, BitIo, ByteIo, MathIo
<1>7. \A v \in Nat : Divide(v) \in Accesses
  BY <1>1, <1>2 DEF Divide, BitIo, ByteIo, MathIo
<1>8. \A r \in Divisor : StoreDivisor(r) \in Accesses /\ Fetch(r) \in Accesses
  BY <1>1, <1>2 DEF StoreDivisor, Fetch, ByteReg, BitIo, ByteIo, MathIo
<1>9. Quotient \in Accesses
  BY <1>1, <1>2 DEF Quotient, BitIo, ByteIo, MathIo
<1> QED BY <1>3, <1>4, <1>5, <1>6, <1>7, <1>8, <1>9

\* A handler that leaves LCR alone and has no business with the divisor.
Plain(s) ==
  \A i \in 1..Len(s) : s[i].io \in {"read", "write", "store"} /\ s[i].reg # "LCR"

\* FCTR is written from what was read of it, without clearing bits 6 and 7.
FctrSafe(s) ==
  \A i \in 1..Len(s) : s[i].io = "write" /\ s[i].reg = "FCTR" =>
    /\ 6 \notin s[i].off /\ 7 \notin s[i].off
    /\ \E j \in 1..i-1 : s[j].io = "read" /\ s[j].reg = "FCTR"

\* Register r is not stored to.
Spares(s, r) == \A i \in 1..Len(s) : s[i].io = "store" => s[i].reg # r

\* The sampling rate registers are not written.
Rateless(s) ==
  \A i \in 1..Len(s) : s[i].io = "write" => s[i].reg # "4XMODE" /\ s[i].reg # "8XMODE"

\* What holds of every handler but those of the baud rate.
Tidy(h) ==
  /\ h.steps \in Seq(Accesses) /\ h.status \in Int
  /\ Plain(h.steps) /\ FctrSafe(h.steps)
  /\ h.status # 0 => h.steps = << >>

Storeless(s) == \A i \in 1..Len(s) : s[i].io # "store"

(* A refusal makes no access.                                              *)
LEMMA RefusalTidy ==
  /\ \A e \in Int : Tidy(Refuse(e)) /\ Storeless(Refuse(e).steps) /\ Rateless(Refuse(e).steps)
  /\ Tidy(Do(<< >>)) /\ Storeless(Do(<< >>).steps) /\ Rateless(Do(<< >>).steps)
<1>1. << >> \in Seq(Accesses) /\ Plain(<< >>) /\ FctrSafe(<< >>) /\ Storeless(<< >>) /\ Rateless(<< >>)
  BY DEF Plain, FctrSafe, Storeless, Rateless
<1> QED BY <1>1 DEF Tidy, Refuse, Do

(* A byte is read and written back with some bits changed.                 *)
LEMMA OneChange ==
  ASSUME NEW r \in {"MPIOLVL", "MPIOLVLH", "8XMODE"}, NEW on \in SUBSET Bits, NEW off \in SUBSET Bits,
         NEW s, s = <<Read(r), Write(r, on, off)>>
  PROVE  /\ Tidy(Do(s)) /\ Storeless(s)
         /\ r # "8XMODE" => Rateless(s)
<1>1. s \in Seq(Accesses)
  BY AccessTypes DEF BoardReg
<1>2. Plain(s) /\ FctrSafe(s) /\ Storeless(s) /\ (r # "8XMODE" => Rateless(s))
  BY DEF Plain, FctrSafe, Storeless, Rateless, Access, Read, Write
<1> QED BY <1>1, <1>2 DEF Tidy, Do

(* Two bytes are.                                                          *)
LEMMA TwoChanges ==
  ASSUME NEW q \in {"MCR", "MPIOLVL", "FCTR", "4XMODE"}, NEW r \in {"FCTR", "MPIOLVL", "8XMODE"},
         NEW x \in {q, r}, NEW y \in {q, r},
         NEW on \in SUBSET Bits, NEW off \in SUBSET Bits,
         NEW up \in SUBSET Bits, NEW down \in SUBSET Bits,
         x = "FCTR" => 6 \notin off /\ 7 \notin off, y = "FCTR" => 6 \notin down /\ 7 \notin down,
         NEW s, s = <<Read(q), Read(r), Write(x, on, off), Write(y, up, down)>>
  PROVE  /\ Tidy(Do(s)) /\ Storeless(s)
         /\ q # "4XMODE" /\ r # "8XMODE" => Rateless(s)
<1>1. s \in Seq(Accesses)
  BY AccessTypes DEF BoardReg, UartReg
<1>2. Plain(s) /\ Storeless(s) /\ (q # "4XMODE" /\ r # "8XMODE" => Rateless(s))
  BY SMTT(30) DEF Plain, FctrSafe, Storeless, Rateless, Access, Read, Write
<1>3. FctrSafe(s)
  BY SMTT(60) DEF FctrSafe, Access, Read, Write
<1> QED BY <1>1, <1>2, <1>3 DEF Tidy, Do

(* Channels are bits of the board's registers, and so are the RS485 pins.  *)
LEMMA Channels ==
  /\ NumPorts \in {2, 4, 8}
  /\ \A channel \in Channel :
       /\ channel \in Bits /\ channel \in Nat /\ channel < NumPorts
       /\ Family = "PCI" => 3 + channel \in Bits
BY FamilyAssumption, NumPortsAssumption DEF Channel, Bits

\* What the setter of a level, or of the sampling rate, comes to.
LevelPart(name, x, h) ==
  \A level \in Level :
    IF name = level /\ h.status = 0
    THEN h.steps = <<Store(RegisterOf[level], x)>> /\ x \in Byte
    ELSE Spares(h.steps, RegisterOf[level])

RatePart(channel, name, x, h) ==
  IF name = "sample_rate" /\ h.status = 0
  THEN h = fastcom_set_sample_rate(channel, x) /\ x \in {4, 8, 16}
  ELSE Rateless(h.steps)

(* A handler that stores nothing, and is not the sampling rate's.          *)
LEMMA StorelessParts ==
  ASSUME NEW h, NEW name, NEW x, NEW channel, Storeless(h.steps), name \notin Level,
         name # "sample_rate" => Rateless(h.steps)
  PROVE  /\ LevelPart(name, x, h)
         /\ name # "sample_rate" => RatePart(channel, name, x, h)
BY DEF LevelPart, RatePart, Storeless, Spares

(* A refusal, of whatever it is.                                           *)
LEMMA RefusalParts ==
  ASSUME NEW e \in Nat \ {0}, NEW name, NEW x, NEW channel
  PROVE  /\ Tidy(Refuse(e)) /\ LevelPart(name, x, Refuse(e)) /\ RatePart(channel, name, x, Refuse(e))
<1>1. Tidy(Refuse(e)) /\ Storeless(Refuse(e).steps) /\ Rateless(Refuse(e).steps)
  BY RefusalTidy
<1>2. Refuse(e).status # 0
  BY DEF Refuse
<1> QED BY <1>1, <1>2 DEF LevelPart, RatePart, Storeless, Spares

(* The sampling rate setters.                                              *)
LEMMA RateSetterTidy ==
  ASSUME NEW channel \in Channel, NEW x \in Int, NEW h, h = fastcom_set_sample_rate(channel, x)
  PROVE  /\ Tidy(h) /\ Storeless(h.steps)
         /\ h.status = 0 => x \in {4, 8, 16}
<1>0. channel \in Bits /\ {channel} \in SUBSET Bits /\ {} \in SUBSET Bits
  BY Channels
<1>1. Tidy(Refuse(EINVAL)) /\ Storeless(Refuse(EINVAL).steps) /\ Refuse(EINVAL).status # 0
  <2>1. EINVAL \in Int /\ -EINVAL # 0
    BY DEF EINVAL
  <2> QED BY <2>1, RefusalTidy DEF Refuse
<1>2. CASE Family = "PCI"
  <2> DEFINE write == IF x = 8 THEN Write("8XMODE", {channel}, {}) ELSE Write("8XMODE", {}, {channel})
  <2>1. h = IF x \notin {8, 16} THEN Refuse(EINVAL) ELSE Do(<<Read("8XMODE"), write>>)
    BY <1>2 DEF fastcom_set_sample_rate, fastcom_set_sample_rate_pci
  <2>2. LET s == <<Read("8XMODE"), write>> IN Tidy(Do(s)) /\ Storeless(s)
    <3>1. CASE x = 8
      BY <1>0, <3>1, OneChange
    <3>2. CASE x # 8
      BY <1>0, <3>2, OneChange
    <3> QED BY <3>1, <3>2
  <2> HIDE DEF write
  <2>3. CASE x \notin {8, 16}
    BY <1>1, <2>1, <2>3
  <2>4. CASE x \in {8, 16}
    <3>1. h = Do(<<Read("8XMODE"), write>>)
      BY <2>1, <2>4
    <3>2. h.steps = <<Read("8XMODE"), write>>
      BY <3>1 DEF Do
    <3> QED BY <2>2, <2>4, <3>1, <3>2
  <2> QED BY <2>3, <2>4
<1>3. CASE Family # "PCI"
  <2> DEFINE four  == IF x = 4 THEN Write("4XMODE", {channel}, {}) ELSE Write("4XMODE", {}, {channel})
             eight == IF x = 8 THEN Write("8XMODE", {channel}, {}) ELSE Write("8XMODE", {}, {channel})
             s     == <<Read("4XMODE"), Read("8XMODE"), four, eight>>
  <2>1. h = IF x \notin {4, 8, 16} THEN Refuse(EINVAL) ELSE Do(s)
    BY <1>3 DEF fastcom_set_sample_rate, fastcom_set_sample_rate_pcie
  <2>2. \E on, off, up, down \in SUBSET Bits :
          four = Write("4XMODE", on, off) /\ eight = Write("8XMODE", up, down)
    BY <1>0
  <2> HIDE DEF four, eight
  <2>3. Tidy(Do(s)) /\ Storeless(s)
    BY <2>2, TwoChanges
  <2> HIDE DEF s
  <2>4. CASE x \notin {4, 8, 16}
    BY <1>1, <2>1, <2>4
  <2>5. CASE x \in {4, 8, 16}
    <3>1. h = Do(s)
      BY <2>1, <2>5
    <3>2. h.steps = s
      BY <3>1 DEF Do
    <3> QED BY <2>3, <2>5, <3>1, <3>2
  <2> QED BY <2>4, <2>5
<1> QED BY <1>2, <1>3

(* The setters of pins and feature bits.                                   *)
LEMMA PinSettersTidy ==
  ASSUME NEW channel \in Channel, NEW x,
         NEW h \in {fastcom_set_rs485(channel, x), fastcom_set_echo_cancel(channel, x),
                    fastcom_set_termination_pcie(channel, x)}
  PROVE  Tidy(h) /\ Storeless(h.steps) /\ Rateless(h.steps)
<1> DEFINE Good(s) == Tidy(Do(s)) /\ Storeless(s) /\ Rateless(s)
<1>0. /\ channel \in Bits /\ {channel} \in SUBSET Bits /\ {} \in SUBSET Bits
      /\ {2} \in SUBSET Bits /\ {5} \in SUBSET Bits /\ {7} \in SUBSET Bits
      /\ Family = "PCI" => {3 + channel} \in SUBSET Bits
  <2>1. channel \in Bits /\ (Family = "PCI" => 3 + channel \in Bits)
    BY Channels
  <2> QED BY <2>1 DEF Bits
<1>1. ASSUME NEW s, Good(s) PROVE Tidy(Do(s)) /\ Storeless(Do(s).steps) /\ Rateless(Do(s).steps)
  BY <1>1 DEF Do
<1>2. CASE h = fastcom_set_rs485(channel, x)
  <2>1. CASE Family = "PCI"
    <3> DEFINE pin  == IF x # 0 THEN Write("MPIOLVL", {}, {3 + channel}) ELSE Write("MPIOLVL", {3 + channel}, {})
               auto == IF x # 0 THEN Write("FCTR", {5}, {}) ELSE Write("FCTR", {}, {5})
               s    == <<Read("FCTR"), Read("MPIOLVL"), pin, auto>>
    <3>1. h = Do(s)
      BY <1>2, <2>1 DEF fastcom_set_rs485, fastcom_set_rs485_pci
    <3>2. \E on, off, up, down \in SUBSET Bits :
            /\ pin = Write("MPIOLVL", on, off) /\ auto = Write("FCTR", up, down)
            /\ 6 \notin down /\ 7 \notin down
      BY <1>0, <2>1
    <3> HIDE DEF pin, auto
    <3>3. Good(s)
      BY <3>2, TwoChanges
    <3> HIDE DEF s, Good
    <3> QED BY <1>1, <3>1, <3>3
  <2>2. CASE Family # "PCI"
    <3> DEFINE out  == IF x # 0 THEN Write("MCR", {2}, {}) ELSE Write("MCR", {}, {2})
               auto == IF x # 0 THEN Write("FCTR", {5}, {}) ELSE Write("FCTR", {}, {5})
               s    == <<Read("MCR"), Read("FCTR"), out, auto>>
    <3>1. h = Do(s)
      BY <1>2, <2>2 DEF fastcom_set_rs485, fastcom_set_rs485_pcie
    <3>2. \E on, off, up, down \in SUBSET Bits :
            /\ out = Write("MCR", on, off) /\ auto = Write("FCTR", up, down)
            /\ 6 \notin down /\ 7 \notin down
      BY <1>0
    <3> HIDE DEF out, auto
    <3>3. Good(s)
      BY <3>2, TwoChanges
    <3> HIDE DEF s, Good
    <3> QED BY <1>1, <3>1, <3>3
  <2> QED BY <2>1, <2>2
<1>3. CASE h \in {fastcom_set_echo_cancel(channel, x), fastcom_set_termination_pcie(channel, x)}
  <2>1. \E r \in {"MPIOLVL", "MPIOLVLH"}, on, off \in SUBSET Bits : h = Do(<<Read(r), Write(r, on, off)>>)
    <3>1. CASE h = fastcom_set_echo_cancel(channel, x)
      BY <1>0, <3>1 DEF fastcom_set_echo_cancel, fastcom_set_echo_cancel_pci, fastcom_set_echo_cancel_pcie
    <3>2. CASE h = fastcom_set_termination_pcie(channel, x)
      BY <1>0, <3>2 DEF fastcom_set_termination_pcie
    <3> QED BY <1>3, <3>1, <3>2
  <2>2. PICK r \in {"MPIOLVL", "MPIOLVLH"}, on \in SUBSET Bits, off \in SUBSET Bits :
          h = Do(<<Read(r), Write(r, on, off)>>)
    BY <2>1
  <2>3. Good(<<Read(r), Write(r, on, off)>>)
    BY OneChange
  <2> HIDE DEF Good
  <2> QED BY <1>1, <2>2, <2>3
<1> QED BY <1>2, <1>3

(* The loading of the clock chip.                                          *)
LEMMA ClockBitsTidy ==
  ASSUME NEW h \in fastcom_set_clock_bits_pci
  PROVE  Tidy(h) /\ Storeless(h.steps) /\ Rateless(h.steps)
<1>1. PICK d \in {{}, {0}} \X {{}, {0}} : h = ClockBits(d[1], d[2])
  BY DEF fastcom_set_clock_bits_pci
<1>2. /\ d[1] \in SUBSET Bits /\ d[2] \in SUBSET Bits /\ {0} \in SUBSET Bits /\ {2} \in SUBSET Bits
      /\ {} \in SUBSET Bits /\ Bits \in SUBSET Bits
      /\ d[1] \cup {1} \in SUBSET Bits /\ d[2] \cup {1} \in SUBSET Bits
  BY <1>1 DEF Bits
<1> DEFINE P(a) == a \in {Read("MPIOLVL")} \cup {Write("MPIOLVL", on, off) : on, off \in SUBSET Bits}
<1>3. PICK s : /\ h = Do(s) /\ Len(s) \in Nat /\ s \in Seq(Accesses)
               /\ \A i \in 1..Len(s) : P(s[i])
  <2> DEFINE first == d[1]
             second == d[2]
             t == <<Read("MPIOLVL"), Write("MPIOLVL", first, {0}), Write("MPIOLVL", first \cup {1}, {0}),
                    Write("MPIOLVL", first, Bits), Write("MPIOLVL", second, Bits),
                    Write("MPIOLVL", second \cup {1}, Bits), Write("MPIOLVL", second, Bits),
                    Write("MPIOLVL", {2}, Bits), Write("MPIOLVL", {}, Bits), Write("MPIOLVL", {}, {})>>
  <2>1. h = Do(t)
    BY <1>1 DEF ClockBits, Load, Restore
  <2>2. P(Read("MPIOLVL")) /\ \A on, off \in SUBSET Bits : P(Write("MPIOLVL", on, off))
    OBVIOUS
  <2>3. \A a : P(a) => a \in Accesses
    BY AccessTypes DEF BoardReg
  <2> HIDE DEF P
  <2>4. \A i \in 1..10 : P(t[i])
    BY <1>2, <2>2
  <2>5. t \in Seq(Accesses) /\ Len(t) = 10
    BY <1>2, <2>2, <2>3
  <2> QED BY <2>1, <2>4, <2>5
<1>4. \A a : P(a) => a.io \in {"read", "write"} /\ a.reg = "MPIOLVL"
  BY DEF Read, Write, Access
<1> HIDE DEF P
<1>5. \A i \in 1..Len(s) : s[i].io \in {"read", "write"} /\ s[i].reg = "MPIOLVL"
  BY <1>3, <1>4
<1>6. Plain(s) /\ FctrSafe(s) /\ Storeless(s) /\ Rateless(s)
  BY <1>3, <1>5 DEF Plain, FctrSafe, Storeless, Rateless
<1> QED BY <1>3, <1>6 DEF Tidy, Do

(* The trigger level setters.                                              *)
LEMMA TriggerSetterTidy ==
  ASSUME NEW level \in Level, NEW x \in Nat, NEW h, h = SetTrigger(TriggerLimit, RegisterOf[level], x)
  PROVE  Tidy(h) /\ LevelPart(level, x, h) /\ Rateless(h.steps)
<1> DEFINE r == RegisterOf[level]
<1>0. EINVAL \in Nat \ {0} /\ \A l \in Level : (RegisterOf[l] = r <=> l = level)
  BY DEF EINVAL, Level, RegisterOf
<1>1. r \in {"TXTRG", "RXTRG"} /\ level # "sample_rate" /\ level \in {"tx_trigger", "rx_trigger"}
  BY DEF Level, RegisterOf
<1> HIDE DEF r
<1>2. CASE x > TriggerLimit
  <2>1. h = Refuse(EINVAL)
    BY <1>2 DEF SetTrigger
  <2> QED BY <1>0, <2>1, RefusalParts, RefusalTidy
<1>3. CASE ~(x > TriggerLimit)
  <2>1. h = Do(<<Store(r, x)>>) /\ x \in Byte
    BY <1>3 DEF SetTrigger, TriggerLimit, Byte, r
  <2>2. <<Store(r, x)>> \in Seq(Accesses)
    BY <1>1, <2>1, AccessTypes DEF ByteReg
  <2>3. /\ Plain(<<Store(r, x)>>) /\ FctrSafe(<<Store(r, x)>>) /\ Rateless(<<Store(r, x)>>)
        /\ \A q : q # r => Spares(<<Store(r, x)>>, q)
    BY <1>1 DEF Plain, FctrSafe, Rateless, Spares, Store, Access
  <2>4. h.steps = <<Store(r, x)>> /\ h.status = 0
    BY <2>1 DEF Do
  <2>5. LevelPart(level, x, h)
    <3> SUFFICES ASSUME NEW l \in Level
                 PROVE  IF level = l /\ h.status = 0
                        THEN h.steps = <<Store(RegisterOf[l], x)>> /\ x \in Byte
                        ELSE Spares(h.steps, RegisterOf[l])
      BY DEF LevelPart
    <3>1. CASE l = level
      BY <2>1, <2>4, <3>1 DEF r
    <3>2. CASE l # level
      BY <1>0, <2>3, <2>4, <3>2
    <3> QED BY <3>1, <3>2
  <2> QED BY <2>2, <2>3, <2>4, <2>5 DEF Tidy
<1> QED BY <1>2, <1>3

(* Every setter but the baud rate's.                                       *)
LEMMA SettersTidy ==
  ASSUME NEW channel \in Channel, NEW name, NEW x \in Int, name # "isochronous" => x \in Nat, NEW rate,
         name # "baud_rate" \/ Family # "PCIe",
         NEW h \in Setter(channel, name, x, rate)
  PROVE  Tidy(h) /\ LevelPart(name, x, h) /\ RatePart(channel, name, x, h)
<1> DEFINE Good == Tidy(h) /\ LevelPart(name, x, h) /\ RatePart(channel, name, x, h)
<1> SUFFICES Good
  OBVIOUS
<1>1. ASSUME Tidy(h), Storeless(h.steps), Rateless(h.steps), name \notin Level, name # "sample_rate"
      PROVE  Good
  BY <1>1, StorelessParts
<1> HIDE DEF Good
<1>2. CASE name = "sample_rate"
  <2>1. h = fastcom_set_sample_rate(channel, x)
    BY <1>2 DEF Setter
  <2>2. Tidy(h) /\ Storeless(h.steps) /\ (h.status = 0 => x \in {4, 8, 16})
    BY <2>1, RateSetterTidy
  <2>3. name \notin Level
    BY <1>2 DEF Level
  <2>4. LevelPart(name, x, h)
    BY <1>2, <2>2, <2>3, StorelessParts
  <2>5. h.status # 0 => Rateless(h.steps)
    BY <2>2 DEF Tidy, Rateless
  <2> QED BY <1>2, <2>1, <2>2, <2>4, <2>5 DEF Good, RatePart
<1>3. CASE name \in Level
  <2>1. h = SetTrigger(TriggerLimit, RegisterOf[name], x) /\ x \in Nat
    BY <1>3 DEF Setter, Level, RegisterOf
  <2>2. Tidy(h) /\ LevelPart(name, x, h) /\ Rateless(h.steps)
    BY <1>3, <2>1, TriggerSetterTidy
  <2>3. name # "sample_rate"
    BY <1>3 DEF Level
  <2> QED BY <2>2, <2>3 DEF Good, RatePart
<1>4. CASE name \in {"rs485", "echo_cancel"} \/ (name = "termination" /\ Family = "PCIe")
  <2>1. h \in {fastcom_set_rs485(channel, x), fastcom_set_echo_cancel(channel, x),
               fastcom_set_termination_pcie(channel, x)}
    BY <1>4 DEF Setter
  <2> QED BY <1>1, <1>4, <2>1, PinSettersTidy DEF Level
<1>5. CASE name = "clock_bits" /\ Family = "PCI"
  <2>1. h \in fastcom_set_clock_bits_pci
    BY <1>5 DEF Setter
  <2> QED BY <1>1, <1>5, <2>1, ClockBitsTidy DEF Level
<1>6. CASE /\ name \notin Level \cup {"sample_rate", "rs485", "echo_cancel"}
           /\ ~(name = "termination" /\ Family = "PCIe") /\ ~(name = "clock_bits" /\ Family = "PCI")
  <2>1. h = Refuse(EPROTONOSUPPORT)
    BY <1>6 DEF Setter, Level
  <2>2. EPROTONOSUPPORT \in Nat \ {0}
    BY DEF EPROTONOSUPPORT
  <2> QED BY <2>1, <2>2, RefusalParts DEF Good
<1> QED BY <1>2, <1>3, <1>4, <1>5, <1>6

(* Every getter but the baud rate's.                                       *)
LEMMA GettersTidy ==
  ASSUME NEW name, name # "baud_rate" \/ Family # "PCIe", NEW h, h = Getter(name)
  PROVE  Tidy(h) /\ Storeless(h.steps) /\ Rateless(h.steps)
<1>1. ASSUME NEW r \in UartReg \cup BoardReg, r # "LCR"
      PROVE  Tidy(Do(<<Read(r)>>)) /\ Storeless(<<Read(r)>>) /\ Rateless(<<Read(r)>>)
  <2>1. <<Read(r)>> \in Seq(Accesses)
    BY AccessTypes
  <2>2. Plain(<<Read(r)>>) /\ FctrSafe(<<Read(r)>>) /\ Storeless(<<Read(r)>>) /\ Rateless(<<Read(r)>>)
    BY <1>1 DEF Plain, FctrSafe, Storeless, Rateless, Read, Access
  <2> QED BY <2>1, <2>2 DEF Tidy, Do
<1>2. \/ h = Do(<< >>) \/ h = Refuse(EPROTONOSUPPORT)
      \/ \E r \in {"FCTR", "MPIOLVL", "MPIOLVLH"} : h = Do(<<Read(r)>>)
  <2>1. \/ h = Do(<< >>) \/ h = Refuse(EPROTONOSUPPORT)
        \/ h \in {fastcom_get_rs485_pci, fastcom_get_echo_cancel, fastcom_get_termination_pcie}
    BY DEF Getter
  <2>2. /\ fastcom_get_rs485_pci = Do(<<Read("FCTR")>>)
        /\ fastcom_get_termination_pcie = Do(<<Read("MPIOLVL")>>)
        /\ \E r \in {"MPIOLVL", "MPIOLVLH"} : fastcom_get_echo_cancel = Do(<<Read(r)>>)
    BY DEF fastcom_get_rs485_pci, fastcom_get_termination_pcie, fastcom_get_echo_cancel, EchoRegister
  <2> QED BY <2>1, <2>2
<1>3. CASE h = Do(<< >>) \/ h = Refuse(EPROTONOSUPPORT)
  BY <1>3, RefusalTidy DEF EPROTONOSUPPORT
<1>4. CASE \E r \in {"FCTR", "MPIOLVL", "MPIOLVLH"} : h = Do(<<Read(r)>>)
  <2>1. PICK r \in {"FCTR", "MPIOLVL", "MPIOLVLH"} : h = Do(<<Read(r)>>)
    BY <1>4
  <2>2. r \in UartReg \cup BoardReg /\ r # "LCR" /\ h.steps = <<Read(r)>>
    BY <2>1 DEF UartReg, BoardReg, Do
  <2> QED BY <1>1, <2>1, <2>2
<1> QED BY <1>2, <1>3, <1>4

(* The start-up calls of no setting.                                       *)
LEMMA BootTidy ==
  ASSUME NEW name
  PROVE  Tidy(Boot(name)) /\ Storeless(Boot(name).steps) /\ Rateless(Boot(name).steps)
<1> DEFINE Good(s) == Tidy(Do(s)) /\ Storeless(s) /\ Rateless(s)
<1>0. {} \in SUBSET Bits /\ {0} \in SUBSET Bits /\ {6, 7} \in SUBSET Bits /\ Bits \in SUBSET Bits
  BY DEF Bits
<1>1. Good(<<Write("MPIOSEL", {}, Bits)>>)
  <2>1. <<Write("MPIOSEL", {}, Bits)>> \in Seq(Accesses)
    BY <1>0, AccessTypes DEF BoardReg
  <2> QED BY <2>1 DEF Tidy, Do, Plain, FctrSafe, Storeless, Rateless, Write, Access
<1>2. Good(<<Write("MPIOSEL", {}, Bits), Write("MPIOSELH", {}, Bits)>>)
  <2>1. <<Write("MPIOSEL", {}, Bits), Write("MPIOSELH", {}, Bits)>> \in Seq(Accesses)
    BY <1>0, AccessTypes DEF BoardReg
  <2> QED BY <2>1 DEF Tidy, Do, Plain, FctrSafe, Storeless, Rateless, Write, Access
<1>3. Good(<<Read("FCTR"), Write("FCR", {0}, Bits), Write("FCTR", {6, 7}, {})>>)
  <2>1. <<Read("FCTR"), Write("FCR", {0}, Bits), Write("FCTR", {6, 7}, {})>> \in Seq(Accesses)
    BY <1>0, AccessTypes DEF UartReg
  <2> QED BY <2>1 DEF Tidy, Do, Plain, FctrSafe, Storeless, Rateless, Write, Read, Access
<1>4. \E s : Boot(name) = Do(s) /\ Good(s)
  <2> HIDE DEF Good
  <2> QED BY <1>1, <1>2, <1>3 DEF Boot, fastcom_init_gpio, PciOutputs, PcieOutputs, fastcom_init_triggers, Load
<1> QED BY <1>4 DEF Do

\* The accesses of pcie_set_baud_rate and pcie_get_baud_rate.
SetBaud(x) == <<Read("LCR"), Write("LCR", {7}, {}), Divide(x), Fetch("DLD"),
                StoreDivisor("DLM"), StoreDivisor("DLL"), StoreDivisor("DLD"), Restore("LCR")>>
GetBaud    == <<Read("LCR"), Write("LCR", {7}, {}), Fetch("DLM"), Fetch("DLL"), Fetch("DLD"),
                Quotient, Restore("LCR")>>

(* They do without the registers of the other settings.                    *)
LEMMA BaudTidy ==
  ASSUME NEW s, (\E x \in Nat : s = SetBaud(x)) \/ s = GetBaud
  PROVE  /\ s \in Seq(Accesses) /\ s # << >>
         /\ FctrSafe(s) /\ Storeless(s) /\ Rateless(s)
<1>0. /\ {} \in SUBSET Bits /\ {7} \in SUBSET Bits /\ "LCR" \in UartReg \cup BoardReg
      /\ "DLM" \in Divisor /\ "DLL" \in Divisor /\ "DLD" \in Divisor
  BY DEF Bits, UartReg, Divisor
<1>1. CASE \E x \in Nat : s = SetBaud(x)
  <2>1. PICK x \in Nat : s = SetBaud(x)
    BY <1>1
  <2>2. s \in Seq(Accesses) /\ s # << >>
    <3>1. /\ Read("LCR") \in Accesses /\ Write("LCR", {7}, {}) \in Accesses /\ Divide(x) \in Accesses
          /\ Fetch("DLD") \in Accesses /\ StoreDivisor("DLM") \in Accesses
          /\ StoreDivisor("DLL") \in Accesses /\ StoreDivisor("DLD") \in Accesses
          /\ Restore("LCR") \in Accesses
      BY <1>0, AccessTypes
    <3> QED BY <2>1, <3>1 DEF SetBaud
  <2>3. FctrSafe(s) /\ Storeless(s) /\ Rateless(s)
    BY <2>1, SMTT(30) DEF SetBaud, FctrSafe, Storeless, Rateless, Read, Write, Restore, Divide, Fetch,
       StoreDivisor, Access
  <2> QED BY <2>2, <2>3
<1>2. CASE s = GetBaud
  <2>2. s \in Seq(Accesses) /\ s # << >>
    <3>1. /\ Read("LCR") \in Accesses /\ Write("LCR", {7}, {}) \in Accesses /\ Quotient \in Accesses
          /\ Fetch("DLD") \in Accesses /\ Fetch("DLM") \in Accesses /\ Fetch("DLL") \in Accesses
          /\ Restore("LCR") \in Accesses
      BY <1>0, AccessTypes
    <3> QED BY <1>2, <3>1 DEF GetBaud
  <2>3. FctrSafe(s) /\ Storeless(s) /\ Rateless(s)
    BY <1>2, SMTT(30) DEF GetBaud, FctrSafe, Storeless, Rateless, Read, Write, Restore, Fetch,
       Quotient, Access
  <2> QED BY <2>2, <2>3
<1> QED BY <1>1, <1>2

(* What the handlers of the baud rate are.                                 *)
LEMMA BaudHandlers ==
  ASSUME Family = "PCIe", NEW channel, NEW x \in Nat, NEW rate
  PROVE  /\ \A h \in Setter(channel, "baud_rate", x, rate) : h = Refuse(EINVAL) \/ h = Do(SetBaud(x))
         /\ Getter("baud_rate") = Do(GetBaud)
<1>1. Setter(channel, "baud_rate", x, rate) = {pcie_set_baud_rate(x, rate)}
  BY DEF Setter
<1>2. pcie_set_baud_rate(x, rate) = Refuse(EINVAL) \/ pcie_set_baud_rate(x, rate) = Do(SetBaud(x))
  BY DEF pcie_set_baud_rate, SetBaud
<1>3. Getter("baud_rate") = Do(GetBaud)
  BY DEF Getter, pcie_get_baud_rate, GetBaud
<1> QED BY <1>1, <1>2, <1>3

-----------------------------------------------------------------------------
(* The calls of serialfc_port_new.                                         *)

(* Start-up of a port is 11 calls in the PCI family, 10 in the other.      *)
LEMMA StartUpLength ==
  /\ StepsPerPort = IF Family = "PCI" THEN 11 ELSE 10
  /\ PlaceOf["sample_rate"] = IF Family = "PCI" THEN 5 ELSE 4
  /\ PlaceOf["tx_trigger"] = PlaceOf["sample_rate"] + 1
  /\ PlaceOf["rx_trigger"] = PlaceOf["sample_rate"] + 2
<1> DEFINE first == << Call("boot", "gpio", 0), Call("boot", "triggers", 0) >>
           last  == << Call("set", "rs485", 0),        Call("set", "sample_rate", 16),
                       Call("set", "tx_trigger", 32),  Call("set", "rx_trigger", 32),
                       Call("set", "termination", 1),  Call("set", "echo_cancel", 0),
                       Call("set", "isochronous", -1), Call("set", "frame_length", 1) >>
<1>1. StepsPerPort = IF Family = "PCI" THEN 11 ELSE 10
  <2>1. CASE Family = "PCI"
    <3>1. serialfc_port_new = first \o <<Call("set", "clock_bits", 0)>> \o last
      BY <2>1 DEF serialfc_port_new
    <3> QED BY <2>1, <3>1 DEF StepsPerPort
  <2>2. CASE Family # "PCI"
    <3>1. serialfc_port_new = first \o << >> \o last
      BY <2>2 DEF serialfc_port_new
    <3> QED BY <2>2, <3>1 DEF StepsPerPort
  <2> QED BY <2>1, <2>2
<1> QED BY <1>1 DEF PlaceOf

(* Its calls in their order.                                               *)
LEMMA StartUpCalls ==
  ASSUME NEW i \in 1..StepsPerPort, NEW r, r = serialfc_port_new[i]
  PROVE  /\ r.kind \in {"boot", "set"} /\ r.name \in CallName /\ r.arg \in Int
         /\ r.kind = "boot" => r.name \in {"gpio", "triggers"}
         /\ r.name # "isochronous" => r.arg \in Nat
         /\ r.name # "baud_rate"
         /\ r.kind = "boot" <=> i \in {1, 2}
         /\ r.name = "triggers" <=> i = 2
         /\ r.name = "sample_rate" <=> i = PlaceOf["sample_rate"]
         /\ r.name = "tx_trigger" <=> i = PlaceOf["tx_trigger"]
         /\ r.name = "rx_trigger" <=> i = PlaceOf["rx_trigger"]
         /\ i = PlaceOf["sample_rate"] => r.arg = 16
         /\ i \in {PlaceOf["tx_trigger"], PlaceOf["rx_trigger"]} => r.arg = 32
<1> DEFINE first == << Call("boot", "gpio", 0), Call("boot", "triggers", 0) >>
           last  == << Call("set", "rs485", 0),        Call("set", "sample_rate", 16),
                       Call("set", "tx_trigger", 32),  Call("set", "rx_trigger", 32),
                       Call("set", "termination", 1),  Call("set", "echo_cancel", 0),
                       Call("set", "isochronous", -1), Call("set", "frame_length", 1) >>
<1>1. CASE Family = "PCI"
  <2>1. serialfc_port_new = first \o <<Call("set", "clock_bits", 0)>> \o last
    BY <1>1 DEF serialfc_port_new
  <2>2. \/ i \in 1..2 /\ r = first[i]
        \/ i = 3 /\ r = Call("set", "clock_bits", 0)
        \/ i \in 4..11 /\ r = last[i - 3]
    BY <1>1, <2>1, StartUpLength
  <2>3. CASE i \in 1..2 /\ r = first[i]
    BY <1>1, <2>3, StartUpLength DEF Call, CallName
  <2>4. CASE i = 3 /\ r = Call("set", "clock_bits", 0)
    BY <1>1, <2>4, StartUpLength DEF Call, CallName, SettingName, OtherName
  <2>5. CASE i \in 4..11 /\ r = last[i - 3]
    BY <1>1, <2>5, StartUpLength DEF Call, CallName, SettingName, OtherName
  <2> QED BY <2>2, <2>3, <2>4, <2>5
<1>2. CASE Family # "PCI"
  <2>1. serialfc_port_new = first \o << >> \o last
    BY <1>2 DEF serialfc_port_new
  <2>2. \/ i \in 1..2 /\ r = first[i]
        \/ i \in 3..10 /\ r = last[i - 2]
    BY <1>2, <2>1, StartUpLength
  <2>3. CASE i \in 1..2 /\ r = first[i]
    BY <1>2, <2>3, StartUpLength DEF Call, CallName
  <2>4. CASE i \in 3..10 /\ r = last[i - 2]
    BY <1>2, <2>4, StartUpLength DEF Call, CallName, SettingName, OtherName
  <2> QED BY <2>2, <2>3, <2>4
<1> QED BY <1>1, <1>2

(* Which call of which port comes after b calls.                           *)
LEMMA BootArithmetic ==
  ASSUME NEW b \in Nat, b < NumPorts * StepsPerPort, NEW ch \in Channel, NEW m \in 1..StepsPerPort
  PROVE  /\ (b % StepsPerPort) + 1 \in 1..StepsPerPort
         /\ b \div StepsPerPort \in Channel
         /\ b + 1 >= ch * StepsPerPort + m /\ ~(b >= ch * StepsPerPort + m)
              => b \div StepsPerPort = ch /\ (b % StepsPerPort) + 1 = m
         /\ b \div StepsPerPort = ch
              => b = ch * StepsPerPort + (b % StepsPerPort) /\ b < (ch + 1) * StepsPerPort
<1>0. ch \in Nat /\ StepsPerPort \in {10, 11} /\ NumPorts \in {2, 4, 8}
  BY StartUpLength, Channels
<1> DEFINE q == b \div StepsPerPort
<1>1. CASE StepsPerPort = 10
  <2>1. q \in Channel
    BY <1>0, <1>1, SMTT(30) DEF Channel
  <2> QED BY <1>0, <1>1, <2>1, SMTT(30)
<1>2. CASE StepsPerPort = 11
  <2>1. q \in Channel
    BY <1>0, <1>2, SMTT(30) DEF Channel
  <2> QED BY <1>0, <1>2, <2>1, SMTT(30)
<1> QED BY <1>0, <1>1, <1>2

(* A port that is started has been through all of it.                      *)
LEMMA ReadyProgrammed ==
  ASSUME boot \in [Card -> 0..NumPorts * StepsPerPort], NEW p \in Port, NEW n \in 1..StepsPerPort
  PROVE  Ready(p) => Programmed(p, n)
<1>1. p[1] \in Card /\ p[2] \in Nat /\ boot[p[1]] \in Nat /\ StepsPerPort \in {10, 11}
  BY StartUpLength, Channels DEF Port
<1>2. CASE StepsPerPort = 10
  BY <1>1, <1>2 DEF Ready, Programmed
<1>3. CASE StepsPerPort = 11
  BY <1>1, <1>3 DEF Ready, Programmed
<1> QED BY <1>1, <1>2, <1>3

-----------------------------------------------------------------------------
(* What a call under way consists of.                                      *)

(* What is known of a call's record.                                       *)
LEMMA CallFacts ==
  ASSUME TypeOK, NEW c \in Caller
  PROVE  /\ call[c] \in CallRecord /\ call[c].steps \in Seq(Accesses) /\ Len(call[c].steps) \in Nat
         /\ call[c].pc \in Nat \ {0} /\ call[c].arg \in Int
         /\ At(c) \in Port /\ At(c)[1] \in Card /\ At(c)[2] \in Channel /\ At(c) = <<At(c)[1], At(c)[2]>>
         /\ Busy(c) => call[c].kind \in {"set", "get", "boot"}
<1>1. call[c] \in CallRecord
  BY DEF TypeOK
<1>2. /\ call[c].steps \in Seq(Accesses) /\ call[c].pc \in Nat \ {0} /\ call[c].arg \in Int
      /\ At(c) \in Port /\ call[c].kind \in {"none", "set", "get", "boot"}
  BY <1>1 DEF CallRecord, At
<1>3. At(c)[1] \in Card /\ At(c)[2] \in Channel /\ At(c) = <<At(c)[1], At(c)[2]>>
  BY <1>2 DEF Port
<1> QED BY <1>1, <1>2, <1>3 DEF Busy

(* What the loader is at when it works on a port.                          *)
LEMMA LoaderAt ==
  ASSUME TypeOK, Attributed, NEW k \in Card, Busy(k)
  PROVE  LET ch == At(k)[2]
             i  == (boot[k] % StepsPerPort) + 1
         IN  /\ ch \in Channel /\ ch \in Nat /\ At(k) = <<k, ch>>
             /\ i \in 1..StepsPerPort
             /\ boot[k] \in Nat /\ boot[k] < NumPorts * StepsPerPort
             /\ boot[k] + 1 = ch * StepsPerPort + i /\ boot[k] < (ch + 1) * StepsPerPort
             /\ call[k].kind = serialfc_port_new[i].kind
             /\ call[k].name = serialfc_port_new[i].name
             /\ call[k].arg = serialfc_port_new[i].arg
<1>1. boot[k] \in Nat /\ boot[k] < NumPorts * StepsPerPort
  <2>1. boot[k] \in 0..NumPorts * StepsPerPort
    BY DEF TypeOK
  <2>2. NumPorts * StepsPerPort \in Nat
    BY StartUpLength, Channels
  <2> QED BY <2>1, <2>2 DEF Attributed
<1>2. 1 \in 1..StepsPerPort /\ 0 \in Channel
  BY StartUpLength, Channels DEF Channel
<1>3. /\ (boot[k] % StepsPerPort) + 1 \in 1..StepsPerPort
      /\ boot[k] \div StepsPerPort \in Channel
  BY <1>1, <1>2, BootArithmetic
<1>4. At(k) = <<k, boot[k] \div StepsPerPort>>
  BY DEF Attributed
<1>5. At(k)[2] = boot[k] \div StepsPerPort
  BY <1>4
<1>6. /\ boot[k] = At(k)[2] * StepsPerPort + (boot[k] % StepsPerPort)
      /\ boot[k] < (At(k)[2] + 1) * StepsPerPort
  BY <1>1, <1>2, <1>3, <1>5, BootArithmetic
<1>7. boot[k] % StepsPerPort \in Int /\ At(k)[2] \in Nat
  BY <1>1, <1>3, <1>5, StartUpLength, Channels
<1>8. boot[k] + 1 = At(k)[2] * StepsPerPort + ((boot[k] % StepsPerPort) + 1)
  <2>1. At(k)[2] * StepsPerPort \in Int
    BY <1>7, StartUpLength
  <2> QED BY <1>1, <1>6, <1>7, <2>1
<1>9. /\ call[k].kind = serialfc_port_new[(boot[k] % StepsPerPort) + 1].kind
      /\ call[k].name = serialfc_port_new[(boot[k] % StepsPerPort) + 1].name
      /\ call[k].arg = serialfc_port_new[(boot[k] % StepsPerPort) + 1].arg
  BY DEF Attributed
<1> QED BY <1>1, <1>3, <1>4, <1>5, <1>6, <1>7, <1>8, <1>9, Zenon

(* Who may have asked for what.                                            *)
LEMMA Asked ==
  ASSUME TypeOK, Attributed, NEW c \in Caller, Busy(c)
  PROVE  /\ call[c].name # "isochronous" => call[c].arg \in Nat
         /\ call[c].kind = "boot" => c \in Card
         /\ call[c].name = "baud_rate" => c \in User
         /\ c \in User => Ready(At(c)) /\ \A n \in 1..StepsPerPort : Programmed(At(c), n)
<1>1. CASE c \in Card
  <2>1. PICK i \in 1..StepsPerPort : /\ call[c].kind = serialfc_port_new[i].kind
                                     /\ call[c].name = serialfc_port_new[i].name
                                     /\ call[c].arg = serialfc_port_new[i].arg
    BY <1>1, LoaderAt
  <2> QED BY <1>1, <2>1, StartUpCalls, CallerAssumption
<1>2. CASE c \in User
  <2>1. Ready(At(c)) /\ call[c].kind # "boot" /\ (call[c].name # "isochronous" => call[c].arg \in Nat)
    BY <1>2 DEF Attributed
  <2>2. \A n \in 1..StepsPerPort : Programmed(At(c), n)
    BY <2>1, ReadyProgrammed, CallFacts DEF TypeOK
  <2> QED BY <1>2, <2>1, <2>2
<1> QED BY <1>1, <1>2 DEF Caller

InitSteps == <<Read("FCTR"), Write("FCR", {0}, Bits), Write("FCTR", {6, 7}, {})>>

(* What its accesses are.                                                  *)
LEMMA BusyShape ==
  ASSUME TypeOK, Served, Attributed, NEW c \in Caller, Busy(c)
  PROVE  LET s == call[c].steps
             x == call[c].arg
         IN
         /\ OnDivisor(c) =>
              /\ Family = "PCIe" /\ c \in User /\ x \in Nat /\ call[c].status = 0
              /\ \/ call[c].kind = "set" /\ s = SetBaud(x)
                 \/ call[c].kind = "get" /\ s = GetBaud
         /\ ~OnDivisor(c) => Plain(s)
         /\ FctrSafe(s)
         /\ \A level \in Level : IF Sets(c, level)
                                 THEN s = <<Store(RegisterOf[level], x)>> /\ x \in Byte
                                 ELSE Spares(s, RegisterOf[level])
         /\ IF Sets(c, "sample_rate")
            THEN s = fastcom_set_sample_rate(At(c)[2], x).steps /\ x \in {4, 8, 16}
            ELSE Rateless(s)
         /\ InitTriggers(c) => s = InitSteps
<1> DEFINE s == call[c].steps
           x == call[c].arg
           rate == cache[At(c)].sample_rate
           ch == At(c)[2]
<1>1. PICK h \in Handlers(ch, call[c], rate) : s = h.steps /\ call[c].status = h.status
  BY DEF Served
<1>2. call[c].kind \in {"set", "get", "boot"} /\ x \in Int /\ ch \in Channel
  BY CallFacts
<1>3. /\ call[c].name # "isochronous" => x \in Nat
      /\ call[c].kind = "boot" => c \in Card
      /\ call[c].name = "baud_rate" => c \in User /\ c \notin Card
  BY Asked, CallerAssumption
<1>4. ASSUME Tidy(h), LevelPart(call[c].name, x, h), RatePart(ch, call[c].name, x, h),
             call[c].kind = "set", ~OnDivisor(c)
      PROVE  /\ ~OnDivisor(c) /\ Plain(s) /\ FctrSafe(s) /\ ~InitTriggers(c)
             /\ \A level \in Level : IF Sets(c, level)
                                     THEN s = <<Store(RegisterOf[level], x)>> /\ x \in Byte
                                     ELSE Spares(s, RegisterOf[level])
             /\ IF Sets(c, "sample_rate")
                THEN s = fastcom_set_sample_rate(ch, x).steps /\ x \in {4, 8, 16}
                ELSE Rateless(s)
  <2>1. \A n : Sets(c, n) <=> call[c].name = n /\ h.status = 0
    BY <1>1, <1>4 DEF Sets
  <2>2. ~InitTriggers(c) /\ Plain(s) /\ FctrSafe(s)
    BY <1>1, <1>4 DEF InitTriggers, Tidy
  <2> QED BY <1>1, <1>4, <2>1, <2>2 DEF LevelPart, RatePart
<1>5. ASSUME FctrSafe(s), Storeless(s), Rateless(s), \A n \in Level \cup {"sample_rate"} : ~Sets(c, n)
      PROVE  /\ FctrSafe(s)
             /\ \A level \in Level : ~Sets(c, level) /\ Spares(s, RegisterOf[level])
             /\ ~Sets(c, "sample_rate") /\ Rateless(s)
  BY <1>5 DEF Storeless, Spares
<1>6. CASE call[c].kind = "set" /\ ~(call[c].name = "baud_rate" /\ Family = "PCIe")
  <2>1. h \in Setter(ch, call[c].name, x, rate)
    BY <1>1, <1>6 DEF Handlers
  <2>2. Tidy(h) /\ LevelPart(call[c].name, x, h) /\ RatePart(ch, call[c].name, x, h)
    BY <1>2, <1>3, <1>6, <2>1, SettersTidy
  <2>3. ~OnDivisor(c)
    <3>1. CASE call[c].name = "baud_rate" /\ Family # "PCIe"
      <4>1. Setter(ch, call[c].name, x, rate) = {Refuse(EPROTONOSUPPORT)}
        BY <3>1 DEF Setter
      <4>2. s = << >>
        BY <1>1, <2>1, <4>1 DEF Refuse
      <4> QED BY <4>2 DEF OnDivisor
    <3>2. CASE call[c].name # "baud_rate"
      BY <3>2 DEF OnDivisor
    <3> QED BY <1>6, <3>1, <3>2
  <2> QED BY <1>4, <1>6, <2>2, <2>3
<1>7. CASE call[c].kind = "get" /\ ~(call[c].name = "baud_rate" /\ Family = "PCIe")
  <2>1. h = Getter(call[c].name)
    BY <1>1, <1>7 DEF Handlers
  <2>2. Tidy(h) /\ Storeless(s) /\ Rateless(s)
    BY <1>1, <1>7, <2>1, GettersTidy
  <2>3. \A n : ~Sets(c, n)
    BY <1>7 DEF Sets
  <2>4. ~OnDivisor(c) /\ ~InitTriggers(c)
    <3>1. CASE call[c].name = "baud_rate" /\ Family # "PCIe"
      <4>1. Getter(call[c].name) = Refuse(EPROTONOSUPPORT)
        BY <3>1 DEF Getter
      <4>2. s = << >>
        BY <1>1, <2>1, <4>1 DEF Refuse
      <4> QED BY <1>7, <4>2 DEF OnDivisor, InitTriggers
    <3>2. CASE call[c].name # "baud_rate"
      BY <1>7, <3>2 DEF OnDivisor, InitTriggers
    <3> QED BY <1>7, <3>1, <3>2
  <2> QED BY <1>1, <1>5, <2>2, <2>3, <2>4 DEF Tidy
<1>8. CASE call[c].kind = "boot"
  <2>1. h = Boot(call[c].name)
    BY <1>1, <1>8 DEF Handlers
  <2>2. Tidy(h) /\ Storeless(s) /\ Rateless(s)
    BY <1>1, <2>1, BootTidy
  <2>3. \A n : ~Sets(c, n)
    BY <1>8 DEF Sets
  <2>4. ~OnDivisor(c)
    BY <1>3, <1>8 DEF OnDivisor
  <2>5. InitTriggers(c) => s = InitSteps
    BY <1>1, <2>1 DEF InitTriggers, Boot, fastcom_init_triggers, Do, Load, InitSteps
  <2> QED BY <1>1, <1>5, <2>2, <2>3, <2>4, <2>5 DEF Tidy
<1>9. CASE call[c].kind \in {"set", "get"} /\ call[c].name = "baud_rate" /\ Family = "PCIe"
  <2>0. x \in Nat /\ c \in User
    BY <1>3, <1>9
  <2>1. \/ s = << >>
        \/ call[c].kind = "set" /\ h = Do(SetBaud(x))
        \/ call[c].kind = "get" /\ h = Do(GetBaud)
    <3>1. CASE call[c].kind = "set"
      <4>1. h \in Setter(ch, "baud_rate", x, rate)
        BY <1>1, <1>9, <3>1 DEF Handlers
      <4>2. h = Refuse(EINVAL) \/ h = Do(SetBaud(x))
        BY <1>9, <2>0, <4>1, BaudHandlers
      <4> QED BY <1>1, <3>1, <4>2 DEF Refuse
    <3>2. CASE call[c].kind = "get"
      <4>1. h = Getter("baud_rate")
        BY <1>1, <1>9, <3>2 DEF Handlers
      <4> QED BY <1>9, <2>0, <3>2, <4>1, BaudHandlers
    <3> QED BY <1>9, <3>1, <3>2
  <2>2. \A n \in Level \cup {"sample_rate"} : ~Sets(c, n)
    BY <1>9 DEF Sets, Level
  <2>3. ~InitTriggers(c)
    BY <1>9 DEF InitTriggers
  <2>4. CASE s = << >>
    <3>1. FctrSafe(s) /\ Storeless(s) /\ Rateless(s) /\ Plain(s)
      BY <2>4 DEF FctrSafe, Storeless, Rateless, Plain
    <3>2. ~OnDivisor(c)
      BY <2>4 DEF OnDivisor
    <3> QED BY <1>5, <2>2, <2>3, <3>1, <3>2
  <2>5. CASE h = Do(SetBaud(x)) /\ call[c].kind = "set"
    <3>1. s = SetBaud(x) /\ call[c].status = 0
      BY <1>1, <2>5 DEF Do
    <3>2. FctrSafe(s) /\ Storeless(s) /\ Rateless(s) /\ s # << >>
      BY <2>0, <3>1, BaudTidy
    <3>3. OnDivisor(c)
      BY <1>9, <3>2 DEF OnDivisor
    <3> QED BY <1>5, <1>9, <2>0, <2>2, <2>3, <2>5, <3>1, <3>2, <3>3
  <2>6. CASE h = Do(GetBaud) /\ call[c].kind = "get"
    <3>1. s = GetBaud /\ call[c].status = 0
      BY <1>1, <2>6 DEF Do
    <3>2. FctrSafe(s) /\ Storeless(s) /\ Rateless(s) /\ s # << >>
      BY <2>0, <3>1, BaudTidy
    <3>3. OnDivisor(c)
      BY <1>9, <3>2 DEF OnDivisor
    <3> QED BY <1>5, <1>9, <2>0, <2>2, <2>3, <2>6, <3>1, <3>2, <3>3
  <2> QED BY <2>1, <2>4, <2>5, <2>6
<1> QED BY <1>2, <1>6, <1>7, <1>8, <1>9

(* Whatever is asked for, its handler is a sequence of accesses.           *)
LEMMA RequestsHandled ==
  ASSUME NEW channel \in Channel, NEW request, NEW rate,
         \/ request \in Calls[channel]
         \/ \E i \in 1..StepsPerPort : request = serialfc_port_new[i],
         NEW h \in Handlers(channel, request, rate)
  PROVE  /\ request.kind \in {"set", "get", "boot"} /\ request.name \in CallName /\ request.arg \in Int
         /\ h.steps \in Seq(Accesses) /\ h.status \in Int
<1>1. /\ request.kind \in {"set", "get", "boot"} /\ request.name \in CallName /\ request.arg \in Int
      /\ request.name # "isochronous" => request.arg \in Nat
  <2>1. CASE request \in Calls[channel]
    <3>1. /\ request.kind \in {"set", "get"} /\ request.name \in SettingName \cup OtherName
          /\ request.arg \in Int /\ (request.name # "isochronous" => request.arg \in Nat)
      BY <2>1, CallsAssumption
    <3> QED BY <3>1 DEF CallName
  <2>2. CASE \E i \in 1..StepsPerPort : request = serialfc_port_new[i]
    BY <2>2, StartUpCalls
  <2> QED BY <2>1, <2>2
<1>2. CASE request.kind = "set" /\ ~(request.name = "baud_rate" /\ Family = "PCIe")
  <2>1. h \in Setter(channel, request.name, request.arg, rate)
    BY <1>2 DEF Handlers
  <2> QED BY <1>1, <1>2, <2>1, SettersTidy DEF Tidy
<1>3. CASE request.kind = "get" /\ ~(request.name = "baud_rate" /\ Family = "PCIe")
  <2>1. h = Getter(request.name)
    BY <1>3 DEF Handlers
  <2> QED BY <1>1, <1>3, <2>1, GettersTidy DEF Tidy
<1>4. CASE request.kind = "boot"
  <2>1. h = Boot(request.name)
    BY <1>4 DEF Handlers
  <2> QED BY <1>1, <2>1, BootTidy DEF Tidy
<1>5. CASE request.kind \in {"set", "get"} /\ request.name = "baud_rate" /\ Family = "PCIe"
  <2>0. request.arg \in Nat /\ EINVAL \in Int
    BY <1>1, <1>5 DEF EINVAL
  <2>1. h = Refuse(EINVAL) \/ (\E s : h = Do(s) /\ ((\E x \in Nat : s = SetBaud(x)) \/ s = GetBaud))
    <3>1. CASE request.kind = "set"
      <4>1. h \in Setter(channel, "baud_rate", request.arg, rate)
        BY <1>5, <3>1 DEF Handlers
      <4> QED BY <1>5, <2>0, <4>1, BaudHandlers
    <3>2. CASE request.kind = "get"
      <4>1. h = Getter("baud_rate")
        BY <1>5, <3>2 DEF Handlers
      <4> QED BY <1>5, <2>0, <4>1, BaudHandlers
    <3> QED BY <1>5, <3>1, <3>2
  <2>2. CASE h = Refuse(EINVAL)
    BY <1>1, <2>0, <2>2, RefusalTidy DEF Tidy
  <2>3. CASE \E s : h = Do(s) /\ ((\E x \in Nat : s = SetBaud(x)) \/ s = GetBaud)
    BY <1>1, <2>3, BaudTidy DEF Do
  <2> QED BY <2>1, <2>2, <2>3
<1> QED BY <1>1, <1>2, <1>3, <1>4, <1>5

-----------------------------------------------------------------------------
(* What one access changes.                                                *)

\* The call record r one access later, with what that access worked out.
Moved(r, kept, got, divisor, value) ==
  [kind |-> r.kind, name |-> r.name, arg |-> r.arg, port |-> r.port, steps |-> r.steps,
   pc |-> r.pc + 1, status |-> r.status, kept |-> kept, got |-> got, divisor |-> divisor,
   value |-> value]

Kept == [UartReg \cup BoardReg -> SUBSET Bits]
Got  == [Divisor -> Byte]

(* The ways in which an access changes its call record.                    *)
LEMMA MovedTypes ==
  ASSUME NEW r \in CallRecord, NEW k \in Kept, NEW g \in Got, NEW d \in Nat, NEW v \in Int
  PROVE  /\ Moved(r, k, g, d, v) \in CallRecord
         /\ r.kept \in Kept /\ r.got \in Got /\ r.divisor \in Nat /\ r.value \in Int
         /\ [r EXCEPT !.pc = @ + 1] = Moved(r, r.kept, r.got, r.divisor, r.value)
         /\ [r EXCEPT !.kept = k, !.pc = @ + 1] = Moved(r, k, r.got, r.divisor, r.value)
         /\ [r EXCEPT !.got = g, !.pc = @ + 1] = Moved(r, r.kept, g, r.divisor, r.value)
         /\ [r EXCEPT !.divisor = d, !.pc = @ + 1] = Moved(r, r.kept, r.got, d, r.value)
         /\ [r EXCEPT !.value = v, !.pc = @ + 1] = Moved(r, r.kept, r.got, r.divisor, v)
<1>1. r.kept \in Kept /\ r.got \in Got /\ r.divisor \in Nat /\ r.value \in Int
  BY DEF CallRecord, Kept, Got
<1>2. r.pc + 1 \in Nat \ {0}
  BY DEF CallRecord
<1>3. Moved(r, k, g, d, v) \in CallRecord
  BY <1>1, <1>2 DEF CallRecord, Moved, Kept, Got
<1> DEFINE of(kk, gg, dd, vv) ==
      [kind |-> r.kind, name |-> r.name, arg |-> r.arg, port |-> r.port, steps |-> r.steps,
       pc |-> r.pc, status |-> r.status, kept |-> kk, got |-> gg, divisor |-> dd, value |-> vv]
    same == of(r.kept, r.got, r.divisor, r.value)
<1>4. r = same
  BY DEF CallRecord
<1>5. \A kk, gg, dd, vv : [of(kk, gg, dd, vv) EXCEPT !.pc = @ + 1] = Moved(r, kk, gg, dd, vv)
  BY DEF Moved
<1>6. /\ [same EXCEPT !.kept = k] = of(k, r.got, r.divisor, r.value)
      /\ [same EXCEPT !.got = g] = of(r.kept, g, r.divisor, r.value)
      /\ [same EXCEPT !.divisor = d] = of(r.kept, r.got, d, r.value)
      /\ [same EXCEPT !.value = v] = of(r.kept, r.got, r.divisor, v)
  OBVIOUS
<1>7. /\ [r EXCEPT !.kept = k, !.pc = @ + 1] = [[r EXCEPT !.kept = k] EXCEPT !.pc = @ + 1]
      /\ [r EXCEPT !.got = g, !.pc = @ + 1] = [[r EXCEPT !.got = g] EXCEPT !.pc = @ + 1]
      /\ [r EXCEPT !.divisor = d, !.pc = @ + 1] = [[r EXCEPT !.divisor = d] EXCEPT !.pc = @ + 1]
      /\ [r EXCEPT !.value = v, !.pc = @ + 1] = [[r EXCEPT !.value = v] EXCEPT !.pc = @ + 1]
  OBVIOUS
<1>8. /\ [r EXCEPT !.kept = k] = of(k, r.got, r.divisor, r.value)
      /\ [r EXCEPT !.got = g] = of(r.kept, g, r.divisor, r.value)
      /\ [r EXCEPT !.divisor = d] = of(r.kept, r.got, d, r.value)
      /\ [r EXCEPT !.value = v] = of(r.kept, r.got, r.divisor, v)
  <2> HIDE DEF same, of
  <2> QED BY <1>4, <1>6
<1>9. [r EXCEPT !.pc = @ + 1] = Moved(r, r.kept, r.got, r.divisor, r.value)
  BY DEF CallRecord, Moved
<1>10. /\ [r EXCEPT !.kept = k, !.pc = @ + 1] = Moved(r, k, r.got, r.divisor, r.value)
       /\ [r EXCEPT !.got = g, !.pc = @ + 1] = Moved(r, r.kept, g, r.divisor, r.value)
       /\ [r EXCEPT !.divisor = d, !.pc = @ + 1] = Moved(r, r.kept, r.got, d, r.value)
       /\ [r EXCEPT !.value = v, !.pc = @ + 1] = Moved(r, r.kept, r.got, r.divisor, v)
  <2>1. /\ [of(k, r.got, r.divisor, r.value) EXCEPT !.pc = @ + 1] = Moved(r, k, r.got, r.divisor, r.value)
        /\ [of(r.kept, g, r.divisor, r.value) EXCEPT !.pc = @ + 1] = Moved(r, r.kept, g, r.divisor, r.value)
        /\ [of(r.kept, r.got, d, r.value) EXCEPT !.pc = @ + 1] = Moved(r, r.kept, r.got, d, r.value)
        /\ [of(r.kept, r.got, r.divisor, v) EXCEPT !.pc = @ + 1] = Moved(r, r.kept, r.got, r.divisor, v)
    BY <1>5
  <2> HIDE DEF same, of
  <2> QED BY <1>7, <1>8, <2>1
<1> QED BY <1>1, <1>3, <1>9, <1>10

(* A call that works with the divisor finds a sampling rate of a started   *)
(* port in the driver's memory.                                            *)
LEMMA RateAtHand ==
  ASSUME IInv, NEW c \in Caller, Busy(c), OnDivisor(c)
  PROVE  cache[At(c)].sample_rate \in {4, 8, 16}
<1>1. TypeOK /\ Served /\ Attributed /\ RateKnown
  BY DEF IInv
<1>2. c \in User /\ At(c) \in Port
  BY <1>1, BusyShape, CallFacts
<1>3. PlaceOf["sample_rate"] \in 1..StepsPerPort
  BY StartUpLength
<1>4. Programmed(At(c), PlaceOf["sample_rate"])
  BY <1>1, <1>2, <1>3, Asked
<1> QED BY <1>1, <1>2, <1>4 DEF RateKnown

(* Sixteenths of bytes, and what they are divided by.                      *)
LEMMA Quotients ==
  /\ Clock \in Nat
  /\ \A bytes \in Got : Sixteenths(bytes) \in Nat
  /\ \A n \in Nat, d \in Nat \ {0} : n \div d \in Nat
  /\ \A r \in Divisor, d \in Nat, b \in Byte : DivisorByte(r, d, b) \in Byte
<1>1. Clock \in Nat
  BY DEF Clock
<1>2. ASSUME NEW bytes \in Got PROVE Sixteenths(bytes) \in Nat
  <2>1. bytes["DLM"] \in 0..255 /\ bytes["DLL"] \in 0..255 /\ bytes["DLD"] \in 0..255
    BY DEF Got, Divisor, Byte
  <2> DEFINE m == bytes["DLM"]
             l == bytes["DLL"]
             b == bytes["DLD"]
  <2>2. Sixteenths(bytes) = m * 4096 + l * 16 + (b % 16)
    BY Zenon DEF Sixteenths
  <2> HIDE DEF m, l, b
  <2>3. m * 4096 + l * 16 + (b % 16) \in Nat
    <3>1. m \in 0..255 /\ l \in 0..255 /\ b \in 0..255
      BY <2>1 DEF m, l, b
    <3> QED BY <3>1
  <2> QED BY <2>2, <2>3
<1>3. ASSUME NEW n \in Nat, NEW d \in Nat \ {0} PROVE n \div d \in Nat
  BY SMTT(30)
<1>4. ASSUME NEW r \in Divisor, NEW d \in Nat, NEW b \in Byte PROVE DivisorByte(r, d, b) \in Byte
  <2>1. CASE r = "DLM"
    BY <2>1 DEF DivisorByte, Byte
  <2>2. CASE r = "DLL"
    BY <2>2 DEF DivisorByte, Byte
  <2>3. CASE r = "DLD"
    BY <2>3 DEF DivisorByte, Byte
  <2> QED BY <2>1, <2>2, <2>3 DEF Divisor
<1> QED BY <1>1, <1>2, <1>3, <1>4

(* What is known of a caller about to make an access.                      *)
LEMMA DoingFacts ==
  ASSUME IInv, NEW c \in Caller, NEW io, Doing(c, io)
  PROVE  /\ Busy(c) /\ At(c) \in Port /\ At(c)[1] \in Card /\ At(c)[2] \in Channel
         /\ call[c] \in CallRecord /\ call[c].steps \in Seq(Accesses)
         /\ call[c].pc \in Nat \ {0} /\ call[c].pc \in 1..Len(call[c].steps)
         /\ Pending(c) = call[c].steps[call[c].pc]
         /\ Pending(c) \in Accesses /\ Pending(c).io = io
         /\ io \in {"divide", "quotient", "fetch", "store_divisor"} => OnDivisor(c)
<1>1. TypeOK /\ Served /\ Attributed
  BY DEF IInv
<1>2. Busy(c) /\ call[c].pc <= Len(call[c].steps) /\ Pending(c).io = io
  BY DEF Doing
<1>3. /\ At(c) \in Port /\ At(c)[1] \in Card /\ At(c)[2] \in Channel
      /\ call[c] \in CallRecord /\ call[c].steps \in Seq(Accesses)
      /\ call[c].pc \in Nat \ {0} /\ Len(call[c].steps) \in Nat
  BY <1>1, CallFacts
<1>4. call[c].pc \in 1..Len(call[c].steps) /\ Pending(c) = call[c].steps[call[c].pc]
  BY <1>2, <1>3 DEF Pending
<1>5. Pending(c) \in Accesses
  BY <1>3, <1>4
<1>6. ~OnDivisor(c) => Plain(call[c].steps)
  BY <1>1, <1>2, BusyShape
<1>7. ~OnDivisor(c) => io \in {"read", "write", "store"}
  BY <1>2, <1>4, <1>6 DEF Plain
<1> QED BY <1>2, <1>3, <1>4, <1>5, <1>7

\* What the access of caller c works out: the bytes it has kept and fetched,
\* its divisor and its answer are k, g, d and v from now on.
Locals(c, k, g, d, v) ==
  LET a == Pending(c)
      p == At(c)
  IN  /\ k \in Kept /\ g \in Got /\ d \in Nat /\ v \in Int
      /\ IF a.io = "read" THEN k = [call[c].kept EXCEPT ![a.reg] = Held(p, a.reg)]
                          ELSE k = call[c].kept
      /\ IF a.io = "fetch" THEN DivisorOpen(p) => g = [call[c].got EXCEPT ![a.reg] = byte[p][a.reg]]
                           ELSE g = call[c].got
      /\ IF a.io = "divide" THEN /\ a.val * cache[p].sample_rate # 0
                                 /\ d = Clock \div (a.val * cache[p].sample_rate)
                            ELSE d = call[c].divisor
      /\ IF a.io = "quotient" THEN v = (Clock \div Sixteenths(call[c].got)) \div cache[p].sample_rate
                              ELSE v = call[c].value

Goes(c, k, g, d, v) ==
  /\ Locals(c, k, g, d, v)
  /\ call' = [call EXCEPT ![c] = Moved(call[c], k, g, d, v)]

(* What each access does to the record of its call.                        *)
LEMMA PerformedLocals ==
  ASSUME IInv, NEW c \in Caller, Perform(c)
  PROVE  \E k, g, d, v : Goes(c, k, g, d, v)
<1> DEFINE r == call[c]
           a == Pending(c)
           p == At(c)
<1>0. TypeOK /\ \E io \in BitIo \cup ByteIo \cup MathIo : Doing(c, io)
  BY DEF IInv, Perform, ReadStep, WriteStep, StoreStep, DivideStep, StoreDivisorStep, FetchStep, QuotientStep,
     BitIo, ByteIo, MathIo
<1>1. /\ Busy(c) /\ p \in Port /\ p[1] \in Card /\ r \in CallRecord /\ a \in Accesses
  BY <1>0, DoingFacts
<1>2. r.kept \in Kept /\ r.got \in Got /\ r.divisor \in Nat /\ r.value \in Int
  BY <1>1 DEF CallRecord, Kept, Got
<1>3. byte[p] \in [ByteReg -> Byte] /\ cache[p].sample_rate \in Nat
  BY <1>0, <1>1 DEF TypeOK, Cached
<1>4. ASSUME Advance(c), a.io \notin {"read", "fetch", "divide", "quotient"}
      PROVE  \E k, g, d, v : Goes(c, k, g, d, v)
  <2>1. call' = [call EXCEPT ![c] = [r EXCEPT !.pc = @ + 1]]
    BY <1>4 DEF Advance
  <2>2. [r EXCEPT !.pc = @ + 1] = Moved(r, r.kept, r.got, r.divisor, r.value)
    BY <1>1, <1>2, MovedTypes
  <2>3. call' = [call EXCEPT ![c] = Moved(r, r.kept, r.got, r.divisor, r.value)]
    BY <2>1, <2>2
  <2>4. Locals(c, r.kept, r.got, r.divisor, r.value)
    BY <1>2, <1>4 DEF Locals
  <2> QED BY <2>3, <2>4 DEF Goes
<1>5. CASE WriteStep(c) \/ StoreStep(c) \/ StoreDivisorStep(c)
  <2>1. Advance(c) /\ a.io \in {"write", "store", "store_divisor"}
    BY <1>5, DoingFacts DEF WriteStep, StoreStep, StoreDivisorStep
  <2> QED BY <1>4, <2>1
<1>6. CASE ReadStep(c)
  <2> DEFINE held == Held(p, a.reg)
             k == [r.kept EXCEPT ![a.reg] = held]
  <2>1. Doing(c, "read") /\ call' = [call EXCEPT ![c].kept[a.reg] = held, ![c].pc = @ + 1]
    BY <1>6 DEF ReadStep
  <2>2. a.io = "read" /\ a.reg \in UartReg \cup BoardReg
    BY <1>1, <2>1, DoingFacts DEF Accesses, BitIo
  <2>3. held \in SUBSET Bits
    BY <1>0, <1>1, <2>2 DEF Held, TypeOK
  <2>4. k \in Kept
    <3> HIDE DEF held
    <3> QED BY <1>2, <2>2, <2>3 DEF Kept
  <2>5. call' = [call EXCEPT ![c] = [r EXCEPT !.kept = k, !.pc = @ + 1]]
    <3> HIDE DEF held
    <3> QED BY <2>1
  <2>6. Locals(c, k, r.got, r.divisor, r.value)
    BY <1>2, <2>2, <2>4 DEF Locals
  <2> HIDE DEF k
  <2>7. [r EXCEPT !.kept = k, !.pc = @ + 1] = Moved(r, k, r.got, r.divisor, r.value)
    BY <1>1, <1>2, <2>4, MovedTypes
  <2>8. call' = [call EXCEPT ![c] = Moved(r, k, r.got, r.divisor, r.value)]
    BY <2>5, <2>7
  <2> QED BY <2>6, <2>8 DEF Goes
<1>7. CASE FetchStep(c)
  <2>1. PICK b \in IF DivisorOpen(p) THEN {byte[p][a.reg]} ELSE Junk :
          call' = [call EXCEPT ![c].got[a.reg] = b, ![c].pc = @ + 1]
    BY <1>7 DEF FetchStep
  <2>2. a.io = "fetch" /\ a.reg \in Divisor
    BY <1>1, <1>7, DoingFacts DEF FetchStep, Accesses
  <2>3. b \in Byte /\ (DivisorOpen(p) => b = byte[p][a.reg])
    BY <1>3, <2>1, <2>2, BytesAssumption DEF ByteReg
  <2> DEFINE g == [r.got EXCEPT ![a.reg] = b]
  <2>4. g \in Got
    BY <1>2, <2>2, <2>3 DEF Got
  <2>5. call' = [call EXCEPT ![c] = [r EXCEPT !.got = g, !.pc = @ + 1]]
    BY <2>1
  <2>6. Locals(c, r.kept, g, r.divisor, r.value)
    BY <1>2, <2>2, <2>3, <2>4 DEF Locals
  <2> HIDE DEF g
  <2>7. [r EXCEPT !.got = g, !.pc = @ + 1] = Moved(r, r.kept, g, r.divisor, r.value)
    BY <1>1, <1>2, <2>4, MovedTypes
  <2>8. call' = [call EXCEPT ![c] = Moved(r, r.kept, g, r.divisor, r.value)]
    BY <2>5, <2>7
  <2> QED BY <2>6, <2>8 DEF Goes
<1>8. CASE DivideStep(c)
  <2> DEFINE rate == a.val * cache[p].sample_rate
             d == Clock \div rate
  <2>1. /\ Doing(c, "divide") /\ rate # 0
        /\ call' = [call EXCEPT ![c].divisor = d, ![c].pc = @ + 1]
    BY <1>8 DEF DivideStep
  <2>2. a.io = "divide" /\ a.val \in Nat
    BY <1>1, <2>1, DoingFacts DEF Accesses
  <2>3. rate \in Nat \ {0}
    BY <1>3, <2>1, <2>2
  <2>4. d \in Nat
    <3> HIDE DEF rate
    <3> QED BY <2>3, Quotients
  <2>5. call' = [call EXCEPT ![c] = [r EXCEPT !.divisor = d, !.pc = @ + 1]]
    <3> HIDE DEF d
    <3> QED BY <2>1
  <2>6. Locals(c, r.kept, r.got, d, r.value)
    BY <1>2, <2>1, <2>2, <2>4 DEF Locals
  <2> HIDE DEF d
  <2>7. [r EXCEPT !.divisor = d, !.pc = @ + 1] = Moved(r, r.kept, r.got, d, r.value)
    BY <1>1, <1>2, <2>4, MovedTypes
  <2>8. call' = [call EXCEPT ![c] = Moved(r, r.kept, r.got, d, r.value)]
    BY <2>5, <2>7
  <2> QED BY <2>6, <2>8 DEF Goes
<1>9. CASE QuotientStep(c)
  <2> DEFINE whole == Clock \div Sixteenths(r.got)
             v == whole \div cache[p].sample_rate
  <2>1. /\ Doing(c, "quotient") /\ Sixteenths(r.got) # 0
        /\ call' = [call EXCEPT ![c].value = v, ![c].pc = @ + 1]
    BY <1>9 DEF QuotientStep
  <2>2. a.io = "quotient" /\ OnDivisor(c)
    BY <1>1, <2>1, DoingFacts
  <2>3. cache[p].sample_rate \in {4, 8, 16}
    BY <1>1, <2>2, RateAtHand
  <2>4. v \in Int
    <3>1. Sixteenths(r.got) \in Nat \ {0} /\ cache[p].sample_rate \in Nat \ {0}
      BY <1>2, <2>1, <2>3, Quotients
    <3>2. whole \in Nat
      BY <3>1, Quotients
    <3> HIDE DEF whole
    <3>3. v \in Nat
      BY <3>1, <3>2, Quotients
    <3> QED BY <3>3
  <2>5. call' = [call EXCEPT ![c] = [r EXCEPT !.value = v, !.pc = @ + 1]]
    <3> HIDE DEF v
    <3> QED BY <2>1
  <2>6. Locals(c, r.kept, r.got, r.divisor, v)
    BY <1>2, <2>2, <2>4 DEF Locals
  <2> HIDE DEF v
  <2>7. [r EXCEPT !.value = v, !.pc = @ + 1] = Moved(r, r.kept, r.got, r.divisor, v)
    BY <1>1, <1>2, <2>4, MovedTypes, ZenonT(60)
  <2>8. call' = [call EXCEPT ![c] = Moved(r, r.kept, r.got, r.divisor, v)]
    BY <2>5, <2>7
  <2> QED BY <2>6, <2>8 DEF Goes
<1> QED BY <1>5, <1>6, <1>7, <1>8, <1>9 DEF Perform

(* What an access does to the callers, and what it leaves alone.           *)
LEMMA PerformedCalls ==
  ASSUME IInv, NEW c \in Caller, Perform(c)
  PROVE  /\ Doing(c, Pending(c).io)
         /\ UNCHANGED <<cache, boot, line>>
         /\ call' \in [Caller -> CallRecord]
         /\ \A d \in Caller : d # c => call'[d] = call[d]
         /\ \A d \in Caller : /\ Busy(d)' = Busy(d) /\ At(d)' = At(d)
                              /\ call'[d].kind = call[d].kind /\ call'[d].name = call[d].name
                              /\ call'[d].arg = call[d].arg /\ call'[d].port = call[d].port
                              /\ call'[d].steps = call[d].steps /\ call'[d].status = call[d].status
         /\ call'[c].pc = call[c].pc + 1
         /\ Locals(c, call'[c].kept, call'[c].got, call'[c].divisor, call'[c].value)
<1>0. Doing(c, Pending(c).io) /\ UNCHANGED <<cache, boot, line>>
  <2>1. \E io : Doing(c, io)
    BY DEF Perform, ReadStep, WriteStep, StoreStep, DivideStep, StoreDivisorStep, FetchStep, QuotientStep
  <2>2. Doing(c, Pending(c).io)
    BY <2>1 DEF Doing
  <2>3. UNCHANGED <<cache, boot, line>>
    BY DEF Perform, ReadStep, WriteStep, StoreStep, DivideStep, StoreDivisorStep, FetchStep, QuotientStep
  <2> QED BY <2>2, <2>3
<1>1. PICK k, g, d, v : Goes(c, k, g, d, v)
  BY PerformedLocals
<1> DEFINE r == Moved(call[c], k, g, d, v)
<1>2. Locals(c, k, g, d, v) /\ call' = [call EXCEPT ![c] = r]
  BY <1>1 DEF Goes
<1>3. call \in [Caller -> CallRecord] /\ call[c] \in CallRecord
  BY DEF IInv, TypeOK
<1>4. r \in CallRecord
  BY <1>2, <1>3, MovedTypes DEF Locals
<1>5. /\ r.kind = call[c].kind /\ r.name = call[c].name /\ r.arg = call[c].arg /\ r.port = call[c].port
      /\ r.steps = call[c].steps /\ r.status = call[c].status /\ r.pc = call[c].pc + 1
      /\ r.kept = k /\ r.got = g /\ r.divisor = d /\ r.value = v
  BY DEF Moved
<1> HIDE DEF r
<1>6. call' \in [Caller -> CallRecord] /\ call'[c] = r
  BY <1>2, <1>3, <1>4
<1>7. \A e \in Caller : e # c => call'[e] = call[e]
  BY <1>2, <1>3
<1>8. \A e \in Caller : /\ call'[e].kind = call[e].kind /\ call'[e].name = call[e].name
                        /\ call'[e].arg = call[e].arg /\ call'[e].port = call[e].port
                        /\ call'[e].steps = call[e].steps /\ call'[e].status = call[e].status
  BY <1>5, <1>6, <1>7
<1>9. \A e \in Caller : Busy(e)' = Busy(e) /\ At(e)' = At(e)
  BY <1>8 DEF Busy, At
<1>10. Locals(c, call'[c].kept, call'[c].got, call'[c].divisor, call'[c].value)
  BY <1>2, <1>5, <1>6
<1> QED BY <1>0, <1>5, <1>6, <1>7, <1>8, <1>9, <1>10

(* What it does to the registers.                                          *)
LEMMA PerformedHardware ==
  ASSUME IInv, NEW c \in Caller, Perform(c)
  PROVE  /\ uart' \in [Port -> [UartReg -> SUBSET Bits]]
         /\ byte' \in [Port -> [ByteReg -> Byte]]
         /\ board' \in [Card -> [BoardReg -> SUBSET Bits]]
         /\ \A p \in Port, r \in UartReg :
              uart'[p][r] = IF p = At(c) /\ Pending(c).io = "write" /\ r = Pending(c).reg
                            THEN Derived(c) ELSE uart[p][r]
         /\ \A k \in Card, r \in BoardReg :
              board'[k][r] = IF k = At(c)[1] /\ Pending(c).io = "write" /\ r = Pending(c).reg
                             THEN Derived(c) ELSE board[k][r]
         /\ \A p \in Port, r \in ByteReg :
              byte'[p][r] = IF p = At(c) /\ Pending(c).io = "store" /\ r = Pending(c).reg
                            THEN Pending(c).val
                            ELSE IF p = At(c) /\ Pending(c).io = "store_divisor" /\ r = Pending(c).reg /\ DivisorOpen(p)
                            THEN DivisorByte(r, call[c].divisor, call[c].got["DLD"])
                            ELSE byte[p][r]
<1> DEFINE a == Pending(c)
           q == At(c)
           b == Derived(c)
           v == DivisorByte(a.reg, call[c].divisor, call[c].got["DLD"])
<1>1. /\ uart \in [Port -> [UartReg -> SUBSET Bits]]
      /\ byte \in [Port -> [ByteReg -> Byte]]
      /\ board \in [Card -> [BoardReg -> SUBSET Bits]]
  BY DEF IInv, TypeOK
<1>2. /\ Doing(c, a.io) /\ q \in Port /\ q[1] \in Card /\ call[c] \in CallRecord
      /\ a \in Accesses
  BY PerformedCalls, DoingFacts
<1>3. a.reg \in UartReg \cup BoardReg => b \in SUBSET Bits
  BY <1>2 DEF Accesses, CallRecord, Derived
<1>4. UartReg \cap BoardReg = {}
  BY DEF UartReg, BoardReg
<1>5. CASE WriteStep(c)
  <2>1. a.io = "write" /\ a.reg \in UartReg \cup BoardReg /\ UNCHANGED byte
    BY <1>2, <1>5, DoingFacts DEF WriteStep, Accesses, BitIo
  <2>2. IF a.reg \in BoardReg
        THEN board' = [board EXCEPT ![q[1]][a.reg] = b] /\ UNCHANGED uart
        ELSE uart' = [uart EXCEPT ![q][a.reg] = b] /\ UNCHANGED board
    BY <1>5 DEF WriteStep
  <2> HIDE DEF a, b, q
  <2>3. CASE a.reg \in BoardReg
    <3>1. board' = [board EXCEPT ![q[1]][a.reg] = b] /\ UNCHANGED uart
      BY <2>2, <2>3
    <3>2. board' \in [Card -> [BoardReg -> SUBSET Bits]]
      BY <1>1, <1>2, <1>3, <2>1, <2>3, <3>1
    <3>3. \A k \in Card, r \in BoardReg :
            board'[k][r] = IF k = q[1] /\ r = a.reg THEN b ELSE board[k][r]
      BY <1>1, <1>2, <2>3, <3>1
    <3>4. a.reg \notin UartReg
      BY <1>4, <2>3
    <3> QED BY <1>1, <2>1, <3>1, <3>2, <3>3, <3>4 DEF a, b, q
  <2>4. CASE a.reg \notin BoardReg
    <3>1. uart' = [uart EXCEPT ![q][a.reg] = b] /\ UNCHANGED board /\ a.reg \in UartReg
      BY <2>1, <2>2, <2>4
    <3>2. uart' \in [Port -> [UartReg -> SUBSET Bits]]
      BY <1>1, <1>2, <1>3, <2>1, <3>1
    <3>3. \A p \in Port, r \in UartReg : uart'[p][r] = IF p = q /\ r = a.reg THEN b ELSE uart[p][r]
      BY <1>1, <1>2, <3>1
    <3> QED BY <1>1, <2>1, <2>4, <3>1, <3>2, <3>3 DEF a, b, q
  <2> QED BY <2>3, <2>4
<1>6. CASE StoreStep(c)
  <2>1. a.io = "store" /\ a.reg \in ByteReg /\ a.val \in Byte /\ UNCHANGED <<uart, board>>
    BY <1>2, <1>6, DoingFacts DEF StoreStep, Accesses
  <2>2. byte' = [byte EXCEPT ![q][a.reg] = a.val]
    BY <1>6 DEF StoreStep
  <2> HIDE DEF a, q
  <2>3. byte' \in [Port -> [ByteReg -> Byte]]
    BY <1>1, <1>2, <2>1, <2>2
  <2>4. \A p \in Port, r \in ByteReg : byte'[p][r] = IF p = q /\ r = a.reg THEN a.val ELSE byte[p][r]
    BY <1>1, <1>2, <2>1, <2>2
  <2> QED BY <1>1, <2>1, <2>3, <2>4 DEF a, q
<1>7. CASE StoreDivisorStep(c)
  <2>1. a.io = "store_divisor" /\ a.reg \in Divisor /\ a.reg \in ByteReg /\ UNCHANGED <<uart, board>>
    BY <1>2, <1>7, DoingFacts DEF StoreDivisorStep, Accesses, ByteReg
  <2>2. byte' = IF DivisorOpen(q) THEN [byte EXCEPT ![q][a.reg] = v] ELSE byte
    BY <1>7 DEF StoreDivisorStep
  <2>3. v \in Byte
    <3>1. call[c].divisor \in Nat /\ call[c].got["DLD"] \in Byte
      BY <1>2 DEF CallRecord, Divisor
    <3> QED BY <2>1, <3>1, Quotients
  <2>4. \A r : r = a.reg => v = DivisorByte(r, call[c].divisor, call[c].got["DLD"])
    OBVIOUS
  <2> HIDE DEF a, q, v
  <2>5. byte' \in [Port -> [ByteReg -> Byte]]
    BY <1>1, <1>2, <2>1, <2>2, <2>3
  <2>6. \A p \in Port, r \in ByteReg :
          byte'[p][r] = IF p = q /\ r = a.reg /\ DivisorOpen(p) THEN v ELSE byte[p][r]
    BY <1>1, <1>2, <2>1, <2>2
  <2> QED BY <1>1, <2>1, <2>4, <2>5, <2>6 DEF a, q
<1>8. CASE ReadStep(c) \/ DivideStep(c) \/ FetchStep(c) \/ QuotientStep(c)
  <2>1. a.io \in {"read", "divide", "fetch", "quotient"} /\ UNCHANGED <<uart, byte, board>>
    BY <1>8, DoingFacts DEF ReadStep, DivideStep, FetchStep, QuotientStep, hardware
  <2> QED BY <1>1, <2>1
<1> QED BY <1>5, <1>6, <1>7, <1>8 DEF Perform

-----------------------------------------------------------------------------
(* An access keeps the invariant.                                          *)

(* The calls stay those that were made, on ports of their own.             *)
LEMMA PerformKeepsCalls ==
  ASSUME IInv, NEW c \in Caller, Perform(c)
  PROVE  TypeOK' /\ Exclusive' /\ Served' /\ Attributed' /\ RateKnown'
<1>1. TypeOK /\ Exclusive /\ Served /\ Attributed /\ RateKnown
  BY DEF IInv
<1>2. /\ UNCHANGED <<cache, boot, line>> /\ call' \in [Caller -> CallRecord]
      /\ Doing(c, Pending(c).io) /\ call'[c].pc = call[c].pc + 1
      /\ \A d \in Caller : d # c => call'[d] = call[d]
      /\ \A d \in Caller : /\ Busy(d)' = Busy(d) /\ At(d)' = At(d)
                           /\ call'[d].kind = call[d].kind /\ call'[d].name = call[d].name
                           /\ call'[d].arg = call[d].arg /\ call'[d].port = call[d].port
                           /\ call'[d].steps = call[d].steps /\ call'[d].status = call[d].status
  BY PerformedCalls
<1>3. TypeOK'
  BY <1>1, <1>2, PerformedHardware DEF TypeOK
<1>4. Exclusive'
  BY <1>1, <1>2 DEF Exclusive
<1>5. Served'
  <2> SUFFICES ASSUME NEW d \in Caller, Busy(d)'
               PROVE  /\ call'[d].pc <= Len(call'[d].steps) + 1
                      /\ \E h \in Handlers(At(d)'[2], call'[d], cache'[At(d)'].sample_rate) :
                           call'[d].steps = h.steps /\ call'[d].status = h.status
    BY DEF Served
  <2>1. PICK h \in Handlers(At(d)[2], call[d], cache[At(d)].sample_rate) :
          call[d].steps = h.steps /\ call[d].status = h.status
    BY <1>1, <1>2 DEF Served
  <2>2. h \in Handlers(At(d)'[2], call'[d], cache'[At(d)'].sample_rate)
    BY <1>2, <2>1 DEF Handlers
  <2>3. call'[d].pc <= Len(call'[d].steps) + 1
    <3>1. CASE d = c
      BY <1>2, <3>1, DoingFacts
    <3>2. CASE d # c
      BY <1>1, <1>2, <3>2 DEF Served
    <3> QED BY <3>1, <3>2
  <2> QED BY <1>2, <2>1, <2>2, <2>3
<1>6. Attributed'
  <2>1. \A p \in Port : Ready(p)' = Ready(p)
    BY <1>2 DEF Ready
  <2>2. \A d \in Caller : At(d) \in Port
    BY <1>1, CallFacts
  <2>3. \A k \in Card : k \in Caller
    BY DEF Caller
  <2>4. \A u \in User : u \in Caller
    BY DEF Caller
  <2> SUFFICES /\ \A k \in Card : Busy(k)' =>
                    LET request == serialfc_port_new[(boot'[k] % StepsPerPort) + 1] IN
                    /\ boot'[k] < NumPorts * StepsPerPort
                    /\ At(k)' = <<k, boot'[k] \div StepsPerPort>>
                    /\ call'[k].kind = request.kind /\ call'[k].name = request.name
                    /\ call'[k].arg = request.arg
               /\ \A u \in User : Busy(u)' =>
                    /\ Ready(At(u))'
                    /\ call'[u].kind # "boot"
                    /\ call'[u].name # "isochronous" => call'[u].arg \in Nat
    BY DEF Attributed
  <2>5. \A k \in Card : Busy(k)' =>
                    LET request == serialfc_port_new[(boot'[k] % StepsPerPort) + 1] IN
                    /\ boot'[k] < NumPorts * StepsPerPort
                    /\ At(k)' = <<k, boot'[k] \div StepsPerPort>>
                    /\ call'[k].kind = request.kind /\ call'[k].name = request.name
                    /\ call'[k].arg = request.arg
    BY <1>1, <1>2, <2>3 DEF Attributed
  <2>6. \A u \in User : Ready(At(u))' = Ready(At(u))
    BY <1>2, <2>4 DEF Ready
  <2>7. \A u \in User : Busy(u)' =>
                    /\ Ready(At(u))'
                    /\ call'[u].kind # "boot"
                    /\ call'[u].name # "isochronous" => call'[u].arg \in Nat
    BY <1>1, <1>2, <2>4, <2>6 DEF Attributed
  <2> QED BY <2>5, <2>7
<1>7. RateKnown'
  BY <1>1, <1>2 DEF RateKnown, Programmed
<1> QED BY <1>3, <1>4, <1>5, <1>6, <1>7

(* Another caller under way is on another port and does not move.          *)
LEMMA Undisturbed ==
  ASSUME IInv, NEW c \in Caller, Perform(c), NEW d \in Caller, d # c, Busy(d)'
  PROVE  /\ At(d) # At(c) /\ Busy(d) /\ At(d)' = At(d) /\ call'[d] = call[d] /\ At(d) \in Port
         /\ OnDivisor(d)' = OnDivisor(d)
         /\ uart'[At(d)] = uart[At(d)] /\ byte'[At(d)] = byte[At(d)]
<1>1. Busy(d) /\ At(d)' = At(d) /\ call'[d] = call[d] /\ Busy(c)
  BY PerformedCalls, DoingFacts
<1>2. At(d) # At(c)
  BY <1>1 DEF IInv, Exclusive
<1>3. At(d) \in Port
  BY CallFacts DEF IInv
<1>4. OnDivisor(d)' = OnDivisor(d)
  BY <1>1 DEF OnDivisor
<1>5. \A p \in Port : p # At(c) => uart'[p] = uart[p] /\ byte'[p] = byte[p]
  <2>1. /\ uart' \in [Port -> [UartReg -> SUBSET Bits]] /\ uart \in [Port -> [UartReg -> SUBSET Bits]]
        /\ byte' \in [Port -> [ByteReg -> Byte]] /\ byte \in [Port -> [ByteReg -> Byte]]
    BY PerformedHardware DEF IInv, TypeOK
  <2>2. ASSUME NEW p \in Port, p # At(c) PROVE uart'[p] = uart[p]
    <3>1. \A r \in UartReg : uart'[p][r] = uart[p][r]
      BY <2>2, PerformedHardware
    <3> QED BY <2>1, <3>1
  <2>3. ASSUME NEW p \in Port, p # At(c) PROVE byte'[p] = byte[p]
    <3>1. \A r \in ByteReg : byte'[p][r] = byte[p][r]
      BY <2>3, PerformedHardware
    <3> QED BY <2>1, <3>1
  <2> QED BY <2>2, <2>3
<1> QED BY <1>1, <1>2, <1>3, <1>4, <1>5

(* Where a call that reaches for the divisor stands.                       *)
LEMMA OnDivisorSteps ==
  ASSUME IInv, NEW c \in Caller, Perform(c), OnDivisor(c)
  PROVE  LET s == call[c].steps
             n == call[c].pc
             a == Pending(c)
         IN  /\ n \in 1..Len(s) /\ Len(s) \in {7, 8} /\ OnDivisor(c)'
             /\ n = 1 => a = Read("LCR")
             /\ n = 2 => a = Write("LCR", {7}, {})
             /\ n \in 3..Len(s) - 1 => a.io \notin {"read", "write", "store"}
             /\ n = Len(s) => a = Restore("LCR")
             /\ call[c].kind = "set" => s = SetBaud(call[c].arg)
             /\ call[c].kind = "get" => s = GetBaud
             /\ call[c].kind \in {"set", "get"}
<1> DEFINE s == call[c].steps
           n == call[c].pc
           a == Pending(c)
<1>1. n \in 1..Len(s) /\ a = s[n] /\ Busy(c)
  BY PerformedCalls, DoingFacts
<1>2. \/ call[c].kind = "set" /\ s = SetBaud(call[c].arg)
      \/ call[c].kind = "get" /\ s = GetBaud
  BY <1>1, BusyShape DEF IInv
<1>3. OnDivisor(c)'
  BY PerformedCalls DEF OnDivisor
<1>4. CASE s = SetBaud(call[c].arg)
  <2>1. /\ Len(s) = 8 /\ s[1] = Read("LCR") /\ s[2] = Write("LCR", {7}, {}) /\ s[8] = Restore("LCR")
        /\ s[3] = Divide(call[c].arg) /\ s[4] = Fetch("DLD") /\ s[5] = StoreDivisor("DLM")
        /\ s[6] = StoreDivisor("DLL") /\ s[7] = StoreDivisor("DLD")
    BY <1>4 DEF SetBaud
  <2>2. \A i \in 3..7 : s[i].io \notin {"read", "write", "store"}
    BY <2>1 DEF Divide, Fetch, StoreDivisor, Access
  <2> HIDE DEF s, n, a
  <2> QED BY <1>1, <1>2, <1>3, <2>1, <2>2 DEF s, n, a
<1>5. CASE s = GetBaud
  <2>1. /\ Len(s) = 7 /\ s[1] = Read("LCR") /\ s[2] = Write("LCR", {7}, {}) /\ s[7] = Restore("LCR")
        /\ s[3] = Fetch("DLM") /\ s[4] = Fetch("DLL") /\ s[5] = Fetch("DLD") /\ s[6] = Quotient
    BY <1>5 DEF GetBaud
  <2>2. \A i \in 3..6 : s[i].io \notin {"read", "write", "store"}
    BY <2>1 DEF Fetch, Quotient, Access
  <2> HIDE DEF s, n, a
  <2> QED BY <1>1, <1>2, <1>3, <2>1, <2>2 DEF s, n, a
<1> QED BY <1>2, <1>4, <1>5

(* The line control register is opened, and given back as it was.          *)
LEMMA PerformKeepsLcr ==
  ASSUME IInv, NEW c \in Caller, Perform(c)
  PROVE  LcrFollowsCall' /\ LcrRestored'
<1> DEFINE s == call[c].steps
           n == call[c].pc
           a == Pending(c)
           p == At(c)
           held == uart[p]["LCR"]
           kept == call[c].kept["LCR"]
           fixed == line[p]
<1>1. /\ TypeOK /\ Served /\ Attributed /\ LcrFollowsCall /\ LcrRestored
      /\ Busy(c) /\ p \in Port /\ n \in 1..Len(s) /\ Len(s) \in Nat /\ a = s[n]
      /\ UNCHANGED line /\ call'[c].pc = n + 1 /\ call'[c].steps = s
      /\ At(c)' = p /\ Busy(c)' /\ "LCR" \in UartReg /\ fixed \in SUBSET Bits
  <2>1. /\ Busy(c) /\ p \in Port /\ n \in 1..Len(s) /\ a = s[n]
        /\ UNCHANGED line /\ call'[c].pc = n + 1 /\ call'[c].steps = s /\ At(c)' = p /\ Busy(c)'
    BY PerformedCalls, DoingFacts
  <2>2. Len(s) \in Nat
    BY CallFacts DEF IInv
  <2>3. fixed \in SUBSET Bits
    BY <2>1 DEF IInv, TypeOK
  <2> QED BY <2>1, <2>2, <2>3 DEF IInv, UartReg
<1>2. Locals(c, call'[c].kept, call'[c].got, call'[c].divisor, call'[c].value)
  BY PerformedCalls
<1>3. /\ held = IF OnDivisor(c) /\ n \in 3..Len(s) THEN fixed \cup {7} ELSE fixed
      /\ OnDivisor(c) /\ n > 1 => kept = fixed
  BY <1>1 DEF LcrFollowsCall
<1>4. uart'[p]["LCR"] = IF a.io = "write" /\ "LCR" = a.reg THEN Derived(c) ELSE held
  BY <1>1, PerformedHardware
<1>5. /\ uart'[p]["LCR"] = IF OnDivisor(c) /\ n + 1 \in 3..Len(s) THEN fixed \cup {7} ELSE fixed
      /\ OnDivisor(c) => call'[c].kept["LCR"] = fixed
  <2>1. CASE OnDivisor(c)
    <3>0. /\ Len(s) \in {7, 8}
          /\ n = 1 => a = Read("LCR")
          /\ n = 2 => a = Write("LCR", {7}, {})
          /\ n \in 3..Len(s) - 1 => a.io \notin {"read", "write", "store"}
          /\ n = Len(s) => a = Restore("LCR")
      BY <2>1, OnDivisorSteps
    <3>1. CASE n = 1
      <4>1. a.io = "read" /\ a.reg = "LCR"
        BY <3>0, <3>1 DEF Read, Access
      <4>2. call'[c].kept = [call[c].kept EXCEPT !["LCR"] = Held(p, "LCR")] /\ call[c].kept \in Kept
        <5>1. call[c].kept \in Kept
          BY <1>1, CallFacts DEF CallRecord, Kept
        <5> QED BY <1>2, <4>1, <5>1 DEF Locals
      <4>3. Held(p, "LCR") = held
        BY DEF Held, BoardReg
      <4>4. call'[c].kept["LCR"] = held
        BY <4>2, <4>3 DEF Kept, UartReg
      <4> HIDE DEF held, s, n, a, p, kept, fixed
      <4>5. uart'[p]["LCR"] = held /\ held = fixed
        BY <1>3, <1>4, <3>1, <4>1
      <4> QED BY <2>1, <3>0, <3>1, <4>4, <4>5
    <3>2. CASE n = 2
      <4>1. a.io = "write" /\ a.reg = "LCR" /\ a.on = {7} /\ a.off = {}
        BY <3>0, <3>2 DEF Write, Access
      <4>2. Derived(c) = kept \cup {7} /\ call'[c].kept = call[c].kept
        BY <1>2, <4>1 DEF Derived, Locals
      <4> HIDE DEF held, s, n, a, p, fixed
      <4>3. kept = fixed
        BY <1>3, <2>1, <3>2
      <4>4. call'[c].kept["LCR"] = fixed
        BY <4>2, <4>3
      <4>5. uart'[p]["LCR"] = fixed \cup {7}
        BY <1>4, <4>1, <4>2, <4>3
      <4>6. n + 1 \in 3..Len(s)
        <5>1. Len(s) = 7 \/ Len(s) = 8
          BY <3>0
        <5> QED BY <3>2, <5>1
      <4> QED BY <2>1, <4>4, <4>5, <4>6
    <3>3. CASE n \in 3..Len(s) - 1
      <4>1. a.io \notin {"read", "write"}
        BY <3>0, <3>3
      <4>2. call'[c].kept = call[c].kept
        BY <1>2, <4>1 DEF Locals
      <4>3. call'[c].kept["LCR"] = kept
        BY <4>2
      <4> HIDE DEF held, s, n, a, p, kept, fixed
      <4>4. kept = fixed /\ held = fixed \cup {7} /\ uart'[p]["LCR"] = held
        BY <1>1, <1>3, <1>4, <2>1, <3>3, <4>1
      <4> QED BY <1>1, <2>1, <3>3, <4>3, <4>4
    <3>4. CASE n = Len(s)
      <4>1. a.io = "write" /\ a.reg = "LCR" /\ a.on = {} /\ a.off = {}
        BY <3>0, <3>4 DEF Restore, Write, Access
      <4>2. Derived(c) = kept /\ call'[c].kept = call[c].kept
        BY <1>2, <4>1 DEF Derived, Locals
      <4>3. call'[c].kept["LCR"] = kept
        BY <4>2
      <4> HIDE DEF held, s, n, a, p, kept, fixed
      <4>4. kept = fixed
        BY <1>3, <2>1, <3>0, <3>4
      <4>5. uart'[p]["LCR"] = fixed
        BY <1>4, <4>1, <4>2, <4>4
      <4> QED BY <3>0, <3>4, <4>3, <4>4, <4>5
    <3>5. n = 1 \/ n = 2 \/ n \in 3..Len(s) - 1 \/ n = Len(s)
      <4> HIDE DEF s, n
      <4> QED BY <1>1
    <3> HIDE DEF s, n, a, p, held, kept, fixed
    <3> QED BY <3>1, <3>2, <3>3, <3>4, <3>5
  <2>2. CASE ~OnDivisor(c)
    <3>1. Plain(s)
      BY <1>1, <2>2, BusyShape
    <3>2. a.reg # "LCR"
      BY <1>1, <3>1 DEF Plain
    <3> QED BY <1>3, <1>4, <2>2, <3>2
  <2> QED BY <2>1, <2>2
<1>6. OnDivisor(c)' = OnDivisor(c)
  BY PerformedCalls DEF OnDivisor
<1>7. LcrFollowsCall'
  <2> SUFFICES ASSUME NEW d \in Caller, Busy(d)'
               PROVE  /\ uart'[At(d)']["LCR"] = IF OnDivisor(d)' /\ call'[d].pc \in 3..Len(call'[d].steps)
                                                THEN line'[At(d)'] \cup {7} ELSE line'[At(d)']
                      /\ OnDivisor(d)' /\ call'[d].pc > 1 => call'[d].kept["LCR"] = line'[At(d)']
    BY DEF LcrFollowsCall
  <2>1. CASE d = c
    BY <1>1, <1>5, <1>6, <2>1
  <2>2. CASE d # c
    <3>1. /\ Busy(d) /\ At(d)' = At(d) /\ call'[d] = call[d] /\ OnDivisor(d)' = OnDivisor(d)
          /\ uart'[At(d)] = uart[At(d)]
      BY <2>2, Undisturbed
    <3> QED BY <1>1, <3>1, ZenonT(60) DEF LcrFollowsCall
  <2> QED BY <2>1, <2>2
<1>8. LcrRestored'
  <2> SUFFICES ASSUME NEW q \in Port, Quiet(q)' PROVE uart'[q]["LCR"] = line'[q]
    BY DEF LcrRestored
  <2>1. q # p
    BY <1>1 DEF Quiet
  <2>2. Quiet(q)
    BY PerformedCalls DEF Quiet
  <2>3. uart'[q]["LCR"] = uart[q]["LCR"]
    BY <1>1, <2>1, PerformedHardware
  <2> QED BY <1>1, <2>2, <2>3 DEF LcrRestored
<1> QED BY <1>7, <1>8

\* What is known of caller c, at the access that it makes.
Turn(c) ==
  LET s == call[c].steps
      n == call[c].pc
      p == At(c)
  IN  /\ Busy(c) /\ p \in Port /\ p[1] \in Card /\ p[2] \in Channel
      /\ Len(s) \in Nat /\ n \in Nat \ {0} /\ n \in 1..Len(s) /\ Pending(c) = s[n]
      /\ At(c)' = p /\ Busy(c)' /\ call'[c].steps = s /\ call'[c].pc = n + 1
      /\ call'[c].kind = call[c].kind /\ call'[c].name = call[c].name /\ call'[c].arg = call[c].arg
      /\ call'[c].status = call[c].status
      /\ UNCHANGED <<cache, boot, line>>
      /\ OnDivisor(c)' = OnDivisor(c)
      /\ InitTriggers(c)' = InitTriggers(c)
      /\ \A name : Sets(c, name)' = Sets(c, name)

(* Every access is such a turn.                                            *)
LEMMA Turns == ASSUME IInv, NEW c \in Caller, Perform(c) PROVE Turn(c)
<1>1. /\ Busy(c) /\ At(c) \in Port /\ At(c)[1] \in Card /\ At(c)[2] \in Channel
      /\ call[c].pc \in Nat \ {0} /\ call[c].pc \in 1..Len(call[c].steps)
      /\ Pending(c) = call[c].steps[call[c].pc]
  BY PerformedCalls, DoingFacts
<1>2. Len(call[c].steps) \in Nat
  BY CallFacts DEF IInv
<1>3. /\ UNCHANGED <<cache, boot, line>>
      /\ At(c)' = At(c) /\ Busy(c)' = Busy(c)
      /\ call'[c].kind = call[c].kind /\ call'[c].name = call[c].name /\ call'[c].arg = call[c].arg
      /\ call'[c].steps = call[c].steps /\ call'[c].status = call[c].status
      /\ call'[c].pc = call[c].pc + 1
  BY PerformedCalls
<1>4. OnDivisor(c)' = OnDivisor(c) /\ InitTriggers(c)' = InitTriggers(c)
      /\ \A name : Sets(c, name)' = Sets(c, name)
  BY <1>3 DEF OnDivisor, InitTriggers, Sets
<1> QED BY <1>1, <1>2, <1>3, <1>4 DEF Turn

(* The divisor is open while a call reaches for it.                        *)
LEMMA OpenForDivisor ==
  ASSUME IInv, NEW c \in Caller, Busy(c), OnDivisor(c), call[c].pc \in 3..Len(call[c].steps)
  PROVE  DivisorOpen(At(c))
<1>1. uart[At(c)]["LCR"] = line[At(c)] \cup {7}
  BY DEF IInv, LcrFollowsCall
<1> QED BY <1>1 DEF DivisorOpen

(* The same three bytes are the same number of sixteenths.                 *)
LEMMA SixteenthsSame ==
  ASSUME NEW f, NEW g, f["DLM"] = g["DLM"], f["DLL"] = g["DLL"], f["DLD"] = g["DLD"]
  PROVE  Sixteenths(f) = Sixteenths(g)
BY DEF Sixteenths

(* What get_baud_rate has fetched is the divisor.                          *)
LEMMA PerformKeepsFetched ==
  ASSUME IInv, NEW c \in Caller, Perform(c)
  PROVE  FetchedFollows'
<1> SUFFICES ASSUME NEW d \in Caller, Busy(d)', OnDivisor(d)', call'[d].kind = "get"
             PROVE  /\ \A i \in 1..call'[d].pc - 1 : call'[d].steps[i].io = "fetch" =>
                         call'[d].got[call'[d].steps[i].reg] = byte'[At(d)'][call'[d].steps[i].reg]
                    /\ call'[d].pc > 6 =>
                         call'[d].value = (Clock \div Sixteenths(byte'[At(d)'])) \div cache'[At(d)'].sample_rate
  BY DEF FetchedFollows
<1>1. CASE d # c
  <2>1. /\ Busy(d) /\ At(d)' = At(d) /\ call'[d] = call[d] /\ OnDivisor(d)
        /\ byte'[At(d)] = byte[At(d)] /\ UNCHANGED cache
    BY <1>1, Undisturbed, PerformedCalls
  <2>2. /\ \A i \in 1..call[d].pc - 1 : call[d].steps[i].io = "fetch" =>
               call[d].got[call[d].steps[i].reg] = byte[At(d)][call[d].steps[i].reg]
        /\ call[d].pc > 6 =>
               call[d].value = (Clock \div Sixteenths(byte[At(d)])) \div cache[At(d)].sample_rate
    BY <2>1 DEF IInv, FetchedFollows
  <2> QED BY <2>1, <2>2
<1>2. CASE d = c
  <2> DEFINE s == call[c].steps
             n == call[c].pc
             p == At(c)
             a == Pending(c)
             got == call[c].got
             new == call'[c].got
             bytes == byte[p]
  <2>1. Turn(c)
    BY Turns
  <2>2. /\ OnDivisor(c) /\ Busy(c) /\ call[c].kind = "get" /\ n \in 1..Len(s)
        /\ call'[c].pc = n + 1 /\ call'[c].steps = s /\ At(c)' = p /\ UNCHANGED cache /\ p \in Port
    BY <1>2, <2>1 DEF Turn
  <2>3. s = GetBaud
    BY <2>2, OnDivisorSteps
  <2>4. /\ Len(s) = 7 /\ s[1] = Read("LCR") /\ s[2] = Write("LCR", {7}, {}) /\ s[7] = Restore("LCR")
        /\ s[3] = Fetch("DLM") /\ s[4] = Fetch("DLL") /\ s[5] = Fetch("DLD") /\ s[6] = Quotient
    BY <2>3 DEF GetBaud
  <2>5. /\ \A i \in {1, 2, 6, 7} : s[i].io # "fetch"
        /\ \A i \in 3..5 : s[i].io = "fetch"
        /\ s[3].reg = "DLM" /\ s[4].reg = "DLL" /\ s[5].reg = "DLD"
        /\ s[6].io = "quotient" /\ s[7].io # "quotient"
        /\ \A i \in 1..7 : s[i].io # "store" /\ s[i].io # "store_divisor"
    BY <2>4 DEF Fetch, Access, Read, Write, Restore, Quotient
  <2>6. a = s[n]
    BY <2>1 DEF Turn
  <2>7. byte'[p] = bytes
    <3>1. byte' \in [Port -> [ByteReg -> Byte]] /\ byte \in [Port -> [ByteReg -> Byte]]
      BY PerformedHardware DEF IInv, TypeOK
    <3>2. a.io # "store" /\ a.io # "store_divisor"
      BY <2>2, <2>4, <2>5, <2>6
    <3>3. \A r \in ByteReg : byte'[p][r] = byte[p][r]
      BY <2>2, <3>2, PerformedHardware
    <3> QED BY <2>2, <3>1, <3>3
  <2>8. /\ got \in Got /\ new \in Got
        /\ IF a.io = "fetch" THEN DivisorOpen(p) => new = [got EXCEPT ![a.reg] = bytes[a.reg]]
                             ELSE new = got
        /\ IF a.io = "quotient" THEN call'[c].value = (Clock \div Sixteenths(got)) \div cache[p].sample_rate
                                ELSE call'[c].value = call[c].value
    <3>1. Locals(c, call'[c].kept, call'[c].got, call'[c].divisor, call'[c].value)
      BY PerformedCalls
    <3>2. call[c].got \in Got
      BY CallFacts DEF IInv, CallRecord, Got
    <3> QED BY <3>1, <3>2 DEF Locals
  <2>9. a.io = "fetch" => DivisorOpen(p)
    <3>1. a.io = "fetch" => n \in 3..Len(s)
      BY <2>2, <2>4, <2>5, <2>6
    <3> QED BY <2>2, <3>1, OpenForDivisor
  <2>10. /\ n > 3 => got["DLM"] = bytes["DLM"]
         /\ n > 4 => got["DLL"] = bytes["DLL"]
         /\ n > 5 => got["DLD"] = bytes["DLD"]
    <3>1. \A i \in 1..n - 1 : s[i].io = "fetch" => got[s[i].reg] = bytes[s[i].reg]
      BY <2>2 DEF IInv, FetchedFollows
    <3> HIDE DEF s, got, bytes
    <3>2. n > 3 => got[s[3].reg] = bytes[s[3].reg]
      BY <2>2, <2>5, <3>1
    <3>3. n > 4 => got[s[4].reg] = bytes[s[4].reg]
      BY <2>2, <2>5, <3>1
    <3>4. n > 5 => got[s[5].reg] = bytes[s[5].reg]
      BY <2>2, <2>5, <3>1
    <3> QED BY <2>5, <3>2, <3>3, <3>4
  <2>11. /\ n >= 3 => new["DLM"] = bytes["DLM"]
         /\ n >= 4 => new["DLL"] = bytes["DLL"]
         /\ n >= 5 => new["DLD"] = bytes["DLD"]
    <3>1. "DLM" \in Divisor /\ "DLL" \in Divisor /\ "DLD" \in Divisor
      BY DEF Divisor
    <3> HIDE DEF s, got, new, bytes, p, n, a
    <3>2. CASE n \in 3..5
      <4>1. a.io = "fetch" /\ a.reg = s[n].reg
        BY <2>5, <2>6, <3>2
      <4>2. new = [got EXCEPT ![a.reg] = bytes[a.reg]]
        BY <2>8, <2>9, <4>1
      <4>3. CASE n = 3
        BY <2>5, <2>8, <3>1, <4>1, <4>2, <4>3 DEF Got
      <4>4. CASE n = 4
        BY <2>5, <2>8, <2>10, <3>1, <4>1, <4>2, <4>4 DEF Got
      <4>5. CASE n = 5
        BY <2>5, <2>8, <2>10, <3>1, <4>1, <4>2, <4>5 DEF Got
      <4> QED BY <3>2, <4>3, <4>4, <4>5
    <3>3. CASE n \in {1, 2, 6, 7}
      <4>1. a.io # "fetch"
        BY <2>5, <2>6, <3>3
      <4>2. new = got
        BY <2>8, <4>1
      <4> QED BY <2>10, <3>3, <4>2
    <3>4. n \in 3..5 \/ n \in {1, 2, 6, 7}
      BY <2>2, <2>4
    <3> QED BY <3>2, <3>3, <3>4
  <2>12. \A i \in 1..n : s[i].io = "fetch" => new[s[i].reg] = bytes[s[i].reg]
    <3> SUFFICES ASSUME NEW i \in 1..n, s[i].io = "fetch" PROVE new[s[i].reg] = bytes[s[i].reg]
      OBVIOUS
    <3>1. i \in 1..7
      BY <2>2, <2>4
    <3>2. i = 3 \/ i = 4 \/ i = 5
      BY <2>5, <3>1
    <3> HIDE DEF s, got, new, bytes, p, n, a
    <3>3. CASE i = 3
      <4>1. n >= 3
        BY <2>2, <3>3
      <4> QED BY <2>5, <2>11, <3>3, <4>1
    <3>4. CASE i = 4
      <4>1. n >= 4
        BY <2>2, <3>4
      <4> QED BY <2>5, <2>11, <3>4, <4>1
    <3>5. CASE i = 5
      <4>1. n >= 5
        BY <2>2, <3>5
      <4> QED BY <2>5, <2>11, <3>5, <4>1
    <3> QED BY <3>2, <3>3, <3>4, <3>5
  <2>13. n + 1 > 6 => call'[c].value = (Clock \div Sixteenths(bytes)) \div cache[p].sample_rate
    <3>1. CASE n = 6
      <4>1. a.io = "quotient"
        BY <2>5, <2>6, <3>1
      <4>2. call'[c].value = (Clock \div Sixteenths(got)) \div cache[p].sample_rate
        BY <2>8, <4>1
      <4>3. Sixteenths(got) = Sixteenths(bytes)
        <5>1. got["DLM"] = bytes["DLM"] /\ got["DLL"] = bytes["DLL"] /\ got["DLD"] = bytes["DLD"]
          BY <2>10, <3>1
        <5> HIDE DEF got, bytes
        <5> QED BY <5>1, SixteenthsSame
      <4> HIDE DEF got, bytes, p
      <4> QED BY <4>2, <4>3
    <3>2. CASE n = 7
      <4>1. a.io # "quotient"
        BY <2>5, <2>6, <3>2
      <4>2. call'[c].value = call[c].value
        BY <2>8, <4>1
      <4>3. call[c].value = (Clock \div Sixteenths(bytes)) \div cache[p].sample_rate
        BY <2>2, <3>2 DEF IInv, FetchedFollows
      <4> QED BY <4>2, <4>3
    <3>3. n + 1 > 6 => n = 6 \/ n = 7
      BY <2>2, <2>4
    <3> QED BY <3>1, <3>2, <3>3
  <2>14. n + 1 - 1 = n
    BY <2>2
  <2> HIDE DEF s, got, new, bytes, p, n, a
  <2>15. /\ \A i \in 1..call'[c].pc - 1 : call'[c].steps[i].io = "fetch" =>
              new[call'[c].steps[i].reg] = byte'[At(c)'][call'[c].steps[i].reg]
         /\ call'[c].pc > 6 =>
              call'[c].value = (Clock \div Sixteenths(byte'[At(c)'])) \div cache'[At(c)'].sample_rate
    BY <2>2, <2>7, <2>12, <2>13, <2>14
  <2> QED BY <1>2, <2>15 DEF new
<1> QED BY <1>1, <1>2

(* What set_baud_rate has stored is the divisor of the rate asked for.     *)
LEMMA PerformKeepsDivisor ==
  ASSUME IInv, NEW c \in Caller, Perform(c)
  PROVE  DivisorFollows'
<1> SUFFICES ASSUME NEW d \in Caller, Busy(d)', OnDivisor(d)', call'[d].kind = "set"
             PROVE  /\ call'[d].pc > 3 =>
                         /\ call'[d].arg * cache'[At(d)'].sample_rate # 0
                         /\ call'[d].divisor = Clock \div (call'[d].arg * cache'[At(d)'].sample_rate)
                    /\ \A i \in 1..call'[d].pc - 1 : call'[d].steps[i].io = "store_divisor" =>
                         byte'[At(d)'][call'[d].steps[i].reg] =
                           DivisorByte(call'[d].steps[i].reg, call'[d].divisor, call'[d].got["DLD"])
  BY DEF DivisorFollows
<1>1. CASE d # c
  <2>1. /\ Busy(d) /\ At(d)' = At(d) /\ call'[d] = call[d] /\ OnDivisor(d)
        /\ byte'[At(d)] = byte[At(d)] /\ UNCHANGED cache
    BY <1>1, Undisturbed, PerformedCalls
  <2>2. /\ call[d].pc > 3 =>
             /\ call[d].arg * cache[At(d)].sample_rate # 0
             /\ call[d].divisor = Clock \div (call[d].arg * cache[At(d)].sample_rate)
        /\ \A i \in 1..call[d].pc - 1 : call[d].steps[i].io = "store_divisor" =>
             byte[At(d)][call[d].steps[i].reg] =
               DivisorByte(call[d].steps[i].reg, call[d].divisor, call[d].got["DLD"])
    BY <2>1 DEF IInv, DivisorFollows
  <2> QED BY <2>1, <2>2
<1>2. CASE d = c
  <2> DEFINE s == call[c].steps
             n == call[c].pc
             p == At(c)
             a == Pending(c)
             asked == call[c].arg * cache[p].sample_rate
             quotient == Clock \div asked
             old == call[c].divisor
             new == call'[c].divisor
             dld == call[c].got["DLD"]
             bytes == byte'[p]
             was == byte[p]
  <2>1. Turn(c)
    BY Turns
  <2>2. /\ OnDivisor(c) /\ Busy(c) /\ call[c].kind = "set" /\ n \in 1..Len(s)
        /\ call'[c].pc = n + 1 /\ call'[c].steps = s /\ At(c)' = p /\ UNCHANGED cache /\ p \in Port
        /\ call'[c].arg = call[c].arg /\ a = s[n]
    BY <1>2, <2>1 DEF Turn
  <2>3. s = SetBaud(call[c].arg)
    BY <2>2, OnDivisorSteps
  <2>4. /\ Len(s) = 8 /\ s[1] = Read("LCR") /\ s[2] = Write("LCR", {7}, {})
        /\ s[3] = Divide(call[c].arg) /\ s[4] = Fetch("DLD") /\ s[5] = StoreDivisor("DLM")
        /\ s[6] = StoreDivisor("DLL") /\ s[7] = StoreDivisor("DLD") /\ s[8] = Restore("LCR")
    BY <2>3 DEF SetBaud
  <2>5. /\ \A i \in {1, 2, 3, 4, 8} : s[i].io # "store_divisor"
        /\ s[5].io = "store_divisor" /\ s[6].io = "store_divisor" /\ s[7].io = "store_divisor"
        /\ s[5].reg = "DLM" /\ s[6].reg = "DLL" /\ s[7].reg = "DLD"
        /\ s[3].io = "divide" /\ s[3].val = call[c].arg
        /\ \A i \in {1, 2, 4, 5, 6, 7, 8} : s[i].io # "divide"
        /\ \A i \in {1, 2, 3, 5, 6, 7, 8} : s[i].io # "fetch"
        /\ \A i \in 1..8 : s[i].io # "store"
    BY <2>4 DEF Fetch, Access, Read, Write, Restore, Divide, StoreDivisor
  <2>6. /\ IF a.io = "divide" THEN /\ a.val * cache[p].sample_rate # 0
                                   /\ new = Clock \div (a.val * cache[p].sample_rate)
                              ELSE new = old
        /\ a.io # "fetch" => call'[c].got["DLD"] = dld
    BY PerformedCalls DEF Locals
  <2>7. /\ n > 3 => asked # 0 /\ old = quotient
        /\ \A i \in 1..n - 1 : s[i].io = "store_divisor" =>
             was[s[i].reg] = DivisorByte(s[i].reg, old, dld)
    BY <2>2 DEF IInv, DivisorFollows
  <2>8. n \in {5, 6, 7} => DivisorOpen(p)
    <3>1. n \in {5, 6, 7} => n \in 3..Len(s)
      BY <2>4
    <3> QED BY <2>2, <3>1, OpenForDivisor
  <2>9. \A r \in Divisor : bytes[r] = IF n \in {5, 6, 7} /\ r = a.reg
                                      THEN DivisorByte(r, old, dld) ELSE was[r]
    <3>1. a.io # "store" /\ (a.io = "store_divisor" <=> n \in {5, 6, 7})
      <4> HIDE DEF s, n, a
      <4> QED BY <2>2, <2>4, <2>5
    <3>2. \A r \in Divisor : r \in ByteReg
      BY DEF ByteReg
    <3> QED BY <2>2, <2>8, <3>1, <3>2, PerformedHardware
  <2>10. n + 1 > 3 => asked # 0 /\ new = quotient
    <3>1. CASE n = 3
      <4>1. a.io = "divide" /\ a.val = call[c].arg
        BY <2>2, <2>5, <3>1
      <4> QED BY <2>6, <4>1
    <3>2. CASE n \in {4, 5, 6, 7, 8}
      <4>1. a.io # "divide"
        BY <2>2, <2>5, <3>2
      <4> HIDE DEF asked, quotient
      <4> QED BY <2>6, <2>7, <3>2, <4>1
    <3>3. n + 1 > 3 => n = 3 \/ n \in {4, 5, 6, 7, 8}
      <4> HIDE DEF s, n
      <4> QED BY <2>2, <2>4
    <3> HIDE DEF asked, quotient
    <3> QED BY <3>1, <3>2, <3>3
  <2>11. n >= 5 => new = old /\ call'[c].got["DLD"] = dld
    <3>1. n >= 5 => n \in {5, 6, 7, 8}
      BY <2>2, <2>4
    <3>2. n >= 5 => a.io # "divide" /\ a.io # "fetch"
      BY <2>2, <2>5, <3>1
    <3> QED BY <2>6, <3>2
  <2>12. \A i \in 1..n : s[i].io = "store_divisor" =>
            bytes[s[i].reg] = DivisorByte(s[i].reg, new, call'[c].got["DLD"])
    <3> SUFFICES ASSUME NEW i \in 1..n, s[i].io = "store_divisor"
                 PROVE  bytes[s[i].reg] = DivisorByte(s[i].reg, new, call'[c].got["DLD"])
      OBVIOUS
    <3> HIDE DEF s, n, a, old, new, dld, bytes, was, asked, quotient, p
    <3>1. i \in {5, 6, 7} /\ n >= 5
      <4>1. i \in 1..8
        BY <2>2, <2>4
      <4>2. i \notin {1, 2, 3, 4, 8}
        BY <2>5
      <4> QED BY <2>2, <4>1, <4>2
    <3>2. s[i].reg \in Divisor
      BY <2>5, <3>1 DEF Divisor
    <3>3. bytes[s[i].reg] = DivisorByte(s[i].reg, old, dld)
      <4>1. CASE i = n
        <5>1. s[i].reg = a.reg /\ n \in {5, 6, 7}
          BY <2>2, <3>1, <4>1
        <5> QED BY <2>9, <3>2, <5>1
      <4>2. CASE i # n
        <5>1. i \in 1..n - 1
          BY <2>2, <4>2
        <5>2. was[s[i].reg] = DivisorByte(s[i].reg, old, dld)
          BY <2>7, <5>1
        <5> QED BY <2>9, <3>2, <5>2
      <4> QED BY <4>1, <4>2
    <3> QED BY <2>11, <3>1, <3>3
  <2>13. n + 1 - 1 = n
    BY <2>2
  <2>14. /\ call'[c].pc > 3 =>
              /\ call'[c].arg * cache'[At(c)'].sample_rate # 0
              /\ call'[c].divisor = Clock \div (call'[c].arg * cache'[At(c)'].sample_rate)
    BY <2>2, <2>10
  <2>15. \A i \in 1..call'[c].pc - 1 : call'[c].steps[i].io = "store_divisor" =>
              byte'[At(c)'][call'[c].steps[i].reg] =
                DivisorByte(call'[c].steps[i].reg, call'[c].divisor, call'[c].got["DLD"])
    <3> HIDE DEF s, n
    <3> QED BY <2>2, <2>12, <2>13
  <2> QED BY <1>2, <2>14, <2>15
<1> QED BY <1>1, <1>2

(* The trigger levels stay programmable.                                   *)
LEMMA PerformKeepsTriggers ==
  ASSUME IInv, NEW c \in Caller, Perform(c)
  PROVE  TriggersOn'
<1> DEFINE s == call[c].steps
           n == call[c].pc
           p == At(c)
           a == Pending(c)
           kept == call[c].kept["FCTR"]
           new == call'[c].kept["FCTR"]
           held == uart[p]["FCTR"]
<1>1. TypeOK /\ Served /\ Attributed /\ TriggersOn /\ "FCTR" \in UartReg /\ "FCTR" \notin BoardReg
  BY DEF IInv, UartReg, BoardReg
<1>2. Turn(c)
  BY Turns
<1>3. /\ Busy(c) /\ p \in Port /\ n \in 1..Len(s) /\ a = s[n] /\ Len(s) \in Nat /\ n \in Nat
      /\ At(c)' = p /\ Busy(c)' /\ call'[c].steps = s /\ call'[c].pc = n + 1 /\ n + 1 - 1 = n
      /\ InitTriggers(c)' = InitTriggers(c) /\ UNCHANGED boot
  BY <1>2 DEF Turn
<1>4. FctrSafe(s) /\ (InitTriggers(c) => s = InitSteps)
  BY <1>1, <1>3, BusyShape
<1>5. \A q \in Port, m \in Nat : Programmed(q, m)' = Programmed(q, m)
  BY <1>3 DEF Programmed
<1>6. \A q \in Port : uart'[q]["FCTR"] = IF q = p /\ a.io = "write" /\ "FCTR" = a.reg
                                         THEN Derived(c) ELSE uart[q]["FCTR"]
  BY <1>1, PerformedHardware
<1>7. new = IF a.io = "read" /\ a.reg = "FCTR" THEN held ELSE kept
  <2>1. call[c].kept \in Kept
    BY <1>1, CallFacts DEF CallRecord, Kept
  <2>2. IF a.io = "read" THEN call'[c].kept = [call[c].kept EXCEPT ![a.reg] = Held(p, a.reg)]
                         ELSE call'[c].kept = call[c].kept
    BY PerformedCalls DEF Locals
  <2>3. Held(p, "FCTR") = held
    BY <1>1 DEF Held
  <2> HIDE DEF held, a, p
  <2> QED BY <1>1, <2>1, <2>2, <2>3 DEF Kept
<1>8. a.io = "write" /\ a.reg = "FCTR" =>
        /\ Derived(c) = (kept \ a.off) \cup a.on
        /\ 6 \notin a.off /\ 7 \notin a.off
        /\ Programmed(p, 2) => {6, 7} \subseteq kept
  <2> SUFFICES ASSUME a.io = "write", a.reg = "FCTR"
               PROVE  /\ Derived(c) = (kept \ a.off) \cup a.on
                      /\ 6 \notin a.off /\ 7 \notin a.off
                      /\ Programmed(p, 2) => {6, 7} \subseteq kept
    OBVIOUS
  <2>1. Derived(c) = (kept \ a.off) \cup a.on
    BY DEF Derived
  <2>2. 6 \notin a.off /\ 7 \notin a.off /\ \E j \in 1..n-1 : s[j].io = "read" /\ s[j].reg = "FCTR"
    <3> HIDE DEF s, n, a
    <3> QED BY <1>3, <1>4 DEF FctrSafe
  <2>3. Programmed(p, 2) => {6, 7} \subseteq kept
    BY <1>1, <1>3, <2>2 DEF TriggersOn
  <2> QED BY <2>1, <2>2, <2>3
<1>9. \A q \in Port : Programmed(q, 2) => {6, 7} \subseteq uart'[q]["FCTR"]
  <2>1. \A q \in Port : Programmed(q, 2) => {6, 7} \subseteq uart[q]["FCTR"]
    BY <1>1 DEF TriggersOn
  <2>2. Programmed(p, 2) /\ a.io = "write" /\ a.reg = "FCTR" => {6, 7} \subseteq Derived(c)
    BY <1>8
  <2> HIDE DEF a, p
  <2> QED BY <1>6, <2>1, <2>2
<1>10. ASSUME NEW d \in Caller, Busy(d)'
       PROVE  /\ InitTriggers(d)' /\ call'[d].pc > 3 => {6, 7} \subseteq uart'[At(d)']["FCTR"]
              /\ \A i \in 1..call'[d].pc - 1 :
                   Programmed(At(d), 2)' /\ call'[d].steps[i].io = "read" /\ call'[d].steps[i].reg = "FCTR"
                     => {6, 7} \subseteq call'[d].kept["FCTR"]
  <2>1. CASE d # c
    <3>1. /\ Busy(d) /\ At(d)' = At(d) /\ call'[d] = call[d] /\ At(d) \in Port
          /\ uart'[At(d)] = uart[At(d)]
      BY <1>10, <2>1, Undisturbed
    <3>2. InitTriggers(d)' = InitTriggers(d)
      BY <3>1 DEF InitTriggers
    <3>3. Programmed(At(d), 2)' = Programmed(At(d), 2)
      BY <1>3, <3>1 DEF Programmed
    <3> QED BY <1>1, <3>1, <3>2, <3>3 DEF TriggersOn
  <2>2. CASE d = c
    <3>1. InitTriggers(c) /\ n + 1 > 3 => {6, 7} \subseteq uart'[p]["FCTR"]
      <4> SUFFICES ASSUME InitTriggers(c), n + 1 > 3 PROVE {6, 7} \subseteq uart'[p]["FCTR"]
        OBVIOUS
      <4>1. Len(s) = 3 /\ s[3] = Write("FCTR", {6, 7}, {})
        BY <1>4 DEF InitSteps
      <4>2. n = 3
        BY <1>3, <4>1
      <4>3. a.io = "write" /\ a.reg = "FCTR" /\ a.on = {6, 7}
        BY <1>3, <4>1, <4>2 DEF Write, Access
      <4>4. {6, 7} \subseteq Derived(c)
        BY <1>8, <4>3
      <4> QED BY <1>3, <1>6, <4>3, <4>4
    <3>2. ASSUME NEW i \in 1..n, Programmed(p, 2), s[i].io = "read", s[i].reg = "FCTR"
          PROVE  {6, 7} \subseteq new
      <4>1. {6, 7} \subseteq held
        BY <1>1, <1>3, <3>2 DEF TriggersOn
      <4>2. CASE a.io = "read" /\ a.reg = "FCTR"
        BY <1>7, <4>1, <4>2
      <4>3. CASE ~(a.io = "read" /\ a.reg = "FCTR")
        <5>1. i # n
          BY <1>3, <3>2, <4>3
        <5>2. i \in 1..n - 1
          BY <1>3, <5>1
        <5>3. {6, 7} \subseteq kept
          BY <1>1, <1>3, <3>2, <5>2 DEF TriggersOn
        <5> QED BY <1>7, <4>3, <5>3
      <4> QED BY <4>2, <4>3
    <3>3. Programmed(At(c), 2)' = Programmed(p, 2)
      BY <1>3 DEF Programmed
    <3> HIDE DEF s, n, p, kept, held
    <3>4. InitTriggers(c)' /\ call'[c].pc > 3 => {6, 7} \subseteq uart'[At(c)']["FCTR"]
      BY <1>3, <3>1
    <3>5. \A i \in 1..call'[c].pc - 1 :
            Programmed(At(c), 2)' /\ call'[c].steps[i].io = "read" /\ call'[c].steps[i].reg = "FCTR"
              => {6, 7} \subseteq call'[c].kept["FCTR"]
      BY <1>3, <3>2, <3>3
    <3> QED BY <2>2, <3>4, <3>5
  <2> QED BY <2>1, <2>2
<1>11. \A q \in Port : Programmed(q, 2)' => {6, 7} \subseteq uart'[q]["FCTR"]
  BY <1>5, <1>9
<1> QED BY <1>10, <1>11 DEF TriggersOn

(* The level registers change by the calls that set them.                  *)
LEMMA PerformKeepsLevels ==
  ASSUME IInv, NEW c \in Caller, Perform(c)
  PROVE  LevelsHeld'
<1> DEFINE s == call[c].steps
           n == call[c].pc
           p == At(c)
           a == Pending(c)
<1>1. /\ TypeOK /\ Served /\ Attributed /\ LevelsHeld
      /\ \A level \in Level : /\ RegisterOf[level] \in ByteReg /\ RegisterOf[level] \notin Divisor
                              /\ RegisterOf[level] \in {"TXTRG", "RXTRG"}
  BY DEF IInv, Level, RegisterOf, ByteReg, Divisor
<1>2. Turn(c)
  BY Turns
<1>3. /\ Busy(c) /\ p \in Port /\ n \in 1..Len(s) /\ a = s[n] /\ Len(s) \in Nat /\ n \in Nat
      /\ At(c)' = p /\ Busy(c)' /\ call'[c].steps = s /\ call'[c].pc = n + 1
      /\ UNCHANGED <<boot, cache>> /\ call'[c].arg = call[c].arg
      /\ \A name : Sets(c, name)' = Sets(c, name)
  BY <1>2 DEF Turn
<1>4. \A level \in Level : IF Sets(c, level)
                           THEN s = <<Store(RegisterOf[level], call[c].arg)>> /\ call[c].arg \in Byte
                           ELSE Spares(s, RegisterOf[level])
  BY <1>1, <1>3, BusyShape
<1>5. \A d \in Caller : \A name : Sets(d, name)' = Sets(d, name)
  <2> SUFFICES ASSUME NEW d \in Caller, NEW name PROVE Sets(d, name)' = Sets(d, name)
    OBVIOUS
  <2>1. /\ Busy(d)' = Busy(d) /\ call'[d].kind = call[d].kind /\ call'[d].name = call[d].name
        /\ call'[d].status = call[d].status
    BY PerformedCalls
  <2> QED BY <2>1 DEF Sets
<1>6. \A d \in Caller : At(d)' = At(d)
  BY PerformedCalls
<1>7. a.io = "store_divisor" => a.reg \in Divisor
  <2>1. a \in Accesses
    BY PerformedCalls, DoingFacts
  <2> QED BY <2>1 DEF Accesses
<1>8. ASSUME NEW q \in Port, NEW level \in Level, ~(q = p /\ Sets(c, level))
      PROVE  byte'[q][RegisterOf[level]] = byte[q][RegisterOf[level]]
  <2>1. CASE q # p
    BY <1>1, <2>1, PerformedHardware
  <2>2. CASE ~Sets(c, level)
    <3>1. Spares(s, RegisterOf[level])
      BY <1>4, <2>2
    <3>2. a.io = "store" => a.reg # RegisterOf[level]
      BY <1>3, <3>1 DEF Spares
    <3>3. a.io = "store_divisor" => a.reg # RegisterOf[level]
      BY <1>1, <1>7
    <3> QED BY <1>1, <3>2, <3>3, PerformedHardware
  <2> QED BY <1>8, <2>1, <2>2
<1>9. ASSUME NEW level \in Level, Sets(c, level)
      PROVE  byte'[p][RegisterOf[level]] = call[c].arg
  <2>1. s = <<Store(RegisterOf[level], call[c].arg)>>
    BY <1>4, <1>9
  <2>2. n = 1 /\ a = Store(RegisterOf[level], call[c].arg)
    BY <1>3, <2>1
  <2>3. a.io = "store" /\ a.reg = RegisterOf[level] /\ a.val = call[c].arg
    BY <2>2 DEF Store, Access
  <2> QED BY <1>1, <1>3, <2>3, PerformedHardware
<1>10. ASSUME NEW q \in Port, NEW name \in Level,
              Programmed(q, PlaceOf[name])', \A d \in Caller : At(d)' = q => ~Sets(d, name)'
       PROVE  byte'[q][RegisterOf[name]] = cache'[q][name]
  <2>1. Programmed(q, PlaceOf[name]) /\ \A d \in Caller : At(d) = q => ~Sets(d, name)
    BY <1>3, <1>5, <1>6, <1>10 DEF Programmed
  <2>2. byte[q][RegisterOf[name]] = cache[q][name]
    BY <1>1, <2>1 DEF LevelsHeld
  <2>3. ~(q = p /\ Sets(c, name))
    BY <2>1
  <2> QED BY <1>3, <1>8, <2>2, <2>3
<1>11. ASSUME NEW d \in Caller, NEW name \in Level, Sets(d, name)', call'[d].pc > 1
       PROVE  byte'[At(d)'][RegisterOf[name]] = call'[d].arg
  <2>1. CASE d = c
    BY <1>3, <1>5, <1>9, <1>11, <2>1
  <2>2. CASE d # c
    <3>1. Busy(d)'
      BY <1>11 DEF Sets
    <3>2. /\ At(d)' = At(d) /\ call'[d] = call[d] /\ At(d) # p /\ At(d) \in Port
      BY <2>2, <3>1, Undisturbed
    <3>3. Sets(d, name)
      BY <1>5, <1>11
    <3>4. byte[At(d)][RegisterOf[name]] = call[d].arg
      BY <1>1, <1>11, <3>2, <3>3 DEF LevelsHeld
    <3> QED BY <1>8, <3>2, <3>4
  <2> QED BY <2>1, <2>2
<1> QED BY <1>10, <1>11 DEF LevelsHeld

(* All of it.                                                              *)
LEMMA PerformKeeps == ASSUME IInv, NEW c \in Caller, Perform(c) PROVE IInv'
BY PerformKeepsCalls, PerformKeepsLcr, PerformKeepsFetched, PerformKeepsDivisor, PerformKeepsTriggers,
   PerformKeepsLevels DEF IInv

-----------------------------------------------------------------------------
(* Entering the driver.                                                    *)

\* Caller c is let in on port p, for a call it may make there.
Enters(c, p, request, h) ==
  /\ ~Busy(c) /\ p \in Port /\ MayEnter(p)
  /\ h \in Handlers(p[2], request, cache[p].sample_rate)
  /\ Enter(c, p, request, h)
  /\ UNCHANGED <<uart, byte, board, cache, boot, line>>
  /\ c \in User => Ready(p) /\ request \in Calls[p[2]]
  /\ c \in Card => /\ boot[c] < NumPorts * StepsPerPort
                   /\ p = <<c, boot[c] \div StepsPerPort>>
                   /\ request = serialfc_port_new[(boot[c] % StepsPerPort) + 1]

(* Both users and loaders enter like this.                                 *)
LEMMA BeginEnters ==
  ASSUME IInv
  PROVE  /\ \A u \in User, p \in Card \X Opened : \A request \in Calls[p[2]] :
              Begin(u, p, request) => \E h : Enters(u, p, request, h)
         /\ \A k \in Card : BeginBoot(k) => \E p, request, h : Enters(k, p, request, h)
<1>1. ASSUME NEW u \in User, NEW p \in Card \X Opened, NEW request \in Calls[p[2]], Begin(u, p, request)
      PROVE  \E h : Enters(u, p, request, h)
  <2>1. PICK h \in Handlers(p[2], request, cache[p].sample_rate) : Enter(u, p, request, h)
    BY <1>1 DEF Begin, Start
  <2>2. p \in Port
    BY OpenedAssumption DEF Port
  <2>3. u \notin Card
    BY CallerAssumption
  <2>4. Enters(u, p, request, h)
    BY <1>1, <2>1, <2>2, <2>3 DEF Enters, Begin, Start, hardware
  <2> QED BY <2>4
<1>2. ASSUME NEW k \in Card, BeginBoot(k) PROVE \E p, request, h : Enters(k, p, request, h)
  <2> DEFINE p == <<k, boot[k] \div StepsPerPort>>
             request == serialfc_port_new[(boot[k] % StepsPerPort) + 1]
  <2>1. ~Busy(k) /\ boot[k] < NumPorts * StepsPerPort /\ Start(k, p, request)
    BY <1>2 DEF BeginBoot
  <2>2. PICK h \in Handlers(p[2], request, cache[p].sample_rate) : Enter(k, p, request, h)
    BY <2>1 DEF Start
  <2>3. p \in Port
    <3>1. boot[k] \in 0..NumPorts * StepsPerPort /\ NumPorts * StepsPerPort \in Nat
      BY StartUpLength, Channels DEF IInv, TypeOK
    <3>2. boot[k] \in Nat /\ 0 \in Channel /\ 1 \in 1..StepsPerPort
      BY <3>1, Channels, StartUpLength DEF Channel
    <3>3. boot[k] \div StepsPerPort \in Channel
      BY <2>1, <3>2, BootArithmetic
    <3> QED BY <3>3 DEF Port
  <2>4. k \notin User
    BY CallerAssumption
  <2>5. UNCHANGED <<uart, byte, board, cache, boot, line>> /\ MayEnter(p)
    BY <2>1 DEF Start, hardware
  <2> HIDE DEF p, request
  <2>6. Enters(k, p, request, h)
    BY <2>1, <2>2, <2>3, <2>4, <2>5 DEF Enters, p, request
  <2> QED BY <2>6
<1> QED BY <1>1, <1>2

(* A port that may be entered is quiet.                                    *)
LEMMA EntersQuiet ==
  ASSUME Discipline # "none", NEW p \in Port, MayEnter(p)
  PROVE  Quiet(p) /\ (Discipline = "card" => \A channel \in Channel : Quiet(<<p[1], channel>>))
<1>1. p[2] \in Channel /\ p = <<p[1], p[2]>>
  BY DEF Port
<1>2. CASE Discipline = "port"
  BY <1>2 DEF MayEnter
<1>3. CASE Discipline = "card"
  <2>1. \A channel \in Channel : Quiet(<<p[1], channel>>)
    BY <1>3 DEF MayEnter
  <2>2. Quiet(<<p[1], p[2]>>)
    BY <1>1, <2>1
  <2> QED BY <1>1, <2>1, <2>2
<1> QED BY <1>2, <1>3, DisciplineAssumption

(* What the callers look like then.                                        *)
LEMMA EnteredCalls ==
  ASSUME IInv, NEW c \in Caller, NEW p, NEW request, NEW h, Enters(c, p, request, h)
  PROVE  /\ call' \in [Caller -> CallRecord]
         /\ \A d \in Caller : d # c => call'[d] = call[d] /\ Busy(d)' = Busy(d) /\ At(d)' = At(d)
         /\ ~Busy(c) /\ Busy(c)' /\ At(c)' = p /\ call'[c].pc = 1
         /\ call'[c].kind = request.kind /\ call'[c].name = request.name /\ call'[c].arg = request.arg
         /\ call'[c].steps = h.steps /\ call'[c].status = h.status
         /\ h.steps \in Seq(Accesses)
         /\ c \in User => request.kind # "boot" /\ (request.name # "isochronous" => request.arg \in Nat)
<1>1. p \in Port /\ p[2] \in Channel
  BY DEF Enters, Port
<1>2. request \in Calls[p[2]] \/ \E i \in 1..StepsPerPort : request = serialfc_port_new[i]
  <2>1. CASE c \in User
    BY <2>1 DEF Enters
  <2>2. CASE c \in Card
    <3>1. boot[c] \in 0..NumPorts * StepsPerPort /\ NumPorts * StepsPerPort \in Nat
      BY <2>2, StartUpLength, Channels DEF IInv, TypeOK
    <3>2. boot[c] \in Nat /\ 0 \in Channel /\ 1 \in 1..StepsPerPort /\ boot[c] < NumPorts * StepsPerPort
      BY <2>2, <3>1, Channels, StartUpLength DEF Channel, Enters
    <3>3. (boot[c] % StepsPerPort) + 1 \in 1..StepsPerPort
      BY <3>2, BootArithmetic
    <3> QED BY <2>2, <3>3 DEF Enters
  <2> QED BY <2>1, <2>2 DEF Caller
<1>3. h \in Handlers(p[2], request, cache[p].sample_rate)
  BY DEF Enters
<1>4. /\ request.kind \in {"set", "get", "boot"} /\ request.name \in CallName /\ request.arg \in Int
      /\ h.steps \in Seq(Accesses) /\ h.status \in Int
  BY <1>1, <1>2, <1>3, RequestsHandled
<1> DEFINE r == [kind |-> request.kind, name |-> request.name, arg |-> request.arg,
                 port |-> p, steps |-> h.steps, pc |-> 1, status |-> h.status,
                 kept |-> NothingKept, got |-> NothingGot, divisor |-> 0, value |-> 0]
<1>5. /\ r.kind = request.kind /\ r.name = request.name /\ r.arg = request.arg /\ r.port = p
      /\ r.steps = h.steps /\ r.status = h.status /\ r.pc = 1
  OBVIOUS
<1>6. r \in CallRecord
  <2>1. NothingKept \in Kept /\ NothingGot \in Got
    BY DEF NothingKept, NothingGot, Kept, Got, Byte
  <2> QED BY <1>1, <1>4, <2>1 DEF CallRecord, Kept, Got
<1>7. call' = [call EXCEPT ![c] = r] /\ ~Busy(c)
  BY DEF Enters, Enter
<1> HIDE DEF r
<1>8. call \in [Caller -> CallRecord]
  BY DEF IInv, TypeOK
<1>9. call' \in [Caller -> CallRecord] /\ call'[c] = r /\ \A d \in Caller : d # c => call'[d] = call[d]
  BY <1>6, <1>7, <1>8
<1>10. \A d \in Caller : d # c => Busy(d)' = Busy(d) /\ At(d)' = At(d)
  BY <1>9 DEF Busy, At
<1>11. Busy(c)' /\ At(c)' = p
  BY <1>4, <1>5, <1>9 DEF Busy, At
<1>12. c \in User => request.kind # "boot" /\ (request.name # "isochronous" => request.arg \in Nat)
  <2>1. c \in User => request \in Calls[p[2]]
    BY DEF Enters
  <2> QED BY <1>1, <2>1, CallsAssumption
<1> QED BY <1>4, <1>5, <1>7, <1>9, <1>10, <1>11, <1>12

(* Entering keeps the invariant.                                           *)
LEMMA EnterKeeps ==
  ASSUME IInv, Discipline # "none",
         NEW c \in Caller, NEW p, NEW request, NEW h, Enters(c, p, request, h)
  PROVE  IInv'
<1>1. /\ TypeOK /\ Exclusive /\ Served /\ Attributed /\ LcrFollowsCall /\ LcrRestored
      /\ FetchedFollows /\ DivisorFollows /\ TriggersOn /\ LevelsHeld /\ RateKnown
  BY DEF IInv
<1>2. /\ p \in Port /\ MayEnter(p) /\ UNCHANGED <<uart, byte, board, cache, boot, line>>
      /\ h \in Handlers(p[2], request, cache[p].sample_rate)
      /\ c \in User => Ready(p)
      /\ c \in Card => /\ boot[c] < NumPorts * StepsPerPort
                       /\ p = <<c, boot[c] \div StepsPerPort>>
                       /\ request = serialfc_port_new[(boot[c] % StepsPerPort) + 1]
  BY DEF Enters
<1>3. Quiet(p)
  BY <1>2, EntersQuiet
<1>4. /\ call' \in [Caller -> CallRecord]
      /\ \A d \in Caller : d # c => call'[d] = call[d] /\ Busy(d)' = Busy(d) /\ At(d)' = At(d)
      /\ ~Busy(c) /\ Busy(c)' /\ At(c)' = p /\ call'[c].pc = 1
      /\ call'[c].kind = request.kind /\ call'[c].name = request.name /\ call'[c].arg = request.arg
      /\ call'[c].steps = h.steps /\ call'[c].status = h.status
      /\ h.steps \in Seq(Accesses)
      /\ c \in User => request.kind # "boot" /\ (request.name # "isochronous" => request.arg \in Nat)
  BY EnteredCalls
<1>5. \A i \in 1..call'[c].pc - 1 : FALSE
  BY <1>4
<1>6. ASSUME NEW d \in Caller, d # c
      PROVE  /\ OnDivisor(d)' = OnDivisor(d) /\ InitTriggers(d)' = InitTriggers(d)
             /\ \A name : Sets(d, name)' = Sets(d, name)
  BY <1>4, <1>6 DEF OnDivisor, InitTriggers, Sets
<1>7. TypeOK'
  BY <1>1, <1>2, <1>4 DEF TypeOK
<1>8. Exclusive'
  BY <1>1, <1>3, <1>4 DEF Exclusive, Quiet
<1>9. Served'
  <2> SUFFICES ASSUME NEW d \in Caller, Busy(d)'
               PROVE  /\ call'[d].pc <= Len(call'[d].steps) + 1
                      /\ \E g \in Handlers(At(d)'[2], call'[d], cache'[At(d)'].sample_rate) :
                           call'[d].steps = g.steps /\ call'[d].status = g.status
    BY DEF Served
  <2>1. CASE d = c
    <3>1. h \in Handlers(At(c)'[2], call'[c], cache'[At(c)'].sample_rate)
      BY <1>2, <1>4 DEF Handlers
    <3>2. Len(h.steps) \in Nat
      BY <1>4
    <3> QED BY <1>4, <2>1, <3>1, <3>2
  <2>2. CASE d # c
    BY <1>1, <1>2, <1>4, <2>2 DEF Served
  <2> QED BY <2>1, <2>2
<1>10. Attributed'
  <2>1. ASSUME NEW k \in Card, Busy(k)'
        PROVE  LET r == serialfc_port_new[(boot'[k] % StepsPerPort) + 1] IN
               /\ boot'[k] < NumPorts * StepsPerPort
               /\ At(k)' = <<k, boot'[k] \div StepsPerPort>>
               /\ call'[k].kind = r.kind /\ call'[k].name = r.name /\ call'[k].arg = r.arg
    <3>0. k \in Caller
      BY DEF Caller
    <3>1. CASE k = c
      BY <1>2, <1>4, <3>1
    <3>2. CASE k # c
      BY <1>1, <1>2, <1>4, <2>1, <3>0, <3>2 DEF Attributed
    <3> QED BY <3>1, <3>2
  <2>2. ASSUME NEW u \in User, Busy(u)'
        PROVE  /\ Ready(At(u))'
               /\ call'[u].kind # "boot"
               /\ call'[u].name # "isochronous" => call'[u].arg \in Nat
    <3>0. u \in Caller
      BY DEF Caller
    <3>1. CASE u = c
      <4>1. Ready(At(u))' = Ready(p)
        BY <1>2, <1>4, <3>1 DEF Ready
      <4> QED BY <1>2, <1>4, <3>1, <4>1
    <3>2. CASE u # c
      <4>1. Ready(At(u))' = Ready(At(u))
        BY <1>2, <1>4, <3>0, <3>2 DEF Ready
      <4> QED BY <1>1, <1>4, <2>2, <3>0, <3>2, <4>1 DEF Attributed
    <3> QED BY <3>1, <3>2
  <2> QED BY <2>1, <2>2 DEF Attributed
<1>11. LcrFollowsCall'
  <2> SUFFICES ASSUME NEW d \in Caller, Busy(d)'
               PROVE  /\ uart'[At(d)']["LCR"] = IF OnDivisor(d)' /\ call'[d].pc \in 3..Len(call'[d].steps)
                                                THEN line'[At(d)'] \cup {7} ELSE line'[At(d)']
                      /\ OnDivisor(d)' /\ call'[d].pc > 1 => call'[d].kept["LCR"] = line'[At(d)']
    BY DEF LcrFollowsCall
  <2>1. CASE d = c
    <3>1. uart[p]["LCR"] = line[p]
      BY <1>1, <1>2, <1>3 DEF LcrRestored
    <3>2. Len(call'[c].steps) \in Nat
      BY <1>4
    <3>3. call'[c].pc \notin 3..Len(call'[c].steps) /\ ~(call'[c].pc > 1)
      BY <1>4, <3>2
    <3> QED BY <1>2, <1>4, <2>1, <3>1, <3>3
  <2>2. CASE d # c
    BY <1>1, <1>2, <1>4, <1>6, <2>2 DEF LcrFollowsCall
  <2> QED BY <2>1, <2>2
<1>12. LcrRestored'
  <2> SUFFICES ASSUME NEW q \in Port, Quiet(q)' PROVE uart'[q]["LCR"] = line'[q]
    BY DEF LcrRestored
  <2>1. Quiet(q)
    BY <1>4 DEF Quiet
  <2> QED BY <1>1, <1>2, <2>1 DEF LcrRestored
<1>13. FetchedFollows'
  <2> SUFFICES ASSUME NEW d \in Caller, Busy(d)', OnDivisor(d)', call'[d].kind = "get"
               PROVE  /\ \A i \in 1..call'[d].pc - 1 : call'[d].steps[i].io = "fetch" =>
                           call'[d].got[call'[d].steps[i].reg] = byte'[At(d)'][call'[d].steps[i].reg]
                      /\ call'[d].pc > 6 =>
                           call'[d].value = (Clock \div Sixteenths(byte'[At(d)'])) \div cache'[At(d)'].sample_rate
    BY DEF FetchedFollows
  <2>1. CASE d = c
    BY <1>4, <1>5, <2>1
  <2>2. CASE d # c
    BY <1>1, <1>2, <1>4, <1>6, <2>2 DEF FetchedFollows
  <2> QED BY <2>1, <2>2
<1>14. DivisorFollows'
  <2> SUFFICES ASSUME NEW d \in Caller, Busy(d)', OnDivisor(d)', call'[d].kind = "set"
               PROVE  /\ call'[d].pc > 3 =>
                           /\ call'[d].arg * cache'[At(d)'].sample_rate # 0
                           /\ call'[d].divisor = Clock \div (call'[d].arg * cache'[At(d)'].sample_rate)
                      /\ \A i \in 1..call'[d].pc - 1 : call'[d].steps[i].io = "store_divisor" =>
                           byte'[At(d)'][call'[d].steps[i].reg] =
                             DivisorByte(call'[d].steps[i].reg, call'[d].divisor, call'[d].got["DLD"])
    BY DEF DivisorFollows
  <2>1. CASE d = c
    BY <1>4, <1>5, <2>1
  <2>2. CASE d # c
    BY <1>1, <1>2, <1>4, <1>6, <2>2 DEF DivisorFollows
  <2> QED BY <2>1, <2>2
<1>15. TriggersOn'
  <2>1. \A q \in Port : Programmed(q, 2)' = Programmed(q, 2)
    BY <1>2 DEF Programmed
  <2>2. ASSUME NEW d \in Caller, Busy(d)'
        PROVE  /\ InitTriggers(d)' /\ call'[d].pc > 3 => {6, 7} \subseteq uart'[At(d)']["FCTR"]
               /\ \A i \in 1..call'[d].pc - 1 :
                    Programmed(At(d), 2)' /\ call'[d].steps[i].io = "read" /\ call'[d].steps[i].reg = "FCTR"
                      => {6, 7} \subseteq call'[d].kept["FCTR"]
    <3>1. CASE d = c
      BY <1>4, <1>5, <3>1
    <3>2. CASE d # c
      <4>1. Programmed(At(d), 2)' = Programmed(At(d), 2)
        BY <1>2, <1>4, <3>2 DEF Programmed
      <4> QED BY <1>1, <1>2, <1>4, <1>6, <2>2, <3>2, <4>1 DEF TriggersOn
    <3> QED BY <3>1, <3>2
  <2>3. \A q \in Port : Programmed(q, 2)' => {6, 7} \subseteq uart'[q]["FCTR"]
    BY <1>1, <1>2, <2>1 DEF TriggersOn
  <2> QED BY <2>2, <2>3 DEF TriggersOn
<1>16. LevelsHeld'
  <2>1. ASSUME NEW q \in Port, NEW name \in Level,
               Programmed(q, PlaceOf[name])', \A d \in Caller : At(d)' = q => ~Sets(d, name)'
        PROVE  byte'[q][RegisterOf[name]] = cache'[q][name]
    <3>1. Programmed(q, PlaceOf[name])
      BY <1>2, <2>1 DEF Programmed
    <3>2. \A d \in Caller : At(d) = q => ~Sets(d, name)
      <4>1. ~Sets(c, name)
        BY <1>4 DEF Sets
      <4> QED BY <1>4, <1>6, <2>1, <4>1
    <3> QED BY <1>1, <1>2, <3>1, <3>2 DEF LevelsHeld
  <2>2. ASSUME NEW d \in Caller, NEW name \in Level, Sets(d, name)', call'[d].pc > 1
        PROVE  byte'[At(d)'][RegisterOf[name]] = call'[d].arg
    <3>1. d # c
      BY <1>4, <2>2
    <3> QED BY <1>1, <1>2, <1>4, <1>6, <2>2, <3>1 DEF LevelsHeld
  <2> QED BY <2>1, <2>2 DEF LevelsHeld
<1>17. RateKnown'
  BY <1>1, <1>2 DEF RateKnown, Programmed
<1> QED BY <1>7, <1>8, <1>9, <1>10, <1>11, <1>12, <1>13, <1>14, <1>15, <1>16, <1>17 DEF IInv

-----------------------------------------------------------------------------
(* Returning.                                                              *)

(* What the callers look like when one of them has returned.               *)
LEMMA ReturnedCalls ==
  ASSUME IInv, NEW c \in Caller, Return(c)
  PROVE  /\ call' \in [Caller -> CallRecord]
         /\ \A d \in Caller : d # c => call'[d] = call[d] /\ Busy(d)' = Busy(d) /\ At(d)' = At(d)
         /\ Busy(c) /\ ~Busy(c)' /\ At(c) \in Port
         /\ Len(call[c].steps) \in Nat /\ call[c].pc = Len(call[c].steps) + 1
         /\ UNCHANGED <<uart, byte, board, line>>
<1>1. /\ TypeOK /\ Served /\ Busy(c) /\ call[c].pc > Len(call[c].steps)
      /\ UNCHANGED <<uart, byte, board, line>>
      /\ call' = [call EXCEPT ![c] = Idle(call[c].status, Reply(c))]
  BY DEF IInv, Return, hardware
<1>2. /\ call \in [Caller -> CallRecord] /\ call[c] \in CallRecord /\ Len(call[c].steps) \in Nat
      /\ call[c].pc \in Nat \ {0} /\ At(c) \in Port /\ call[c].steps \in Seq(Accesses)
  BY <1>1, CallFacts DEF TypeOK
<1>3. call[c].pc = Len(call[c].steps) + 1
  <2>1. call[c].pc <= Len(call[c].steps) + 1
    BY <1>1 DEF Served
  <2> QED BY <1>1, <1>2, <2>1
<1>4. Reply(c) \in Int
  <2>1. call[c].value \in Int
    BY <1>2 DEF CallRecord
  <2>2. \A P : YesNo(P) \in Int
    BY DEF YesNo
  <2>3. \A name \in Cached : cache[At(c)][name] \in Int
    BY <1>1, <1>2 DEF TypeOK
  <2>4. \/ Reply(c) = 0 \/ (\E name \in Cached : Reply(c) = cache[At(c)][name])
        \/ (\E P : Reply(c) = YesNo(P)) \/ Reply(c) = call[c].value
    <3>1. CASE call[c].kind # "get" \/ call[c].status # 0
      BY <3>1 DEF Reply
    <3>2. CASE call[c].kind = "get" /\ call[c].status = 0 /\ call[c].name \in Cached
      BY <3>2 DEF Reply
    <3>3. CASE call[c].kind = "get" /\ call[c].status = 0 /\ call[c].name \notin Cached
      <4>1. CASE call[c].name = "rs485"
        <5>1. Reply(c) = YesNo(5 \in call[c].kept["FCTR"])
          BY <3>3, <4>1 DEF Reply
        <5> QED BY <5>1
      <4>2. CASE call[c].name = "echo_cancel"
        <5>1. Reply(c) = YesNo(EchoBit(At(c)[2]) \in call[c].kept[EchoRegister])
          BY <3>3, <4>2 DEF Reply
        <5> QED BY <5>1
      <4>3. CASE call[c].name = "termination"
        <5>1. Reply(c) = YesNo(At(c)[2] \notin call[c].kept["MPIOLVL"])
          BY <3>3, <4>3 DEF Reply
        <5> QED BY <5>1
      <4>4. CASE call[c].name \notin {"rs485", "echo_cancel", "termination"}
        BY <3>3, <4>4 DEF Reply
      <4> QED BY <4>1, <4>2, <4>3, <4>4
    <3> QED BY <3>1, <3>2, <3>3
  <2> QED BY <2>1, <2>2, <2>3, <2>4
<1> DEFINE r == Idle(call[c].status, Reply(c))
<1>5. r \in CallRecord
  <2>1. NothingKept \in [UartReg \cup BoardReg -> SUBSET Bits] /\ NothingGot \in [Divisor -> Byte]
    BY DEF NothingKept, NothingGot, Byte
  <2>2. NoPort \in Port
    BY <1>2 DEF NoPort
  <2>3. << >> \in Seq(Accesses) /\ call[c].status \in Int /\ "none" \in CallName
    BY <1>2 DEF CallRecord, CallName
  <2> QED BY <1>4, <2>1, <2>2, <2>3 DEF CallRecord, Idle
<1>6. r.kind = "none"
  BY DEF Idle
<1> HIDE DEF r
<1>7. call' \in [Caller -> CallRecord] /\ call'[c] = r /\ \A d \in Caller : d # c => call'[d] = call[d]
  BY <1>1, <1>2, <1>5 DEF r
<1>8. \A d \in Caller : d # c => Busy(d)' = Busy(d) /\ At(d)' = At(d)
  BY <1>7 DEF Busy, At
<1>9. ~Busy(c)'
  BY <1>6, <1>7 DEF Busy
<1> QED BY <1>1, <1>2, <1>3, <1>7, <1>8, <1>9

(* What the driver remembers of the call, and of start-up.                 *)
LEMMA ReturnedMemory ==
  ASSUME IInv, NEW c \in Caller, Return(c)
  PROVE  /\ cache' \in [Port -> [Cached -> Nat]]
         /\ \A p \in Port, name \in Cached :
              cache'[p][name] = IF p = At(c) /\ Sets(c, name) THEN call[c].arg ELSE cache[p][name]
         /\ boot' \in [Card -> 0..NumPorts * StepsPerPort]
         /\ \A k \in Card : boot'[k] = IF k = c THEN boot[k] + 1 ELSE boot[k]
<1>1. /\ TypeOK /\ Served /\ Attributed /\ Busy(c) /\ At(c) \in Port
      /\ cache \in [Port -> [Cached -> Nat]]
      /\ boot \in [Card -> 0..NumPorts * StepsPerPort]
      /\ Remember(c) /\ boot' = IF c \in Card THEN [boot EXCEPT ![c] = @ + 1] ELSE boot
  BY ReturnedCalls DEF IInv, Return, TypeOK
<1>2. call[c].name \in Cached => call[c].arg \in Nat
  <2>1. call[c].name \in Cached => call[c].name # "isochronous"
    BY DEF Cached
  <2> QED BY <1>1, <2>1, Asked
<1> DEFINE Cache == /\ cache' \in [Port -> [Cached -> Nat]]
                    /\ \A p \in Port, name \in Cached :
                         cache'[p][name] = IF p = At(c) /\ Sets(c, name) THEN call[c].arg ELSE cache[p][name]
<1>3. ASSUME call[c].kind = "set" /\ call[c].name \in Cached /\ call[c].status = 0
      PROVE  Cache
  <2>1. cache' = [cache EXCEPT ![At(c)][call[c].name] = call[c].arg]
    BY <1>1, <1>3 DEF Remember
  <2>2. \A name : Sets(c, name) <=> name = call[c].name
    BY <1>1, <1>3 DEF Sets
  <2> QED BY <1>1, <1>2, <1>3, <2>1, <2>2
<1>4. ASSUME ~(call[c].kind = "set" /\ call[c].name \in Cached /\ call[c].status = 0)
      PROVE  Cache
  <2>1. cache' = cache
    BY <1>1, <1>4 DEF Remember
  <2>2. \A name \in Cached : ~Sets(c, name)
    BY <1>4 DEF Sets
  <2> QED BY <1>1, <2>1, <2>2
<1>5. Cache
  <2> HIDE DEF Cache
  <2> QED BY <1>3, <1>4
<1>6. CASE c \in Card
  <2>1. boot[c] < NumPorts * StepsPerPort /\ NumPorts * StepsPerPort \in Nat
    BY <1>1, <1>6, StartUpLength, Channels DEF Attributed
  <2>2. boot[c] + 1 \in 0..NumPorts * StepsPerPort
    BY <1>1, <1>6, <2>1
  <2> QED BY <1>1, <1>5, <1>6, <2>2
<1>7. CASE c \notin Card
  BY <1>1, <1>5, <1>7
<1> QED BY <1>6, <1>7

(* A port gets further in its start-up by a call of its own loader.        *)
LEMMA NewlyProgrammed ==
  ASSUME IInv, NEW c \in Caller, Return(c), NEW q \in Port, NEW n \in 1..StepsPerPort
  PROVE  /\ Programmed(q, n) => Programmed(q, n)'
         /\ At(c) # q => Programmed(q, n)' = Programmed(q, n)
         /\ Programmed(q, n)' /\ ~Programmed(q, n) =>
              /\ At(c) = q
              /\ call[c].kind = serialfc_port_new[n].kind /\ call[c].name = serialfc_port_new[n].name
              /\ call[c].arg = serialfc_port_new[n].arg
<1>1. /\ TypeOK /\ Attributed /\ Busy(c)
      /\ q[1] \in Card /\ q[2] \in Channel /\ q = <<q[1], q[2]>>
  BY ReturnedCalls DEF IInv, Port
<1>2. boot'[q[1]] = (IF q[1] = c THEN boot[c] + 1 ELSE boot[q[1]])
  BY <1>1, ReturnedMemory
<1>3. q[2] \in Nat /\ StepsPerPort \in Nat /\ n \in Nat
  BY <1>1, Channels, StartUpLength
<1> DEFINE least == q[2] * StepsPerPort + n
<1>4. least \in Nat
  BY <1>3
<1>5. Programmed(q, n) = (boot[q[1]] >= least) /\ Programmed(q, n)' = (boot'[q[1]] >= least)
  BY DEF Programmed
<1>6. CASE q[1] # c
  BY <1>2, <1>5, <1>6
<1>7. CASE q[1] = c
  <2>1. c \in Card
    BY <1>1, <1>7
  <2>2. boot[c] \in Nat /\ boot[c] < NumPorts * StepsPerPort
    BY <1>1, <2>1, LoaderAt
  <2>3. boot'[c] = boot[c] + 1
    BY <1>2, <1>7
  <2>4. boot[c] + 1 >= least /\ ~(boot[c] >= least)
          => boot[c] \div StepsPerPort = q[2] /\ (boot[c] % StepsPerPort) + 1 = n
    BY <1>1, <2>2, BootArithmetic
  <2>5. /\ At(c) = <<c, boot[c] \div StepsPerPort>>
        /\ call[c].kind = serialfc_port_new[(boot[c] % StepsPerPort) + 1].kind
        /\ call[c].name = serialfc_port_new[(boot[c] % StepsPerPort) + 1].name
        /\ call[c].arg = serialfc_port_new[(boot[c] % StepsPerPort) + 1].arg
    BY <1>1, <2>1 DEF Attributed
  <2> HIDE DEF least
  <2>6. boot[c] >= least => boot[c] + 1 >= least
    BY <1>4, <2>2
  <2>7. (Programmed(q, n) => Programmed(q, n)')
    BY <1>5, <1>7, <2>3, <2>6
  <2>8. ASSUME Programmed(q, n)', ~Programmed(q, n)
        PROVE  /\ At(c) = q
               /\ call[c].kind = serialfc_port_new[n].kind /\ call[c].name = serialfc_port_new[n].name
               /\ call[c].arg = serialfc_port_new[n].arg
    <3>1. boot[c] \div StepsPerPort = q[2] /\ (boot[c] % StepsPerPort) + 1 = n
      BY <1>5, <1>7, <2>3, <2>4, <2>8
    <3> QED BY <1>1, <1>7, <2>5, <3>1
  <2>9. At(c) # q => Programmed(q, n)' = Programmed(q, n)
    <3>1. Programmed(q, n) \in BOOLEAN /\ Programmed(q, n)' \in BOOLEAN
      BY <1>5
    <3> QED BY <2>7, <2>8, <3>1
  <2> QED BY <2>7, <2>8, <2>9
<1> QED BY <1>6, <1>7

(* The defaults that start-up sets are accepted.                           *)
LEMMA DefaultsAccepted ==
  ASSUME IInv, NEW c \in Caller, Busy(c), call[c].kind = "set"
  PROVE  /\ \A name \in Level : call[c].name = name /\ call[c].arg = 32 => Sets(c, name)
         /\ call[c].name = "sample_rate" /\ call[c].arg = 16 => Sets(c, "sample_rate")
<1>1. Served
  BY DEF IInv
<1>2. PICK h \in Handlers(At(c)[2], call[c], cache[At(c)].sample_rate) : call[c].status = h.status
  BY <1>1 DEF Served
<1>3. h \in Setter(At(c)[2], call[c].name, call[c].arg, cache[At(c)].sample_rate)
  BY <1>2 DEF Handlers
<1>4. ASSUME NEW name \in Level, call[c].name = name, call[c].arg = 32 PROVE Sets(c, name)
  <2>1. h = SetTrigger(TriggerLimit, RegisterOf[name], 32)
    BY <1>3, <1>4 DEF Setter, Level, RegisterOf
  <2>2. ~(32 > TriggerLimit)
    BY DEF TriggerLimit
  <2>3. h.status = 0
    BY <2>1, <2>2 DEF SetTrigger, Do
  <2> QED BY <1>2, <1>4, <2>3 DEF Sets
<1>5. ASSUME call[c].name = "sample_rate", call[c].arg = 16 PROVE Sets(c, "sample_rate")
  <2>1. h = fastcom_set_sample_rate(At(c)[2], 16)
    BY <1>3, <1>5 DEF Setter
  <2>2. h.status = 0
    BY <2>1 DEF fastcom_set_sample_rate, fastcom_set_sample_rate_pci, fastcom_set_sample_rate_pcie, Do
  <2> QED BY <1>2, <1>5, <2>2 DEF Sets
<1> QED BY <1>4, <1>5

(* Returning keeps the invariant.                                          *)
LEMMA ReturnKeeps ==
  ASSUME IInv, NEW c \in Caller, Return(c)
  PROVE  IInv'
<1> DEFINE s == call[c].steps
           p == At(c)
<1>1. /\ TypeOK /\ Exclusive /\ Served /\ Attributed /\ LcrFollowsCall /\ LcrRestored
      /\ FetchedFollows /\ DivisorFollows /\ TriggersOn /\ LevelsHeld /\ RateKnown
  BY DEF IInv
<1>2. /\ call' \in [Caller -> CallRecord]
      /\ \A d \in Caller : d # c => call'[d] = call[d] /\ Busy(d)' = Busy(d) /\ At(d)' = At(d)
      /\ Busy(c) /\ ~Busy(c)' /\ p \in Port
      /\ Len(s) \in Nat /\ call[c].pc = Len(s) + 1
      /\ UNCHANGED <<uart, byte, board, line>>
  BY ReturnedCalls
<1>3. /\ cache' \in [Port -> [Cached -> Nat]]
      /\ \A q \in Port, name \in Cached :
           cache'[q][name] = IF q = p /\ Sets(c, name) THEN call[c].arg ELSE cache[q][name]
      /\ boot' \in [Card -> 0..NumPorts * StepsPerPort]
      /\ \A k \in Card : boot'[k] = IF k = c THEN boot[k] + 1 ELSE boot[k]
  BY ReturnedMemory
<1>4. ASSUME NEW d \in Caller, Busy(d)'
      PROVE  /\ d # c /\ Busy(d) /\ call'[d] = call[d] /\ At(d)' = At(d) /\ At(d) # p /\ At(d) \in Port
             /\ cache'[At(d)] = cache[At(d)]
             /\ OnDivisor(d)' = OnDivisor(d) /\ InitTriggers(d)' = InitTriggers(d)
  <2>1. d # c
    BY <1>2, <1>4
  <2>2. /\ Busy(d) /\ call'[d] = call[d] /\ At(d)' = At(d) /\ At(d) # p /\ At(d) \in Port
    BY <1>1, <1>2, <1>4, <2>1, CallFacts DEF Exclusive
  <2>3. cache'[At(d)] = cache[At(d)]
    <3>1. cache \in [Port -> [Cached -> Nat]]
      BY <1>1 DEF TypeOK
    <3>2. \A name \in Cached : cache'[At(d)][name] = cache[At(d)][name]
      BY <1>3, <2>2
    <3> QED BY <1>3, <2>2, <3>1, <3>2
  <2>4. OnDivisor(d)' = OnDivisor(d) /\ InitTriggers(d)' = InitTriggers(d)
    BY <2>2 DEF OnDivisor, InitTriggers
  <2> QED BY <2>1, <2>2, <2>3, <2>4
<1>5. \A d \in Caller : \A name : d # c => Sets(d, name)' = Sets(d, name)
  <2> SUFFICES ASSUME NEW d \in Caller, NEW name, d # c PROVE Sets(d, name)' = Sets(d, name)
    OBVIOUS
  <2>1. call'[d] = call[d] /\ Busy(d)' = Busy(d)
    BY <1>2
  <2> QED BY <2>1 DEF Sets
<1>6. \A name : ~Sets(c, name)'
  BY <1>2 DEF Sets
<1>7. TypeOK'
  BY <1>1, <1>2, <1>3 DEF TypeOK
<1>8. Exclusive'
  <2>1. \A d \in Caller : Busy(d)' => Busy(d) /\ At(d)' = At(d)
    BY <1>4
  <2> QED BY <1>1, <2>1 DEF Exclusive
<1>9. Served'
  <2> SUFFICES ASSUME NEW d \in Caller, Busy(d)'
               PROVE  /\ call'[d].pc <= Len(call'[d].steps) + 1
                      /\ \E g \in Handlers(At(d)'[2], call'[d], cache'[At(d)'].sample_rate) :
                           call'[d].steps = g.steps /\ call'[d].status = g.status
    BY DEF Served
  <2>1. Busy(d) /\ call'[d] = call[d] /\ At(d)' = At(d) /\ cache'[At(d)] = cache[At(d)]
    BY <1>4
  <2> QED BY <1>1, <2>1 DEF Served
<1>10. Attributed'
  <2>1. ASSUME NEW k \in Card, Busy(k)'
        PROVE  LET r == serialfc_port_new[(boot'[k] % StepsPerPort) + 1] IN
               /\ boot'[k] < NumPorts * StepsPerPort
               /\ At(k)' = <<k, boot'[k] \div StepsPerPort>>
               /\ call'[k].kind = r.kind /\ call'[k].name = r.name /\ call'[k].arg = r.arg
    <3>1. k \in Caller
      BY DEF Caller
    <3>2. k # c /\ Busy(k) /\ call'[k] = call[k] /\ At(k)' = At(k)
      BY <1>4, <2>1, <3>1
    <3>3. boot'[k] = boot[k]
      BY <1>3, <3>2
    <3> QED BY <1>1, <3>2, <3>3 DEF Attributed
  <2>2. ASSUME NEW u \in User, Busy(u)'
        PROVE  /\ Ready(At(u))'
               /\ call'[u].kind # "boot"
               /\ call'[u].name # "isochronous" => call'[u].arg \in Nat
    <3>1. u \in Caller
      BY DEF Caller
    <3>2. u # c /\ Busy(u) /\ call'[u] = call[u] /\ At(u)' = At(u) /\ At(u) \in Port
      BY <1>4, <2>2, <3>1
    <3>3. Ready(At(u)) /\ call[u].kind # "boot" /\ (call[u].name # "isochronous" => call[u].arg \in Nat)
      BY <1>1, <3>2 DEF Attributed
    <3>4. Ready(At(u))'
      <4> DEFINE b == boot[At(u)[1]]
                 e == boot'[At(u)[1]]
                 m == (At(u)[2] + 1) * StepsPerPort
      <4>1. At(u)[1] \in Card /\ At(u)[2] \in Nat /\ StepsPerPort \in Nat
        BY <3>2, Channels, StartUpLength DEF Port
      <4>2. m \in Nat
        BY <4>1
      <4>3. b \in Nat /\ (e = b \/ e = b + 1)
        BY <1>1, <1>3, <4>1 DEF TypeOK
      <4>4. b >= m /\ (e >= m => Ready(At(u))')
        BY <3>2, <3>3 DEF Ready
      <4> HIDE DEF b, e, m
      <4>5. e >= m
        BY <4>2, <4>3, <4>4
      <4> QED BY <4>4, <4>5
    <3> QED BY <3>2, <3>3, <3>4
  <2> QED BY <2>1, <2>2 DEF Attributed
<1>11. LcrFollowsCall'
  <2> SUFFICES ASSUME NEW d \in Caller, Busy(d)'
               PROVE  /\ uart'[At(d)']["LCR"] = IF OnDivisor(d)' /\ call'[d].pc \in 3..Len(call'[d].steps)
                                                THEN line'[At(d)'] \cup {7} ELSE line'[At(d)']
                      /\ OnDivisor(d)' /\ call'[d].pc > 1 => call'[d].kept["LCR"] = line'[At(d)']
    BY DEF LcrFollowsCall
  <2> QED BY <1>1, <1>2, <1>4 DEF LcrFollowsCall
<1>12. LcrRestored'
  <2> SUFFICES ASSUME NEW q \in Port, Quiet(q)' PROVE uart'[q]["LCR"] = line'[q]
    BY DEF LcrRestored
  <2>1. CASE q = p
    <3>1. call[c].pc \notin 3..Len(s)
      BY <1>2
    <3>2. uart[p]["LCR"] = line[p]
      BY <1>1, <1>2, <3>1 DEF LcrFollowsCall
    <3> QED BY <1>2, <2>1, <3>2
  <2>2. CASE q # p
    <3>1. Quiet(q)
      BY <1>2, <2>2 DEF Quiet
    <3> QED BY <1>1, <1>2, <3>1 DEF LcrRestored
  <2> QED BY <2>1, <2>2
<1>13. FetchedFollows'
  <2> SUFFICES ASSUME NEW d \in Caller, Busy(d)', OnDivisor(d)', call'[d].kind = "get"
               PROVE  /\ \A i \in 1..call'[d].pc - 1 : call'[d].steps[i].io = "fetch" =>
                           call'[d].got[call'[d].steps[i].reg] = byte'[At(d)'][call'[d].steps[i].reg]
                      /\ call'[d].pc > 6 =>
                           call'[d].value = (Clock \div Sixteenths(byte'[At(d)'])) \div cache'[At(d)'].sample_rate
    BY DEF FetchedFollows
  <2> QED BY <1>1, <1>2, <1>4 DEF FetchedFollows
<1>14. DivisorFollows'
  <2> SUFFICES ASSUME NEW d \in Caller, Busy(d)', OnDivisor(d)', call'[d].kind = "set"
               PROVE  /\ call'[d].pc > 3 =>
                           /\ call'[d].arg * cache'[At(d)'].sample_rate # 0
                           /\ call'[d].divisor = Clock \div (call'[d].arg * cache'[At(d)'].sample_rate)
                      /\ \A i \in 1..call'[d].pc - 1 : call'[d].steps[i].io = "store_divisor" =>
                           byte'[At(d)'][call'[d].steps[i].reg] =
                             DivisorByte(call'[d].steps[i].reg, call'[d].divisor, call'[d].got["DLD"])
    BY DEF DivisorFollows
  <2> QED BY <1>1, <1>2, <1>4 DEF DivisorFollows
<1>15. TriggersOn'
  <2>0. 2 \in 1..StepsPerPort
    BY StartUpLength
  <2>1. ASSUME NEW q \in Port, Programmed(q, 2)' PROVE {6, 7} \subseteq uart'[q]["FCTR"]
    <3>1. CASE Programmed(q, 2)
      BY <1>1, <1>2, <3>1 DEF TriggersOn
    <3>2. CASE ~Programmed(q, 2)
      <4>1. p = q /\ call[c].kind = serialfc_port_new[2].kind /\ call[c].name = serialfc_port_new[2].name
        BY <2>0, <2>1, <3>2, NewlyProgrammed
      <4>2. InitTriggers(c)
        BY <2>0, <4>1, StartUpCalls DEF InitTriggers
      <4>3. s = InitSteps
        BY <1>1, <1>2, <4>2, BusyShape
      <4>4. call[c].pc > 3
        BY <1>2, <4>3 DEF InitSteps
      <4> QED BY <1>1, <1>2, <4>1, <4>2, <4>4 DEF TriggersOn
    <3> QED BY <3>1, <3>2
  <2>2. ASSUME NEW d \in Caller, Busy(d)'
        PROVE  /\ InitTriggers(d)' /\ call'[d].pc > 3 => {6, 7} \subseteq uart'[At(d)']["FCTR"]
               /\ \A i \in 1..call'[d].pc - 1 :
                    Programmed(At(d), 2)' /\ call'[d].steps[i].io = "read" /\ call'[d].steps[i].reg = "FCTR"
                      => {6, 7} \subseteq call'[d].kept["FCTR"]
    <3>1. /\ Busy(d) /\ call'[d] = call[d] /\ At(d)' = At(d) /\ At(d) # p /\ At(d) \in Port
          /\ InitTriggers(d)' = InitTriggers(d)
      BY <1>4, <2>2
    <3>2. Programmed(At(d), 2)' = Programmed(At(d), 2)
      <4>1. Programmed(At(d), 2)' = (boot'[At(d)'[1]] >= At(d)'[2] * StepsPerPort + 2)
        BY DEF Programmed
      <4>2. ASSUME NEW q \in Port, q # p PROVE Programmed(q, 2)' = Programmed(q, 2)
        BY <2>0, <4>2, NewlyProgrammed
      <4>3. (boot'[At(d)[1]] >= At(d)[2] * StepsPerPort + 2) = Programmed(At(d), 2)
        BY <3>1, <4>2 DEF Programmed
      <4> QED BY <3>1, <4>1, <4>3
    <3> QED BY <1>1, <1>2, <3>1, <3>2 DEF TriggersOn
  <2> QED BY <2>1, <2>2 DEF TriggersOn
<1>16. LevelsHeld'
  <2>1. ASSUME NEW q \in Port, NEW name \in Level,
               Programmed(q, PlaceOf[name])', \A d \in Caller : At(d)' = q => ~Sets(d, name)'
        PROVE  byte'[q][RegisterOf[name]] = cache'[q][name]
    <3>0. /\ name \in Cached /\ PlaceOf[name] \in 1..StepsPerPort
          /\ PlaceOf[name] \in {PlaceOf["tx_trigger"], PlaceOf["rx_trigger"]}
      BY StartUpLength DEF Level, Cached
    <3>1. CASE q = p /\ Sets(c, name)
      <4>1. s = <<Store(RegisterOf[name], call[c].arg)>>
        BY <1>1, <1>2, <3>1, BusyShape
      <4>2. call[c].pc > 1
        BY <1>2, <4>1
      <4>3. byte[p][RegisterOf[name]] = call[c].arg
        BY <1>1, <3>1, <4>2 DEF LevelsHeld
      <4> QED BY <1>2, <1>3, <3>0, <3>1, <4>3
    <3>2. CASE ~(q = p /\ Sets(c, name))
      <4>1. \A d \in Caller : At(d) = q => ~Sets(d, name)
        BY <1>2, <1>5, <2>1, <3>2
      <4>2. Programmed(q, PlaceOf[name])
        <5> SUFFICES ASSUME ~Programmed(q, PlaceOf[name]) PROVE FALSE
          OBVIOUS
        <5>1. /\ p = q /\ call[c].kind = serialfc_port_new[PlaceOf[name]].kind
              /\ call[c].name = serialfc_port_new[PlaceOf[name]].name
              /\ call[c].arg = serialfc_port_new[PlaceOf[name]].arg
          BY <2>1, <3>0, NewlyProgrammed
        <5>2. /\ serialfc_port_new[PlaceOf[name]].arg = 32
              /\ serialfc_port_new[PlaceOf[name]].kind = "set"
              /\ serialfc_port_new[PlaceOf[name]].name = name
          BY <3>0, StartUpCalls, StartUpLength DEF Level
        <5>3. Sets(c, name)
          BY <1>2, <5>1, <5>2, DefaultsAccepted
        <5> QED BY <3>2, <5>1, <5>3
      <4> QED BY <1>1, <1>2, <1>3, <3>0, <3>2, <4>1, <4>2 DEF LevelsHeld
    <3> QED BY <3>1, <3>2
  <2>2. ASSUME NEW d \in Caller, NEW name \in Level, Sets(d, name)', call'[d].pc > 1
        PROVE  byte'[At(d)'][RegisterOf[name]] = call'[d].arg
    <3>1. d # c
      BY <1>6, <2>2
    <3> QED BY <1>1, <1>2, <1>5, <2>2, <3>1 DEF LevelsHeld
  <2> QED BY <2>1, <2>2 DEF LevelsHeld
<1>17. RateKnown'
  <2> SUFFICES ASSUME NEW q \in Port, Programmed(q, PlaceOf["sample_rate"])'
               PROVE  cache'[q].sample_rate \in {4, 8, 16}
    BY DEF RateKnown
  <2>0. "sample_rate" \in Cached /\ PlaceOf["sample_rate"] \in 1..StepsPerPort
    BY StartUpLength DEF Cached
  <2>1. CASE q = p /\ Sets(c, "sample_rate")
    <3>1. call[c].arg \in {4, 8, 16}
      BY <1>1, <1>2, <2>1, BusyShape
    <3> QED BY <1>3, <2>0, <2>1, <3>1
  <2>2. CASE ~(q = p /\ Sets(c, "sample_rate"))
    <3>1. Programmed(q, PlaceOf["sample_rate"])
      <4> SUFFICES ASSUME ~Programmed(q, PlaceOf["sample_rate"]) PROVE FALSE
        OBVIOUS
      <4>1. /\ p = q /\ call[c].kind = serialfc_port_new[PlaceOf["sample_rate"]].kind
            /\ call[c].name = serialfc_port_new[PlaceOf["sample_rate"]].name
            /\ call[c].arg = serialfc_port_new[PlaceOf["sample_rate"]].arg
        BY <2>0, NewlyProgrammed
      <4>2. /\ serialfc_port_new[PlaceOf["sample_rate"]].arg = 16
            /\ serialfc_port_new[PlaceOf["sample_rate"]].kind = "set"
            /\ serialfc_port_new[PlaceOf["sample_rate"]].name = "sample_rate"
        BY <2>0, StartUpCalls, StartUpLength
      <4>3. Sets(c, "sample_rate")
        BY <1>2, <4>1, <4>2, DefaultsAccepted
      <4> QED BY <2>2, <4>1, <4>3
    <3> QED BY <1>1, <1>3, <2>0, <2>2, <3>1 DEF RateKnown
  <2> QED BY <2>1, <2>2
<1> QED BY <1>7, <1>8, <1>9, <1>10, <1>11, <1>12, <1>13, <1>14, <1>15, <1>16, <1>17 DEF IInv

-----------------------------------------------------------------------------
(* The tty driver and the start.                                           *)

(* The tty driver's writes keep the invariant.                             *)
LEMMA TtyKeeps ==
  ASSUME IInv, Discipline # "none", NEW p \in Card \X Opened, NEW v \in Line, TtySetLine(p, v)
  PROVE  IInv'
<1>1. /\ TypeOK /\ Exclusive /\ Served /\ Attributed /\ LcrFollowsCall /\ LcrRestored
      /\ FetchedFollows /\ DivisorFollows /\ TriggersOn /\ LevelsHeld /\ RateKnown
  BY DEF IInv
<1>2. /\ Quiet(p) /\ UNCHANGED <<byte, board, cache, boot, call>>
      /\ uart' = [uart EXCEPT ![p]["LCR"] = v] /\ line' = [line EXCEPT ![p] = v]
  BY DEF TtySetLine
<1>3. p \in Port /\ v \in SUBSET Bits
  BY OpenedAssumption, BytesAssumption DEF Port
<1>4. uart \in [Port -> [UartReg -> SUBSET Bits]] /\ line \in [Port -> SUBSET Bits]
  BY <1>1 DEF TypeOK
<1>5. /\ uart' \in [Port -> [UartReg -> SUBSET Bits]] /\ line' \in [Port -> SUBSET Bits]
      /\ \A q \in Port : q # p => uart'[q] = uart[q] /\ line'[q] = line[q]
      /\ uart'[p]["LCR"] = v /\ line'[p] = v /\ uart'[p]["FCTR"] = uart[p]["FCTR"]
  BY <1>2, <1>3, <1>4 DEF UartReg
<1>6. \A d \in Caller : /\ Busy(d)' = Busy(d) /\ At(d)' = At(d) /\ OnDivisor(d)' = OnDivisor(d)
                        /\ InitTriggers(d)' = InitTriggers(d)
                        /\ Busy(d) => At(d) # p /\ At(d) \in Port
  BY <1>1, <1>2, CallFacts DEF Busy, At, OnDivisor, InitTriggers, Quiet
<1>7. \A q \in Port : \A n : /\ Programmed(q, n)' = Programmed(q, n) /\ Ready(q)' = Ready(q)
                             /\ Quiet(q)' = Quiet(q)
  BY <1>2 DEF Programmed, Ready, Quiet, Busy, At
<1>8. TypeOK'
  BY <1>1, <1>2, <1>5 DEF TypeOK
<1>9. Exclusive'
  BY <1>1, <1>2 DEF Exclusive, Busy, At
<1>10. Served'
  BY <1>1, <1>2 DEF Served, Busy, At
<1>11. Attributed'
  BY <1>1, <1>2 DEF Attributed, Busy, At, Ready
<1>12. LcrFollowsCall'
  <2> SUFFICES ASSUME NEW d \in Caller, Busy(d)'
               PROVE  /\ uart'[At(d)']["LCR"] = IF OnDivisor(d)' /\ call'[d].pc \in 3..Len(call'[d].steps)
                                                THEN line'[At(d)'] \cup {7} ELSE line'[At(d)']
                      /\ OnDivisor(d)' /\ call'[d].pc > 1 => call'[d].kept["LCR"] = line'[At(d)']
    BY DEF LcrFollowsCall
  <2> QED BY <1>1, <1>2, <1>5, <1>6, ZenonT(60) DEF LcrFollowsCall
<1>13. LcrRestored'
  <2> SUFFICES ASSUME NEW q \in Port, Quiet(q)' PROVE uart'[q]["LCR"] = line'[q]
    BY DEF LcrRestored
  <2> QED BY <1>1, <1>5, <1>7 DEF LcrRestored
<1>14. FetchedFollows'
  BY <1>1, <1>2 DEF FetchedFollows, Busy, At, OnDivisor
<1>15. DivisorFollows'
  BY <1>1, <1>2 DEF DivisorFollows, Busy, At, OnDivisor
<1>16. TriggersOn'
  <2>1. \A q \in Port : Programmed(q, 2)' => {6, 7} \subseteq uart'[q]["FCTR"]
    BY <1>1, <1>5, <1>7 DEF TriggersOn
  <2>2. ASSUME NEW d \in Caller, Busy(d)'
        PROVE  /\ InitTriggers(d)' /\ call'[d].pc > 3 => {6, 7} \subseteq uart'[At(d)']["FCTR"]
               /\ \A i \in 1..call'[d].pc - 1 :
                    Programmed(At(d), 2)' /\ call'[d].steps[i].io = "read" /\ call'[d].steps[i].reg = "FCTR"
                      => {6, 7} \subseteq call'[d].kept["FCTR"]
    <3>1. /\ Busy(d) /\ At(d)' = At(d) /\ At(d) # p /\ At(d) \in Port
          /\ uart'[At(d)] = uart[At(d)] /\ InitTriggers(d)' = InitTriggers(d)
      BY <1>5, <1>6, <2>2
    <3>2. Programmed(At(d), 2)' = Programmed(At(d), 2)
      BY <1>2 DEF Programmed, At
    <3> QED BY <1>1, <1>2, <3>1, <3>2 DEF TriggersOn
  <2> QED BY <2>1, <2>2 DEF TriggersOn
<1>17. LevelsHeld'
  BY <1>1, <1>2 DEF LevelsHeld, Busy, At, Sets, Programmed
<1>18. RateKnown'
  BY <1>1, <1>2 DEF RateKnown, Programmed
<1> QED BY <1>8, <1>9, <1>10, <1>11, <1>12, <1>13, <1>14, <1>15, <1>16, <1>17, <1>18 DEF IInv

(* The invariant holds before the driver has loaded.                       *)
LEMMA InitKeeps == Init => IInv
<1> SUFFICES ASSUME Init PROVE IInv
  OBVIOUS
<1>1. PICK v \in Line : line = [p \in Port |-> v]
  BY DEF Init
<1>2. PICK bits \in PowerUp :
        /\ uart  = [p \in Port |-> [r \in UartReg |-> IF r = "LCR" THEN line[p] ELSE bits]]
        /\ board = [k \in Card |-> [r \in BoardReg |-> bits]]
  BY DEF Init
<1>3. /\ byte  = [p \in Port |-> [r \in ByteReg |-> 1]]
      /\ cache = [p \in Port |-> [name \in Cached |-> 0]]
      /\ boot  = [k \in Card |-> 0]
      /\ call  = [c \in Caller |-> Idle(0, 0)]
  BY DEF Init
<1>4. v \in SUBSET Bits /\ bits \in SUBSET Bits
  BY BytesAssumption
<1>5. \A c \in Caller : call[c] = Idle(0, 0) /\ ~Busy(c)
  BY <1>3 DEF Busy, Idle
<1>6. Idle(0, 0) \in CallRecord
  <2>1. NothingKept \in [UartReg \cup BoardReg -> SUBSET Bits] /\ NothingGot \in [Divisor -> Byte]
    BY DEF NothingKept, NothingGot, Byte
  <2>2. NoPort \in Port
    <3>1. Port # {}
      <4>1. PICK k \in Card : TRUE
        BY CardAssumption
      <4>2. <<k, 0>> \in Port
        BY Channels DEF Channel, Port
      <4> QED BY <4>2
    <3> QED BY <3>1 DEF NoPort
  <2>3. << >> \in Seq(Accesses) /\ "none" \in CallName
    BY DEF CallName
  <2> QED BY <2>1, <2>2, <2>3 DEF CallRecord, Idle
<1>7. TypeOK
  <2>1. 0 \in 0..NumPorts * StepsPerPort
    BY Channels, StartUpLength
  <2>2. /\ uart \in [Port -> [UartReg -> SUBSET Bits]] /\ board \in [Card -> [BoardReg -> SUBSET Bits]]
        /\ line \in [Port -> SUBSET Bits]
    BY <1>1, <1>2, <1>4
  <2>3. byte \in [Port -> [ByteReg -> Byte]] /\ cache \in [Port -> [Cached -> Nat]]
    BY <1>3 DEF Byte
  <2>4. call \in [Caller -> CallRecord] /\ boot \in [Card -> 0..NumPorts * StepsPerPort]
    BY <1>3, <1>6, <2>1
  <2> QED BY <2>2, <2>3, <2>4 DEF TypeOK
<1>8. LcrRestored
  BY <1>2 DEF LcrRestored, UartReg
<1>9. \A p \in Port, n \in 1..StepsPerPort : ~Programmed(p, n)
  <2> SUFFICES ASSUME NEW p \in Port, NEW n \in 1..StepsPerPort PROVE ~Programmed(p, n)
    OBVIOUS
  <2>1. p[1] \in Card /\ p[2] \in Nat /\ StepsPerPort \in Nat
    BY Channels, StartUpLength DEF Port
  <2>2. boot[p[1]] = 0 /\ p[2] * StepsPerPort \in Nat
    BY <1>3, <2>1
  <2> QED BY <2>2 DEF Programmed
<1>10. /\ 2 \in 1..StepsPerPort /\ PlaceOf["sample_rate"] \in 1..StepsPerPort
       /\ \A name \in Level : PlaceOf[name] \in 1..StepsPerPort
  BY StartUpLength DEF Level
<1>11. Exclusive /\ Served /\ LcrFollowsCall /\ FetchedFollows /\ DivisorFollows
  BY <1>5 DEF Exclusive, Served, LcrFollowsCall, FetchedFollows, DivisorFollows
<1>12. Attributed
  BY <1>5 DEF Attributed, Caller
<1>13. TriggersOn /\ LevelsHeld /\ RateKnown
  BY <1>5, <1>9, <1>10 DEF TriggersOn, LevelsHeld, RateKnown, Sets
<1> QED BY <1>7, <1>8, <1>11, <1>12, <1>13 DEF IInv

(* Steps that change nothing keep it.                                      *)
LEMMA StutterKeeps == ASSUME IInv, UNCHANGED vars PROVE IInv'
<1>1. /\ uart' = uart /\ byte' = byte /\ board' = board /\ cache' = cache /\ boot' = boot
      /\ call' = call /\ line' = line
  BY DEF vars
<1>2. TypeOK' /\ Exclusive' /\ Served' /\ Attributed'
  BY <1>1 DEF IInv, TypeOK, Exclusive, Served, Attributed, Busy, At, Ready
<1>3. LcrFollowsCall' /\ LcrRestored' /\ FetchedFollows' /\ DivisorFollows'
  BY <1>1 DEF IInv, LcrFollowsCall, LcrRestored, FetchedFollows, DivisorFollows, Busy, At, OnDivisor, Quiet
<1>4. TriggersOn' /\ LevelsHeld' /\ RateKnown'
  BY <1>1 DEF IInv, TriggersOn, LevelsHeld, RateKnown, Busy, At, InitTriggers, Sets, Programmed
<1> QED BY <1>2, <1>3, <1>4 DEF IInv

(* What a call has done so far decides what the registers of its port hold *)
(* and what it will do to them, when no other call works on that port.     *)
THEOREM Invariance == ASSUME Discipline # "none" PROVE Spec => []IInv
<1>1. Init => IInv
  BY InitKeeps
<1>2. ASSUME IInv, [Next]_vars PROVE IInv'
  <2>1. ASSUME NEW u \in User, NEW p \in Card \X Opened, NEW request \in Calls[p[2]], Begin(u, p, request)
        PROVE  IInv'
    <3>1. PICK h : Enters(u, p, request, h)
      BY <1>2, <2>1, BeginEnters
    <3> QED BY <1>2, <3>1, EnterKeeps DEF Caller
  <2>2. ASSUME NEW k \in Card, BeginBoot(k) PROVE IInv'
    <3>1. PICK p, request, h : Enters(k, p, request, h)
      BY <1>2, <2>2, BeginEnters
    <3> QED BY <1>2, <3>1, EnterKeeps DEF Caller
  <2>3. ASSUME NEW c \in Caller, Perform(c) PROVE IInv'
    BY <1>2, <2>3, PerformKeeps
  <2>4. ASSUME NEW c \in Caller, Return(c) PROVE IInv'
    BY <1>2, <2>4, ReturnKeeps
  <2>5. ASSUME NEW p \in Card \X Opened, NEW v \in Line, TtySetLine(p, v) PROVE IInv'
    BY <1>2, <2>5, TtyKeeps
  <2>6. CASE UNCHANGED vars
    BY <1>2, <2>6, StutterKeeps
  <2> QED BY <1>2, <2>1, <2>2, <2>3, <2>4, <2>5, <2>6 DEF Next
<1> QED BY <1>1, <1>2, PTL DEF Spec

(* Everything keeps its type: see TypeOK.                                  *)
THEOREM TypeCorrect == ASSUME Discipline # "none" PROVE Spec => []TypeOK
<1>1. IInv => TypeOK
  BY DEF IInv
<1>2. Spec => []IInv
  BY Invariance
<1> QED BY <1>1, <1>2, PTL

(* The divisor's offsets are the divisor's when a call uses them.          *)
THEOREM DivisorAccessHolds == ASSUME Discipline # "none" PROVE Spec => []DivisorAccess
<1>1. IInv => DivisorAccess
  <2> SUFFICES ASSUME IInv, NEW c \in Caller, NEW io \in {"store_divisor", "fetch"}, Doing(c, io)
               PROVE  DivisorOpen(At(c))
    BY DEF DivisorAccess
  <2> DEFINE s == call[c].steps
             n == call[c].pc
  <2>1. Busy(c) /\ n \in 1..Len(s) /\ Pending(c) = s[n] /\ Pending(c).io = io /\ OnDivisor(c)
        /\ n \in Nat
    BY DoingFacts
  <2>2. s = SetBaud(call[c].arg) \/ s = GetBaud
    BY <2>1, BusyShape DEF IInv
  <2>3. s[1] = Read("LCR") /\ s[2] = Write("LCR", {7}, {}) /\ Len(s) \in Nat
    BY <2>2 DEF SetBaud, GetBaud
  <2>4. s[1].io = "read" /\ s[2].io = "write"
    BY <2>3 DEF Read, Write, Access
  <2> HIDE DEF s, n
  <2>5. n # 1 /\ n # 2
    BY <2>1, <2>4
  <2>6. n \in 3..Len(s)
    BY <2>1, <2>3, <2>5
  <2> QED BY <2>1, <2>6, OpenForDivisor DEF s, n
<1>2. Spec => []IInv
  BY Invariance
<1> QED BY <1>1, <1>2, PTL

(* The line parameters of the tty driver survive every call.               *)
THEOREM LcrRestoredHolds == ASSUME Discipline # "none" PROVE Spec => []LcrRestored
<1>1. IInv => LcrRestored
  BY DEF IInv
<1>2. Spec => []IInv
  BY Invariance
<1> QED BY <1>1, <1>2, PTL

(* Programmable trigger levels stay on.                                    *)
THEOREM ProgrammableTriggersHolds == ASSUME Discipline # "none" PROVE Spec => []ProgrammableTriggers
<1>1. IInv => ProgrammableTriggers
  <2> SUFFICES ASSUME IInv, NEW p \in Port, Ready(p) PROVE {6, 7} \subseteq uart[p]["FCTR"]
    BY DEF ProgrammableTriggers
  <2>1. boot \in [Card -> 0..NumPorts * StepsPerPort] /\ 2 \in 1..StepsPerPort
    BY StartUpLength DEF IInv, TypeOK
  <2>2. Programmed(p, 2)
    BY <2>1, ReadyProgrammed
  <2> QED BY <2>2 DEF IInv, TriggersOn
<1>2. Spec => []IInv
  BY Invariance
<1> QED BY <1>1, <1>2, PTL

-----------------------------------------------------------------------------
(***************************************************************************)
(* What needs one call at a time on a card: the sampling rate registers,   *)
(* which the ports of a board share, the memory the driver answers from,   *)
(* and the baud rate functions that divide by it.                          *)
(***************************************************************************)

RateReg == {"4XMODE", "8XMODE"}

(* What a setter of the sampling rate that was accepted does.              *)
LEMMA RateSteps ==
  ASSUME IInv, NEW c \in Caller, Sets(c, "sample_rate")
  PROVE  LET s  == call[c].steps
             x  == call[c].arg
             ch == At(c)[2]
         IN
         /\ Family = "PCI" =>
              /\ x \in {8, 16} /\ Len(s) = 2
              /\ s[1].io = "read" /\ s[1].reg = "8XMODE"
              /\ s[2].io = "write" /\ s[2].reg = "8XMODE"
              /\ s[2].on = (IF x = 8 THEN {ch} ELSE {}) /\ s[2].off = (IF x = 8 THEN {} ELSE {ch})
         /\ Family = "PCIe" =>
              /\ x \in {4, 8, 16} /\ Len(s) = 4
              /\ s[1].io = "read" /\ s[1].reg = "4XMODE"
              /\ s[2].io = "read" /\ s[2].reg = "8XMODE"
              /\ s[3].io = "write" /\ s[3].reg = "4XMODE"
              /\ s[4].io = "write" /\ s[4].reg = "8XMODE"
              /\ s[3].on = (IF x = 4 THEN {ch} ELSE {}) /\ s[3].off = (IF x = 4 THEN {} ELSE {ch})
              /\ s[4].on = (IF x = 8 THEN {ch} ELSE {}) /\ s[4].off = (IF x = 8 THEN {} ELSE {ch})
<1> DEFINE s  == call[c].steps
           x  == call[c].arg
           ch == At(c)[2]
<1>1. /\ Served /\ Busy(c) /\ call[c].kind = "set" /\ call[c].name = "sample_rate" /\ call[c].status = 0
  BY DEF IInv, Sets
<1>2. PICK h \in Handlers(ch, call[c], cache[At(c)].sample_rate) : s = h.steps /\ call[c].status = h.status
  BY <1>1 DEF Served
<1>3. h = fastcom_set_sample_rate(ch, x) /\ h.status = 0
  BY <1>1, <1>2 DEF Handlers, Setter
<1>4. ASSUME Family = "PCI"
      PROVE  /\ x \in {8, 16}
             /\ s = <<Read("8XMODE"), IF x = 8 THEN Write("8XMODE", {ch}, {}) ELSE Write("8XMODE", {}, {ch})>>
  BY <1>2, <1>3, <1>4 DEF fastcom_set_sample_rate, fastcom_set_sample_rate_pci, Refuse, Do, EINVAL
<1>5. ASSUME Family = "PCIe"
      PROVE  /\ x \in {4, 8, 16}
             /\ s = <<Read("4XMODE"), Read("8XMODE"),
                      IF x = 4 THEN Write("4XMODE", {ch}, {}) ELSE Write("4XMODE", {}, {ch}),
                      IF x = 8 THEN Write("8XMODE", {ch}, {}) ELSE Write("8XMODE", {}, {ch})>>
  BY <1>2, <1>3, <1>5 DEF fastcom_set_sample_rate, fastcom_set_sample_rate_pcie, Refuse, Do, EINVAL
<1>6. ASSUME Family = "PCI"
      PROVE  /\ x \in {8, 16} /\ Len(s) = 2
             /\ s[1].io = "read" /\ s[1].reg = "8XMODE"
             /\ s[2].io = "write" /\ s[2].reg = "8XMODE"
             /\ s[2].on = (IF x = 8 THEN {ch} ELSE {}) /\ s[2].off = (IF x = 8 THEN {} ELSE {ch})
  <2>1. \/ x = 8 /\ s = <<Read("8XMODE"), Write("8XMODE", {ch}, {})>>
        \/ x = 16 /\ s = <<Read("8XMODE"), Write("8XMODE", {}, {ch})>>
    BY <1>4, <1>6
  <2> HIDE DEF s, x, ch
  <2> QED BY <2>1 DEF Read, Write, Access
<1>7. ASSUME Family = "PCIe"
      PROVE  /\ x \in {4, 8, 16} /\ Len(s) = 4
             /\ s[1].io = "read" /\ s[1].reg = "4XMODE"
             /\ s[2].io = "read" /\ s[2].reg = "8XMODE"
             /\ s[3].io = "write" /\ s[3].reg = "4XMODE"
             /\ s[4].io = "write" /\ s[4].reg = "8XMODE"
             /\ s[3].on = (IF x = 4 THEN {ch} ELSE {}) /\ s[3].off = (IF x = 4 THEN {} ELSE {ch})
             /\ s[4].on = (IF x = 8 THEN {ch} ELSE {}) /\ s[4].off = (IF x = 8 THEN {} ELSE {ch})
  <2>1. /\ x \in {4, 8, 16}
        /\ \E a, b : /\ s = <<Read("4XMODE"), Read("8XMODE"), a, b>>
                     /\ a = IF x = 4 THEN Write("4XMODE", {ch}, {}) ELSE Write("4XMODE", {}, {ch})
                     /\ b = IF x = 8 THEN Write("8XMODE", {ch}, {}) ELSE Write("8XMODE", {}, {ch})
    BY <1>5, <1>7
  <2> HIDE DEF s, x, ch
  <2>2. PICK a, b : /\ s = <<Read("4XMODE"), Read("8XMODE"), a, b>>
                    /\ a = IF x = 4 THEN Write("4XMODE", {ch}, {}) ELSE Write("4XMODE", {}, {ch})
                    /\ b = IF x = 8 THEN Write("8XMODE", {ch}, {}) ELSE Write("8XMODE", {}, {ch})
    BY <2>1
  <2>3. /\ a.io = "write" /\ a.reg = "4XMODE" /\ b.io = "write" /\ b.reg = "8XMODE"
        /\ a.on = (IF x = 4 THEN {ch} ELSE {}) /\ a.off = (IF x = 4 THEN {} ELSE {ch})
        /\ b.on = (IF x = 8 THEN {ch} ELSE {}) /\ b.off = (IF x = 8 THEN {} ELSE {ch})
    BY <2>2 DEF Write, Access
  <2>4. Len(s) = 4 /\ s[1] = Read("4XMODE") /\ s[2] = Read("8XMODE") /\ s[3] = a /\ s[4] = b
    BY <2>2
  <2> QED BY <2>1, <2>3, <2>4 DEF Read, Access
<1> QED BY <1>6, <1>7

(* Its accesses: each register is read once, before it is written once,    *)
(* with the call's own bit set or cleared.                                 *)
LEMMA RateAccesses ==
  ASSUME IInv, NEW c \in Caller, Sets(c, "sample_rate")
  PROVE  LET s  == call[c].steps
             ch == At(c)[2]
         IN
         /\ \A i \in 1..Len(s) : s[i].io \in BitIo /\ s[i].reg \in RateReg
         /\ \A i \in 1..Len(s) : s[i].io = "write" =>
              /\ s[i].on \in {{}, {ch}} /\ s[i].off \in {{}, {ch}} /\ (s[i].on = {} <=> s[i].off = {ch})
              /\ \E j \in 1..i - 1 : s[j].io = "read" /\ s[j].reg = s[i].reg
         /\ \A i, j \in 1..Len(s) : s[i].io = s[j].io /\ s[i].reg = s[j].reg => i = j
<1> DEFINE s  == call[c].steps
           ch == At(c)[2]
           x  == call[c].arg
<1>1. CASE Family = "PCI"
  <2>1. /\ Len(s) = 2
        /\ s[1].io = "read" /\ s[1].reg = "8XMODE"
        /\ s[2].io = "write" /\ s[2].reg = "8XMODE"
        /\ s[2].on = (IF x = 8 THEN {ch} ELSE {}) /\ s[2].off = (IF x = 8 THEN {} ELSE {ch})
    BY <1>1, RateSteps
  <2> DEFINE written == s[2]
  <2>2. /\ written.on \in {{}, {ch}} /\ written.off \in {{}, {ch}}
        /\ (written.on = {} <=> written.off = {ch})
    BY <2>1
  <2>3. \A i \in 1..Len(s) : i = 1 \/ i = 2
    BY <2>1
  <2>4. 1 \in 1..2 - 1
    OBVIOUS
  <2> HIDE DEF s, ch, x
  <2>5. \A i \in 1..Len(s) : s[i].io \in BitIo /\ s[i].reg \in RateReg
    BY <2>1, <2>3 DEF BitIo, RateReg
  <2>6. \A i \in 1..Len(s) : s[i].io = "write" =>
          /\ s[i].on \in {{}, {ch}} /\ s[i].off \in {{}, {ch}} /\ (s[i].on = {} <=> s[i].off = {ch})
          /\ \E j \in 1..i - 1 : s[j].io = "read" /\ s[j].reg = s[i].reg
    BY <2>1, <2>2, <2>3, <2>4
  <2>7. \A i, j \in 1..Len(s) : s[i].io = s[j].io /\ s[i].reg = s[j].reg => i = j
    BY <2>1, <2>3
  <2> QED BY <2>5, <2>6, <2>7 DEF s, ch
<1>2. CASE Family = "PCIe"
  <2>1. /\ Len(s) = 4
        /\ s[1].io = "read" /\ s[1].reg = "4XMODE"
        /\ s[2].io = "read" /\ s[2].reg = "8XMODE"
        /\ s[3].io = "write" /\ s[3].reg = "4XMODE"
        /\ s[4].io = "write" /\ s[4].reg = "8XMODE"
        /\ s[3].on = (IF x = 4 THEN {ch} ELSE {}) /\ s[3].off = (IF x = 4 THEN {} ELSE {ch})
        /\ s[4].on = (IF x = 8 THEN {ch} ELSE {}) /\ s[4].off = (IF x = 8 THEN {} ELSE {ch})
    BY <1>2, RateSteps
  <2> DEFINE third  == s[3]
             fourth == s[4]
  <2>2. /\ third.on \in {{}, {ch}} /\ third.off \in {{}, {ch}} /\ (third.on = {} <=> third.off = {ch})
        /\ fourth.on \in {{}, {ch}} /\ fourth.off \in {{}, {ch}} /\ (fourth.on = {} <=> fourth.off = {ch})
    BY <2>1
  <2>3. \A i \in 1..Len(s) : i = 1 \/ i = 2 \/ i = 3 \/ i = 4
    BY <2>1
  <2>4. 1 \in 1..3 - 1 /\ 2 \in 1..4 - 1
    OBVIOUS
  <2> HIDE DEF s, ch, x
  <2>5. \A i \in 1..Len(s) : s[i].io \in BitIo /\ s[i].reg \in RateReg
    BY <2>1, <2>3 DEF BitIo, RateReg
  <2>6. \A i \in 1..Len(s) : s[i].io = "write" =>
          /\ s[i].on \in {{}, {ch}} /\ s[i].off \in {{}, {ch}} /\ (s[i].on = {} <=> s[i].off = {ch})
          /\ \E j \in 1..i - 1 : s[j].io = "read" /\ s[j].reg = s[i].reg
    BY <2>1, <2>2, <2>3, <2>4
  <2>7. \A i, j \in 1..Len(s) : s[i].io = s[j].io /\ s[i].reg = s[j].reg => i = j
    BY <2>1, <2>3
  <2> QED BY <2>5, <2>6, <2>7 DEF s, ch
<1> QED BY <1>1, <1>2, FamilyAssumption

(* When such a call is done the device has the rate it was asked for.      *)
LEMMA RateWritten ==
  ASSUME IInv, RatesFollowCall, NEW c \in Caller, Sets(c, "sample_rate"),
         call[c].pc = Len(call[c].steps) + 1
  PROVE  SampleRate(At(c)) = call[c].arg
<1> DEFINE s  == call[c].steps
           ch == At(c)[2]
           k  == At(c)[1]
           x  == call[c].arg
<1>1. \A i \in 1..call[c].pc - 1 : s[i].io = "write" =>
        (ch \in board[k][s[i].reg] <=> s[i].on # {})
  BY DEF RatesFollowCall
<1>2. CASE Family = "PCI"
  <2>1. /\ Len(s) = 2 /\ s[2].io = "write" /\ s[2].reg = "8XMODE" /\ x \in {8, 16}
        /\ s[2].on = (IF x = 8 THEN {ch} ELSE {})
    BY <1>2, RateSteps
  <2>2. ch \in board[k]["8XMODE"] <=> x = 8
    BY <1>1, <2>1
  <2> QED BY <1>2, <2>1, <2>2 DEF SampleRate
<1>3. CASE Family = "PCIe"
  <2>1. /\ Len(s) = 4 /\ s[3].io = "write" /\ s[4].io = "write" /\ x \in {4, 8, 16}
        /\ s[3].reg = "4XMODE" /\ s[4].reg = "8XMODE"
        /\ s[3].on = (IF x = 4 THEN {ch} ELSE {}) /\ s[4].on = (IF x = 8 THEN {ch} ELSE {})
    BY <1>3, RateSteps
  <2>2. (ch \in board[k]["4XMODE"] <=> x = 4) /\ (ch \in board[k]["8XMODE"] <=> x = 8)
    BY <1>1, <2>1
  <2> QED BY <1>3, <2>1, <2>2 DEF SampleRate
<1> QED BY <1>2, <1>3, FamilyAssumption

-----------------------------------------------------------------------------
(* Accesses.                                                               *)

(* An access changes nobody's bit of the sampling rate registers but that  *)
(* of the call's own port, and that only when it sets the sampling rate.   *)
LEMMA OtherBitsStay ==
  ASSUME IInv, RatesFollowCall, NEW c \in Caller, Perform(c),
         NEW k \in Card, NEW ch \in Channel, NEW r \in RateReg,
         ~(Sets(c, "sample_rate") /\ At(c) = <<k, ch>>)
  PROVE  ch \in board'[k][r] <=> ch \in board[k][r]
<1> DEFINE s == call[c].steps
           n == call[c].pc
           a == Pending(c)
<1>1. /\ Busy(c) /\ At(c) \in Port /\ At(c) = <<At(c)[1], At(c)[2]>> /\ n \in 1..Len(s) /\ a = s[n]
      /\ Len(s) \in Nat /\ n \in Nat
  BY Turns DEF Turn, Port
<1>2. r \in BoardReg
  BY DEF RateReg, BoardReg
<1>3. CASE ~(k = At(c)[1] /\ a.io = "write" /\ r = a.reg)
  BY <1>2, <1>3, PerformedHardware
<1>4. CASE k = At(c)[1] /\ a.io = "write" /\ r = a.reg
  <2>1. Sets(c, "sample_rate")
    <3> SUFFICES ASSUME ~Sets(c, "sample_rate") PROVE FALSE
      OBVIOUS
    <3>1. Rateless(s)
      BY <1>1, BusyShape DEF IInv
    <3> QED BY <1>1, <1>4, <3>1 DEF Rateless, RateReg
  <2>2. ch # At(c)[2]
    BY <1>1, <1>4, <2>1
  <2>3. /\ a.on \subseteq {At(c)[2]} /\ a.off \subseteq {At(c)[2]}
        /\ \E j \in 1..n - 1 : s[j].io = "read" /\ s[j].reg = r
    <3>1. s[n].io = "write" =>
            /\ s[n].on \in {{}, {At(c)[2]}} /\ s[n].off \in {{}, {At(c)[2]}}
            /\ \E j \in 1..n - 1 : s[j].io = "read" /\ s[j].reg = s[n].reg
      BY <1>1, <2>1, RateAccesses
    <3> HIDE DEF s, n, a
    <3> QED BY <1>1, <1>4, <3>1
  <2>4. PICK j \in 1..n - 1 : s[j].io = "read" /\ s[j].reg = r
    BY <2>3
  <2>5. ch \in call[c].kept[r] <=> ch \in board[k][r]
    BY <1>4, <2>1, <2>2, <2>4 DEF RatesFollowCall
  <2>6. board'[k][r] = Derived(c)
    BY <1>2, <1>4, PerformedHardware
  <2>7. Derived(c) = (call[c].kept[r] \ a.off) \cup a.on
    BY <1>4 DEF Derived
  <2> QED BY <2>2, <2>3, <2>5, <2>6, <2>7
<1> QED BY <1>3, <1>4

(* The rate of a port is decided by its bits.                              *)
LEMMA RateByBits ==
  ASSUME NEW p \in Port,
         \A r \in RateReg : p[2] \in board'[p[1]][r] <=> p[2] \in board[p[1]][r]
  PROVE  SampleRate(p)' = SampleRate(p)
<1>1. /\ p[2] \in board'[p[1]]["4XMODE"] <=> p[2] \in board[p[1]]["4XMODE"]
      /\ p[2] \in board'[p[1]]["8XMODE"] <=> p[2] \in board[p[1]]["8XMODE"]
  BY DEF RateReg
<1> QED BY <1>1 DEF SampleRate

(* An access keeps the sampling rates.                                     *)
LEMMA PerformKeepsBoard ==
  ASSUME IInv, BoardHeld, NEW c \in Caller, Perform(c)
  PROVE  BoardHeld'
<1> DEFINE s == call[c].steps
           n == call[c].pc
           a == Pending(c)
           k == At(c)[1]
           own == At(c)[2]
<1>1. AloneOnCard /\ RatesFollowCall /\ RatesHeld
  BY DEF BoardHeld
<1>2. /\ Busy(c) /\ At(c) \in Port /\ k \in Card /\ own \in Channel /\ At(c) = <<k, own>>
      /\ n \in 1..Len(s) /\ a = s[n] /\ Len(s) \in Nat /\ n \in Nat
      /\ At(c)' = At(c) /\ call'[c].steps = s /\ call'[c].pc = n + 1
      /\ UNCHANGED <<cache, boot>>
      /\ \A name : Sets(c, name)' = Sets(c, name)
  BY Turns DEF Turn, Port
<1>3. \A d \in Caller : /\ Busy(d)' = Busy(d) /\ At(d)' = At(d)
                        /\ Sets(d, "sample_rate")' = Sets(d, "sample_rate")
                        /\ d # c => call'[d] = call[d]
  <2>1. \A d \in Caller : /\ Busy(d)' = Busy(d) /\ At(d)' = At(d)
                          /\ call'[d].kind = call[d].kind /\ call'[d].name = call[d].name
                          /\ call'[d].status = call[d].status
                          /\ d # c => call'[d] = call[d]
    BY PerformedCalls
  <2> QED BY <2>1 DEF Sets
<1>4. AloneOnCard'
  BY <1>1, <1>3 DEF AloneOnCard
<1>5. RatesFollowCall'
  <2> SUFFICES ASSUME NEW d \in Caller, Sets(d, "sample_rate")', NEW i \in 1..call'[d].pc - 1
               PROVE  LET b == call'[d].steps[i] IN
                      /\ b.io = "read" =>
                           \A channel \in Channel \ {At(d)'[2]} :
                             channel \in call'[d].kept[b.reg] <=> channel \in board'[At(d)'[1]][b.reg]
                      /\ b.io = "write" =>
                           (At(d)'[2] \in board'[At(d)'[1]][b.reg] <=> b.on # {})
    BY DEF RatesFollowCall
  <2>1. CASE d # c
    <3>1. Sets(d, "sample_rate") /\ At(d)' = At(d) /\ call'[d] = call[d]
      BY <1>3, <2>1
    <3>2. At(d)[1] # k /\ At(d)[1] \in Card /\ call[d].steps[i].reg \in RateReg
      <4>1. Busy(d)
        BY <3>1 DEF Sets
      <4>2. At(d)[1] # k
        BY <1>1, <1>2, <2>1, <4>1 DEF AloneOnCard
      <4>3. /\ At(d)[1] \in Card /\ Len(call[d].steps) \in Nat /\ call[d].pc \in Nat
            /\ call[d].pc <= Len(call[d].steps) + 1
        BY <4>1, CallFacts DEF IInv, Served
      <4>4. i \in 1..Len(call[d].steps)
        BY <3>1, <4>3
      <4> QED BY <3>1, <4>2, <4>3, <4>4, RateAccesses
    <3>3. board'[At(d)[1]][call[d].steps[i].reg] = board[At(d)[1]][call[d].steps[i].reg]
      <4>1. RateReg \subseteq BoardReg
        BY DEF RateReg, BoardReg
      <4> QED BY <3>2, <4>1, PerformedHardware
    <3> QED BY <1>1, <3>1, <3>3, ZenonT(60) DEF RatesFollowCall
  <2>2. CASE d = c
    <3>1. Sets(c, "sample_rate") /\ i \in 1..n
      BY <1>2, <2>2
    <3>2. i \in 1..Len(s) /\ s[i].reg \in RateReg /\ s[i].reg \in BoardReg
      <4>1. i \in 1..Len(s)
        BY <1>2, <3>1
      <4>2. s[i].reg \in RateReg
        BY <3>1, <4>1, RateAccesses
      <4> QED BY <4>1, <4>2 DEF RateReg, BoardReg
    <3>3. call'[c].kept = IF a.io = "read" THEN [call[c].kept EXCEPT ![a.reg] = Held(At(c), a.reg)]
                                           ELSE call[c].kept
      BY PerformedCalls DEF Locals
    <3>4. call[c].kept \in Kept
      <4>1. call[c] \in CallRecord
        BY DEF IInv, TypeOK
      <4> QED BY <4>1 DEF CallRecord, Kept
    <3> DEFINE r == s[i].reg
    <3>5. ASSUME s[i].io = "read", NEW channel \in Channel, channel # own
          PROVE  channel \in call'[c].kept[r] <=> channel \in board'[k][r]
      <4>1. channel \in board'[k][r] <=> channel \in board[k][r]
        <5>1. At(c) # <<k, channel>>
          BY <1>2, <3>5
        <5> QED BY <1>1, <1>2, <3>2, <5>1, OtherBitsStay
      <4>2. CASE i = n
        <5>1. call'[c].kept[r] = Held(At(c), r)
          BY <1>2, <3>2, <3>3, <3>4, <3>5, <4>2 DEF Kept
        <5>2. Held(At(c), r) = board[k][r]
          BY <3>2 DEF Held
        <5> QED BY <4>1, <5>1, <5>2
      <4>3. CASE i # n
        <5>1. i \in 1..n - 1
          BY <1>2, <3>1, <4>3
        <5>2. channel \in call[c].kept[r] <=> channel \in board[k][r]
          BY <1>1, <3>1, <3>5, <5>1 DEF RatesFollowCall
        <5>3. a.io = "read" => a.reg # r
          BY <1>2, <3>1, <3>2, <3>5, <4>3, RateAccesses, SMTT(30)
        <5>4. call'[c].kept[r] = call[c].kept[r]
          BY <3>2, <3>3, <3>4, <5>3 DEF Kept
        <5> QED BY <4>1, <5>2, <5>4
      <4> QED BY <4>2, <4>3
    <3>6. ASSUME s[i].io = "write" PROVE own \in board'[k][r] <=> s[i].on # {}
      <4>1. CASE i = n
        <5>1. board'[k][r] = Derived(c)
          BY <1>2, <3>2, <3>6, <4>1, PerformedHardware
        <5>2. Derived(c) = (call[c].kept[r] \ a.off) \cup a.on
          BY <1>2, <4>1 DEF Derived
        <5>3. a.on \in {{}, {own}} /\ (a.on = {} <=> a.off = {own})
          <6>1. s[n].io = "write" => s[n].on \in {{}, {own}} /\ (s[n].on = {} <=> s[n].off = {own})
            BY <1>2, <3>1, RateAccesses
          <6> HIDE DEF s, n, a, own
          <6> QED BY <1>2, <3>6, <4>1, <6>1
        <5> QED BY <1>2, <4>1, <5>1, <5>2, <5>3
      <4>2. CASE i # n
        <5>1. i \in 1..n - 1
          BY <1>2, <3>1, <4>2
        <5>2. own \in board[k][r] <=> s[i].on # {}
          BY <1>1, <3>1, <3>6, <5>1 DEF RatesFollowCall
        <5>3. ~(a.io = "write" /\ a.reg = r)
          <6>1. s[i].io = s[n].io /\ s[i].reg = s[n].reg => i = n
            BY <1>2, <3>1, <3>2, RateAccesses
          <6> HIDE DEF s, n, a
          <6> QED BY <1>2, <3>6, <4>2, <6>1 DEF r
        <5>4. board'[k][r] = board[k][r]
          BY <1>2, <3>2, <5>3, PerformedHardware
        <5> QED BY <5>2, <5>4
      <4> QED BY <4>1, <4>2
    <3> HIDE DEF n
    <3> QED BY <1>2, <2>2, <3>5, <3>6
  <2> QED BY <2>1, <2>2
<1>6. RatesHeld'
  <2> SUFFICES ASSUME NEW p \in Port, Programmed(p, PlaceOf["sample_rate"])',
                      \A d \in Caller : At(d)' = p => ~Sets(d, "sample_rate")'
               PROVE  cache'[p].sample_rate = SampleRate(p)'
    BY DEF RatesHeld
  <2>1. /\ Programmed(p, PlaceOf["sample_rate"])
        /\ \A d \in Caller : At(d) = p => ~Sets(d, "sample_rate")
    BY <1>2, <1>3 DEF Programmed
  <2>2. cache[p].sample_rate = SampleRate(p)
    BY <1>1, <2>1 DEF RatesHeld
  <2>3. p[1] \in Card /\ p[2] \in Channel /\ p = <<p[1], p[2]>>
    BY DEF Port
  <2>4. \A r \in RateReg : p[2] \in board'[p[1]][r] <=> p[2] \in board[p[1]][r]
    BY <1>1, <2>1, <2>3, OtherBitsStay
  <2>5. SampleRate(p)' = SampleRate(p)
    BY <2>4, RateByBits
  <2> QED BY <1>2, <2>2, <2>5
<1> QED BY <1>4, <1>5, <1>6 DEF BoardHeld

-----------------------------------------------------------------------------
(* The other steps.                                                        *)

(* Entering a card keeps the sampling rates.                               *)
LEMMA EnterKeepsBoard ==
  ASSUME IInv, BoardHeld, Discipline = "card",
         NEW c \in Caller, NEW p, NEW request, NEW h, Enters(c, p, request, h)
  PROVE  BoardHeld'
<1>1. AloneOnCard /\ RatesFollowCall /\ RatesHeld
  BY DEF BoardHeld
<1>2. p \in Port /\ MayEnter(p) /\ UNCHANGED <<board, cache, boot>>
  BY DEF Enters
<1>3. \A channel \in Channel : Quiet(<<p[1], channel>>)
  BY <1>2, EntersQuiet
<1>4. /\ \A d \in Caller : d # c => call'[d] = call[d] /\ Busy(d)' = Busy(d) /\ At(d)' = At(d)
      /\ ~Busy(c) /\ Busy(c)' /\ At(c)' = p /\ call'[c].pc = 1
  BY EnteredCalls
<1>5. \A d \in Caller : d # c /\ Busy(d) => At(d)[1] # p[1]
  <2> SUFFICES ASSUME NEW d \in Caller, d # c, Busy(d), At(d)[1] = p[1] PROVE FALSE
    OBVIOUS
  <2>1. At(d) = <<p[1], At(d)[2]>> /\ At(d)[2] \in Channel
    BY CallFacts DEF IInv
  <2> QED BY <1>3, <2>1 DEF Quiet
<1>6. AloneOnCard'
  BY <1>1, <1>4, <1>5 DEF AloneOnCard
<1>7. \A d \in Caller : \A name : d # c => Sets(d, name)' = Sets(d, name)
  BY <1>4 DEF Sets
<1>8. RatesFollowCall'
  <2> SUFFICES ASSUME NEW d \in Caller, Sets(d, "sample_rate")', NEW i \in 1..call'[d].pc - 1
               PROVE  LET b == call'[d].steps[i] IN
                      /\ b.io = "read" =>
                           \A channel \in Channel \ {At(d)'[2]} :
                             channel \in call'[d].kept[b.reg] <=> channel \in board'[At(d)'[1]][b.reg]
                      /\ b.io = "write" =>
                           (At(d)'[2] \in board'[At(d)'[1]][b.reg] <=> b.on # {})
    BY DEF RatesFollowCall
  <2>1. d # c
    BY <1>4
  <2> QED BY <1>1, <1>2, <1>4, <1>7, <2>1, SMTT(30) DEF RatesFollowCall
<1>9. RatesHeld'
  <2> SUFFICES ASSUME NEW q \in Port, Programmed(q, PlaceOf["sample_rate"])',
                      \A d \in Caller : At(d)' = q => ~Sets(d, "sample_rate")'
               PROVE  cache'[q].sample_rate = SampleRate(q)'
    BY DEF RatesHeld
  <2>1. Programmed(q, PlaceOf["sample_rate"])
    BY <1>2 DEF Programmed
  <2>2. \A d \in Caller : At(d) = q => ~Sets(d, "sample_rate")
    <3>1. ~Sets(c, "sample_rate")
      BY <1>4 DEF Sets
    <3> QED BY <1>4, <1>7, <3>1
  <2>3. SampleRate(q)' = SampleRate(q)
    BY <1>2 DEF SampleRate
  <2> QED BY <1>1, <1>2, <2>1, <2>2, <2>3 DEF RatesHeld
<1> QED BY <1>6, <1>8, <1>9 DEF BoardHeld

(* Returning keeps them: what the call wrote is what is remembered.        *)
LEMMA ReturnKeepsBoard ==
  ASSUME IInv, BoardHeld, NEW c \in Caller, Return(c)
  PROVE  BoardHeld'
<1>1. AloneOnCard /\ RatesFollowCall /\ RatesHeld
  BY DEF BoardHeld
<1>2. /\ \A d \in Caller : d # c => call'[d] = call[d] /\ Busy(d)' = Busy(d) /\ At(d)' = At(d)
      /\ Busy(c) /\ ~Busy(c)' /\ At(c) \in Port
      /\ call[c].pc = Len(call[c].steps) + 1
      /\ UNCHANGED board
  BY ReturnedCalls
<1>3. \A q \in Port, name \in Cached :
        cache'[q][name] = IF q = At(c) /\ Sets(c, name) THEN call[c].arg ELSE cache[q][name]
  BY ReturnedMemory
<1>4. \A d \in Caller : \A name : d # c => Sets(d, name)' = Sets(d, name)
  BY <1>2 DEF Sets
<1>5. AloneOnCard'
  <2>1. \A d \in Caller : Busy(d)' => Busy(d) /\ At(d)' = At(d)
    BY <1>2
  <2> QED BY <1>1, <2>1 DEF AloneOnCard
<1>6. RatesFollowCall'
  <2> SUFFICES ASSUME NEW d \in Caller, Sets(d, "sample_rate")', NEW i \in 1..call'[d].pc - 1
               PROVE  LET b == call'[d].steps[i] IN
                      /\ b.io = "read" =>
                           \A channel \in Channel \ {At(d)'[2]} :
                             channel \in call'[d].kept[b.reg] <=> channel \in board'[At(d)'[1]][b.reg]
                      /\ b.io = "write" =>
                           (At(d)'[2] \in board'[At(d)'[1]][b.reg] <=> b.on # {})
    BY DEF RatesFollowCall
  <2>1. d # c
    BY <1>2 DEF Sets
  <2> QED BY <1>1, <1>2, <1>4, <2>1, SMTT(30) DEF RatesFollowCall
<1>7. RatesHeld'
  <2> SUFFICES ASSUME NEW q \in Port, Programmed(q, PlaceOf["sample_rate"])',
                      \A d \in Caller : At(d)' = q => ~Sets(d, "sample_rate")'
               PROVE  cache'[q].sample_rate = SampleRate(q)'
    BY DEF RatesHeld
  <2>0. "sample_rate" \in Cached /\ PlaceOf["sample_rate"] \in 1..StepsPerPort
    BY StartUpLength DEF Cached
  <2>1. SampleRate(q)' = SampleRate(q)
    BY <1>2 DEF SampleRate
  <2>2. CASE q = At(c) /\ Sets(c, "sample_rate")
    BY <1>1, <1>2, <1>3, <2>0, <2>1, <2>2, RateWritten
  <2>3. CASE ~(q = At(c) /\ Sets(c, "sample_rate"))
    <3>1. Programmed(q, PlaceOf["sample_rate"])
      <4> SUFFICES ASSUME ~Programmed(q, PlaceOf["sample_rate"]) PROVE FALSE
        OBVIOUS
      <4>1. /\ At(c) = q /\ call[c].kind = serialfc_port_new[PlaceOf["sample_rate"]].kind
            /\ call[c].name = serialfc_port_new[PlaceOf["sample_rate"]].name
            /\ call[c].arg = serialfc_port_new[PlaceOf["sample_rate"]].arg
        BY <2>0, NewlyProgrammed
      <4>2. /\ serialfc_port_new[PlaceOf["sample_rate"]].arg = 16
            /\ serialfc_port_new[PlaceOf["sample_rate"]].kind = "set"
            /\ serialfc_port_new[PlaceOf["sample_rate"]].name = "sample_rate"
        BY <2>0, StartUpCalls, StartUpLength
      <4>3. Sets(c, "sample_rate")
        BY <1>2, <4>1, <4>2, DefaultsAccepted
      <4> QED BY <2>3, <4>1, <4>3
    <3>2. \A d \in Caller : At(d) = q => ~Sets(d, "sample_rate")
      BY <1>2, <1>4, <2>3
    <3> QED BY <1>1, <1>3, <2>0, <2>1, <2>3, <3>1, <3>2 DEF RatesHeld
  <2> QED BY <2>2, <2>3
<1> QED BY <1>5, <1>6, <1>7 DEF BoardHeld

(* A step that leaves calls, memory and board alone.                       *)
LEMMA BoardUntouched ==
  ASSUME BoardHeld, UNCHANGED <<board, cache, boot, call>>
  PROVE  BoardHeld'
<1>1. board' = board /\ cache' = cache /\ boot' = boot /\ call' = call
  OBVIOUS
<1>2. AloneOnCard' /\ RatesFollowCall'
  BY <1>1, SMTT(30) DEF BoardHeld, AloneOnCard, RatesFollowCall, Busy, At, Sets
<1>3. RatesHeld'
  BY <1>1 DEF BoardHeld, RatesHeld, Busy, At, Sets, Programmed, SampleRate
<1> QED BY <1>2, <1>3 DEF BoardHeld

(* Nothing is said of the sampling rates before start-up sets them.        *)
LEMMA InitBoard == Init => BoardHeld
<1> SUFFICES ASSUME Init PROVE BoardHeld
  OBVIOUS
<1>1. \A c \in Caller : ~Busy(c)
  BY DEF Init, Busy, Idle
<1>2. AloneOnCard /\ RatesFollowCall
  BY <1>1 DEF AloneOnCard, RatesFollowCall, Sets
<1>3. \A p \in Port : ~Programmed(p, PlaceOf["sample_rate"])
  <2> SUFFICES ASSUME NEW p \in Port PROVE ~Programmed(p, PlaceOf["sample_rate"])
    OBVIOUS
  <2>1. p[1] \in Card /\ p[2] \in Nat /\ StepsPerPort \in Nat /\ PlaceOf["sample_rate"] \in {4, 5}
    BY Channels, StartUpLength DEF Port
  <2>2. boot[p[1]] = 0 /\ p[2] * StepsPerPort \in Nat
    BY <2>1 DEF Init
  <2> QED BY <2>1, <2>2 DEF Programmed
<1> QED BY <1>2, <1>3 DEF BoardHeld, RatesHeld

-----------------------------------------------------------------------------
(* The theorems.                                                           *)

(* The registers, the driver's memory and what calls under way have done   *)
(* fit together: see FullInv.                                              *)
THEOREM FullInvariance == ASSUME Discipline # "none" PROVE Spec => []FullInv
<1>1. CASE Discipline = "card"
  <2>1. Init => IInv /\ BoardHeld
    BY InitKeeps, InitBoard
  <2>2. ASSUME IInv, BoardHeld, [Next]_vars PROVE BoardHeld'
    <3>1. ASSUME NEW u \in User, NEW p \in Card \X Opened, NEW request \in Calls[p[2]], Begin(u, p, request)
          PROVE  BoardHeld'
      <4>1. PICK h : Enters(u, p, request, h)
        BY <2>2, <3>1, BeginEnters
      <4> QED BY <1>1, <2>2, <4>1, EnterKeepsBoard DEF Caller
    <3>2. ASSUME NEW k \in Card, BeginBoot(k) PROVE BoardHeld'
      <4>1. PICK p, request, h : Enters(k, p, request, h)
        BY <2>2, <3>2, BeginEnters
      <4> QED BY <1>1, <2>2, <4>1, EnterKeepsBoard DEF Caller
    <3>3. ASSUME NEW c \in Caller, Perform(c) PROVE BoardHeld'
      BY <2>2, <3>3, PerformKeepsBoard
    <3>4. ASSUME NEW c \in Caller, Return(c) PROVE BoardHeld'
      BY <2>2, <3>4, ReturnKeepsBoard
    <3>5. ASSUME NEW p \in Card \X Opened, NEW v \in Line, TtySetLine(p, v) PROVE BoardHeld'
      BY <2>2, <3>5, BoardUntouched DEF TtySetLine
    <3>6. CASE UNCHANGED vars
      BY <2>2, <3>6, BoardUntouched DEF vars
    <3> QED BY <2>2, <3>1, <3>2, <3>3, <3>4, <3>5, <3>6 DEF Next
  <2>3. Spec => []IInv
    BY Invariance
  <2>4. IInv /\ BoardHeld => FullInv
    BY DEF FullInv, BoardInv
  <2> QED BY <2>1, <2>2, <2>3, <2>4, PTL DEF Spec
<1>2. CASE Discipline # "card"
  <2>1. IInv => FullInv
    BY <1>2 DEF FullInv, BoardInv
  <2>2. Spec => []IInv
    BY Invariance
  <2> QED BY <2>1, <2>2, PTL
<1> QED BY <1>1, <1>2

(* The driver answers from memory what the device does.                    *)
THEOREM CacheCoherentHolds == ASSUME Discipline = "card" PROVE Spec => []CacheCoherent
<1>1. FullInv => CacheCoherent
  <2> SUFFICES ASSUME FullInv, NEW p \in Port, Ready(p), Quiet(p)
               PROVE  /\ cache[p].sample_rate = SampleRate(p)
                      /\ cache[p].tx_trigger  = byte[p]["TXTRG"]
                      /\ cache[p].rx_trigger  = byte[p]["RXTRG"]
    BY DEF CacheCoherent
  <2>1. IInv /\ BoardHeld
    BY DEF FullInv, BoardInv
  <2>2. \A c \in Caller : \A name : At(c) = p => ~Sets(c, name)
    BY DEF Quiet, Sets
  <2>3. boot \in [Card -> 0..NumPorts * StepsPerPort]
    BY <2>1 DEF IInv, TypeOK
  <2>4. \A name \in Level \cup {"sample_rate"} : PlaceOf[name] \in 1..StepsPerPort
    BY StartUpLength DEF Level
  <2>5. \A name \in Level \cup {"sample_rate"} : Programmed(p, PlaceOf[name])
    BY <2>3, <2>4, ReadyProgrammed
  <2>6. cache[p].sample_rate = SampleRate(p)
    BY <2>1, <2>2, <2>5 DEF BoardHeld, RatesHeld
  <2>7. \A name \in Level : byte[p][RegisterOf[name]] = cache[p][name]
    BY <2>1, <2>2, <2>5 DEF IInv, LevelsHeld
  <2> QED BY <2>6, <2>7 DEF Level, RegisterOf
<1>2. Spec => []FullInv
  BY FullInvariance
<1> QED BY <1>1, <1>2, PTL

(* Only its return ends a call.                                            *)
LEMMA EndsByReturn ==
  ASSUME IInv, [Next]_vars, NEW c \in Caller, Busy(c), ~Busy(c)'
  PROVE  Return(c)
<1>1. ASSUME NEW d \in Caller, NEW p, NEW request, NEW h, Enters(d, p, request, h) PROVE FALSE
  BY <1>1, EnteredCalls
<1>2. ASSUME NEW u \in User, NEW p \in Card \X Opened, NEW request \in Calls[p[2]], Begin(u, p, request)
      PROVE  FALSE
  <2>1. PICK h : Enters(u, p, request, h)
    BY <1>2, BeginEnters
  <2> QED BY <1>1, <2>1 DEF Caller
<1>3. ASSUME NEW k \in Card, BeginBoot(k) PROVE FALSE
  <2>1. PICK p, request, h : Enters(k, p, request, h)
    BY <1>3, BeginEnters
  <2> QED BY <1>1, <2>1 DEF Caller
<1>4. ASSUME NEW d \in Caller, Perform(d) PROVE FALSE
  BY <1>4, PerformedCalls
<1>5. ASSUME NEW d \in Caller, Return(d) PROVE Return(c)
  <2>1. d = c
    BY <1>5, ReturnedCalls
  <2> QED BY <1>5, <2>1
<1>6. ASSUME NEW p \in Card \X Opened, NEW v \in Line, TtySetLine(p, v) PROVE FALSE
  BY <1>6 DEF TtySetLine, Busy
<1>7. CASE UNCHANGED vars
  BY <1>7 DEF vars, Busy
<1> QED BY <1>2, <1>3, <1>4, <1>5, <1>6, <1>7 DEF Next

(* A call of the baud rate that is done has made all its accesses, and the *)
(* driver remembers the rate that the device samples at.                   *)
LEMMA BaudDone ==
  ASSUME FullInv, Discipline = "card", NEW u \in User,
         Busy(u), Return(u), call[u].name = "baud_rate", call[u].status = 0,
         call[u].kind \in {"set", "get"}
  PROVE  /\ OnDivisor(u) /\ call[u].pc = Len(call[u].steps) + 1
         /\ call[u].kind = "set" => call[u].steps = SetBaud(call[u].arg)
         /\ call[u].kind = "get" => call[u].steps = GetBaud
         /\ At(u) \in Port /\ call[u] \in CallRecord
         /\ cache[At(u)].sample_rate = SampleRate(At(u))
         /\ cache[At(u)].sample_rate \in {4, 8, 16}
<1>1. /\ u \in Caller /\ IInv /\ TypeOK /\ Exclusive /\ Served /\ Attributed /\ RatesHeld
  BY DEF Caller, FullInv, IInv, BoardInv, BoardHeld
<1>2. /\ call[u].pc = Len(call[u].steps) + 1 /\ At(u) \in Port /\ call[u] \in CallRecord
  BY <1>1, ReturnedCalls, CallFacts
<1>3. OnDivisor(u)
  <2>1. PICK h \in Handlers(At(u)[2], call[u], cache[At(u)].sample_rate) :
          call[u].steps = h.steps /\ call[u].status = h.status
    BY <1>1 DEF Served
  <2>2. call[u].arg \in Nat
    BY <1>1, Asked
  <2>3. \/ h \in Setter(At(u)[2], "baud_rate", call[u].arg, cache[At(u)].sample_rate)
        \/ h = Getter("baud_rate")
    BY <2>1 DEF Handlers
  <2>4. CASE Family = "PCIe"
    <3>1. h = Refuse(EINVAL) \/ h = Do(SetBaud(call[u].arg)) \/ h = Do(GetBaud)
      BY <2>2, <2>3, <2>4, BaudHandlers
    <3>2. h # Refuse(EINVAL)
      BY <2>1 DEF Refuse, EINVAL
    <3>3. SetBaud(call[u].arg) # << >> /\ GetBaud # << >>
      BY <2>2, BaudTidy
    <3> QED BY <2>1, <3>1, <3>2, <3>3 DEF OnDivisor, Do
  <2>5. CASE Family = "PCI"
    <3>1. h = Refuse(EPROTONOSUPPORT)
      BY <2>3, <2>5 DEF Setter, Getter
    <3> QED BY <2>1, <3>1 DEF Refuse, EPROTONOSUPPORT
  <2> QED BY <2>4, <2>5, FamilyAssumption
<1>4. /\ call[u].kind = "set" => call[u].steps = SetBaud(call[u].arg)
      /\ call[u].kind = "get" => call[u].steps = GetBaud
  BY <1>1, <1>3, BusyShape
<1>5. cache[At(u)].sample_rate \in {4, 8, 16}
  BY <1>1, <1>3, RateAtHand
<1>6. cache[At(u)].sample_rate = SampleRate(At(u))
  <2>1. Programmed(At(u), PlaceOf["sample_rate"])
    <3>1. PlaceOf["sample_rate"] \in 1..StepsPerPort
      BY StartUpLength
    <3> QED BY <1>1, <3>1, Asked
  <2>2. \A d \in Caller : At(d) = At(u) => ~Sets(d, "sample_rate")
    BY <1>1 DEF Exclusive, Sets
  <2> QED BY <1>1, <1>2, <2>1, <2>2 DEF RatesHeld
<1> QED BY <1>2, <1>3, <1>4, <1>5, <1>6

(* Of a divisor the three bytes hold the lower 20 bits.                    *)
LEMMA DivisorSpread ==
  ASSUME NEW d \in Nat, NEW b \in Byte, NEW bytes,
         \A r \in Divisor : bytes[r] = DivisorByte(r, d, b)
  PROVE  Sixteenths(bytes) = d % DivisorLimit
<1>1. /\ bytes["DLM"] = (d \div 4096) % 256
      /\ bytes["DLL"] = (d \div 16) % 256
      /\ bytes["DLD"] = ((b \div 16) * 16) + (d % 16)
  BY DEF Divisor, DivisorByte
<1>2. Sixteenths(bytes) = ((d \div 4096) % 256) * 4096 + ((d \div 16) % 256) * 16
                            + ((((b \div 16) * 16) + (d % 16)) % 16)
  BY <1>1 DEF Sixteenths
<1> DEFINE f == d % 16
           h == b \div 16
<1>3. f \in 0..15 /\ h \in Nat
  BY SMTT(30) DEF Byte
<1>4. ((h * 16) + f) % 16 = f
  <2> HIDE DEF f, h
  <2> QED BY <1>3, SMTT(30)
<1>5. ((d \div 4096) % 256) * 4096 + ((d \div 16) % 256) * 16 + (d % 16) = d % 1048576
  BY SMTT(60)
<1> QED BY <1>2, <1>4, <1>5 DEF DivisorLimit

(* The divisor that set_baud_rate leaves behind is that of the rate.       *)
THEOREM BaudProgrammedHolds == ASSUME Discipline = "card" PROVE Spec => BaudProgrammed
<1>1. ASSUME FullInv, [Next]_vars, NEW u \in User, Returning(u, "set", "baud_rate")
      PROVE  Sixteenths(byte[At(u)]) = (Clock \div (call[u].arg * SampleRate(At(u)))) % DivisorLimit
  <2>1. /\ u \in Caller /\ IInv /\ Busy(u) /\ ~Busy(u)' /\ call[u].kind = "set"
        /\ call[u].name = "baud_rate" /\ call[u].status = 0
    BY <1>1 DEF Caller, FullInv, Returning
  <2>2. Return(u)
    BY <1>1, <2>1, EndsByReturn
  <2>3. /\ OnDivisor(u) /\ call[u].pc = Len(call[u].steps) + 1 /\ call[u].steps = SetBaud(call[u].arg)
        /\ call[u] \in CallRecord /\ cache[At(u)].sample_rate = SampleRate(At(u))
    BY <1>1, <2>1, <2>2, BaudDone
  <2>4. /\ call[u].pc = 9 /\ call[u].steps[5] = StoreDivisor("DLM")
        /\ call[u].steps[6] = StoreDivisor("DLL") /\ call[u].steps[7] = StoreDivisor("DLD")
    BY <2>3 DEF SetBaud
  <2> DEFINE d == call[u].divisor
             b == call[u].got["DLD"]
  <2>5. d = Clock \div (call[u].arg * SampleRate(At(u)))
    BY <2>1, <2>3, <2>4 DEF IInv, DivisorFollows
  <2>6. \A i \in 1..8 : call[u].steps[i].io = "store_divisor" =>
          byte[At(u)][call[u].steps[i].reg] = DivisorByte(call[u].steps[i].reg, d, b)
    BY <2>1, <2>3, <2>4 DEF IInv, DivisorFollows
  <2>7. \A r \in Divisor : \E i \in 5..7 : call[u].steps[i] = StoreDivisor(r)
    BY <2>4 DEF Divisor
  <2>8. \A r \in Divisor : byte[At(u)][r] = DivisorByte(r, d, b)
    <3> SUFFICES ASSUME NEW r \in Divisor PROVE byte[At(u)][r] = DivisorByte(r, d, b)
      OBVIOUS
    <3>1. PICK i \in 5..7 : call[u].steps[i] = StoreDivisor(r)
      BY <2>7
    <3>2. i \in 1..8 /\ call[u].steps[i].io = "store_divisor" /\ call[u].steps[i].reg = r
      BY <3>1 DEF StoreDivisor, Access
    <3> QED BY <2>6, <3>2
  <2>9. d \in Nat /\ b \in Byte
    BY <2>3 DEF CallRecord, Divisor
  <2> HIDE DEF d, b
  <2>10. Sixteenths(byte[At(u)]) = d % DivisorLimit
    BY <2>8, <2>9, DivisorSpread
  <2> QED BY <2>5, <2>10
<1>2. FullInv /\ [Next]_vars =>
        [\A u \in User : Returning(u, "set", "baud_rate") =>
           Sixteenths(byte[At(u)]) = (Clock \div (call[u].arg * SampleRate(At(u)))) % DivisorLimit]_vars
  BY <1>1
<1>3. Spec => []FullInv
  BY FullInvariance
<1> QED BY <1>2, <1>3, PTL DEF Spec, BaudProgrammed

(* The rate that get_baud_rate answers is the one the device runs at.      *)
THEOREM BaudAnsweredHolds == ASSUME Discipline = "card" PROVE Spec => BaudAnswered
<1>1. ASSUME FullInv, [Next]_vars, NEW u \in User, Returning(u, "get", "baud_rate")
      PROVE  call'[u].value = (Clock \div Sixteenths(byte[At(u)])) \div SampleRate(At(u))
  <2>1. /\ u \in Caller /\ IInv /\ Busy(u) /\ ~Busy(u)' /\ call[u].kind = "get"
        /\ call[u].name = "baud_rate" /\ call[u].status = 0
    BY <1>1 DEF Caller, FullInv, Returning
  <2>2. Return(u)
    BY <1>1, <2>1, EndsByReturn
  <2>3. /\ OnDivisor(u) /\ call[u].pc = Len(call[u].steps) + 1 /\ call[u].steps = GetBaud
        /\ cache[At(u)].sample_rate = SampleRate(At(u))
    BY <1>1, <2>1, <2>2, BaudDone
  <2>4. call[u].pc > 6
    BY <2>3 DEF GetBaud
  <2>5. call[u].value = (Clock \div Sixteenths(byte[At(u)])) \div SampleRate(At(u))
    BY <2>1, <2>3, <2>4 DEF IInv, FetchedFollows
  <2>6. Reply(u) = call[u].value
    BY <2>1 DEF Reply, Cached
  <2>7. call'[u] = Idle(call[u].status, Reply(u))
    <3>1. call \in [Caller -> CallRecord]
      BY <2>1 DEF IInv, TypeOK
    <3> QED BY <2>1, <2>2, <3>1 DEF Return
  <2>8. call'[u].value = Reply(u)
    BY <2>7 DEF Idle
  <2> QED BY <2>5, <2>6, <2>8
<1>2. FullInv /\ [Next]_vars =>
        [\A u \in User : Returning(u, "get", "baud_rate") =>
           call'[u].value = (Clock \div Sixteenths(byte[At(u)])) \div SampleRate(At(u))]_vars
  BY <1>1
<1>3. Spec => []FullInv
  BY FullInvariance
<1> QED BY <1>2, <1>3, PTL DEF Spec, BaudAnswered
=============================================================================
