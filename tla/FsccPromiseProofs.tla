-------------------------- MODULE FsccPromiseProofs --------------------------
(***************************************************************************)
(* Proof that the driver implements module Settings on FSCC cards, for     *)
(* every set of cards, users, calls and register values, with one call at  *)
(* a time on a card.                                                       *)
(***************************************************************************)
EXTENDS FsccProofs

-----------------------------------------------------------------------------
(* The handlers, by the setting they are for.                              *)

\* What the setter of the setting name, asked for x, does unless it refuses.
Accepted(name, x, s) ==
  \/ name = "sample_rate" /\ x \in 4..16 /\ s = SetOne("TCR", x)
  \/ name = "tx_trigger" /\ x \in 0..127 /\ s = SetOne("TTL", x)
  \/ name = "rx_trigger" /\ x \in 0..127 /\ s = SetOne("RTL", x)
  \/ name = "frame_length" /\ x \in 1..256 /\ s = SetOne("FLR", x - 1)
  \/ name = "isochronous" /\ x \in -1..10 /\ s = SetTwo("MDM", Mdm(x), "CKS", Cks(x))
  \/ /\ name = "external_transmit" /\ x \in 0..8191
     /\ s = SetTwo("EXTH", IF x = 0 THEN 0 ELSE 128 + x \div 256, "EXT", x)
  \/ name = "rs485" /\ s = fastcom_set_rs485_fscc(x).steps
  \/ name = "echo_cancel" /\ s = <<ReadFcr, WriteFcr("echo", x)>>
  \/ name = "clock_bits" /\ s = <<ReadFcr, Pins, Pins, WriteBack>>

\* What its getter does.
Answering(name, s) ==
  \/ name = "sample_rate" /\ s = << >>
  \/ name = "tx_trigger" /\ s = GetOne("TTL")
  \/ name = "rx_trigger" /\ s = GetOne("RTL")
  \/ name = "isochronous" /\ s = GetOne("CKS")
  \/ name = "frame_length" /\ s = GetOne("FLR")
  \/ name = "external_transmit" /\ s = fastcom_get_external_transmit_fscc.steps
  \/ name \in {"rs485", "echo_cancel"} /\ s = <<ReadFcr>>

(* A setter refuses or does what it is for.                                *)
LEMMA SetterShape ==
  ASSUME NEW name, NEW x \in Int, name # "isochronous" => x \in Nat, NEW h \in Setter(name, x)
  PROVE  \/ h.status # 0 /\ h.steps = << >>
         \/ h.status = 0 /\ Accepted(name, x, h.steps)
<1> DEFINE Good == \/ h.status # 0 /\ h.steps = << >>
                   \/ h.status = 0 /\ Accepted(name, x, h.steps)
<1> SUFFICES Good
  OBVIOUS
<1> HIDE DEF Good
<1>1. ASSUME NEW e \in Int \ {0}, h = Refuse(e) PROVE Good
  BY <1>1 DEF Good, Refuse
<1>2. ASSUME NEW s, h = Do(s), Accepted(name, x, s) PROVE Good
  BY <1>2 DEF Good, Do
<1>3. EINVAL \in Int \ {0} /\ EPROTONOSUPPORT \in Int \ {0} /\ NoMemory \in Int \ {0}
  BY DEF EINVAL, EPROTONOSUPPORT, NoMemory
<1> HIDE DEF EINVAL, EPROTONOSUPPORT, NoMemory
<1>4. CASE name \in {"sample_rate", "tx_trigger", "rx_trigger", "frame_length"}
  <2>1. \/ h = Refuse(EINVAL) \/ h = Refuse(EPROTONOSUPPORT)
        \/ name = "sample_rate" /\ x \in 4..16 /\ h = Do(SetOne("TCR", x))
        \/ name = "tx_trigger" /\ x \in 0..127 /\ h = Do(SetOne("TTL", x))
        \/ name = "rx_trigger" /\ x \in 0..127 /\ h = Do(SetOne("RTL", x))
        \/ name = "frame_length" /\ x \in 1..256 /\ h = Do(SetOne("FLR", x - 1))
    BY <1>4 DEF Setter, fastcom_set_sample_rate_fscc, fastcom_set_tx_trigger_fscc,
       fastcom_set_rx_trigger_fscc, fastcom_set_frame_length_fscc, SetOne
  <2> QED BY <1>1, <1>2, <1>3, <2>1, SMTT(30) DEF Accepted
<1>5. CASE name = "isochronous"
  <2>1. h = Refuse(EINVAL) \/ (x \in -1..10 /\ h = Do(SetTwo("MDM", Mdm(x), "CKS", Cks(x))))
    BY <1>5 DEF Setter, fastcom_set_isochronous_fscc, SetTwo
  <2> QED BY <1>1, <1>2, <1>3, <1>5, <2>1 DEF Accepted
<1>6. CASE name = "external_transmit"
  <2> DEFINE exth == IF x = 0 THEN 0 ELSE 128 + x \div 256
  <2>1. h = fastcom_set_external_transmit_fscc(x) /\ x \in Nat
    BY <1>6 DEF Setter
  <2>2. CASE x > 8191
    BY <1>1, <1>3, <2>1, <2>2 DEF fastcom_set_external_transmit_fscc
  <2>3. CASE ~(x > 8191)
    <3>1. x \in 0..8191 /\ h = Do(SetTwo("EXTH", exth, "EXT", x))
      BY <2>1, <2>3 DEF fastcom_set_external_transmit_fscc, SetTwo
    <3> QED BY <1>2, <1>6, <3>1 DEF Accepted
  <2> QED BY <2>2, <2>3
<1>7. CASE name = "rs485"
  <2>1. h = fastcom_set_rs485_fscc(x) /\ h.status = 0
    BY <1>7 DEF Setter, fastcom_set_rs485_fscc, Do
  <2> QED BY <1>7, <2>1 DEF Accepted, Good
<1>8. CASE name \in {"echo_cancel", "clock_bits"}
  <2>1. \/ name = "echo_cancel" /\ h = Do(<<ReadFcr, WriteFcr("echo", x)>>)
        \/ name = "clock_bits" /\ h = Do(<<ReadFcr, Pins, Pins, WriteBack>>)
        \/ h = Refuse(NoMemory)
    BY <1>8 DEF Setter, fastcom_set_echo_cancel_fscc, fastcom_set_clock_bits_fscc
  <2> QED BY <1>1, <1>2, <1>3, <2>1, SMTT(30) DEF Accepted
<1>9. CASE name \notin {"sample_rate", "tx_trigger", "rx_trigger", "frame_length", "isochronous",
                        "external_transmit", "rs485", "echo_cancel", "clock_bits"}
  <2>1. h = Refuse(EPROTONOSUPPORT)
    BY <1>9 DEF Setter
  <2> QED BY <1>1, <1>3, <2>1
<1> QED BY <1>4, <1>5, <1>6, <1>7, <1>8, <1>9

(* So does a getter.                                                       *)
LEMMA GetterShape ==
  ASSUME NEW name, NEW h, h = Getter(name)
  PROVE  \/ h.status # 0 /\ h.steps = << >>
         \/ h.status = 0 /\ Answering(name, h.steps)
<1> DEFINE Good == \/ h.status # 0 /\ h.steps = << >>
                   \/ h.status = 0 /\ Answering(name, h.steps)
<1> SUFFICES Good
  OBVIOUS
<1>1. ASSUME h = Refuse(EPROTONOSUPPORT) PROVE Good
  BY <1>1 DEF Refuse, EPROTONOSUPPORT
<1> HIDE DEF Good
<1>2. ASSUME NEW s, h = Do(s), Answering(name, s) PROVE Good
  BY <1>2 DEF Good, Do
<1>3. CASE name \in {"sample_rate", "rs485", "echo_cancel"}
  <2>1. \/ name = "sample_rate" /\ h = Do(<< >>)
        \/ name \in {"rs485", "echo_cancel"} /\ h = Do(<<ReadFcr>>)
    BY <1>3 DEF Getter, fastcom_get_rs485_fscc, fastcom_get_echo_cancel_fscc
  <2> QED BY <1>2, <2>1 DEF Answering
<1>4. CASE name \in {"tx_trigger", "rx_trigger", "isochronous", "frame_length"}
  <2>1. \/ name = "tx_trigger" /\ h = Do(GetOne("TTL"))
        \/ name = "rx_trigger" /\ h = Do(GetOne("RTL"))
        \/ name = "isochronous" /\ h = Do(GetOne("CKS"))
        \/ name = "frame_length" /\ h = Do(GetOne("FLR"))
        \/ h = Refuse(EPROTONOSUPPORT)
    BY <1>4 DEF Getter, fastcom_get_tx_trigger_fscc, fastcom_get_rx_trigger_fscc,
       fastcom_get_isochronous_fscc, fastcom_get_frame_length_fscc, GetOne
  <2> QED BY <1>1, <1>2, <2>1 DEF Answering
<1>5. CASE name = "external_transmit"
  <2>1. h = fastcom_get_external_transmit_fscc /\ h.status = 0
    BY <1>5 DEF Getter, fastcom_get_external_transmit_fscc, Do
  <2> QED BY <1>5, <2>1 DEF Answering, Good
<1>6. CASE name \notin {"sample_rate", "rs485", "echo_cancel", "tx_trigger", "rx_trigger",
                        "isochronous", "frame_length", "external_transmit"}
  <2>1. h = Refuse(EPROTONOSUPPORT)
    BY <1>6 DEF Getter
  <2> QED BY <1>1, <2>1
<1> QED BY <1>3, <1>4, <1>5, <1>6

-----------------------------------------------------------------------------
(* Which access belongs to which setting.                                  *)

\* The setting a register or bit of the FCR is written for.
OwnerOf ==
  [TCR |-> "sample_rate", TTL |-> "tx_trigger", RTL |-> "rx_trigger", FLR |-> "frame_length",
   MDM |-> "isochronous", CKS |-> "isochronous",
   EXTH |-> "external_transmit", EXT |-> "external_transmit",
   rs485 |-> "rs485", echo |-> "echo_cancel"]

\* A call of this kind for this setting writes nothing of another, and its
\* getters nothing but ACR.
Owns(kind, name, s) ==
  \A i \in 1..Len(s) :
    /\ s[i].io \in {"put", "write_fcr"} =>
         s[i].reg \in DOMAIN OwnerOf /\ kind = "set" /\ name = OwnerOf[s[i].reg]
    /\ s[i].io = "put_acr" => kind = "get" \/ (kind = "set" /\ name = "rs485")
    /\ s[i].io = "shadow" => kind # "get"

\* The shadow is written once, and nothing of the FCR after its bit.
Orderly(s) ==
  /\ \A i, j \in 1..Len(s) : s[i].io = "shadow" /\ s[j].io = "shadow" => i = j
  /\ \A i, j \in 1..Len(s) : s[i].io = "write_fcr" /\ s[j].io \in FcrWrites /\ i <= j => i = j

\* ICR is read with reads on, and nothing is put by who reads.
Reads(s) ==
  \A n \in 1..Len(s) : s[n].io = "get" =>
    /\ s[n].reg \in IcrReg \ {"ACR"}
    /\ \A i \in 1..Len(s) : s[i].io # "put"
    /\ \E i \in 1..n-1 : /\ s[i].io = "put_acr" /\ s[i].val = 64
                          /\ \A j \in i+1..n-1 : s[j].io \notin AcrIo

Proper(kind, name, s) == Owns(kind, name, s) /\ Orderly(s) /\ Reads(s)

(* The setters of one register and of two.                                 *)
LEMMA PutsProper ==
  ASSUME NEW r \in {"TCR", "TTL", "RTL", "FLR", "MDM", "CKS", "EXTH", "EXT"},
         NEW q \in {"TCR", "TTL", "RTL", "FLR", "MDM", "CKS", "EXTH", "EXT"},
         NEW x, NEW y, NEW name, name = OwnerOf[r]
  PROVE  /\ Proper("set", name, SetOne(r, x))
         /\ name = OwnerOf[q] => Proper("set", name, SetTwo(r, x, q, y))
<1>0. r \in DOMAIN OwnerOf /\ q \in DOMAIN OwnerOf
  BY DEF OwnerOf
<1>1. Orderly(SetOne(r, x)) /\ Reads(SetOne(r, x))
  BY DEF SetOne, Orderly, Reads, FcrWrites, Access, SaveLcr, ClearLcr, Select, Put, RestoreLcr
<1>2. Orderly(SetTwo(r, x, q, y)) /\ Reads(SetTwo(r, x, q, y))
  BY SMTT(30) DEF SetTwo, Orderly, Reads, FcrWrites, Access, SaveLcr, ClearLcr, Select, Put, RestoreLcr
<1> HIDE DEF OwnerOf
<1>3. Owns("set", name, SetOne(r, x))
  BY <1>0 DEF SetOne, Owns, Access, SaveLcr, ClearLcr, Select, Put, RestoreLcr
<1>4. name = OwnerOf[q] => Owns("set", name, SetTwo(r, x, q, y))
  <2> DEFINE s == SetTwo(r, x, q, y)
  <2>1. /\ Len(s) = 7 /\ s[4].reg = r /\ s[6].reg = q
        /\ \A i \in 1..7 : s[i].io \notin {"put_acr", "write_fcr", "shadow"}
        /\ \A i \in 1..7 : s[i].io = "put" => i \in {4, 6}
    BY SMTT(30) DEF SetTwo, Access, SaveLcr, ClearLcr, Select, Put, RestoreLcr
  <2> HIDE DEF s
  <2>2. ASSUME name = OwnerOf[q], NEW i \in 1..7, s[i].io = "put"
        PROVE  s[i].reg \in DOMAIN OwnerOf /\ name = OwnerOf[s[i].reg]
    <3>1. s[i].reg \in {r, q}
      BY <2>1, <2>2
    <3> QED BY <1>0, <2>2, <3>1
  <2>3. name = OwnerOf[q] => Owns("set", name, s)
    BY <2>1, <2>2 DEF Owns
  <2> QED BY <2>3 DEF s
<1> QED BY <1>1, <1>2, <1>3, <1>4 DEF Proper

(* The getters of one register.                                            *)
LEMMA GetOneProper ==
  ASSUME NEW r \in IcrReg \ {"ACR"}, NEW name PROVE Proper("get", name, GetOne(r))
<1> DEFINE s == GetOne(r)
<1>1. Orderly(s) /\ Owns("get", name, s)
  BY SMTT(30) DEF GetOne, Orderly, Owns, FcrWrites, Access, SaveLcr, ClearLcr, Select, PutAcr, Get, RestoreLcr
<1>2. /\ Len(s) = 9 /\ \A n \in 1..9 : (s[n].io = "get" => n = 6) /\ s[n].io # "put"
      /\ s[6].reg = r /\ s[4].io = "put_acr" /\ s[4].val = 64 /\ s[5].io = "select"
  BY SMTT(30) DEF GetOne, Access, SaveLcr, ClearLcr, Select, PutAcr, Get, RestoreLcr
<1> HIDE DEF s
<1>3. Reads(s)
  BY <1>2 DEF Reads, AcrIo
<1> QED BY <1>1, <1>3 DEF Proper, s

(* The getter of two registers.                                            *)
LEMMA GetTwoProper ==
  ASSUME NEW s, s = fastcom_get_external_transmit_fscc.steps PROVE Proper("get", "external_transmit", s)
<1>0. s = <<SaveLcr, ClearLcr, Select("ACR"), PutAcr(64), Select("EXT"), Get("EXT"),
            Select("EXTH"), Get("EXTH"), Select("ACR"), PutAcr(0), RestoreLcr>>
  BY DEF fastcom_get_external_transmit_fscc, Do
<1>1. Orderly(s) /\ Owns("get", "external_transmit", s)
  BY <1>0, SMTT(30) DEF Orderly, Owns, FcrWrites, Access, SaveLcr, ClearLcr, Select, PutAcr, Get, RestoreLcr
<1>2. /\ Len(s) = 11 /\ \A n \in 1..11 : (s[n].io = "get" => n \in {6, 8}) /\ s[n].io # "put"
      /\ s[6].reg = "EXT" /\ s[8].reg = "EXTH" /\ s[4].io = "put_acr" /\ s[4].val = 64
      /\ \A j \in 5..7 : s[j].io \in {"select", "get"}
  BY <1>0, SMTT(30) DEF Access, SaveLcr, ClearLcr, Select, PutAcr, Get, RestoreLcr
<1> HIDE <1>0
<1>3. Reads(s)
  <2> SUFFICES ASSUME NEW n \in {6, 8}
               PROVE  /\ s[n].reg \in IcrReg \ {"ACR"}
                      /\ \E i \in 1..n-1 : /\ s[i].io = "put_acr" /\ s[i].val = 64
                                            /\ \A j \in i+1..n-1 : s[j].io \notin AcrIo
    BY <1>2, SMTT(30) DEF Reads
  <2>1. 4 \in 1..n-1 /\ \A j \in 4+1..n-1 : j \in 5..7
    OBVIOUS
  <2>2. \A j \in 4+1..n-1 : s[j].io \notin AcrIo
    BY <1>2, <2>1 DEF AcrIo
  <2> QED BY <1>2, <2>1, <2>2 DEF IcrReg
<1> QED BY <1>1, <1>3 DEF Proper

(* The calls of the FCR, and those that make no access.                    *)
LEMMA BoardProper ==
  /\ \A x : Proper("set", "rs485", fastcom_set_rs485_fscc(x).steps)
  /\ \A x : Proper("set", "echo_cancel", <<ReadFcr, WriteFcr("echo", x)>>)
  /\ \A k, n : Proper(k, n, << >>) /\ Proper(k, n, <<ReadFcr>>)
               /\ Proper(k, n, <<ReadFcr, Pins, Pins, WriteBack>>)
               /\ Proper(k, n, <<ReadFcr, RaiseFcr("async")>>)
<1>1. ASSUME NEW x, NEW s, s = fastcom_set_rs485_fscc(x).steps PROVE Proper("set", "rs485", s)
  <2>0. s = <<SaveLcr, ReadFcr, ClearLcr, Select("ACR"),
              ShadowAcr(IF x = 0 THEN 0 ELSE 16), PutAcr(0), WriteFcr("rs485", x), RestoreLcr>>
    BY <1>1 DEF fastcom_set_rs485_fscc, Do
  <2>1. Orderly(s) /\ Reads(s)
    BY <2>0, SMTT(30) DEF Orderly, Reads, FcrWrites, Access, SaveLcr, ReadFcr, ClearLcr,
       Select, PutAcr, ShadowAcr, WriteFcr, RestoreLcr
  <2>2. Owns("set", "rs485", s)
    BY <2>0, SMTT(30) DEF Owns, OwnerOf, Access, SaveLcr, ReadFcr, ClearLcr,
       Select, PutAcr, ShadowAcr, WriteFcr, RestoreLcr
  <2> QED BY <2>1, <2>2 DEF Proper
<1>2. ASSUME NEW x PROVE Proper("set", "echo_cancel", <<ReadFcr, WriteFcr("echo", x)>>)
  BY DEF Proper, Owns, OwnerOf, Orderly, Reads, FcrWrites, Access, ReadFcr, WriteFcr
<1>3. ASSUME NEW k, NEW n
      PROVE  /\ Proper(k, n, << >>) /\ Proper(k, n, <<ReadFcr>>)
             /\ Proper(k, n, <<ReadFcr, RaiseFcr("async")>>)
  BY DEF Proper, Owns, OwnerOf, Orderly, Reads, FcrWrites, Access, ReadFcr, RaiseFcr
<1>4. ASSUME NEW k, NEW n PROVE Proper(k, n, <<ReadFcr, Pins, Pins, WriteBack>>)
  BY SMTT(30) DEF Proper, Owns, OwnerOf, Orderly, Reads, FcrWrites, Access, ReadFcr, Pins, WriteBack
<1> QED BY <1>1, <1>2, <1>3, <1>4

(* What a call under way consists of, by its setting.                      *)
LEMMA CallShape ==
  ASSUME IInv, Served, Attributed, NEW c \in Caller, Busy(c)
  PROVE  LET s == call[c].steps IN
         \/ InitTriggers(c) /\ s = <<PutTwo(1), SetLcr(191), PutTwo(16), ShadowAcr(0)>>
         \/ AsyncMode(c) /\ s = <<ReadFcr, RaiseFcr("async")>>
         \/ call[c].kind \in {"set", "get"} /\ call[c].status # 0 /\ s = << >>
         \/ call[c].kind = "set" /\ call[c].status = 0 /\ Accepted(call[c].name, call[c].arg, s)
         \/ call[c].kind = "get" /\ call[c].status = 0 /\ Answering(call[c].name, s)
<1>1. PICK h \in Handlers(call[c]) : call[c].steps = h.steps /\ call[c].status = h.status
  BY DEF Served
<1>2. call[c].kind \in {"set", "get", "boot"} /\ call[c].arg \in Int
  BY DEF IInv, CallsInv, TypeOK, CallRecord, Busy
<1>3. call[c].name # "isochronous" => call[c].arg \in Nat
  <2>1. CASE c \in Card
    BY <2>1, LoaderAt, StartUpCalls
  <2>2. CASE c \in User
    BY <2>2 DEF Attributed
  <2> QED BY <2>1, <2>2 DEF Caller
<1>4. CASE call[c].kind = "set"
  <2>1. h \in Setter(call[c].name, call[c].arg)
    BY <1>1, <1>4 DEF Handlers
  <2>2. \/ h.status # 0 /\ h.steps = << >>
        \/ h.status = 0 /\ Accepted(call[c].name, call[c].arg, h.steps)
    BY <1>2, <1>3, <2>1, SetterShape
  <2> QED BY <1>1, <1>4, <2>2
<1>5. CASE call[c].kind = "get"
  <2>1. h = Getter(call[c].name)
    BY <1>1, <1>5 DEF Handlers
  <2>2. \/ h.status # 0 /\ h.steps = << >>
        \/ h.status = 0 /\ Answering(call[c].name, h.steps)
    BY <2>1, GetterShape
  <2> QED BY <1>1, <1>5, <2>2
<1>6. CASE call[c].kind = "boot"
  BY <1>6, BusyShape
<1> QED BY <1>2, <1>4, <1>5, <1>6

(* Every call under way writes its own setting only.                       *)
LEMMA ProperCalls ==
  ASSUME IInv, Served, Attributed, NEW c \in Caller, Busy(c)
  PROVE  /\ Proper(call[c].kind, call[c].name, call[c].steps)
         /\ call[c].steps # << >> /\ call[c].kind \in {"set", "get"} => call[c].status = 0
<1> DEFINE s    == call[c].steps
           kind == call[c].kind
           name == call[c].name
           x    == call[c].arg
<1>1. \/ InitTriggers(c) /\ s = <<PutTwo(1), SetLcr(191), PutTwo(16), ShadowAcr(0)>>
      \/ AsyncMode(c) /\ s = <<ReadFcr, RaiseFcr("async")>>
      \/ kind \in {"set", "get"} /\ call[c].status # 0 /\ s = << >>
      \/ kind = "set" /\ call[c].status = 0 /\ Accepted(name, x, s)
      \/ kind = "get" /\ call[c].status = 0 /\ Answering(name, s)
  BY CallShape
<1>2. InitTriggers(c) \/ AsyncMode(c) => kind = "boot"
  BY DEF InitTriggers, AsyncMode
<1> SUFFICES Proper(kind, name, s)
  BY <1>1, <1>2
<1> HIDE DEF s, kind, name, x
<1>3. CASE kind = "boot" /\ s = <<PutTwo(1), SetLcr(191), PutTwo(16), ShadowAcr(0)>>
  BY <1>3 DEF Proper, Owns, Orderly, Reads, FcrWrites, Access, PutTwo, SetLcr, ShadowAcr
<1>4. CASE s = << >> \/ s = <<ReadFcr, RaiseFcr("async")>>
  BY <1>4, BoardProper
<1>5. CASE kind = "set" /\ Accepted(name, x, s)
  <2>1. ASSUME NEW r \in {"TCR", "TTL", "RTL", "FLR"}, NEW y, name = OwnerOf[r], s = SetOne(r, y)
        PROVE  Proper(kind, name, s)
    BY <1>5, <2>1, PutsProper
  <2>2. ASSUME NEW r \in {"MDM", "EXTH"}, NEW q \in {"CKS", "EXT"}, NEW y, NEW z,
               name = OwnerOf[r], name = OwnerOf[q], s = SetTwo(r, y, q, z)
        PROVE  Proper(kind, name, s)
    BY <1>5, <2>2, PutsProper
  <2>3. CASE name \in {"sample_rate", "tx_trigger", "rx_trigger", "frame_length"}
    BY <1>5, <2>1, <2>3 DEF Accepted, OwnerOf
  <2>4. CASE name = "isochronous"
    <3>1. s = SetTwo("MDM", Mdm(x), "CKS", Cks(x))
      BY <1>5, <2>4 DEF Accepted
    <3> QED BY <2>2, <2>4, <3>1 DEF OwnerOf
  <2>5. CASE name = "external_transmit"
    <3>1. s = SetTwo("EXTH", IF x = 0 THEN 0 ELSE 128 + x \div 256, "EXT", x)
      BY <1>5, <2>5 DEF Accepted
    <3> QED BY <2>2, <2>5, <3>1 DEF OwnerOf
  <2>6. CASE name \notin {"sample_rate", "tx_trigger", "rx_trigger", "frame_length",
                          "isochronous", "external_transmit"}
    BY <1>5, <2>6, BoardProper DEF Accepted
  <2> QED BY <2>3, <2>4, <2>5, <2>6
<1>6. CASE kind = "get" /\ Answering(name, s)
  <2>1. \A r \in {"TTL", "RTL", "CKS", "FLR"} : Proper("get", name, GetOne(r))
    BY GetOneProper DEF IcrReg
  <2> QED BY <1>6, <2>1, GetTwoProper, BoardProper DEF Answering
<1> QED BY <1>1, <1>2, <1>3, <1>4, <1>5, <1>6

(* Who makes an access that writes a setting is its setter.                *)
LEMMA Owning ==
  ASSUME IInv, Served, Attributed, NEW c \in Caller, Busy(c), NEW i \in 1..Len(call[c].steps)
  PROVE  LET a == call[c].steps[i] IN
         /\ a.io \in {"put", "write_fcr"} => a.reg \in DOMAIN OwnerOf /\ Sets(c, OwnerOf[a.reg])
         /\ a.io = "put_acr" => call[c].kind = "get" \/ Sets(c, "rs485")
         /\ a.io = "shadow" => call[c].kind # "get"
<1>1. call[c].steps # << >>
  OBVIOUS
<1>2. Owns(call[c].kind, call[c].name, call[c].steps)
  BY ProperCalls DEF Proper
<1>3. call[c].kind \in {"set", "get"} => call[c].status = 0
  BY <1>1, ProperCalls
<1> QED BY <1>2, <1>3 DEF Owns, Sets

-----------------------------------------------------------------------------
(* An access changes no setting but that of its call.                      *)

\* The 485 bit of ACR, and the bit of the FCR of this name.
Dtr(p) == (icr[p]["ACR"] \div 16) % 2 = 1
Bit(name, p) == FcrMask(name, p[2]) \in fcr[p[1]]

(* An indexed register changes under the setter it belongs to.             *)
LEMMA RegisterChanges ==
  ASSUME IInv, Served, Attributed, NEW c \in Caller, Perform(c),
         NEW p \in Port, NEW r \in IcrReg \ {"ACR"}, icr'[p][r] # icr[p][r]
  PROVE  p = At(c) /\ r \in DOMAIN OwnerOf /\ Sets(c, OwnerOf[r])
<1> DEFINE a == Pending(c)
<1>1. /\ Busy(c) /\ At(c) \in Port /\ call[c].pc \in 1..Len(call[c].steps)
      /\ a = call[c].steps[call[c].pc]
  BY PerformingAt DEF IInv
<1>2. /\ a.io \notin {"put", "put_acr"} => icr' = icr
      /\ a.io = "put" => a.reg \in IcrReg /\ icr' = [icr EXCEPT ![At(c)][a.reg] = a.val]
      /\ a.io = "put_acr" => icr' = [icr EXCEPT ![At(c)]["ACR"] = acr[At(c)] + a.val]
  BY PerformedPort DEF IInv
<1>3. icr \in [Port -> [IcrReg -> Byte]]
  BY DEF IInv, CallsInv, TypeOK
<1> HIDE DEF a
<1>4. a.io = "put" /\ a.reg = r /\ p = At(c)
  BY <1>1, <1>2, <1>3
<1>5. a.io \in {"put", "write_fcr"} => a.reg \in DOMAIN OwnerOf /\ Sets(c, OwnerOf[a.reg])
  BY <1>1, Owning
<1> QED BY <1>4, <1>5

(* What may be in ACR while a getter works, whatever its 485 bit.          *)
LEMMA DtrBits ==
  ASSUME NEW s \in {0, 16}, NEW x \in {s, s + 64}, NEW y \in {s, s + 64}
  PROVE  (x \div 16) % 2 = (y \div 16) % 2
<1>1. CASE s = 0
  BY <1>1
<1>2. CASE s = 16
  BY <1>2
<1> QED BY <1>1, <1>2

(* The 485 bit of ACR changes under set_rs485: the getters write it as     *)
(* port->ACR has it.                                                       *)
LEMMA DtrChanges ==
  ASSUME IInv, Served, Attributed, DtrHeld, NEW c \in Caller, Perform(c),
         NEW p \in Port, Dtr(p)' # Dtr(p)
  PROVE  p = At(c) /\ Sets(c, "rs485")
<1> DEFINE a == Pending(c)
<1>1. /\ Busy(c) /\ At(c) \in Port /\ call[c].pc \in 1..Len(call[c].steps)
      /\ a = call[c].steps[call[c].pc] /\ a \in Accesses
  BY PerformingAt DEF IInv
<1>2. /\ a.io \notin {"put", "put_acr"} => icr' = icr
      /\ a.io = "put" => a.reg \in IcrReg /\ icr' = [icr EXCEPT ![At(c)][a.reg] = a.val]
      /\ a.io = "put_acr" => icr' = [icr EXCEPT ![At(c)]["ACR"] = acr[At(c)] + a.val]
  BY PerformedPort DEF IInv
<1>3. icr \in [Port -> [IcrReg -> Byte]] /\ acr \in [Port -> {0, 16}] /\ "ACR" \in IcrReg
  BY DEF IInv, CallsInv, TypeOK, IcrReg
<1>4. a.io = "put" => a.reg # "ACR"
  BY <1>1, BusyShape DEF PutsOnce
<1>5. a.io = "put_acr" => a.val \in {0, 64}
  BY <1>1 DEF Accesses
<1>6. a.io = "put_acr" => call[c].kind = "get" \/ Sets(c, "rs485")
  BY <1>1, Owning
<1> HIDE DEF a
<1>7. icr'[p]["ACR"] # icr[p]["ACR"]
  BY DEF Dtr
<1>8. a.io = "put_acr" /\ p = At(c) /\ icr'[p]["ACR"] = acr[p] + a.val
  BY <1>1, <1>2, <1>3, <1>4, <1>7
<1>9. CASE call[c].kind = "get"
  <2>1. icr[p]["ACR"] \in {acr[p], acr[p] + 64}
    BY <1>1, <1>8, <1>9 DEF DtrHeld
  <2>2. icr'[p]["ACR"] \in {acr[p], acr[p] + 64}
    BY <1>3, <1>5, <1>8
  <2>3. acr[p] \in {0, 16}
    BY <1>3
  <2> QED BY <2>1, <2>2, <2>3, DtrBits DEF Dtr
<1> QED BY <1>6, <1>8, <1>9

(* A bit of the FCR changes under the setter it belongs to: the other      *)
(* accesses write it back as they read it.                                 *)
LEMMA BitChanges ==
  ASSUME IInv, Served, Attributed, FcrFollowsCall, NEW c \in Caller, Perform(c),
         NEW p \in Port, NEW name \in {"rs485", "echo"}, Bit(name, p)' # Bit(name, p)
  PROVE  p = At(c) /\ Sets(c, OwnerOf[name])
<1> DEFINE s == call[c].steps
           n == call[c].pc
           bit == FcrMask(name, p[2])
<1>1. /\ Busy(c) /\ At(c) \in Port /\ s \in Seq(Accesses) /\ n \in 1..Len(s) /\ Pending(c) = s[n]
  BY PerformingAt DEF IInv
<1>2. FcrOrder(s)
  BY <1>1, BusyShape
<1>3. fcr'[p[1]] # fcr[p[1]]
  BY DEF Bit
<1>4. WritesBack(c) /\ Pending(c).io \in FcrWrites
  BY <1>3, PerformedBoard DEF IInv
<1>5. p[1] = At(c)[1] /\ p[1] \in Card /\ p[2] \in {0, 1}
  BY <1>3, <1>4 DEF WritesBack, Port
<1>6. bit \in FcrBit /\ bit[1] # "clock"
  BY <1>5 DEF FcrMask, FcrBit, FcrName
<1>7. bit \in Meant(c, n)
  <2> SUFFICES ASSUME bit \notin Meant(c, n) PROVE FALSE
    OBVIOUS
  <2>1. bit \notin Meant(c, n - 1) /\ ~Aims(c, bit)
    BY <1>1 DEF Meant, Aims
  <2>2. PICK i \in 1..n - 1 : s[i].io = "read_fcr"
    BY <1>1, <1>2, <1>4 DEF FcrOrder
  <2>3. bit \in call[c].fcr <=> bit \in fcr[p[1]]
    BY <1>1, <1>5, <1>6, <2>1, <2>2 DEF FcrFollowsCall
  <2>4. bit \in fcr'[p[1]] <=> bit \in call[c].fcr
    BY <1>4, <1>5, <1>6, <2>1 DEF WritesBack
  <2> QED BY <2>3, <2>4 DEF Bit
<1>8. PICK j \in 1..n : s[j].io \in {"write_fcr", "raise_fcr"} /\ bit = FcrMask(s[j].reg, At(c)[2])
  BY <1>7 DEF Meant
<1>9. s[j].reg = name /\ At(c)[2] = p[2] /\ j \in 1..Len(s)
  BY <1>1, <1>8, Bits
<1>10. s[j].io = "write_fcr"
  BY <1>2, <1>8, <1>9 DEF FcrOrder
<1>11. Sets(c, OwnerOf[s[j].reg])
  BY <1>1, <1>9, <1>10, Owning
<1>12. p = At(c)
  BY <1>1, <1>5, <1>9 DEF Port
<1> QED BY <1>9, <1>11, <1>12

(* The settings of a port, one by one.                                     *)
LEMMA SettingParts ==
  ASSUME NEW p \in Port
  PROVE  /\ Setting(p)["sample_rate"] = icr[p]["TCR"]
         /\ Setting(p)["tx_trigger"] = icr[p]["TTL"] % 128
         /\ Setting(p)["rx_trigger"] = icr[p]["RTL"] % 128
         /\ Setting(p)["rs485"] = Rs485(p)
         /\ Setting(p)["isochronous"] = Isochronous(p)
         /\ Setting(p)["external_transmit"] = ExternalTransmit(p)
         /\ Setting(p)["frame_length"] = icr[p]["FLR"] + 1
         /\ Setting(p)["echo_cancel"] = IF Bit("echo", p) THEN 1 ELSE 0
BY DEF Setting, Bit, EchoOf, FcrMask

(* A setting changes under its setter.                                     *)
LEMMA PerformChanges ==
  ASSUME IInv, Served, Attributed, DtrHeld, FcrFollowsCall, NEW c \in Caller, Perform(c),
         NEW p \in Port, NEW n \in SettingName, ~(p = At(c) /\ Sets(c, n))
  PROVE  Setting(p)'[n] = Setting(p)[n]
<1>1. \A r \in IcrReg \ {"ACR"} : r \in DOMAIN OwnerOf /\ OwnerOf[r] = n => icr'[p][r] = icr[p][r]
  BY RegisterChanges
<1>2. \A m \in {"rs485", "echo"} : OwnerOf[m] = n => Bit(m, p)' = Bit(m, p)
  BY BitChanges
<1>3. CASE n \in {"sample_rate", "tx_trigger", "rx_trigger", "frame_length"}
  <2>1. {"TCR", "TTL", "RTL", "FLR"} \subseteq IcrReg \ {"ACR"}
    BY DEF IcrReg
  <2> QED BY <1>1, <1>3, <2>1 DEF OwnerOf, Setting
<1>4. CASE n = "isochronous"
  <2>1. icr'[p]["CKS"] = icr[p]["CKS"] /\ icr'[p]["MDM"] = icr[p]["MDM"]
    BY <1>1, <1>4 DEF IcrReg, OwnerOf
  <2>2. Isochronous(p)' = Isochronous(p)
    BY <2>1 DEF Isochronous
  <2> QED BY <1>4, <2>2 DEF Setting
<1>5. CASE n = "external_transmit"
  <2>1. icr'[p]["EXTH"] = icr[p]["EXTH"] /\ icr'[p]["EXT"] = icr[p]["EXT"]
    BY <1>1, <1>5 DEF IcrReg, OwnerOf
  <2>2. ExternalTransmit(p)' = ExternalTransmit(p)
    BY <2>1 DEF ExternalTransmit
  <2> QED BY <1>5, <2>2 DEF Setting
<1>6. CASE n = "rs485"
  <2>1. Bit("rs485", p)' = Bit("rs485", p)
    BY <1>2, <1>6 DEF OwnerOf
  <2>2. Dtr(p)' = Dtr(p)
    BY <1>6, DtrChanges
  <2>3. Rs485(p)' = Rs485(p)
    BY <2>1, <2>2 DEF Rs485, Bit, Dtr, FcrMask
  <2> QED BY <1>6, <2>3 DEF Setting
<1>7. CASE n = "echo_cancel"
  <2>1. Bit("echo", p)' = Bit("echo", p)
    BY <1>2, <1>7 DEF OwnerOf
  <2> QED BY <1>7, <2>1 DEF Setting, EchoOf, Bit, FcrMask
<1> QED BY <1>3, <1>4, <1>5, <1>6, <1>7 DEF SettingName

-----------------------------------------------------------------------------
(* An access keeps what is known of the settings.                          *)

(* ICR reads are on when a getter reads.                                   *)
LEMMA ReadsOn ==
  ASSUME IInv, Served, Attributed, AcrFollowsCall, NEW c \in Caller, Perform(c), Pending(c).io = "get"
  PROVE  IcrRead(At(c))
<1> DEFINE s == call[c].steps
           n == call[c].pc
           p == At(c)
<1>1. /\ Busy(c) /\ p \in Port /\ n \in 1..Len(s) /\ Pending(c) = s[n]
  BY PerformingAt DEF IInv
<1>2. Reads(s)
  BY <1>1, ProperCalls DEF Proper
<1>3. PICK i \in 1..n-1 : /\ s[i].io = "put_acr" /\ s[i].val = 64
                          /\ \A j \in i+1..n-1 : s[j].io \notin AcrIo
  BY <1>1, <1>2 DEF Reads
<1>4. icr[p]["ACR"] = acr[p] + 64
  BY <1>1, <1>3 DEF AcrFollowsCall
<1>5. acr[p] \in {0, 16}
  BY <1>1 DEF IInv, CallsInv, TypeOK
<1>6. icr[p]["ACR"] \in {64, 80}
  BY <1>4, <1>5
<1> QED BY <1>6 DEF IcrRead

(* The bytes a call has read, after its access.                            *)
LEMMA PerformedGot ==
  ASSUME CallsInv, NEW c \in Caller, Perform(c)
  PROVE  /\ Pending(c).io # "get" => call'[c].got = call[c].got
         /\ Pending(c).io = "get" /\ IcrRead(At(c)) =>
              call'[c].got = <<call[c].got[2], icr[At(c)][Pending(c).reg]>>
<1> DEFINE a == Pending(c)
           p == At(c)
<1>1. /\ Busy(c) /\ call[c].pc \in 1..Len(call[c].steps)
      /\ Framed(call[c].steps) /\ a = call[c].steps[call[c].pc] /\ a \in Accesses
  BY PerformingAt
<1>2. call \in [Caller -> CallRecord]
  BY DEF CallsInv, TypeOK
<1>3. CASE GetStep(c)
  <2>1. a.io = "get"
    BY <1>3 DEF GetStep, Doing
  <2>2. Cleared(call[c].steps, call[c].pc) /\ Selected(call[c].steps, call[c].pc, a.reg)
    BY <1>1, <2>1 DEF Framed, IcrIo
  <2>3. a.reg \in IcrReg
    BY <1>1, <2>1 DEF Accesses, IcrIo
  <2>4. lcr[p] = 0 /\ spr[p] = a.reg
    BY <1>1, <2>2, <2>3 DEF CallsInv, LcrFollowsCall, SprFollowsCall
  <2>5. ASSUME IcrRead(p)
        PROVE  call' = [call EXCEPT ![c].got = <<@[2], icr[p][a.reg]>>, ![c].pc = @ + 1]
    <3>1. Indexed(p) /\ icr[p][spr[p]] = icr[p][a.reg]
      BY <2>4 DEF Indexed
    <3>2. PICK v \in {icr[p][spr[p]]} : call' = [call EXCEPT ![c].got = <<@[2], v>>, ![c].pc = @ + 1]
      BY <1>3, <2>5, <3>1 DEF GetStep
    <3> QED BY <3>1, <3>2
  <2>6. ASSUME IcrRead(p) PROVE call'[c].got = <<call[c].got[2], icr[p][a.reg]>>
    <3> DEFINE record == [call[c] EXCEPT !.got = <<@[2], icr[p][a.reg]>>, !.pc = @ + 1]
    <3>1. call' = [call EXCEPT ![c] = record]
      BY <2>5, <2>6
    <3>2. record.got = <<call[c].got[2], icr[p][a.reg]>>
      BY <1>2 DEF CallRecord
    <3> HIDE DEF record
    <3> QED BY <1>2, <3>1, <3>2
  <2> QED BY <2>1, <2>6
<1>4. CASE SaveLcrStep(c)
  <2>1. a.io # "get" /\ call' = [call EXCEPT ![c].lcr = lcr[p], ![c].pc = @ + 1]
    BY <1>4 DEF SaveLcrStep, Doing
  <2> QED BY <1>2, <2>1 DEF CallRecord
<1>5. CASE ReadFcrStep(c)
  <2>1. a.io # "get" /\ call' = [call EXCEPT ![c].fcr = fcr[p[1]], ![c].pc = @ + 1]
    BY <1>5 DEF ReadFcrStep, Doing
  <2> QED BY <1>2, <2>1 DEF CallRecord
<1>6. CASE a.io # "get" /\ Advance(c)
  BY <1>2, <1>6 DEF Advance, CallRecord
<1>7. \/ SaveLcrStep(c) \/ ReadFcrStep(c) \/ GetStep(c) \/ (a.io # "get" /\ Advance(c))
  BY DEF Perform, ClearLcrStep, RestoreLcrStep, SetLcrStep, SelectStep, PutStep,
         PutAcrStep, ShadowStep, PutTwoStep, WriteFcrStep, RaiseFcrStep,
         PinsStep, WriteBackStep, StoreFcr, Doing
<1> QED BY <1>3, <1>4, <1>5, <1>6, <1>7

(* What has been read stays what the registers hold.                       *)
LEMMA PerformKeepsGets ==
  ASSUME IInv, Served, Attributed, AcrFollowsCall, GetsKept, NEW c \in Caller, Perform(c)
  PROVE  GetsKept'
<1> DEFINE a == Pending(c)
           p == At(c)
           s == call[c].steps
           n == call[c].pc
<1>1. /\ Busy(c) /\ p \in Port /\ s \in Seq(Accesses) /\ n \in 1..Len(s) /\ a = s[n] /\ a \in Accesses
  BY PerformingAt DEF IInv
<1>2. /\ \A d \in Caller : SameCall(d) /\ (d # c => call'[d] = call[d])
      /\ call'[c].pc = n + 1
  BY PerformedCalls DEF IInv
<1>3. /\ a.io \notin {"put", "put_acr"} => icr' = icr
      /\ a.io = "put" => a.reg \in IcrReg /\ icr' = [icr EXCEPT ![p][a.reg] = a.val]
      /\ a.io = "put_acr" => icr' = [icr EXCEPT ![p]["ACR"] = acr[p] + a.val]
  BY PerformedPort DEF IInv
<1>4. icr \in [Port -> [IcrReg -> Byte]]
  BY DEF IInv, CallsInv, TypeOK
<1>5. Reads(s)
  BY <1>1, ProperCalls DEF Proper
<1>6. /\ a.io # "get" => call'[c].got = call[c].got
      /\ a.io = "get" => call'[c].got = <<call[c].got[2], icr[p][a.reg]>>
  BY PerformedGot, ReadsOn DEF IInv
<1> DEFINE Kept(d, got, regs, m) ==
      \A i \in 1..m : LastGet(call[d].steps, i, m) =>
        /\ got[2] = regs[call[d].steps[i].reg]
        /\ \A j \in 1..i-1 : LastGet(call[d].steps, j, i - 1) => got[1] = regs[call[d].steps[j].reg]
<1>7. \A d \in Caller : Busy(d) => Kept(d, call[d].got, icr[At(d)], call[d].pc - 1)
  BY DEF GetsKept
<1>8. ASSUME NEW d \in Caller, Busy(d), d # c
      PROVE  Kept(d, call'[d].got, icr'[At(d)], call'[d].pc - 1)
  <2>1. At(d) # p /\ At(d) \in Port
    BY <1>1, <1>8 DEF IInv, CallsInv, Exclusive, TypeOK, CallRecord, At
  <2>2. icr'[At(d)] = icr[At(d)]
    BY <1>1, <1>3, <1>4, <2>1
  <2>3. call'[d] = call[d]
    BY <1>2, <1>8
  <2> HIDE DEF Kept
  <2> QED BY <1>7, <1>8, <2>2, <2>3
<1>9. Kept(c, call'[c].got, icr'[p], n)
  <2> SUFFICES ASSUME NEW i \in 1..n, LastGet(s, i, n)
               PROVE  /\ call'[c].got[2] = icr'[p][s[i].reg]
                      /\ \A j \in 1..i-1 : LastGet(s, j, i - 1) => call'[c].got[1] = icr'[p][s[j].reg]
    OBVIOUS
  <2>1. s[i].io = "get" /\ i \in 1..Len(s) /\ \A j \in i+1..n : s[j].io # "get"
    BY <1>1 DEF LastGet
  <2>2. /\ a.io # "put"
        /\ \A j \in 1..Len(s) : s[j].io = "get" => s[j].reg \in IcrReg \ {"ACR"}
    BY <1>1, <1>5, <2>1 DEF Reads
  <2>3. \A r \in IcrReg \ {"ACR"} : icr'[p][r] = icr[p][r]
    <3> HIDE DEF a, p
    <3> QED BY <1>1, <1>3, <1>4, <2>2
  <2>4. CASE a.io = "get"
    <3>1. i = n /\ i - 1 = n - 1
      BY <1>1, <2>1, <2>4
    <3>2. call'[c].got[2] = icr[p][s[i].reg] /\ call'[c].got[1] = call[c].got[2]
      BY <1>1, <1>6, <2>4, <3>1
    <3>3. ASSUME NEW j \in 1..i-1, LastGet(s, j, i - 1) PROVE call'[c].got[1] = icr'[p][s[j].reg]
      <4>1. call[c].got[2] = icr[p][s[j].reg]
        BY <1>1, <1>7, <3>1, <3>3
      <4>2. s[j].io = "get" /\ j \in 1..Len(s)
        BY <1>1, <3>3 DEF LastGet
      <4> QED BY <2>2, <2>3, <3>2, <4>1, <4>2
    <3> QED BY <2>1, <2>2, <2>3, <3>2, <3>3
  <2>5. CASE a.io # "get"
    <3>1. i \in 1..n-1 /\ LastGet(s, i, n - 1)
      BY <1>1, <2>1, <2>5 DEF LastGet
    <3>2. /\ call[c].got[2] = icr[p][s[i].reg]
          /\ \A j \in 1..i-1 : LastGet(s, j, i - 1) => call[c].got[1] = icr[p][s[j].reg]
      BY <1>1, <1>7, <3>1
    <3>3. \A j \in 1..i-1 : LastGet(s, j, i - 1) => s[j].io = "get" /\ j \in 1..Len(s)
      BY <1>1 DEF LastGet
    <3> QED BY <1>6, <2>1, <2>2, <2>3, <2>5, <3>2, <3>3
  <2> QED BY <2>4, <2>5
<1>10. \A d \in Caller : Busy(d)' =>
         Busy(d) /\ At(d)' = At(d) /\ call'[d].steps = call[d].steps
  BY <1>2 DEF SameCall
<1>11. call'[c].pc - 1 = n
  BY <1>1, <1>2
<1>12. \A d \in Caller : Busy(d) => Kept(d, call'[d].got, icr'[At(d)], call'[d].pc - 1)
  <2> HIDE DEF Kept, n, p
  <2> QED BY <1>8, <1>9, <1>11 DEF p
<1> QED BY <1>10, <1>12 DEF GetsKept

(* A write of the FCR gives its bit the value that was asked for.          *)
LEMMA WrittenBit ==
  ASSUME CallsInv, NEW c \in Caller, Perform(c), Pending(c).io = "write_fcr"
  PROVE  FcrMask(Pending(c).reg, At(c)[2]) \in fcr'[At(c)[1]] <=> Pending(c).val # 0
<1> DEFINE a == Pending(c)
           k == At(c)[1]
           mask == FcrMask(a.reg, At(c)[2])
           bits == IF a.val # 0 THEN call[c].fcr \cup {mask} ELSE call[c].fcr \ {mask}
<1>1. k \in Card /\ fcr \in [Card -> SUBSET FcrBit]
  BY PerformingAt DEF CallsInv, TypeOK
<1>2. WriteFcrStep(c)
  BY DEF Perform, SaveLcrStep, ClearLcrStep, RestoreLcrStep, SetLcrStep, SelectStep, PutStep,
         PutAcrStep, GetStep, ShadowStep, PutTwoStep, ReadFcrStep, RaiseFcrStep,
         PinsStep, WriteBackStep, Doing
<1>3. fcr' = [fcr EXCEPT ![k] = bits]
  BY <1>2 DEF WriteFcrStep, StoreFcr
<1>4. fcr'[k] = bits
  BY <1>1, <1>3
<1> HIDE DEF mask
<1>5. mask \in bits <=> a.val # 0
  OBVIOUS
<1> QED BY <1>4, <1>5 DEF mask

(* The shadow, the bits of the FCR and ACR under a getter follow the call. *)
LEMMA PerformKeepsLanded ==
  ASSUME IInv, Served, Attributed, AloneOnCard, ShadowLands, FcrLands, DtrHeld,
         NEW c \in Caller, Perform(c)
  PROVE  ShadowLands' /\ FcrLands' /\ DtrHeld'
<1> DEFINE a == Pending(c)
           p == At(c)
           s == call[c].steps
           n == call[c].pc
<1>1. /\ Busy(c) /\ p \in Port /\ s \in Seq(Accesses) /\ n \in 1..Len(s) /\ a = s[n] /\ a \in Accesses
      /\ p[1] \in Card
  BY PerformingAt DEF IInv
<1>2. /\ \A d \in Caller : SameCall(d) /\ (d # c => call'[d] = call[d])
      /\ call'[c].pc = n + 1
  BY PerformedCalls DEF IInv
<1>3. /\ a.io \notin {"put", "put_acr"} => icr' = icr
      /\ a.io = "put" => a.reg \in IcrReg /\ icr' = [icr EXCEPT ![p][a.reg] = a.val]
      /\ a.io = "put_acr" => icr' = [icr EXCEPT ![p]["ACR"] = acr[p] + a.val]
      /\ acr' = IF a.io = "shadow" THEN [acr EXCEPT ![p] = a.val] ELSE acr
  BY PerformedPort DEF IInv
<1>4. icr \in [Port -> [IcrReg -> Byte]] /\ acr \in [Port -> {0, 16}] /\ "ACR" \in IcrReg
  BY DEF IInv, CallsInv, TypeOK, IcrReg
<1>5. Orderly(s)
  BY <1>1, ProperCalls DEF Proper
<1>6. /\ \A q \in Port : q # p => icr'[q] = icr[q] /\ acr'[q] = acr[q]
      /\ a.io = "shadow" => acr'[p] = a.val
      /\ a.io # "shadow" => acr' = acr
  BY <1>1, <1>3, <1>4
<1>7. \A d \in Caller : Busy(d)' => Busy(d) /\ At(d)' = At(d) /\ call'[d].steps = call[d].steps
                                    /\ call'[d].kind = call[d].kind
  BY <1>2 DEF SameCall
<1>8. \A d \in Caller : Busy(d) /\ d # c => At(d) # p /\ At(d) \in Port /\ call'[d] = call[d]
                                            /\ At(d)[1] # p[1] /\ At(d)[1] \in Card
  BY <1>1, <1>2 DEF IInv, CallsInv, Exclusive, AloneOnCard, TypeOK, CallRecord, At, Port
<1>9. call'[c].pc - 1 = n /\ call[c].pc - 1 = n - 1
  BY <1>1, <1>2
<1>10. ShadowLands'
  <2> SUFFICES ASSUME NEW d \in Caller, Busy(d)', NEW i \in 1..call'[d].pc - 1,
                      call'[d].steps[i].io = "shadow"
               PROVE  acr'[At(d)'] = call'[d].steps[i].val
    BY DEF ShadowLands
  <2>1. CASE d # c
    BY <1>6, <1>7, <1>8, <2>1 DEF ShadowLands
  <2>2. CASE d = c /\ i = n
    BY <1>1, <1>6, <1>7, <2>2
  <2>3. CASE d = c /\ i # n
    <3>1. i \in 1..n-1 /\ i \in 1..Len(s) /\ s[i].io = "shadow"
      BY <1>1, <1>7, <1>9, <2>3
    <3>2. a.io # "shadow"
      BY <1>1, <1>5, <2>3, <3>1 DEF Orderly
    <3>3. acr[p] = s[i].val
      BY <1>1, <1>9, <3>1 DEF ShadowLands
    <3> QED BY <1>6, <1>7, <2>3, <3>2, <3>3
  <2> QED BY <2>1, <2>2, <2>3
<1>11. FcrLands'
  <2>1. /\ a.io \notin FcrWrites => fcr' = fcr
        /\ a.io \in FcrWrites => WritesBack(c) \/ fcr' = fcr
    BY PerformedBoard DEF IInv
  <2>2. \A k \in Card : k # p[1] => fcr'[k] = fcr[k]
    BY <2>1 DEF WritesBack
  <2> SUFFICES ASSUME NEW d \in Caller, Busy(d)', NEW i \in 1..call'[d].pc - 1,
                      call'[d].steps[i].io = "write_fcr"
               PROVE  FcrMask(call'[d].steps[i].reg, At(d)'[2]) \in fcr'[At(d)'[1]]
                        <=> call'[d].steps[i].val # 0
    BY DEF FcrLands
  <2>3. CASE d # c
    BY <1>7, <1>8, <2>2, <2>3 DEF FcrLands
  <2>4. CASE d = c /\ i = n
    BY <1>1, <1>7, <2>4, WrittenBit DEF IInv
  <2>5. CASE d = c /\ i # n
    <3>1. i \in 1..n-1 /\ i \in 1..Len(s) /\ s[i].io = "write_fcr" /\ i <= n
      BY <1>1, <1>7, <1>9, <2>5
    <3>2. a.io \notin FcrWrites
      BY <1>1, <1>5, <2>5, <3>1 DEF Orderly
    <3>3. FcrMask(s[i].reg, p[2]) \in fcr[p[1]] <=> s[i].val # 0
      BY <1>1, <1>9, <3>1 DEF FcrLands
    <3> QED BY <1>7, <2>1, <2>5, <3>2, <3>3
  <2> QED BY <2>3, <2>4, <2>5
<1>12. DtrHeld'
  <2> SUFFICES ASSUME NEW d \in Caller, Busy(d)', call'[d].kind = "get"
               PROVE  icr'[At(d)']["ACR"] \in {acr'[At(d)'], acr'[At(d)'] + 64}
    BY DEF DtrHeld
  <2>1. CASE d # c
    BY <1>6, <1>7, <1>8, <2>1 DEF DtrHeld
  <2>2. CASE d = c
    <3>1. Busy(c) /\ At(d)' = p /\ call[c].kind = "get"
      BY <1>7, <2>2
    <3>2. /\ a.io \notin {"put", "shadow"}
          /\ a.io = "put_acr" => a.val \in {0, 64}
      BY <1>1, <3>1, Owning, SMTT(30) DEF Sets, Accesses
    <3>3. acr' = acr /\ icr[p]["ACR"] \in {acr[p], acr[p] + 64} /\ acr[p] \in {0, 16}
      BY <1>1, <1>4, <1>6, <3>1, <3>2 DEF DtrHeld
    <3>4. CASE a.io = "put_acr"
      <4>1. icr'[p]["ACR"] = acr[p] + a.val
        <5> HIDE DEF a, p
        <5> QED BY <1>1, <1>3, <1>4, <3>4
      <4> QED BY <3>1, <3>2, <3>3, <3>4, <4>1
    <3>5. CASE a.io # "put_acr"
      BY <1>3, <3>1, <3>2, <3>3, <3>5
    <3> QED BY <3>4, <3>5
  <2> QED BY <2>1, <2>2
<1> QED BY <1>10, <1>11, <1>12

(* What the loader's calls set.                                            *)
LEMMA LoaderSets ==
  ASSUME IInv, Served, Attributed, NEW k \in Card, Busy(k), NEW n \in SettingName
  PROVE  LET i == (boot[k] % StepsPerPort) + 1 IN
         /\ Sets(k, n) => n \in DOMAIN PlaceOf /\ i = PlaceOf[n]
         /\ n \in DOMAIN PlaceOf /\ i = PlaceOf[n] =>
              /\ call[k].kind = "set" /\ call[k].name = n
              /\ n \in DOMAIN Defaults => call[k].arg = Defaults[n] /\ Sets(k, n)
<1> DEFINE i == (boot[k] % StepsPerPort) + 1
           r == serialfc_port_new[i]
<1>1. /\ i \in 1..StepsPerPort
      /\ call[k].kind = r.kind /\ call[k].name = r.name /\ call[k].arg = r.arg
  BY LoaderAt
<1> HIDE DEF i
<1>2. /\ r.name = "rs485" <=> i = 2
      /\ r.name = "sample_rate" <=> i = 3
      /\ r.name = "tx_trigger" <=> i = 4
      /\ r.name = "rx_trigger" <=> i = 5
      /\ r.name = "echo_cancel" <=> i = 7
      /\ r.name = "isochronous" <=> i = 8
      /\ r.name = "frame_length" <=> i = 9
      /\ r.name # "external_transmit"
      /\ i \in 2..9 => r.kind = "set"
      /\ i \in {2, 7} => r.arg = 0
      /\ i = 3 => r.arg = 16
      /\ i \in {4, 5} => r.arg = 32
      /\ i = 8 => r.arg = -1
      /\ i = 9 => r.arg = 1
  BY <1>1, StartUpCalls
<1>3. n # "external_transmit" => n \in DOMAIN PlaceOf
  BY DEF PlaceOf, SettingName
<1>4. n \in DOMAIN PlaceOf => (r.name = n <=> i = PlaceOf[n]) /\ PlaceOf[n] \in 2..9
  BY <1>2 DEF PlaceOf
<1>5. ASSUME n \in DOMAIN Defaults, r.name = n PROVE n \in DOMAIN PlaceOf /\ r.arg = Defaults[n]
  BY <1>2, <1>5 DEF Defaults, PlaceOf, SettingName
<1>6. ASSUME n \in DOMAIN Defaults, r.name = n PROVE call[k].status = 0
  <2>1. k \in Caller
    BY DEF Caller
  <2>2. PICK h \in Handlers(call[k]) : call[k].status = h.status
    BY <2>1 DEF Served
  <2>3. h \in Setter(n, Defaults[n])
    BY <1>1, <1>2, <1>4, <1>5, <1>6, <2>2 DEF Handlers
  <2>4. n # "frame_length" \/ ~(Frev < 32)
    BY <1>6 DEF Defaults
  <2>5. h.status = 0
    BY <1>6, <2>3, <2>4, SMTT(30) DEF Setter, Defaults, SettingName, Do, fastcom_set_sample_rate_fscc,
       fastcom_set_tx_trigger_fscc, fastcom_set_rx_trigger_fscc, fastcom_set_rs485_fscc,
       fastcom_set_isochronous_fscc, fastcom_set_frame_length_fscc, fastcom_set_echo_cancel_fscc
  <2> QED BY <2>2, <2>5
<1>7. Sets(k, n) => n \in DOMAIN PlaceOf /\ i = PlaceOf[n]
  BY <1>1, <1>2, <1>3, <1>4 DEF Sets
<1>8. n \in DOMAIN PlaceOf /\ i = PlaceOf[n] =>
        /\ call[k].kind = "set" /\ call[k].name = n
        /\ n \in DOMAIN Defaults => call[k].arg = Defaults[n] /\ Sets(k, n)
  BY <1>1, <1>2, <1>4, <1>5, <1>6 DEF Sets
<1> QED BY <1>7, <1>8 DEF i

(* A setting its setter is at is not one the start-up has been through.    *)
LEMMA SetterOfUnready ==
  ASSUME IInv, Served, Attributed, NEW c \in Caller, Busy(c), ~Ready(At(c)),
         NEW n \in SettingName, Sets(c, n)
  PROVE  n \in DOMAIN PlaceOf /\ ~Programmed(At(c), PlaceOf[n])
<1>1. c \in Card
  BY DEF Attributed, Caller
<1> DEFINE i  == (boot[c] % StepsPerPort) + 1
           ch == At(c)[2]
<1>2. /\ ch \in {0, 1} /\ At(c) = <<c, ch>> /\ i \in 1..StepsPerPort /\ boot[c] \in Nat
      /\ boot[c] + 1 = ch * StepsPerPort + i
  BY <1>1, LoaderAt
<1>3. n \in DOMAIN PlaceOf /\ i = PlaceOf[n]
  BY <1>1, LoaderSets
<1> HIDE DEF i
<1>4. ch * StepsPerPort \in Int
  BY <1>2, StartUpLength
<1>5. ~(boot[c] >= ch * StepsPerPort + i)
  BY <1>2, <1>4
<1> QED BY <1>2, <1>3, <1>5 DEF Programmed

(* What a setting needs to be whole, or to have its default, stands.       *)
LEMMA PerformKeepsWhole ==
  ASSUME IInv, Served, Attributed, DtrHeld, FcrFollowsCall, Whole, DefaultsGiven,
         NEW c \in Caller, Perform(c)
  PROVE  Whole' /\ DefaultsGiven'
<1>1. \A d \in Caller : At(d)' = At(d) /\ \A n : Sets(d, n)' = Sets(d, n)
  BY PerformedCalls DEF IInv, SameCall, Sets
<1>2. boot' = boot
  BY PerformedPort DEF IInv
<1>3. \A p \in Port, m \in Int : Programmed(p, m)' = Programmed(p, m) /\ Ready(p)' = Ready(p)
  BY <1>2 DEF Programmed, Ready
<1>4. \A n \in DOMAIN PlaceOf : PlaceOf[n] \in Int
  BY DEF PlaceOf
<1>5. Whole'
  <2> SUFFICES ASSUME NEW p \in Port, NEW n \in {"rs485", "isochronous", "external_transmit"},
                      n \in DOMAIN PlaceOf => Programmed(p, PlaceOf[n])',
                      \A d \in Caller : At(d)' = p => ~Sets(d, n)'
               PROVE  Setting(p)'[n] # Torn
    BY DEF Whole, Torn
  <2>1. \A d \in Caller : At(d) = p => ~Sets(d, n)
    BY <1>1
  <2>2. n \in DOMAIN PlaceOf => Programmed(p, PlaceOf[n])
    BY <1>3, <1>4
  <2>3. Setting(p)[n] # Torn
    BY <2>1, <2>2 DEF Whole
  <2>4. Setting(p)'[n] = Setting(p)[n]
    BY <2>1, PerformChanges DEF SettingName
  <2> QED BY <2>3, <2>4
<1>6. DefaultsGiven'
  <2> SUFFICES ASSUME NEW p \in Port, NEW n \in DOMAIN Defaults, ~Ready(p)', Programmed(p, PlaceOf[n])'
               PROVE  Setting(p)'[n] = Defaults[n]
    BY DEF DefaultsGiven, Defaults
  <2>1. n \in SettingName /\ n \in DOMAIN PlaceOf
    BY DEF Defaults, PlaceOf, SettingName
  <2>2. ~Ready(p) /\ Programmed(p, PlaceOf[n])
    BY <1>3, <1>4, <2>1
  <2>3. Setting(p)[n] = Defaults[n]
    BY <2>2 DEF DefaultsGiven
  <2>4. ~(p = At(c) /\ Sets(c, n))
    <3>1. Busy(c)
      BY PerformingAt DEF IInv
    <3> QED BY <2>1, <2>2, <3>1, SetterOfUnready
  <2>5. Setting(p)'[n] = Setting(p)[n]
    BY <2>1, <2>4, PerformChanges
  <2> QED BY <2>3, <2>5
<1> QED BY <1>5, <1>6

-----------------------------------------------------------------------------
(* Calls at their end.                                                     *)

(* No two modes choose the same clocks.                                    *)
LEMMA ModesDiffer ==
  /\ \A m \in -1..10 : ModesOf(Cks(m)) = {m}
  /\ \A m \in -1..10 : Cks(m) \in Byte /\ Mdm(m) \in Byte
<1> DEFINE f == [m \in -1..10 |-> Cks(m)]
<1>1. /\ f[-1] = 0 /\ f[0] = 208 /\ f[1] = 144 /\ f[2] = 9 /\ f[3] = 217 /\ f[4] = 153
      /\ f[5] = 10 /\ f[6] = 218 /\ f[7] = 154 /\ f[8] = 219 /\ f[9] = 16 /\ f[10] = 25
  BY SMTT(30) DEF Cks, CksReceive, CksTransmit
<1>2. \A m \in -1..10 : m \in {-1, 0, 1, 2, 3, 4, 5, 6, 7, 8, 9, 10} /\ Cks(m) = f[m]
  OBVIOUS
<1> HIDE DEF f
<1>3. \A m, k \in -1..10 : f[m] = f[k] => m = k
  BY <1>1, <1>2, SMTT(60)
<1>4. ASSUME NEW m \in -1..10 PROVE ModesOf(Cks(m)) = {m}
  BY <1>2, <1>3 DEF ModesOf
<1>5. \A m \in -1..10 : Cks(m) \in Byte
  BY <1>1, <1>2 DEF Byte
<1>6. \A m \in -1..10 : Mdm(m) \in Byte
  BY DEF Mdm, Byte
<1> QED BY <1>4, <1>5, <1>6

(* What a set call that was accepted leaves in its setting.                *)
LEMMA SetDone ==
  ASSUME IInv, Served, Attributed, PutsLand, AcrFollowsCall, ShadowLands, FcrLands,
         NEW c \in Caller, call[c].pc = Len(call[c].steps) + 1,
         NEW n \in SettingName, Sets(c, n)
  PROVE  Setting(At(c))[n] = Wanted(n, call[c].arg) /\ Wanted(n, call[c].arg) \in Int \ {Torn}
<1> DEFINE s == call[c].steps
           x == call[c].arg
           p == At(c)
<1>1. Busy(c) /\ call[c].kind = "set" /\ call[c].name = n /\ call[c].status = 0
  BY DEF Sets
<1>2. Accepted(n, x, s)
  BY <1>1, CallShape DEF InitTriggers, AsyncMode
<1>3. p \in Port /\ x \in Int
  BY <1>1 DEF IInv, CallsInv, TypeOK, CallRecord, At
<1>4. \A i \in 1..Len(s) : i \in 1..call[c].pc - 1
  OBVIOUS
<1>5. \A i \in 1..Len(s) : s[i].io = "put" => icr[p][s[i].reg] = s[i].val
  BY <1>1, <1>4 DEF PutsLand
<1>13. \A i \in 1..Len(s) : s[i].io = "write_fcr" =>
          (FcrMask(s[i].reg, p[2]) \in fcr[p[1]] <=> s[i].val # 0)
  BY <1>1, <1>4 DEF FcrLands
<1>14. \A i \in 1..Len(s) : s[i].io = "shadow" => acr[p] = s[i].val
  BY <1>1, <1>4 DEF ShadowLands
<1>15. \A i \in 1..Len(s) :
          s[i].io = "put_acr" /\ (\A j \in i+1..Len(s) : s[j].io \notin AcrIo)
            => icr[p]["ACR"] = acr[p] + s[i].val
  <2>1. call[c].pc - 1 = Len(s)
    BY <1>1 DEF IInv, CallsInv, TypeOK, CallRecord
  <2> QED BY <1>1, <2>1 DEF AcrFollowsCall
<1> HIDE DEF s, x, p
<1> SUFFICES Setting(p)[n] = Wanted(n, x) /\ Wanted(n, x) \in Int \ {Torn}
  BY DEF p, x
<1>6. ASSUME NEW r, NEW y, s = SetOne(r, y) PROVE icr[p][r] = y % 256
  <2>1. Len(s) = 5 /\ s[4].io = "put" /\ s[4].reg = r /\ s[4].val = y % 256
    BY <1>6 DEF SetOne, Put, Access
  <2> QED BY <1>5, <2>1
<1>7. ASSUME NEW r, NEW y, NEW q, NEW z, s = SetTwo(r, y, q, z)
      PROVE  icr[p][r] = y % 256 /\ icr[p][q] = z % 256
  <2>1. /\ Len(s) = 7 /\ s[4].io = "put" /\ s[4].reg = r /\ s[4].val = y % 256
        /\ s[6].io = "put" /\ s[6].reg = q /\ s[6].val = z % 256
    BY <1>7 DEF SetTwo, Put, Access
  <2> QED BY <1>5, <2>1
<1>8. CASE n \in {"sample_rate", "tx_trigger", "rx_trigger", "frame_length"}
  <2>1. Wanted(n, x) = x
    BY <1>8 DEF Wanted, Switch
  <2>2. \A v \in 0..255 : v % 256 = v
    OBVIOUS
  <2>3. \A v \in 0..127 : v % 128 = v
    OBVIOUS
  <2>4. CASE n = "sample_rate"
    <3>1. x \in 4..16 /\ s = SetOne("TCR", x)
      BY <1>2, <2>4 DEF Accepted
    <3>2. icr[p]["TCR"] = x
      <4>1. icr[p]["TCR"] = x % 256
        BY <1>6, <3>1
      <4>2. x \in 0..255
        BY <3>1
      <4> QED BY <2>2, <4>1, <4>2
    <3> QED BY <1>3, <2>1, <2>4, <3>1, <3>2, SettingParts DEF Torn
  <2>5. CASE n = "tx_trigger"
    <3>1. x \in 0..127 /\ s = SetOne("TTL", x)
      BY <1>2, <2>5 DEF Accepted
    <3>2. icr[p]["TTL"] = x
      <4>1. icr[p]["TTL"] = x % 256
        BY <1>6, <3>1
      <4>2. x \in 0..255
        BY <3>1
      <4> QED BY <2>2, <4>1, <4>2
    <3>3. Setting(p)["tx_trigger"] = x
      BY <1>3, <2>3, <3>1, <3>2, SettingParts
    <3> QED BY <2>1, <2>5, <3>1, <3>3 DEF Torn
  <2>6. CASE n = "rx_trigger"
    <3>1. x \in 0..127 /\ s = SetOne("RTL", x)
      BY <1>2, <2>6 DEF Accepted
    <3>2. icr[p]["RTL"] = x
      <4>1. icr[p]["RTL"] = x % 256
        BY <1>6, <3>1
      <4>2. x \in 0..255
        BY <3>1
      <4> QED BY <2>2, <4>1, <4>2
    <3>3. Setting(p)["rx_trigger"] = x
      BY <1>3, <2>3, <3>1, <3>2, SettingParts
    <3> QED BY <2>1, <2>6, <3>1, <3>3 DEF Torn
  <2>7. CASE n = "frame_length"
    <3>1. x \in 1..256 /\ s = SetOne("FLR", x - 1)
      BY <1>2, <2>7 DEF Accepted
    <3>2. icr[p]["FLR"] = x - 1
      <4>1. icr[p]["FLR"] = (x - 1) % 256
        BY <1>6, <3>1
      <4>2. x - 1 \in 0..255
        BY <3>1
      <4> QED BY <2>2, <4>1, <4>2
    <3> QED BY <1>3, <2>1, <2>7, <3>1, <3>2, SettingParts DEF Torn
  <2> QED BY <1>8, <2>4, <2>5, <2>6, <2>7
<1>9. CASE n = "isochronous"
  <2>1. x \in -1..10 /\ s = SetTwo("MDM", Mdm(x), "CKS", Cks(x)) /\ Wanted(n, x) = x
    BY <1>2, <1>9 DEF Accepted, Wanted, Switch
  <2>2. icr[p]["MDM"] = Mdm(x) /\ icr[p]["CKS"] = Cks(x)
    <3>1. Mdm(x) \in 0..255 /\ Cks(x) \in 0..255
      BY <2>1, ModesDiffer DEF Byte
    <3>2. \A v \in 0..255 : v % 256 = v
      OBVIOUS
    <3>3. icr[p]["MDM"] = Mdm(x) % 256 /\ icr[p]["CKS"] = Cks(x) % 256
      BY <1>7, <2>1
    <3> QED BY <3>1, <3>2, <3>3
  <2> DEFINE holds == [m \in -1..10 |-> icr[p]["CKS"] = Cks(m) /\ icr[p]["MDM"] = Mdm(m)]
  <2>3. \A m \in -1..10 : holds[m] <=> m = x
    <3>1. \A m \in -1..10 : Cks(m) = Cks(x) => m = x
      BY <2>1, ModesDiffer DEF ModesOf
    <3> QED BY <2>1, <2>2, <3>1
  <2>4. Isochronous(p) = OneOf(holds, -1..10)
    BY DEF Isochronous
  <2> HIDE DEF holds
  <2>5. OneOf(holds, -1..10) = x
    BY <2>1, <2>3 DEF OneOf
  <2> QED BY <1>3, <1>9, <2>1, <2>4, <2>5, SettingParts DEF Torn
<1>10. CASE n = "external_transmit"
  <2>1. /\ x \in 0..8191 /\ Wanted(n, x) = x
        /\ s = SetTwo("EXTH", IF x = 0 THEN 0 ELSE 128 + x \div 256, "EXT", x)
    BY <1>2, <1>10, SMTT(30) DEF Accepted, Wanted, Switch
  <2> DEFINE high == x \div 256
             low  == x % 256
  <2>2. high \in 0..31 /\ low \in 0..255 /\ x = high * 256 + low
    BY <2>1
  <2> HIDE DEF high, low
  <2>4. (128 + high) % 256 = 128 + high /\ (128 + high) % 32 = high
    BY <2>2
  <2>5. ExternalTransmit(p) = x
    <3>1. CASE x = 0
      <4>1. icr[p]["EXTH"] = 0 % 256 /\ icr[p]["EXT"] = 0 % 256
        BY <1>7, <2>1, <3>1
      <4>2. icr[p]["EXTH"] = 0 /\ icr[p]["EXT"] = 0
        BY <4>1
      <4> QED BY <3>1, <4>2 DEF ExternalTransmit
    <3>2. CASE x # 0
      <4>1. s = SetTwo("EXTH", 128 + high, "EXT", x)
        BY <2>1, <3>2 DEF high
      <4>2. icr[p]["EXTH"] = 128 + high /\ icr[p]["EXT"] = low
        BY <1>7, <2>4, <4>1 DEF low
      <4>3. icr[p]["EXTH"] >= 128
        BY <2>2, <4>2
      <4>4. ExternalTransmit(p) = (icr[p]["EXTH"] % 32) * 256 + icr[p]["EXT"]
        BY <4>3 DEF ExternalTransmit
      <4> QED BY <2>2, <2>4, <4>2, <4>4
    <3> QED BY <3>1, <3>2
  <2>6. Setting(p)["external_transmit"] = x
    BY <1>3, <2>5, SettingParts
  <2>7. x \in 0..8191
    BY <2>1
  <2>8. x \in Int \ {-2}
    BY <2>7
  <2>9. Wanted(n, x) = x
    BY <2>1
  <2> QED BY <1>10, <2>6, <2>8, <2>9 DEF Torn
<1>11. CASE n = "echo_cancel"
  <2>1. s = <<ReadFcr, WriteFcr("echo", x)>>
    BY <1>2, <1>11 DEF Accepted
  <2>2. 2 \in 1..Len(s) /\ s[2].io = "write_fcr" /\ s[2].reg = "echo" /\ s[2].val = x
    BY <2>1 DEF WriteFcr, Access
  <2>3. FcrMask("echo", p[2]) \in fcr[p[1]] <=> x # 0
    BY <1>13, <2>2
  <2> QED BY <1>3, <1>11, <2>3, SettingParts DEF Bit, Wanted, Switch, Torn
<1>12. CASE n = "rs485"
  <2>1. s = <<SaveLcr, ReadFcr, ClearLcr, Select("ACR"),
              ShadowAcr(IF x = 0 THEN 0 ELSE 16), PutAcr(0), WriteFcr("rs485", x), RestoreLcr>>
    BY <1>2, <1>12 DEF Accepted, fastcom_set_rs485_fscc, Do
  <2>2. /\ Len(s) = 8 /\ s[5].io = "shadow" /\ s[5].val = IF x = 0 THEN 0 ELSE 16
        /\ s[6].io = "put_acr" /\ s[6].val = 0
        /\ s[7].io = "write_fcr" /\ s[7].reg = "rs485" /\ s[7].val = x
        /\ s[8].io = "restore_lcr"
    BY <2>1 DEF ShadowAcr, PutAcr, WriteFcr, RestoreLcr, Access
  <2>3. acr[p] = IF x = 0 THEN 0 ELSE 16
    BY <1>14, <2>2
  <2>4. icr[p]["ACR"] = acr[p] + 0
    <3>1. \A j \in 6+1..8 : s[j].io \notin AcrIo
      BY <2>2 DEF AcrIo
    <3> QED BY <1>15, <2>2, <3>1
  <2>5. FcrMask("rs485", p[2]) \in fcr[p[1]] <=> x # 0
    BY <1>13, <2>2
  <2>6. (icr[p]["ACR"] \div 16) % 2 = 1 <=> x # 0
    BY <2>3, <2>4
  <2>7. Rs485(p) = IF x = 0 THEN 0 ELSE 1
    BY <2>5, <2>6 DEF Rs485, FcrMask
  <2> QED BY <1>3, <1>12, <2>7, SettingParts DEF Wanted, Switch, Torn
<1> QED BY <1>8, <1>9, <1>10, <1>11, <1>12 DEF SettingName

(* The reads of the getters.                                               *)
LEMMA LastReads ==
  /\ \A r : /\ Len(GetOne(r)) = 9 /\ GetOne(r)[6].reg = r
            /\ LastGet(GetOne(r), 6, 9)
  /\ LET s == fastcom_get_external_transmit_fscc.steps IN
     /\ Len(s) = 11 /\ s[6].reg = "EXT" /\ s[8].reg = "EXTH"
     /\ LastGet(s, 8, 11) /\ LastGet(s, 6, 7)
<1>1. ASSUME NEW r PROVE Len(GetOne(r)) = 9 /\ GetOne(r)[6].reg = r /\ LastGet(GetOne(r), 6, 9)
  <2> DEFINE s == GetOne(r)
  <2>1. Len(s) = 9 /\ s[6].reg = r /\ s[6].io = "get" /\ \A j \in 7..9 : s[j].io # "get"
    BY SMTT(30) DEF GetOne, Access, SaveLcr, ClearLcr, Select, PutAcr, Get, RestoreLcr
  <2> HIDE DEF s
  <2>2. LastGet(s, 6, 9)
    BY <2>1 DEF LastGet
  <2> QED BY <2>1, <2>2 DEF s
<1>2. ASSUME NEW s, s = fastcom_get_external_transmit_fscc.steps
      PROVE  /\ Len(s) = 11 /\ s[6].reg = "EXT" /\ s[8].reg = "EXTH"
             /\ LastGet(s, 8, 11) /\ LastGet(s, 6, 7)
  <2>1. s = <<SaveLcr, ClearLcr, Select("ACR"), PutAcr(64), Select("EXT"), Get("EXT"),
              Select("EXTH"), Get("EXTH"), Select("ACR"), PutAcr(0), RestoreLcr>>
    BY <1>2 DEF fastcom_get_external_transmit_fscc, Do
  <2>2. /\ Len(s) = 11 /\ s[6].io = "get" /\ s[6].reg = "EXT" /\ s[8].io = "get" /\ s[8].reg = "EXTH"
        /\ \A j \in {7} \cup 9..11 : s[j].io # "get"
    BY <2>1, SMTT(30) DEF Access, SaveLcr, ClearLcr, Select, PutAcr, Get, RestoreLcr
  <2> HIDE <2>1
  <2>3. LastGet(s, 8, 11) /\ LastGet(s, 6, 7)
    BY <2>2 DEF LastGet
  <2> QED BY <2>2, <2>3
<1> QED BY <1>1, <1>2

(* Two bytes of which nothing is set.                                      *)
LEMMA NoByte == \A a, b \in 0..255 : a + b = 0 => a = 0 /\ b = 0
<1>1. \A a, b \in Nat : a + b = 0 => a = 0 /\ b = 0
  OBVIOUS
<1> QED BY <1>1

(* What a get call that was not refused answers is the setting.            *)
LEMMA GetDone ==
  ASSUME IInv, RegistersInv, AloneOnCard, FcrFollowsCall, GetsKept, Whole,
         NEW c \in User, Busy(c), call[c].pc = Len(call[c].steps) + 1,
         call[c].kind = "get", call[c].status = 0, call[c].name \in SettingName
  PROVE  Replies(c) = {Setting(At(c))[call[c].name]}
<1> DEFINE s == call[c].steps
           p == At(c)
           n == call[c].name
           got == call[c].got
<1>1. c \in Caller /\ p \in Port /\ p[1] \in Card /\ p[2] \in {0, 1} /\ Ready(p)
      /\ icr \in [Port -> [IcrReg -> Byte]] /\ acr \in [Port -> {0, 16}]
  BY DEF IInv, CallsInv, TypeOK, CallRecord, At, Caller, Port, RegistersInv, Attributed
<1>2. Answering(n, s)
  BY <1>1, CallShape DEF RegistersInv, InitTriggers, AsyncMode
<1>3. \A m \in 0..9 : Programmed(p, m)
  <2>1. 0..9 \subseteq 0..StepsPerPort
    BY StartUpLength
  <2> QED BY <1>1, <2>1, ReadyProgrammed DEF IInv, CallsInv
<1>4. \A d \in Caller : Busy(d) /\ At(d) = p => d = c
  BY <1>1 DEF IInv, CallsInv, Exclusive
<1>5. \A m : \A d \in Caller : At(d) = p => ~Sets(d, m)
  BY <1>4 DEF Sets
<1>6. \A m \in {"rs485", "isochronous", "external_transmit"} : Setting(p)[m] # Torn
  <2>1. \A m \in DOMAIN PlaceOf : PlaceOf[m] \in 0..9
    BY DEF PlaceOf
  <2> QED BY <1>1, <1>3, <1>5, <2>1 DEF Whole
<1>7. call[c].pc - 1 = Len(s)
  BY <1>1 DEF IInv, CallsInv, TypeOK, CallRecord
<1>8. \A i \in 1..Len(s) : LastGet(s, i, Len(s)) =>
        /\ got[2] = icr[p][s[i].reg]
        /\ \A j \in 1..i-1 : LastGet(s, j, i - 1) => got[1] = icr[p][s[j].reg]
  BY <1>1, <1>7 DEF GetsKept
<1> HIDE DEF p, s, n, got
<1>9. ASSUME NEW r, s = GetOne(r) PROVE got[2] = icr[p][r]
  <2>0. Len(GetOne(r)) = 9 /\ GetOne(r)[6].reg = r /\ LastGet(GetOne(r), 6, 9)
    BY LastReads
  <2>1. Len(s) = 9 /\ s[6].reg = r /\ LastGet(s, 6, Len(s))
    BY <1>9, <2>0
  <2> QED BY <1>8, <2>1
<1>10. SettingName = {"sample_rate", "tx_trigger", "rx_trigger", "rs485", "isochronous",
                      "external_transmit", "frame_length", "echo_cancel"}
  BY DEF SettingName
<1>11. CASE n = "sample_rate"
  <2>1. icr[p]["TCR"] = cache[p].sample_rate
    <3>1. "sample_rate" \in Cached /\ Programmed(p, PlaceOf["sample_rate"])
      BY <1>3 DEF Cached, PlaceOf
    <3>2. icr[p][RegisterOf["sample_rate"]] = cache[p]["sample_rate"]
      BY <1>1, <1>5, <3>1 DEF RegistersInv, CacheHeld
    <3> QED BY <3>2 DEF RegisterOf
  <2>2. Replies(c) = {cache[p].sample_rate}
    BY <1>11 DEF Replies, n, p
  <2> QED BY <1>1, <1>11, <2>1, <2>2, SettingParts DEF n, p
<1>12. CASE n \in {"tx_trigger", "rx_trigger"}
  <2>1. Replies(c) = {got[2] % 128}
    BY <1>12 DEF Replies, n, got
  <2>2. got[2] % 128 = Setting(p)[n]
    <3>1. CASE n = "tx_trigger"
      <4>1. s = GetOne("TTL")
        BY <1>2, <3>1 DEF Answering
      <4> QED BY <1>1, <1>9, <3>1, <4>1, SettingParts
    <3>2. CASE n = "rx_trigger"
      <4>1. s = GetOne("RTL")
        BY <1>2, <3>2 DEF Answering
      <4> QED BY <1>1, <1>9, <3>2, <4>1, SettingParts
    <3> QED BY <1>12, <3>1, <3>2
  <2> QED BY <2>1, <2>2 DEF n, p
<1>13. CASE n = "frame_length"
  <2>1. Replies(c) = {got[2] + 1}
    BY <1>13 DEF Replies, n, got
  <2>2. s = GetOne("FLR")
    BY <1>2, <1>13 DEF Answering
  <2>3. got[2] + 1 = Setting(p)[n]
    BY <1>1, <1>9, <1>13, <2>2, SettingParts
  <2> QED BY <2>1, <2>3 DEF n, p
<1>14. CASE n = "isochronous"
  <2>1. s = GetOne("CKS")
    BY <1>2, <1>14 DEF Answering
  <2> DEFINE holds == [m \in -1..10 |-> icr[p]["CKS"] = Cks(m) /\ icr[p]["MDM"] = Mdm(m)]
  <2>2. Isochronous(p) = OneOf(holds, -1..10) /\ Isochronous(p) # Torn
    BY <1>1, <1>6, SettingParts DEF Isochronous
  <2>3. Isochronous(p) \in -1..10 /\ holds[Isochronous(p)]
    <3> HIDE DEF holds
    <3> QED BY <2>2 DEF OneOf
  <2>4. ModesOf(got[2]) = {Isochronous(p)}
    <3>1. got[2] = Cks(Isochronous(p))
      BY <1>9, <2>1, <2>3
    <3> HIDE DEF holds
    <3> QED BY <2>3, <3>1, ModesDiffer
  <2>5. Replies(c) = ModesOf(got[2])
    <3>1. ModesOf(got[2]) # {}
      BY <2>4
    <3> QED BY <1>14, <3>1 DEF Replies, n, got
  <2> QED BY <1>1, <1>14, <2>4, <2>5, SettingParts DEF n, p
<1>15. CASE n = "external_transmit"
  <2>1. s = fastcom_get_external_transmit_fscc.steps
    BY <1>2, <1>15 DEF Answering
  <2>2. got[2] = icr[p]["EXTH"] /\ got[1] = icr[p]["EXT"]
    <3>1. Len(s) = 11 /\ s[6].reg = "EXT" /\ s[8].reg = "EXTH" /\ LastGet(s, 8, Len(s)) /\ LastGet(s, 6, 8 - 1)
      BY <2>1, LastReads
    <3>2. 8 \in 1..Len(s) /\ 6 \in 1..8 - 1
      BY <3>1
    <3> QED BY <1>8, <3>1, <3>2
  <2>3. Replies(c) = {(got[2] % 32) * 256 + got[1]}
    BY <1>15 DEF Replies, n, got
  <2>4. icr[p]["EXTH"] \in 0..255 /\ icr[p]["EXT"] \in 0..255 /\ ExternalTransmit(p) # Torn
    BY <1>1, <1>6, SettingParts DEF IcrReg, Byte
  <2>5. ExternalTransmit(p) = (icr[p]["EXTH"] % 32) * 256 + icr[p]["EXT"]
    <3>1. CASE icr[p]["EXTH"] >= 128
      BY <3>1 DEF ExternalTransmit
    <3>2. CASE ~(icr[p]["EXTH"] >= 128)
      <4>1. icr[p]["EXTH"] + icr[p]["EXT"] = 0 /\ ExternalTransmit(p) = 0
        BY <2>4, <3>2 DEF ExternalTransmit
      <4>2. icr[p]["EXTH"] = 0 /\ icr[p]["EXT"] = 0
        BY <2>4, <4>1, NoByte
      <4> QED BY <4>1, <4>2
    <3> QED BY <3>1, <3>2
  <2>6. Setting(p)[n] = ExternalTransmit(p)
    BY <1>1, <1>15, SettingParts
  <2> QED BY <2>2, <2>3, <2>5, <2>6 DEF n, p
<1>16. CASE n \in {"rs485", "echo_cancel"}
  <2>1. s = <<ReadFcr>>
    BY <1>2, <1>16 DEF Answering
  <2>2. Len(s) = 1 /\ s[1].io = "read_fcr"
    BY <2>1 DEF ReadFcr, Access
  <2>3. Meant(c, 1) = {}
    BY <2>2 DEF Meant, s
  <2>4. \A name \in {"rs485", "echo"} : FcrMask(name, p[2]) \in call[c].fcr <=> Bit(name, p)
    <3> SUFFICES ASSUME NEW name \in {"rs485", "echo"}
                 PROVE  FcrMask(name, p[2]) \in call[c].fcr <=> Bit(name, p)
      OBVIOUS
    <3>1. FcrMask(name, p[2]) \in FcrBit /\ FcrMask(name, p[2])[1] # "clock"
      BY <1>1 DEF FcrMask, FcrBit, FcrName
    <3>2. call[c].pc - 1 = 1 /\ call[c].steps[1].io = "read_fcr" /\ 1 \in 1..1
      BY <1>7, <2>2 DEF s
    <3>3. FcrMask(name, p[2]) \notin Meant(c, call[c].pc - 1)
      BY <2>3, <3>2
    <3>4. FcrMask(name, p[2]) \in call[c].fcr <=> FcrMask(name, p[2]) \in fcr[At(c)[1]]
      BY <1>1, <3>1, <3>2, <3>3 DEF FcrFollowsCall
    <3> QED BY <3>4 DEF Bit, p
  <2>5. CASE n = "echo_cancel"
    <3>1. Replies(c) = {IF FcrMask("echo", p[2]) \in call[c].fcr THEN 1 ELSE 0}
      BY <2>5 DEF Replies, n, p
    <3> QED BY <1>1, <2>4, <2>5, <3>1, SettingParts DEF n, p
  <2>6. CASE n = "rs485"
    <3>1. icr[p]["ACR"] = acr[p]
      <4>1. ~OnAcr(c)
        BY <2>2 DEF OnAcr, AcrIo, s
      <4> QED BY <1>1, <1>3, <1>4, <4>1 DEF RegistersInv, AcrHeld
    <3>2. Rs485(p) # Torn /\ Setting(p)[n] = Rs485(p)
      BY <1>1, <1>6, <2>6, SettingParts
    <3>3. acr[p] = 16 <=> Dtr(p)
      <4>1. acr[p] \in {0, 16}
        BY <1>1
      <4> QED BY <3>1, <4>1 DEF Dtr
    <3>4. Rs485(p) = IF acr[p] = 16 /\ Bit("rs485", p) THEN 1 ELSE 0
      BY <3>2, <3>3 DEF Rs485, Dtr, Bit, FcrMask
    <3>5. Replies(c) = {IF acr[p] = 16 /\ FcrMask("rs485", p[2]) \in call[c].fcr THEN 1 ELSE 0}
      BY <2>6 DEF Replies, n, p
    <3> QED BY <2>4, <3>2, <3>4, <3>5 DEF n, p
  <2> QED BY <1>16, <2>5, <2>6
<1>17. n \in SettingName
  BY DEF n
<1> QED BY <1>10, <1>11, <1>12, <1>13, <1>14, <1>15, <1>16, <1>17

-----------------------------------------------------------------------------
(* The settings hold through every step.                                   *)

(* Settings are in the indexed registers and the FCR.                      *)
LEMMA SettingSame == ASSUME UNCHANGED <<icr, fcr>>, NEW p PROVE Setting(p)' = Setting(p)
BY DEF Setting, Rs485, Isochronous, ExternalTransmit, EchoOf

(* The start-up gives no value to external_transmit, one to all others.    *)
LEMMA Places ==
  /\ \A n \in DOMAIN PlaceOf : PlaceOf[n] \in 1..StepsPerPort /\ PlaceOf[n] \in 2..9
  /\ DOMAIN Defaults \subseteq DOMAIN PlaceOf /\ DOMAIN Defaults \subseteq SettingName
  /\ \A n \in {"rs485", "isochronous"} : n \in DOMAIN Defaults /\ n \in DOMAIN PlaceOf
  /\ "external_transmit" \notin DOMAIN PlaceOf
<1>1. \A n \in DOMAIN PlaceOf : PlaceOf[n] \in 2..9
  BY DEF PlaceOf
<1>2. 2..9 \subseteq 1..StepsPerPort
  BY StartUpLength
<1>3. /\ DOMAIN Defaults \subseteq SettingName
      /\ "external_transmit" \notin DOMAIN Defaults
      /\ \A n \in {"rs485", "isochronous"} : n \in DOMAIN Defaults
  BY DEF Defaults, SettingName
<1>4. DOMAIN PlaceOf = {"rs485", "sample_rate", "tx_trigger", "rx_trigger", "echo_cancel",
                        "isochronous", "frame_length"}
  BY DEF PlaceOf
<1> QED BY <1>1, <1>2, <1>3, <1>4 DEF SettingName

(* A new call finds ACR as port->ACR has it, and has done nothing yet.     *)
LEMMA EnterKeepsSettings ==
  ASSUME IInv, Discipline # "none", RegistersInv, SettingsHeld,
         NEW c \in Caller, ~Busy(c), NEW p \in Port, MayEnter(p),
         NEW request, request.kind # "none", request.kind = "get" => Ready(p),
         NEW h, Enter(c, p, request, h),
         UNCHANGED <<lcr, spr, icr, mode, fcr, acr, cache, boot, line>>
  PROVE  SettingsHeld'
<1>1. /\ Quiet(p)
      /\ \A d \in Caller : d # c => call'[d] = call[d] /\ Busy(d)' = Busy(d) /\ At(d)' = At(d)
      /\ At(c)' = p /\ call'[c].kind = request.kind /\ call'[c].pc = 1
  BY Entered
<1>2. \A d \in Caller : Busy(d)' /\ call'[d].pc > 1 =>
        Busy(d) /\ call'[d] = call[d] /\ At(d)' = At(d)
  BY <1>1
<1>3. \A d \in Caller : d = c => 1..call'[d].pc - 1 = {}
  BY <1>1
<1>4. ShadowLands' /\ FcrLands'
  <2>1. ShadowLands'
    BY <1>1, <1>3 DEF SettingsHeld, ShadowLands
  <2>2. FcrLands'
    BY <1>1, <1>3 DEF SettingsHeld, FcrLands
  <2> QED BY <2>1, <2>2
<1>5. GetsKept'
  <2> SUFFICES ASSUME NEW d \in Caller, Busy(d)', NEW s, s = call'[d].steps, NEW n, n = call'[d].pc - 1,
                      NEW i \in 1..n, LastGet(s, i, n)
               PROVE  /\ call'[d].got[2] = icr'[At(d)'][s[i].reg]
                      /\ \A j \in 1..i-1 : LastGet(s, j, i - 1) => call'[d].got[1] = icr'[At(d)'][s[j].reg]
    BY DEF GetsKept, LastGet
  <2>1. d # c
    BY <1>3
  <2>2. Busy(d) /\ call'[d] = call[d] /\ At(d)' = At(d)
    BY <1>1, <2>1
  <2> QED BY <2>2 DEF SettingsHeld, GetsKept
<1>6. DtrHeld'
  <2>1. ASSUME request.kind = "get" PROVE icr[p]["ACR"] = acr[p]
    <3>1. Programmed(p, 2)
      BY <2>1, ReadyProgrammed, StartUpLength DEF IInv, CallsInv
    <3> QED BY <1>1, <3>1 DEF RegistersInv, AcrHeld, Quiet
  <2> SUFFICES ASSUME NEW d \in Caller, Busy(d)', call'[d].kind = "get"
               PROVE  icr'[At(d)']["ACR"] \in {acr'[At(d)'], acr'[At(d)'] + 64}
    BY DEF DtrHeld
  <2>2. CASE d = c
    BY <1>1, <2>1, <2>2
  <2>3. CASE d # c
    BY <1>1, <2>3 DEF SettingsHeld, DtrHeld
  <2> QED BY <2>2, <2>3
<1>7. \A q, m : Programmed(q, m)' = Programmed(q, m) /\ Ready(q)' = Ready(q) /\ Setting(q)' = Setting(q)
  BY SettingSame DEF Programmed, Ready
<1>8. \A d \in Caller : \A n : Sets(d, n) => Sets(d, n)' /\ At(d)' = At(d)
  BY <1>1 DEF Sets
<1>9. Whole'
  <2> SUFFICES ASSUME NEW q \in Port, NEW n \in {"rs485", "isochronous", "external_transmit"},
                      n \in DOMAIN PlaceOf => Programmed(q, PlaceOf[n])',
                      \A d \in Caller : At(d)' = q => ~Sets(d, n)'
               PROVE  Setting(q)'[n] # Torn
    BY DEF Whole, Torn
  <2>1. \A d \in Caller : At(d) = q => ~Sets(d, n)
    BY <1>8
  <2>2. n \in DOMAIN PlaceOf => Programmed(q, PlaceOf[n])
    BY <1>7
  <2>3. Setting(q)[n] # Torn
    BY <2>1, <2>2 DEF SettingsHeld, Whole
  <2> QED BY <1>7, <2>3
<1>10. DefaultsGiven'
  <2> SUFFICES ASSUME NEW q \in Port, NEW n \in DOMAIN Defaults, ~Ready(q)', Programmed(q, PlaceOf[n])'
               PROVE  Setting(q)'[n] = Defaults[n]
    BY DEF DefaultsGiven, Defaults
  <2> QED BY <1>7 DEF SettingsHeld, DefaultsGiven
<1> QED BY <1>4, <1>5, <1>6, <1>9, <1>10 DEF SettingsHeld

(* The calls of the start-up give their settings the defaults.             *)
LEMMA DefaultDone ==
  ASSUME IInv, RegistersInv, SettingsHeld, NEW c \in Caller, Return(c),
         NEW p \in Port, NEW n \in DOMAIN Defaults, ~Ready(p), Programmed(p, PlaceOf[n])'
  PROVE  Setting(p)[n] = Defaults[n]
<1>1. n \in DOMAIN PlaceOf /\ n \in SettingName /\ PlaceOf[n] \in 1..StepsPerPort
  BY Places
<1>2. CASE Programmed(p, PlaceOf[n])
  BY <1>2 DEF SettingsHeld, DefaultsGiven
<1>3. CASE ~Programmed(p, PlaceOf[n])
  <2>1. c \in Card /\ Busy(c) /\ At(c) = p /\ (boot[c] % StepsPerPort) + 1 = PlaceOf[n]
    BY <1>1, <1>3, NewlyProgrammed DEF RegistersInv
  <2>2. call[c].arg = Defaults[n] /\ Sets(c, n)
    BY <1>1, <2>1, LoaderSets DEF RegistersInv
  <2>3. call[c].pc = Len(call[c].steps) + 1
    BY Returned
  <2>4. Setting(p)[n] = Wanted(n, Defaults[n])
    BY <1>1, <2>1, <2>2, <2>3, SetDone DEF RegistersInv, SettingsHeld
  <2>5. Wanted(n, Defaults[n]) = Defaults[n]
    BY DEF Wanted, Switch, Defaults
  <2> QED BY <2>4, <2>5
<1> QED BY <1>2, <1>3

(* A setting is whole again when the call that sets it returns.            *)
LEMMA ReturnKeepsSettings ==
  ASSUME IInv, RegistersInv, SettingsHeld, NEW c \in Caller, Return(c)
  PROVE  SettingsHeld'
<1>1. /\ Busy(c) /\ call[c].pc = Len(call[c].steps) + 1
      /\ \A d \in Caller : Busy(d)' => d # c /\ Busy(d) /\ call'[d] = call[d] /\ At(d)' = At(d)
      /\ \A d \in Caller : d # c => call'[d] = call[d] /\ Busy(d)' = Busy(d) /\ At(d)' = At(d)
  BY Returned
<1>2. icr' = icr /\ fcr' = fcr /\ acr' = acr
  BY DEF Return, hardware
<1>3. ShadowLands' /\ FcrLands' /\ DtrHeld'
  <2>1. ShadowLands'
    BY <1>1, <1>2 DEF SettingsHeld, ShadowLands
  <2>2. FcrLands'
    BY <1>1, <1>2 DEF SettingsHeld, FcrLands
  <2>3. DtrHeld'
    BY <1>1, <1>2 DEF SettingsHeld, DtrHeld
  <2> QED BY <2>1, <2>2, <2>3
<1>4. GetsKept'
  <2> SUFFICES ASSUME NEW d \in Caller, Busy(d)', NEW s, s = call'[d].steps, NEW n, n = call'[d].pc - 1,
                      NEW i \in 1..n, LastGet(s, i, n)
               PROVE  /\ call'[d].got[2] = icr'[At(d)'][s[i].reg]
                      /\ \A j \in 1..i-1 : LastGet(s, j, i - 1) => call'[d].got[1] = icr'[At(d)'][s[j].reg]
    BY DEF GetsKept, LastGet
  <2>1. Busy(d) /\ call'[d] = call[d] /\ At(d)' = At(d)
    BY <1>1
  <2> QED BY <1>2, <2>1 DEF SettingsHeld, GetsKept
<1>5. \A p : Setting(p)' = Setting(p)
  BY <1>2, SettingSame
<1>6. Whole'
  <2> SUFFICES ASSUME NEW p \in Port, NEW n \in {"rs485", "isochronous", "external_transmit"},
                      n \in DOMAIN PlaceOf => Programmed(p, PlaceOf[n])',
                      \A d \in Caller : At(d)' = p => ~Sets(d, n)'
               PROVE  Setting(p)[n] # Torn
    BY <1>5 DEF Whole, Torn
  <2>0. n \in SettingName
    BY DEF SettingName
  <2>1. CASE At(c) = p /\ Sets(c, n)
    <3>1. Setting(p)[n] = Wanted(n, call[c].arg) /\ Wanted(n, call[c].arg) # Torn
      BY <1>1, <2>0, <2>1, SetDone DEF RegistersInv, SettingsHeld
    <3> QED BY <3>1
  <2>2. CASE ~(At(c) = p /\ Sets(c, n))
    <3>1. \A d \in Caller : At(d) = p => ~Sets(d, n)
      BY <1>1, <2>2 DEF Sets
    <3>2. n \in DOMAIN PlaceOf => Programmed(p, PlaceOf[n])
      <4> SUFFICES ASSUME n \in DOMAIN PlaceOf, ~Programmed(p, PlaceOf[n]) PROVE FALSE
        OBVIOUS
      <4>1. PlaceOf[n] \in 1..StepsPerPort /\ n \in DOMAIN Defaults
        BY Places
      <4>2. c \in Card /\ Busy(c) /\ At(c) = p /\ (boot[c] % StepsPerPort) + 1 = PlaceOf[n]
        BY <4>1, NewlyProgrammed DEF RegistersInv
      <4>3. Sets(c, n)
        BY <2>0, <4>1, <4>2, LoaderSets DEF RegistersInv
      <4> QED BY <2>2, <4>2, <4>3
    <3> QED BY <3>1, <3>2 DEF SettingsHeld, Whole
  <2> QED BY <2>1, <2>2
<1>7. DefaultsGiven'
  <2> SUFFICES ASSUME NEW p \in Port, NEW n \in DOMAIN Defaults, ~Ready(p)', Programmed(p, PlaceOf[n])'
               PROVE  Setting(p)[n] = Defaults[n]
    BY <1>5 DEF DefaultsGiven, Defaults
  <2>1. 1 \in 1..StepsPerPort
    BY StartUpLength
  <2>2. ~Ready(p)
    BY <2>1, NewlyProgrammed DEF RegistersInv
  <2> QED BY <2>2, DefaultDone
<1> QED BY <1>3, <1>4, <1>6, <1>7 DEF SettingsHeld

(* Nothing else touches them.                                              *)
LEMMA SameSettingsHeld ==
  ASSUME SettingsHeld, UNCHANGED <<icr, fcr, acr, boot, call>> PROVE SettingsHeld'
<1>1. \A p, m : Programmed(p, m)' = Programmed(p, m) /\ Ready(p)' = Ready(p) /\ Setting(p)' = Setting(p)
  BY SettingSame DEF Programmed, Ready
<1>2. \A d, n : Sets(d, n)' = Sets(d, n) /\ At(d)' = At(d) /\ Busy(d)' = Busy(d)
  BY DEF Sets, At, Busy
<1>3. ShadowLands' /\ FcrLands' /\ DtrHeld' /\ GetsKept'
  <2>1. ShadowLands' /\ FcrLands'
    BY DEF SettingsHeld, ShadowLands, FcrLands, Busy, At
  <2>2. DtrHeld' /\ GetsKept'
    BY DEF SettingsHeld, DtrHeld, GetsKept, LastGet, Busy, At
  <2> QED BY <2>1, <2>2
<1>4. Whole'
  <2> SUFFICES ASSUME NEW p \in Port, NEW n \in {"rs485", "isochronous", "external_transmit"},
                      n \in DOMAIN PlaceOf => Programmed(p, PlaceOf[n])',
                      \A d \in Caller : At(d)' = p => ~Sets(d, n)'
               PROVE  Setting(p)'[n] # Torn
    BY DEF Whole, Torn
  <2>1. Setting(p)[n] # Torn
    BY <1>1, <1>2 DEF SettingsHeld, Whole
  <2> QED BY <1>1, <2>1
<1>5. DefaultsGiven'
  <2> SUFFICES ASSUME NEW p \in Port, NEW n \in DOMAIN Defaults, ~Ready(p)', Programmed(p, PlaceOf[n])'
               PROVE  Setting(p)'[n] = Defaults[n]
    BY DEF DefaultsGiven, Defaults
  <2> QED BY <1>1 DEF SettingsHeld, DefaultsGiven
<1> QED BY <1>3, <1>4, <1>5 DEF SettingsHeld

(* Before the driver loads nothing has been said of any setting but the    *)
(* count of external transmit.                                             *)
LEMMA InitSettings == ASSUME CountEnabled PROVE Init => SettingsHeld
<1> SUFFICES ASSUME Init PROVE SettingsHeld
  OBVIOUS
<1>1. \A c \in Caller : ~Busy(c)
  BY IdleTyped DEF Init, Busy
<1>2. \A p \in Port, m \in 1..StepsPerPort : ~Programmed(p, m)
  <2>1. \A p \in Port : p[1] \in Card /\ p[2] \in {0, 1} /\ boot[p[1]] = 0
    BY DEF Init, Port
  <2> QED BY <2>1, StartUpLength DEF Programmed
<1>3. ShadowLands /\ FcrLands /\ DtrHeld /\ GetsKept
  BY <1>1 DEF ShadowLands, FcrLands, DtrHeld, GetsKept
<1>4. Whole
  <2> SUFFICES ASSUME NEW p \in Port, NEW n \in {"rs485", "isochronous", "external_transmit"},
                      n \in DOMAIN PlaceOf => Programmed(p, PlaceOf[n])
               PROVE  Setting(p)[n] # Torn
    BY DEF Whole
  <2>1. n = "external_transmit"
    BY <1>2, Places
  <2>2. PICK v \in PowerUp : icr = [q \in Port |-> v]
    BY DEF Init
  <2>3. /\ icr[p]["EXTH"] >= 128 \/ icr[p]["EXTH"] + icr[p]["EXT"] = 0
        /\ icr[p]["EXTH"] \in 0..255 /\ icr[p]["EXT"] \in 0..255
    BY <2>2, BytesAssumption DEF CountEnabled, IcrReg, Byte
  <2>4. ExternalTransmit(p) \in Nat
    <3>1. CASE icr[p]["EXTH"] >= 128
      <4>1. ExternalTransmit(p) = (icr[p]["EXTH"] % 32) * 256 + icr[p]["EXT"]
        BY <3>1 DEF ExternalTransmit
      <4>2. icr[p]["EXTH"] % 32 \in Nat
        BY <2>3
      <4> QED BY <2>3, <4>1, <4>2
    <3>2. CASE ~(icr[p]["EXTH"] >= 128)
      BY <2>3, <3>2 DEF ExternalTransmit
    <3> QED BY <3>1, <3>2
  <2>5. Setting(p)[n] = ExternalTransmit(p)
    BY <2>1, SettingParts
  <2> QED BY <2>4, <2>5 DEF Torn
<1>5. DefaultsGiven
  BY <1>2, Places DEF DefaultsGiven
<1> QED BY <1>3, <1>4, <1>5 DEF SettingsHeld

(* Every step of a system with one call at a time on a card keeps them.    *)
LEMMA NextKeepsSettings ==
  ASSUME Discipline = "card", IInv, RegistersInv, BoardHeld, SettingsHeld, [Next]_vars
  PROVE  SettingsHeld'
<1>1. ASSUME NEW u \in User, NEW p \in Card \X Opened, NEW request \in Calls, Begin(u, p, request)
      PROVE  SettingsHeld'
  <2>1. u \in Caller /\ p \in Port /\ request.kind # "none"
    BY OpenedAssumption, CallsAssumption DEF Caller, Port
  <2>2. PICK h : Enter(u, p, request, h)
    BY <1>1 DEF Begin
  <2>3. /\ ~Busy(u) /\ MayEnter(p) /\ Ready(p)
        /\ UNCHANGED <<lcr, spr, icr, mode, fcr, acr, cache, boot, line>>
    BY <1>1 DEF Begin, hardware
  <2> QED BY <2>1, <2>2, <2>3, EnterKeepsSettings
<1>2. ASSUME NEW k \in Card, BeginBoot(k) PROVE SettingsHeld'
  <2> DEFINE i == (boot[k] % StepsPerPort) + 1
             p == <<k, boot[k] \div StepsPerPort>>
             request == serialfc_port_new[i]
  <2>1. boot[k] \in Nat /\ boot[k] < 2 * StepsPerPort /\ 1 \in 1..StepsPerPort
    BY <1>2, StartUpLength DEF IInv, CallsInv, TypeOK, BeginBoot
  <2>2. i \in 1..StepsPerPort /\ boot[k] \div StepsPerPort \in {0, 1}
    BY <2>1, BootArithmetic
  <2>3. k \in Caller /\ p \in Port /\ request.kind \in {"boot", "set"}
    BY <2>2, StartUpCalls DEF Caller, Port
  <2>4. PICK h : Enter(k, p, request, h)
    BY <1>2 DEF BeginBoot
  <2>5. /\ ~Busy(k) /\ MayEnter(p)
        /\ UNCHANGED <<lcr, spr, icr, mode, fcr, acr, cache, boot, line>>
    BY <1>2 DEF BeginBoot, hardware
  <2> HIDE DEF i, p, request
  <2>6. request.kind # "none" /\ request.kind # "get"
    BY <2>3
  <2> QED BY <2>3, <2>4, <2>5, <2>6, EnterKeepsSettings
<1>3. ASSUME NEW c \in Caller, Perform(c) PROVE SettingsHeld'
  <2>1. ShadowLands' /\ FcrLands' /\ DtrHeld'
    BY <1>3, PerformKeepsLanded DEF RegistersInv, BoardHeld, SettingsHeld
  <2>2. GetsKept'
    BY <1>3, PerformKeepsGets DEF RegistersInv, SettingsHeld
  <2>3. Whole' /\ DefaultsGiven'
    BY <1>3, PerformKeepsWhole DEF RegistersInv, BoardHeld, SettingsHeld
  <2> QED BY <2>1, <2>2, <2>3 DEF SettingsHeld
<1>4. ASSUME NEW c \in Caller, Return(c) PROVE SettingsHeld'
  BY <1>4, ReturnKeepsSettings
<1>5. ASSUME NEW p \in Card \X Opened, NEW v \in Line, TtySetLine(p, v) PROVE SettingsHeld'
  BY <1>5, SameSettingsHeld DEF TtySetLine
<1>6. CASE UNCHANGED vars
  BY <1>6, SameSettingsHeld DEF vars
<1> QED BY <1>1, <1>2, <1>3, <1>4, <1>5, <1>6 DEF Next

(* With one call at a time on a card, and the count of external transmit   *)
(* enabled before the driver loads, the registers hold whole settings but  *)
(* for the one being set, defaults until a port is started, and what the   *)
(* getters have read of them.                                              *)
THEOREM PromiseInvariance ==
  ASSUME Discipline # "none" PROVE Spec => []PromiseInv
<1>1. Init => PromiseInv
  BY InitIInv, InitRegisters, InitBoard, InitSettings DEF PromiseInv, FullInv, BoardInv
<1>2. PromiseInv /\ [Next]_vars => PromiseInv'
  <2> SUFFICES ASSUME PromiseInv, [Next]_vars PROVE PromiseInv'
    OBVIOUS
  <2>1. IInv' /\ RegistersInv'
    BY NextKeepsIInv, NextKeepsRegisters DEF PromiseInv, FullInv
  <2>2. BoardInv'
    BY NextKeepsBoard DEF PromiseInv, FullInv, BoardInv
  <2>3. Discipline = "card" /\ CountEnabled => SettingsHeld'
    BY NextKeepsSettings DEF PromiseInv, FullInv, BoardInv
  <2> QED BY <2>1, <2>2, <2>3 DEF PromiseInv, FullInv, CountEnabled
<1> QED BY <1>1, <1>2, PTL DEF Spec

-----------------------------------------------------------------------------
(* The steps of the driver as steps of module Settings.                    *)

(* Of a caller's record a user's request tells less.                       *)
LEMMA RequestFields ==
  ASSUME NEW u \in User
  PROVE  /\ (Request(u).kind = "none" <=> ~Busy(u)) /\ (Request(u)'.kind = "none" <=> ~Busy(u)')
         /\ Request(u).kind = call[u].kind /\ Request(u).name = call[u].name
         /\ Request(u).arg = Wanted(call[u].name, call[u].arg)
         /\ Request(u).port = call[u].port /\ Request(u).status = call[u].status
         /\ Request(u)'.port = call'[u].port /\ Request(u)'.status = call'[u].status
         /\ Request(u)'.value = call'[u].value
BY DEF Request, Busy

(* Equal settings, equal progress of the start-up and equal requests are   *)
(* equal functions of the ports and users.                                 *)
LEMMA SameFunctions ==
  /\ (\A p \in Port : Setting(p)' = Setting(p))
       => [p \in Port |-> Setting(p)]' = [p \in Port |-> Setting(p)]
  /\ boot' = boot => [p \in Port |-> Ready(p)]' = [p \in Port |-> Ready(p)]
  /\ (\A u \in User : Request(u)' = Request(u))
       => [u \in User |-> Request(u)]' = [u \in User |-> Request(u)]
<1>1. (\A p \in Port : Setting(p)' = Setting(p))
        => [p \in Port |-> Setting(p)]' = [p \in Port |-> Setting(p)]
  OBVIOUS
<1>2. boot' = boot => [p \in Port |-> Ready(p)]' = [p \in Port |-> Ready(p)]
  BY DEF Ready
<1>3. (\A u \in User : Request(u)' = Request(u))
        => [u \in User |-> Request(u)]' = [u \in User |-> Request(u)]
  OBVIOUS
<1> QED BY <1>1, <1>2, <1>3

(* A step that changes no setting, no port's start-up and no request.      *)
LEMMA Stays ==
  ASSUME \A p \in Port : Setting(p)' = Setting(p), boot' = boot,
         \A u \in User : Request(u)' = Request(u)
  PROVE  UNCHANGED Promise!vars
BY SameFunctions DEF Promise!vars

(* Who makes no step keeps the request.                                    *)
LEMMA RequestKept ==
  ASSUME NEW u \in User, \/ call'[u] = call[u]
                         \/ /\ call'[u].kind = call[u].kind /\ call'[u].name = call[u].name
                            /\ call'[u].arg = call[u].arg /\ call'[u].port = call[u].port
                            /\ call'[u].status = call[u].status /\ call'[u].value = call[u].value
  PROVE  Request(u)' = Request(u)
BY DEF Request

(* A call that begins.                                                     *)
LEMMA Begins ==
  ASSUME NEW u \in User, ~Busy(u), Busy(u)', At(u)' \in Port, Ready(At(u)'),
         \A w \in User \ {u} : Request(w)' = Request(w),
         \A p \in Port : Setting(p)' = Setting(p), boot' = boot
  PROVE  Promise!Begin(u)
<1>1. /\ Promise!Busy(u) <=> Busy(u)
      /\ Promise!Busy(u)' <=> Busy(u)'
  BY RequestFields DEF Promise!Busy
<1>2. [w \in User |-> Request(w)]'[u].port = At(u)'
  BY RequestFields DEF At
<1>3. [p \in Port |-> Ready(p)][[w \in User |-> Request(w)]'[u].port]
  BY <1>2
<1>4. \A w \in User \ {u} : [v \in User |-> Request(v)]'[w] = [v \in User |-> Request(v)][w]
  OBVIOUS
<1> QED BY <1>1, <1>3, <1>4, SameFunctions DEF Promise!Begin

(* Only settings of port p change.                                         *)
LEMMA Keeps ==
  ASSUME NEW p \in Port, NEW Names,
         \A q \in Port, n \in SettingName :
           Setting(q)'[n] # Setting(q)[n] => n \in Names /\ q = p
  PROVE  Promise!OthersKeep(p, Names)
<1>1. \A n \in SettingName : p \in Promise!Reach(p, n)
  BY DEF Promise!Reach
<1>2. \A q \in Port, n \in SettingName :
        [r \in Port |-> Setting(r)]'[q][n] # [r \in Port |-> Setting(r)][q][n]
          => n \in Names /\ q \in Promise!Reach(p, n)
  BY <1>1
<1> QED BY <1>2 DEF Promise!OthersKeep

(* A step of the start-up of port p.                                       *)
LEMMA Starts ==
  ASSUME NEW p \in Port, ~Ready(p),
         \A q \in Port, n \in SettingName : Setting(q)'[n] # Setting(q)[n] => q = p,
         \A q \in Port : q # p => Ready(q)' = Ready(q),
         Ready(p)' => \A n \in DOMAIN Defaults : Setting(p)'[n] = Defaults[n],
         \A u \in User : Request(u)' = Request(u)
  PROVE  Promise!StartUp(p)
<1>1. ~[q \in Port |-> Ready(q)][p]
  OBVIOUS
<1>2. Promise!OthersKeep(p, SettingName)
  BY Keeps
<1>3. [q \in Port |-> Ready(q)]' \in
        {[q \in Port |-> Ready(q)], [[q \in Port |-> Ready(q)] EXCEPT ![p] = TRUE]}
  <2>1. CASE Ready(p)'
    <3>1. Ready(p)' = TRUE
      BY <2>1 DEF Ready
    <3>2. [q \in Port |-> Ready(q)]' = [[q \in Port |-> Ready(q)] EXCEPT ![p] = TRUE]
      BY <3>1
    <3> QED BY <3>2
  <2>2. CASE ~Ready(p)'
    <3>1. Ready(p)' = Ready(p)
      BY <2>2 DEF Ready
    <3>2. [q \in Port |-> Ready(q)]' = [q \in Port |-> Ready(q)]
      BY <3>1
    <3> QED BY <3>2
  <2> QED BY <2>1, <2>2
<1>4. [q \in Port |-> Ready(q)]'[p] => \A n \in DOMAIN Defaults : [q \in Port |-> Setting(q)]'[p][n] = Defaults[n]
  OBVIOUS
<1> QED BY <1>1, <1>2, <1>3, <1>4, SameFunctions DEF Promise!StartUp

(* An access of a call that sets a setting.                                *)
LEMMA Works ==
  ASSUME NEW u \in User, NEW name \in SettingName, At(u) \in Port, Sets(u, name),
         \A q \in Port, n \in SettingName :
           Setting(q)'[n] # Setting(q)[n] => n = name /\ q = At(u),
         boot' = boot, \A w \in User : Request(w)' = Request(w)
  PROVE  Promise!Work(u)
<1>1. Promise!Open(u, At(u), name)
  BY RequestFields DEF Promise!Open, Sets, At
<1>2. Promise!OthersKeep(At(u), {name})
  BY Keeps
<1> QED BY <1>1, <1>2, SameFunctions DEF Promise!Work

(* A call that returns.                                                    *)
LEMMA Ends ==
  ASSUME NEW u \in User, At(u) \in Port, Busy(u), ~Busy(u)', call'[u].status = call[u].status,
         call[u].status = 0 /\ call[u].name \in SettingName =>
           IF call[u].kind = "set"
           THEN Setting(At(u))[call[u].name] = Wanted(call[u].name, call[u].arg)
           ELSE call'[u].value = Setting(At(u))[call[u].name],
         \A w \in User \ {u} : Request(w)' = Request(w),
         \A p \in Port : Setting(p)' = Setting(p), boot' = boot
  PROVE  Promise!End(u)
<1>1. /\ Promise!Busy(u) <=> Busy(u)
      /\ Promise!Busy(u)' <=> Busy(u)'
  BY RequestFields DEF Promise!Busy
<1> DEFINE r == [w \in User |-> Request(w)][u]
           s == [w \in User |-> Request(w)]'[u]
           v == [p \in Port |-> Setting(p)][r.port][r.name]
<1>2. s.status = r.status
  BY RequestFields
<1>3. /\ r.kind = call[u].kind /\ r.name = call[u].name /\ r.status = call[u].status
      /\ r.arg = Wanted(call[u].name, call[u].arg) /\ r.port = At(u) /\ s.value = call'[u].value
  BY RequestFields DEF At
<1>4. v = Setting(At(u))[call[u].name]
  BY <1>3
<1>5. r.status = 0 /\ r.name \in SettingName => IF r.kind = "set" THEN v = r.arg ELSE s.value = v
  <2> HIDE DEF r, s, v
  <2> QED BY <1>3, <1>4
<1>6. \A w \in User \ {u} : [x \in User |-> Request(x)]'[w] = [x \in User |-> Request(x)][w]
  OBVIOUS
<1> QED BY <1>1, <1>2, <1>5, <1>6, SameFunctions DEF Promise!End

(* Beginning a call begins a request of a user, and is nothing of a loader's. *)
LEMMA EnterImplements ==
  ASSUME IInv, Discipline # "none", NEW c \in Caller, ~Busy(c), NEW p \in Port, MayEnter(p),
         NEW request, request.kind # "none", c \in User => Ready(p),
         NEW h, Enter(c, p, request, h),
         UNCHANGED <<lcr, spr, icr, mode, fcr, acr, cache, boot, line>>
  PROVE  IF c \in User THEN Promise!Begin(c) ELSE UNCHANGED Promise!vars
<1>1. /\ \A d \in Caller : d # c => call'[d] = call[d]
      /\ Busy(c)' /\ At(c)' = p
  BY Entered
<1>2. \A q \in Port : Setting(q)' = Setting(q)
  BY SettingSame
<1>3. \A w \in User \ {c} : Request(w)' = Request(w)
  BY <1>1, RequestKept DEF Caller
<1>4. CASE c \in User
  <2>1. Ready(At(c)')
    BY <1>1, <1>4
  <2> QED BY <1>1, <1>2, <1>3, <1>4, <2>1, Begins
<1>5. CASE c \notin User
  BY <1>2, <1>3, <1>5, Stays
<1> QED BY <1>4, <1>5

(* The port that a loader works at is not ready.                           *)
LEMMA LoaderUnready ==
  ASSUME IInv, Attributed, NEW k \in Card, Busy(k)
  PROVE  ~Ready(At(k)) /\ At(k) \in Port /\ At(k)[1] = k
<1>1. /\ At(k)[2] \in {0, 1} /\ At(k) = <<k, At(k)[2]>> /\ boot[k] \in Nat
      /\ boot[k] < (At(k)[2] + 1) * StepsPerPort
  BY LoaderAt
<1>2. At(k)[1] = k /\ At(k) \in Port
  BY <1>1 DEF Port
<1>3. (At(k)[2] + 1) * StepsPerPort \in Nat
  BY <1>1, StartUpLength
<1> QED BY <1>1, <1>2, <1>3 DEF Ready

(* An access keeps what is asked for, and the value to be handed back.     *)
LEMMA PerformKeepsRequests ==
  ASSUME CallsInv, NEW c \in Caller, Perform(c)
  PROVE  \A w \in User : Request(w)' = Request(w)
<1>1. call \in [Caller -> CallRecord]
  BY DEF CallsInv, TypeOK
<1>2. call'[c].value = call[c].value
  <2>1. CASE GetStep(c)
    <3>1. PICK v : call' = [call EXCEPT ![c].got = <<@[2], v>>, ![c].pc = @ + 1]
      BY <2>1 DEF GetStep
    <3> QED BY <1>1, <3>1 DEF CallRecord
  <2>2. CASE SaveLcrStep(c)
    BY <1>1, <2>2 DEF SaveLcrStep, CallRecord
  <2>3. CASE ReadFcrStep(c)
    BY <1>1, <2>3 DEF ReadFcrStep, CallRecord
  <2>4. CASE Advance(c)
    BY <1>1, <2>4 DEF Advance, CallRecord
  <2>5. SaveLcrStep(c) \/ ReadFcrStep(c) \/ GetStep(c) \/ Advance(c)
    BY DEF Perform, ClearLcrStep, RestoreLcrStep, SetLcrStep, SelectStep, PutStep,
           PutAcrStep, ShadowStep, PutTwoStep, WriteFcrStep, RaiseFcrStep,
           PinsStep, WriteBackStep, StoreFcr
  <2> QED BY <2>1, <2>2, <2>3, <2>4, <2>5
<1>3. \A w \in User : w \in Caller /\ SameCall(w) /\ (w # c => call'[w] = call[w])
  BY PerformedCalls DEF Caller
<1> QED BY <1>2, <1>3, RequestKept DEF SameCall, At

(* An access is work on the setting that its call sets, or a step of the   *)
(* start-up, or nothing.                                                   *)
LEMMA PerformImplements ==
  ASSUME IInv, RegistersInv, BoardHeld, SettingsHeld, NEW c \in Caller, Perform(c)
  PROVE  \/ UNCHANGED Promise!vars
         \/ c \in User /\ Promise!Work(c)
         \/ c \in Card /\ Promise!StartUp(At(c))
<1>1. Served /\ Attributed /\ DtrHeld /\ FcrFollowsCall
  BY DEF RegistersInv, BoardHeld, SettingsHeld
<1>2. Busy(c) /\ At(c) \in Port /\ boot' = boot
  BY PerformingAt, PerformedPort DEF IInv
<1>3. \A w \in User : Request(w)' = Request(w)
  BY PerformKeepsRequests DEF IInv
<1>4. \A q \in Port, n \in SettingName :
        Setting(q)'[n] # Setting(q)[n] => Sets(c, n) /\ q = At(c)
  BY <1>1, PerformChanges
<1>5. CASE c \in Card
  <2>1. PICK q \in Port : q = At(c)
    BY <1>2
  <2>2. \A r \in Port : Ready(r)' = Ready(r)
    BY <1>2 DEF Ready
  <2>3. ~Ready(q) /\ ~Ready(q)'
    BY <1>1, <1>2, <1>5, <2>1, <2>2, LoaderUnready
  <2>4. Promise!StartUp(q)
    BY <1>3, <1>4, <2>1, <2>2, <2>3, Starts
  <2> QED BY <1>5, <2>1, <2>4
<1>6. CASE c \in User /\ \E n \in SettingName : Sets(c, n)
  <2>1. PICK name \in SettingName : Sets(c, name)
    BY <1>6
  <2>2. \A n : Sets(c, n) => n = name
    BY <2>1 DEF Sets
  <2>3. \A q \in Port, n \in SettingName :
          Setting(q)'[n] # Setting(q)[n] => n = name /\ q = At(c)
    BY <1>4, <2>2
  <2> QED BY <1>2, <1>3, <1>6, <2>1, <2>3, Works
<1>7. CASE ~(\E n \in SettingName : Sets(c, n))
  <2>1. \A q \in Port : Setting(q)' = Setting(q)
    <3> SUFFICES ASSUME NEW q \in Port PROVE Setting(q)' = Setting(q)
      OBVIOUS
    <3>1. \A n \in SettingName : Setting(q)'[n] = Setting(q)[n]
      BY <1>4, <1>7
    <3> QED BY <3>1 DEF Setting, SettingName
  <2> QED BY <1>2, <1>3, <2>1, Stays
<1> QED BY <1>5, <1>6, <1>7 DEF Caller

(* A return ends a user's request, and is a step of a loader's start-up.   *)
LEMMA ReturnImplements ==
  ASSUME IInv, RegistersInv, BoardHeld, SettingsHeld, NEW c \in Caller, Return(c)
  PROVE  IF c \in User THEN Promise!End(c) ELSE Promise!StartUp(At(c))
<1>1. /\ Served /\ Attributed /\ PutsLand /\ AcrFollowsCall
      /\ AloneOnCard /\ FcrFollowsCall
      /\ ShadowLands /\ FcrLands /\ GetsKept /\ Whole
  BY DEF RegistersInv, BoardHeld, SettingsHeld
<1>2. PICK v \in Replies(c) : call' = [call EXCEPT ![c] = Idle(call[c].status, v)]
  BY DEF Return
<1>3. /\ \A d \in Caller : d # c => call'[d] = call[d]
      /\ Busy(c) /\ ~Busy(c)' /\ At(c) \in Port /\ call[c].pc = Len(call[c].steps) + 1
  BY Returned
<1>4. call'[c].status = call[c].status /\ call'[c].value = v
  <2>1. call \in [Caller -> CallRecord]
    BY DEF IInv, CallsInv, TypeOK
  <2>2. call'[c] = Idle(call[c].status, v)
    BY <1>2, <2>1
  <2> QED BY <2>2 DEF Idle
<1>5. \A q \in Port : Setting(q)' = Setting(q)
  BY SettingSame DEF Return, hardware
<1>6. \A w \in User \ {c} : Request(w)' = Request(w)
  BY <1>3, RequestKept DEF Caller
<1>7. CASE c \in User
  <2>1. boot' = boot
    BY <1>7, CallerAssumption DEF Return
  <2>2. call[c].kind \in {"set", "get"}
    BY <1>1, <1>3, <1>7 DEF Attributed, IInv, CallsInv, TypeOK, CallRecord, Busy
  <2>3. ASSUME call[c].status = 0, call[c].name \in SettingName
        PROVE  IF call[c].kind = "set"
               THEN Setting(At(c))[call[c].name] = Wanted(call[c].name, call[c].arg)
               ELSE call'[c].value = Setting(At(c))[call[c].name]
    <3>1. CASE call[c].kind = "set"
      <4>1. Sets(c, call[c].name)
        BY <1>3, <2>3, <3>1 DEF Sets
      <4> QED BY <1>1, <1>3, <2>3, <3>1, <4>1, SetDone
    <3>2. CASE call[c].kind = "get"
      <4>1. Replies(c) = {Setting(At(c))[call[c].name]}
        BY <1>1, <1>3, <1>7, <2>3, <3>2, GetDone
      <4> QED BY <1>2, <1>4, <3>2, <4>1
    <3> QED BY <2>2, <3>1, <3>2
  <2>4. Promise!End(c)
    BY <1>3, <1>4, <1>5, <1>6, <1>7, <2>1, <2>3, Ends
  <2> QED BY <1>7, <2>4
<1>8. CASE c \notin User
  <2>1. c \in Card
    BY <1>8 DEF Caller
  <2>2. PICK p \in Port : p = At(c)
    BY <1>3
  <2>3. ~Ready(p)
    BY <1>1, <1>3, <2>1, <2>2, LoaderUnready
  <2>4. \A q \in Port, m \in 1..StepsPerPort :
          /\ (q[2] + 1) * StepsPerPort = q[2] * StepsPerPort + StepsPerPort
          /\ q[2] * StepsPerPort + StepsPerPort >= q[2] * StepsPerPort + m
    <3> SUFFICES ASSUME NEW q \in Port, NEW m \in 1..StepsPerPort
                 PROVE  /\ (q[2] + 1) * StepsPerPort = q[2] * StepsPerPort + StepsPerPort
                        /\ q[2] * StepsPerPort + StepsPerPort >= q[2] * StepsPerPort + m
      OBVIOUS
    <3>1. q[2] \in {0, 1} /\ StepsPerPort \in {9, 10}
      BY StartUpLength DEF Port
    <3>2. CASE q[2] = 0
      BY <3>1, <3>2
    <3>3. CASE q[2] = 1
      BY <3>1, <3>3
    <3> QED BY <3>1, <3>2, <3>3
  <2>5. \A q \in Port : q # p => Ready(q)' = Ready(q)
    <3>1. \A q \in Port : Ready(q) = Programmed(q, StepsPerPort) /\ Ready(q)' = Programmed(q, StepsPerPort)'
      <4>1. StepsPerPort \in 1..StepsPerPort
        BY StartUpLength
      <4> QED BY <2>4, <4>1 DEF Ready, Programmed
    <3>2. StepsPerPort \in 1..StepsPerPort
      BY StartUpLength
    <3>3. ASSUME NEW q \in Port, q # p PROVE Programmed(q, StepsPerPort)' <=> Programmed(q, StepsPerPort)
      BY <1>1, <2>2, <3>2, <3>3, NewlyProgrammed
    <3>4. \A q \in Port : q # p => (Programmed(q, StepsPerPort)' = Programmed(q, StepsPerPort))
      BY <3>3 DEF Programmed
    <3> QED BY <3>1, <3>4
  <2>6. ASSUME Ready(p)', NEW n \in DOMAIN Defaults PROVE Setting(p)'[n] = Defaults[n]
    <3>1. PlaceOf[n] \in 1..StepsPerPort
      BY Places
    <3>2. boot'[p[1]] \in Int
      <4>1. boot \in [Card -> 0..2 * StepsPerPort] /\ p[1] = c
        BY <1>1, <1>3, <2>1, <2>2, LoaderUnready DEF IInv, CallsInv, TypeOK
      <4>2. boot'[p[1]] = boot[c] + 1
        BY <2>1, <4>1 DEF Return
      <4> QED BY <2>1, <4>1, <4>2, StartUpLength
    <3>3. p[2] * StepsPerPort \in Int /\ StepsPerPort \in Int
      BY StartUpLength DEF Port
    <3>4. Programmed(p, PlaceOf[n])'
      BY <2>4, <2>6, <3>1, <3>2, <3>3 DEF Ready, Programmed
    <3> QED BY <1>5, <2>3, <3>4, DefaultDone
  <2>7. \A w \in User : Request(w)' = Request(w)
    BY <1>6, <1>8
  <2>8. Promise!StartUp(p)
    BY <1>5, <2>3, <2>5, <2>6, <2>7, Starts
  <2> QED BY <1>8, <2>2, <2>8
<1> QED BY <1>7, <1>8

(* Every port has some setting, and none has been started.                 *)
LEMMA InitImplements == Init => Promise!Init
<1> SUFFICES ASSUME Init PROVE Promise!Init
  OBVIOUS
<1>1. icr \in [Port -> [IcrReg -> Byte]] /\ acr \in [Port -> {0, 16}]
  BY InitIInv DEF IInv, CallsInv, TypeOK
<1>2. \A p \in Port : Setting(p) \in [SettingName -> Int]
  <2> SUFFICES ASSUME NEW p \in Port PROVE Setting(p) \in [SettingName -> Int]
    OBVIOUS
  <2>1. \A r \in IcrReg : icr[p][r] \in 0..255
    BY <1>1 DEF Byte
  <2>2. /\ icr[p]["TCR"] \in Int /\ icr[p]["TTL"] % 128 \in Int /\ icr[p]["RTL"] % 128 \in Int
        /\ icr[p]["FLR"] + 1 \in Int
    <3>1. \A r \in {"TCR", "TTL", "RTL", "FLR"} : icr[p][r] \in 0..255
      BY <2>1, SMTT(30) DEF IcrReg
    <3>2. \A v \in 0..255 : v \in Int /\ v % 128 \in Int /\ v + 1 \in Int
      OBVIOUS
    <3> QED BY <3>1, <3>2
  <2>3. Rs485(p) \in Int
    BY DEF Rs485, Torn
  <2>4. Isochronous(p) \in Int
    <3> DEFINE holds == [m \in -1..10 |-> icr[p]["CKS"] = Cks(m) /\ icr[p]["MDM"] = Mdm(m)]
    <3>1. Isochronous(p) = OneOf(holds, -1..10)
      BY DEF Isochronous
    <3> HIDE DEF holds
    <3> QED BY <3>1 DEF OneOf, Torn
  <2>5. ExternalTransmit(p) \in Int
    <3>1. icr[p]["EXTH"] \in 0..255 /\ icr[p]["EXT"] \in 0..255
      BY <2>1 DEF IcrReg
    <3>2. icr[p]["EXTH"] % 32 \in Int
      BY <3>1
    <3>3. (icr[p]["EXTH"] % 32) * 256 + icr[p]["EXT"] \in Int
      BY <3>1, <3>2
    <3> QED BY <3>3 DEF ExternalTransmit, Torn
  <2> QED BY <2>2, <2>3, <2>4, <2>5 DEF Setting, SettingName
<1>3. \A p \in Port : Ready(p) = FALSE
  <2> SUFFICES ASSUME NEW p \in Port PROVE Ready(p) = FALSE
    OBVIOUS
  <2>1. p[1] \in Card /\ p[2] \in {0, 1} /\ StepsPerPort \in {9, 10}
    BY StartUpLength DEF Port
  <2>2. boot[p[1]] = 0
    BY <2>1 DEF Init
  <2>3. (p[2] + 1) * StepsPerPort > 0
    BY <2>1
  <2> QED BY <2>1, <2>2, <2>3 DEF Ready
<1>4. [p \in Port |-> Ready(p)] = [p \in Port |-> FALSE]
  BY <1>3
<1>5. \A u \in User : ~Promise!Busy(u)
  <2>1. \A u \in User : ~Busy(u)
    BY IdleTyped DEF Init, Busy, Caller
  <2> QED BY <2>1, RequestFields DEF Promise!Busy
<1>6. [p \in Port |-> Setting(p)] \in [Port -> [SettingName -> Int]]
  BY <1>2
<1> QED BY <1>4, <1>5, <1>6 DEF Promise!Init

(* With one call at a time on a card, and the count of external transmit   *)
(* enabled before the driver loads, the driver implements Settings: what   *)
(* KeepsPromise says holds of every instance.                              *)
THEOREM KeepsPromiseHolds ==
  ASSUME Discipline = "card", CountEnabled PROVE Spec => KeepsPromise
<1>1. ASSUME PromiseInv, [Next]_vars PROVE [Promise!Next]_(Promise!vars)
  <2>0. IInv /\ RegistersInv /\ BoardHeld /\ SettingsHeld
    BY <1>1 DEF PromiseInv, FullInv, BoardInv
  <2>1. ASSUME NEW u \in User, NEW p \in Card \X Opened, NEW request \in Calls, Begin(u, p, request)
        PROVE  Promise!Next
    <3>1. u \in Caller /\ p \in Port /\ request.kind # "none"
      BY OpenedAssumption, CallsAssumption DEF Caller, Port
    <3>2. PICK h : Enter(u, p, request, h)
      BY <2>1 DEF Begin
    <3>3. /\ ~Busy(u) /\ MayEnter(p) /\ Ready(p)
          /\ UNCHANGED <<lcr, spr, icr, mode, fcr, acr, cache, boot, line>>
      BY <2>1 DEF Begin, hardware
    <3>4. Promise!Begin(u)
      BY <2>0, <3>1, <3>2, <3>3, EnterImplements
    <3> QED BY <3>4 DEF Promise!Next
  <2>2. ASSUME NEW k \in Card, BeginBoot(k) PROVE UNCHANGED Promise!vars
    <3> DEFINE i == (boot[k] % StepsPerPort) + 1
               p == <<k, boot[k] \div StepsPerPort>>
               request == serialfc_port_new[i]
    <3>1. boot[k] \in Nat /\ boot[k] < 2 * StepsPerPort /\ 1 \in 1..StepsPerPort
      BY <2>0, <2>2, StartUpLength DEF IInv, CallsInv, TypeOK, BeginBoot
    <3>2. i \in 1..StepsPerPort /\ boot[k] \div StepsPerPort \in {0, 1}
      BY <3>1, BootArithmetic
    <3>3. k \in Caller /\ k \notin User /\ p \in Port /\ request.kind # "none"
      BY <3>2, StartUpCalls, CallerAssumption DEF Caller, Port
    <3>4. PICK h : Enter(k, p, request, h)
      BY <2>2 DEF BeginBoot
    <3>5. /\ ~Busy(k) /\ MayEnter(p)
          /\ UNCHANGED <<lcr, spr, icr, mode, fcr, acr, cache, boot, line>>
      BY <2>2 DEF BeginBoot, hardware
    <3> HIDE DEF i, p, request
    <3> QED BY <2>0, <3>3, <3>4, <3>5, EnterImplements
  <2>3. ASSUME NEW c \in Caller, Perform(c) PROVE [Promise!Next]_(Promise!vars)
    <3>1. \/ UNCHANGED Promise!vars
          \/ c \in User /\ Promise!Work(c)
          \/ c \in Card /\ Promise!StartUp(At(c))
      BY <2>0, <2>3, PerformImplements
    <3>2. At(c) \in Port
      BY <2>0, <2>3, PerformingAt DEF IInv
    <3> QED BY <3>1, <3>2 DEF Promise!Next
  <2>4. ASSUME NEW c \in Caller, Return(c) PROVE Promise!Next
    <3>1. IF c \in User THEN Promise!End(c) ELSE Promise!StartUp(At(c))
      BY <2>0, <2>4, ReturnImplements
    <3>2. At(c) \in Port
      BY <2>0, <2>4, Returned
    <3> QED BY <3>1, <3>2 DEF Promise!Next
  <2>5. ASSUME UNCHANGED <<icr, fcr, boot, call>> PROVE UNCHANGED Promise!vars
    <3>1. \A q \in Port : Setting(q)' = Setting(q)
      BY <2>5, SettingSame
    <3>2. \A w \in User : Request(w)' = Request(w)
      BY <2>5, RequestKept
    <3> QED BY <2>5, <3>1, <3>2, Stays
  <2>6. ASSUME NEW p \in Card \X Opened, NEW v \in Line, TtySetLine(p, v) PROVE UNCHANGED Promise!vars
    BY <2>5, <2>6 DEF TtySetLine
  <2>7. CASE UNCHANGED vars
    BY <2>5, <2>7 DEF vars
  <2> QED BY <1>1, <2>1, <2>2, <2>3, <2>4, <2>6, <2>7 DEF Next
<1>2. Spec => []PromiseInv
  BY PromiseInvariance
<1>3. Init => Promise!Init
  BY InitImplements
<1> QED BY <1>1, <1>2, <1>3, PTL DEF Spec, KeepsPromise, Promise!Spec
=============================================================================
