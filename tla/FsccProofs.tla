----------------------------- MODULE FsccProofs -----------------------------
(***************************************************************************)
(* Proofs about FSCC ports, for every set of cards, users, calls and       *)
(* register values, under a discipline that keeps two calls off one port.  *)
(***************************************************************************)
EXTENDS FsccInvariant, TLAPS

-----------------------------------------------------------------------------
(* The handlers.                                                           *)

(* Every access constructor yields a well-typed access.                    *)
LEMMA AccessTypes ==
  /\ SaveLcr \in Accesses
  /\ ClearLcr \in Accesses
  /\ RestoreLcr \in Accesses
  /\ ReadFcr \in Accesses
  /\ Pins \in Accesses
  /\ WriteBack \in Accesses
  /\ \A v \in Byte : SetLcr(v) \in Accesses /\ PutTwo(v) \in Accesses
  /\ \A r \in IcrReg : Select(r) \in Accesses /\ Get(r) \in Accesses
  /\ \A r \in IcrReg, v \in Int : Put(r, v) \in Accesses
  /\ \A v \in {0, 64} : PutAcr(v) \in Accesses
  /\ \A v \in {0, 16} : ShadowAcr(v) \in Accesses
  /\ \A b \in FcrName, v \in Int : WriteFcr(b, v) \in Accesses /\ RaiseFcr(b) \in Accesses
<1>1. ASSUME NEW io \in IcrIo \cup OtherIo, NEW r \in RegName, NEW v \in Int,
             io \in IcrIo \cup {"select"} => r \in IcrReg,
             io \in {"put", "set_lcr", "offset_two"} => v \in Byte,
             io = "put_acr" => r = "ACR" /\ v \in {0, 64},
             io = "shadow" => v \in {0, 16},
             io \in {"write_fcr", "raise_fcr"} => r \in FcrName
      PROVE  Access(io, r, v) \in Accesses
  <2> DEFINE a == Access(io, r, v)
  <2>1. a \in [io : IcrIo \cup OtherIo, reg : RegName, val : Int]
    BY DEF Access
  <2>2. a.io = io /\ a.reg = r /\ a.val = v
    BY DEF Access
  <2>3. /\ a.io \in IcrIo \cup {"select"} => a.reg \in IcrReg
        /\ a.io \in {"put", "set_lcr", "offset_two"} => a.val \in Byte
        /\ a.io = "put_acr" => a.reg = "ACR" /\ a.val \in {0, 64}
        /\ a.io = "shadow" => a.val \in {0, 16}
        /\ a.io \in {"write_fcr", "raise_fcr"} => a.reg \in FcrName
    BY <1>1, <2>2
  <2> HIDE DEF a
  <2>4. a \in Accesses
    BY <2>1, <2>3 DEF Accesses
  <2> QED BY <2>4 DEF a
<1>2. SaveLcr \in Accesses
  BY <1>1 DEF SaveLcr, IcrIo, OtherIo, RegName, IcrReg, FcrName
<1>3. ClearLcr \in Accesses /\ RestoreLcr \in Accesses
  BY <1>1 DEF ClearLcr, RestoreLcr, IcrIo, OtherIo, RegName, IcrReg, FcrName
<1>4. ReadFcr \in Accesses /\ Pins \in Accesses /\ WriteBack \in Accesses
  BY <1>1 DEF ReadFcr, Pins, WriteBack, IcrIo, OtherIo, RegName, IcrReg, FcrName
<1>5. \A v \in Byte : SetLcr(v) \in Accesses /\ PutTwo(v) \in Accesses
  BY <1>1 DEF SetLcr, PutTwo, Byte, IcrIo, OtherIo, RegName, IcrReg, FcrName
<1>6. \A r \in IcrReg : Select(r) \in Accesses /\ Get(r) \in Accesses
  BY <1>1 DEF Select, Get, IcrIo, OtherIo, RegName, IcrReg, FcrName
<1>7. \A r \in IcrReg, v \in Int : Put(r, v) \in Accesses
  BY <1>1 DEF Put, IcrReg, Byte, IcrIo, OtherIo, RegName, IcrReg, FcrName
<1>8. \A v \in {0, 64} : PutAcr(v) \in Accesses
  BY <1>1 DEF PutAcr, IcrIo, OtherIo, RegName, IcrReg, FcrName
<1>9. \A v \in {0, 16} : ShadowAcr(v) \in Accesses
  BY <1>1 DEF ShadowAcr, IcrIo, OtherIo, RegName, IcrReg, FcrName
<1>10. \A b \in FcrName, v \in Int : WriteFcr(b, v) \in Accesses /\ RaiseFcr(b) \in Accesses
  BY <1>1 DEF WriteFcr, RaiseFcr, IcrIo, OtherIo, RegName, IcrReg, FcrName
<1> QED BY <1>2, <1>3, <1>4, <1>5, <1>6, <1>7, <1>8, <1>9, <1>10

Handled(h) == h.steps \in Seq(Accesses) /\ h.status \in Int /\ Framed(h.steps)

(* A refusal makes no access.                                              *)
LEMMA RefusalHandled ==
  ASSUME NEW e \in Int PROVE Handled(Refuse(e)) /\ Handled(Do(<< >>))
<1>1. << >> \in Seq(Accesses) /\ Framed(<< >>)
  BY DEF Framed, Cleared
<1> QED BY <1>1 DEF Handled, Refuse, Do

(* Every handler of the indexed registers keeps its accesses framed.       *)
LEMMA SettersHandled ==
  ASSUME NEW v \in Int
  PROVE  /\ Handled(fastcom_set_sample_rate_fscc(v))
         /\ Handled(fastcom_set_tx_trigger_fscc(v))
         /\ Handled(fastcom_set_rx_trigger_fscc(v))
         /\ Handled(fastcom_set_isochronous_fscc(v))
         /\ Handled(fastcom_set_external_transmit_fscc(v))
         /\ Handled(fastcom_set_frame_length_fscc(v))
         /\ Handled(fastcom_set_rs485_fscc(v))
         /\ Handled(fastcom_set_echo_cancel_fscc(v))
<1> DEFINE one(r, x) == <<SaveLcr, ClearLcr, Select(r), Put(r, x), RestoreLcr>>
           two(q, x, r, y) == <<SaveLcr, ClearLcr, Select(q), Put(q, x), Select(r), Put(r, y), RestoreLcr>>
<1>1. ASSUME NEW r \in IcrReg, NEW x \in Int PROVE Handled(Do(one(r, x)))
  <2>1. one(r, x) \in Seq(Accesses)
    BY AccessTypes
  <2>2. Framed(one(r, x))
    BY SMTT(30) DEF Framed, Cleared, Selected, Saved, IcrIo, Access, SaveLcr, ClearLcr, RestoreLcr, Select, Put
  <2> QED BY <2>1, <2>2 DEF Handled, Do
<1>2. ASSUME NEW q \in IcrReg, NEW r \in IcrReg, NEW x \in Int, NEW y \in Int
      PROVE  Handled(Do(two(q, x, r, y)))
  <2>1. two(q, x, r, y) \in Seq(Accesses)
    BY AccessTypes
  <2>2. Framed(two(q, x, r, y))
    BY SMTT(60) DEF Framed, Cleared, Selected, Saved, IcrIo, Access, SaveLcr, ClearLcr, RestoreLcr, Select, Put
  <2> QED BY <2>1, <2>2 DEF Handled, Do
<1>3. Handled(Refuse(EINVAL)) /\ Handled(Refuse(EPROTONOSUPPORT))
  BY RefusalHandled DEF EINVAL, EPROTONOSUPPORT
<1>4. Mdm(v) \in Int /\ Cks(v) \in Int
  BY DEF Mdm, Cks, CksReceive, CksTransmit
<1>5. Handled(fastcom_set_sample_rate_fscc(v))
  BY <1>1, <1>3 DEF fastcom_set_sample_rate_fscc, IcrReg
<1>6. Handled(fastcom_set_tx_trigger_fscc(v)) /\ Handled(fastcom_set_rx_trigger_fscc(v))
  BY <1>1, <1>3 DEF fastcom_set_tx_trigger_fscc, fastcom_set_rx_trigger_fscc, IcrReg
<1>7. Handled(fastcom_set_isochronous_fscc(v))
  BY <1>2, <1>3, <1>4 DEF fastcom_set_isochronous_fscc, IcrReg
<1>8. Handled(fastcom_set_external_transmit_fscc(v))
  <2> DEFINE exth == IF v = 0 THEN 0 ELSE 128 + v \div 256
  <2>1. exth \in Int /\ "EXTH" \in IcrReg /\ "EXT" \in IcrReg
    BY DEF IcrReg
  <2>2. Handled(Do(two("EXTH", exth, "EXT", v)))
    BY <1>2, <2>1
  <2> QED BY <2>2, <1>3 DEF fastcom_set_external_transmit_fscc
<1>9. Handled(fastcom_set_frame_length_fscc(v))
  BY <1>1, <1>3 DEF fastcom_set_frame_length_fscc, IcrReg
<1>10. Handled(fastcom_set_rs485_fscc(v))
  <2> DEFINE s == <<SaveLcr, ReadFcr, ClearLcr, Select("ACR"),
                    ShadowAcr(IF v = 0 THEN 0 ELSE 16), PutAcr(0),
                    WriteFcr("rs485", v), RestoreLcr>>
  <2>1. s \in Seq(Accesses)
    BY AccessTypes DEF IcrReg, FcrName
  <2>2. Framed(s)
    BY SMTT(60) DEF Framed, Cleared, Selected, Saved, IcrIo, Access, SaveLcr, ClearLcr, RestoreLcr,
           Select, ReadFcr, ShadowAcr, PutAcr, WriteFcr
  <2> QED BY <2>1, <2>2 DEF Handled, Do, fastcom_set_rs485_fscc
<1>11. Handled(fastcom_set_echo_cancel_fscc(v))
  <2>1. <<ReadFcr, WriteFcr("echo", v)>> \in Seq(Accesses)
    BY AccessTypes DEF FcrName
  <2>2. Framed(<<ReadFcr, WriteFcr("echo", v)>>)
    BY DEF Framed, Cleared, Selected, Saved, IcrIo, Access, ReadFcr, WriteFcr
  <2> QED BY <2>1, <2>2 DEF Handled, Do, fastcom_set_echo_cancel_fscc
<1> QED BY <1>5, <1>6, <1>7, <1>8, <1>9, <1>10, <1>11

(* Every getter does, while it turns ICR reads on and off again.           *)
LEMMA GettersHandled ==
  /\ Handled(fastcom_get_tx_trigger_fscc)
  /\ Handled(fastcom_get_rx_trigger_fscc)
  /\ Handled(fastcom_get_isochronous_fscc)
  /\ Handled(fastcom_get_external_transmit_fscc)
  /\ Handled(fastcom_get_frame_length_fscc)
  /\ Handled(fastcom_get_rs485_fscc)
  /\ Handled(fastcom_get_echo_cancel_fscc)
<1> DEFINE one(r) == <<SaveLcr, ClearLcr, Select("ACR"), PutAcr(64), Select(r), Get(r),
                       Select("ACR"), PutAcr(0), RestoreLcr>>
<1>1. ASSUME NEW r \in IcrReg PROVE Handled(Do(one(r)))
  <2>1. one(r) \in Seq(Accesses)
    BY AccessTypes DEF IcrReg
  <2>2. Framed(one(r))
    BY SMTT(60) DEF Framed, Cleared, Selected, Saved, IcrIo, Access, SaveLcr, ClearLcr, RestoreLcr,
           Select, PutAcr, Get
  <2> QED BY <2>1, <2>2 DEF Handled, Do
<1>2. Handled(fastcom_get_tx_trigger_fscc) /\ Handled(fastcom_get_rx_trigger_fscc)
  BY <1>1 DEF fastcom_get_tx_trigger_fscc, fastcom_get_rx_trigger_fscc, IcrReg
<1>3. Handled(fastcom_get_isochronous_fscc)
  BY <1>1 DEF fastcom_get_isochronous_fscc, IcrReg
<1>4. Handled(fastcom_get_frame_length_fscc)
  BY <1>1, RefusalHandled DEF fastcom_get_frame_length_fscc, IcrReg, EPROTONOSUPPORT
<1>5. Handled(fastcom_get_external_transmit_fscc)
  <2> DEFINE s == <<SaveLcr, ClearLcr, Select("ACR"), PutAcr(64), Select("EXT"), Get("EXT"),
                    Select("EXTH"), Get("EXTH"), Select("ACR"), PutAcr(0), RestoreLcr>>
  <2>1. s \in Seq(Accesses)
    BY AccessTypes DEF IcrReg
  <2>2. Framed(s)
    BY DEF Framed, Cleared, Selected, Saved, IcrIo, Access, SaveLcr, ClearLcr, RestoreLcr,
           Select, PutAcr, Get
  <2> QED BY <2>1, <2>2 DEF Handled, Do, fastcom_get_external_transmit_fscc
<1>6. Handled(fastcom_get_rs485_fscc) /\ Handled(fastcom_get_echo_cancel_fscc)
  <2>1. <<ReadFcr>> \in Seq(Accesses)
    BY AccessTypes
  <2>2. Framed(<<ReadFcr>>)
    BY DEF Framed, Cleared, Selected, Saved, IcrIo, Access, ReadFcr
  <2> QED BY <2>1, <2>2 DEF Handled, Do, fastcom_get_rs485_fscc, fastcom_get_echo_cancel_fscc
<1> QED BY <1>2, <1>3, <1>4, <1>5, <1>6

(* So do start-up and the loading of the clock chip.                       *)
LEMMA BoardHandled ==
  /\ Handled(fastcom_init_triggers)
  /\ Handled(fscc_enable_async_mode)
  /\ \A h \in fastcom_set_clock_bits_fscc : Handled(h)
<1>1. Handled(fastcom_init_triggers)
  <2> DEFINE s == <<PutTwo(1), SetLcr(191), PutTwo(16), ShadowAcr(0)>>
  <2>1. s \in Seq(Accesses)
    BY AccessTypes DEF Byte
  <2>2. Framed(s)
    BY DEF Framed, Cleared, Selected, Saved, IcrIo, Access, PutTwo, SetLcr, ShadowAcr
  <2> QED BY <2>1, <2>2 DEF Handled, Do, fastcom_init_triggers
<1>2. Handled(fscc_enable_async_mode)
  <2>1. <<ReadFcr, RaiseFcr("async")>> \in Seq(Accesses)
    BY AccessTypes DEF FcrName
  <2>2. Framed(<<ReadFcr, RaiseFcr("async")>>)
    BY DEF Framed, Cleared, Selected, Saved, IcrIo, Access, ReadFcr, RaiseFcr
  <2> QED BY <2>1, <2>2 DEF Handled, Do, fscc_enable_async_mode
<1>3. \A h \in fastcom_set_clock_bits_fscc : Handled(h)
  <2> DEFINE s == <<ReadFcr, Pins, Pins, WriteBack>>
  <2>1. s \in Seq(Accesses)
    BY AccessTypes
  <2>2. Framed(s)
    BY DEF Framed, Cleared, Selected, Saved, IcrIo, Access, ReadFcr, Pins, WriteBack
  <2>3. Handled(Refuse(NoMemory))
    BY RefusalHandled DEF NoMemory
  <2>4. Handled(Do(s))
    BY <2>1, <2>2 DEF Handled, Do
  <2>5. fastcom_set_clock_bits_fscc = {Refuse(NoMemory), Do(s)}
    BY DEF fastcom_set_clock_bits_fscc
  <2> QED BY <2>3, <2>4, <2>5
<1> QED BY <1>1, <1>2, <1>3

(* What serialfc_port_new and the users ask for is handled.                *)
LEMMA RequestsHandled ==
  ASSUME NEW request,
         \/ request \in Calls
         \/ \E i \in 1..StepsPerPort : request = serialfc_port_new[i],
         NEW h \in Handlers(request)
  PROVE  /\ Handled(h)
         /\ request.kind \in {"set", "get", "boot"}
         /\ request.name \in CallName
         /\ request.arg \in Int
<1>1. /\ request.kind \in {"set", "get", "boot"}
      /\ request.name \in CallName
      /\ request.arg \in Int
  <2>1. CASE request \in Calls
    BY <2>1, CallsAssumption DEF CallName
  <2>2. CASE \E i \in 1..StepsPerPort : request = serialfc_port_new[i]
    BY <2>2 DEF serialfc_port_new, StepsPerPort, Call, CallName, SettingName, OtherName
  <2> QED BY <2>1, <2>2
<1>2. \A e \in {EPROTONOSUPPORT} : Handled(Refuse(e))
  BY RefusalHandled DEF EPROTONOSUPPORT
<1>3. Handled(Do(<< >>))
  BY RefusalHandled
<1>4. CASE request.kind = "set"
  <2>1. h \in Setter(request.name, request.arg)
    BY <1>4 DEF Handlers
  <2>2. Handled(h)
    BY <1>1, <1>2, <2>1, SettersHandled, BoardHandled DEF Setter
  <2> QED BY <1>1, <2>2
<1>5. CASE request.kind = "get"
  <2>1. h = Getter(request.name)
    BY <1>5 DEF Handlers
  <2> DEFINE rest == {Do(<< >>), Refuse(EPROTONOSUPPORT), fastcom_get_tx_trigger_fscc,
                      fastcom_get_rx_trigger_fscc, fastcom_get_isochronous_fscc,
                      fastcom_get_external_transmit_fscc, fastcom_get_frame_length_fscc,
                      fastcom_get_rs485_fscc, fastcom_get_echo_cancel_fscc}
  <2>2. Getter(request.name) \in rest
    BY SMTT(30) DEF Getter
  <2>3. \A x \in rest : Handled(x)
    BY <1>2, <1>3, GettersHandled
  <2> QED BY <1>1, <2>1, <2>2, <2>3
<1>6. CASE request.kind = "boot"
  <2>1. h = Boot(request.name)
    BY <1>6 DEF Handlers
  <2>2. Handled(h)
    BY <2>1, BoardHandled DEF Boot
  <2> QED BY <1>1, <2>2
<1> QED BY <1>1, <1>4, <1>5, <1>6

-----------------------------------------------------------------------------
(* Sequences of accesses.                                                  *)

(* How Cleared, Selected and Saved change as a call advances.              *)
LEMMA Advancing ==
  ASSUME NEW s \in Seq(Accesses), NEW n \in 1..Len(s), NEW r \in IcrReg
  PROVE  /\ Cleared(s, n + 1) <=> \/ s[n].io = "clear_lcr"
                                  \/ Cleared(s, n) /\ s[n].io \notin {"restore_lcr", "set_lcr"}
         /\ Selected(s, n + 1, r) <=> \/ s[n].io = "select" /\ s[n].reg = r
                                      \/ Selected(s, n, r) /\ s[n].io # "select"
         /\ Saved(s, n + 1) <=> Saved(s, n) \/ s[n].io = "save_lcr"
<1> n \in Nat \ {0} /\ n + 1 - 1 = n
  OBVIOUS
<1>1. Cleared(s, n + 1) <=> \/ s[n].io = "clear_lcr"
                            \/ Cleared(s, n) /\ s[n].io \notin {"restore_lcr", "set_lcr"}
  BY DEF Cleared
<1>2. Selected(s, n + 1, r) <=> \/ s[n].io = "select" /\ s[n].reg = r
                                \/ Selected(s, n, r) /\ s[n].io # "select"
  BY DEF Selected
<1>3. Saved(s, n + 1) <=> Saved(s, n) \/ s[n].io = "save_lcr"
  BY DEF Saved
<1> QED BY <1>1, <1>2, <1>3

(* Nothing has happened before the first access.                           *)
LEMMA AtTheStart ==
  ASSUME NEW s PROVE ~Cleared(s, 1) /\ ~Saved(s, 1) /\ \A r \in IcrReg : ~Selected(s, 1, r)
BY DEF Cleared, Saved, Selected

-----------------------------------------------------------------------------
(* Advancing a call.                                                       *)

(* What is known of a caller about to make an access.                      *)
LEMMA DoingFacts ==
  ASSUME CallsInv, NEW c \in Caller, NEW io, Doing(c, io)
  PROVE  /\ Busy(c) /\ At(c) \in Port /\ At(c)[1] \in Card /\ At(c)[2] \in {0, 1}
         /\ call[c] \in CallRecord
         /\ call[c].steps \in Seq(Accesses) /\ call[c].pc \in 1..Len(call[c].steps)
         /\ Pending(c) \in Accesses /\ Pending(c).io = io
         /\ Framed(call[c].steps)
<1>1. call[c] \in CallRecord
  BY DEF CallsInv, TypeOK
<1>2. call[c].steps \in Seq(Accesses) /\ call[c].pc \in 1..Len(call[c].steps) /\ At(c) \in Port
  BY <1>1 DEF CallRecord, Doing, At
<1>3. call[c].steps[call[c].pc] \in Accesses
  BY <1>2
<1>4. Busy(c) /\ Pending(c).io = io /\ Framed(call[c].steps)
  BY DEF CallsInv, WellFormed, Doing
<1>5. At(c)[1] \in Card /\ At(c)[2] \in {0, 1}
  BY <1>2 DEF Port
<1> QED BY <1>1, <1>2, <1>3, <1>4, <1>5 DEF Pending

\* Caller c goes on to its next access; the rest of its call may change too.
Advances(c, record) ==
  /\ record \in CallRecord
  /\ call' = [call EXCEPT ![c] = record]
  /\ record.kind = call[c].kind
  /\ record.port = call[c].port
  /\ record.steps = call[c].steps
  /\ record.pc = call[c].pc + 1

(* What every access leaves alone: the other calls, and who works where.   *)
LEMMA Advanced ==
  ASSUME CallsInv, NEW c \in Caller, NEW io, Doing(c, io), NEW record, Advances(c, record)
  PROVE  /\ call' \in [Caller -> CallRecord]
         /\ \A d \in Caller : /\ Busy(d)' = Busy(d) /\ At(d)' = At(d)
                              /\ call'[d].steps = call[d].steps
                              /\ d # c => call'[d] = call[d]
         /\ call'[c] = record
         /\ Exclusive' /\ WellFormed'
<1>1. Busy(c) /\ call[c].pc <= Len(call[c].steps) /\ call[c] \in CallRecord
      /\ call[c].steps \in Seq(Accesses)
  BY DoingFacts DEF CallRecord
<1>2. call \in [Caller -> CallRecord]
  BY DEF CallsInv, TypeOK
<1>3. call' \in [Caller -> CallRecord] /\ call'[c] = record
  BY <1>2 DEF Advances
<1>4. \A d \in Caller : d # c => call'[d] = call[d]
  BY <1>2 DEF Advances
<1>5. \A d \in Caller : /\ Busy(d)' = Busy(d) /\ At(d)' = At(d)
                        /\ call'[d].steps = call[d].steps
  BY <1>1, <1>3, <1>4 DEF Advances, Busy, At
<1>6. Exclusive'
  BY <1>5 DEF CallsInv, Exclusive
<1>7. WellFormed'
  <2> SUFFICES ASSUME NEW d \in Caller, Busy(d)'
               PROVE  Framed(call'[d].steps) /\ call'[d].pc <= Len(call'[d].steps) + 1
    BY DEF WellFormed
  <2>1. CASE d = c
    <3>1. Framed(call[c].steps) /\ call[c].pc \in Nat /\ Len(call[c].steps) \in Nat
      BY <1>1 DEF CallsInv, WellFormed, CallRecord
    <3> QED BY <1>1, <1>3, <2>1, <3>1 DEF Advances
  <2>2. CASE d # c
    BY <1>4, <1>5, <2>2 DEF CallsInv, WellFormed
  <2> QED BY <2>1, <2>2
<1> QED BY <1>3, <1>4, <1>5, <1>6, <1>7

(* Another caller under way is on another port and does not move.          *)
LEMMA Undisturbed ==
  ASSUME CallsInv, NEW c \in Caller, NEW io, Doing(c, io), NEW record, Advances(c, record),
         NEW d \in Caller, d # c, Busy(d)'
  PROVE  /\ At(d) # At(c) /\ Busy(d) /\ At(d)' = At(d) /\ call'[d] = call[d]
         /\ At(d) \in Port
<1>1. Busy(d) /\ At(d)' = At(d) /\ call'[d] = call[d]
  BY Advanced
<1>2. Busy(c)
  BY DoingFacts
<1>3. At(d) # At(c)
  BY <1>1, <1>2 DEF CallsInv, Exclusive
<1>4. At(d) \in Port
  BY DEF CallsInv, TypeOK, CallRecord, At
<1> QED BY <1>1, <1>3, <1>4

\* The call record r one access later, with what that access may have read.
Moved(r, orig_lcr, orig_fcr, bytes) ==
  [kind |-> r.kind, name |-> r.name, arg |-> r.arg, port |-> r.port, steps |-> r.steps,
   pc |-> r.pc + 1, status |-> r.status, lcr |-> orig_lcr, fcr |-> orig_fcr,
   got |-> bytes, value |-> r.value]

(* The four ways in which an access changes its call record.               *)
LEMMA MovedTypes ==
  ASSUME NEW r \in CallRecord, NEW l \in Byte, NEW f \in SUBSET FcrBit, NEW b \in Byte \X Byte
  PROVE  /\ Moved(r, l, f, b) \in CallRecord
         /\ r.lcr \in Byte /\ r.fcr \in SUBSET FcrBit /\ r.got \in Byte \X Byte
         /\ [r EXCEPT !.pc = @ + 1] = Moved(r, r.lcr, r.fcr, r.got)
         /\ [r EXCEPT !.lcr = l, !.pc = @ + 1] = Moved(r, l, r.fcr, r.got)
         /\ [r EXCEPT !.fcr = f, !.pc = @ + 1] = Moved(r, r.lcr, f, r.got)
         /\ [r EXCEPT !.got = b, !.pc = @ + 1] = Moved(r, r.lcr, r.fcr, b)
<1>1. r.lcr \in Byte /\ r.fcr \in SUBSET FcrBit /\ r.got \in Byte \X Byte
  BY DEF CallRecord
<1>2. r.pc + 1 \in Nat \ {0}
  BY DEF CallRecord
<1>3. Moved(r, l, f, b) \in CallRecord
  BY <1>1, <1>2 DEF CallRecord, Moved
<1> DEFINE same == [kind |-> r.kind, name |-> r.name, arg |-> r.arg, port |-> r.port, steps |-> r.steps,
             pc |-> r.pc, status |-> r.status, lcr |-> r.lcr, fcr |-> r.fcr, got |-> r.got,
             value |-> r.value]
<1>0. r = same
  BY DEF CallRecord
<1>4. [r EXCEPT !.pc = @ + 1] = Moved(r, r.lcr, r.fcr, r.got)
  BY DEF CallRecord, Moved
<1>5. [r EXCEPT !.lcr = l, !.pc = @ + 1] = Moved(r, l, r.fcr, r.got)
  <2> DEFINE q == [kind |-> r.kind, name |-> r.name, arg |-> r.arg, port |-> r.port, 
        steps |-> r.steps, pc |-> r.pc, status |-> r.status, lcr |-> l, fcr |-> r.fcr, got |-> r.got, value |-> r.value]
  <2>1. [r EXCEPT !.lcr = l] = q
    <3>1. [same EXCEPT !.lcr = l] = q
      OBVIOUS
    <3> HIDE DEF same, q
    <3> QED BY <1>0, <3>1
  <2>2. [q EXCEPT !.pc = @ + 1] = Moved(r, l, r.fcr, r.got)
    BY DEF Moved
  <2>3. [r EXCEPT !.lcr = l, !.pc = @ + 1] = [q EXCEPT !.pc = @ + 1]
    BY <2>1
  <2> QED BY <2>2, <2>3
<1>6. [r EXCEPT !.fcr = f, !.pc = @ + 1] = Moved(r, r.lcr, f, r.got)
  <2> DEFINE q == [kind |-> r.kind, name |-> r.name, arg |-> r.arg, port |-> r.port, 
        steps |-> r.steps, pc |-> r.pc, status |-> r.status, lcr |-> r.lcr, fcr |-> f, got |-> r.got, value |-> r.value]
  <2>1. [r EXCEPT !.fcr = f] = q
    <3>1. [same EXCEPT !.fcr = f] = q
      OBVIOUS
    <3> HIDE DEF same, q
    <3> QED BY <1>0, <3>1
  <2>2. [q EXCEPT !.pc = @ + 1] = Moved(r, r.lcr, f, r.got)
    BY DEF Moved
  <2>3. [r EXCEPT !.fcr = f, !.pc = @ + 1] = [q EXCEPT !.pc = @ + 1]
    BY <2>1
  <2> QED BY <2>2, <2>3
<1>7. [r EXCEPT !.got = b, !.pc = @ + 1] = Moved(r, r.lcr, r.fcr, b)
  <2> DEFINE q == [kind |-> r.kind, name |-> r.name, arg |-> r.arg, port |-> r.port, 
        steps |-> r.steps, pc |-> r.pc, status |-> r.status, lcr |-> r.lcr, fcr |-> r.fcr, got |-> b, value |-> r.value]
  <2>1. [r EXCEPT !.got = b] = q
    <3>1. [same EXCEPT !.got = b] = q
      OBVIOUS
    <3> HIDE DEF same, q
    <3> QED BY <1>0, <3>1
  <2>2. [q EXCEPT !.pc = @ + 1] = Moved(r, r.lcr, r.fcr, b)
    BY DEF Moved
  <2>3. [r EXCEPT !.got = b, !.pc = @ + 1] = [q EXCEPT !.pc = @ + 1]
    BY <2>1
  <2> QED BY <2>2, <2>3
<1> QED BY <1>1, <1>3, <1>4, <1>5, <1>6, <1>7

(* A call record moved on by one access is one that Advances allows.       *)
LEMMA MovedAdvances ==
  ASSUME CallsInv, NEW c \in Caller, NEW io, Doing(c, io),
         NEW l \in Byte, NEW f \in SUBSET FcrBit, NEW b \in Byte \X Byte,
         call' = [call EXCEPT ![c] = Moved(call[c], l, f, b)]
  PROVE  Advances(c, Moved(call[c], l, f, b)) /\ Moved(call[c], l, f, b).lcr = l
<1>1. Moved(call[c], l, f, b) \in CallRecord
  BY DoingFacts, MovedTypes
<1> QED BY <1>1 DEF Advances, Moved

(* Advance itself.                                                         *)
LEMMA AdvanceAdvances ==
  ASSUME CallsInv, NEW c \in Caller, NEW io, Doing(c, io), Advance(c)
  PROVE  \E record : Advances(c, record) /\ record.lcr = call[c].lcr
<1> DEFINE r == call[c]
<1>1. r \in CallRecord
  BY DoingFacts
<1>2. r.lcr \in Byte /\ r.fcr \in SUBSET FcrBit /\ r.got \in Byte \X Byte
  BY <1>1 DEF CallRecord
<1>3. [r EXCEPT !.pc = @ + 1] = Moved(r, r.lcr, r.fcr, r.got)
  BY <1>1, <1>2, MovedTypes
<1>4. call' = [call EXCEPT ![c] = [r EXCEPT !.pc = @ + 1]]
  BY DEF Advance
<1> DEFINE record == Moved(r, r.lcr, r.fcr, r.got)
<1>5. call' = [call EXCEPT ![c] = record]
  BY <1>3, <1>4
<1>6. Advances(c, record) /\ record.lcr = r.lcr
  BY <1>2, <1>5, MovedAdvances, ZenonT(60)
<1> QED BY <1>6

(* The part of the invariant that speaks of LCR, after one access.         *)
LEMMA LcrAfterStep ==
  ASSUME CallsInv, NEW c \in Caller, NEW io, Doing(c, io), NEW record, Advances(c, record),
         lcr' \in [Port -> Byte], line' \in [Port -> Byte],
         \A p \in Port : p # At(c) => lcr'[p] = lcr[p] /\ line'[p] = line[p],
         lcr'[At(c)] = IF Cleared(call[c].steps, call[c].pc + 1) THEN 0 ELSE line'[At(c)],
         Saved(call[c].steps, call[c].pc + 1) => record.lcr = line'[At(c)]
  PROVE  LcrFollowsCall' /\ LcrRestored'
<1>1. LcrFollowsCall'
  <2> SUFFICES ASSUME NEW d \in Caller, Busy(d)'
               PROVE  /\ lcr'[At(d)'] = IF Cleared(call'[d].steps, call'[d].pc) THEN 0 ELSE line'[At(d)']
                      /\ Saved(call'[d].steps, call'[d].pc) => call'[d].lcr = line'[At(d)']
    BY DEF LcrFollowsCall
  <2>1. CASE d = c
    BY <2>1, Advanced, ZenonT(60) DEF Advances
  <2>2. CASE d # c
    <3>1. At(d) # At(c) /\ Busy(d) /\ At(d)' = At(d) /\ call'[d] = call[d] /\ At(d) \in Port
      BY <2>2, Undisturbed
    <3> QED BY <3>1 DEF CallsInv, LcrFollowsCall
  <2> QED BY <2>1, <2>2
<1>2. LcrRestored'
  <2> SUFFICES ASSUME NEW p \in Port, Quiet(p)' PROVE lcr'[p] = line'[p]
    BY DEF LcrRestored
  <2>1. p # At(c) /\ Quiet(p)
    BY Advanced, DoingFacts DEF Quiet
  <2> QED BY <2>1 DEF CallsInv, LcrRestored
<1> QED BY <1>1, <1>2

(* The part of the invariant that speaks of SPR, after one access.         *)
LEMMA SprAfterStep ==
  ASSUME CallsInv, NEW c \in Caller, NEW io, Doing(c, io), NEW record, Advances(c, record),
         \A p \in Port : p # At(c) => spr'[p] = spr[p],
         \A r \in IcrReg : Selected(call[c].steps, call[c].pc + 1, r) => spr'[At(c)] = r
  PROVE  SprFollowsCall'
<1> SUFFICES ASSUME NEW d \in Caller, NEW r \in IcrReg, Busy(d)',
                    Selected(call'[d].steps, call'[d].pc, r)
             PROVE  spr'[At(d)'] = r
  BY DEF SprFollowsCall
<1>1. CASE d = c
  <2>1. At(d)' = At(c) /\ call'[d] = record
    BY <1>1, Advanced
  <2>2. record.steps = call[c].steps /\ record.pc = call[c].pc + 1
    BY DEF Advances
  <2> QED BY <2>1, <2>2
<1>2. CASE d # c
  <2>1. At(d) # At(c) /\ Busy(d) /\ At(d)' = At(d) /\ call'[d] = call[d] /\ At(d) \in Port
    BY <1>2, Undisturbed
  <2> QED BY <2>1 DEF CallsInv, SprFollowsCall
<1> QED BY <1>1, <1>2

\* The conjuncts of CallsInv but TypeOK, with the type of call.
Shape == Exclusive /\ WellFormed /\ LcrFollowsCall /\ SprFollowsCall /\ LcrRestored

(* An access that leaves LCR and SPR alone.                                *)
LEMMA PlainStep ==
  ASSUME CallsInv, NEW c \in Caller, NEW io, Doing(c, io), NEW record, Advances(c, record),
         io \notin {"save_lcr", "clear_lcr", "restore_lcr", "set_lcr", "select"},
         record.lcr = call[c].lcr,
         UNCHANGED <<lcr, spr, line>>
  PROVE  call' \in [Caller -> CallRecord] /\ Shape'
<1> DEFINE s == call[c].steps
           n == call[c].pc
<1>1. /\ s \in Seq(Accesses) /\ n \in 1..Len(s) /\ s[n].io = io /\ Busy(c) /\ At(c) \in Port
  BY DoingFacts DEF Pending
<1>2. /\ Cleared(s, n + 1) <=> Cleared(s, n)
      /\ Saved(s, n + 1) <=> Saved(s, n)
      /\ \A r \in IcrReg : Selected(s, n + 1, r) <=> Selected(s, n, r)
  <2>1. "ACR" \in IcrReg
    BY DEF IcrReg
  <2> HIDE DEF s, n
  <2> QED BY <1>1, <2>1, Advancing
<1>3. lcr' \in [Port -> Byte] /\ line' \in [Port -> Byte]
  BY DEF CallsInv, TypeOK
<1>4. /\ lcr[At(c)] = IF Cleared(s, n) THEN 0 ELSE line[At(c)]
      /\ Saved(s, n) => call[c].lcr = line[At(c)]
  BY <1>1 DEF CallsInv, LcrFollowsCall
<1>5. LcrFollowsCall' /\ LcrRestored'
  BY <1>2, <1>3, <1>4, LcrAfterStep
<1>6. \A r \in IcrReg : Selected(s, n, r) => spr[At(c)] = r
  BY <1>1 DEF CallsInv, SprFollowsCall
<1>7. SprFollowsCall'
  BY <1>2, <1>6, SprAfterStep
<1> QED BY <1>5, <1>7, Advanced DEF Shape

-----------------------------------------------------------------------------
(* Each access keeps the invariant.                                        *)

(* orig_lcr = ioread8(LCR): what is saved is the value LCR was given for   *)
(* good, because no other call works on the port.                          *)
LEMMA SaveLcrKeeps == ASSUME CallsInv, NEW c \in Caller, SaveLcrStep(c) PROVE CallsInv'
<1> DEFINE s == call[c].steps
           n == call[c].pc
<1>1. Doing(c, "save_lcr") /\ UNCHANGED <<lcr, spr, icr, mode, fcr, acr, cache, boot, line>>
  BY DEF SaveLcrStep, hardware
<1>2. /\ s \in Seq(Accesses) /\ n \in 1..Len(s) /\ s[n].io = "save_lcr" /\ Framed(s)
      /\ Busy(c) /\ At(c) \in Port /\ call[c] \in CallRecord
  BY <1>1, DoingFacts DEF Pending
<1>3. PICK record : Advances(c, record) /\ record.lcr = lcr[At(c)]
  <2> DEFINE r == call[c]
  <2>1. lcr[At(c)] \in Byte /\ r.fcr \in SUBSET FcrBit /\ r.got \in Byte \X Byte
    BY <1>2 DEF CallsInv, TypeOK, CallRecord
  <2>2. [r EXCEPT !.lcr = lcr[At(c)], !.pc = @ + 1] = Moved(r, lcr[At(c)], r.fcr, r.got)
    BY <1>2, <2>1, MovedTypes
  <2>3. call' = [call EXCEPT ![c] = [r EXCEPT !.lcr = lcr[At(c)], !.pc = @ + 1]]
    BY DEF SaveLcrStep
  <2>4. call' = [call EXCEPT ![c] = Moved(r, lcr[At(c)], r.fcr, r.got)]
    BY <2>2, <2>3
  <2>5. /\ Advances(c, Moved(r, lcr[At(c)], r.fcr, r.got))
        /\ Moved(r, lcr[At(c)], r.fcr, r.got).lcr = lcr[At(c)]
    BY <1>1, <2>1, <2>4, MovedAdvances
  <2> QED BY <2>5
<1>4. /\ ~Cleared(s, n) /\ ~Cleared(s, n + 1)
      /\ \A r \in IcrReg : Selected(s, n + 1, r) <=> Selected(s, n, r)
  <2>1. ~Cleared(s, n)
    BY <1>2 DEF Framed
  <2>2. "ACR" \in IcrReg
    BY DEF IcrReg
  <2> HIDE DEF s, n
  <2> QED BY <1>2, <2>1, <2>2, Advancing
<1>5. lcr[At(c)] = line[At(c)] /\ \A r \in IcrReg : Selected(s, n, r) => spr[At(c)] = r
  BY <1>2, <1>4 DEF CallsInv, LcrFollowsCall, SprFollowsCall
<1>6. lcr' \in [Port -> Byte] /\ line' \in [Port -> Byte]
  BY <1>1 DEF CallsInv, TypeOK
<1>7. LcrFollowsCall' /\ LcrRestored'
  BY <1>1, <1>3, <1>4, <1>5, <1>6, LcrAfterStep
<1>8. SprFollowsCall'
  BY <1>1, <1>3, <1>4, <1>5, SprAfterStep
<1>9. call' \in [Caller -> CallRecord] /\ Exclusive' /\ WellFormed'
  BY <1>1, <1>3, Advanced
<1>10. TypeOK'
  BY <1>1, <1>9 DEF CallsInv, TypeOK
<1> QED BY <1>7, <1>8, <1>9, <1>10 DEF CallsInv

(* iowrite8(0, LCR): the port is indexed until the call gives LCR back.    *)
LEMMA ClearLcrKeeps == ASSUME CallsInv, NEW c \in Caller, ClearLcrStep(c) PROVE CallsInv'
<1> DEFINE s == call[c].steps
           n == call[c].pc
<1>1. /\ Doing(c, "clear_lcr") /\ Advance(c)
      /\ lcr' = [lcr EXCEPT ![At(c)] = 0]
      /\ UNCHANGED <<spr, icr, mode, fcr, acr, cache, boot, line>>
  BY DEF ClearLcrStep
<1>2. /\ s \in Seq(Accesses) /\ n \in 1..Len(s) /\ s[n].io = "clear_lcr"
      /\ Busy(c) /\ At(c) \in Port
  BY <1>1, DoingFacts DEF Pending
<1>3. PICK record : Advances(c, record) /\ record.lcr = call[c].lcr
  BY <1>1, AdvanceAdvances
<1>4. /\ Cleared(s, n + 1)
      /\ Saved(s, n + 1) <=> Saved(s, n)
      /\ \A r \in IcrReg : Selected(s, n + 1, r) <=> Selected(s, n, r)
  <2>1. "ACR" \in IcrReg
    BY DEF IcrReg
  <2> HIDE DEF s, n
  <2> QED BY <1>2, <2>1, Advancing
<1>5. /\ Saved(s, n) => call[c].lcr = line[At(c)]
      /\ \A r \in IcrReg : Selected(s, n, r) => spr[At(c)] = r
  BY <1>2 DEF CallsInv, LcrFollowsCall, SprFollowsCall
<1>6. /\ lcr' \in [Port -> Byte] /\ line' \in [Port -> Byte] /\ lcr'[At(c)] = 0
      /\ \A p \in Port : p # At(c) => lcr'[p] = lcr[p]
  <2>1. lcr \in [Port -> Byte] /\ line \in [Port -> Byte]
    BY DEF CallsInv, TypeOK
  <2>2. 0 \in Byte
    BY DEF Byte
  <2> QED BY <1>1, <1>2, <2>1, <2>2
<1>7. LcrFollowsCall' /\ LcrRestored'
  BY <1>1, <1>3, <1>4, <1>5, <1>6, LcrAfterStep
<1>8. SprFollowsCall'
  BY <1>1, <1>3, <1>4, <1>5, SprAfterStep
<1>9. call' \in [Caller -> CallRecord] /\ Exclusive' /\ WellFormed'
  BY <1>1, <1>3, Advanced
<1>10. TypeOK'
  BY <1>1, <1>6, <1>9 DEF CallsInv, TypeOK
<1> QED BY <1>7, <1>8, <1>9, <1>10 DEF CallsInv

(* iowrite8(orig_lcr, LCR) gives back what the same call saved before.     *)
LEMMA RestoreLcrKeeps == ASSUME CallsInv, NEW c \in Caller, RestoreLcrStep(c) PROVE CallsInv'
<1> DEFINE s == call[c].steps
           n == call[c].pc
<1>1. /\ Doing(c, "restore_lcr") /\ Advance(c)
      /\ lcr' = [lcr EXCEPT ![At(c)] = call[c].lcr]
      /\ UNCHANGED <<spr, icr, mode, fcr, acr, cache, boot, line>>
  BY DEF RestoreLcrStep
<1>2. /\ s \in Seq(Accesses) /\ n \in 1..Len(s) /\ s[n].io = "restore_lcr" /\ Framed(s)
      /\ Busy(c) /\ At(c) \in Port /\ call[c].lcr \in Byte
  BY <1>1, DoingFacts DEF Pending, CallRecord
<1>3. PICK record : Advances(c, record) /\ record.lcr = call[c].lcr
  BY <1>1, AdvanceAdvances
<1>4. /\ ~Cleared(s, n + 1) /\ Saved(s, n)
      /\ \A r \in IcrReg : Selected(s, n + 1, r) <=> Selected(s, n, r)
  <2>1. Saved(s, n)
    BY <1>2 DEF Framed
  <2>2. "ACR" \in IcrReg
    BY DEF IcrReg
  <2> HIDE DEF s, n
  <2> QED BY <1>2, <2>1, <2>2, Advancing
<1>5. /\ call[c].lcr = line[At(c)]
      /\ \A r \in IcrReg : Selected(s, n, r) => spr[At(c)] = r
  BY <1>2, <1>4 DEF CallsInv, LcrFollowsCall, SprFollowsCall
<1>6. /\ lcr' \in [Port -> Byte] /\ line' \in [Port -> Byte] /\ lcr'[At(c)] = call[c].lcr
      /\ \A p \in Port : p # At(c) => lcr'[p] = lcr[p]
  <2>1. lcr \in [Port -> Byte] /\ line \in [Port -> Byte]
    BY DEF CallsInv, TypeOK
  <2> QED BY <1>1, <1>2, <2>1
<1>7. LcrFollowsCall' /\ LcrRestored'
  BY <1>1, <1>3, <1>4, <1>5, <1>6, LcrAfterStep
<1>8. SprFollowsCall'
  BY <1>1, <1>3, <1>4, <1>5, SprAfterStep
<1>9. call' \in [Caller -> CallRecord] /\ Exclusive' /\ WellFormed'
  BY <1>1, <1>3, Advanced
<1>10. TypeOK'
  BY <1>1, <1>6, <1>9 DEF CallsInv, TypeOK
<1> QED BY <1>7, <1>8, <1>9, <1>10 DEF CallsInv

(* init_triggers leaves LCR at 0xbf; no call that saved LCR does so.       *)
LEMMA SetLcrKeeps == ASSUME CallsInv, NEW c \in Caller, SetLcrStep(c) PROVE CallsInv'
<1> DEFINE s == call[c].steps
           n == call[c].pc
           v == Pending(c).val
<1>1. /\ Doing(c, "set_lcr") /\ Advance(c)
      /\ lcr' = [lcr EXCEPT ![At(c)] = v] /\ line' = [line EXCEPT ![At(c)] = v]
      /\ UNCHANGED <<spr, icr, mode, fcr, acr, cache, boot>>
  BY DEF SetLcrStep
<1>2. /\ s \in Seq(Accesses) /\ n \in 1..Len(s) /\ s[n].io = "set_lcr" /\ Framed(s)
      /\ Busy(c) /\ At(c) \in Port /\ v \in Byte
  BY <1>1, DoingFacts, SMTT(30) DEF Pending, Accesses
<1>3. PICK record : Advances(c, record) /\ record.lcr = call[c].lcr
  BY <1>1, AdvanceAdvances
<1>4. /\ ~Cleared(s, n + 1) /\ ~Saved(s, n + 1)
      /\ \A r \in IcrReg : Selected(s, n + 1, r) <=> Selected(s, n, r)
  <2>1. ~Saved(s, n)
    BY <1>2 DEF Framed
  <2>2. "ACR" \in IcrReg
    BY DEF IcrReg
  <2> HIDE DEF s, n
  <2> QED BY <1>2, <2>1, <2>2, Advancing
<1>5. \A r \in IcrReg : Selected(s, n, r) => spr[At(c)] = r
  BY <1>2 DEF CallsInv, SprFollowsCall
<1>6. /\ lcr' \in [Port -> Byte] /\ line' \in [Port -> Byte] /\ lcr'[At(c)] = v /\ line'[At(c)] = v
      /\ \A p \in Port : p # At(c) => lcr'[p] = lcr[p] /\ line'[p] = line[p]
  <2>1. lcr \in [Port -> Byte] /\ line \in [Port -> Byte]
    BY DEF CallsInv, TypeOK
  <2> QED BY <1>1, <1>2, <2>1
<1>7. LcrFollowsCall' /\ LcrRestored'
  BY <1>1, <1>3, <1>4, <1>6, LcrAfterStep
<1>8. SprFollowsCall'
  BY <1>1, <1>3, <1>4, <1>5, SprAfterStep
<1>9. call' \in [Caller -> CallRecord] /\ Exclusive' /\ WellFormed'
  BY <1>1, <1>3, Advanced
<1>10. TypeOK'
  BY <1>1, <1>6, <1>9 DEF CallsInv, TypeOK
<1> QED BY <1>7, <1>8, <1>9, <1>10 DEF CallsInv

(* Writing SPR while LCR is cleared selects the register that is meant.    *)
LEMMA SelectKeeps == ASSUME CallsInv, NEW c \in Caller, SelectStep(c) PROVE CallsInv'
<1> DEFINE s == call[c].steps
           n == call[c].pc
           q == Pending(c).reg
<1>1. /\ Doing(c, "select") /\ Advance(c)
      /\ spr' = IF Indexed(At(c)) THEN [spr EXCEPT ![At(c)] = q] ELSE spr
      /\ UNCHANGED <<lcr, icr, mode, fcr, acr, cache, boot, line>>
  BY DEF SelectStep
<1>2. /\ s \in Seq(Accesses) /\ n \in 1..Len(s) /\ s[n].io = "select" /\ Framed(s)
      /\ Busy(c) /\ At(c) \in Port /\ s[n].reg = q /\ q \in IcrReg
  BY <1>1, DoingFacts, SMTT(30) DEF Pending, Accesses
<1>3. PICK record : Advances(c, record) /\ record.lcr = call[c].lcr
  BY <1>1, AdvanceAdvances
<1>4. /\ Cleared(s, n) /\ Cleared(s, n + 1)
      /\ \A r \in IcrReg : Selected(s, n + 1, r) => r = q
  <2>1. Cleared(s, n)
    BY <1>2 DEF Framed
  <2> HIDE DEF s, n
  <2> QED BY <1>2, <2>1, Advancing
<1>5. Saved(s, n + 1) <=> Saved(s, n)
  <2> HIDE DEF s, n
  <2> QED BY <1>2, Advancing
<1>6. /\ lcr[At(c)] = 0
      /\ Saved(s, n) => call[c].lcr = line[At(c)]
  BY <1>2, <1>4 DEF CallsInv, LcrFollowsCall
<1>7. spr' = [spr EXCEPT ![At(c)] = q]
  BY <1>1, <1>6 DEF Indexed
<1>8. /\ spr' \in [Port -> IcrReg] /\ spr'[At(c)] = q
      /\ \A p \in Port : p # At(c) => spr'[p] = spr[p]
  <2>1. spr \in [Port -> IcrReg]
    BY DEF CallsInv, TypeOK
  <2> QED BY <1>2, <1>7, <2>1
<1>9. lcr' \in [Port -> Byte] /\ line' \in [Port -> Byte]
  BY <1>1 DEF CallsInv, TypeOK
<1>10. LcrFollowsCall' /\ LcrRestored'
  BY <1>1, <1>3, <1>4, <1>5, <1>6, <1>9, LcrAfterStep
<1>11. SprFollowsCall'
  BY <1>1, <1>3, <1>4, <1>8, SprAfterStep
<1>12. call' \in [Caller -> CallRecord] /\ Exclusive' /\ WellFormed'
  BY <1>1, <1>3, Advanced
<1>13. TypeOK'
  BY <1>1, <1>8, <1>12 DEF CallsInv, TypeOK
<1> QED BY <1>10, <1>11, <1>12, <1>13 DEF CallsInv

(* A byte written through ICR leaves a byte in some register.              *)
LEMMA StoreTypes ==
  ASSUME TypeOK, NEW p \in Port, NEW v \in Byte, StoreIcr(p, v)
  PROVE  icr' \in [Port -> [IcrReg -> Byte]]
<1>1. icr \in [Port -> [IcrReg -> Byte]] /\ spr[p] \in IcrReg
  BY DEF TypeOK
<1> QED BY <1>1 DEF StoreIcr

(* A write through ICR changes neither LCR nor SPR.                        *)
LEMMA PutKeeps == ASSUME CallsInv, NEW c \in Caller, PutStep(c) PROVE CallsInv'
<1>1. /\ Doing(c, "put") /\ Advance(c)
      /\ StoreIcr(At(c), Pending(c).val)
      /\ UNCHANGED <<lcr, spr, mode, fcr, acr, cache, boot, line>>
  BY DEF PutStep
<1>2. PICK record : Advances(c, record) /\ record.lcr = call[c].lcr
  BY <1>1, AdvanceAdvances
<1>3. call' \in [Caller -> CallRecord] /\ Shape'
  BY <1>1, <1>2, PlainStep
<1>4. icr' \in [Port -> [IcrReg -> Byte]]
  <2>1. At(c) \in Port /\ Pending(c).val \in Byte
    BY <1>1, DoingFacts DEF Accesses
  <2> QED BY <1>1, <2>1, StoreTypes DEF CallsInv
<1>5. TypeOK'
  BY <1>1, <1>3, <1>4 DEF CallsInv, TypeOK
<1> QED BY <1>3, <1>5 DEF CallsInv, Shape

(* The shadow of ACR, with or without the read enable, is a byte.          *)
LEMMA PutAcrKeeps == ASSUME CallsInv, NEW c \in Caller, PutAcrStep(c) PROVE CallsInv'
<1>1. /\ Doing(c, "put_acr") /\ Advance(c)
      /\ StoreIcr(At(c), acr[At(c)] + Pending(c).val)
      /\ UNCHANGED <<lcr, spr, mode, fcr, acr, cache, boot, line>>
  BY DEF PutAcrStep
<1>2. PICK record : Advances(c, record) /\ record.lcr = call[c].lcr
  BY <1>1, AdvanceAdvances
<1>3. call' \in [Caller -> CallRecord] /\ Shape'
  BY <1>1, <1>2, PlainStep
<1>4. icr' \in [Port -> [IcrReg -> Byte]]
  <2>1. At(c) \in Port /\ Pending(c).val \in {0, 64}
    BY <1>1, DoingFacts DEF Accesses
  <2>2. acr[At(c)] \in {0, 16}
    BY <2>1 DEF CallsInv, TypeOK
  <2>3. acr[At(c)] + Pending(c).val \in Byte
    BY <2>1, <2>2 DEF Byte
  <2> QED BY <1>1, <2>1, <2>3, StoreTypes DEF CallsInv
<1>5. TypeOK'
  BY <1>1, <1>3, <1>4 DEF CallsInv, TypeOK
<1> QED BY <1>3, <1>5 DEF CallsInv, Shape

(* port->ACR takes one of its two values.                                  *)
LEMMA ShadowKeeps == ASSUME CallsInv, NEW c \in Caller, ShadowStep(c) PROVE CallsInv'
<1>1. /\ Doing(c, "shadow") /\ Advance(c)
      /\ acr' = [acr EXCEPT ![At(c)] = Pending(c).val]
      /\ UNCHANGED <<lcr, spr, icr, mode, fcr, cache, boot, line>>
  BY DEF ShadowStep, hardware
<1>2. PICK record : Advances(c, record) /\ record.lcr = call[c].lcr
  BY <1>1, AdvanceAdvances
<1>3. call' \in [Caller -> CallRecord] /\ Shape'
  BY <1>1, <1>2, PlainStep
<1>4. acr' \in [Port -> {0, 16}]
  <2>1. At(c) \in Port /\ Pending(c).val \in {0, 16}
    BY <1>1, DoingFacts DEF Accesses
  <2> QED BY <1>1, <2>1 DEF CallsInv, TypeOK
<1>5. TypeOK'
  BY <1>1, <1>3, <1>4 DEF CallsInv, TypeOK
<1> QED BY <1>3, <1>5 DEF CallsInv, Shape

(* Offset 2 is FCR or EFR, a byte either way.                              *)
LEMMA PutTwoKeeps == ASSUME CallsInv, NEW c \in Caller, PutTwoStep(c) PROVE CallsInv'
<1>1. /\ Doing(c, "offset_two") /\ Advance(c)
      /\ mode' = [mode EXCEPT ![At(c)][IF Indexed(At(c)) THEN "fifo" ELSE "efr"] = Pending(c).val]
      /\ UNCHANGED <<lcr, spr, icr, fcr, acr, cache, boot, line>>
  BY DEF PutTwoStep
<1>2. PICK record : Advances(c, record) /\ record.lcr = call[c].lcr
  BY <1>1, AdvanceAdvances
<1>3. call' \in [Caller -> CallRecord] /\ Shape'
  BY <1>1, <1>2, PlainStep
<1>4. mode' \in [Port -> [{"fifo", "efr"} -> Byte]]
  <2>1. At(c) \in Port /\ Pending(c).val \in Byte
    BY <1>1, DoingFacts DEF Accesses
  <2> QED BY <1>1, <2>1 DEF CallsInv, TypeOK
<1>5. TypeOK'
  BY <1>1, <1>3, <1>4 DEF CallsInv, TypeOK
<1> QED BY <1>3, <1>5 DEF CallsInv, Shape

(* Reading the FCR, and every way of writing it.                           *)
LEMMA ReadFcrKeeps == ASSUME CallsInv, NEW c \in Caller, ReadFcrStep(c) PROVE CallsInv'
<1> DEFINE r == call[c]
           f == fcr[At(c)[1]]
           record == Moved(r, r.lcr, f, r.got)
<1>1. Doing(c, "read_fcr") /\ UNCHANGED <<lcr, spr, icr, mode, fcr, acr, cache, boot, line>>
  BY DEF ReadFcrStep, hardware
<1>2. r \in CallRecord /\ At(c)[1] \in Card
  BY <1>1, DoingFacts
<1>3. r.lcr \in Byte /\ f \in SUBSET FcrBit /\ r.got \in Byte \X Byte
  BY <1>2 DEF CallRecord, CallsInv, TypeOK
<1>4. call' = [call EXCEPT ![c] = record]
  <2>1. [r EXCEPT !.fcr = f, !.pc = @ + 1] = record
    BY <1>2, <1>3, MovedTypes
  <2>2. call' = [call EXCEPT ![c] = [r EXCEPT !.fcr = f, !.pc = @ + 1]]
    BY DEF ReadFcrStep
  <2> QED BY <2>1, <2>2
<1>5. Advances(c, record) /\ record.lcr = r.lcr
  BY <1>1, <1>3, <1>4, MovedAdvances
<1>6. call' \in [Caller -> CallRecord] /\ Shape'
  BY <1>1, <1>5, PlainStep
<1>7. TypeOK'
  BY <1>1, <1>6 DEF CallsInv, TypeOK
<1> QED BY <1>6, <1>7 DEF CallsInv, Shape

(* Reading ICR hands the caller a byte, the register or noise.             *)
LEMMA GetKeeps == ASSUME CallsInv, NEW c \in Caller, GetStep(c) PROVE CallsInv'
<1> DEFINE r == call[c]
           p == At(c)
<1>1. Doing(c, "get") /\ UNCHANGED <<lcr, spr, icr, mode, fcr, acr, cache, boot, line>>
  BY DEF GetStep, hardware
<1>2. r \in CallRecord /\ p \in Port
  BY <1>1, DoingFacts
<1>3. PICK v \in Byte : call' = [call EXCEPT ![c] = [r EXCEPT !.got = <<r.got[2], v>>, !.pc = @ + 1]]
  <2>1. icr[p][spr[p]] \in Byte /\ Junk \subseteq Byte
    BY <1>2, BytesAssumption DEF CallsInv, TypeOK
  <2> QED BY <2>1, ZenonT(60) DEF GetStep
<1>4. r.lcr \in Byte /\ r.fcr \in SUBSET FcrBit /\ <<r.got[2], v>> \in Byte \X Byte
  BY <1>2 DEF CallRecord
<1> DEFINE record == Moved(r, r.lcr, r.fcr, <<r.got[2], v>>)
<1>5. call' = [call EXCEPT ![c] = record]
  BY <1>2, <1>3, <1>4, MovedTypes
<1>6. Advances(c, record) /\ record.lcr = r.lcr
  BY <1>1, <1>4, <1>5, MovedAdvances, ZenonT(60)
<1>7. call' \in [Caller -> CallRecord] /\ Shape'
  BY <1>1, <1>6, PlainStep
<1>8. TypeOK'
  BY <1>1, <1>7 DEF CallsInv, TypeOK
<1> QED BY <1>7, <1>8 DEF CallsInv, Shape

(* Whatever a call writes to the FCR, it writes bits the FCR has.          *)
LEMMA StoreFcrKeeps ==
  ASSUME CallsInv, NEW c \in Caller, NEW io \in {"write_fcr", "raise_fcr", "pins", "write_back"},
         Doing(c, io), NEW bits \in SUBSET FcrBit, StoreFcr(c, bits)
  PROVE  CallsInv'
<1>1. /\ fcr' = [fcr EXCEPT ![At(c)[1]] = bits] /\ Advance(c)
      /\ UNCHANGED <<lcr, spr, icr, mode, acr, cache, boot, line>>
  BY DEF StoreFcr
<1>2. PICK record : Advances(c, record) /\ record.lcr = call[c].lcr
  BY <1>1, AdvanceAdvances
<1>3. call' \in [Caller -> CallRecord] /\ Shape'
  BY <1>1, <1>2, PlainStep
<1>4. fcr' \in [Card -> SUBSET FcrBit]
  BY <1>1, DoingFacts DEF CallsInv, TypeOK
<1>5. TypeOK'
  BY <1>1, <1>3, <1>4 DEF CallsInv, TypeOK
<1> QED BY <1>3, <1>5 DEF CallsInv, Shape

(* The four ways of writing the FCR.                                       *)
LEMMA FcrKeeps ==
  ASSUME CallsInv, NEW c \in Caller,
         WriteFcrStep(c) \/ RaiseFcrStep(c) \/ PinsStep(c) \/ WriteBackStep(c)
  PROVE  CallsInv'
<1>1. ASSUME NEW io, Doing(c, io)
      PROVE  /\ call[c].fcr \in SUBSET FcrBit
             /\ \A name \in FcrName, ch \in {0, 1} : FcrMask(name, ch) \in FcrBit
             /\ At(c)[2] \in {0, 1}
             /\ io \in {"write_fcr", "raise_fcr"} => Pending(c).reg \in FcrName
  BY <1>1, DoingFacts, ZenonT(60) DEF CallRecord, FcrMask, FcrBit, Accesses
<1>2. CASE WriteFcrStep(c)
  <2> DEFINE mask == {FcrMask(Pending(c).reg, At(c)[2])}
             bits == IF Pending(c).val # 0 THEN call[c].fcr \cup mask ELSE call[c].fcr \ mask
  <2>1. Doing(c, "write_fcr") /\ StoreFcr(c, bits)
    BY <1>2 DEF WriteFcrStep
  <2>2. bits \in SUBSET FcrBit
    BY <1>1, <2>1
  <2> QED BY <2>1, <2>2, StoreFcrKeeps
<1>3. CASE RaiseFcrStep(c)
  <2> DEFINE bit == FcrMask(Pending(c).reg, At(c)[2])
  <2>1. Doing(c, "raise_fcr")
    BY <1>3 DEF RaiseFcrStep
  <2>2. CASE bit \in call[c].fcr
    <3>1. Advance(c) /\ UNCHANGED <<lcr, spr, icr, mode, fcr, acr, cache, boot, line>>
      BY <1>3, <2>2 DEF RaiseFcrStep, hardware
    <3>2. PICK record : Advances(c, record) /\ record.lcr = call[c].lcr
      BY <2>1, <3>1, AdvanceAdvances
    <3>3. call' \in [Caller -> CallRecord] /\ Shape'
      BY <2>1, <3>1, <3>2, PlainStep
    <3>4. TypeOK'
      BY <3>1, <3>3 DEF CallsInv, TypeOK
    <3> QED BY <3>3, <3>4 DEF CallsInv, Shape
  <2>3. CASE bit \notin call[c].fcr
    <3>1. StoreFcr(c, call[c].fcr \cup {bit})
      BY <1>3, <2>3 DEF RaiseFcrStep
    <3>2. call[c].fcr \cup {bit} \in SUBSET FcrBit
      BY <1>1, <2>1
    <3> QED BY <2>1, <3>1, <3>2, StoreFcrKeeps
  <2> QED BY <2>2, <2>3
<1>4. CASE PinsStep(c)
  <2> DEFINE rest == call[c].fcr \ {FcrMask("clock", 0), FcrMask("clock", 1)}
  <2>1. Doing(c, "pins")
    BY <1>4 DEF PinsStep
  <2>2. PICK high \in SUBSET {FcrMask("clock", At(c)[2])} : StoreFcr(c, rest \cup high)
    BY <1>4 DEF PinsStep
  <2>3. "clock" \in FcrName
    BY DEF FcrName
  <2>4. rest \cup high \in SUBSET FcrBit
    BY <1>1, <2>1, <2>3
  <2> QED BY <2>1, <2>2, <2>4, StoreFcrKeeps
<1>5. CASE WriteBackStep(c)
  <2>1. Doing(c, "write_back") /\ StoreFcr(c, call[c].fcr)
    BY <1>5 DEF WriteBackStep
  <2> QED BY <1>1, <2>1, StoreFcrKeeps
<1> QED BY <1>2, <1>3, <1>4, <1>5

-----------------------------------------------------------------------------
(* Calls begin and return; the tty driver sets LCR.                        *)

(* Both ports of a card take nine or ten calls to start.                   *)
LEMMA StartUpLength == StepsPerPort \in {9, 10} /\ DOMAIN serialfc_port_new = 1..StepsPerPort
BY AsyncAssumption DEF StepsPerPort, serialfc_port_new

\* Caller c takes up or lays down a call; LCR and SPR stay.
Turns(c, record) ==
  /\ record \in CallRecord
  /\ call' = [call EXCEPT ![c] = record]
  /\ UNCHANGED <<lcr, spr, line>>

(* After such a change, the other callers are as they were.                *)
LEMMA Turned ==
  ASSUME CallsInv, NEW c \in Caller, NEW record, Turns(c, record)
  PROVE  /\ call' \in [Caller -> CallRecord]
         /\ call'[c] = record /\ Busy(c)' = (record.kind # "none") /\ At(c)' = record.port
         /\ \A d \in Caller : d # c => call'[d] = call[d] /\ Busy(d)' = Busy(d) /\ At(d)' = At(d)
<1>1. call \in [Caller -> CallRecord]
  BY DEF CallsInv, TypeOK
<1> QED BY <1>1 DEF Turns, Busy, At

(* A call that begins on a quiet port, framed and at its first access.     *)
LEMMA TakenUp ==
  ASSUME CallsInv, NEW c \in Caller, ~Busy(c), NEW record, Turns(c, record),
         record.kind # "none", Quiet(record.port), record.pc = 1, Framed(record.steps)
  PROVE  call' \in [Caller -> CallRecord] /\ Shape'
<1> DEFINE p == record.port
<1>1. /\ call' \in [Caller -> CallRecord]
      /\ call'[c] = record /\ Busy(c)' /\ At(c)' = p
      /\ \A d \in Caller : d # c => call'[d] = call[d] /\ Busy(d)' = Busy(d) /\ At(d)' = At(d)
  BY Turned
<1>2. p \in Port /\ Len(record.steps) \in Nat
  BY DEF Turns, CallRecord
<1>3. \A d \in Caller : Busy(d) => At(d) # p
  BY DEF Quiet
<1>4. Exclusive'
  BY <1>1, <1>3 DEF CallsInv, Exclusive
<1>5. WellFormed'
  BY <1>1, <1>2 DEF CallsInv, WellFormed
<1>6. lcr[p] = line[p]
  BY <1>2 DEF CallsInv, LcrRestored
<1>7. LcrFollowsCall'
  <2> SUFFICES ASSUME NEW d \in Caller, Busy(d)'
               PROVE  /\ lcr'[At(d)'] = IF Cleared(call'[d].steps, call'[d].pc) THEN 0 ELSE line'[At(d)']
                      /\ Saved(call'[d].steps, call'[d].pc) => call'[d].lcr = line'[At(d)']
    BY DEF LcrFollowsCall
  <2>1. CASE d = c
    <3>1. ~Cleared(record.steps, 1) /\ ~Saved(record.steps, 1)
      BY AtTheStart
    <3> QED BY <1>1, <1>6, <2>1, <3>1 DEF Turns
  <2>2. CASE d # c
    BY <1>1, <2>2 DEF CallsInv, LcrFollowsCall, Turns
  <2> QED BY <2>1, <2>2
<1>8. SprFollowsCall'
  <2> SUFFICES ASSUME NEW d \in Caller, NEW r \in IcrReg, Busy(d)',
                      Selected(call'[d].steps, call'[d].pc, r)
               PROVE  spr'[At(d)'] = r
    BY DEF SprFollowsCall
  <2>1. CASE d = c
    BY <1>1, <2>1, AtTheStart
  <2>2. CASE d # c
    BY <1>1, <2>2 DEF CallsInv, SprFollowsCall, Turns
  <2> QED BY <2>1, <2>2
<1>9. LcrRestored'
  <2> SUFFICES ASSUME NEW q \in Port, Quiet(q)' PROVE lcr'[q] = line'[q]
    BY DEF LcrRestored
  <2>1. q # p
    BY <1>1 DEF Quiet
  <2>2. Quiet(q)
    <3> SUFFICES ASSUME NEW d \in Caller, Busy(d), At(d) = q PROVE FALSE
      BY DEF Quiet
    <3>1. d # c
      OBVIOUS
    <3> QED BY <1>1, <3>1 DEF Quiet
  <2> QED BY <2>2 DEF CallsInv, LcrRestored, Turns
<1> QED BY <1>1, <1>4, <1>5, <1>7, <1>8, <1>9 DEF Shape

(* A call that returns has given LCR back, so its port may be left quiet.  *)
LEMMA LaidDown ==
  ASSUME CallsInv, NEW c \in Caller, NEW record, Turns(c, record),
         record.kind = "none", Busy(c), call[c].pc > Len(call[c].steps)
  PROVE  call' \in [Caller -> CallRecord] /\ Shape'
<1> DEFINE s == call[c].steps
<1>1. /\ call' \in [Caller -> CallRecord] /\ ~Busy(c)'
      /\ \A d \in Caller : d # c => call'[d] = call[d] /\ Busy(d)' = Busy(d) /\ At(d)' = At(d)
  BY Turned
<1>2. \A d \in Caller : Busy(d)' => d # c /\ Busy(d) /\ call'[d] = call[d] /\ At(d)' = At(d)
  BY <1>1
<1>3. Exclusive' /\ WellFormed'
  BY <1>2 DEF CallsInv, Exclusive, WellFormed
<1>4. LcrFollowsCall' /\ SprFollowsCall'
  BY <1>2 DEF CallsInv, LcrFollowsCall, SprFollowsCall, Turns
<1>5. lcr[At(c)] = line[At(c)]
  <2>1. /\ call[c].pc = Len(s) + 1
        /\ ~Cleared(s, Len(s) + 1)
    <3>1. Framed(s) /\ call[c].pc <= Len(s) + 1
      BY DEF CallsInv, WellFormed
    <3>2. call[c].pc \in Nat /\ Len(s) \in Nat
      BY DEF CallsInv, TypeOK, CallRecord
    <3> QED BY <3>1, <3>2 DEF Framed
  <2> QED BY <2>1 DEF CallsInv, LcrFollowsCall
<1>6. LcrRestored'
  <2> SUFFICES ASSUME NEW q \in Port, Quiet(q)' PROVE lcr'[q] = line'[q]
    BY DEF LcrRestored
  <2>1. CASE q = At(c)
    BY <1>5, <2>1 DEF Turns
  <2>2. CASE q # At(c)
    <3>1. Quiet(q)
      BY <1>1, <2>2 DEF Quiet
    <3> QED BY <3>1 DEF CallsInv, LcrRestored, Turns
  <2> QED BY <2>1, <2>2
<1> QED BY <1>1, <1>3, <1>4, <1>6 DEF Shape

(* A call enters only a port no other call works on.                       *)
LEMMA EntersQuiet ==
  ASSUME Discipline # "none", NEW p \in Port, MayEnter(p) PROVE Quiet(p)
<1>1. p[1] \in Card /\ p[2] \in {0, 1} /\ p = <<p[1], p[2]>>
  BY DEF Port
<1>2. CASE Discipline = "port"
  BY <1>2 DEF MayEnter
<1>3. CASE Discipline = "card"
  <2>1. Quiet(<<p[1], 0>>) /\ Quiet(<<p[1], 1>>)
    BY <1>3 DEF MayEnter
  <2> QED BY <1>1, <2>1
<1> QED BY <1>2, <1>3, DisciplineAssumption

(* Entering a handler, for a user and for the loader alike.                *)
LEMMA EnterKeeps ==
  ASSUME CallsInv, Discipline # "none", NEW c \in Caller, ~Busy(c), NEW p \in Port, MayEnter(p),
         NEW request,
         \/ request \in Calls
         \/ \E i \in 1..StepsPerPort : request = serialfc_port_new[i],
         NEW h \in Handlers(request), Enter(c, p, request, h),
         UNCHANGED <<lcr, spr, icr, mode, fcr, acr, cache, boot, line>>
  PROVE  CallsInv'
<1> DEFINE record ==
      [kind |-> request.kind, name |-> request.name, arg |-> request.arg,
       port |-> p, steps |-> h.steps, pc |-> 1, status |-> h.status,
       lcr |-> 0, fcr |-> {}, got |-> <<0, 0>>, value |-> 0]
<1>1. Handled(h) /\ request.kind \in {"set", "get", "boot"}
      /\ request.name \in CallName /\ request.arg \in Int
  BY RequestsHandled
<1>2. 0 \in Byte /\ <<0, 0>> \in Byte \X Byte /\ {} \in SUBSET FcrBit
  BY DEF Byte
<1>3. record \in CallRecord
  BY <1>1, <1>2 DEF CallRecord, Handled
<1>4. call' = [call EXCEPT ![c] = record]
  BY DEF Enter
<1>5. record.kind # "none" /\ record.pc = 1 /\ Framed(record.steps) /\ record.port = p
  BY <1>1 DEF Handled
<1>6. Turns(c, record) /\ Quiet(record.port)
  BY <1>3, <1>4, <1>5, EntersQuiet DEF Turns
<1> HIDE DEF record
<1>7. call' \in [Caller -> CallRecord] /\ Shape'
  BY <1>5, <1>6, TakenUp
<1>8. TypeOK'
  BY <1>7 DEF CallsInv, TypeOK
<1> QED BY <1>7, <1>8 DEF CallsInv, Shape

(* A user begins a call: only on a quiet port, where LCR is as it was left.*)
LEMMA BeginKeeps ==
  ASSUME CallsInv, Discipline # "none",
         NEW u \in User, NEW p \in Card \X Opened, NEW request \in Calls, Begin(u, p, request)
  PROVE  CallsInv'
<1>1. u \in Caller /\ p \in Port
  BY OpenedAssumption DEF Caller, Port
<1>2. PICK h \in Handlers(request) : Enter(u, p, request, h)
  BY DEF Begin
<1>3. /\ ~Busy(u) /\ MayEnter(p)
      /\ UNCHANGED <<lcr, spr, icr, mode, fcr, acr, cache, boot, line>>
  BY DEF Begin, hardware
<1> QED BY <1>1, <1>2, <1>3, EnterKeeps

(* The loader begins its next call, on channel 0 or 1 of its card.         *)
LEMMA BeginBootKeeps ==
  ASSUME CallsInv, Discipline # "none", NEW k \in Card, BeginBoot(k)
  PROVE  CallsInv'
<1> DEFINE i == (boot[k] % StepsPerPort) + 1
           p == <<k, boot[k] \div StepsPerPort>>
<1>1. boot[k] \in Nat /\ boot[k] < 2 * StepsPerPort /\ StepsPerPort \in {9, 10}
  BY StartUpLength DEF CallsInv, TypeOK, BeginBoot
<1>2. i \in 1..StepsPerPort /\ boot[k] \div StepsPerPort \in {0, 1}
  <2>1. CASE StepsPerPort = 9
    BY <1>1, <2>1
  <2>2. CASE StepsPerPort = 10
    BY <1>1, <2>2
  <2> QED BY <1>1, <2>1, <2>2
<1>3. k \in Caller /\ p \in Port
  BY <1>2 DEF Caller, Port
<1>4. PICK h \in Handlers(serialfc_port_new[i]) : Enter(k, p, serialfc_port_new[i], h)
  BY DEF BeginBoot
<1>5. /\ ~Busy(k) /\ MayEnter(p)
      /\ UNCHANGED <<lcr, spr, icr, mode, fcr, acr, cache, boot, line>>
  BY DEF BeginBoot, hardware
<1> HIDE DEF i, p
<1> QED BY <1>2, <1>3, <1>4, <1>5, EnterKeeps

(* What a caller can be handed is a number.                                *)
LEMMA RepliesTyped ==
  ASSUME TypeOK, NEW c \in Caller PROVE Replies(c) \subseteq Int
<1>1. /\ At(c) \in Port
      /\ call[c].got[1] \in Int /\ call[c].got[2] \in Int
  <2>1. call[c] \in CallRecord
    BY DEF TypeOK
  <2>2. call[c].got \in Byte \X Byte /\ call[c].port \in Port
    BY <2>1 DEF CallRecord
  <2> QED BY <2>2 DEF At, Byte
<1>2. cache[At(c)].sample_rate \in Int
  BY <1>1 DEF TypeOK, Cached
<1>3. Junk \subseteq Int /\ \A v : ModesOf(v) \subseteq Int
  BY BytesAssumption DEF Byte, ModesOf
<1> QED BY <1>1, <1>2, <1>3 DEF Replies

(* A caller between two calls.                                             *)
LEMMA IdleTyped ==
  ASSUME NEW status \in Int, NEW value \in Int
  PROVE  /\ Idle(status, value) \in CallRecord
         /\ Idle(status, value).kind = "none" /\ Idle(status, value).pc = 1
<1>1. NoPort \in Port
  <2>1. \E p \in Port : TRUE
    <3>1. PICK k \in Card : TRUE
      BY CardAssumption
    <3>2. <<k, 0>> \in Port
      BY DEF Port
    <3> QED BY <3>2
  <2> QED BY <2>1, Zenon DEF NoPort
<1>2. 0 \in Byte /\ <<0, 0>> \in Byte \X Byte /\ {} \in SUBSET FcrBit
  BY DEF Byte
<1>3. "none" \in CallName /\ << >> \in Seq(Accesses)
  BY DEF CallName
<1> QED BY <1>1, <1>2, <1>3 DEF Idle, CallRecord

(* A call returns: it has made all its accesses, so LCR is back.           *)
LEMMA ReturnKeeps == ASSUME IInv, NEW c \in Caller, Return(c) PROVE IInv'
<1>1. /\ Busy(c) /\ call[c].pc > Len(call[c].steps)
      /\ UNCHANGED <<lcr, spr, icr, mode, fcr, acr, line>>
      /\ Remember(c)
      /\ boot' = IF c \in Card THEN [boot EXCEPT ![c] = @ + 1] ELSE boot
  BY DEF Return, hardware
<1>2. PICK v \in Replies(c) : call' = [call EXCEPT ![c] = Idle(call[c].status, v)]
  BY DEF Return
<1> DEFINE record == Idle(call[c].status, v)
<1>3. TypeOK /\ CallsInv /\ call[c] \in CallRecord
  BY DEF IInv, CallsInv, TypeOK
<1>4. record \in CallRecord /\ record.kind = "none"
  BY <1>2, <1>3, RepliesTyped, IdleTyped DEF CallRecord
<1> HIDE DEF record
<1>5. Turns(c, record)
  BY <1>1, <1>2, <1>4 DEF Turns, record
<1>6. call' \in [Caller -> CallRecord] /\ Shape'
  BY <1>1, <1>3, <1>4, <1>5, LaidDown
<1>7. cache' \in [Port -> [Cached -> Int]]
  <2>1. At(c) \in Port /\ call[c].arg \in Int /\ cache \in [Port -> [Cached -> Int]]
    BY <1>3 DEF TypeOK, CallRecord, At
  <2> QED BY <1>1, <2>1 DEF Remember
<1>8. boot' \in [Card -> 0..2 * StepsPerPort]
  <2>1. boot \in [Card -> 0..2 * StepsPerPort] /\ StepsPerPort \in Int
    BY <1>3, StartUpLength DEF TypeOK
  <2>2. CASE c \in Card
    <3>1. boot[c] < 2 * StepsPerPort
      BY <1>1, <2>2 DEF IInv, BootUnderWay
    <3>2. boot[c] + 1 \in 0..2 * StepsPerPort
      BY <2>1, <2>2, <3>1
    <3> QED BY <1>1, <2>1, <2>2, <3>2
  <2>3. CASE c \notin Card
    BY <1>1, <2>1, <2>3
  <2> QED BY <2>2, <2>3
<1>9. TypeOK'
  BY <1>1, <1>3, <1>6, <1>7, <1>8 DEF TypeOK
<1>10. BootUnderWay'
  <2> SUFFICES ASSUME NEW k \in Card, Busy(k)' PROVE boot'[k] < 2 * StepsPerPort
    BY DEF BootUnderWay
  <2>1. k \in Caller
    BY DEF Caller
  <2>2. k # c /\ Busy(k)
    BY <1>3, <1>4, <1>5, <2>1, Turned
  <2>3. boot'[k] = boot[k]
    BY <1>1, <1>3, <2>2 DEF TypeOK
  <2> QED BY <2>2, <2>3 DEF IInv, BootUnderWay
<1> QED BY <1>6, <1>9, <1>10 DEF IInv, CallsInv, Shape

(* The tty driver sets LCR of a quiet port for good.                       *)
LEMMA TtyKeeps ==
  ASSUME CallsInv, Discipline # "none",
         NEW p \in Card \X Opened, NEW v \in Line, TtySetLine(p, v)
  PROVE  CallsInv'
<1>1. /\ p \in Port /\ v \in Byte /\ Quiet(p)
      /\ lcr' = [lcr EXCEPT ![p] = v] /\ line' = [line EXCEPT ![p] = v]
      /\ UNCHANGED <<spr, icr, mode, fcr, acr, cache, boot, call>>
  BY OpenedAssumption, BytesAssumption, ZenonT(60) DEF Port, TtySetLine
<1>2. lcr \in [Port -> Byte] /\ line \in [Port -> Byte] /\ call \in [Caller -> CallRecord]
  BY DEF CallsInv, TypeOK
<1>3. TypeOK'
  BY <1>1, <1>2 DEF CallsInv, TypeOK
<1>4. \A d \in Caller : /\ Busy(d)' = Busy(d) /\ At(d)' = At(d)
                        /\ Busy(d) => At(d) # p /\ At(d) \in Port
  BY <1>1, <1>2 DEF Busy, At, Quiet, CallRecord
<1>5. Exclusive' /\ WellFormed' /\ SprFollowsCall'
  BY <1>1, <1>4 DEF CallsInv, Exclusive, WellFormed, SprFollowsCall
<1>6. \A q \in Port : q # p => lcr'[q] = lcr[q] /\ line'[q] = line[q]
  BY <1>1, <1>2
<1>7. LcrFollowsCall'
  BY <1>1, <1>4, <1>6 DEF CallsInv, LcrFollowsCall
<1>8. LcrRestored'
  BY <1>1, <1>2, <1>4, <1>6 DEF CallsInv, LcrRestored, Quiet
<1> QED BY <1>3, <1>5, <1>7, <1>8 DEF CallsInv

-----------------------------------------------------------------------------
(* The theorems.                                                           *)

(* No access starts or finishes a call of the loader.                      *)
LEMMA PerformKeepsBoot ==
  ASSUME IInv, NEW c \in Caller, Perform(c) PROVE BootUnderWay'
<1>1. call \in [Caller -> CallRecord]
  BY DEF IInv, CallsInv, TypeOK
<1>2. boot' = boot
  BY DEF Perform, SaveLcrStep, ClearLcrStep, RestoreLcrStep, SetLcrStep, SelectStep, PutStep,
         PutAcrStep, GetStep, ShadowStep, PutTwoStep, ReadFcrStep, WriteFcrStep, RaiseFcrStep,
         PinsStep, WriteBackStep, StoreFcr
<1>3. \A k \in Caller : call'[k].kind = call[k].kind
  <2> DEFINE r == call[c]
  <2>0. /\ r \in CallRecord /\ call[c].lcr \in Byte /\ call[c].fcr \in SUBSET FcrBit
        /\ call[c].got \in Byte \X Byte
    BY <1>1 DEF CallRecord
  <2>1. CASE SaveLcrStep(c) \/ ReadFcrStep(c)
    <3>1. lcr[At(c)] \in Byte /\ fcr[At(c)[1]] \in SUBSET FcrBit
      <4>1. At(c) \in Port
        BY <2>0 DEF CallRecord, At
      <4>2. At(c)[1] \in Card
        BY <4>1 DEF Port
      <4> QED BY <4>1, <4>2 DEF IInv, CallsInv, TypeOK
    <3>2. \/ call' = [call EXCEPT ![c] = Moved(r, lcr[At(c)], r.fcr, r.got)]
          \/ call' = [call EXCEPT ![c] = Moved(r, r.lcr, fcr[At(c)[1]], r.got)]
      <4>1. CASE SaveLcrStep(c)
        <5>1. call' = [call EXCEPT ![c] = [r EXCEPT !.lcr = lcr[At(c)], !.pc = @ + 1]]
          BY <4>1 DEF SaveLcrStep
        <5>2. [r EXCEPT !.lcr = lcr[At(c)], !.pc = @ + 1] = Moved(r, lcr[At(c)], r.fcr, r.got)
          BY <2>0, <3>1, MovedTypes
        <5> QED BY <5>1, <5>2
      <4>2. CASE ReadFcrStep(c)
        <5>1. call' = [call EXCEPT ![c] = [r EXCEPT !.fcr = fcr[At(c)[1]], !.pc = @ + 1]]
          BY <4>2 DEF ReadFcrStep
        <5>2. [r EXCEPT !.fcr = fcr[At(c)[1]], !.pc = @ + 1] = Moved(r, r.lcr, fcr[At(c)[1]], r.got)
          BY <2>0, <3>1, MovedTypes
        <5> QED BY <5>1, <5>2
      <4> QED BY <2>1, <4>1, <4>2
    <3> QED BY <1>1, <3>2 DEF Moved
  <2>2. CASE GetStep(c)
    <3>1. PICK v \in Byte : call' = [call EXCEPT ![c] = [r EXCEPT !.got = <<r.got[2], v>>, !.pc = @ + 1]]
      <4>1. Doing(c, "get")
        BY <2>2 DEF GetStep
      <4>2. At(c) \in Port
        BY <4>1, DoingFacts DEF IInv
      <4>3. icr[At(c)][spr[At(c)]] \in Byte /\ Junk \subseteq Byte
        BY <4>2, BytesAssumption DEF IInv, CallsInv, TypeOK
      <4> QED BY <2>2, <4>3, ZenonT(60) DEF GetStep
    <3>2. <<r.got[2], v>> \in Byte \X Byte
      BY <2>0
    <3>3. [r EXCEPT !.got = <<r.got[2], v>>, !.pc = @ + 1] = Moved(r, r.lcr, r.fcr, <<r.got[2], v>>)
      BY <2>0, <3>2, MovedTypes
    <3> QED BY <1>1, <3>1, <3>3 DEF Moved
  <2>3. CASE Advance(c)
    BY <1>1, <2>3 DEF Advance, CallRecord
  <2>4. \/ SaveLcrStep(c) \/ ReadFcrStep(c) \/ GetStep(c) \/ Advance(c)
    BY DEF Perform, ClearLcrStep, RestoreLcrStep, SetLcrStep, SelectStep, PutStep,
           PutAcrStep, ShadowStep, PutTwoStep, WriteFcrStep, RaiseFcrStep,
           PinsStep, WriteBackStep, StoreFcr
  <2> QED BY <2>1, <2>2, <2>3, <2>4
<1> QED BY <1>2, <1>3 DEF IInv, BootUnderWay, Busy, Caller

(* The invariant holds when the driver is loaded.                          *)
LEMMA InitIInv == Init => IInv
<1> SUFFICES ASSUME Init PROVE IInv
  OBVIOUS
<1>1. \A c \in Caller : call[c] = Idle(0, 0)
  BY DEF Init
<1>2. Idle(0, 0) \in CallRecord /\ Idle(0, 0).kind = "none"
  BY IdleTyped
<1>3. \A c \in Caller : ~Busy(c)
  BY <1>1, <1>2 DEF Busy
<1>4. TypeOK
  <2>1. call \in [Caller -> CallRecord]
    BY <1>2 DEF Init
  <2>2. lcr \in [Port -> Byte] /\ line \in [Port -> Byte]
    BY BytesAssumption DEF Init
  <2>3. spr \in [Port -> IcrReg] /\ acr \in [Port -> {0, 16}]
    BY DEF Init, IcrReg
  <2>4. icr \in [Port -> [IcrReg -> Byte]]
    BY BytesAssumption DEF Init
  <2>5. mode \in [Port -> [{"fifo", "efr"} -> Byte]]
    <3>1. \A p \in Port : [fifo |-> AtLoad[p].fifo, efr |-> AtLoad[p].efr] \in [{"fifo", "efr"} -> Byte]
      BY BytesAssumption
    <3> QED BY <3>1 DEF Init
  <2>6. fcr \in [Card -> SUBSET FcrBit]
    BY FcrAssumption DEF Init
  <2>7. cache \in [Port -> [Cached -> Int]]
    BY DEF Init
  <2>8. boot \in [Card -> 0..2 * StepsPerPort]
    BY StartUpLength DEF Init
  <2> QED BY <2>1, <2>2, <2>3, <2>4, <2>5, <2>6, <2>7, <2>8 DEF TypeOK
<1>5. Exclusive /\ WellFormed /\ LcrFollowsCall /\ SprFollowsCall /\ BootUnderWay
  BY <1>3 DEF Exclusive, WellFormed, LcrFollowsCall, SprFollowsCall, BootUnderWay, Caller
<1>6. LcrRestored
  BY DEF Init, LcrRestored
<1> QED BY <1>4, <1>5, <1>6 DEF IInv, CallsInv

(* Every step of a disciplined system keeps it.                            *)
LEMMA NextKeepsIInv ==
  ASSUME Discipline # "none", IInv, [Next]_vars PROVE IInv'
<1>1. CallsInv
  BY DEF IInv
<1>2. ASSUME NEW u \in User, NEW p \in Card \X Opened, NEW request \in Calls, Begin(u, p, request)
      PROVE  IInv'
  <2>1. CallsInv'
    BY <1>1, <1>2, BeginKeeps
  <2>2. \A k \in Card : Busy(k)' = Busy(k)
    BY <1>1, <1>2, CallerAssumption DEF Begin, Enter, Busy, CallsInv, TypeOK, Caller
  <2>3. boot' = boot
    BY <1>2 DEF Begin
  <2> QED BY <2>1, <2>2, <2>3 DEF IInv, BootUnderWay
<1>3. ASSUME NEW k \in Card, BeginBoot(k) PROVE IInv'
  <2>1. CallsInv'
    BY <1>1, <1>3, BeginBootKeeps
  <2>2. \A j \in Card : j # k => Busy(j)' = Busy(j)
    BY <1>1, <1>3 DEF BeginBoot, Enter, Busy, CallsInv, TypeOK, Caller
  <2>3. boot' = boot /\ boot[k] < 2 * StepsPerPort
    BY <1>3 DEF BeginBoot
  <2> QED BY <2>1, <2>2, <2>3 DEF IInv, BootUnderWay
<1>4. ASSUME NEW c \in Caller, Perform(c) PROVE IInv'
  <2>1. CallsInv'
    BY <1>1, <1>4, SaveLcrKeeps, ClearLcrKeeps, RestoreLcrKeeps, SetLcrKeeps, SelectKeeps,
       PutKeeps, PutAcrKeeps, GetKeeps, ShadowKeeps, PutTwoKeeps, ReadFcrKeeps, FcrKeeps
       DEF Perform
  <2>2. BootUnderWay'
    BY <1>4, PerformKeepsBoot
  <2> QED BY <2>1, <2>2 DEF IInv
<1>5. ASSUME NEW c \in Caller, Return(c) PROVE IInv'
  BY <1>5, ReturnKeeps
<1>6. ASSUME NEW p \in Card \X Opened, NEW v \in Line, TtySetLine(p, v) PROVE IInv'
  <2>1. CallsInv'
    BY <1>1, <1>6, TtyKeeps
  <2>2. boot' = boot /\ call' = call
    BY <1>6 DEF TtySetLine
  <2> QED BY <2>1, <2>2 DEF IInv, BootUnderWay, Busy
<1>7. CASE UNCHANGED vars
  BY <1>7 DEF IInv, CallsInv, TypeOK, Exclusive, WellFormed, LcrFollowsCall, SprFollowsCall,
              LcrRestored, BootUnderWay, Quiet, Busy, At, vars
<1> QED BY <1>2, <1>3, <1>4, <1>5, <1>6, <1>7 DEF Next

(* If no two calls work on one port at a time, the registers follow the    *)
(* calls: the inductive invariant holds in every state.                    *)
THEOREM Invariance ==
  ASSUME Discipline # "none" PROVE Spec => []IInv
<1>1. Init => IInv
  BY InitIInv
<1>2. IInv /\ [Next]_vars => IInv'
  BY NextKeepsIInv
<1> QED BY <1>1, <1>2, PTL DEF Spec

(* Every register and every call record keeps its type.                    *)
THEOREM TypeCorrect ==
  ASSUME Discipline # "none" PROVE Spec => []TypeOK
<1>1. IInv => TypeOK
  BY DEF IInv, CallsInv
<1> QED BY <1>1, Invariance, PTL

(* Every ICR access meets the register its handler means.                  *)
THEOREM IndexedAccessHolds ==
  ASSUME Discipline # "none" PROVE Spec => []IndexedAccess
<1>1. IInv => IndexedAccess
  <2> SUFFICES ASSUME IInv PROVE IndexedAccess
    OBVIOUS
  <2>1. ASSUME NEW c \in Caller, NEW io \in IcrIo \cup {"select"}, Doing(c, io)
        PROVE  Indexed(At(c))
    <3>1. /\ Busy(c) /\ call[c].pc \in 1..Len(call[c].steps) /\ Pending(c).io = io
          /\ Framed(call[c].steps)
      BY <2>1, DoingFacts DEF IInv
    <3>2. Cleared(call[c].steps, call[c].pc)
      BY <3>1 DEF Framed, Pending
    <3> QED BY <3>1, <3>2 DEF IInv, CallsInv, LcrFollowsCall, Indexed
  <2>2. ASSUME NEW c \in Caller, NEW io \in IcrIo, Doing(c, io)
        PROVE  spr[At(c)] = Pending(c).reg
    <3>1. /\ Busy(c) /\ call[c].pc \in 1..Len(call[c].steps) /\ Pending(c).io = io
          /\ Framed(call[c].steps) /\ Pending(c) \in Accesses
      BY <2>2, DoingFacts DEF IInv
    <3>2. Selected(call[c].steps, call[c].pc, Pending(c).reg) /\ Pending(c).reg \in IcrReg
      BY <3>1 DEF Framed, Pending, Accesses
    <3> QED BY <3>1, <3>2 DEF IInv, CallsInv, SprFollowsCall
  <2> QED BY <2>1, <2>2 DEF IndexedAccess, LastLcrNotBf
<1> QED BY <1>1, Invariance, PTL

(* A port no call works on has the LCR its tty driver gave it.             *)
THEOREM LcrRestoredHolds ==
  ASSUME Discipline # "none" PROVE Spec => []LcrRestored
<1>1. IInv => LcrRestored
  BY DEF IInv, CallsInv
<1> QED BY <1>1, Invariance, PTL

-----------------------------------------------------------------------------
(***************************************************************************)
(* What the registers of an FSCC port hold against what the driver         *)
(* remembers of them: the shadow of ACR, the settings kept in memory, 950  *)
(* mode, and the board's Feature Control Register.                         *)
(***************************************************************************)

-----------------------------------------------------------------------------
(* What the handlers' accesses have in common.                             *)

\* A register is put once, and ACR is never put as such.
PutsOnce(s) ==
  /\ \A i, j \in 1..Len(s) :
       s[i].io = "put" /\ s[j].io = "put" /\ s[i].reg = s[j].reg => i = j
  /\ \A i \in 1..Len(s) : s[i].io = "put" => s[i].reg # "ACR"

\* The last access to ACR or its shadow, if any, writes the shadow to the
\* register.
AcrTail(s) ==
  \/ \A i \in 1..Len(s) : s[i].io \notin AcrIo
  \/ \E i \in 1..Len(s) : /\ s[i].io = "put_acr" /\ s[i].val = 0
                          /\ \A j \in i+1..Len(s) : s[j].io \notin AcrIo

\* The mode registers and the line parameters are left alone.
Plain(s) == \A i \in 1..Len(s) : s[i].io \notin {"offset_two", "set_lcr"}

\* The FCR is read before it is written, and asynchronous mode is raised in
\* the end if at all.
FcrOrder(s) ==
  \A i \in 1..Len(s) :
    /\ s[i].io \in FcrWrites => \E j \in 1..i-1 : s[j].io = "read_fcr"
    /\ s[i].io = "raise_fcr" => i = Len(s) /\ s[i].reg = "async"
    /\ s[i].io = "write_fcr" => s[i].reg # "async"

Tidy(s) == PutsOnce(s) /\ AcrTail(s) /\ Plain(s) /\ FcrOrder(s)

\* Register r is not put.
Spares(s, r) == \A i \in 1..Len(s) : s[i].io = "put" => s[i].reg # r

\* Echo cancel is left alone.
Echoless(s) == \A i \in 1..Len(s) : s[i].io = "write_fcr" => s[i].reg # "echo"

SetOne(r, x) == <<SaveLcr, ClearLcr, Select(r), Put(r, x), RestoreLcr>>

SetTwo(q, x, r, y) ==
  <<SaveLcr, ClearLcr, Select(q), Put(q, x), Select(r), Put(r, y), RestoreLcr>>

GetOne(r) == <<SaveLcr, ClearLcr, Select("ACR"), PutAcr(64), Select(r), Get(r),
               Select("ACR"), PutAcr(0), RestoreLcr>>

(* The setters of one and of two indexed registers.                        *)
LEMMA SetOneTidy ==
  ASSUME NEW r \in IcrReg \ {"ACR"}, NEW x
  PROVE  /\ Tidy(SetOne(r, x)) /\ Echoless(SetOne(r, x))
         /\ \A q \in IcrReg \ {r} : Spares(SetOne(r, x), q)
<1>1. PutsOnce(SetOne(r, x)) /\ AcrTail(SetOne(r, x))
  BY DEF SetOne, PutsOnce, AcrTail, AcrIo, Access, SaveLcr, ClearLcr, Select, Put, RestoreLcr
<1>2. Plain(SetOne(r, x)) /\ FcrOrder(SetOne(r, x)) /\ Echoless(SetOne(r, x))
  BY DEF SetOne, Plain, FcrOrder, FcrWrites, Echoless, Access, SaveLcr, ClearLcr, Select, Put, RestoreLcr
<1>3. \A q \in IcrReg \ {r} : Spares(SetOne(r, x), q)
  BY DEF SetOne, Spares, Access, SaveLcr, ClearLcr, Select, Put, RestoreLcr
<1> QED BY <1>1, <1>2, <1>3 DEF Tidy

(* Two registers, one after the other.                                     *)
LEMMA SetTwoTidy ==
  ASSUME NEW r \in IcrReg \ {"ACR"}, NEW p \in IcrReg \ {"ACR", r}, NEW x, NEW y
  PROVE  /\ Tidy(SetTwo(p, x, r, y)) /\ Echoless(SetTwo(p, x, r, y))
         /\ \A q \in IcrReg \ {p, r} : Spares(SetTwo(p, x, r, y), q)
<1>1. PutsOnce(SetTwo(p, x, r, y)) /\ AcrTail(SetTwo(p, x, r, y))
  BY SMTT(30) DEF SetTwo, PutsOnce, AcrTail, AcrIo, Access, SaveLcr, ClearLcr, Select, Put, RestoreLcr
<1>2. Plain(SetTwo(p, x, r, y)) /\ FcrOrder(SetTwo(p, x, r, y)) /\ Echoless(SetTwo(p, x, r, y))
  BY DEF SetTwo, Plain, FcrOrder, FcrWrites, Echoless, Access, SaveLcr, ClearLcr, Select, Put, RestoreLcr
<1>3. \A q \in IcrReg \ {p, r} : Spares(SetTwo(p, x, r, y), q)
  BY DEF SetTwo, Spares, Access, SaveLcr, ClearLcr, Select, Put, RestoreLcr
<1> QED BY <1>1, <1>2, <1>3 DEF Tidy

\* Nothing is put at all.
PutsNothing(s) == \A i \in 1..Len(s) : s[i].io # "put"

(* The getters turn ICR reads on, and off again in the end.                *)
LEMMA GetOneTidy ==
  ASSUME NEW r \in IcrReg
  PROVE  Tidy(GetOne(r)) /\ PutsNothing(GetOne(r)) /\ Echoless(GetOne(r))
<1>1. PutsNothing(GetOne(r)) /\ Echoless(GetOne(r)) /\ Plain(GetOne(r)) /\ FcrOrder(GetOne(r))
  BY SMTT(30) DEF GetOne, PutsNothing, Echoless, Plain, FcrOrder, FcrWrites, Access, SaveLcr, ClearLcr,
     Select, PutAcr, Get, RestoreLcr
<1>2. AcrTail(GetOne(r))
  BY SMTT(30) DEF GetOne, AcrTail, AcrIo, Access, SaveLcr, ClearLcr, Select, PutAcr, Get, RestoreLcr
<1> QED BY <1>1, <1>2 DEF Tidy, PutsOnce, PutsNothing

(* The same with two registers read.                                       *)
LEMMA GetTwoTidy ==
  ASSUME NEW s, s = fastcom_get_external_transmit_fscc.steps
  PROVE  Tidy(s) /\ PutsNothing(s) /\ Echoless(s)
<1>0. s = <<SaveLcr, ClearLcr, Select("ACR"), PutAcr(64), Select("EXT"), Get("EXT"),
            Select("EXTH"), Get("EXTH"), Select("ACR"), PutAcr(0), RestoreLcr>>
  BY DEF fastcom_get_external_transmit_fscc, Do
<1>1. PutsNothing(s) /\ Echoless(s) /\ Plain(s) /\ FcrOrder(s)
  BY <1>0, SMTT(30) DEF PutsNothing, Echoless, Plain, FcrOrder, FcrWrites, Access, SaveLcr, ClearLcr,
     Select, PutAcr, Get, RestoreLcr
<1>2. AcrTail(s)
  BY <1>0, SMTT(30) DEF AcrTail, AcrIo, Access, SaveLcr, ClearLcr, Select, PutAcr, Get, RestoreLcr
<1> QED BY <1>1, <1>2 DEF Tidy, PutsOnce, PutsNothing

(* set_rs485 writes the shadow, then the register, then its bit.           *)
LEMMA Rs485Tidy ==
  ASSUME NEW x, NEW s, s = fastcom_set_rs485_fscc(x).steps
  PROVE  Tidy(s) /\ PutsNothing(s) /\ Echoless(s)
<1>0. s = <<SaveLcr, ReadFcr, ClearLcr, Select("ACR"),
            ShadowAcr(IF x = 0 THEN 0 ELSE 16), PutAcr(0), WriteFcr("rs485", x), RestoreLcr>>
  BY DEF fastcom_set_rs485_fscc, Do
<1>1. PutsNothing(s) /\ Echoless(s) /\ Plain(s) /\ FcrOrder(s)
  BY <1>0, SMTT(30) DEF PutsNothing, Echoless, Plain, FcrOrder, FcrWrites, Access, SaveLcr, ReadFcr, ClearLcr,
     Select, PutAcr, ShadowAcr, WriteFcr, RestoreLcr
<1>2. AcrTail(s)
  BY <1>0, SMTT(30) DEF AcrTail, AcrIo, Access, SaveLcr, ReadFcr, ClearLcr, Select, PutAcr, ShadowAcr,
     WriteFcr, RestoreLcr
<1> QED BY <1>1, <1>2 DEF Tidy, PutsOnce, PutsNothing

(* The calls that keep to the FCR, and those that make no access.          *)
LEMMA BoardTidy ==
  /\ \A x : Tidy(fastcom_set_echo_cancel_fscc(x).steps) /\ PutsNothing(fastcom_set_echo_cancel_fscc(x).steps)
  /\ \A h \in {Do(<<ReadFcr>>), Do(<< >>), fscc_enable_async_mode} \cup fastcom_set_clock_bits_fscc :
       Tidy(h.steps) /\ PutsNothing(h.steps) /\ Echoless(h.steps)
  /\ \A e : Tidy(Refuse(e).steps) /\ PutsNothing(Refuse(e).steps) /\ Echoless(Refuse(e).steps)
<1>1. ASSUME NEW x
      PROVE  Tidy(fastcom_set_echo_cancel_fscc(x).steps) /\ PutsNothing(fastcom_set_echo_cancel_fscc(x).steps)
  BY DEF fastcom_set_echo_cancel_fscc, Do, Tidy, PutsNothing, PutsOnce, AcrTail, AcrIo, Plain, FcrOrder,
     FcrWrites, Access, ReadFcr, WriteFcr
<1>2. Tidy(<<ReadFcr>>) /\ PutsNothing(<<ReadFcr>>) /\ Echoless(<<ReadFcr>>)
  BY DEF Tidy, PutsNothing, Echoless, PutsOnce, AcrTail, AcrIo, Plain, FcrOrder, FcrWrites, Access, ReadFcr
<1>3. Tidy(<< >>) /\ PutsNothing(<< >>) /\ Echoless(<< >>)
  BY DEF Tidy, PutsNothing, Echoless, PutsOnce, AcrTail, Plain, FcrOrder
<1>4. LET s == <<ReadFcr, RaiseFcr("async")>> IN Tidy(s) /\ PutsNothing(s) /\ Echoless(s)
  BY DEF Tidy, PutsNothing, Echoless, PutsOnce, AcrTail, AcrIo, Plain, FcrOrder, FcrWrites, Access,
     ReadFcr, RaiseFcr
<1>5. LET s == <<ReadFcr, Pins, Pins, WriteBack>> IN Tidy(s) /\ PutsNothing(s) /\ Echoless(s)
  BY SMTT(30) DEF Tidy, PutsNothing, Echoless, PutsOnce, AcrTail, AcrIo, Plain, FcrOrder, FcrWrites, Access,
     ReadFcr, Pins, WriteBack
<1> QED BY <1>1, <1>2, <1>3, <1>4, <1>5 DEF Do, Refuse, fscc_enable_async_mode, fastcom_set_clock_bits_fscc

\* What a setter or getter of the setting name, asked for x, does to the
\* registers of the settings kept in memory.
CachedPart(name, x, h) ==
  \A n \in Cached :
    IF name = n /\ h.status = 0
    THEN h.steps = SetOne(RegisterOf[n], x) /\ x \in Byte
    ELSE Spares(h.steps, RegisterOf[n])

(* A handler that puts nothing, and those that put one register.           *)
LEMMA PutsNothingSpares ==
  ASSUME NEW s, PutsNothing(s) PROVE \A r : Spares(s, r)
BY DEF PutsNothing, Spares

(* Every setter: only set_echo_cancel writes an echo bit, and only the     *)
(* setter of a setting kept in memory puts its register.                   *)
LEMMA SettersTidy ==
  ASSUME NEW name, NEW x \in Int, name # "isochronous" => x \in Nat, NEW h \in Setter(name, x)
  PROVE  Tidy(h.steps) /\ (name # "echo_cancel" => Echoless(h.steps)) /\ CachedPart(name, x, h)
<1> DEFINE Good == Tidy(h.steps) /\ (name # "echo_cancel" => Echoless(h.steps)) /\ CachedPart(name, x, h)
<1> SUFFICES Good
  OBVIOUS
<1> HIDE DEF Good
<1>0. \A n \in Cached : RegisterOf[n] \in IcrReg \ {"ACR"}
  BY DEF Cached, RegisterOf, IcrReg
<1>1. ASSUME NEW e \in Nat \ {0}, h = Refuse(e) PROVE Good
  <2>1. h.status # 0
    BY <1>1 DEF Refuse
  <2>2. Tidy(h.steps) /\ PutsNothing(h.steps) /\ Echoless(h.steps)
    BY <1>1, BoardTidy
  <2>3. \A r : Spares(h.steps, r)
    BY <2>2, PutsNothingSpares
  <2> QED BY <2>1, <2>2, <2>3 DEF Good, CachedPart
<1>2. ASSUME Tidy(h.steps), PutsNothing(h.steps), name # "echo_cancel" => Echoless(h.steps), name \notin Cached
      PROVE  Good
  BY <1>2, PutsNothingSpares DEF Good, CachedPart
<1>3. ASSUME NEW n \in Cached, name = n, h = Do(SetOne(RegisterOf[n], x)), x \in Byte PROVE Good
  <2> DEFINE r == RegisterOf[n]
  <2>1. h.steps = SetOne(r, x) /\ r \in IcrReg \ {"ACR"}
    BY <1>0, <1>3 DEF Do
  <2>2. Tidy(h.steps) /\ Echoless(h.steps) /\ \A q \in IcrReg \ {r} : Spares(h.steps, q)
    BY <2>1, SetOneTidy
  <2>3. \A m \in Cached : m # n => RegisterOf[m] \in IcrReg \ {r}
    BY <1>3 DEF Cached, RegisterOf, IcrReg
  <2>4. ASSUME NEW m \in Cached
        PROVE  IF name = m /\ h.status = 0
               THEN h.steps = SetOne(RegisterOf[m], x) /\ x \in Byte
               ELSE Spares(h.steps, RegisterOf[m])
    <3>1. CASE m = n
      <4>1. h.status = 0
        BY <1>3 DEF Do
      <4> QED BY <1>3, <2>1, <3>1, <4>1
    <3>2. CASE m # n
      BY <1>3, <2>2, <2>3, <3>2
    <3> QED BY <3>1, <3>2
  <2> QED BY <2>2, <2>4 DEF Good, CachedPart
<1>4. ASSUME NEW s, h.steps = s, Tidy(s), Echoless(s), name \notin Cached,
             \A q \in {"TCR", "TTL", "RTL"} : Spares(s, q)
      PROVE  Good
  <2>1. \A n \in Cached : RegisterOf[n] \in {"TCR", "TTL", "RTL"}
    BY DEF Cached, RegisterOf
  <2> QED BY <1>4, <2>1 DEF Good, CachedPart
<1>5. CASE name \in Cached
  <2>0. EINVAL \in Nat \ {0}
    BY DEF EINVAL
  <2>1. CASE name = "sample_rate"
    <3>1. h = fastcom_set_sample_rate_fscc(x)
      BY <2>1 DEF Setter
    <3>2. h = Refuse(EINVAL) \/ (h = Do(SetOne("TCR", x)) /\ x >= 4 /\ x <= 16)
      BY <3>1 DEF fastcom_set_sample_rate_fscc, SetOne
    <3>3. "sample_rate" \in Cached /\ RegisterOf["sample_rate"] = "TCR"
      BY DEF Cached, RegisterOf
    <3> QED BY <1>1, <1>3, <2>0, <2>1, <3>2, <3>3 DEF Byte
  <2>2. CASE name = "tx_trigger"
    <3>1. h = fastcom_set_tx_trigger_fscc(x) /\ x \in Nat
      BY <2>2 DEF Setter
    <3>2. h = Refuse(EINVAL) \/ (h = Do(SetOne("TTL", x)) /\ x <= 127)
      BY <3>1 DEF fastcom_set_tx_trigger_fscc, SetOne
    <3>3. "tx_trigger" \in Cached /\ RegisterOf["tx_trigger"] = "TTL"
      BY DEF Cached, RegisterOf
    <3> QED BY <1>1, <1>3, <2>0, <2>2, <3>1, <3>2, <3>3 DEF Byte
  <2>3. CASE name = "rx_trigger"
    <3>1. h = fastcom_set_rx_trigger_fscc(x) /\ x \in Nat
      BY <2>3 DEF Setter
    <3>2. h = Refuse(EINVAL) \/ (h = Do(SetOne("RTL", x)) /\ x <= 127)
      BY <3>1 DEF fastcom_set_rx_trigger_fscc, SetOne
    <3>3. "rx_trigger" \in Cached /\ RegisterOf["rx_trigger"] = "RTL"
      BY DEF Cached, RegisterOf
    <3> QED BY <1>1, <1>3, <2>0, <2>3, <3>1, <3>2, <3>3 DEF Byte
  <2> QED BY <1>5, <2>1, <2>2, <2>3 DEF Cached
<1>6. CASE name = "isochronous"
  <2>1. h = Refuse(EINVAL) \/ h = Do(SetTwo("MDM", Mdm(x), "CKS", Cks(x)))
    BY <1>6 DEF Setter, fastcom_set_isochronous_fscc, SetTwo
  <2>2. EINVAL \in Nat \ {0} /\ name \notin Cached
    BY <1>6 DEF EINVAL, Cached
  <2>3. ASSUME h = Do(SetTwo("MDM", Mdm(x), "CKS", Cks(x))) PROVE Good
    <3>1. /\ "CKS" \in IcrReg \ {"ACR"} /\ "MDM" \in IcrReg \ {"ACR", "CKS"}
          /\ \A q \in {"TCR", "TTL", "RTL"} : q \in IcrReg \ {"MDM", "CKS"}
      BY DEF IcrReg
    <3>2. h.steps = SetTwo("MDM", Mdm(x), "CKS", Cks(x))
      BY <2>3 DEF Do
    <3> QED BY <1>4, <2>2, <3>1, <3>2, SetTwoTidy
  <2> QED BY <1>1, <2>1, <2>2, <2>3
<1>7. CASE name = "external_transmit"
  <2> DEFINE exth == IF x = 0 THEN 0 ELSE 128 + x \div 256
  <2>1. h = Refuse(EINVAL) \/ h = Do(SetTwo("EXTH", exth, "EXT", x))
    BY <1>7 DEF Setter, fastcom_set_external_transmit_fscc, SetTwo
  <2>2. EINVAL \in Nat \ {0} /\ name \notin Cached
    BY <1>7 DEF EINVAL, Cached
  <2> HIDE DEF exth
  <2>3. ASSUME h = Do(SetTwo("EXTH", exth, "EXT", x)) PROVE Good
    <3>1. /\ "EXT" \in IcrReg \ {"ACR"} /\ "EXTH" \in IcrReg \ {"ACR", "EXT"}
          /\ \A q \in {"TCR", "TTL", "RTL"} : q \in IcrReg \ {"EXTH", "EXT"}
      BY DEF IcrReg
    <3>2. h.steps = SetTwo("EXTH", exth, "EXT", x)
      BY <2>3 DEF Do
    <3> QED BY <1>4, <2>2, <3>1, <3>2, SetTwoTidy
  <2> QED BY <1>1, <2>1, <2>2, <2>3
<1>8. CASE name = "frame_length"
  <2>1. h = Refuse(EINVAL) \/ h = Refuse(EPROTONOSUPPORT) \/ h = Do(SetOne("FLR", x - 1))
    BY <1>8 DEF Setter, fastcom_set_frame_length_fscc, SetOne
  <2>2. EINVAL \in Nat \ {0} /\ EPROTONOSUPPORT \in Nat \ {0} /\ name \notin Cached
    BY <1>8 DEF EINVAL, EPROTONOSUPPORT, Cached
  <2>3. ASSUME h = Do(SetOne("FLR", x - 1)) PROVE Good
    <3>1. "FLR" \in IcrReg \ {"ACR"} /\ \A q \in {"TCR", "TTL", "RTL"} : q \in IcrReg \ {"FLR"}
      BY DEF IcrReg
    <3>2. h.steps = SetOne("FLR", x - 1)
      BY <2>3 DEF Do
    <3> QED BY <1>4, <2>2, <3>1, <3>2, SetOneTidy
  <2> QED BY <1>1, <2>1, <2>2, <2>3
<1>9. CASE name = "rs485"
  <2>1. h = fastcom_set_rs485_fscc(x)
    BY <1>9 DEF Setter
  <2>2. Tidy(h.steps) /\ PutsNothing(h.steps) /\ Echoless(h.steps)
    BY <2>1, Rs485Tidy
  <2> QED BY <1>2, <1>9, <2>2 DEF Cached
<1>10. CASE name = "echo_cancel"
  <2>1. h = fastcom_set_echo_cancel_fscc(x)
    BY <1>10 DEF Setter
  <2>2. Tidy(h.steps) /\ PutsNothing(h.steps)
    BY <2>1, BoardTidy
  <2> QED BY <1>2, <1>10, <2>2 DEF Cached
<1>11. CASE name = "clock_bits"
  <2>1. h \in fastcom_set_clock_bits_fscc
    BY <1>11 DEF Setter
  <2>2. Tidy(h.steps) /\ PutsNothing(h.steps) /\ Echoless(h.steps)
    BY <2>1, BoardTidy
  <2> QED BY <1>2, <1>11, <2>2 DEF Cached
<1>12. CASE name \notin Cached \cup {"isochronous", "external_transmit", "frame_length", "rs485",
                                     "echo_cancel", "clock_bits"}
  <2>1. h = Refuse(EPROTONOSUPPORT)
    BY <1>12 DEF Setter, Cached
  <2>2. EPROTONOSUPPORT \in Nat \ {0}
    BY DEF EPROTONOSUPPORT
  <2> QED BY <1>1, <2>1, <2>2
<1> QED BY <1>5, <1>6, <1>7, <1>8, <1>9, <1>10, <1>11, <1>12

(* No getter puts anything.                                                *)
LEMMA GettersTidy ==
  ASSUME NEW name, NEW h, h = Getter(name)
  PROVE  Tidy(h.steps) /\ PutsNothing(h.steps) /\ Echoless(h.steps)
<1> DEFINE Good(g) == Tidy(g.steps) /\ PutsNothing(g.steps) /\ Echoless(g.steps)
<1>1. Good(Do(<< >>)) /\ Good(Do(<<ReadFcr>>)) /\ Good(Refuse(EPROTONOSUPPORT))
  BY BoardTidy
<1>2. \A r \in IcrReg : Good(Do(GetOne(r)))
  BY GetOneTidy DEF Do
<1>3. Good(fastcom_get_tx_trigger_fscc) /\ Good(fastcom_get_rx_trigger_fscc)
      /\ Good(fastcom_get_isochronous_fscc) /\ Good(Do(GetOne("FLR")))
  <2>1. /\ Good(Do(GetOne("TTL"))) /\ Good(Do(GetOne("RTL")))
        /\ Good(Do(GetOne("CKS"))) /\ Good(Do(GetOne("FLR")))
    BY <1>2 DEF IcrReg
  <2> HIDE DEF Good
  <2> QED BY <2>1 DEF fastcom_get_tx_trigger_fscc, fastcom_get_rx_trigger_fscc,
                 fastcom_get_isochronous_fscc, GetOne
<1>4. Good(fastcom_get_external_transmit_fscc)
  BY GetTwoTidy
<1>5. Good(fastcom_get_frame_length_fscc)
  <2> HIDE DEF Good
  <2> QED BY <1>1, <1>3 DEF fastcom_get_frame_length_fscc, GetOne
<1>6. Good(fastcom_get_rs485_fscc) /\ Good(fastcom_get_echo_cancel_fscc)
  <2> HIDE DEF Good
  <2> QED BY <1>1 DEF fastcom_get_rs485_fscc, fastcom_get_echo_cancel_fscc
<1>7. Good(h)
  <2> DEFINE rest == {Do(<< >>), Refuse(EPROTONOSUPPORT), fastcom_get_tx_trigger_fscc,
                      fastcom_get_rx_trigger_fscc, fastcom_get_isochronous_fscc,
                      fastcom_get_external_transmit_fscc, fastcom_get_frame_length_fscc,
                      fastcom_get_rs485_fscc, fastcom_get_echo_cancel_fscc}
  <2>1. h \in rest
    BY SMTT(30) DEF Getter
  <2> HIDE DEF Good
  <2>2. \A g \in rest : Good(g)
    BY <1>1, <1>3, <1>4, <1>5, <1>6
  <2> QED BY <2>1, <2>2
<1> QED BY <1>7

-----------------------------------------------------------------------------
(* The calls of serialfc_port_new.                                         *)

(* Its calls in their order; the last one is there in asynchronous mode.   *)
LEMMA StartUpCalls ==
  ASSUME NEW i \in 1..StepsPerPort, NEW r, r = serialfc_port_new[i]
  PROVE  /\ r.kind \in {"boot", "set"} /\ r.name \in CallName /\ r.arg \in Int
         /\ r.kind = "boot" => r.name \in {"triggers", "async"}
         /\ r.name # "isochronous" => r.arg \in Nat
         /\ r.name = "triggers" <=> i = 1
         /\ r.name = "async" <=> i = 10
         /\ r.kind = "boot" <=> i \in {1, 10}
         /\ r.name = "rs485" <=> i = 2
         /\ r.name = "sample_rate" <=> i = 3
         /\ r.name = "tx_trigger" <=> i = 4
         /\ r.name = "rx_trigger" <=> i = 5
         /\ r.name = "echo_cancel" <=> i = 7
         /\ r.name = "isochronous" <=> i = 8
         /\ r.name = "frame_length" <=> i = 9
         /\ r.name # "external_transmit"
         /\ i \in 2..9 => r.kind = "set"
         /\ i \in {2, 7} => r.arg = 0
         /\ i = 3 => r.arg = 16
         /\ i \in {4, 5} => r.arg = 32
         /\ i = 8 => r.arg = -1
         /\ i = 9 => r.arg = 1
<1> DEFINE first == << Call("boot", "triggers", 0),
                       Call("set", "rs485", 0),
                       Call("set", "sample_rate", 16),
                       Call("set", "tx_trigger", 32),
                       Call("set", "rx_trigger", 32),
                       Call("set", "termination", 1),
                       Call("set", "echo_cancel", 0),
                       Call("set", "isochronous", -1),
                       Call("set", "frame_length", 1) >>
<1>1. CASE EnableAsync
  <2>1. serialfc_port_new = first \o <<Call("boot", "async", 0)>>
    BY <1>1 DEF serialfc_port_new
  <2>2. StepsPerPort = 10 /\ i \in 1..10
    BY <2>1 DEF StepsPerPort
  <2>3. \/ i \in 1..9 /\ r = first[i]
        \/ i = 10 /\ r = Call("boot", "async", 0)
    BY <2>1, <2>2
  <2>4. CASE i \in 1..9 /\ r = first[i]
    BY <2>4 DEF Call, CallName, SettingName, OtherName
  <2>5. CASE i = 10 /\ r = Call("boot", "async", 0)
    BY <2>5 DEF Call, CallName
  <2> QED BY <2>3, <2>4, <2>5
<1>2. CASE ~EnableAsync
  <2>1. serialfc_port_new = first \o << >>
    BY <1>2 DEF serialfc_port_new
  <2>2. StepsPerPort = 9 /\ i \in 1..9 /\ r = first[i]
    BY <2>1 DEF StepsPerPort
  <2>3. i # 10
    BY <2>2
  <2> QED BY <2>2, <2>3 DEF Call, CallName, SettingName, OtherName
<1> QED BY <1>1, <1>2, AsyncAssumption

(* Which call of which port comes after b calls.                           *)
LEMMA BootArithmetic ==
  ASSUME NEW b \in Nat, b < 2 * StepsPerPort, NEW ch \in {0, 1}, NEW m \in 1..StepsPerPort
  PROVE  /\ (b % StepsPerPort) + 1 \in 1..StepsPerPort
         /\ b \div StepsPerPort \in {0, 1}
         /\ b + 1 >= ch * StepsPerPort + m /\ ~(b >= ch * StepsPerPort + m)
              => b \div StepsPerPort = ch /\ (b % StepsPerPort) + 1 = m
         /\ b \div StepsPerPort = ch
              => b = ch * StepsPerPort + (b % StepsPerPort) /\ b < (ch + 1) * StepsPerPort
<1>1. CASE StepsPerPort = 9
  BY <1>1, SMTT(30)
<1>2. CASE StepsPerPort = 10
  BY <1>2, SMTT(30)
<1> QED BY <1>1, <1>2, StartUpLength

\* The loader executes fastcom_init_triggers, or fscc_enable_async_mode.
InitTriggers(c) == call[c].kind = "boot" /\ call[c].name = "triggers"
AsyncMode(c)    == call[c].kind = "boot" /\ call[c].name = "async"

(* What the loader is at when it works on a port.                          *)
LEMMA LoaderAt ==
  ASSUME IInv, Attributed, NEW k \in Card, Busy(k)
  PROVE  LET ch == At(k)[2]
             i  == (boot[k] % StepsPerPort) + 1
         IN  /\ ch \in {0, 1} /\ At(k) = <<k, ch>>
             /\ i \in 1..StepsPerPort
             /\ boot[k] \in Nat /\ boot[k] < 2 * StepsPerPort
             /\ boot[k] + 1 = ch * StepsPerPort + i /\ boot[k] < (ch + 1) * StepsPerPort
             /\ call[k].kind = serialfc_port_new[i].kind
             /\ call[k].name = serialfc_port_new[i].name
             /\ call[k].arg = serialfc_port_new[i].arg
<1>1. boot[k] \in Nat /\ boot[k] < 2 * StepsPerPort
  <2>1. boot[k] \in 0..2 * StepsPerPort
    BY DEF IInv, CallsInv, TypeOK
  <2> QED BY <2>1, StartUpLength DEF IInv, BootUnderWay
<1>2. 1 \in 1..StepsPerPort
  BY StartUpLength
<1>3. /\ (boot[k] % StepsPerPort) + 1 \in 1..StepsPerPort
      /\ boot[k] \div StepsPerPort \in {0, 1}
  BY <1>1, <1>2, BootArithmetic
<1>4. At(k) = <<k, boot[k] \div StepsPerPort>>
  BY DEF Attributed
<1>5. At(k)[2] = boot[k] \div StepsPerPort
  BY <1>4
<1>6. /\ boot[k] = At(k)[2] * StepsPerPort + (boot[k] % StepsPerPort)
      /\ boot[k] < (At(k)[2] + 1) * StepsPerPort
  BY <1>1, <1>2, <1>3, <1>5, BootArithmetic
<1>7. boot[k] % StepsPerPort \in Int
  BY <1>1, StartUpLength
<1>8. boot[k] + 1 = At(k)[2] * StepsPerPort + ((boot[k] % StepsPerPort) + 1)
  <2>1. At(k)[2] * StepsPerPort \in Int
    BY <1>3, <1>5, StartUpLength
  <2> QED BY <1>1, <1>6, <1>7, <2>1
<1>9. /\ call[k].kind = serialfc_port_new[(boot[k] % StepsPerPort) + 1].kind
      /\ call[k].name = serialfc_port_new[(boot[k] % StepsPerPort) + 1].name
      /\ call[k].arg = serialfc_port_new[(boot[k] % StepsPerPort) + 1].arg
  BY DEF Attributed
<1> QED BY <1>1, <1>3, <1>4, <1>5, <1>6, <1>8, <1>9, Zenon

(* What a call under way consists of.                                      *)
LEMMA BusyShape ==
  ASSUME IInv, Served, Attributed, NEW c \in Caller, Busy(c)
  PROVE  LET s == call[c].steps IN
         /\ InitTriggers(c) => s = <<PutTwo(1), SetLcr(191), PutTwo(16), ShadowAcr(0)>>
         /\ AsyncMode(c) => s = <<ReadFcr, RaiseFcr("async")>>
         /\ call[c].kind = "boot" => c \in Card /\ (InitTriggers(c) \/ AsyncMode(c))
         /\ ~InitTriggers(c) => Tidy(s)
         /\ PutsOnce(s) /\ FcrOrder(s)
         /\ call[c].name # "echo_cancel" => Echoless(s)
         /\ \A n \in Cached : IF Sets(c, n)
                              THEN s = SetOne(RegisterOf[n], call[c].arg) /\ call[c].arg \in Byte
                              ELSE Spares(s, RegisterOf[n])
<1> DEFINE s == call[c].steps
<1>1. PICK h \in Handlers(call[c]) : s = h.steps /\ call[c].status = h.status
  BY DEF Served
<1>2. call[c].kind \in {"set", "get", "boot"} /\ call[c].arg \in Int
  BY DEF IInv, CallsInv, TypeOK, CallRecord, Busy
<1>3. /\ call[c].name # "isochronous" => call[c].arg \in Nat
      /\ call[c].kind = "boot" => c \in Card /\ (InitTriggers(c) \/ AsyncMode(c))
  <2>1. CASE c \in Card
    BY <2>1, LoaderAt, StartUpCalls DEF InitTriggers, AsyncMode
  <2>2. CASE c \in User
    BY <2>2 DEF Attributed
  <2> QED BY <2>1, <2>2 DEF Caller
<1>4. CASE call[c].kind = "set"
  <2>1. h \in Setter(call[c].name, call[c].arg)
    BY <1>1, <1>4 DEF Handlers
  <2>2. /\ Tidy(s) /\ (call[c].name # "echo_cancel" => Echoless(s))
        /\ CachedPart(call[c].name, call[c].arg, h)
    BY <1>1, <1>2, <1>3, <2>1, SettersTidy
  <2>3. ~InitTriggers(c) /\ ~AsyncMode(c)
    BY <1>4 DEF InitTriggers, AsyncMode
  <2>4. \A n \in Cached : Sets(c, n) <=> call[c].name = n /\ h.status = 0
    BY <1>1, <1>4 DEF Sets
  <2> QED BY <1>1, <1>4, <2>2, <2>3, <2>4 DEF CachedPart, Tidy
<1>5. CASE call[c].kind = "get"
  <2>1. h = Getter(call[c].name)
    BY <1>1, <1>5 DEF Handlers
  <2>2. Tidy(s) /\ PutsNothing(s) /\ Echoless(s)
    BY <1>1, <2>1, GettersTidy
  <2>3. ~InitTriggers(c) /\ ~AsyncMode(c) /\ \A n : ~Sets(c, n)
    BY <1>5 DEF InitTriggers, AsyncMode, Sets
  <2>4. \A r : Spares(s, r)
    BY <2>2, PutsNothingSpares
  <2> QED BY <1>5, <2>2, <2>3, <2>4 DEF Tidy
<1>6. CASE call[c].kind = "boot"
  <2>1. h = Boot(call[c].name) /\ \A n : ~Sets(c, n)
    BY <1>1, <1>6 DEF Handlers, Sets
  <2>2. CASE InitTriggers(c)
    <3>1. s = <<PutTwo(1), SetLcr(191), PutTwo(16), ShadowAcr(0)>>
      BY <1>1, <2>1, <2>2 DEF Boot, InitTriggers, fastcom_init_triggers, Do
    <3>2. PutsNothing(s) /\ Echoless(s) /\ PutsOnce(s) /\ FcrOrder(s)
      BY <3>1 DEF PutsNothing, Echoless, PutsOnce, FcrOrder, FcrWrites, Access, PutTwo, SetLcr, ShadowAcr
    <3>3. ~AsyncMode(c)
      BY <2>2 DEF AsyncMode, InitTriggers
    <3>4. \A r : Spares(s, r)
      BY <3>2, PutsNothingSpares
    <3> QED BY <1>3, <2>1, <2>2, <3>1, <3>2, <3>3, <3>4
  <2>3. CASE AsyncMode(c)
    <3>1. s = <<ReadFcr, RaiseFcr("async")>> /\ h = fscc_enable_async_mode
      BY <1>1, <2>1, <2>3 DEF Boot, AsyncMode, fscc_enable_async_mode, Do
    <3>2. Tidy(s) /\ PutsNothing(s) /\ Echoless(s)
      BY <1>1, <3>1, BoardTidy
    <3>3. ~InitTriggers(c)
      BY <2>3 DEF AsyncMode, InitTriggers
    <3>4. \A r : Spares(s, r)
      BY <3>2, PutsNothingSpares
    <3> QED BY <1>3, <2>1, <2>3, <3>1, <3>2, <3>3, <3>4 DEF Tidy
  <2> QED BY <1>3, <1>6, <2>2, <2>3
<1> QED BY <1>2, <1>4, <1>5, <1>6

-----------------------------------------------------------------------------
(* What one access changes.                                                *)

\* Caller d is where it was, in the same call.
SameCall(d) ==
  /\ Busy(d)' = Busy(d) /\ At(d)' = At(d)
  /\ call'[d].kind = call[d].kind /\ call'[d].name = call[d].name
  /\ call'[d].arg = call[d].arg /\ call'[d].status = call[d].status
  /\ call'[d].steps = call[d].steps

\* Caller c goes on in its call, with f as what it knows of the FCR.
GoesOn(c, f) ==
  \E l, b : call' = [call EXCEPT ![c] = Moved(call[c], l, f, b)]

(* A call record moved on is the same call.                                *)
LEMMA MovesOn ==
  ASSUME CallsInv, NEW c \in Caller, NEW f, GoesOn(c, f)
  PROVE  /\ \A d \in Caller : SameCall(d) /\ (d # c => call'[d] = call[d])
         /\ call'[c].pc = call[c].pc + 1 /\ call'[c].fcr = f
<1>1. call \in [Caller -> CallRecord]
  BY DEF CallsInv, TypeOK
<1>2. PICK l, b : call' = [call EXCEPT ![c] = Moved(call[c], l, f, b)]
  BY DEF GoesOn
<1>3. call'[c] = Moved(call[c], l, f, b) /\ \A d \in Caller : d # c => call'[d] = call[d]
  BY <1>1, <1>2
<1> QED BY <1>3 DEF SameCall, Moved, Busy, At

(* The caller is one access further, and knows the FCR if it read it.      *)
LEMMA PerformedCalls ==
  ASSUME CallsInv, NEW c \in Caller, Perform(c)
  PROVE  /\ \A d \in Caller : SameCall(d) /\ (d # c => call'[d] = call[d])
         /\ call'[c].pc = call[c].pc + 1
         /\ call'[c].fcr = IF Pending(c).io = "read_fcr" THEN fcr[At(c)[1]] ELSE call[c].fcr
<1> DEFINE r == call[c]
<1>1. PICK io : Doing(c, io)
  BY DEF Perform, SaveLcrStep, ClearLcrStep, RestoreLcrStep, SetLcrStep, SelectStep, PutStep,
         PutAcrStep, GetStep, ShadowStep, PutTwoStep, ReadFcrStep, WriteFcrStep, RaiseFcrStep,
         PinsStep, WriteBackStep
<1>2. /\ r \in CallRecord /\ r.lcr \in Byte /\ r.fcr \in SUBSET FcrBit /\ r.got \in Byte \X Byte
      /\ At(c) \in Port /\ At(c)[1] \in Card /\ Pending(c).io = io
  BY <1>1, DoingFacts DEF CallRecord
<1>3. CASE SaveLcrStep(c)
  <2>1. lcr[At(c)] \in Byte
    BY <1>2 DEF CallsInv, TypeOK
  <2>2. [r EXCEPT !.lcr = lcr[At(c)], !.pc = @ + 1] = Moved(r, lcr[At(c)], r.fcr, r.got)
    BY <1>2, <2>1, MovedTypes
  <2>3. call' = [call EXCEPT ![c] = [r EXCEPT !.lcr = lcr[At(c)], !.pc = @ + 1]]
        /\ Pending(c).io = "save_lcr"
    BY <1>3 DEF SaveLcrStep, Doing
  <2>4. GoesOn(c, call[c].fcr)
    BY <2>2, <2>3, Zenon DEF GoesOn
  <2> QED BY <2>3, <2>4, MovesOn
<1>4. CASE ReadFcrStep(c)
  <2>1. fcr[At(c)[1]] \in SUBSET FcrBit
    BY <1>2 DEF CallsInv, TypeOK
  <2>2. [r EXCEPT !.fcr = fcr[At(c)[1]], !.pc = @ + 1] = Moved(r, r.lcr, fcr[At(c)[1]], r.got)
    BY <1>2, <2>1, MovedTypes
  <2>3. call' = [call EXCEPT ![c] = [r EXCEPT !.fcr = fcr[At(c)[1]], !.pc = @ + 1]]
        /\ Pending(c).io = "read_fcr"
    BY <1>4 DEF ReadFcrStep, Doing
  <2>4. GoesOn(c, fcr[At(c)[1]])
    BY <2>2, <2>3, Zenon DEF GoesOn
  <2> QED BY <2>3, <2>4, MovesOn
<1>5. CASE GetStep(c)
  <2>1. PICK v \in Byte : call' = [call EXCEPT ![c] = [r EXCEPT !.got = <<r.got[2], v>>, !.pc = @ + 1]]
    <3>1. icr[At(c)][spr[At(c)]] \in Byte /\ Junk \subseteq Byte
      BY <1>2, BytesAssumption DEF CallsInv, TypeOK
    <3> QED BY <1>5, <3>1, ZenonT(60) DEF GetStep
  <2>2. <<r.got[2], v>> \in Byte \X Byte
    BY <1>2
  <2>3. [r EXCEPT !.got = <<r.got[2], v>>, !.pc = @ + 1] = Moved(r, r.lcr, r.fcr, <<r.got[2], v>>)
    BY <1>2, <2>2, MovedTypes
  <2>4. GoesOn(c, call[c].fcr)
    BY <2>1, <2>3, Zenon DEF GoesOn
  <2>5. Pending(c).io # "read_fcr"
    BY <1>5 DEF GetStep, Doing
  <2> QED BY <2>4, <2>5, MovesOn
<1>6. CASE Advance(c) /\ ~ReadFcrStep(c)
  <2>1. [r EXCEPT !.pc = @ + 1] = Moved(r, r.lcr, r.fcr, r.got)
    BY <1>2, MovedTypes
  <2>2. call' = [call EXCEPT ![c] = [r EXCEPT !.pc = @ + 1]]
    BY <1>6 DEF Advance
  <2>3. GoesOn(c, call[c].fcr)
    BY <2>1, <2>2, Zenon DEF GoesOn
  <2>4. Pending(c).io # "read_fcr"
    BY <1>6 DEF Perform, SaveLcrStep, ClearLcrStep, RestoreLcrStep, SetLcrStep, SelectStep, PutStep,
         PutAcrStep, GetStep, ShadowStep, PutTwoStep, WriteFcrStep, RaiseFcrStep,
         PinsStep, WriteBackStep, Doing
  <2> QED BY <2>3, <2>4, MovesOn
<1>7. \/ SaveLcrStep(c) \/ ReadFcrStep(c) \/ GetStep(c) \/ (Advance(c) /\ ~ReadFcrStep(c))
  BY DEF Perform, ClearLcrStep, RestoreLcrStep, SetLcrStep, SelectStep, PutStep,
         PutAcrStep, ShadowStep, PutTwoStep, WriteFcrStep, RaiseFcrStep,
         PinsStep, WriteBackStep, StoreFcr
<1> QED BY <1>3, <1>4, <1>5, <1>6, <1>7

(* Where the caller stands before the access.                              *)
LEMMA PerformingAt ==
  ASSUME CallsInv, NEW c \in Caller, Perform(c)
  PROVE  /\ Busy(c) /\ At(c) \in Port /\ At(c)[1] \in Card /\ At(c)[2] \in {0, 1}
         /\ call[c].steps \in Seq(Accesses) /\ call[c].pc \in 1..Len(call[c].steps)
         /\ Pending(c) = call[c].steps[call[c].pc] /\ Pending(c) \in Accesses
         /\ Doing(c, Pending(c).io)
         /\ Framed(call[c].steps)
<1>1. PICK io : Doing(c, io)
  BY DEF Perform, SaveLcrStep, ClearLcrStep, RestoreLcrStep, SetLcrStep, SelectStep, PutStep,
         PutAcrStep, GetStep, ShadowStep, PutTwoStep, ReadFcrStep, WriteFcrStep, RaiseFcrStep,
         PinsStep, WriteBackStep
<1> QED BY <1>1, DoingFacts DEF Pending, Doing

(* The registers of the port after the access.  A byte meant for an        *)
(* indexed register reaches it.                                            *)
LEMMA PerformedPort ==
  ASSUME CallsInv, NEW c \in Caller, Perform(c)
  PROVE  LET a == Pending(c)
             p == At(c)
         IN  /\ cache' = cache /\ boot' = boot
             /\ a.io \notin {"put", "put_acr"} => icr' = icr
             /\ a.io = "put" => a.reg \in IcrReg /\ icr' = [icr EXCEPT ![p][a.reg] = a.val]
             /\ a.io = "put_acr" => icr' = [icr EXCEPT ![p]["ACR"] = acr[p] + a.val]
             /\ acr' = IF a.io = "shadow" THEN [acr EXCEPT ![p] = a.val] ELSE acr
             /\ line' = IF a.io = "set_lcr" THEN [line EXCEPT ![p] = a.val] ELSE line
             /\ a.io # "offset_two" => mode' = mode
             /\ a.io = "offset_two" =>
                  mode' = [mode EXCEPT ![p][IF Indexed(p) THEN "fifo" ELSE "efr"] = a.val]
<1> DEFINE a == Pending(c)
           p == At(c)
<1>1. /\ Busy(c) /\ p \in Port /\ call[c].pc \in 1..Len(call[c].steps)
      /\ Framed(call[c].steps) /\ a = call[c].steps[call[c].pc] /\ a \in Accesses
  BY PerformingAt
<1>2. a.io \in IcrIo => Indexed(p) /\ spr[p] = a.reg /\ a.reg \in IcrReg
  <2> SUFFICES ASSUME a.io \in IcrIo PROVE Indexed(p) /\ spr[p] = a.reg /\ a.reg \in IcrReg
    OBVIOUS
  <2>1. Cleared(call[c].steps, call[c].pc) /\ Selected(call[c].steps, call[c].pc, a.reg)
    BY <1>1 DEF Framed
  <2>2. a.reg \in IcrReg
    BY <1>1 DEF Accesses
  <2>3. lcr[p] = 0
    BY <1>1, <2>1 DEF CallsInv, LcrFollowsCall
  <2>4. spr[p] = a.reg
    BY <1>1, <2>1, <2>2 DEF CallsInv, SprFollowsCall
  <2> QED BY <2>2, <2>3, <2>4 DEF Indexed
<1>3. cache' = cache /\ boot' = boot
  BY DEF Perform, SaveLcrStep, ClearLcrStep, RestoreLcrStep, SetLcrStep, SelectStep, PutStep,
         PutAcrStep, GetStep, ShadowStep, PutTwoStep, ReadFcrStep, WriteFcrStep, RaiseFcrStep,
         PinsStep, WriteBackStep, StoreFcr
<1>4. CASE PutStep(c)
  <2>1. a.io = "put" /\ StoreIcr(p, a.val) /\ acr' = acr /\ line' = line /\ mode' = mode
    BY <1>4 DEF PutStep, Doing
  <2>2. Indexed(p) /\ spr[p] = a.reg /\ a.reg \in IcrReg
    BY <1>2, <2>1 DEF IcrIo
  <2> QED BY <1>3, <2>1, <2>2 DEF StoreIcr
<1>5. CASE PutAcrStep(c)
  <2>1. a.io = "put_acr" /\ StoreIcr(p, acr[p] + a.val) /\ acr' = acr /\ line' = line /\ mode' = mode
    BY <1>5 DEF PutAcrStep, Doing
  <2>2. Indexed(p) /\ spr[p] = "ACR"
    BY <1>1, <1>2, <2>1 DEF IcrIo, Accesses
  <2> QED BY <1>3, <2>1, <2>2 DEF StoreIcr
<1>6. CASE ShadowStep(c)
  <2>1. a.io = "shadow" /\ icr' = icr /\ acr' = [acr EXCEPT ![p] = a.val] /\ line' = line /\ mode' = mode
    BY <1>6 DEF ShadowStep, Doing, hardware
  <2> QED BY <1>3, <2>1
<1>7. CASE SetLcrStep(c)
  <2>1. a.io = "set_lcr" /\ icr' = icr /\ acr' = acr /\ line' = [line EXCEPT ![p] = a.val] /\ mode' = mode
    BY <1>7 DEF SetLcrStep, Doing
  <2> QED BY <1>3, <2>1
<1>8. CASE PutTwoStep(c)
  <2>1. /\ a.io = "offset_two" /\ icr' = icr /\ acr' = acr /\ line' = line
        /\ mode' = [mode EXCEPT ![p][IF Indexed(p) THEN "fifo" ELSE "efr"] = a.val]
    BY <1>8 DEF PutTwoStep, Doing
  <2> QED BY <1>3, <2>1
<1>9. CASE \/ SaveLcrStep(c) \/ ClearLcrStep(c) \/ RestoreLcrStep(c) \/ SelectStep(c) \/ GetStep(c)
           \/ ReadFcrStep(c) \/ WriteFcrStep(c) \/ RaiseFcrStep(c) \/ PinsStep(c) \/ WriteBackStep(c)
  <2>1. /\ a.io \notin {"put", "put_acr", "shadow", "set_lcr", "offset_two"}
        /\ icr' = icr /\ acr' = acr /\ line' = line /\ mode' = mode
    BY <1>9 DEF SaveLcrStep, ClearLcrStep, RestoreLcrStep, SelectStep, GetStep, ReadFcrStep,
       WriteFcrStep, RaiseFcrStep, PinsStep, WriteBackStep, StoreFcr, Doing, hardware
  <2> QED BY <1>3, <2>1
<1> QED BY <1>4, <1>5, <1>6, <1>7, <1>8, <1>9 DEF Perform

\* The next access of c is meant to change this bit of the FCR.
Aims(c, bit) ==
  Pending(c).io \in {"write_fcr", "raise_fcr"} /\ bit = FcrMask(Pending(c).reg, At(c)[2])

\* The FCR of a card after c wrote it back: what c knew of it, but for the bit
\* it meant and the clock pins.
WritesBack(c) ==
  /\ \A k \in Card : k # At(c)[1] => fcr'[k] = fcr[k]
  /\ \A bit \in FcrBit : bit[1] # "clock" /\ ~Aims(c, bit) =>
       (bit \in fcr'[At(c)[1]] <=> bit \in call[c].fcr)
  /\ Pending(c).io = "raise_fcr" => FcrMask(Pending(c).reg, At(c)[2]) \in fcr'[At(c)[1]]

(* The FCR after the access.                                               *)
LEMMA PerformedBoard ==
  ASSUME CallsInv, NEW c \in Caller, Perform(c)
  PROVE  /\ Pending(c).io \notin FcrWrites => fcr' = fcr
         /\ Pending(c).io \in FcrWrites =>
              \/ WritesBack(c)
              \/ /\ fcr' = fcr /\ Pending(c).io = "raise_fcr"
                 /\ FcrMask(Pending(c).reg, At(c)[2]) \in call[c].fcr
<1> DEFINE a == Pending(c)
           k == At(c)[1]
           mask == FcrMask(a.reg, At(c)[2])
<1>1. /\ k \in Card /\ fcr \in [Card -> SUBSET FcrBit]
  BY PerformingAt DEF CallsInv, TypeOK
<1>2. CASE WriteFcrStep(c)
  <2> DEFINE bits == IF a.val # 0 THEN call[c].fcr \cup {mask} ELSE call[c].fcr \ {mask}
  <2>1. a.io = "write_fcr" /\ fcr' = [fcr EXCEPT ![k] = bits]
    BY <1>2 DEF WriteFcrStep, StoreFcr, Doing
  <2>2. fcr'[k] = bits /\ \A j \in Card : j # k => fcr'[j] = fcr[j]
    BY <1>1, <2>1
  <2>3. \A bit \in FcrBit : ~Aims(c, bit) => bit # mask
    BY <2>1 DEF Aims
  <2> HIDE DEF mask
  <2>4. \A bit \in FcrBit : bit # mask => (bit \in bits <=> bit \in call[c].fcr)
    OBVIOUS
  <2> QED BY <2>1, <2>2, <2>3, <2>4 DEF WritesBack, FcrWrites
<1>3. CASE RaiseFcrStep(c)
  <2>1. a.io = "raise_fcr"
    BY <1>3 DEF RaiseFcrStep, Doing
  <2>2. CASE mask \in call[c].fcr
    BY <1>3, <2>1, <2>2 DEF RaiseFcrStep, FcrWrites, hardware
  <2>3. CASE mask \notin call[c].fcr
    <3>1. fcr' = [fcr EXCEPT ![k] = call[c].fcr \cup {mask}]
      BY <1>3, <2>3 DEF RaiseFcrStep, StoreFcr
    <3>2. fcr'[k] = call[c].fcr \cup {mask} /\ \A j \in Card : j # k => fcr'[j] = fcr[j]
      BY <1>1, <3>1
    <3>3. \A bit \in FcrBit : ~Aims(c, bit) => bit # mask
      BY <2>1 DEF Aims
    <3> QED BY <2>1, <3>2, <3>3 DEF WritesBack, FcrWrites
  <2> QED BY <2>2, <2>3
<1>4. CASE PinsStep(c)
  <2> DEFINE low == {FcrMask("clock", 0), FcrMask("clock", 1)}
  <2>1. PICK high \in SUBSET {FcrMask("clock", At(c)[2])} :
          fcr' = [fcr EXCEPT ![k] = (call[c].fcr \ low) \cup high]
    BY <1>4 DEF PinsStep, StoreFcr
  <2>2. a.io = "pins"
    BY <1>4 DEF PinsStep, Doing
  <2>3. fcr'[k] = (call[c].fcr \ low) \cup high /\ \A j \in Card : j # k => fcr'[j] = fcr[j]
    BY <1>1, <2>1
  <2>4. \A bit \in FcrBit : bit[1] # "clock" => bit \notin low /\ bit \notin high
    BY DEF FcrMask
  <2> HIDE DEF low
  <2> QED BY <2>2, <2>3, <2>4 DEF WritesBack, FcrWrites
<1>5. CASE WriteBackStep(c)
  <2>1. a.io = "write_back" /\ fcr' = [fcr EXCEPT ![k] = call[c].fcr]
    BY <1>5 DEF WriteBackStep, StoreFcr, Doing
  <2>2. fcr'[k] = call[c].fcr /\ \A j \in Card : j # k => fcr'[j] = fcr[j]
    BY <1>1, <2>1
  <2> QED BY <2>1, <2>2 DEF WritesBack, FcrWrites
<1>6. CASE \/ SaveLcrStep(c) \/ ClearLcrStep(c) \/ RestoreLcrStep(c) \/ SelectStep(c) \/ GetStep(c)
           \/ ReadFcrStep(c) \/ SetLcrStep(c) \/ PutStep(c) \/ PutAcrStep(c) \/ ShadowStep(c) \/ PutTwoStep(c)
  BY <1>6 DEF SaveLcrStep, ClearLcrStep, RestoreLcrStep, SelectStep, GetStep, ReadFcrStep, SetLcrStep,
     PutStep, PutAcrStep, ShadowStep, PutTwoStep, Doing, hardware, FcrWrites
<1> QED BY <1>2, <1>3, <1>4, <1>5, <1>6 DEF Perform

-----------------------------------------------------------------------------
(* An access keeps what the registers hold.                                *)

(* Calls go on being what they were.                                       *)
LEMMA PerformKeepsServed ==
  ASSUME IInv, Served, Attributed, NEW c \in Caller, Perform(c) PROVE Served' /\ Attributed'
<1>1. \A d \in Caller : SameCall(d)
  BY PerformedCalls DEF IInv
<1>2. boot' = boot
  BY PerformedPort DEF IInv
<1>3. Served'
  <2> SUFFICES ASSUME NEW d \in Caller, Busy(d)'
               PROVE  \E h \in Handlers(call'[d]) : call'[d].steps = h.steps /\ call'[d].status = h.status
    BY DEF Served
  <2>1. PICK h \in Handlers(call[d]) : call[d].steps = h.steps /\ call[d].status = h.status
    BY <1>1 DEF SameCall, Served
  <2>2. Handlers(call'[d]) = Handlers(call[d])
    <3>1. call'[d].kind = call[d].kind /\ call'[d].name = call[d].name /\ call'[d].arg = call[d].arg
      BY <1>1 DEF SameCall
    <3> QED BY <3>1 DEF Handlers
  <2> QED BY <1>1, <2>1, <2>2 DEF SameCall
<1>4. Attributed'
  BY <1>1, <1>2 DEF Attributed, SameCall, Caller, Ready
<1> QED BY <1>3, <1>4

(* A started port has all its calls behind it.                             *)
LEMMA ReadyProgrammed ==
  ASSUME TypeOK, NEW p \in Port, Ready(p), NEW m \in 0..StepsPerPort PROVE Programmed(p, m)
<1>1. p[1] \in Card /\ p[2] \in {0, 1} /\ boot[p[1]] \in 0..2 * StepsPerPort
  BY DEF TypeOK, Port
<1>2. CASE p[2] = 0
  BY <1>1, <1>2, StartUpLength DEF Ready, Programmed
<1>3. CASE p[2] = 1
  BY <1>1, <1>3, StartUpLength DEF Ready, Programmed
<1> QED BY <1>1, <1>2, <1>3

(* The call that starts a port is the one working on it before it is       *)
(* programmed at all.                                                      *)
LEMMA FirstCall ==
  ASSUME IInv, Attributed, NEW c \in Caller, Busy(c)
  PROVE  InitTriggers(c) <=> ~Programmed(At(c), 1)
<1>1. CASE c \in User
  <2>1. Ready(At(c)) /\ ~InitTriggers(c)
    BY <1>1 DEF Attributed, InitTriggers
  <2>2. At(c) \in Port /\ TypeOK /\ 1 \in 0..StepsPerPort
    BY StartUpLength DEF IInv, CallsInv, TypeOK, CallRecord, At
  <2> QED BY <2>1, <2>2, ReadyProgrammed
<1>2. CASE c \in Card
  <2> DEFINE ch == At(c)[2]
             i  == (boot[c] % StepsPerPort) + 1
  <2>1. /\ ch \in {0, 1} /\ At(c) = <<c, ch>> /\ i \in 1..StepsPerPort /\ boot[c] \in Nat
        /\ boot[c] + 1 = ch * StepsPerPort + i
        /\ call[c].kind = serialfc_port_new[i].kind
        /\ call[c].name = serialfc_port_new[i].name
    BY <1>2, LoaderAt
  <2> HIDE DEF ch, i
  <2>2. InitTriggers(c) <=> i = 1
    BY <2>1, StartUpCalls DEF InitTriggers
  <2>3. Programmed(At(c), 1) <=> boot[c] >= ch * StepsPerPort + 1
    BY <2>1 DEF Programmed
  <2>4. ch * StepsPerPort \in Int
    BY <2>1, StartUpLength
  <2>5. i = 1 <=> ~(boot[c] >= ch * StepsPerPort + 1)
    BY <2>1, <2>4
  <2> QED BY <2>2, <2>3, <2>5
<1> QED BY <1>1, <1>2 DEF Caller

(* Bytes put stay put: nothing is put twice, and no call works next to it. *)
LEMMA PerformKeepsPuts ==
  ASSUME IInv, Served, Attributed, PutsLand, CacheHeld, NEW c \in Caller, Perform(c)
  PROVE  PutsLand' /\ CacheHeld'
<1> DEFINE a == Pending(c)
           p == At(c)
           s == call[c].steps
           n == call[c].pc
<1>1. /\ Busy(c) /\ p \in Port /\ s \in Seq(Accesses) /\ n \in 1..Len(s) /\ a = s[n] /\ a \in Accesses
  BY PerformingAt DEF IInv
<1>2. /\ \A d \in Caller : SameCall(d) /\ (d # c => call'[d] = call[d])
      /\ call'[c].pc = n + 1
  BY PerformedCalls DEF IInv
<1>3. /\ cache' = cache /\ boot' = boot
      /\ a.io \notin {"put", "put_acr"} => icr' = icr
      /\ a.io = "put" => a.reg \in IcrReg /\ icr' = [icr EXCEPT ![p][a.reg] = a.val]
      /\ a.io = "put_acr" => icr' = [icr EXCEPT ![p]["ACR"] = acr[p] + a.val]
  BY PerformedPort DEF IInv
<1>4. PutsOnce(s) /\ \A m \in Cached : ~Sets(c, m) => Spares(s, RegisterOf[m])
  BY <1>1, BusyShape
<1>5. icr \in [Port -> [IcrReg -> Byte]] /\ "ACR" \in IcrReg
  BY DEF IInv, CallsInv, TypeOK, IcrReg
<1>6. /\ \A q \in Port : q # p => icr'[q] = icr[q]
      /\ \A r \in IcrReg : ~(a.io = "put" /\ r = a.reg) /\ r # "ACR" => icr'[p][r] = icr[p][r]
      /\ a.io = "put" => icr'[p][a.reg] = a.val /\ a.reg \in IcrReg
  <2>1. CASE a.io = "put"
    <3>1. a.reg \in IcrReg /\ icr' = [icr EXCEPT ![p][a.reg] = a.val]
      BY <1>3, <2>1
    <3> HIDE DEF a, p
    <3> QED BY <1>1, <1>5, <2>1, <3>1
  <2>2. CASE a.io = "put_acr"
    <3>1. icr' = [icr EXCEPT ![p]["ACR"] = acr[p] + a.val]
      BY <1>3, <2>2
    <3> HIDE DEF a, p
    <3> QED BY <1>1, <1>5, <2>2, <3>1
  <2>3. CASE a.io \notin {"put", "put_acr"}
    BY <1>3, <2>3
  <2> QED BY <2>1, <2>2, <2>3
<1> HIDE DEF a, p, s, n
<1>7. PutsLand'
  <2> SUFFICES ASSUME NEW d \in Caller, Busy(d)', NEW i \in 1..call'[d].pc - 1, call'[d].steps[i].io = "put"
               PROVE  icr'[At(d)'][call'[d].steps[i].reg] = call'[d].steps[i].val
    BY DEF PutsLand
  <2>1. Busy(d) /\ At(d)' = At(d) /\ call'[d].steps = call[d].steps
    BY <1>2 DEF SameCall
  <2>2. CASE d # c
    <3>1. At(d) # p /\ At(d) \in Port
      BY <1>1, <2>1, <2>2 DEF IInv, CallsInv, Exclusive, TypeOK, CallRecord, At, p
    <3> QED BY <1>2, <1>6, <2>1, <2>2, <3>1 DEF PutsLand
  <2>3. CASE d = c
    <3>1. i \in 1..n /\ i \in 1..Len(s) /\ s[i].io = "put" /\ At(d)' = p
      BY <1>1, <1>2, <2>1, <2>3 DEF s, p
    <3>2. CASE i = n
      BY <1>1, <1>6, <2>1, <2>3, <3>1, <3>2 DEF s
    <3>3. CASE i # n
      <4>1. icr[p][s[i].reg] = s[i].val
        BY <1>1, <3>1, <3>3, <2>3 DEF PutsLand, s, n, p
      <4>2. s[i].reg # "ACR" /\ ~(a.io = "put" /\ s[i].reg = a.reg)
        BY <1>1, <1>4, <3>1, <3>3 DEF PutsOnce
      <4>3. s[i].reg \in IcrReg
        <5>1. s[i] \in Accesses
          BY <1>1, <3>1
        <5> QED BY <3>1, <5>1 DEF Accesses, IcrIo
      <4> QED BY <1>6, <2>1, <2>3, <3>1, <4>1, <4>2, <4>3 DEF s
    <3> QED BY <3>2, <3>3
  <2> QED BY <2>2, <2>3
<1>8. CacheHeld'
  <2> SUFFICES ASSUME NEW q \in Port, NEW name \in Cached, Programmed(q, PlaceOf[name])',
                      \A d \in Caller : At(d)' = q => ~Sets(d, name)'
               PROVE  icr'[q][RegisterOf[name]] = cache'[q][name]
    BY DEF CacheHeld
  <2>1. \A d \in Caller : Sets(d, name)' = Sets(d, name) /\ At(d)' = At(d)
    BY <1>2 DEF SameCall, Sets
  <2>2. icr[q][RegisterOf[name]] = cache[q][name]
    <3>1. Programmed(q, PlaceOf[name])
      BY <1>3 DEF Programmed
    <3> QED BY <2>1, <3>1 DEF CacheHeld
  <2>3. CASE q # p
    BY <1>3, <1>6, <2>2, <2>3
  <2>4. CASE q = p
    <3>1. ~Sets(c, name)
      BY <2>1, <2>4 DEF p
    <3>2. Spares(s, RegisterOf[name])
      BY <1>4, <3>1
    <3>3. ~(a.io = "put" /\ RegisterOf[name] = a.reg)
      BY <1>1, <3>2 DEF Spares
    <3>4. RegisterOf[name] \in IcrReg /\ RegisterOf[name] # "ACR"
      BY DEF RegisterOf, Cached, IcrReg
    <3> QED BY <1>3, <1>6, <2>2, <2>4, <3>3, <3>4
  <2> QED BY <2>3, <2>4
<1> QED BY <1>7, <1>8

(* ACR goes on holding port->ACR, and what a call has added to it.         *)
LEMMA PerformKeepsAcr ==
  ASSUME IInv, Served, Attributed, AcrFollowsCall, AcrHeld, NEW c \in Caller, Perform(c)
  PROVE  AcrFollowsCall' /\ AcrHeld'
<1> DEFINE a == Pending(c)
           p == At(c)
           s == call[c].steps
           n == call[c].pc
<1>1. /\ Busy(c) /\ p \in Port /\ s \in Seq(Accesses) /\ n \in 1..Len(s) /\ a = s[n] /\ a \in Accesses
  BY PerformingAt DEF IInv
<1>2. /\ \A d \in Caller : SameCall(d) /\ (d # c => call'[d] = call[d])
      /\ call'[c].pc = n + 1
  BY PerformedCalls DEF IInv
<1>3. /\ boot' = boot
      /\ a.io \notin {"put", "put_acr"} => icr' = icr
      /\ a.io = "put" => a.reg \in IcrReg /\ icr' = [icr EXCEPT ![p][a.reg] = a.val]
      /\ a.io = "put_acr" => icr' = [icr EXCEPT ![p]["ACR"] = acr[p] + a.val]
      /\ acr' = IF a.io = "shadow" THEN [acr EXCEPT ![p] = a.val] ELSE acr
  BY PerformedPort DEF IInv
<1>4. PutsOnce(s)
  BY <1>1, BusyShape
<1>5. icr \in [Port -> [IcrReg -> Byte]] /\ acr \in [Port -> {0, 16}] /\ "ACR" \in IcrReg
  BY DEF IInv, CallsInv, TypeOK, IcrReg
<1>6. /\ \A q \in Port : q # p => icr'[q] = icr[q] /\ acr'[q] = acr[q]
      /\ a.io \notin AcrIo => icr'[p]["ACR"] = icr[p]["ACR"] /\ acr'[p] = acr[p]
      /\ a.io = "put_acr" => icr'[p]["ACR"] = acr[p] + a.val /\ acr'[p] = acr[p]
  <2>1. CASE a.io = "put"
    <3>1. a.reg # "ACR"
      BY <1>1, <1>4, <2>1 DEF PutsOnce
    <3>2. a.reg \in IcrReg /\ icr' = [icr EXCEPT ![p][a.reg] = a.val] /\ acr' = acr
      BY <1>3, <2>1
    <3> HIDE DEF a, p
    <3> QED BY <1>1, <1>5, <2>1, <3>1, <3>2
  <2>2. CASE a.io = "put_acr"
    <3>1. icr' = [icr EXCEPT ![p]["ACR"] = acr[p] + a.val] /\ acr' = acr
      BY <1>3, <2>2
    <3> HIDE DEF a, p
    <3> QED BY <1>1, <1>5, <2>2, <3>1 DEF AcrIo
  <2>3. CASE a.io = "shadow"
    <3>1. icr' = icr /\ acr' = [acr EXCEPT ![p] = a.val]
      BY <1>3, <2>3
    <3> HIDE DEF a, p
    <3> QED BY <1>1, <1>5, <2>3, <3>1 DEF AcrIo
  <2>4. CASE a.io \notin {"put", "put_acr", "shadow"}
    <3>1. icr' = icr /\ acr' = acr
      BY <1>3, <2>4
    <3> HIDE DEF a, p
    <3> QED BY <2>4, <3>1
  <2> QED BY <2>1, <2>2, <2>3, <2>4
<1> HIDE DEF a, p, s, n
<1>7. AcrFollowsCall'
  <2> SUFFICES ASSUME NEW d \in Caller, Busy(d)', NEW i \in 1..call'[d].pc - 1,
                      call'[d].steps[i].io = "put_acr",
                      \A j \in i+1..call'[d].pc - 1 : call'[d].steps[j].io \notin AcrIo
               PROVE  icr'[At(d)']["ACR"] = acr'[At(d)'] + call'[d].steps[i].val
    BY DEF AcrFollowsCall
  <2>1. Busy(d) /\ At(d)' = At(d) /\ call'[d].steps = call[d].steps
    BY <1>2 DEF SameCall
  <2>2. CASE d # c
    <3>1. At(d) # p /\ At(d) \in Port
      BY <1>1, <2>1, <2>2 DEF IInv, CallsInv, Exclusive, TypeOK, CallRecord, At, p
    <3>2. icr[At(d)]["ACR"] = acr[At(d)] + call[d].steps[i].val
      BY <1>2, <2>1, <2>2 DEF AcrFollowsCall
    <3> QED BY <1>6, <2>1, <3>1, <3>2
  <2>3. CASE d = c
    <3>1. i \in 1..n /\ s[i].io = "put_acr" /\ At(d)' = p /\ call'[d].pc = n + 1 /\ call'[d].steps = s
          /\ n \in Nat
      BY <1>1, <1>2, <2>1, <2>3 DEF s, p
    <3>2. CASE i = n
      BY <1>1, <1>6, <3>1, <3>2
    <3>3. CASE i # n
      <4>1. i \in 1..n-1 /\ n \in i+1..(n + 1) - 1 /\ \A j \in i+1..n-1 : j \in i+1..(n + 1) - 1
        BY <3>1, <3>3
      <4>2. a.io \notin AcrIo
        BY <1>1, <3>1, <4>1
      <4>3. \A j \in i+1..n-1 : s[j].io \notin AcrIo
        BY <3>1, <4>1
      <4>4. icr[p]["ACR"] = acr[p] + s[i].val
        BY <1>1, <2>3, <3>1, <4>1, <4>3 DEF AcrFollowsCall, s, n, p
      <4> QED BY <1>6, <3>1, <4>2, <4>4
    <3> QED BY <3>2, <3>3
  <2> QED BY <2>2, <2>3
<1>8. AcrHeld'
  <2> SUFFICES ASSUME NEW q \in Port, Programmed(q, 2)',
                      \A d \in Caller : Busy(d)' /\ At(d)' = q => ~OnAcr(d)'
               PROVE  icr'[q]["ACR"] = acr'[q]
    BY DEF AcrHeld
  <2>1. \A d \in Caller : Busy(d)' = Busy(d) /\ At(d)' = At(d) /\ OnAcr(d)' = OnAcr(d)
    BY <1>2 DEF SameCall, OnAcr
  <2>2. icr[q]["ACR"] = acr[q]
    <3>1. Programmed(q, 2)
      BY <1>3 DEF Programmed
    <3> QED BY <2>1, <3>1 DEF AcrHeld
  <2>3. CASE q # p
    BY <1>6, <2>2, <2>3
  <2>4. CASE q = p
    <3>1. ~OnAcr(c)
      BY <1>1, <2>1, <2>4 DEF p
    <3>2. a.io \notin AcrIo
      BY <1>1, <3>1 DEF OnAcr, s
    <3> QED BY <1>6, <2>2, <2>4, <3>2
  <2> QED BY <2>3, <2>4
<1> QED BY <1>7, <1>8

(* Only init_triggers writes to offset 2, and it meets LCR as it must.     *)
LEMMA PerformKeepsMode ==
  ASSUME IInv, Served, Attributed, ModeHeld, NEW c \in Caller, Perform(c)
  PROVE  ModeHeld'
<1> DEFINE a == Pending(c)
           p == At(c)
           s == call[c].steps
           n == call[c].pc
<1>1. /\ Busy(c) /\ p \in Port /\ s \in Seq(Accesses) /\ n \in 1..Len(s) /\ a = s[n] /\ a \in Accesses
  BY PerformingAt DEF IInv
<1>2. /\ \A d \in Caller : SameCall(d) /\ (d # c => call'[d] = call[d])
      /\ call'[c].pc = n + 1
  BY PerformedCalls DEF IInv
<1>3. /\ boot' = boot
      /\ line' = IF a.io = "set_lcr" THEN [line EXCEPT ![p] = a.val] ELSE line
      /\ a.io # "offset_two" => mode' = mode
      /\ a.io = "offset_two" =>
           mode' = [mode EXCEPT ![p][IF Indexed(p) THEN "fifo" ELSE "efr"] = a.val]
  BY PerformedPort DEF IInv
<1>4. /\ InitTriggers(c) => s = <<PutTwo(1), SetLcr(191), PutTwo(16), ShadowAcr(0)>>
      /\ ~InitTriggers(c) => Plain(s)
      /\ InitTriggers(c) <=> ~Programmed(p, 1)
  BY <1>1, BusyShape, FirstCall DEF Tidy
<1>5. mode \in [Port -> [{"fifo", "efr"} -> Byte]] /\ line \in [Port -> Byte] /\ lcr \in [Port -> Byte]
  BY DEF IInv, CallsInv, TypeOK
<1>6. \A d \in Caller : Busy(d) /\ d # c => At(d) # p /\ At(d) \in Port
  BY <1>1 DEF IInv, CallsInv, Exclusive, TypeOK, CallRecord, At
<1>7. \A q \in Port : q # p => mode'[q] = mode[q] /\ line'[q] = line[q]
  <2>1. CASE a.io = "offset_two"
    <3>1. line' = line /\ mode' = [mode EXCEPT ![p][IF Indexed(p) THEN "fifo" ELSE "efr"] = a.val]
      BY <1>3, <2>1
    <3> HIDE DEF a, p
    <3> QED BY <1>5, <3>1
  <2>2. CASE a.io = "set_lcr"
    <3>1. line' = [line EXCEPT ![p] = a.val] /\ mode' = mode
      BY <1>3, <2>2
    <3> HIDE DEF a, p
    <3> QED BY <1>5, <3>1
  <2>3. CASE a.io \notin {"offset_two", "set_lcr"}
    BY <1>3, <2>3
  <2> QED BY <2>1, <2>2, <2>3
<1>8. CASE ~InitTriggers(c)
  <2>1. a.io \notin {"offset_two", "set_lcr"}
    BY <1>1, <1>4, <1>8 DEF Plain
  <2>2. mode' = mode /\ line' = line
    BY <1>3, <2>1
  <2>3. \A q \in Port : Programmed(q, 1)' = Programmed(q, 1)
    BY <1>3 DEF Programmed
  <2>4. \A q \in Port : ~Programmed(q, 1) =>
          ((\E d \in Caller : Busy(d)' /\ At(d)' = q /\ call'[d].pc > 2)
             <=> \E d \in Caller : Busy(d) /\ At(d) = q /\ call[d].pc > 2)
    <3>1. \A q \in Port : ~Programmed(q, 1) => q # p
      BY <1>4, <1>8
    <3>2. \A d \in Caller : Busy(d)' = Busy(d) /\ At(d)' = At(d) /\ (d # c => call'[d] = call[d])
      BY <1>2 DEF SameCall
    <3> QED BY <3>1, <3>2
  <2>5. \A d \in Caller : Busy(d)' /\ InitTriggers(d)' => Busy(d) /\ InitTriggers(d) /\ call'[d] = call[d]
                                                          /\ At(d)' = At(d)
    BY <1>2, <1>8 DEF SameCall, InitTriggers
  <2> QED BY <2>2, <2>3, <2>4, <2>5 DEF ModeHeld, InitTriggers
<1>9. CASE InitTriggers(c)
  <2>1. s = <<PutTwo(1), SetLcr(191), PutTwo(16), ShadowAcr(0)>> /\ ~Programmed(p, 1) /\ n \in 1..4
    <3>1. s = <<PutTwo(1), SetLcr(191), PutTwo(16), ShadowAcr(0)>>
      BY <1>4, <1>9
    <3> QED BY <1>1, <1>4, <1>9, <3>1
  <2>2. /\ n = 1 => a.io = "offset_two" /\ a.val = 1
        /\ n = 2 => a.io = "set_lcr" /\ a.val = 191
        /\ n = 3 => a.io = "offset_two" /\ a.val = 16
        /\ n = 4 => a.io = "shadow"
    BY <1>1, <2>1 DEF Access, PutTwo, SetLcr, ShadowAcr
  <2>3. /\ n > 1 => mode[p].fifo = FifoGiven(p)
        /\ n > 3 => mode[p].efr = 16
    BY <1>1, <1>9 DEF ModeHeld, InitTriggers
  <2>4. /\ line[p] = IF n > 2 THEN 191 ELSE AtLoad[p].lcr
        /\ AtLoad[p].lcr = 191 => mode[p].fifo = AtLoad[p].fifo
    BY <1>1, <1>6, <2>1 DEF ModeHeld
  <2>5. ~Cleared(s, n)
    BY <2>1 DEF Cleared, Access, PutTwo, SetLcr, ShadowAcr
  <2>6. /\ n <= 2 => (Indexed(p) <=> AtLoad[p].lcr # 191)
        /\ n > 2 => ~Indexed(p)
    <3>1. lcr[p] = line[p]
      BY <1>1, <2>5 DEF IInv, CallsInv, LcrFollowsCall
    <3> QED BY <2>1, <2>4, <3>1 DEF Indexed
  <2> HIDE DEF a, p, s, n
  <2>7. /\ mode'[p].fifo = FifoGiven(p)
        /\ n > 2 => mode'[p].efr = 16
        /\ line'[p] = IF n > 1 THEN 191 ELSE AtLoad[p].lcr
    <3>1. CASE n = 1
      <4>1. /\ mode' = [mode EXCEPT ![p][IF AtLoad[p].lcr # 191 THEN "fifo" ELSE "efr"] = 1]
            /\ line' = line
        BY <1>3, <2>2, <2>6, <3>1
      <4>2. mode'[p].fifo = IF AtLoad[p].lcr # 191 THEN 1 ELSE mode[p].fifo
        BY <1>1, <1>5, <4>1
      <4> QED BY <2>4, <3>1, <4>1, <4>2 DEF FifoGiven
    <3>2. CASE n = 2
      <4>1. mode' = mode /\ line' = [line EXCEPT ![p] = 191]
        BY <1>3, <2>2, <3>2
      <4> QED BY <1>1, <1>5, <2>3, <3>2, <4>1
    <3>3. CASE n = 3
      <4>1. mode' = [mode EXCEPT ![p]["efr"] = 16] /\ line' = line
        BY <1>3, <2>2, <2>6, <3>3
      <4> QED BY <1>1, <1>5, <2>3, <2>4, <3>3, <4>1
    <3>4. CASE n = 4
      <4>1. mode' = mode /\ line' = line
        BY <1>3, <2>2, <3>4
      <4> QED BY <2>3, <2>4, <3>4, <4>1
    <3> QED BY <2>1, <3>1, <3>2, <3>3, <3>4
  <2>8. \A q \in Port : Programmed(q, 1)' = Programmed(q, 1)
    BY <1>3 DEF Programmed
  <2>9. \A q \in Port : Programmed(q, 1)' => mode'[q].fifo = FifoGiven(q) /\ mode'[q].efr = 16
    BY <1>7, <2>1, <2>8 DEF ModeHeld
  <2>10. ASSUME NEW q \in Port, ~Programmed(q, 1)'
         PROVE  /\ line'[q] = IF \E d \in Caller : Busy(d)' /\ At(d)' = q /\ call'[d].pc > 2
                              THEN 191 ELSE AtLoad[q].lcr
                /\ AtLoad[q].lcr = 191 => mode'[q].fifo = AtLoad[q].fifo
    <3>1. \A d \in Caller : Busy(d)' = Busy(d) /\ At(d)' = At(d) /\ (d # c => call'[d] = call[d])
      BY <1>2 DEF SameCall
    <3>2. CASE q = p
      <4>1. (\E d \in Caller : Busy(d)' /\ At(d)' = q /\ call'[d].pc > 2) <=> n + 1 > 2
        BY <1>1, <1>2, <1>6, <3>1, <3>2 DEF p
      <4> QED BY <2>1, <2>7, <3>2, <4>1 DEF FifoGiven
    <3>3. CASE q # p
      <4>1. (\E d \in Caller : Busy(d)' /\ At(d)' = q /\ call'[d].pc > 2)
              <=> \E d \in Caller : Busy(d) /\ At(d) = q /\ call[d].pc > 2
        BY <3>1, <3>3 DEF p
      <4> QED BY <1>7, <2>8, <2>10, <3>3, <4>1 DEF ModeHeld
    <3> QED BY <3>2, <3>3
  <2>11. ASSUME NEW d \in Caller, Busy(d)', call'[d].kind = "boot", call'[d].name = "triggers"
         PROVE  /\ call'[d].pc > 1 => mode'[At(d)'].fifo = FifoGiven(At(d)')
                /\ call'[d].pc > 3 => mode'[At(d)'].efr = 16
    <3>1. CASE d = c
      <4>1. At(d)' = p /\ call'[d].pc = n + 1
        BY <1>2, <3>1 DEF SameCall, p
      <4> QED BY <2>1, <2>7, <4>1
    <3>2. CASE d # c
      <4>1. Busy(d) /\ At(d)' = At(d) /\ call'[d] = call[d]
        BY <1>2, <2>11, <3>2 DEF SameCall
      <4>2. At(d) # p /\ At(d) \in Port
        BY <1>6, <3>2, <4>1
      <4> QED BY <1>7, <2>11, <4>1, <4>2 DEF ModeHeld
    <3> QED BY <3>1, <3>2
  <2> QED BY <2>9, <2>10, <2>11 DEF ModeHeld
<1> QED BY <1>8, <1>9

-----------------------------------------------------------------------------
(* Calls that begin and return.                                            *)

(* Where everybody stands once c has taken up a call.                      *)
LEMMA Entered ==
  ASSUME IInv, Discipline # "none", NEW c \in Caller, ~Busy(c), NEW p \in Port, MayEnter(p),
         NEW request, request.kind # "none", NEW h, Enter(c, p, request, h)
  PROVE  /\ Quiet(p)
         /\ \A d \in Caller : d # c => call'[d] = call[d] /\ Busy(d)' = Busy(d) /\ At(d)' = At(d)
         /\ Busy(c)' /\ At(c)' = p
         /\ call'[c].kind = request.kind /\ call'[c].name = request.name /\ call'[c].arg = request.arg
         /\ call'[c].steps = h.steps /\ call'[c].status = h.status /\ call'[c].pc = 1
<1> DEFINE record ==
      [kind |-> request.kind, name |-> request.name, arg |-> request.arg,
       port |-> p, steps |-> h.steps, pc |-> 1, status |-> h.status,
       lcr |-> 0, fcr |-> {}, got |-> <<0, 0>>, value |-> 0]
<1>1. call' = [call EXCEPT ![c] = record]
  BY DEF Enter
<1>2. record.kind = request.kind /\ record.port = p /\ record.name = request.name
      /\ record.arg = request.arg /\ record.steps = h.steps /\ record.status = h.status /\ record.pc = 1
  OBVIOUS
<1> HIDE DEF record
<1>3. call'[c] = record /\ \A d \in Caller : d # c => call'[d] = call[d]
  BY <1>1 DEF IInv, CallsInv, TypeOK
<1>4. Quiet(p)
  BY EntersQuiet
<1> QED BY <1>2, <1>3, <1>4 DEF Busy, At

(* A call that begins changes no register, and has put nothing yet.        *)
LEMMA EnterKeepsRegisters ==
  ASSUME IInv, Discipline # "none", RegistersInv,
         NEW c \in Caller, ~Busy(c), NEW p \in Port, MayEnter(p),
         NEW request, request.kind # "none", NEW h \in Handlers(request), Enter(c, p, request, h),
         UNCHANGED <<lcr, spr, icr, mode, fcr, acr, cache, boot, line>>
  PROVE  Served' /\ PutsLand' /\ CacheHeld' /\ AcrFollowsCall' /\ AcrHeld' /\ ModeHeld'
<1>1. /\ \A d \in Caller : d # c => call'[d] = call[d] /\ Busy(d)' = Busy(d) /\ At(d)' = At(d)
      /\ call'[c].kind = request.kind /\ call'[c].name = request.name /\ call'[c].arg = request.arg
      /\ call'[c].steps = h.steps /\ call'[c].status = h.status /\ call'[c].pc = 1
  BY Entered
<1>2. Served'
  <2>1. Handlers(call'[c]) = Handlers(request)
    BY <1>1 DEF Handlers
  <2>2. \A d \in Caller : d # c /\ Busy(d)' =>
          \E g \in Handlers(call'[d]) : call'[d].steps = g.steps /\ call'[d].status = g.status
    BY <1>1 DEF RegistersInv, Served
  <2>3. \E g \in Handlers(call'[c]) : call'[c].steps = g.steps /\ call'[c].status = g.status
    BY <1>1, <2>1
  <2> QED BY <2>2, <2>3 DEF Served
<1>3. PutsLand' /\ AcrFollowsCall'
  <2>1. call'[c].pc - 1 = 0
    BY <1>1
  <2>2. PutsLand'
    BY <1>1, <2>1 DEF RegistersInv, PutsLand
  <2>3. AcrFollowsCall'
    BY <1>1, <2>1 DEF RegistersInv, AcrFollowsCall
  <2> QED BY <2>2, <2>3
<1>4. CacheHeld'
  <2>1. \A d \in Caller : \A name : Sets(d, name) => d # c /\ Sets(d, name)' /\ At(d)' = At(d)
    BY <1>1 DEF Sets
  <2> QED BY <2>1 DEF RegistersInv, CacheHeld, Programmed
<1>5. AcrHeld'
  <2>1. \A d \in Caller : Busy(d) /\ OnAcr(d) => d # c /\ Busy(d)' /\ OnAcr(d)' /\ At(d)' = At(d)
    BY <1>1 DEF OnAcr
  <2> QED BY <2>1 DEF RegistersInv, AcrHeld, Programmed
<1>6. ModeHeld'
  <2>1. \A d \in Caller : Busy(d)' /\ call'[d].pc > 1 => d # c
    BY <1>1
  <2>2. \A q \in Port :
          (\E d \in Caller : Busy(d)' /\ At(d)' = q /\ call'[d].pc > 2)
            <=> \E d \in Caller : Busy(d) /\ At(d) = q /\ call[d].pc > 2
    BY <1>1
  <2>3. \A q \in Port : Programmed(q, 1)' = Programmed(q, 1)
    BY DEF Programmed
  <2>4. \A d \in Caller : Busy(d)' /\ call'[d].kind = "boot" /\ call'[d].name = "triggers" =>
          /\ call'[d].pc > 1 => mode'[At(d)'].fifo = FifoGiven(At(d)')
          /\ call'[d].pc > 3 => mode'[At(d)'].efr = 16
    BY <1>1 DEF RegistersInv, ModeHeld
  <2>5. /\ \A q \in Port : Programmed(q, 1)' => mode'[q].fifo = FifoGiven(q) /\ mode'[q].efr = 16
        /\ \A q \in Port : ~Programmed(q, 1)' =>
             /\ line'[q] = IF \E d \in Caller : Busy(d)' /\ At(d)' = q /\ call'[d].pc > 2
                           THEN 191 ELSE AtLoad[q].lcr
             /\ AtLoad[q].lcr = 191 => mode'[q].fifo = AtLoad[q].fifo
    BY <2>2, <2>3 DEF RegistersInv, ModeHeld
  <2> QED BY <2>4, <2>5 DEF ModeHeld
<1> QED BY <1>2, <1>3, <1>4, <1>5, <1>6

(* A user's call begins on a started port.                                 *)
LEMMA BeginKeepsRegisters ==
  ASSUME IInv, Discipline # "none", RegistersInv,
         NEW u \in User, NEW p \in Card \X Opened, NEW request \in Calls, Begin(u, p, request)
  PROVE  RegistersInv'
<1>1. u \in Caller /\ p \in Port /\ u \notin Card
  BY OpenedAssumption, CallerAssumption DEF Caller, Port
<1>2. PICK h \in Handlers(request) : Enter(u, p, request, h)
  BY DEF Begin
<1>3. /\ ~Busy(u) /\ MayEnter(p) /\ Ready(p)
      /\ UNCHANGED <<lcr, spr, icr, mode, fcr, acr, cache, boot, line>>
  BY DEF Begin, hardware
<1>4. /\ request.kind \in {"set", "get"}
      /\ request.name # "isochronous" => request.arg \in Nat
  BY CallsAssumption
<1>5. Served' /\ PutsLand' /\ CacheHeld' /\ AcrFollowsCall' /\ AcrHeld' /\ ModeHeld'
  BY <1>1, <1>2, <1>3, <1>4, EnterKeepsRegisters
<1>6. /\ \A d \in Caller : d # u => call'[d] = call[d] /\ Busy(d)' = Busy(d) /\ At(d)' = At(d)
      /\ At(u)' = p
      /\ call'[u].kind = request.kind /\ call'[u].name = request.name /\ call'[u].arg = request.arg
  BY <1>1, <1>2, <1>3, <1>4, Entered
<1>7. Attributed'
  BY <1>1, <1>3, <1>4, <1>6 DEF RegistersInv, Attributed, Caller, Ready
<1> QED BY <1>5, <1>7 DEF RegistersInv

(* The loader's next call is the one the calls completed point to.         *)
LEMMA BeginBootKeepsRegisters ==
  ASSUME IInv, Discipline # "none", RegistersInv, NEW k \in Card, BeginBoot(k)
  PROVE  RegistersInv'
<1> DEFINE i == (boot[k] % StepsPerPort) + 1
           p == <<k, boot[k] \div StepsPerPort>>
           request == serialfc_port_new[i]
<1>1. boot[k] \in Nat /\ boot[k] < 2 * StepsPerPort /\ 1 \in 1..StepsPerPort
  BY StartUpLength DEF IInv, CallsInv, TypeOK, BeginBoot
<1>2. i \in 1..StepsPerPort /\ boot[k] \div StepsPerPort \in {0, 1}
  BY <1>1, BootArithmetic
<1>3. k \in Caller /\ p \in Port /\ k \notin User
  BY <1>2, CallerAssumption DEF Caller, Port
<1>4. PICK h \in Handlers(request) : Enter(k, p, request, h)
  BY DEF BeginBoot
<1>5. /\ ~Busy(k) /\ MayEnter(p)
      /\ UNCHANGED <<lcr, spr, icr, mode, fcr, acr, cache, boot, line>>
  BY DEF BeginBoot, hardware
<1>6. request.kind # "none"
  BY <1>2, StartUpCalls
<1> HIDE DEF i, p, request
<1>7. Served' /\ PutsLand' /\ CacheHeld' /\ AcrFollowsCall' /\ AcrHeld' /\ ModeHeld'
  BY <1>3, <1>4, <1>5, <1>6, EnterKeepsRegisters
<1>8. /\ \A d \in Caller : d # k => call'[d] = call[d] /\ Busy(d)' = Busy(d) /\ At(d)' = At(d)
      /\ At(k)' = p
      /\ call'[k].kind = request.kind /\ call'[k].name = request.name /\ call'[k].arg = request.arg
  BY <1>3, <1>4, <1>5, <1>6, Entered
<1>9. Attributed'
  BY <1>3, <1>5, <1>8 DEF RegistersInv, Attributed, Caller, Ready, i, p, request
<1> QED BY <1>7, <1>9 DEF RegistersInv

(* What the loader's second to fifth calls are.                            *)
LEMMA LoaderSteps ==
  ASSUME IInv, Served, Attributed, NEW k \in Card, Busy(k)
  PROVE  LET i == (boot[k] % StepsPerPort) + 1 IN
         /\ i = 1 <=> InitTriggers(k)
         /\ i = 10 <=> AsyncMode(k)
         /\ i = 2 => OnAcr(k)
         /\ \A name \in Cached : i = PlaceOf[name] => Sets(k, name)
<1> DEFINE i == (boot[k] % StepsPerPort) + 1
<1>1. /\ i \in 1..StepsPerPort
      /\ call[k].kind = serialfc_port_new[i].kind
      /\ call[k].name = serialfc_port_new[i].name
      /\ call[k].arg = serialfc_port_new[i].arg
  BY LoaderAt
<1> DEFINE r == serialfc_port_new[i]
<1> HIDE DEF i
<1>2. /\ r.kind = "boot" <=> i \in {1, 10}
      /\ r.name = "triggers" <=> i = 1
      /\ r.name = "async" <=> i = 10
      /\ r.name = "rs485" <=> i = 2
      /\ r.name = "sample_rate" <=> i = 3
      /\ r.name = "tx_trigger" <=> i = 4
      /\ r.name = "rx_trigger" <=> i = 5
      /\ i \in {2, 3, 4, 5} => r.kind = "set"
      /\ i = 3 => r.arg = 16
      /\ i \in {4, 5} => r.arg = 32
  BY <1>1, StartUpCalls
<1>3. k \in Caller
  BY DEF Caller
<1>4. PICK h \in Handlers(call[k]) : call[k].steps = h.steps /\ call[k].status = h.status
  BY <1>3 DEF Served
<1>5. ASSUME i = 2 PROVE OnAcr(k)
  <2>1. h = fastcom_set_rs485_fscc(call[k].arg)
    BY <1>1, <1>2, <1>4, <1>5 DEF Handlers, Setter
  <2>2. Len(call[k].steps) = 8 /\ call[k].steps[6].io = "put_acr"
    BY <1>4, <2>1 DEF fastcom_set_rs485_fscc, Do, PutAcr, Access
  <2> QED BY <2>2 DEF OnAcr, AcrIo
<1>6. ASSUME i = 3 PROVE Sets(k, "sample_rate")
  <2>1. h = fastcom_set_sample_rate_fscc(16)
    BY <1>1, <1>2, <1>4, <1>6 DEF Handlers, Setter
  <2>2. h.status = 0
    BY <2>1 DEF fastcom_set_sample_rate_fscc, Do
  <2> QED BY <1>1, <1>2, <1>4, <1>6, <2>2 DEF Sets
<1>7. ASSUME i = 4 PROVE Sets(k, "tx_trigger")
  <2>1. h = fastcom_set_tx_trigger_fscc(32)
    BY <1>1, <1>2, <1>4, <1>7 DEF Handlers, Setter
  <2>2. h.status = 0
    BY <2>1 DEF fastcom_set_tx_trigger_fscc, Do
  <2> QED BY <1>1, <1>2, <1>4, <1>7, <2>2 DEF Sets
<1>8. ASSUME i = 5 PROVE Sets(k, "rx_trigger")
  <2>1. h = fastcom_set_rx_trigger_fscc(32)
    BY <1>1, <1>2, <1>4, <1>8 DEF Handlers, Setter
  <2>2. h.status = 0
    BY <2>1 DEF fastcom_set_rx_trigger_fscc, Do
  <2> QED BY <1>1, <1>2, <1>4, <1>8, <2>2 DEF Sets
<1>9. \A name \in Cached : i = PlaceOf[name] => Sets(k, name)
  BY <1>6, <1>7, <1>8 DEF Cached, PlaceOf
<1>10. (i = 1 <=> InitTriggers(k)) /\ (i = 10 <=> AsyncMode(k))
  BY <1>1, <1>2 DEF InitTriggers, AsyncMode
<1> QED BY <1>5, <1>9, <1>10 DEF i

(* Where everybody stands once c has returned.                             *)
LEMMA Returned ==
  ASSUME IInv, NEW c \in Caller, Return(c)
  PROVE  /\ Busy(c) /\ call[c].pc = Len(call[c].steps) + 1 /\ call[c].steps \in Seq(Accesses)
         /\ At(c) \in Port
         /\ ~Busy(c)'
         /\ \A d \in Caller : d # c => call'[d] = call[d] /\ Busy(d)' = Busy(d) /\ At(d)' = At(d)
<1>1. Busy(c) /\ call[c].pc > Len(call[c].steps) /\ UNCHANGED <<lcr, spr, line>>
  BY DEF Return, hardware
<1>2. PICK v \in Replies(c) : call' = [call EXCEPT ![c] = Idle(call[c].status, v)]
  BY DEF Return
<1>3. CallsInv /\ TypeOK /\ call[c] \in CallRecord
  BY DEF IInv, CallsInv, TypeOK
<1> DEFINE record == Idle(call[c].status, v)
<1>4. record \in CallRecord /\ record.kind = "none"
  BY <1>2, <1>3, RepliesTyped, IdleTyped DEF CallRecord
<1> HIDE DEF record
<1>5. Turns(c, record)
  BY <1>1, <1>2, <1>4 DEF Turns, record
<1>6. /\ call[c].pc \in Nat /\ call[c].steps \in Seq(Accesses) /\ call[c].pc <= Len(call[c].steps) + 1
      /\ At(c) \in Port
  BY <1>1, <1>3 DEF CallsInv, WellFormed, CallRecord, At
<1>7. call[c].pc = Len(call[c].steps) + 1
  BY <1>1, <1>6
<1> QED BY <1>1, <1>3, <1>4, <1>5, <1>6, <1>7, Turned

(* The calls of a port's start-up complete one by one, and stay complete.  *)
LEMMA NewlyProgrammed ==
  ASSUME IInv, Served, Attributed, NEW c \in Caller, Return(c),
         NEW p \in Port, NEW m \in 1..StepsPerPort
  PROVE  /\ Programmed(p, m) => Programmed(p, m)'
         /\ Ready(p) => Ready(p)'
         /\ Programmed(p, m)' /\ ~Programmed(p, m) =>
              c \in Card /\ Busy(c) /\ At(c) = p /\ (boot[c] % StepsPerPort) + 1 = m
         /\ c \in Card /\ At(c) = p => boot'[p[1]] = boot[c] + 1 /\ p[1] = c
<1>1. /\ boot' = IF c \in Card THEN [boot EXCEPT ![c] = @ + 1] ELSE boot
      /\ boot \in [Card -> 0..2 * StepsPerPort] /\ StepsPerPort \in Nat
      /\ p[1] \in Card /\ p[2] \in {0, 1} /\ p = <<p[1], p[2]>>
  BY StartUpLength DEF Return, IInv, CallsInv, TypeOK, Port
<1>2. CASE c \notin Card \/ c # p[1]
  <2>1. boot'[p[1]] = boot[p[1]]
    BY <1>1, <1>2
  <2>2. Programmed(p, m)' = Programmed(p, m) /\ Ready(p)' = Ready(p)
    BY <2>1 DEF Programmed, Ready
  <2>3. c \in Card => At(c) # p
    <3>1. c \in Card => At(c)[1] = c
      BY Returned DEF Attributed
    <3> QED BY <1>2, <3>1
  <2> QED BY <2>2, <2>3
<1>3. CASE c \in Card /\ c = p[1]
  <2>1. boot'[p[1]] = boot[c] + 1 /\ boot[c] \in Nat /\ boot[p[1]] = boot[c]
    BY <1>1, <1>3
  <2>2. p[2] * StepsPerPort \in Int /\ (p[2] + 1) * StepsPerPort \in Int
    BY <1>1
  <2>3. (Programmed(p, m) => Programmed(p, m)') /\ (Ready(p) => Ready(p)')
    BY <2>1, <2>2 DEF Programmed, Ready
  <2>4. ASSUME Programmed(p, m)', ~Programmed(p, m)
        PROVE  Busy(c) /\ At(c) = p /\ (boot[c] % StepsPerPort) + 1 = m
    <3>1. Busy(c)
      BY Returned
    <3>2. boot[c] + 1 >= p[2] * StepsPerPort + m /\ ~(boot[c] >= p[2] * StepsPerPort + m)
      BY <2>1, <2>4 DEF Programmed
    <3>3. boot[c] < 2 * StepsPerPort
      BY <1>3, <3>1 DEF IInv, BootUnderWay
    <3>4. boot[c] \div StepsPerPort = p[2] /\ (boot[c] % StepsPerPort) + 1 = m
      BY <1>1, <2>1, <3>2, <3>3, BootArithmetic
    <3>5. At(c) = <<c, boot[c] \div StepsPerPort>>
      BY <1>3, <3>1 DEF Attributed
    <3> QED BY <1>1, <1>3, <3>1, <3>4, <3>5
  <2> QED BY <1>3, <2>1, <2>3, <2>4
<1> QED BY <1>2, <1>3

(* A setting is remembered when its register has it.                       *)
LEMMA ReturnKeepsCache ==
  ASSUME IInv, Served, Attributed, PutsLand, CacheHeld, NEW c \in Caller, Return(c)
  PROVE  CacheHeld'
<1>1. /\ Busy(c) /\ call[c].pc = Len(call[c].steps) + 1 /\ call[c].steps \in Seq(Accesses)
      /\ At(c) \in Port /\ ~Busy(c)'
      /\ \A d \in Caller : d # c => call'[d] = call[d] /\ Busy(d)' = Busy(d) /\ At(d)' = At(d)
  BY Returned
<1>2. icr' = icr /\ Remember(c) /\ cache \in [Port -> [Cached -> Int]]
  BY DEF Return, hardware, IInv, CallsInv, TypeOK
<1> SUFFICES ASSUME NEW p \in Port, NEW name \in Cached, Programmed(p, PlaceOf[name])',
                    \A d \in Caller : At(d)' = p => ~Sets(d, name)'
             PROVE  icr'[p][RegisterOf[name]] = cache'[p][name]
  BY DEF CacheHeld
<1>3. CASE Sets(c, name) /\ At(c) = p
  <2>1. call[c].steps = SetOne(RegisterOf[name], call[c].arg) /\ call[c].arg \in Byte
    BY <1>1, <1>3, BusyShape
  <2> DEFINE s == call[c].steps
  <2>2. Len(s) = 5 /\ s[4].io = "put" /\ s[4].reg = RegisterOf[name] /\ s[4].val = call[c].arg % 256
    BY <2>1 DEF SetOne, Put, Access
  <2>3. call[c].arg % 256 = call[c].arg
    BY <2>1 DEF Byte
  <2>4. 4 \in 1..call[c].pc - 1
    BY <1>1, <2>2
  <2>5. icr[p][RegisterOf[name]] = call[c].arg
    BY <1>1, <1>3, <2>2, <2>3, <2>4 DEF PutsLand
  <2>6. cache' = [cache EXCEPT ![p][name] = call[c].arg]
    BY <1>2, <1>3 DEF Remember, Sets
  <2>7. cache'[p][name] = call[c].arg
    BY <1>2, <2>6
  <2> QED BY <1>2, <2>5, <2>7
<1>4. CASE ~(Sets(c, name) /\ At(c) = p)
  <2>1. cache'[p][name] = cache[p][name]
    <3>1. CASE call[c].kind = "set" /\ call[c].name \in Cached /\ call[c].status = 0
      <4>1. cache' = [cache EXCEPT ![At(c)][call[c].name] = call[c].arg]
        BY <1>2, <3>1 DEF Remember
      <4>2. At(c) # p \/ call[c].name # name
        BY <1>1, <1>4, <3>1 DEF Sets
      <4> QED BY <1>1, <1>2, <4>1, <4>2
    <3>2. CASE ~(call[c].kind = "set" /\ call[c].name \in Cached /\ call[c].status = 0)
      BY <1>2, <3>2 DEF Remember
    <3> QED BY <3>1, <3>2
  <2>2. \A d \in Caller : At(d) = p => ~Sets(d, name)
    <3> SUFFICES ASSUME NEW d \in Caller, At(d) = p, Sets(d, name) PROVE FALSE
      OBVIOUS
    <3>1. d # c
      BY <1>4
    <3> QED BY <1>1, <3>1 DEF Sets
  <2>3. Programmed(p, PlaceOf[name])
    <3> SUFFICES ASSUME ~Programmed(p, PlaceOf[name]) PROVE FALSE
      OBVIOUS
    <3>1. PlaceOf[name] \in 1..StepsPerPort
      BY StartUpLength DEF PlaceOf, Cached
    <3>2. c \in Card /\ At(c) = p /\ (boot[c] % StepsPerPort) + 1 = PlaceOf[name]
      <4> HIDE DEF PlaceOf
      <4>1. Programmed(p, PlaceOf[name])'
        OBVIOUS
      <4> QED BY <3>1, <4>1, NewlyProgrammed
    <3>3. Sets(c, name)
      BY <1>1, <3>2, LoaderSteps
    <3> QED BY <1>4, <3>2, <3>3
  <2> QED BY <1>2, <2>1, <2>2, <2>3 DEF CacheHeld
<1> QED BY <1>3, <1>4

(* A call that returns leaves ACR with port->ACR in it.                    *)
LEMMA ReturnKeepsAcr ==
  ASSUME IInv, Served, Attributed, AcrFollowsCall, AcrHeld, NEW c \in Caller, Return(c)
  PROVE  AcrHeld'
<1>1. /\ Busy(c) /\ call[c].pc = Len(call[c].steps) + 1 /\ call[c].steps \in Seq(Accesses)
      /\ At(c) \in Port /\ ~Busy(c)'
      /\ \A d \in Caller : d # c => call'[d] = call[d] /\ Busy(d)' = Busy(d) /\ At(d)' = At(d)
  BY Returned
<1>2. icr' = icr /\ acr' = acr /\ acr \in [Port -> {0, 16}] /\ {1, 2} \subseteq 1..StepsPerPort
  BY StartUpLength DEF Return, hardware, IInv, CallsInv, TypeOK
<1> SUFFICES ASSUME NEW p \in Port, Programmed(p, 2)',
                    \A d \in Caller : Busy(d)' /\ At(d)' = p => ~OnAcr(d)'
             PROVE  icr'[p]["ACR"] = acr'[p]
  BY DEF AcrHeld
<1>3. CASE OnAcr(c) /\ At(c) = p
  <2>1. ~InitTriggers(c)
    <3> SUFFICES ASSUME InitTriggers(c) PROVE FALSE
      OBVIOUS
    <3>1. ~Programmed(p, 1)
      BY <1>1, <1>3, FirstCall
    <3>2. ~Programmed(p, 2)
      <4>1. boot[p[1]] \in Int /\ p[2] * StepsPerPort \in Int
        BY StartUpLength DEF IInv, CallsInv, TypeOK, Port
      <4> QED BY <3>1, <4>1 DEF Programmed
    <3>3. c \in Card /\ (boot[c] % StepsPerPort) + 1 = 2
      BY <1>2, <3>2, NewlyProgrammed
    <3>4. (boot[c] % StepsPerPort) + 1 = 1
      BY <1>1, <3>3, LoaderSteps
    <3> QED BY <3>3, <3>4
  <2> DEFINE s == call[c].steps
  <2>2. AcrTail(s)
    BY <1>1, <2>1, BusyShape DEF Tidy
  <2>3. PICK i \in 1..Len(s) : /\ s[i].io = "put_acr" /\ s[i].val = 0
                               /\ \A j \in i+1..Len(s) : s[j].io \notin AcrIo
    BY <1>3, <2>2 DEF AcrTail, OnAcr
  <2>4. call[c].pc - 1 = Len(s)
    BY <1>1
  <2>5. icr[p]["ACR"] = acr[p] + s[i].val
    BY <1>1, <1>3, <2>3, <2>4 DEF AcrFollowsCall
  <2>6. acr[p] \in Int
    BY <1>2
  <2> QED BY <1>2, <2>3, <2>5, <2>6
<1>4. CASE ~(OnAcr(c) /\ At(c) = p)
  <2>1. Programmed(p, 2)
    <3> SUFFICES ASSUME ~Programmed(p, 2) PROVE FALSE
      OBVIOUS
    <3>1. c \in Card /\ At(c) = p /\ (boot[c] % StepsPerPort) + 1 = 2
      BY <1>2, NewlyProgrammed
    <3>2. OnAcr(c)
      BY <1>1, <3>1, LoaderSteps
    <3> QED BY <1>4, <3>1, <3>2
  <2>2. \A d \in Caller : Busy(d) /\ At(d) = p => ~OnAcr(d)
    <3> SUFFICES ASSUME NEW d \in Caller, Busy(d), At(d) = p, OnAcr(d) PROVE FALSE
      OBVIOUS
    <3>1. d # c
      BY <1>4
    <3> QED BY <1>1, <3>1 DEF OnAcr
  <2> QED BY <1>2, <2>1, <2>2 DEF AcrHeld
<1> QED BY <1>3, <1>4

(* A port that init_triggers has been through is in the mode it gives.     *)
LEMMA ReturnKeepsMode ==
  ASSUME IInv, Served, Attributed, ModeHeld, NEW c \in Caller, Return(c)
  PROVE  ModeHeld'
<1>1. /\ Busy(c) /\ call[c].pc = Len(call[c].steps) + 1 /\ call[c].steps \in Seq(Accesses)
      /\ At(c) \in Port /\ ~Busy(c)'
      /\ \A d \in Caller : d # c => call'[d] = call[d] /\ Busy(d)' = Busy(d) /\ At(d)' = At(d)
  BY Returned
<1>2. mode' = mode /\ line' = line /\ 1 \in 1..StepsPerPort
  BY StartUpLength DEF Return, hardware
<1>3. \A d \in Caller : Busy(d)' => d # c /\ Busy(d) /\ call'[d] = call[d] /\ At(d)' = At(d)
  BY <1>1
<1>4. ASSUME NEW p \in Port, Programmed(p, 1)' PROVE mode'[p].fifo = FifoGiven(p) /\ mode'[p].efr = 16
  <2>1. CASE Programmed(p, 1)
    BY <1>2, <2>1 DEF ModeHeld
  <2>2. CASE ~Programmed(p, 1)
    <3>1. c \in Card /\ At(c) = p /\ (boot[c] % StepsPerPort) + 1 = 1
      BY <1>2, <1>4, <2>2, NewlyProgrammed
    <3>2. InitTriggers(c)
      BY <1>1, <3>1, LoaderSteps
    <3>3. call[c].steps = <<PutTwo(1), SetLcr(191), PutTwo(16), ShadowAcr(0)>>
      BY <1>1, <3>2, BusyShape
    <3>4. call[c].pc = 5
      BY <1>1, <3>3
    <3> QED BY <1>1, <1>2, <3>1, <3>2, <3>4 DEF ModeHeld, InitTriggers
  <2> QED BY <2>1, <2>2
<1>5. ASSUME NEW p \in Port, ~Programmed(p, 1)'
      PROVE  /\ line'[p] = IF \E d \in Caller : Busy(d)' /\ At(d)' = p /\ call'[d].pc > 2
                           THEN 191 ELSE AtLoad[p].lcr
             /\ AtLoad[p].lcr = 191 => mode'[p].fifo = AtLoad[p].fifo
  <2>1. ~Programmed(p, 1)
    BY <1>2, <1>5, NewlyProgrammed
  <2>2. At(c) # p
    <3> SUFFICES ASSUME At(c) = p PROVE FALSE
      OBVIOUS
    <3>1. InitTriggers(c)
      BY <1>1, <2>1, FirstCall
    <3>2. c \in Card
      BY <1>1, <3>1, BusyShape DEF InitTriggers
    <3>3. (boot[c] % StepsPerPort) + 1 = 1
      BY <1>1, <3>1, <3>2, LoaderSteps
    <3>4. boot[c] + 1 = p[2] * StepsPerPort + 1
      <4>1. boot[c] + 1 = At(c)[2] * StepsPerPort + ((boot[c] % StepsPerPort) + 1)
        BY <1>1, <3>2, LoaderAt
      <4> QED BY <3>3, <4>1
    <3>5. boot'[p[1]] = boot[c] + 1
      BY <1>2, <3>2, NewlyProgrammed
    <3> QED BY <1>5, <3>4, <3>5, StartUpLength DEF Programmed, Port
  <2>3. (\E d \in Caller : Busy(d)' /\ At(d)' = p /\ call'[d].pc > 2)
          <=> \E d \in Caller : Busy(d) /\ At(d) = p /\ call[d].pc > 2
    BY <1>1, <2>2
  <2> QED BY <1>2, <2>1, <2>3 DEF ModeHeld
<1>6. ASSUME NEW d \in Caller, Busy(d)', call'[d].kind = "boot", call'[d].name = "triggers"
      PROVE  /\ call'[d].pc > 1 => mode'[At(d)'].fifo = FifoGiven(At(d)')
             /\ call'[d].pc > 3 => mode'[At(d)'].efr = 16
  BY <1>2, <1>3, <1>6 DEF ModeHeld
<1> QED BY <1>4, <1>5, <1>6 DEF ModeHeld

(* Returning keeps the rest.                                               *)
LEMMA ReturnKeepsRegisters ==
  ASSUME IInv, RegistersInv, NEW c \in Caller, Return(c) PROVE RegistersInv'
<1>1. \A d \in Caller : Busy(d)' => d # c /\ Busy(d) /\ call'[d] = call[d] /\ At(d)' = At(d)
  BY Returned
<1>2. UNCHANGED <<icr, acr>>
  BY DEF Return, hardware
<1>3. Served' /\ PutsLand' /\ AcrFollowsCall'
  <2>1. Served'
    BY <1>1 DEF RegistersInv, Served
  <2>2. PutsLand'
    BY <1>1, <1>2 DEF RegistersInv, PutsLand
  <2>3. AcrFollowsCall'
    BY <1>1, <1>2 DEF RegistersInv, AcrFollowsCall
  <2> QED BY <2>1, <2>2, <2>3
<1>4. Attributed'
  <2>1. \A k \in Card : Busy(k)' => boot'[k] = boot[k] /\ Busy(k) /\ call'[k] = call[k] /\ At(k)' = At(k)
    <3>1. boot' = IF c \in Card THEN [boot EXCEPT ![c] = @ + 1] ELSE boot
      BY DEF Return
    <3> QED BY <1>1, <3>1 DEF Caller, IInv, CallsInv, TypeOK
  <2>2. \A u \in User : Busy(u)' => Ready(At(u))' /\ Busy(u) /\ call'[u] = call[u] /\ At(u)' = At(u)
    <3> SUFFICES ASSUME NEW u \in User, Busy(u)'
                 PROVE  Ready(At(u))' /\ Busy(u) /\ call'[u] = call[u] /\ At(u)' = At(u)
      OBVIOUS
    <3>1. u \in Caller /\ Busy(u) /\ call'[u] = call[u] /\ At(u)' = At(u)
      BY <1>1 DEF Caller
    <3>2. Ready(At(u)) /\ At(u) \in Port
      BY <3>1 DEF RegistersInv, Attributed, IInv, CallsInv, TypeOK, CallRecord, At
    <3>3. \A q \in Port : Ready(q) => Ready(q)'
      <4>1. 1 \in 1..StepsPerPort
        BY StartUpLength
      <4> QED BY <4>1, NewlyProgrammed DEF RegistersInv
    <3>4. Ready(At(u))'
      <4>1. boot'[At(u)[1]] >= (At(u)[2] + 1) * StepsPerPort
        BY <3>2, <3>3 DEF Ready
      <4> QED BY <3>1, <4>1 DEF Ready
    <3> QED BY <3>1, <3>4
  <2> QED BY <2>1, <2>2 DEF RegistersInv, Attributed
<1>5. CacheHeld' /\ AcrHeld' /\ ModeHeld'
  BY ReturnKeepsCache, ReturnKeepsAcr, ReturnKeepsMode DEF RegistersInv
<1> QED BY <1>3, <1>4, <1>5 DEF RegistersInv

-----------------------------------------------------------------------------
(* The invariant of the registers.                                         *)

(* The tty driver comes to started ports only.                             *)
LEMMA TtyKeepsRegisters ==
  ASSUME IInv, RegistersInv, NEW p \in Card \X Opened, NEW v \in Line, TtySetLine(p, v)
  PROVE  RegistersInv'
<1>1. p \in Port /\ Ready(p) /\ UNCHANGED <<spr, icr, mode, fcr, acr, cache, boot, call>>
  BY OpenedAssumption DEF Port, TtySetLine
<1>2. \A q \in Port : q # p => line'[q] = line[q]
  <2>1. line' = [line EXCEPT ![p] = v]
    BY DEF TtySetLine
  <2> QED BY <1>1, <2>1 DEF IInv, CallsInv, TypeOK
<1>3. Programmed(p, 1)
  BY <1>1, ReadyProgrammed, StartUpLength DEF IInv, CallsInv
<1>4. ModeHeld'
  BY <1>1, <1>2, <1>3 DEF RegistersInv, ModeHeld, Programmed, Busy, At
<1>5. Served' /\ Attributed'
  BY <1>1 DEF RegistersInv, Served, Attributed, Busy, At, Ready
<1>6. PutsLand' /\ CacheHeld'
  BY <1>1 DEF RegistersInv, PutsLand, CacheHeld, Programmed, Sets, Busy, At
<1>7. AcrFollowsCall' /\ AcrHeld'
  BY <1>1 DEF RegistersInv, AcrFollowsCall, AcrHeld, Programmed, OnAcr, Busy, At
<1> QED BY <1>4, <1>5, <1>6, <1>7 DEF RegistersInv

(* Before the driver loads, no port is programmed.                         *)
LEMMA InitRegisters == Init => RegistersInv
<1> SUFFICES ASSUME Init PROVE RegistersInv
  OBVIOUS
<1>1. \A c \in Caller : ~Busy(c)
  BY IdleTyped DEF Init, Busy
<1>2. \A p \in Port, m \in 1..StepsPerPort : ~Programmed(p, m)
  <2>1. \A p \in Port : p[1] \in Card /\ p[2] \in {0, 1} /\ boot[p[1]] = 0
    BY DEF Init, Port
  <2> QED BY <2>1, StartUpLength DEF Programmed
<1>3. \A p \in Port : line[p] = AtLoad[p].lcr /\ mode[p].fifo = AtLoad[p].fifo
  BY DEF Init
<1>4. {1, 2, 3, 4, 5} \subseteq 1..StepsPerPort
  BY StartUpLength
<1>5. Served /\ Attributed /\ PutsLand /\ AcrFollowsCall
  BY <1>1 DEF Served, Attributed, PutsLand, AcrFollowsCall, Caller
<1>6. CacheHeld
  BY <1>2, <1>4 DEF CacheHeld, Cached, PlaceOf
<1>7. AcrHeld
  BY <1>2, <1>4 DEF AcrHeld
<1>8. ModeHeld
  BY <1>1, <1>2, <1>3, <1>4 DEF ModeHeld
<1> QED BY <1>5, <1>6, <1>7, <1>8 DEF RegistersInv

(* Every step of a disciplined system keeps it.                            *)
LEMMA NextKeepsRegisters ==
  ASSUME Discipline # "none", IInv, RegistersInv, [Next]_vars PROVE RegistersInv'
<1>1. ASSUME NEW u \in User, NEW p \in Card \X Opened, NEW request \in Calls, Begin(u, p, request)
      PROVE  RegistersInv'
  BY <1>1, BeginKeepsRegisters
<1>2. ASSUME NEW k \in Card, BeginBoot(k) PROVE RegistersInv'
  BY <1>2, BeginBootKeepsRegisters
<1>3. ASSUME NEW c \in Caller, Perform(c) PROVE RegistersInv'
  BY <1>3, PerformKeepsServed, PerformKeepsPuts, PerformKeepsAcr, PerformKeepsMode DEF RegistersInv
<1>4. ASSUME NEW c \in Caller, Return(c) PROVE RegistersInv'
  BY <1>4, ReturnKeepsRegisters
<1>5. ASSUME NEW p \in Card \X Opened, NEW v \in Line, TtySetLine(p, v) PROVE RegistersInv'
  BY <1>5, TtyKeepsRegisters
<1>6. CASE UNCHANGED vars
  <2>1. Served' /\ Attributed' /\ ModeHeld'
    BY <1>6 DEF RegistersInv, Served, Attributed, ModeHeld, Programmed, Busy, At, Ready, vars
  <2>2. PutsLand' /\ CacheHeld'
    BY <1>6 DEF RegistersInv, PutsLand, CacheHeld, Programmed, Sets, Busy, At, vars
  <2>3. AcrFollowsCall' /\ AcrHeld'
    BY <1>6 DEF RegistersInv, AcrFollowsCall, AcrHeld, Programmed, OnAcr, Busy, At, vars
  <2> QED BY <2>1, <2>2, <2>3 DEF RegistersInv
<1> QED BY <1>1, <1>2, <1>3, <1>4, <1>5, <1>6 DEF Next

-----------------------------------------------------------------------------
(* The Feature Control Register, with one call at a time on a card.        *)

(* The channel's own bit of each name; names do not share bits.            *)
LEMMA Bits ==
  /\ \A name \in FcrName, ch \in {0, 1} : FcrMask(name, ch) \in FcrBit /\ FcrMask(name, ch)[1] = name
  /\ \A n1, n2, c1, c2 : FcrMask(n1, c1) = FcrMask(n2, c2) => n1 = n2 /\ c1 = c2
BY DEF FcrMask, FcrBit

(* An access rewrites the FCR from what its call has read.                 *)
LEMMA PerformKeepsFcr ==
  ASSUME IInv, AloneOnCard, FcrFollowsCall, NEW c \in Caller, Perform(c)
  PROVE  AloneOnCard' /\ FcrFollowsCall'
<1> DEFINE a == Pending(c)
           k == At(c)[1]
           s == call[c].steps
           n == call[c].pc
<1>1. /\ Busy(c) /\ k \in Card /\ s \in Seq(Accesses) /\ n \in 1..Len(s) /\ a = s[n]
  BY PerformingAt DEF IInv
<1>2. /\ \A d \in Caller : SameCall(d) /\ (d # c => call'[d] = call[d])
      /\ call'[c].pc = n + 1
      /\ call'[c].fcr = IF a.io = "read_fcr" THEN fcr[k] ELSE call[c].fcr
  BY PerformedCalls DEF IInv
<1>3. /\ a.io \notin FcrWrites => fcr' = fcr
      /\ a.io \in FcrWrites => WritesBack(c) \/ fcr' = fcr
  BY PerformedBoard DEF IInv
<1>4. AloneOnCard'
  BY <1>2 DEF AloneOnCard, SameCall
<1>5. \A j \in Card : j # k => fcr'[j] = fcr[j]
  BY <1>3 DEF WritesBack
<1>6. \A d \in Caller : Meant(d, call[d].pc - 1)' = Meant(d, call'[d].pc - 1)
  BY <1>2 DEF SameCall, Meant
<1>7. \A bit : bit \notin Meant(c, n) => bit \notin Meant(c, n - 1) /\ ~Aims(c, bit)
  BY <1>1 DEF Meant, Aims
<1> SUFFICES ASSUME NEW d \in Caller, Busy(d)', NEW i \in 1..call'[d].pc - 1,
                    call'[d].steps[i].io = "read_fcr",
                    NEW bit \in FcrBit, bit[1] # "clock", bit \notin Meant(d, call[d].pc - 1)'
             PROVE  bit \in call'[d].fcr <=> bit \in fcr'[At(d)'[1]]
  BY <1>4 DEF FcrFollowsCall
<1>8. Busy(d) /\ At(d)' = At(d) /\ call'[d].steps = call[d].steps
      /\ bit \notin Meant(d, call'[d].pc - 1)
  BY <1>2, <1>6 DEF SameCall
<1>9. CASE d # c
  <2>1. At(d)[1] # k /\ At(d)[1] \in Card
    <3>1. At(d) \in Port
      BY DEF IInv, CallsInv, TypeOK, CallRecord, At
    <3> QED BY <1>1, <1>8, <1>9, <3>1 DEF AloneOnCard, Port
  <2>2. call'[d] = call[d]
    BY <1>2, <1>9
  <2>3. bit \in call[d].fcr <=> bit \in fcr[At(d)[1]]
    BY <1>8, <2>2 DEF FcrFollowsCall
  <2> QED BY <1>5, <1>8, <2>1, <2>2, <2>3
<1>10. CASE d = c
  <2>1. At(d)' = At(c) /\ bit \notin Meant(c, n) /\ i \in 1..n /\ s[i].io = "read_fcr"
    <3>1. call'[d].pc - 1 = n
      BY <1>1, <1>2, <1>10
    <3> QED BY <1>8, <1>10, <3>1
  <2>2. CASE a.io = "read_fcr"
    <3>1. call'[c].fcr = fcr[k] /\ fcr' = fcr
      BY <1>2, <1>3, <2>2 DEF FcrWrites
    <3> QED BY <1>10, <2>1, <3>1
  <2>3. CASE a.io # "read_fcr"
    <3>1. i \in 1..n - 1
      <4>1. i # n
        BY <1>1, <2>1, <2>3
      <4> QED BY <1>1, <2>1, <4>1
    <3>2. bit \notin Meant(c, n - 1) /\ ~Aims(c, bit)
      BY <1>7, <2>1
    <3>3. bit \in call[c].fcr <=> bit \in fcr[k]
      BY <1>1, <2>1, <3>1, <3>2 DEF FcrFollowsCall
    <3>4. call'[c].fcr = call[c].fcr
      BY <1>2, <2>3
    <3>5. bit \in call[c].fcr <=> bit \in fcr'[k]
      <4>1. CASE fcr' = fcr
        BY <3>3, <4>1
      <4>2. CASE WritesBack(c)
        BY <3>2, <4>2 DEF WritesBack
      <4> QED BY <1>3, <4>1, <4>2
    <3> QED BY <1>10, <2>1, <3>4, <3>5
  <2> QED BY <2>2, <2>3
<1> QED BY <1>9, <1>10

(* Of the accesses only the loader's raises asynchronous mode, and none    *)
(* takes it back.                                                          *)
LEMMA PerformKeepsAsync ==
  ASSUME IInv, Served, Attributed, FcrFollowsCall, AsyncHeld, NEW c \in Caller, Perform(c)
  PROVE  AsyncHeld'
<1> DEFINE a == Pending(c)
           k == At(c)[1]
           s == call[c].steps
           n == call[c].pc
<1>1. /\ Busy(c) /\ At(c) \in Port /\ s \in Seq(Accesses) /\ n \in 1..Len(s) /\ a = s[n]
      /\ k \in Card /\ At(c)[2] \in {0, 1} /\ a \in Accesses
  BY PerformingAt DEF IInv
<1>2. /\ \A d \in Caller : SameCall(d) /\ (d # c => call'[d] = call[d])
      /\ call'[c].pc = n + 1
  BY PerformedCalls DEF IInv
<1>3. /\ a.io \notin FcrWrites => fcr' = fcr
      /\ a.io \in FcrWrites =>
           \/ WritesBack(c)
           \/ fcr' = fcr /\ a.io = "raise_fcr" /\ FcrMask(a.reg, At(c)[2]) \in call[c].fcr
  BY PerformedBoard DEF IInv
<1>4. /\ FcrOrder(s)
      /\ AsyncMode(c) => s = <<ReadFcr, RaiseFcr("async")>>
  BY <1>1, BusyShape
<1>5. boot' = boot
  BY PerformedPort DEF IInv
<1> SUFFICES ASSUME NEW p \in Port, EnableAsync,
                    \/ Ready(p)'
                    \/ \E d \in Caller : /\ Busy(d)' /\ At(d)' = p
                                         /\ call'[d].kind = "boot" /\ call'[d].name = "async"
                                         /\ call'[d].pc > 2
             PROVE  FcrMask("async", p[2]) \in fcr'[p[1]]
  BY DEF AsyncHeld
<1> DEFINE bit == FcrMask("async", p[2])
           Before == \/ Ready(p)
                     \/ \E d \in Caller : /\ Busy(d) /\ At(d) = p
                                          /\ call[d].kind = "boot" /\ call[d].name = "async"
                                          /\ call[d].pc > 2
<1>6. bit \in FcrBit /\ bit[1] # "clock" /\ p[1] \in Card /\ p[2] \in {0, 1}
  BY DEF FcrMask, FcrBit, FcrName, Port
<1>7. bit \notin Meant(c, n - 1)
  <2> SUFFICES ASSUME NEW j \in 1..n - 1, s[j].io \in {"write_fcr", "raise_fcr"},
                      bit = FcrMask(s[j].reg, At(c)[2])
               PROVE  FALSE
    BY DEF Meant
  <2>1. j \in 1..Len(s) /\ j # Len(s)
    BY <1>1
  <2>2. s[j].io = "write_fcr" /\ s[j].reg # "async"
    BY <1>4, <2>1 DEF FcrOrder
  <2> QED BY <2>2, Bits
<1>8. ASSUME Before PROVE bit \in fcr'[p[1]]
  <2>1. bit \in fcr[p[1]]
    BY <1>8 DEF AsyncHeld
  <2>2. CASE fcr' = fcr
    BY <2>1, <2>2
  <2>3. CASE WritesBack(c) /\ p[1] # k
    BY <1>6, <2>1, <2>3 DEF WritesBack
  <2>4. CASE WritesBack(c) /\ p[1] = k /\ a.io \in FcrWrites
    <3>1. PICK j \in 1..n - 1 : s[j].io = "read_fcr"
      BY <1>1, <1>4, <2>4 DEF FcrOrder
    <3>2. bit \in call[c].fcr
      BY <1>1, <1>6, <1>7, <2>1, <2>4, <3>1 DEF FcrFollowsCall
    <3>3. CASE Aims(c, bit)
      <4>1. a.io = "raise_fcr"
        <5>1. a.io = "write_fcr" => a.reg # "async"
          BY <1>1, <1>4 DEF FcrOrder
        <5> QED BY <3>3, <5>1, Bits DEF Aims
      <4> QED BY <2>4, <3>3, <4>1 DEF WritesBack, Aims
    <3>4. CASE ~Aims(c, bit)
      BY <1>6, <2>4, <3>2, <3>4 DEF WritesBack
    <3> QED BY <3>3, <3>4
  <2> QED BY <1>3, <2>2, <2>3, <2>4
<1>9. ASSUME ~Before PROVE bit \in fcr'[p[1]]
  <2>1. ~Ready(p)'
    BY <1>5, <1>9 DEF Ready
  <2>2. PICK d \in Caller : /\ Busy(d)' /\ At(d)' = p
                            /\ call'[d].kind = "boot" /\ call'[d].name = "async"
                            /\ call'[d].pc > 2
    BY <2>1
  <2>3. Busy(d) /\ At(d) = p /\ call[d].kind = "boot" /\ call[d].name = "async"
    BY <1>2, <2>2 DEF SameCall
  <2>4. d = c
    BY <1>2, <1>9, <2>2, <2>3
  <2>5. n = 2 /\ s = <<ReadFcr, RaiseFcr("async")>>
    <3>1. AsyncMode(c) /\ n <= 2 /\ n + 1 > 2
      BY <1>1, <1>2, <1>9, <2>2, <2>3, <2>4 DEF AsyncMode
    <3> QED BY <1>1, <1>4, <3>1
  <2>6. a.io = "raise_fcr" /\ a.reg = "async" /\ s[1].io = "read_fcr" /\ At(c) = p
    BY <1>1, <2>3, <2>4, <2>5 DEF RaiseFcr, ReadFcr, Access
  <2>7. CASE WritesBack(c)
    BY <2>6, <2>7 DEF WritesBack
  <2>8. CASE fcr' = fcr /\ bit \in call[c].fcr
    <3>1. 1 \in 1..n - 1
      BY <2>5
    <3>2. bit \in fcr[p[1]]
      BY <1>1, <1>6, <1>7, <2>6, <2>8, <3>1 DEF FcrFollowsCall
    <3> QED BY <2>8, <3>2
  <2> QED BY <1>3, <2>6, <2>7, <2>8 DEF FcrWrites
<1> QED BY <1>8, <1>9

(* A call begins on a card no other call works on.                         *)
LEMMA EnterKeepsBoard ==
  ASSUME IInv, Discipline = "card", BoardHeld,
         NEW c \in Caller, ~Busy(c), NEW p \in Port, MayEnter(p),
         NEW request, request.kind # "none", NEW h, Enter(c, p, request, h),
         UNCHANGED <<lcr, spr, icr, mode, fcr, acr, cache, boot, line>>
  PROVE  BoardHeld'
<1>1. /\ \A d \in Caller : d # c => call'[d] = call[d] /\ Busy(d)' = Busy(d) /\ At(d)' = At(d)
      /\ Busy(c)' /\ At(c)' = p /\ call'[c].pc = 1
  BY Entered
<1>2. AloneOnCard'
  <2>1. p[1] \in Card /\ p[2] \in {0, 1} /\ Quiet(<<p[1], 0>>) /\ Quiet(<<p[1], 1>>)
    BY DEF MayEnter, Port
  <2>2. \A d \in Caller : Busy(d) => At(d)[1] # p[1]
    <3> SUFFICES ASSUME NEW d \in Caller, Busy(d), At(d)[1] = p[1] PROVE FALSE
      OBVIOUS
    <3>1. At(d) = <<p[1], 0>> \/ At(d) = <<p[1], 1>>
      BY DEF IInv, CallsInv, TypeOK, CallRecord, At, Port
    <3> QED BY <2>1, <3>1 DEF Quiet
  <2> QED BY <1>1, <2>2 DEF BoardHeld, AloneOnCard
<1>3. FcrFollowsCall'
  <2> SUFFICES ASSUME NEW d \in Caller, Busy(d)', NEW i \in 1..call'[d].pc - 1,
                      call'[d].steps[i].io = "read_fcr",
                      NEW bit \in FcrBit, bit[1] # "clock", bit \notin Meant(d, call[d].pc - 1)'
               PROVE  bit \in call'[d].fcr <=> bit \in fcr'[At(d)'[1]]
    BY DEF FcrFollowsCall
  <2>1. d # c
    BY <1>1
  <2>2. Busy(d) /\ call'[d] = call[d] /\ At(d)' = At(d) /\ bit \notin Meant(d, call[d].pc - 1)
    BY <1>1, <2>1 DEF Meant
  <2> QED BY <2>2 DEF BoardHeld, FcrFollowsCall
<1>4. AsyncHeld'
  <2>1. \A d \in Caller : Busy(d)' /\ call'[d].pc > 2 =>
          Busy(d) /\ call'[d] = call[d] /\ At(d)' = At(d)
    BY <1>1
  <2> QED BY <2>1 DEF BoardHeld, AsyncHeld, Ready
<1> QED BY <1>2, <1>3, <1>4 DEF BoardHeld

(* A started port was put into asynchronous mode by the loader's last call.*)
LEMMA ReturnKeepsBoard ==
  ASSUME IInv, Served, Attributed, BoardHeld, NEW c \in Caller, Return(c)
  PROVE  BoardHeld'
<1>1. /\ Busy(c) /\ call[c].pc = Len(call[c].steps) + 1 /\ call[c].steps \in Seq(Accesses)
      /\ \A d \in Caller : Busy(d)' => d # c /\ Busy(d) /\ call'[d] = call[d] /\ At(d)' = At(d)
  BY Returned
<1>2. fcr' = fcr
  BY DEF Return, hardware
<1>3. AloneOnCard'
  BY <1>1 DEF BoardHeld, AloneOnCard
<1>4. FcrFollowsCall'
  <2> SUFFICES ASSUME NEW d \in Caller, Busy(d)', NEW i \in 1..call'[d].pc - 1,
                      call'[d].steps[i].io = "read_fcr",
                      NEW bit \in FcrBit, bit[1] # "clock", bit \notin Meant(d, call[d].pc - 1)'
               PROVE  bit \in call'[d].fcr <=> bit \in fcr'[At(d)'[1]]
    BY DEF FcrFollowsCall
  <2>1. Busy(d) /\ call'[d] = call[d] /\ At(d)' = At(d)
    BY <1>1
  <2>2. bit \notin Meant(d, call[d].pc - 1)
    BY <2>1 DEF Meant
  <2> QED BY <1>2, <2>1, <2>2 DEF BoardHeld, FcrFollowsCall
<1>5. AsyncHeld'
  <2> SUFFICES ASSUME NEW p \in Port, EnableAsync,
                      \/ Ready(p)'
                      \/ \E d \in Caller : /\ Busy(d)' /\ At(d)' = p
                                           /\ call'[d].kind = "boot" /\ call'[d].name = "async"
                                           /\ call'[d].pc > 2
               PROVE  FcrMask("async", p[2]) \in fcr[p[1]]
    BY <1>2 DEF AsyncHeld
  <2>1. CASE ~Ready(p)'
    BY <1>1, <2>1 DEF BoardHeld, AsyncHeld
  <2>2. CASE Ready(p)
    BY <2>2 DEF BoardHeld, AsyncHeld
  <2>3. CASE Ready(p)' /\ ~Ready(p)
    <3>1. /\ StepsPerPort = 10 /\ 10 \in 1..StepsPerPort
          /\ (p[2] + 1) * StepsPerPort = p[2] * StepsPerPort + 10
      <4>1. StepsPerPort = 10
        BY DEF StepsPerPort, serialfc_port_new
      <4>2. p[2] \in {0, 1}
        BY DEF Port
      <4> QED BY <4>1, <4>2
    <3>2. Programmed(p, 10)' /\ ~Programmed(p, 10)
      BY <2>3, <3>1 DEF Ready, Programmed
    <3>3. c \in Card /\ At(c) = p /\ (boot[c] % StepsPerPort) + 1 = 10
      BY <3>1, <3>2, NewlyProgrammed
    <3>4. AsyncMode(c)
      BY <1>1, <3>3, LoaderSteps
    <3>5. call[c].steps = <<ReadFcr, RaiseFcr("async")>>
      BY <1>1, <3>4, BusyShape
    <3>6. call[c].pc = 3
      BY <1>1, <3>5
    <3> QED BY <1>1, <3>3, <3>4, <3>6 DEF BoardHeld, AsyncHeld, AsyncMode
  <2> QED BY <2>1, <2>2, <2>3
<1> QED BY <1>3, <1>4, <1>5 DEF BoardHeld

(* Where nothing but the line changes, the board's state stands.           *)
LEMMA SameBoard ==
  ASSUME BoardHeld, UNCHANGED <<fcr, boot, call>> PROVE BoardHeld'
<1>1. AloneOnCard'
  BY DEF BoardHeld, AloneOnCard, Busy, At
<1>2. FcrFollowsCall'
  BY DEF BoardHeld, FcrFollowsCall, Busy, At, Meant
<1>3. AsyncHeld'
  BY DEF BoardHeld, AsyncHeld, Busy, At, Ready
<1> QED BY <1>1, <1>2, <1>3 DEF BoardHeld

(* Before the driver loads there is no call and no port is started.        *)
LEMMA InitBoard == Init => BoardHeld
<1> SUFFICES ASSUME Init PROVE BoardHeld
  OBVIOUS
<1>1. \A c \in Caller : ~Busy(c)
  BY IdleTyped DEF Init, Busy
<1>2. \A p \in Port : ~Ready(p)
  <2>1. \A p \in Port : p[1] \in Card /\ p[2] \in {0, 1} /\ boot[p[1]] = 0
    BY DEF Init, Port
  <2> QED BY <2>1, StartUpLength DEF Ready
<1> QED BY <1>1, <1>2 DEF BoardHeld, AloneOnCard, FcrFollowsCall, AsyncHeld

(* Every step of a system with one call at a time on a card keeps it.      *)
LEMMA NextKeepsBoard ==
  ASSUME Discipline = "card", IInv, RegistersInv, BoardHeld, [Next]_vars PROVE BoardHeld'
<1>1. ASSUME NEW u \in User, NEW p \in Card \X Opened, NEW request \in Calls, Begin(u, p, request)
      PROVE  BoardHeld'
  <2>1. u \in Caller /\ p \in Port /\ request.kind # "none"
    BY OpenedAssumption, CallsAssumption DEF Caller, Port
  <2>2. PICK h : Enter(u, p, request, h)
    BY <1>1 DEF Begin
  <2>3. /\ ~Busy(u) /\ MayEnter(p)
        /\ UNCHANGED <<lcr, spr, icr, mode, fcr, acr, cache, boot, line>>
    BY <1>1 DEF Begin, hardware
  <2> QED BY <2>1, <2>2, <2>3, EnterKeepsBoard
<1>2. ASSUME NEW k \in Card, BeginBoot(k) PROVE BoardHeld'
  <2> DEFINE i == (boot[k] % StepsPerPort) + 1
             p == <<k, boot[k] \div StepsPerPort>>
             request == serialfc_port_new[i]
  <2>1. boot[k] \in Nat /\ boot[k] < 2 * StepsPerPort /\ 1 \in 1..StepsPerPort
    BY <1>2, StartUpLength DEF IInv, CallsInv, TypeOK, BeginBoot
  <2>2. i \in 1..StepsPerPort /\ boot[k] \div StepsPerPort \in {0, 1}
    BY <2>1, BootArithmetic
  <2>3. k \in Caller /\ p \in Port /\ request.kind # "none"
    BY <2>2, StartUpCalls DEF Caller, Port
  <2>4. PICK h : Enter(k, p, request, h)
    BY <1>2 DEF BeginBoot
  <2>5. /\ ~Busy(k) /\ MayEnter(p)
        /\ UNCHANGED <<lcr, spr, icr, mode, fcr, acr, cache, boot, line>>
    BY <1>2 DEF BeginBoot, hardware
  <2> HIDE DEF i, p, request
  <2> QED BY <2>3, <2>4, <2>5, EnterKeepsBoard
<1>3. ASSUME NEW c \in Caller, Perform(c) PROVE BoardHeld'
  BY <1>3, PerformKeepsFcr, PerformKeepsAsync DEF BoardHeld, RegistersInv
<1>4. ASSUME NEW c \in Caller, Return(c) PROVE BoardHeld'
  BY <1>4, ReturnKeepsBoard DEF RegistersInv
<1>5. ASSUME NEW p \in Card \X Opened, NEW v \in Line, TtySetLine(p, v) PROVE BoardHeld'
  BY <1>5, SameBoard DEF TtySetLine
<1>6. CASE UNCHANGED vars
  BY <1>6, SameBoard DEF vars
<1> QED BY <1>1, <1>2, <1>3, <1>4, <1>5, <1>6 DEF Next

-----------------------------------------------------------------------------
(* The theorems.                                                           *)

(* If no two calls work on one port at a time, the registers hold what the *)
(* driver remembers of them, but for what a call under way has added; if   *)
(* none work on one card at a time, so does the Feature Control Register.  *)
THEOREM RegistersInvariance ==
  ASSUME Discipline # "none" PROVE Spec => []FullInv
<1>1. Init => FullInv
  BY InitIInv, InitRegisters, InitBoard DEF FullInv, BoardInv, BoardHeld
<1>2. FullInv /\ [Next]_vars => FullInv'
  <2> SUFFICES ASSUME FullInv, [Next]_vars PROVE FullInv'
    OBVIOUS
  <2>1. IInv' /\ RegistersInv'
    BY NextKeepsIInv, NextKeepsRegisters DEF FullInv
  <2>2. BoardInv'
    BY NextKeepsBoard DEF FullInv, BoardInv, BoardHeld
  <2> QED BY <2>1, <2>2 DEF FullInv
<1> QED BY <1>1, <1>2, PTL DEF Spec

(* With no call under way on a started port, ACR holds port->ACR.          *)
THEOREM AcrCoherentHolds ==
  ASSUME Discipline # "none" PROVE Spec => []AcrCoherent
<1>1. FullInv => AcrCoherent
  <2> SUFFICES ASSUME FullInv, NEW p \in Port, Ready(p), Quiet(p) PROVE icr[p]["ACR"] = acr[p]
    BY DEF AcrCoherent
  <2>1. Programmed(p, 2)
    BY ReadyProgrammed, StartUpLength DEF FullInv, IInv, CallsInv
  <2> QED BY <2>1 DEF FullInv, RegistersInv, AcrHeld, Quiet
<1> QED BY <1>1, RegistersInvariance, PTL

(* With no call under way on a started port, the settings kept in memory   *)
(* are those in the device.                                                *)
THEOREM CacheCoherentHolds ==
  ASSUME Discipline # "none" PROVE Spec => []CacheCoherent
<1>1. FullInv => CacheCoherent
  <2> SUFFICES ASSUME FullInv, NEW p \in Port, Ready(p), Quiet(p)
               PROVE  /\ cache[p].sample_rate = icr[p]["TCR"]
                      /\ cache[p].tx_trigger  = icr[p]["TTL"]
                      /\ cache[p].rx_trigger  = icr[p]["RTL"]
    BY DEF CacheCoherent
  <2>1. \A name \in Cached : PlaceOf[name] \in 0..StepsPerPort
    BY StartUpLength DEF Cached, PlaceOf
  <2>2. \A name \in Cached : Programmed(p, PlaceOf[name])
    BY <2>1, ReadyProgrammed DEF FullInv, IInv, CallsInv
  <2>3. \A name \in Cached : icr[p][RegisterOf[name]] = cache[p][name]
    BY <2>2 DEF FullInv, RegistersInv, CacheHeld, Quiet, Sets
  <2> QED BY <2>3 DEF Cached, RegisterOf
<1> QED BY <1>1, RegistersInvariance, PTL

(* A started port is in 950 mode, but for the FIFO where LCR held 0xbf     *)
(* when the driver was loaded (fastcom_init_triggers).                     *)
THEOREM Mode950Holds ==
  ASSUME Discipline # "none" PROVE Spec => []Mode950
<1>1. FullInv => Mode950
  <2> SUFFICES ASSUME FullInv, NEW p \in Port, Ready(p) PROVE mode[p] = [fifo |-> FifoGiven(p), efr |-> 16]
    BY DEF Mode950
  <2>1. Programmed(p, 1)
    BY ReadyProgrammed, StartUpLength DEF FullInv, IInv, CallsInv
  <2>2. mode[p].fifo = FifoGiven(p) /\ mode[p].efr = 16
    BY <2>1 DEF FullInv, RegistersInv, ModeHeld
  <2>3. mode[p] \in [{"fifo", "efr"} -> Byte]
    BY DEF FullInv, IInv, CallsInv, TypeOK
  <2> QED BY <2>2, <2>3
<1> QED BY <1>1, RegistersInvariance, PTL

(* If no two calls work on one card at a time, a port started in           *)
(* asynchronous mode stays in it, though both ports rewrite its bit.       *)
THEOREM AsyncKeptHolds ==
  ASSUME Discipline = "card" PROVE Spec => []AsyncKept
<1>1. FullInv => AsyncKept
  BY DEF FullInv, BoardInv, BoardHeld, AsyncHeld, AsyncKept, FcrMask
<1>2. Spec => []FullInv
  BY RegistersInvariance
<1> QED BY <1>1, <1>2, PTL

(* If no two calls work on one card at a time, a port's echo bit changes   *)
(* only while a call that sets this port's echo cancel is under way: the   *)
(* other channel's read-modify-writes put it back as they found it.        *)
THEOREM EchoPortByPortHolds ==
  ASSUME Discipline = "card" PROVE Spec => EchoPortByPort
<1> DEFINE Step == \A p \in Port : EchoOf(p)' # EchoOf(p) =>
                      \E c \in Caller : Busy(c) /\ At(c) = p /\ call[c].name = "echo_cancel"
<1>1. FullInv /\ [Next]_vars => [Step]_vars
  <2> SUFFICES ASSUME FullInv, [Next]_vars, NEW p \in Port, EchoOf(p)' # EchoOf(p)
               PROVE  \E c \in Caller : Busy(c) /\ At(c) = p /\ call[c].name = "echo_cancel"
    OBVIOUS
  <2>1. fcr'[p[1]] # fcr[p[1]]
    BY DEF EchoOf
  <2>2. PICK c \in Caller : Perform(c)
    BY <2>1 DEF Next, vars, Begin, BeginBoot, Return, TtySetLine, hardware
  <2> DEFINE s == call[c].steps
             n == call[c].pc
             bit == FcrMask("echo", p[2])
  <2>3. /\ Busy(c) /\ At(c) \in Port /\ s \in Seq(Accesses) /\ n \in 1..Len(s) /\ Pending(c) = s[n]
    BY <2>2, PerformingAt DEF FullInv, IInv
  <2>4. FcrOrder(s) /\ (call[c].name # "echo_cancel" => Echoless(s))
    BY <2>3, BusyShape DEF FullInv, RegistersInv
  <2>5. WritesBack(c) /\ Pending(c).io \in FcrWrites
    BY <2>1, <2>2, PerformedBoard DEF FullInv, IInv
  <2>6. p[1] = At(c)[1] /\ p[1] \in Card /\ p[2] \in {0, 1}
    BY <2>1, <2>5 DEF WritesBack, Port
  <2>7. bit \in FcrBit /\ bit[1] # "clock" /\ (EchoOf(p) <=> bit \in fcr[p[1]])
        /\ (EchoOf(p)' <=> bit \in fcr'[p[1]])
    BY <2>6 DEF FcrMask, FcrBit, FcrName, EchoOf
  <2>8. bit \in Meant(c, n)
    <3> SUFFICES ASSUME bit \notin Meant(c, n) PROVE FALSE
      OBVIOUS
    <3>1. bit \notin Meant(c, n - 1) /\ ~Aims(c, bit)
      BY <2>3 DEF Meant, Aims
    <3>2. PICK i \in 1..n - 1 : s[i].io = "read_fcr"
      BY <2>3, <2>4, <2>5 DEF FcrOrder
    <3>3. bit \in call[c].fcr <=> bit \in fcr[p[1]]
      BY <2>3, <2>6, <2>7, <3>1, <3>2 DEF FullInv, BoardInv, BoardHeld, FcrFollowsCall
    <3>4. bit \in fcr'[p[1]] <=> bit \in call[c].fcr
      BY <2>5, <2>6, <2>7, <3>1 DEF WritesBack
    <3> QED BY <2>7, <3>3, <3>4 DEF EchoOf
  <2>9. PICK j \in 1..n : /\ s[j].io \in {"write_fcr", "raise_fcr"}
                          /\ bit = FcrMask(s[j].reg, At(c)[2])
    BY <2>8 DEF Meant
  <2>10. s[j].reg = "echo" /\ At(c)[2] = p[2] /\ j \in 1..Len(s)
    BY <2>3, <2>9, Bits
  <2>11. s[j].io = "write_fcr"
    BY <2>4, <2>9, <2>10 DEF FcrOrder
  <2>12. call[c].name = "echo_cancel"
    BY <2>4, <2>10, <2>11 DEF Echoless
  <2>13. At(c) = p
    BY <2>3, <2>6, <2>10 DEF Port
  <2> QED BY <2>3, <2>12, <2>13
<1>2. Spec => []FullInv
  BY RegistersInvariance
<1> HIDE DEF Step
<1>3. Spec => [][Step]_vars
  BY <1>1, <1>2, PTL DEF Spec
<1> QED BY <1>3 DEF EchoPortByPort, Step
=============================================================================
