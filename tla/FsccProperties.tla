--------------------------- MODULE FsccProperties ---------------------------
(***************************************************************************)
(* What must be true of FSCC ports under the driver, and the mapping under *)
(* which module Fscc implements module Settings.                           *)
(***************************************************************************)
EXTENDS Fscc

IcrIo   == {"put", "put_acr", "get"}
OtherIo == {"select", "save_lcr", "clear_lcr", "restore_lcr", "set_lcr", "shadow",
            "offset_two", "read_fcr", "write_fcr", "raise_fcr", "pins", "write_back"}
RegName == IcrReg \cup FcrName \cup {"LCR", "FCR", "FCR/EFR"}

\* What the accesses of a handler may carry.
Accesses ==
  {a \in [io : IcrIo \cup OtherIo, reg : RegName, val : Int] :
     /\ a.io \in IcrIo \cup {"select"} => a.reg \in IcrReg
     /\ a.io \in {"put", "set_lcr", "offset_two"} => a.val \in Byte
     /\ a.io = "put_acr" => a.reg = "ACR" /\ a.val \in {0, 64}
     /\ a.io = "shadow"  => a.val \in {0, 16}
     /\ a.io \in {"write_fcr", "raise_fcr"} => a.reg \in FcrName}

CallName == SettingName \cup OtherName \cup {"none", "triggers", "async"}

CallRecord ==
  [kind : {"none", "set", "get", "boot"}, name : CallName,
   arg : Int, port : Port, steps : Seq(Accesses), pc : Nat \ {0}, status : Int,
   lcr : Byte, fcr : SUBSET FcrBit, got : Byte \X Byte, value : Int]

(* Every register is a byte, every call record is well formed.             *)
TypeOK ==
  /\ lcr  \in [Port -> Byte]
  /\ spr  \in [Port -> IcrReg]
  /\ icr  \in [Port -> [IcrReg -> Byte]]
  /\ mode \in [Port -> [{"fifo", "efr"} -> Byte]]
  /\ fcr  \in [Card -> SUBSET FcrBit]
  /\ acr  \in [Port -> {0, 16}]
  /\ cache \in [Port -> [Cached -> Int]]
  /\ boot \in [Card -> 0..2 * StepsPerPort]
  /\ call \in [Caller -> CallRecord]
  /\ line \in [Port -> Byte]

-----------------------------------------------------------------------------
(* When a handler reaches for SPR or ICR, LCR is not 0xbf: the promise of   *)
(* "Ensure last LCR value is not 0xbf" (utils.c:200), which other callers  *)
(* and the tty driver can undo between that write and the access.          *)
LastLcrNotBf ==
  \A c \in Caller, io \in IcrIo \cup {"select"} :
    Doing(c, io) => Indexed(At(c))

(* An access to ICR reaches the register its handler means: besides LCR,   *)
(* SPR still selects that register, whatever other callers did since.      *)
IndexedAccess ==
  /\ LastLcrNotBf
  /\ \A c \in Caller, io \in IcrIo :
        Doing(c, io) => spr[At(c)] = Pending(c).reg

(* The driver cannot read ACR back cheaply and keeps port->ACR instead.    *)
(* With no call under way on a started port, the register holds it: ICR    *)
(* reads are off again (utils.c:333, "Restore original ACR value") and the *)
(* 485 bit is what the last set_rs485 asked for.                           *)
AcrCoherent ==
  \A p \in Port : Ready(p) /\ Quiet(p) => icr[p]["ACR"] = acr[p]

(* With no call under way the values port.h keeps in memory are those in   *)
(* the device, so fastcom_get_sample_rate may answer from memory.          *)
CacheCoherent ==
  \A p \in Port : Ready(p) /\ Quiet(p) =>
    /\ cache[p].sample_rate = icr[p]["TCR"]
    /\ cache[p].tx_trigger  = icr[p]["TTL"]
    /\ cache[p].rx_trigger  = icr[p]["RTL"]

(* Every handler gives the line control register back as it found it: with *)
(* no call under way LCR is what the tty driver (or start-up) last set.    *)
LcrRestored == \A p \in Port : Quiet(p) => lcr[p] = line[p]

(* "Enable FIFO (combined with enhanced enables 950 mode)" (utils.c:1552): *)
(* once a port is started the writes of fastcom_init_triggers to offset 2  *)
(* have met the two registers they were meant for, and nothing later took  *)
(* them back.  The exception is a port with LCR = 0xbf when the driver     *)
(* loads, as an earlier load leaves it (utils.c:1554): the first write     *)
(* reaches EFR, and the FIFO stays as it was.                              *)
FifoGiven(p) == IF AtLoad[p].lcr = 191 THEN AtLoad[p].fifo ELSE 1

Mode950 == \A p \in Port : Ready(p) => mode[p] = [fifo |-> FifoGiven(p), efr |-> 16]

(* A port started with fscc_enable_async stays in asynchronous mode, even  *)
(* though every write to the FCR rewrites all bits of both ports.          *)
AsyncKept ==
  \A p \in Port : EnableAsync /\ Ready(p) => <<"async", p[2]>> \in fcr[p[1]]

(* Echo cancel is port by port on this family (docs/echo-cancel.md:5 calls *)
(* it board-wide on the Async-335 only): a port's bit changes only while a *)
(* set_echo_cancel call for that port is under way.                        *)
EchoOf(p) == <<"echo", p[2]>> \in fcr[p[1]]

EchoPortByPort ==
  [][\A p \in Port : EchoOf(p)' # EchoOf(p) =>
       \E c \in Caller : Busy(c) /\ At(c) = p /\ call[c].name = "echo_cancel"]_vars

-----------------------------------------------------------------------------
(* The settings as the registers hold them.  Torn: no value of the setting *)
(* is written this way.                                                    *)
Torn == -2

OneOf(holds, S) == IF \E x \in S : holds[x] THEN CHOOSE x \in S : holds[x] ELSE Torn

Isochronous(p) ==
  OneOf([m \in -1..10 |-> icr[p]["CKS"] = Cks(m) /\ icr[p]["MDM"] = Mdm(m)], -1..10)

Rs485(p) ==
  LET dtr == (icr[p]["ACR"] \div 16) % 2 = 1
      drv == <<"rs485", p[2]>> \in fcr[p[1]]
  IN  IF dtr /\ drv THEN 1 ELSE IF dtr \/ drv THEN Torn ELSE 0

ExternalTransmit(p) ==
  LET exth == icr[p]["EXTH"]
      ext  == icr[p]["EXT"]
  IN  IF exth >= 128 THEN (exth % 32) * 256 + ext ELSE IF exth + ext = 0 THEN 0 ELSE Torn

Setting(p) ==
  [sample_rate       |-> icr[p]["TCR"],
   tx_trigger        |-> icr[p]["TTL"] % 128,
   rx_trigger        |-> icr[p]["RTL"] % 128,
   rs485             |-> Rs485(p),
   isochronous       |-> Isochronous(p),
   external_transmit |-> ExternalTransmit(p),
   frame_length      |-> icr[p]["FLR"] + 1,
   echo_cancel       |-> IF EchoOf(p) THEN 1 ELSE 0]

\* frame_length has a default only where the register exists.
Defaults ==
  [n \in SettingName \ ({"external_transmit"} \cup (IF Frev < 32 THEN {"frame_length"} ELSE {})) |->
     CASE n = "sample_rate"  -> 16
       [] n \in {"tx_trigger", "rx_trigger"} -> 32
       [] n \in {"rs485", "echo_cancel"} -> 0
       [] n = "isochronous"  -> -1
       [] n = "frame_length" -> 1]

\* A switch is on for any argument but 0.
Switch == {"rs485", "echo_cancel"}

Wanted(name, arg) == IF name \notin Switch THEN arg ELSE IF arg = 0 THEN 0 ELSE 1

Request(u) ==
  [kind |-> call[u].kind, name |-> call[u].name, arg |-> Wanted(call[u].name, call[u].arg),
   port |-> call[u].port, status |-> call[u].status, value |-> call[u].value]

Promise == INSTANCE Settings WITH
  Name      <- SettingName,
  BoardWide <- {},
  Board     <- [p \in Port |-> {p[1]} \X {0, 1}],
  Default   <- Defaults,
  setting   <- [p \in Port |-> Setting(p)],
  ready     <- [p \in Port |-> Ready(p)],
  request   <- [u \in User |-> Request(u)]

(* The driver implements Settings: an accepted set call ends with exactly  *)
(* its own setting at the value asked for, a get call answers the current  *)
(* value, a refused call has no effect, start-up gives the defaults.       *)
KeepsPromise == Promise!Spec
=============================================================================
