--------------------------- MODULE ExarProperties ---------------------------
(***************************************************************************)
(* What must be true of Exar ports under the driver, and the mapping under *)
(* which module Exar implements module Settings.                           *)
(***************************************************************************)
EXTENDS Exar

BitIo  == {"read", "write"}
ByteIo == {"store", "store_divisor", "fetch"}
MathIo == {"divide", "quotient"}

\* What the accesses of a handler may carry.
Accesses ==
  {a \in [io : BitIo \cup ByteIo \cup MathIo,
          reg : UartReg \cup BoardReg \cup ByteReg \cup {"divisor"},
          on : SUBSET Bits, off : SUBSET Bits, val : Nat] :
     /\ a.io \in BitIo => a.reg \in UartReg \cup BoardReg
     /\ a.io = "store" => a.reg \in ByteReg /\ a.val \in Byte
     /\ a.io \in {"store_divisor", "fetch"} => a.reg \in Divisor}

CallName == SettingName \cup OtherName \cup {"none", "gpio", "triggers"}

CallRecord ==
  [kind : {"none", "set", "get", "boot"}, name : CallName,
   arg : Int, port : Port, steps : Seq(Accesses), pc : Nat \ {0}, status : Int,
   kept : [UartReg \cup BoardReg -> SUBSET Bits], got : [Divisor -> Byte],
   divisor : Nat, value : Int]

(* Every register is a byte, every call record is well formed; in          *)
(* particular a trigger level and the bytes of a divisor fit a register.   *)
TypeOK ==
  /\ uart  \in [Port -> [UartReg -> SUBSET Bits]]
  /\ byte  \in [Port -> [ByteReg -> Byte]]
  /\ board \in [Card -> [BoardReg -> SUBSET Bits]]
  /\ cache \in [Port -> [Cached -> Nat]]
  /\ boot  \in [Card -> 0..NumPorts * StepsPerPort]
  /\ call  \in [Caller -> CallRecord]
  /\ line  \in [Port -> SUBSET Bits]

-----------------------------------------------------------------------------
(* The settings as the registers hold them.  Torn: no value of the setting *)
(* is written this way.                                                    *)
Torn == -2

SampleRate(p) ==
  LET four  == Family = "PCIe" /\ p[2] \in board[p[1]]["4XMODE"]
      eight == p[2] \in board[p[1]]["8XMODE"]
  IN  IF four /\ eight THEN Torn ELSE IF four THEN 4 ELSE IF eight THEN 8 ELSE 16

\* A call loading the clock chip borrows the pins of the board, and means to
\* put them back ("Put MPIO pins back to saved state", utils.c:1174).
Borrows(c, k) ==
  Busy(c) /\ At(c)[1] = k /\ call[c].name = "clock_bits" /\ call[c].steps # << >> /\ call[c].pc > 1

Pins(k) ==
  IF \E c \in Caller : Borrows(c, k)
  THEN call[CHOOSE c \in Caller : Borrows(c, k)].kept["MPIOLVL"]
  ELSE board[k]["MPIOLVL"]

Rs485(p) ==
  LET auto   == 5 \in uart[p]["FCTR"]
      driver == IF Family = "PCI" THEN 3 + p[2] \notin Pins(p[1]) ELSE 2 \in uart[p]["MCR"]
  IN  IF auto = driver THEN YesNo(auto) ELSE Torn

EchoOf(p) ==
  EchoBit(p[2]) \in IF Family = "PCI" THEN Pins(p[1]) ELSE board[p[1]]["MPIOLVLH"]

Setting(p) ==
  [n \in SettingName |->
     CASE n = "sample_rate" -> SampleRate(p)
       [] n = "tx_trigger"  -> byte[p]["TXTRG"]
       [] n = "rx_trigger"  -> byte[p]["RXTRG"]
       [] n = "rs485"       -> Rs485(p)
       [] n = "echo_cancel" -> YesNo(EchoOf(p))
       [] n = "termination" -> YesNo(p[2] \notin Pins(p[1]))]

Defaults ==
  [n \in SettingName |->
     CASE n = "sample_rate" -> 16
       [] n \in {"tx_trigger", "rx_trigger"} -> 32
       [] n \in {"rs485", "echo_cancel"} -> 0
       [] n = "termination" -> 1]

\* A switch is on for any argument but 0.
Switch == {"rs485", "echo_cancel", "termination"}

Wanted(name, arg) == IF name \in Switch THEN YesNo(arg # 0) ELSE arg

\* What a call has worked out so far is not yet its answer.
Request(u) ==
  [kind |-> call[u].kind, name |-> call[u].name, arg |-> Wanted(call[u].name, call[u].arg),
   port |-> call[u].port, status |-> call[u].status,
   value |-> IF Busy(u) THEN 0 ELSE call[u].value]

Promise == INSTANCE Settings WITH
  Name      <- SettingName,
  BoardWide <- IF Family = "PCI" THEN {"echo_cancel"} ELSE {},
  Board     <- [p \in Port |-> {p[1]} \X Channel],
  Default   <- Defaults,
  setting   <- [p \in Port |-> Setting(p)],
  ready     <- [p \in Port |-> Ready(p)],
  request   <- [u \in User |-> Request(u)]

(* The driver implements Settings: an accepted set call ends with exactly  *)
(* its own setting at the value asked for, a get call answers the current  *)
(* value, a refused call has no effect, start-up gives the defaults.       *)
KeepsPromise == Promise!Spec

-----------------------------------------------------------------------------
(* The trigger registers are write-only, and the sampling rate is answered *)
(* from memory: with no call under way on a started port the memory of     *)
(* port.h holds what the device does.                                      *)
CacheCoherent ==
  \A p \in Port : Ready(p) /\ Quiet(p) =>
    /\ cache[p].sample_rate = SampleRate(p)
    /\ cache[p].tx_trigger  = byte[p]["TXTRG"]
    /\ cache[p].rx_trigger  = byte[p]["RXTRG"]

(* The programmable trigger levels that fastcom_init_triggers turns on     *)
(* stay on, though set_rs485 rewrites the same register.                   *)
ProgrammableTriggers ==
  \A p \in Port : Ready(p) => {6, 7} \subseteq uart[p]["FCTR"]

(* The baud rate functions reach the divisor, not the data and interrupt   *)
(* registers at the same offsets: bit 7 of LCR is on at their accesses.    *)
DivisorAccess ==
  \A c \in Caller, io \in {"store_divisor", "fetch"} :
    Doing(c, io) => DivisorOpen(At(c))

(* They give LCR back as they found it: with no call under way it is what  *)
(* the tty driver last set.                                                *)
LcrRestored == \A p \in Port : Quiet(p) => uart[p]["LCR"] = line[p]

Returning(c, kind, name) ==
  /\ Busy(c) /\ ~Busy(c)'
  /\ call[c].kind = kind /\ call[c].name = name /\ call[c].status = 0

\* The registers hold 20 bits of a divisor: those of 477 baud and more fit at
\* every sampling rate.
DivisorLimit == 1048576

(* When an accepted set_baud_rate returns, the divisor the device holds is *)
(* the one the asked rate calls for at the sampling rate the device uses,  *)
(* in as many bits as it has.                                              *)
BaudProgrammed ==
  [][\A u \in User : Returning(u, "set", "baud_rate") =>
       Sixteenths(byte[At(u)]) = (Clock \div (call[u].arg * SampleRate(At(u)))) % DivisorLimit]_vars

(* get_baud_rate answers the rate the device runs at.                      *)
BaudAnswered ==
  [][\A u \in User : Returning(u, "get", "baud_rate") =>
       call'[u].value = (Clock \div Sixteenths(byte[At(u)])) \div SampleRate(At(u))]_vars

-----------------------------------------------------------------------------
(* What the repository says and the code does not do.                      *)

(* "Disable 485 on transmitters" (utils.c:481): outside of a set_rs485     *)
(* call for it, a started port of a PCI card without RS485 has its pin up. *)
TransmitterOff ==
  \A p \in Port :
    /\ Family = "PCI" /\ Ready(p) /\ 5 \notin uart[p]["FCTR"]
    /\ \A c \in Caller : Busy(c) /\ At(c) = p => call[c].name # "rs485"
    => 3 + p[2] \in board[p[1]]["MPIOLVL"]

(* A baud rate call ends with an answer or an error number (the tables of  *)
(* docs/baud-rate.md), never with a division by zero in the kernel.        *)
AnswersOrErrors == \A c \in Caller : ~DividesByZero(c)
=============================================================================
