-------------------------------- MODULE Exar --------------------------------
(***************************************************************************)
(* Cards with Exar UARTs under the driver: the registers of every port and *)
(* board, the driver's memory for them, and callers (ioctl and sysfs       *)
(* callers, and the thread that loads the module) executing the operations *)
(* of ExarCalls one access at a time.  Discipline is as in module Fscc:    *)
(* "none" is the driver as it is, "port" and "card" let at most one call   *)
(* work on a port or a card.                                               *)
(***************************************************************************)
EXTENDS ExarCalls, FiniteSets

CONSTANTS
  Card,        \* the cards; the thread that loads a card goes by its name
  User,        \* threads making ioctl calls or using sysfs attributes
  Opened,      \* the channels whose serial ports are in use
  Calls,       \* of each channel, the calls made on it: records Call(kind, name, arg)
  Discipline,  \* "none", "port" or "card"
  Line,        \* LCR values the tty driver sets (bit 7 opens the divisor)
  PowerUp,     \* sets of bits the registers may hold before the driver loads
  Junk         \* bytes found at a divisor's offset when bit 7 of LCR is off

Port   == Card \X Channel
Caller == User \cup Card
Byte   == 0..255

UartReg  == {"FCTR", "MCR", "FCR", "LCR"}
BoardReg == {"MPIOLVL", "MPIOLVLH", "MPIOSEL", "MPIOSELH", "8XMODE", "4XMODE"}
Divisor  == {"DLM", "DLL", "DLD"}
ByteReg  == {"TXTRG", "RXTRG"} \cup Divisor
Cached   == {"sample_rate", "tx_trigger", "rx_trigger"}

ASSUME CallerAssumption == User \cap Card = {}
ASSUME CardAssumption   == Card # {}
ASSUME OpenedAssumption == Opened \subseteq Channel
ASSUME CallsAssumption  ==
  \A channel \in Channel : \A call \in Calls[channel] :
                      /\ call.kind \in {"set", "get"}
                      /\ call = Call(call.kind, call.name, call.arg)
                      /\ call.name \in SettingName \cup OtherName
                      /\ call.arg \in Int   \* all but the mode are unsigned
                      /\ call.name # "isochronous" => call.arg \in Nat
ASSUME DisciplineAssumption == Discipline \in {"none", "port", "card"}
ASSUME BytesAssumption  == /\ Line \subseteq SUBSET (Bits \ {7})
                           /\ PowerUp \subseteq SUBSET Bits
                           /\ Junk \subseteq Byte /\ Junk # {}

VARIABLES
  \* hardware
  uart,   \* the registers of each port used bit by bit
  byte,   \* the registers of each port that hold a number
  board,  \* the registers the ports of a card share
  \* struct serialfc_port and the loader's progress
  cache,  \* port->sample_rate, tx_trigger and rx_trigger
  boot,   \* calls of serialfc_port_new completed, over the card's ports
  \* callers
  call,   \* the call each one is making, or the outcome of its last one
  \* history
  line    \* the last value the tty driver gave LCR

hardware == <<uart, byte, board>>
vars     == <<uart, byte, board, cache, boot, call, line>>

-----------------------------------------------------------------------------
(* Calls.                                                                  *)

Busy(c)  == call[c].kind # "none"
At(c)    == call[c].port
Quiet(p) == \A c \in Caller : ~(Busy(c) /\ At(c) = p)

StepsPerPort == Len(serialfc_port_new)
Ready(p)     == boot[p[1]] >= (p[2] + 1) * StepsPerPort

Pending(c)   == call[c].steps[call[c].pc]
Doing(c, io) ==
  /\ Busy(c)
  /\ call[c].pc <= Len(call[c].steps)
  /\ Pending(c).io = io

Advance(c) == call' = [call EXCEPT ![c].pc = @ + 1]

NoPort == CHOOSE p \in Port : TRUE

\* What a handler keeps in its local variables.
NothingKept == [r \in UartReg \cup BoardReg |-> {}]
NothingGot  == [r \in Divisor |-> 0]

Idle(status, value) ==
  [kind |-> "none", name |-> "none", arg |-> 0, port |-> NoPort,
   steps |-> << >>, pc |-> 1, status |-> status,
   kept |-> NothingKept, got |-> NothingGot, divisor |-> 0, value |-> value]

Enter(c, p, request, handler) ==
  call' = [call EXCEPT ![c] =
    [kind |-> request.kind, name |-> request.name, arg |-> request.arg,
     port |-> p, steps |-> handler.steps, pc |-> 1, status |-> handler.status,
     kept |-> NothingKept, got |-> NothingGot, divisor |-> 0, value |-> 0]]

MayEnter(p) ==
  CASE Discipline = "none" -> TRUE
    [] Discipline = "port" -> Quiet(p)
    [] Discipline = "card" -> \A channel \in Channel : Quiet(<<p[1], channel>>)

Start(c, p, request) ==
  /\ MayEnter(p)
  /\ \E handler \in Handlers(p[2], request, cache[p].sample_rate) : Enter(c, p, request, handler)
  /\ UNCHANGED <<hardware, cache, boot, line>>

Begin(u, p, request) ==
  /\ ~Busy(u) /\ Ready(p)
  /\ Start(u, p, request)

\* The loader starts the next call of serialfc_port_new, channel 0 first.
BeginBoot(k) ==
  /\ ~Busy(k) /\ boot[k] < NumPorts * StepsPerPort
  /\ Start(k, <<k, boot[k] \div StepsPerPort>>, serialfc_port_new[(boot[k] % StepsPerPort) + 1])

-----------------------------------------------------------------------------
(* Accesses.                                                               *)

Held(p, r) == IF r \in BoardReg THEN board[p[1]][r] ELSE uart[p][r]

\* The caller's byte with the bits of on set and the other bits of off clear.
Derived(c) == (call[c].kept[Pending(c).reg] \ Pending(c).off) \cup Pending(c).on

ReadStep(c) ==
  /\ Doing(c, "read")
  /\ LET r == Pending(c).reg IN
     call' = [call EXCEPT ![c].kept[r] = Held(At(c), r), ![c].pc = @ + 1]
  /\ UNCHANGED <<hardware, cache, boot, line>>

WriteStep(c) ==
  /\ Doing(c, "write")
  /\ LET r == Pending(c).reg
         p == At(c)
     IN  IF r \in BoardReg
         THEN board' = [board EXCEPT ![p[1]][r] = Derived(c)] /\ UNCHANGED uart
         ELSE uart' = [uart EXCEPT ![p][r] = Derived(c)] /\ UNCHANGED board
  /\ Advance(c)
  /\ UNCHANGED <<byte, cache, boot, line>>

StoreStep(c) ==
  /\ Doing(c, "store")
  /\ byte' = [byte EXCEPT ![At(c)][Pending(c).reg] = Pending(c).val]
  /\ Advance(c)
  /\ UNCHANGED <<uart, board, cache, boot, line>>

-----------------------------------------------------------------------------
(* The divisor counts sixteenths; offsets 0, 1 and 2 reach its bytes only  *)
(* while bit 7 of LCR is on, and other registers otherwise.                *)

Clock         == 2000000000   \* input_freq * 16
DivisorOpen(p) == 7 \in uart[p]["LCR"]

\* A faulty variant: a divisor without fraction bits.
DivisorByteUnscaled(r, d, dld) ==
  CASE r = "DLM" -> (d \div 256) % 256
    [] r = "DLL" -> (d \div 16) % 256
    [] r = "DLD" -> ((dld \div 16) * 16) + (d % 16)

\* dlm is an unsigned char: what does not fit is lost.
DivisorByte(r, d, dld) ==
  CASE r = "DLM" -> (d \div 4096) % 256
    [] r = "DLL" -> (d \div 16) % 256
    [] r = "DLD" -> ((dld \div 16) * 16) + (d % 16)

Sixteenths(bytes) == bytes["DLM"] * 4096 + bytes["DLL"] * 16 + (bytes["DLD"] % 16)

DivideStep(c) ==
  /\ Doing(c, "divide")
  /\ LET rate == Pending(c).val * cache[At(c)].sample_rate IN
     /\ rate # 0
     /\ call' = [call EXCEPT ![c].divisor = Clock \div rate, ![c].pc = @ + 1]
  /\ UNCHANGED <<hardware, cache, boot, line>>

StoreDivisorStep(c) ==
  /\ Doing(c, "store_divisor")
  /\ LET r == Pending(c).reg
         v == DivisorByte(r, call[c].divisor, call[c].got["DLD"])
     IN  byte' = IF DivisorOpen(At(c)) THEN [byte EXCEPT ![At(c)][r] = v] ELSE byte
  /\ Advance(c)
  /\ UNCHANGED <<uart, board, cache, boot, line>>

FetchStep(c) ==
  /\ Doing(c, "fetch")
  /\ LET r == Pending(c).reg IN
     \E v \in IF DivisorOpen(At(c)) THEN {byte[At(c)][r]} ELSE Junk :
        call' = [call EXCEPT ![c].got[r] = v, ![c].pc = @ + 1]
  /\ UNCHANGED <<hardware, cache, boot, line>>

QuotientStep(c) ==
  /\ Doing(c, "quotient")
  /\ LET d == Sixteenths(call[c].got) IN
     /\ d # 0
     /\ call' = [call EXCEPT ![c].value = (Clock \div d) \div cache[At(c)].sample_rate,
                             ![c].pc = @ + 1]
  /\ UNCHANGED <<hardware, cache, boot, line>>

\* A zero divisor traps: the kernel kills the calling thread there, in the
\* middle of its handler, and it makes no further step.
DividesByZero(c) ==
  \/ Doing(c, "divide") /\ Pending(c).val * cache[At(c)].sample_rate = 0
  \/ Doing(c, "quotient") /\ Sixteenths(call[c].got) = 0

-----------------------------------------------------------------------------
(* Return.                                                                 *)

YesNo(P) == IF P THEN 1 ELSE 0

\* What a getter hands back, from what it read and the driver's memory.
Reply(c) ==
  LET p    == At(c)
      kept == call[c].kept
  IN  CASE call[c].kind # "get" \/ call[c].status # 0 -> 0
        [] call[c].name \in Cached       -> cache[p][call[c].name]
        [] call[c].name = "rs485"        -> YesNo(5 \in kept["FCTR"])
        [] call[c].name = "echo_cancel"  -> YesNo(EchoBit(p[2]) \in kept[EchoRegister])
        [] call[c].name = "termination"  -> YesNo(p[2] \notin kept["MPIOLVL"])
        [] OTHER                         -> call[c].value   \* baud_rate

Remember(c) ==
  cache' = IF call[c].kind = "set" /\ call[c].name \in Cached /\ call[c].status = 0
           THEN [cache EXCEPT ![At(c)][call[c].name] = call[c].arg]
           ELSE cache

Return(c) ==
  /\ Busy(c) /\ call[c].pc > Len(call[c].steps)
  /\ Remember(c)
  /\ call' = [call EXCEPT ![c] = Idle(call[c].status, Reply(c))]
  /\ boot' = IF c \in Card THEN [boot EXCEPT ![c] = @ + 1] ELSE boot
  /\ UNCHANGED <<hardware, line>>

-----------------------------------------------------------------------------
\* The tty driver sets a port's line parameters.  Since Linux 3.8 these cards
\* are the kernel's: it may do so before this driver has started the port.
TtySetLine(p, v) ==
  /\ Discipline # "none" => Quiet(p)
  /\ uart' = [uart EXCEPT ![p]["LCR"] = v]
  /\ line' = [line EXCEPT ![p] = v]
  /\ UNCHANGED <<byte, board, cache, boot, call>>

Init ==
  /\ \E v \in Line : line = [p \in Port |-> v]
  /\ \E bits \in PowerUp :
       /\ uart  = [p \in Port |-> [r \in UartReg |-> IF r = "LCR" THEN line[p] ELSE bits]]
       /\ board = [k \in Card |-> [r \in BoardReg |-> bits]]
  /\ byte  = [p \in Port |-> [r \in ByteReg |-> 1]]
  /\ cache = [p \in Port |-> [name \in Cached |-> 0]]
  /\ boot  = [k \in Card |-> 0]
  /\ call  = [c \in Caller |-> Idle(0, 0)]

Perform(c) ==
  \/ ReadStep(c) \/ WriteStep(c) \/ StoreStep(c)
  \/ DivideStep(c) \/ StoreDivisorStep(c) \/ FetchStep(c) \/ QuotientStep(c)

Next ==
  \/ \E u \in User, p \in Card \X Opened : \E request \in Calls[p[2]] : Begin(u, p, request)
  \/ \E k \in Card : BeginBoot(k)
  \/ \E c \in Caller : Perform(c) \/ Return(c)
  \/ \E p \in Card \X Opened, v \in Line : TtySetLine(p, v)

Spec == Init /\ [][Next]_vars
=============================================================================
