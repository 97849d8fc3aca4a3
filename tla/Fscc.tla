-------------------------------- MODULE Fscc --------------------------------
(***************************************************************************)
(* FSCC cards under the driver: the registers of every port and card, the  *)
(* driver's memory for them, and callers (ioctl and sysfs callers, and the *)
(* thread that loads the module) executing the operations of FsccCalls one *)
(* access at a time, interleaved as nothing in the code prevents.          *)
(*                                                                         *)
(* Discipline says how far callers keep out of each other's way.  The      *)
(* driver itself serialises nothing ("none").  "port" lets at most one     *)
(* call work on a port, "card" at most one on a card: what a client must   *)
(* do for the driver's promises to hold.                                   *)
(***************************************************************************)
EXTENDS FsccCalls, FiniteSets

CONSTANTS
  Card,        \* FSCC cards; the thread that loads a card goes by its name
  User,        \* threads making ioctl calls or using sysfs attributes
  Opened,      \* the channels whose serial ports are in use
  Calls,       \* the calls they make: records Call(kind, name, arg)
  Discipline,  \* "none", "port" or "card"
  Line,        \* LCR values the tty driver sets
  AtLoad,      \* what LCR, FIFO control and EFR hold when the driver loads
  PowerUp,     \* what the indexed registers may hold before the driver loads
  PowerUpFcr,  \* sets of bits the Feature Control Register may hold then
  Junk         \* bytes an ICR read may return when it does not read an ICR

Port   == Card \X {0, 1}
Caller == User \cup Card
Byte   == 0..255

IcrReg  == {"ACR", "TCR", "CKS", "TTL", "RTL", "MDM", "EXT", "EXTH", "FLR"}
FcrName == {"rs485", "echo", "async", "clock"}
FcrBit  == FcrName \X {0, 1}

ASSUME CallerAssumption == User \cap Card = {}
ASSUME CardAssumption   == Card # {}
ASSUME OpenedAssumption == Opened \subseteq {0, 1}
ASSUME CallsAssumption  ==
  \A call \in Calls : /\ call.kind \in {"set", "get"}
                      /\ call = Call(call.kind, call.name, call.arg)
                      /\ call.name \in SettingName \cup OtherName
                      /\ call.arg \in Int   \* all but the mode are unsigned
                      /\ call.name # "isochronous" => call.arg \in Nat
ASSUME DisciplineAssumption == Discipline \in {"none", "port", "card"}
ASSUME BytesAssumption  == /\ Line \subseteq Byte
                           /\ AtLoad \in [Port -> [lcr : Byte, fifo : Byte, efr : Byte]]
                           /\ PowerUp \subseteq [IcrReg -> Byte]
                           /\ Junk \subseteq Byte /\ Junk # {}
ASSUME FcrAssumption    == PowerUpFcr \subseteq SUBSET FcrBit

VARIABLES
  \* hardware
  lcr,    \* line control register of each port
  spr,    \* the indexed register its scratchpad selects
  icr,    \* its indexed control registers
  mode,   \* its FIFO control and enhanced feature registers
  fcr,    \* the bits set in each card's Feature Control Register
  \* struct serialfc_port and the loader's progress
  acr,    \* port->ACR
  cache,  \* port->sample_rate, tx_trigger and rx_trigger
  boot,   \* calls of serialfc_port_new completed, over a card's two ports
  \* callers
  call,   \* the call each one is making, or the outcome of its last one
  \* history
  line    \* the last value given to LCR for good

hardware == <<lcr, spr, icr, mode, fcr>>
vars     == <<lcr, spr, icr, mode, fcr, acr, cache, boot, call, line>>

-----------------------------------------------------------------------------
(* Calls.                                                                  *)

Busy(c) == call[c].kind # "none"
At(c)   == call[c].port

\* No call is working on port p.
Quiet(p) == \A c \in Caller : ~(Busy(c) /\ At(c) = p)

StepsPerPort == Len(serialfc_port_new)
Ready(p)     == boot[p[1]] >= (p[2] + 1) * StepsPerPort

Pending(c)   == call[c].steps[call[c].pc]
Doing(c, io) ==
  /\ Busy(c)
  /\ call[c].pc <= Len(call[c].steps)
  /\ Pending(c).io = io

Advance(c)          == call' = [call EXCEPT ![c].pc = @ + 1]

NoPort == CHOOSE p \in Port : TRUE

Idle(status, value) ==
  [kind |-> "none", name |-> "none", arg |-> 0, port |-> NoPort,
   steps |-> << >>, pc |-> 1, status |-> status, lcr |-> 0, fcr |-> {},
   got |-> <<0, 0>>, value |-> value]

Enter(c, p, request, handler) ==
  call' = [call EXCEPT ![c] =
    [kind |-> request.kind, name |-> request.name, arg |-> request.arg,
     port |-> p, steps |-> handler.steps, pc |-> 1, status |-> handler.status,
     lcr |-> 0, fcr |-> {}, got |-> <<0, 0>>, value |-> 0]]

\* The discipline lets a new call work on port p.
MayEnter(p) ==
  CASE Discipline = "none" -> TRUE
    [] Discipline = "port" -> Quiet(p)
    [] Discipline = "card" -> Quiet(<<p[1], 0>>) /\ Quiet(<<p[1], 1>>)

Begin(u, p, request) ==
  /\ ~Busy(u) /\ Ready(p) /\ MayEnter(p)
  /\ \E handler \in Handlers(request) : Enter(u, p, request, handler)
  /\ UNCHANGED <<hardware, acr, cache, boot, line>>

\* The loader starts the next call of serialfc_port_new, channel 0 first.
BeginBoot(k) ==
  /\ ~Busy(k) /\ boot[k] < 2 * StepsPerPort
  /\ LET request == serialfc_port_new[(boot[k] % StepsPerPort) + 1]
         p       == <<k, boot[k] \div StepsPerPort>>
     IN  /\ MayEnter(p)
         /\ \E handler \in Handlers(request) : Enter(k, p, request, handler)
  /\ UNCHANGED <<hardware, acr, cache, boot, line>>

-----------------------------------------------------------------------------
(* Accesses.  With LCR = 0xbf the chip decodes its 650 register set, so    *)
(* neither SPR nor ICR is reached.                                         *)

Indexed(p) == lcr[p] # 191
IcrRead(p) == (icr[p]["ACR"] \div 64) % 2 = 1

StoreIcr(p, v) ==
  icr' = IF Indexed(p) THEN [icr EXCEPT ![p][spr[p]] = v] ELSE icr

SaveLcrStep(c) ==
  /\ Doing(c, "save_lcr")
  /\ call' = [call EXCEPT ![c].lcr = lcr[At(c)], ![c].pc = @ + 1]
  /\ UNCHANGED <<hardware, acr, cache, boot, line>>

ClearLcrStep(c) ==
  /\ Doing(c, "clear_lcr")
  /\ lcr' = [lcr EXCEPT ![At(c)] = 0]
  /\ Advance(c)
  /\ UNCHANGED <<spr, icr, mode, fcr, acr, cache, boot, line>>

RestoreLcrStep(c) ==
  /\ Doing(c, "restore_lcr")
  /\ lcr' = [lcr EXCEPT ![At(c)] = call[c].lcr]
  /\ Advance(c)
  /\ UNCHANGED <<spr, icr, mode, fcr, acr, cache, boot, line>>

SetLcrStep(c) ==
  /\ Doing(c, "set_lcr")
  /\ lcr'  = [lcr EXCEPT ![At(c)] = Pending(c).val]
  /\ line' = [line EXCEPT ![At(c)] = Pending(c).val]
  /\ Advance(c)
  /\ UNCHANGED <<spr, icr, mode, fcr, acr, cache, boot>>

SelectStep(c) ==
  /\ Doing(c, "select")
  /\ spr' = IF Indexed(At(c)) THEN [spr EXCEPT ![At(c)] = Pending(c).reg] ELSE spr
  /\ Advance(c)
  /\ UNCHANGED <<lcr, icr, mode, fcr, acr, cache, boot, line>>

PutStep(c) ==
  /\ Doing(c, "put")
  /\ StoreIcr(At(c), Pending(c).val)
  /\ Advance(c)
  /\ UNCHANGED <<lcr, spr, mode, fcr, acr, cache, boot, line>>

PutAcrStep(c) ==
  /\ Doing(c, "put_acr")
  /\ StoreIcr(At(c), acr[At(c)] + Pending(c).val)
  /\ Advance(c)
  /\ UNCHANGED <<lcr, spr, mode, fcr, acr, cache, boot, line>>

\* The caller keeps the last two bytes it read.
GetStep(c) ==
  /\ Doing(c, "get")
  /\ LET p == At(c) IN
     \E v \in IF Indexed(p) /\ IcrRead(p) THEN {icr[p][spr[p]]} ELSE Junk :
        call' = [call EXCEPT ![c].got = <<@[2], v>>, ![c].pc = @ + 1]
  /\ UNCHANGED <<hardware, acr, cache, boot, line>>

ShadowStep(c) ==
  /\ Doing(c, "shadow")
  /\ acr' = [acr EXCEPT ![At(c)] = Pending(c).val]
  /\ Advance(c)
  /\ UNCHANGED <<hardware, cache, boot, line>>

\* Offset 2 is the FIFO control register, or EFR when LCR is 0xbf.
PutTwoStep(c) ==
  /\ Doing(c, "offset_two")
  /\ mode' = [mode EXCEPT ![At(c)][IF Indexed(At(c)) THEN "fifo" ELSE "efr"] = Pending(c).val]
  /\ Advance(c)
  /\ UNCHANGED <<lcr, spr, icr, fcr, acr, cache, boot, line>>

-----------------------------------------------------------------------------
(* The Feature Control Register: read, then written back as a whole.       *)

\* A faulty variant: both channels share the mask of the first.
MaskOfFirst(name, channel) == <<name, 0>>

FcrMask(name, channel) == <<name, channel>>

ReadFcrStep(c) ==
  /\ Doing(c, "read_fcr")
  /\ call' = [call EXCEPT ![c].fcr = fcr[At(c)[1]], ![c].pc = @ + 1]
  /\ UNCHANGED <<hardware, acr, cache, boot, line>>

StoreFcr(c, bits) ==
  /\ fcr' = [fcr EXCEPT ![At(c)[1]] = bits]
  /\ Advance(c)
  /\ UNCHANGED <<lcr, spr, icr, mode, acr, cache, boot, line>>

WriteFcrStep(c) ==
  /\ Doing(c, "write_fcr")
  /\ LET mask == {FcrMask(Pending(c).reg, At(c)[2])} IN
     StoreFcr(c, IF Pending(c).val # 0 THEN call[c].fcr \cup mask ELSE call[c].fcr \ mask)

RaiseFcrStep(c) ==
  /\ Doing(c, "raise_fcr")
  /\ LET bit == FcrMask(Pending(c).reg, At(c)[2]) IN
     IF bit \in call[c].fcr
     THEN Advance(c) /\ UNCHANGED <<hardware, acr, cache, boot, line>>
     ELSE StoreFcr(c, call[c].fcr \cup {bit})

\* The clock pins of both channels drop, those of this channel toggle.
PinsStep(c) ==
  /\ Doing(c, "pins")
  /\ \E high \in SUBSET {FcrMask("clock", At(c)[2])} :
        StoreFcr(c, (call[c].fcr \ {FcrMask("clock", 0), FcrMask("clock", 1)}) \cup high)

\* A faulty variant: the last word clears the register.
WriteBackNothing(c) ==
  /\ Doing(c, "write_back")
  /\ StoreFcr(c, {})

WriteBackStep(c) ==
  /\ Doing(c, "write_back")
  /\ StoreFcr(c, call[c].fcr)

-----------------------------------------------------------------------------
(* Return.                                                                 *)

\* The modes whose CKS value is v; for any other v the getter leaves *mode
\* as its caller had it.
ModesOf(v) == {m \in -1..10 : Cks(m) = v}

\* What a getter can hand back, from the bytes it read and the driver's memory.
Replies(c) ==
  LET p   == At(c)
      got == call[c].got
      on(name, extra) == IF extra /\ FcrMask(name, p[2]) \in call[c].fcr THEN 1 ELSE 0
  IN  CASE call[c].kind # "get" \/ call[c].status # 0 -> {0}
        [] call[c].name = "sample_rate"       -> {cache[p].sample_rate}
        [] call[c].name \in {"tx_trigger", "rx_trigger"} -> {got[2] % 128}
        [] call[c].name = "rs485"             -> {on("rs485", acr[p] = 16)}
        [] call[c].name = "echo_cancel"       -> {on("echo", TRUE)}
        [] call[c].name = "isochronous"       ->
             IF ModesOf(got[2]) # {} THEN ModesOf(got[2]) ELSE Junk
        [] call[c].name = "external_transmit" -> {(got[2] % 32) * 256 + got[1]}
        [] OTHER                              -> {got[2] + 1}   \* frame_length

Cached == {"sample_rate", "tx_trigger", "rx_trigger"}

\* A faulty variant: a refused value is remembered too.
RememberRefused(c) ==
  cache' = IF call[c].kind = "set" /\ call[c].name \in Cached
           THEN [cache EXCEPT ![At(c)][call[c].name] = call[c].arg]
           ELSE cache

Remember(c) ==
  cache' = IF call[c].kind = "set" /\ call[c].name \in Cached /\ call[c].status = 0
           THEN [cache EXCEPT ![At(c)][call[c].name] = call[c].arg]
           ELSE cache

Return(c) ==
  /\ Busy(c) /\ call[c].pc > Len(call[c].steps)
  /\ Remember(c)
  /\ \E v \in Replies(c) : call' = [call EXCEPT ![c] = Idle(call[c].status, v)]
  /\ boot' = IF c \in Card THEN [boot EXCEPT ![c] = @ + 1] ELSE boot
  /\ UNCHANGED <<hardware, acr, line>>

-----------------------------------------------------------------------------
\* The tty driver owns the UART and sets its line parameters.
TtySetLine(p, v) ==
  /\ Ready(p)
  /\ Discipline # "none" => Quiet(p)
  /\ lcr'  = [lcr EXCEPT ![p] = v]
  /\ line' = [line EXCEPT ![p] = v]
  /\ UNCHANGED <<spr, icr, mode, fcr, acr, cache, boot, call>>

\* LCR may hold 0xbf: init_triggers leaves it so, for a driver loaded again.
Init ==
  /\ lcr = [p \in Port |-> AtLoad[p].lcr] /\ line = lcr
  /\ spr = [p \in Port |-> "ACR"]
  /\ \E v \in PowerUp : icr = [p \in Port |-> v]
  /\ mode = [p \in Port |-> [fifo |-> AtLoad[p].fifo, efr |-> AtLoad[p].efr]]
  /\ \E bits \in PowerUpFcr : fcr = [k \in Card |-> bits]
  /\ acr = [p \in Port |-> 0]
  /\ cache = [p \in Port |-> [name \in Cached |-> 0]]
  /\ boot = [k \in Card |-> 0]
  /\ call = [c \in Caller |-> Idle(0, 0)]

Perform(c) ==
  \/ SaveLcrStep(c) \/ ClearLcrStep(c) \/ RestoreLcrStep(c) \/ SetLcrStep(c)
  \/ SelectStep(c) \/ PutStep(c) \/ PutAcrStep(c) \/ GetStep(c)
  \/ ShadowStep(c) \/ PutTwoStep(c)
  \/ ReadFcrStep(c) \/ WriteFcrStep(c) \/ RaiseFcrStep(c) \/ PinsStep(c) \/ WriteBackStep(c)

Next ==
  \/ \E u \in User, p \in Card \X Opened, request \in Calls : Begin(u, p, request)
  \/ \E k \in Card : BeginBoot(k)
  \/ \E c \in Caller : Perform(c) \/ Return(c)
  \/ \E p \in Card \X Opened, v \in Line : TtySetLine(p, v)

Spec == Init /\ [][Next]_vars
=============================================================================
