--------------------------------- MODULE Api ---------------------------------
(***************************************************************************)
(* The two ways to the settings of a port: the ioctls of its device node   *)
(* (serialfc_ioctl, main.c) and the attributes of its directory in sysfs   *)
(* (sysfs.c).  Both end in the operations of utils.c, which are one step   *)
(* here, on settings that behave as Settings promises; how the operations  *)
(* reach the device is the matter of Fscc and Exar.  What this module      *)
(* adds is on the way: numbers that are converted, statuses that are kept  *)
(* or dropped, variables on the caller's kernel stack, and copies to and   *)
(* from user memory that may fail, other callers running in between.       *)
(*                                                                         *)
(* A 32 bit number is written as the int of its bits: 0xffffffff is -1.    *)
(***************************************************************************)
EXTENDS Integers

CONSTANTS
  User,
  Family,    \* families of cards the port may be on; "old_FSCC" is an FSCC card
             \* with firmware before revision 0x20
  Command,   \* the ioctls made, of Ioctls
  Attribute, \* the attributes used, of Attributes
  Number,    \* arguments of ioctls
  Text,      \* texts written to attributes: what simple_strtoul makes of one in
             \* base 16 and in base 10, as [hex, dec]
  Word       \* clock words

OnOff    == {"rs485", "echo_cancel", "termination", "nine_bit"}
Switched == OnOff \cup {"isochronous", "external_transmit"}
Numeric  == {"sample_rate", "tx_trigger", "rx_trigger", "frame_length", "baud_rate"}
Name     == Switched \cup Numeric

\* Every ioctl as <<verb, name>>; "unknown" is any other number.
Ioctls ==
  ({"enable", "disable"} \X (Switched \cup {"fixed_baud_rate"}))
    \cup ({"set"} \X (Numeric \cup {"clock_rate", "clock_bits"}))
    \cup ({"get"} \X (Name \cup {"card_type", "dev_info", "fixed_baud_rate"}))
    \cup {<<"unknown", "none">>}

\* clock_rate is an attribute that can neither be read (it has no show
\* function) nor written (its mode has no w).
Attributes == Name

ASSUME FamilyAssumption    == Family \subseteq {"FSCC", "old_FSCC", "PCI", "PCIe"}
ASSUME CommandAssumption   == Command \subseteq Ioctls
ASSUME AttributeAssumption == Attribute \subseteq Attributes
ASSUME NumberAssumption    == Number \subseteq Int /\ \A t \in Text : {t.hex, t.dec} \subseteq Int

VARIABLES
  family,   \* of the port's card
  setting,  \* the value of every setting; of the baud rate, its divisor
  clock,    \* the word the clock chip was loaded with last
  call,     \* what each user is doing
  locals,   \* tmp and clock_bits of each user's call
  mem       \* what the user's buffer holds

vars == <<family, setting, clock, call, locals, mem>>

\* The clock of a PCIe card in Hz and in sixteenths, and what 20 bits count to.
Clock125   == 125000000
Sixteenths == 2000000000
Divisors   == 2^20

EINVAL          == 22
EPROTONOSUPPORT == 93
ENOTTY          == 25
ENODATA         == 61
Junk            == -7       \* whatever the stack or the user's buffer held before

\* What a buffer of 20 bytes holds: a word, what of it could be copied and zeros
\* for the rest, or anything.
Whole(w)  == [of |-> w, whole |-> TRUE]
Partly(w) == [of |-> w, whole |-> FALSE]
NoWord    == Partly("none")

\* enum FASTCOM_CARD_TYPE, and the numbers of the card's device.
Fscc == family \in {"FSCC", "old_FSCC"}

CardType == CASE family = "PCI" -> 0 [] family = "PCIe" -> 1 [] OTHER -> 2
DevInfo  == 1000

-----------------------------------------------------------------------------
(* The operations of utils.c, by the type of the card.                     *)

Supported(n) ==
  \/ n \in {"rs485", "echo_cancel", "sample_rate", "tx_trigger", "rx_trigger"}
  \/ n \in {"isochronous", "external_transmit"} /\ Fscc
  \/ n = "frame_length" /\ family = "FSCC"
  \/ n \in {"termination", "baud_rate"} /\ family = "PCIe"

Rates == IF Fscc THEN 4..16 ELSE IF family = "PCI" THEN {8, 16} ELSE {4, 8, 16}

TriggerLimit == IF Fscc THEN 127 ELSE IF family = "PCI" THEN 64 ELSE 255

\* (Baud rates of 0 are kept out: they end in a division by zero, which is
\* the matter of Exar.)
InRange(n, v) ==
  /\ n = "sample_rate" => v \in Rates
  /\ n \in {"tx_trigger", "rx_trigger"} => v \in 0..TriggerLimit
  /\ n = "isochronous" => v \in -1..10
  /\ n = "external_transmit" => v \in 0..8191
  /\ n = "frame_length" => v \in 1..256
  /\ n = "baud_rate" => v \in 0..Clock125 \div setting["sample_rate"]

\* (Old firmware is found out after the range is checked.)
Refusal(n, v) ==
  IF n = "frame_length" /\ Fscc /\ ~InRange(n, v) THEN EINVAL
  ELSE IF ~Supported(n) THEN EPROTONOSUPPORT
  ELSE IF ~InRange(n, v) THEN EINVAL ELSE 0

\* A faulty variant: switches keep the number they are given.
KeptWhole(n, v) ==
  IF n = "baud_rate" THEN (Sixteenths \div (v * setting["sample_rate"])) % Divisors ELSE v

\* What an accepted value is kept as: a bit, a divisor of 20 bits, or itself.
Kept(n, v) ==
  IF n \in OnOff THEN IF v = 0 THEN 0 ELSE 1
  ELSE IF n = "baud_rate" THEN (Sixteenths \div (v * setting["sample_rate"])) % Divisors
  ELSE v

\* What a getter answers where a setting is kept as k; what it answers now.
Answer(n, k) ==
  IF n = "baud_rate" THEN (Sixteenths \div k) \div setting["sample_rate"] ELSE k

Held(n) == Answer(n, setting[n])

Apply(n, v) ==
  setting' = IF Refusal(n, v) = 0 THEN [setting EXCEPT ![n] = Kept(n, v)] ELSE setting

-----------------------------------------------------------------------------
(* serialfc_ioctl.                                                         *)

\* A faulty variant: isochronous mode is disabled like everything else.
PassedZero(cmd, arg) ==
  IF cmd[1] = "enable" /\ cmd[2] \in OnOff THEN 1
  ELSE IF cmd[1] = "disable" THEN 0 ELSE arg

\* What the operation is given: the argument, or what the command stands for.
Passed(cmd, arg) ==
  IF cmd[1] = "enable" /\ cmd[2] \in OnOff THEN 1
  ELSE IF cmd[1] = "disable" THEN IF cmd[2] = "isochronous" THEN -1 ELSE 0
  ELSE arg

\* A faulty variant: the status of terminations is dropped like that of RS485.
DropsTermination(cmd) ==
  cmd[2] \in {"rs485", "termination", "echo_cancel"} /\ cmd[1] # "get"

\* Commands whose operation's status is dropped: these always return 0.
Drops(cmd) ==
  \/ cmd[1] # "get" /\ cmd[2] \in {"rs485", "echo_cancel"}
  \/ cmd[1] = "get" /\ cmd[2] \in {"echo_cancel", "sample_rate"}

Status(cmd, error) == IF Drops(cmd) \/ error = 0 THEN 0 ELSE -error

Idle == [at |-> "user", cmd |-> <<"none", "none">>, arg |-> 0, status |-> 0,
         fault |-> FALSE, seen |-> 0]

\* A faulty variant: the locals are static, and so those of all callers.
StaticFrame(u) == CHOOSE w \in User : TRUE

\* Whose locals a call works with.
Frame(u) == u

\* What is answered without a look at the port.
AtOnce(cmd) ==
  IF cmd[2] = "fixed_baud_rate" THEN -EPROTONOSUPPORT
  ELSE IF cmd[1] = "unknown" THEN -ENOTTY ELSE 0

FirstStage(cmd) ==
  IF cmd = <<"set", "clock_bits">> THEN "copy_in"
  ELSE IF AtOnce(cmd) # 0 THEN "return"
  ELSE IF cmd[1] = "get" THEN "get" ELSE "set"

\* The argument of clock_bits is a word in user memory, else it is a number
\* (the address of the user's buffer where the command gets something).
Arguments(cmd) ==
  IF cmd = <<"set", "clock_bits">> THEN Word
  ELSE IF cmd = <<"set", "baud_rate">> THEN Number \ {0}
  ELSE IF cmd[1] = "set" \/ (cmd[1] = "enable" /\ cmd[2] \notin OnOff) THEN Number
  ELSE {0}

Ioctl(u, cmd) ==
  /\ call[u].at = "user"
  /\ \E arg \in Arguments(cmd) :
       call' = [call EXCEPT ![u] =
         [Idle EXCEPT !.at = FirstStage(cmd), !.cmd = cmd, !.arg = arg, !.status = AtOnce(cmd)]]
  /\ locals' = [locals EXCEPT ![Frame(u)] = [tmp |-> 0, clock_bits |-> NoWord]]
  /\ mem' = [mem EXCEPT ![u] = Junk]
  /\ UNCHANGED <<family, setting, clock>>

Set(u) ==
  /\ call[u].at = "set"
  /\ LET cmd == call[u].cmd
         v   == Passed(cmd, call[u].arg)
     IN  /\ Apply(cmd[2], v)
         /\ call' = [call EXCEPT ![u].at = "return", ![u].status = Status(cmd, Refusal(cmd[2], v))]
  /\ UNCHANGED <<family, clock, locals, mem>>

\* A getter that is refused leaves tmp alone, and its value is copied all the
\* same.  seen is history: what the setting was at this moment.
Get(u) ==
  /\ call[u].at = "get"
  /\ LET cmd == call[u].cmd
         n   == cmd[2]
     IN  IF n \in {"card_type", "dev_info"}
         THEN LET v == IF n = "card_type" THEN CardType ELSE DevInfo IN
              /\ locals' = [locals EXCEPT ![Frame(u)].tmp = v]
              /\ call'   = [call EXCEPT ![u].at = "copy_out", ![u].seen = v]
         ELSE /\ locals' = IF Supported(n) THEN [locals EXCEPT ![Frame(u)].tmp = Held(n)] ELSE locals
              /\ call'   = [call EXCEPT ![u].at = "copy_out",
                              ![u].status = Status(cmd, IF Supported(n) THEN 0 ELSE EPROTONOSUPPORT),
                              ![u].seen = IF Supported(n) THEN Held(n) ELSE 0]
  /\ UNCHANGED <<family, setting, clock, mem>>

\* Of all failed copies to the user only that of the device's numbers is told.
CopyToUser(u) ==
  /\ call[u].at = "copy_out"
  /\ \/ /\ mem'  = [mem EXCEPT ![u] = locals[Frame(u)].tmp]
        /\ call' = [call EXCEPT ![u].at = "return"]
     \/ /\ call' = [call EXCEPT ![u].at = "return", ![u].fault = TRUE,
                      ![u].status = IF call[u].cmd[2] = "dev_info" THEN -ENODATA ELSE @]
        /\ UNCHANGED mem
  /\ UNCHANGED <<family, setting, clock, locals>>

\* A failed copy stops nothing.
CopyFromUser(u) ==
  /\ call[u].at = "copy_in"
  /\ \E fault \in BOOLEAN :
       /\ locals' = [locals EXCEPT ![Frame(u)].clock_bits =
                       IF fault THEN Partly(call[u].arg) ELSE Whole(call[u].arg)]
       /\ call' = [call EXCEPT ![u].at = "load", ![u].fault = fault]
  /\ UNCHANGED <<family, setting, clock, mem>>

\* fastcom_set_clock_bits: an FSCC card may find no memory for it (+1).
LoadClock(u) ==
  /\ call[u].at = "load"
  /\ \/ /\ family # "PCIe"
        /\ clock' = locals[Frame(u)].clock_bits
        /\ call' = [call EXCEPT ![u].at = "return"]
     \/ /\ family # "PCI"
        /\ call' = [call EXCEPT ![u].at = "return",
                      ![u].status = IF Fscc THEN 1 ELSE -EPROTONOSUPPORT]
        /\ UNCHANGED clock
  /\ UNCHANGED <<family, setting, locals, mem>>

Return(u) ==
  /\ call[u].at = "return"
  /\ call'   = [call EXCEPT ![u] = Idle]
  /\ locals' = [locals EXCEPT ![Frame(u)] = [tmp |-> Junk, clock_bits |-> NoWord]]
  /\ mem'    = [mem EXCEPT ![u] = Junk]
  /\ UNCHANGED <<family, setting, clock>>

-----------------------------------------------------------------------------
(* The attributes.  A call into sysfs.c is one operation and nothing else. *)

\* A faulty variant: the baud rate in hexadecimal too.
ValueAllHex(n, text) == text.hex

Value(n, text) == IF n = "baud_rate" THEN text.dec ELSE text.hex

\* The length of the text is returned, whatever the operation says.
Store(u, n) ==
  /\ call[u].at = "user"
  /\ \E text \in Text :
       /\ n = "baud_rate" => text.dec # 0
       /\ Apply(n, Value(n, text))
       /\ call' = [call EXCEPT ![u] = [Idle EXCEPT !.at = "stored", !.cmd = <<"store", n>>, !.arg = text]]
  /\ UNCHANGED <<family, clock, locals, mem>>

\* Numbers are shown in decimal, as signed ones, and as 0 if there is none.
Show(u, n) ==
  /\ call[u].at = "user"
  /\ mem'  = [mem EXCEPT ![u] = IF Supported(n) THEN Held(n) ELSE 0]
  /\ call' = [call EXCEPT ![u] = [Idle EXCEPT !.at = "shown", !.cmd = <<"show", n>>]]
  /\ UNCHANGED <<family, setting, clock, locals>>

Done(u) ==
  /\ call[u].at \in {"stored", "shown"}
  /\ call' = [call EXCEPT ![u] = Idle]
  /\ mem'  = [mem EXCEPT ![u] = Junk]
  /\ UNCHANGED <<family, setting, clock, locals>>

-----------------------------------------------------------------------------
\* The defaults of config.h; 1 is what the 8250 driver leaves as a divisor.
Default ==
  [n \in Name |->
     CASE n = "sample_rate" -> 16 [] n \in {"tx_trigger", "rx_trigger"} -> 32
       [] n \in {"termination", "frame_length"} -> 1 [] n = "isochronous" -> -1
       [] n = "baud_rate" -> 16 [] OTHER -> 0]

Init ==
  /\ family \in Family
  /\ setting = Default
  /\ clock = NoWord
  /\ call = [u \in User |-> Idle]
  /\ locals = [u \in User |-> [tmp |-> Junk, clock_bits |-> NoWord]]
  /\ mem = [u \in User |-> Junk]

Next ==
  \E u \in User :
    \/ \E cmd \in Command : Ioctl(u, cmd)
    \/ Set(u) \/ Get(u) \/ CopyToUser(u) \/ CopyFromUser(u) \/ LoadClock(u) \/ Return(u)
    \/ \E n \in Attribute : Store(u, n) \/ Show(u, n)
    \/ Done(u)

Spec == Init /\ [][Next]_vars
=============================================================================
