--------------------------- MODULE ApiProperties ----------------------------
(***************************************************************************)
(* What callers of the ioctls and users of the attributes may rely on.     *)
(***************************************************************************)
EXTENDS Api

Stages == {"user", "set", "get", "copy_in", "load", "copy_out", "return", "stored", "shown"}

\* What the chip of the family has room for; a divisor counts sixteenths and
\* is at least 1, even if it was cut to 20 bits.
Room(n) ==
  IF n \in OnOff THEN 0..1
  ELSE IF n = "sample_rate" THEN Rates
  ELSE IF n \in {"tx_trigger", "rx_trigger"} THEN 0..TriggerLimit
  ELSE IF n = "isochronous" THEN -1..10
  ELSE IF n = "external_transmit" THEN 0..8191
  ELSE IF n = "frame_length" THEN 1..256
  ELSE 16..(Divisors - 1)

\* Whatever numbers and texts are passed, every setting stays within the room
\* there is for it; every other variable has its type.
TypeOK ==
  /\ family \in Family
  /\ setting \in [Name -> Int] /\ \A n \in Name : setting[n] \in Room(n)
  /\ clock = NoWord \/ clock.of \in Word
  /\ \A u \in User : call[u].at \in Stages

\* What the docs say a command sets its setting to: "Enable" and "Disable" of
\* a switch, no isochronous mode, transmission by the internal means, or the
\* number passed; of a baud rate, to the largest divisor that is fast enough, if
\* 20 bits hold it (BaudProgrammed, of ExarProperties, says more).
Documented(cmd, arg, value) ==
  LET off == cmd[1] = "disable" IN
  IF cmd[2] \in OnOff THEN value = (IF off THEN 0 ELSE 1)
  ELSE IF cmd[2] = "isochronous" THEN value = (IF off THEN -1 ELSE arg)
  ELSE IF cmd[2] = "external_transmit" THEN value = (IF off THEN 0 ELSE arg)
  ELSE IF cmd[2] = "baud_rate" THEN
    LET unit == arg * setting["sample_rate"] IN
    Sixteenths \div unit < Divisors =>
      /\ value * unit <= Sixteenths
      /\ value * unit + unit > Sixteenths
  ELSE value = arg

\* An ioctl that will return 0 put the documented value in force, one that
\* will return an error changed nothing, although some commands drop the
\* status of their operation (serialfc_ioctl, main.c).
StatusIsTrue ==
  [][\A u \in User :
       call[u].at = "set" /\ call'[u].at # "set" =>
         LET n == call[u].cmd[2] IN
         /\ IF call'[u].status = 0 THEN Documented(call[u].cmd, call[u].arg, setting'[n])
                                   ELSE setting' = setting
         /\ \A other \in Name \ {n} : setting'[other] = setting[other]]_vars

\* When an ioctl that gets something returns, and its copy did not fail, the
\* user's buffer holds what the setting was at one moment of that call, or 0 if
\* the card has no such setting: never what was on the stack, what the user
\* had there, or the answer to somebody else's call.
Answered ==
  \A u \in User :
    call[u].at = "return" /\ call[u].cmd[1] = "get" /\ call[u].cmd[2] # "fixed_baud_rate"
      /\ ~call[u].fault => mem[u] = call[u].seen

\* The clock chip is loaded with the word one caller passed, whole, or if that
\* caller's memory could not be read, with as much of it as could: never with
\* a mixture of the words of two callers or with another caller's word.
ClockAsHanded ==
  [][clock' # clock =>
       \E u \in User :
         /\ call[u].at = "load" /\ call'[u].at = "return"
         /\ clock' = IF call[u].fault THEN Partly(call[u].arg) ELSE Whole(call[u].arg)]_vars

\* A text that shows the value of an attribute can be written back, and the
\* attribute still shows it: what tools that save and restore settings rely on.
\* It holds where the base that shows and the one that reads agree (below ten,
\* and for baud rates), and 20 bits hold the divisor of the rate shown.
ShownCanBeStored ==
  \A n \in Name, text \in Text :
    /\ Supported(n) /\ text.dec = Held(n)
    /\ IF n = "baud_rate" THEN Sixteenths \div (text.dec * setting["sample_rate"]) < Divisors
                          ELSE text.hex = text.dec
    => /\ Refusal(n, Value(n, text)) = 0
       /\ Answer(n, Kept(n, Value(n, text))) = Held(n)
=============================================================================
