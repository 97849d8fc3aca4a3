--------------------------- MODULE ExarInvariant ---------------------------
(***************************************************************************)
(* The inductive invariants behind the properties of Exar ports: what the  *)
(* accesses a call has already made say about the registers of its port    *)
(* (IInv), as long as no other call works on that port, and about the      *)
(* sampling rate registers of its board (BoardInv), as long as none works  *)
(* on that card.                                                           *)
(***************************************************************************)
EXTENDS ExarProperties

\* At most one call works on a port.
Exclusive ==
  \A c, d \in Caller : Busy(c) /\ Busy(d) /\ At(c) = At(d) => c = d

\* Every call executes the handler of what it was asked for.
Served ==
  \A c \in Caller : Busy(c) =>
    /\ call[c].pc <= Len(call[c].steps) + 1
    /\ \E h \in Handlers(At(c)[2], call[c], cache[At(c)].sample_rate) :
         call[c].steps = h.steps /\ call[c].status = h.status

\* The first n calls of the start-up of port p are complete.
Programmed(p, n) == boot[p[1]] >= p[2] * StepsPerPort + n

\* The loader makes the calls of serialfc_port_new in their order and has not
\* finished; users call ports that are started.
Attributed ==
  /\ \A k \in Card : Busy(k) =>
       LET request == serialfc_port_new[(boot[k] % StepsPerPort) + 1] IN
       /\ boot[k] < NumPorts * StepsPerPort
       /\ At(k) = <<k, boot[k] \div StepsPerPort>>
       /\ call[k].kind = request.kind /\ call[k].name = request.name /\ call[k].arg = request.arg
  /\ \A u \in User : Busy(u) =>
       /\ Ready(At(u))
       /\ call[u].kind # "boot"
       /\ call[u].name # "isochronous" => call[u].arg \in Nat

-----------------------------------------------------------------------------
(* The line control register and the divisor behind it.                    *)

\* The call reaches for the divisor: its second access opens it, its last
\* closes it.
OnDivisor(c) == call[c].name = "baud_rate" /\ call[c].steps # << >>

LcrFollowsCall ==
  \A c \in Caller : Busy(c) =>
    /\ uart[At(c)]["LCR"] = IF OnDivisor(c) /\ call[c].pc \in 3..Len(call[c].steps)
                            THEN line[At(c)] \cup {7} ELSE line[At(c)]
    /\ OnDivisor(c) /\ call[c].pc > 1 => call[c].kept["LCR"] = line[At(c)]

\* What a call has fetched is what the register holds.
FetchedFollows ==
  \A c \in Caller : Busy(c) /\ OnDivisor(c) /\ call[c].kind = "get" =>
    /\ \A i \in 1..call[c].pc - 1 : call[c].steps[i].io = "fetch" =>
         call[c].got[call[c].steps[i].reg] = byte[At(c)][call[c].steps[i].reg]
    /\ call[c].pc > 6 =>
         call[c].value = (Clock \div Sixteenths(byte[At(c)])) \div cache[At(c)].sample_rate

\* The divisor is that of the rate asked for, and so is what has been stored.
DivisorFollows ==
  \A c \in Caller : Busy(c) /\ OnDivisor(c) /\ call[c].kind = "set" =>
    /\ call[c].pc > 3 => /\ call[c].arg * cache[At(c)].sample_rate # 0
                         /\ call[c].divisor = Clock \div (call[c].arg * cache[At(c)].sample_rate)
    /\ \A i \in 1..call[c].pc - 1 : call[c].steps[i].io = "store_divisor" =>
         LET r == call[c].steps[i].reg
         IN  byte[At(c)][r] = DivisorByte(r, call[c].divisor, call[c].got["DLD"])

-----------------------------------------------------------------------------
(* The registers of the port.                                              *)

InitTriggers(c) == call[c].kind = "boot" /\ call[c].name = "triggers"

\* Once fastcom_init_triggers has turned them on, bits 6 and 7 of FCTR are on,
\* and in every copy of it that a call may write back.
TriggersOn ==
  /\ \A p \in Port : Programmed(p, 2) => {6, 7} \subseteq uart[p]["FCTR"]
  /\ \A c \in Caller : Busy(c) =>
       /\ InitTriggers(c) /\ call[c].pc > 3 => {6, 7} \subseteq uart[At(c)]["FCTR"]
       /\ \A i \in 1..call[c].pc - 1 :
            Programmed(At(c), 2) /\ call[c].steps[i].io = "read" /\ call[c].steps[i].reg = "FCTR"
              => {6, 7} \subseteq call[c].kept["FCTR"]

\* The registers of the settings kept in memory, and the calls of
\* serialfc_port_new that write them first.
RegisterOf == [tx_trigger |-> "TXTRG", rx_trigger |-> "RXTRG"]
PlaceOf    == LET rs485 == IF Family = "PCI" THEN 4 ELSE 3
              IN  [rs485 |-> rs485, sample_rate |-> rs485 + 1, tx_trigger |-> rs485 + 2,
                   rx_trigger |-> rs485 + 3, termination |-> rs485 + 4, echo_cancel |-> rs485 + 5]

Level == {"tx_trigger", "rx_trigger"}

Sets(c, name) == Busy(c) /\ call[c].kind = "set" /\ call[c].name = name /\ call[c].status = 0

LevelsHeld ==
  /\ \A p \in Port, name \in Level :
       Programmed(p, PlaceOf[name]) /\ (\A c \in Caller : At(c) = p => ~Sets(c, name))
         => byte[p][RegisterOf[name]] = cache[p][name]
  /\ \A c \in Caller, name \in Level :
       Sets(c, name) /\ call[c].pc > 1 => byte[At(c)][RegisterOf[name]] = call[c].arg

RateKnown ==
  \A p \in Port : Programmed(p, PlaceOf["sample_rate"]) => cache[p].sample_rate \in {4, 8, 16}

IInv ==
  /\ TypeOK
  /\ Exclusive /\ Served /\ Attributed
  /\ LcrFollowsCall /\ LcrRestored
  /\ FetchedFollows /\ DivisorFollows
  /\ TriggersOn /\ LevelsHeld /\ RateKnown

-----------------------------------------------------------------------------
(* The sampling rate registers, with one call at a time on a card.         *)

AloneOnCard ==
  \A c, d \in Caller : Busy(c) /\ Busy(d) /\ At(c)[1] = At(d)[1] => c = d

\* Of the bits a call has read it writes back as they are all but its own,
\* which it has set or cleared in the registers it has written.
RatesFollowCall ==
  \A c \in Caller : Sets(c, "sample_rate") =>
    \A i \in 1..call[c].pc - 1 :
      LET a == call[c].steps[i] IN
      /\ a.io = "read" =>
           \A channel \in Channel \ {At(c)[2]} :
             channel \in call[c].kept[a.reg] <=> channel \in board[At(c)[1]][a.reg]
      /\ a.io = "write" =>
           (At(c)[2] \in board[At(c)[1]][a.reg] <=> a.on # {})

RatesHeld ==
  \A p \in Port :
    Programmed(p, PlaceOf["sample_rate"]) /\ (\A c \in Caller : At(c) = p => ~Sets(c, "sample_rate"))
      => cache[p].sample_rate = SampleRate(p)

BoardHeld == AloneOnCard /\ RatesFollowCall /\ RatesHeld

BoardInv == Discipline = "card" => BoardHeld

FullInv == IInv /\ BoardInv

-----------------------------------------------------------------------------
(* All the settings, with one call at a time on a card.                    *)

\* The bits of register r that the accesses of s change.
OwnBits(s, r) ==
  UNION {s[i].on \cup s[i].off : i \in {j \in 1..Len(s) : s[j].io = "write" /\ s[j].reg = r}}

\* A byte that a call has read is that of the register, but for the bits it
\* changes itself.
CopiesFollow ==
  \A c \in Caller : Busy(c) =>
    \A i \in 1..call[c].pc - 1 :
      LET r == call[c].steps[i].reg IN
      call[c].steps[i].io = "read" =>
        call[c].kept[r] \ OwnBits(call[c].steps, r) = Held(At(c), r) \ OwnBits(call[c].steps, r)

\* A bit that a call has changed stays so until it returns; but the calls that
\* write a register several times.
Rewrites(c) == call[c].name \in {"clock_bits", "baud_rate"}

WritesStand ==
  \A c \in Caller : Busy(c) /\ ~Rewrites(c) =>
    \A i \in 1..call[c].pc - 1 :
      LET a == call[c].steps[i] IN
      a.io = "write" => Held(At(c), a.reg) \cap (a.on \cup a.off) = a.on

\* The pins that the clock chip is loaded over are put back.
PinsReturned ==
  \A c \in Caller : Borrows(c, At(c)[1]) /\ call[c].pc > Len(call[c].steps) =>
    board[At(c)[1]]["MPIOLVL"] = call[c].kept["MPIOLVL"]

\* The driver's pin and the bit that makes the UART use it go together.
Rs485Whole ==
  \A p \in Port :
    Programmed(p, PlaceOf["rs485"]) /\ (\A c \in Caller : At(c) = p => ~Sets(c, "rs485"))
      => Rs485(p) # Torn

\* The settings that start-up has come to have their defaults until it is
\* over, but one that users of the board's other ports may change.
BoardWide == IF Family = "PCI" THEN {"echo_cancel"} ELSE {}

DefaultsGiven ==
  \A p \in Port, n \in SettingName :
    ~Ready(p) /\ Programmed(p, PlaceOf[n]) =>
      \/ Setting(p)[n] = Defaults[n]
      \/ n \in BoardWide /\ \E channel \in Channel : Ready(<<p[1], channel>>)

SettingsHeld == CopiesFollow /\ WritesStand /\ PinsReturned /\ Rs485Whole /\ DefaultsGiven

PromiseInv == FullInv /\ (Discipline = "card" => SettingsHeld)
=============================================================================
