--------------------------- MODULE FsccInvariant ---------------------------
(***************************************************************************)
(* The inductive invariants behind the properties of FSCC ports: what the  *)
(* accesses a call has already made say about LCR and SPR of its port      *)
(* (IInv) and about the registers behind them (RegistersInv), as long as   *)
(* no other call works on that port, and about the Feature Control         *)
(* Register and the settings, as long as none works on that card           *)
(* (BoardInv, SettingsHeld).                                               *)
(***************************************************************************)
EXTENDS FsccProperties

\* Before access n of s: LCR has been cleared and not yet given back.
Cleared(s, n) ==
  \E i \in 1..n-1 : /\ s[i].io = "clear_lcr"
                    /\ \A j \in i+1..n-1 : s[j].io \notin {"restore_lcr", "set_lcr"}

\* Before access n of s: r is the last register selected.
Selected(s, n, r) ==
  \E i \in 1..n-1 : /\ s[i].io = "select" /\ s[i].reg = r
                    /\ \A j \in i+1..n-1 : s[j].io # "select"

\* Before access n of s: LCR has been read into orig_lcr.
Saved(s, n) == \E i \in 1..n-1 : s[i].io = "save_lcr"

\* The shape all handlers have: SPR and ICR are reached between the clearing
\* of LCR and its restoration only, ICR after the selection of the register
\* that is meant, and LCR is restored from what was read before.
Framed(s) ==
  /\ \A n \in 1..Len(s) :
       /\ s[n].io \in IcrIo \cup {"select"} => Cleared(s, n)
       /\ s[n].io \in IcrIo => Selected(s, n, s[n].reg)
       /\ s[n].io = "save_lcr" => ~Cleared(s, n)
       /\ s[n].io = "restore_lcr" => Saved(s, n)
       /\ s[n].io = "set_lcr" => ~Saved(s, n)
  /\ ~Cleared(s, Len(s) + 1)

-----------------------------------------------------------------------------
\* At most one call works on a port.
Exclusive ==
  \A c, d \in Caller : Busy(c) /\ Busy(d) /\ At(c) = At(d) => c = d

\* Every call under way has that shape.
WellFormed ==
  \A c \in Caller : Busy(c) => /\ Framed(call[c].steps)
                               /\ call[c].pc <= Len(call[c].steps) + 1

\* Where LCR, SPR and the saved LCR stand during a call.
LcrFollowsCall ==
  \A c \in Caller : Busy(c) =>
    LET s == call[c].steps
        n == call[c].pc
    IN  /\ lcr[At(c)] = IF Cleared(s, n) THEN 0 ELSE line[At(c)]
        /\ Saved(s, n) => call[c].lcr = line[At(c)]

SprFollowsCall ==
  \A c \in Caller, r \in IcrReg :
    Busy(c) /\ Selected(call[c].steps, call[c].pc, r) => spr[At(c)] = r

CallsInv ==
  /\ TypeOK
  /\ Exclusive
  /\ WellFormed
  /\ LcrFollowsCall
  /\ SprFollowsCall
  /\ LcrRestored

\* A loader at work has not finished.
BootUnderWay == \A k \in Card : Busy(k) => boot[k] < 2 * StepsPerPort

IInv == CallsInv /\ BootUnderWay

-----------------------------------------------------------------------------
(* What the registers hold, and the driver's memory with them.             *)

\* Every call executes the handler of what it was asked for.
Served ==
  \A c \in Caller : Busy(c) =>
    \E h \in Handlers(call[c]) : call[c].steps = h.steps /\ call[c].status = h.status

\* The first n calls of the start-up of port p are complete.
Programmed(p, n) == boot[p[1]] >= p[2] * StepsPerPort + n

\* The loader makes the calls of serialfc_port_new in their order; users call
\* ports that are started.
Attributed ==
  /\ \A k \in Card : Busy(k) =>
       LET request == serialfc_port_new[(boot[k] % StepsPerPort) + 1] IN
       /\ At(k) = <<k, boot[k] \div StepsPerPort>>
       /\ call[k].kind = request.kind /\ call[k].name = request.name /\ call[k].arg = request.arg
  /\ \A u \in User : Busy(u) =>
       /\ Ready(At(u))
       /\ call[u].kind # "boot"
       /\ call[u].name # "isochronous" => call[u].arg \in Nat

\* What a call has put into an indexed register is there.
PutsLand ==
  \A c \in Caller : Busy(c) =>
    \A i \in 1..call[c].pc - 1 :
      call[c].steps[i].io = "put" => icr[At(c)][call[c].steps[i].reg] = call[c].steps[i].val

\* The registers of the settings kept in memory, and the calls of
\* serialfc_port_new that write each setting first.
RegisterOf == [sample_rate |-> "TCR", tx_trigger |-> "TTL", rx_trigger |-> "RTL"]
PlaceOf    == [rs485 |-> 2, sample_rate |-> 3, tx_trigger |-> 4, rx_trigger |-> 5,
               echo_cancel |-> 7, isochronous |-> 8, frame_length |-> 9]

Sets(c, name) == Busy(c) /\ call[c].kind = "set" /\ call[c].name = name /\ call[c].status = 0

CacheHeld ==
  \A p \in Port, name \in Cached :
    Programmed(p, PlaceOf[name]) /\ (\A c \in Caller : At(c) = p => ~Sets(c, name))
      => icr[p][RegisterOf[name]] = cache[p][name]

\* ACR holds port->ACR and what the last write added to it, until port->ACR
\* changes.
AcrIo == {"put_acr", "shadow"}

AcrFollowsCall ==
  \A c \in Caller : Busy(c) =>
    \A i \in 1..call[c].pc - 1 :
      /\ call[c].steps[i].io = "put_acr"
      /\ \A j \in i+1..call[c].pc - 1 : call[c].steps[j].io \notin AcrIo
      => icr[At(c)]["ACR"] = acr[At(c)] + call[c].steps[i].val

OnAcr(c) == \E i \in 1..Len(call[c].steps) : call[c].steps[i].io \in AcrIo

AcrHeld ==
  \A p \in Port :
    Programmed(p, 2) /\ (\A c \in Caller : Busy(c) /\ At(c) = p => ~OnAcr(c))
      => icr[p]["ACR"] = acr[p]

\* init_triggers finds LCR as it was at load and puts 0xbf there before its
\* second write to offset 2; nobody writes there later.
ModeHeld ==
  /\ \A p \in Port : Programmed(p, 1) => mode[p].fifo = FifoGiven(p) /\ mode[p].efr = 16
  /\ \A p \in Port : ~Programmed(p, 1) =>
       /\ line[p] = IF \E c \in Caller : Busy(c) /\ At(c) = p /\ call[c].pc > 2
                    THEN 191 ELSE AtLoad[p].lcr
       /\ AtLoad[p].lcr = 191 => mode[p].fifo = AtLoad[p].fifo
  /\ \A c \in Caller : Busy(c) /\ call[c].kind = "boot" /\ call[c].name = "triggers" =>
       /\ call[c].pc > 1 => mode[At(c)].fifo = FifoGiven(At(c))
       /\ call[c].pc > 3 => mode[At(c)].efr = 16

RegistersInv ==
  /\ Served /\ Attributed
  /\ PutsLand /\ CacheHeld
  /\ AcrFollowsCall /\ AcrHeld
  /\ ModeHeld

-----------------------------------------------------------------------------
(* The board's Feature Control Register, with one call at a time on a card.*)

AloneOnCard ==
  \A c, d \in Caller : Busy(c) /\ Busy(d) /\ At(c)[1] = At(d)[1] => c = d

FcrWrites == {"write_fcr", "raise_fcr", "pins", "write_back"}

\* The bits a call means to change with its first n accesses.
Meant(c, n) ==
  {FcrMask(call[c].steps[i].reg, At(c)[2]) :
     i \in {j \in 1..n : call[c].steps[j].io \in {"write_fcr", "raise_fcr"}}}

\* Of the bits a call has read it writes back as they are all those it does
\* not mean to change; the clock pins are for the clock loads.
FcrFollowsCall ==
  \A c \in Caller : Busy(c) =>
    \A i \in 1..call[c].pc - 1 : call[c].steps[i].io = "read_fcr" =>
      \A bit \in FcrBit :
        bit[1] # "clock" /\ bit \notin Meant(c, call[c].pc - 1)
          => (bit \in call[c].fcr <=> bit \in fcr[At(c)[1]])

AsyncHeld ==
  \A p \in Port :
    EnableAsync /\ (\/ Ready(p)
                    \/ \E c \in Caller : /\ Busy(c) /\ At(c) = p
                                         /\ call[c].kind = "boot" /\ call[c].name = "async"
                                         /\ call[c].pc > 2)
      => FcrMask("async", p[2]) \in fcr[p[1]]

BoardHeld == AloneOnCard /\ FcrFollowsCall /\ AsyncHeld

BoardInv == Discipline = "card" => BoardHeld

FullInv == IInv /\ RegistersInv /\ BoardInv

-----------------------------------------------------------------------------
(* The settings, with one call at a time on a card.                        *)

\* port->ACR is what a call has made it.
ShadowLands ==
  \A c \in Caller : Busy(c) =>
    \A i \in 1..call[c].pc - 1 :
      call[c].steps[i].io = "shadow" => acr[At(c)] = call[c].steps[i].val

\* So is the bit of the FCR a call has written.
FcrLands ==
  \A c \in Caller : Busy(c) =>
    \A i \in 1..call[c].pc - 1 : call[c].steps[i].io = "write_fcr" =>
      (FcrMask(call[c].steps[i].reg, At(c)[2]) \in fcr[At(c)[1]] <=> call[c].steps[i].val # 0)

\* The getters of a call have not changed the bit of ACR that is a setting.
DtrHeld ==
  \A c \in Caller : Busy(c) /\ call[c].kind = "get" =>
    icr[At(c)]["ACR"] \in {acr[At(c)], acr[At(c)] + 64}

\* After n accesses of s: access i is the last to read an indexed register.
LastGet(s, i, n) == s[i].io = "get" /\ \A j \in i+1..n : s[j].io # "get"

\* The bytes a call has read are those the registers hold.
GetsKept ==
  \A c \in Caller : Busy(c) =>
    LET s == call[c].steps
        n == call[c].pc - 1
    IN  \A i \in 1..n : LastGet(s, i, n) =>
          /\ call[c].got[2] = icr[At(c)][s[i].reg]
          /\ \A j \in 1..i-1 : LastGet(s, j, i - 1) => call[c].got[1] = icr[At(c)][s[j].reg]

\* Settings that can be torn are whole, from start-up on, but for the call
\* that sets them.
Whole ==
  \A p \in Port, n \in {"rs485", "isochronous", "external_transmit"} :
    /\ n \in DOMAIN PlaceOf => Programmed(p, PlaceOf[n])
    /\ \A c \in Caller : At(c) = p => ~Sets(c, n)
    => Setting(p)[n] # Torn

\* Until a port is started its settings keep the defaults once they have them.
DefaultsGiven ==
  \A p \in Port, n \in DOMAIN Defaults :
    ~Ready(p) /\ Programmed(p, PlaceOf[n]) => Setting(p)[n] = Defaults[n]

SettingsHeld ==
  /\ ShadowLands /\ FcrLands /\ DtrHeld /\ GetsKept
  /\ Whole /\ DefaultsGiven

\* The count of external transmit has its enable bit before the driver loads,
\* as after a reset and after an earlier load: get_external_transmit does not
\* look at the bit.
CountEnabled == \A v \in PowerUp : v["EXTH"] >= 128 \/ v["EXTH"] + v["EXT"] = 0

PromiseInv == FullInv /\ (Discipline = "card" /\ CountEnabled => SettingsHeld)
=============================================================================
