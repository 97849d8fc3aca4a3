------------------------------ MODULE Settings ------------------------------
(***************************************************************************)
(* What the driver promises the users of its per-port settings: each port  *)
(* has a value for each setting; starting the driver gives the settings    *)
(* that have one their default; an accepted set call ends with its port's  *)
(* setting at the value asked for and disturbs no other setting of any     *)
(* port; a get call changes nothing and returns the value; a refused call  *)
(* changes nothing.  While a set call is in progress its own setting may   *)
(* hold anything.  A board-wide setting is one setting for all the ports   *)
(* of a card.                                                              *)
(***************************************************************************)
EXTENDS Integers

CONSTANTS
  Port,      \* the ports
  User,      \* who makes the calls
  Name,      \* the settings
  BoardWide, \* those of them that are board-wide
  Board,     \* the ports of the same card as a port, a function on Port
  Default    \* the defaults, a function on the settings that have one

VARIABLES
  setting,   \* the value of each setting of each port
  ready,     \* the ports whose start-up is complete
  request    \* the call each user is making, or the outcome of its last one

vars == <<setting, ready, request>>

Busy(u) == request[u].kind # "none"

Open(u, p, n) == /\ request[u].kind = "set"
                 /\ request[u].port = p /\ request[u].name = n
                 /\ request[u].status = 0

Init ==
  /\ setting \in [Port -> [Name -> Int]]
  /\ ready = [p \in Port |-> FALSE]
  /\ \A u \in User : ~Busy(u)

\* The ports whose setting n is that of port p.
Reach(p, n) == IF n \in BoardWide THEN Board[p] ELSE {p}

\* Only the settings Names of port p may change.
OthersKeep(p, Names) ==
  \A q \in Port, n \in Name :
    setting'[q][n] # setting[q][n] => n \in Names /\ q \in Reach(p, n)

\* Start-up of port p touches settings of p only, and ends with the defaults.
\* Users of ports of the card already started may change a board-wide setting
\* meanwhile.
StartUp(p) ==
  /\ ~ready[p]
  /\ OthersKeep(p, Name)
  /\ ready' \in {ready, [ready EXCEPT ![p] = TRUE]}
  /\ ready'[p] => \A n \in DOMAIN Default :
       \/ setting'[p][n] = Default[n]
       \/ n \in BoardWide /\ \E q \in Board[p] : ready[q]
  /\ UNCHANGED request

Begin(u) ==
  /\ ~Busy(u) /\ Busy(u)'
  /\ ready[request'[u].port]
  /\ \A w \in User \ {u} : request'[w] = request[w]
  /\ UNCHANGED <<setting, ready>>

Work(u) ==
  /\ \E p \in Port, n \in Name : Open(u, p, n) /\ OthersKeep(p, {n})
  /\ UNCHANGED <<ready, request>>

End(u) ==
  /\ Busy(u) /\ ~Busy(u)'
  /\ request'[u].status = request[u].status
  /\ LET r == request[u]
         v == setting[r.port][r.name]
     IN  r.status = 0 /\ r.name \in Name =>
           IF r.kind = "set" THEN v = r.arg ELSE request'[u].value = v
  /\ \A w \in User \ {u} : request'[w] = request[w]
  /\ UNCHANGED <<setting, ready>>

Next == \/ \E p \in Port : StartUp(p)
        \/ \E u \in User : Begin(u) \/ Work(u) \/ End(u)

Spec == Init /\ [][Next]_vars
=============================================================================
