-------------------------- MODULE DriverProperties --------------------------
(***************************************************************************)
(* What must be true of the driver's cards, ports and device nodes from    *)
(* the loading of the module to its unloading.                             *)
(***************************************************************************)
EXTENDS Driver

Stage == {"rest", "probe", "loop", "list", "delete", "exit"} \cup (Step \ {"again"})

JobRecord ==
  [at : Stage, dev : Device \cup {0}, by : {"none", "probe", "loop"}, card : Nat,
   channel : 0..NumPorts, todo : SUBSET Device]

(* Every minor number, card number and handle is one of those in use.      *)
TypeOK ==
  /\ place \in [Device -> {"away", "here", "gone"}]
  /\ bound \subseteq Here \ Foreign
  /\ status \in {"out", "loading", "in", "unloading"}
  /\ errno \in {0, EIO, ENODEV, EOther} /\ loads \in 0..MaxLoads /\ found \in Nat
  /\ regs \subseteq {"class", "chrdev", "driver"}
  /\ minor \in Nat /\ nodes \subseteq Nat /\ cdevs \subseteq nodes
  /\ ports \subseteq [minor : nodes, dev : Device, channel : 0..NumPorts - 1]
  /\ IsFiniteSet(DOMAIN card) /\ DOMAIN card \subseteq Nat
  /\ \A i \in DOMAIN card : card[i] \in [dev : Device, uarts : BOOLEAN, ports : Seq(cdevs)]
  /\ list \in Seq(DOMAIN card)
  /\ job \in [Thread -> JobRecord]
  /\ file \in [User -> Nat \cup {Closed, Wild}]

(* Once the module is loaded and both threads are at rest, the cards in    *)
(* the list and the ports users can reach are the same thing: every listed *)
(* card is in memory, once; every port of it is in memory, with a node and *)
(* a cdev; every cdev belongs to one listed card, and every node to a port *)
(* in memory.  Steps that failed on the way have left nothing else behind. *)
ListedOnce(i) == Cardinality({n \in 1..Len(list) : list[n] = i}) = 1

Registry ==
  status = "in" /\ Settled =>
    /\ \A i \in ToSet(list) : i \in DOMAIN card /\ ListedOnce(i)
    /\ \A i \in ToSet(list) : \A m \in ToSet(card[i].ports) :
         m \in nodes /\ m \in cdevs /\ \E p \in ports : p.minor = m /\ p.dev = card[i].dev
    /\ \A m \in cdevs :
         Cardinality({i \in ToSet(list) : m \in ToSet(card[i].ports)}) = 1
    /\ \A m \in nodes : \E p \in ports : p.minor = m

(* When the module is out, unloaded or refused, the kernel can call no     *)
(* function of it any more: nothing is registered, no cdev is left.  The   *)
(* one exception is the return of main.c:387-388, which undoes nothing:    *)
(* after it everything serialfc_init registers is still registered.        *)
NothingCallable ==
  status = "out" =>
    IF errno = EIO THEN regs = {"class", "chrdev", "driver"}
                   ELSE regs = {} /\ cdevs = {} /\ bound = {} /\ list = << >>

(* The port of an open file is freed for one reason only, that its device  *)
(* has been removed (fc_remove looks at no file): not by a step of an      *)
(* attachment that fails, whichever node is opened meanwhile, and not by   *)
(* unloading, which waits for the files.  Who opens a node with a cdev     *)
(* gets a port in memory.                                                  *)
OpenPortsStay ==
  [][\A u \in User :
       /\ file'[u] = file[u] =>
            \A p \in ports : p.minor = file[u] => p \in ports' \/ place[p.dev] = "gone"
       /\ file'[u] \notin {file[u], Closed, Wild} => \E p \in ports' : p.minor = file'[u]]_vars

(* Loading fails with ENODEV exactly when the system has no card ("If no   *)
(* cards are present...", README.md:64): not because all attachments       *)
(* failed, and never with a card left behind.                              *)
NoSuchDevice ==
  [][status = "loading" /\ status' # "loading" =>
       /\ (errno' = ENODEV) <=> (errno' \notin {EIO, EOther} /\ Here = {})
       /\ status' = "in" => Here # {}]_vars

(* A device plugged in after the module was loaded for the first time      *)
(* takes its ports with it when it goes.  (fc_remove deletes one card of   *)
(* the device, and such a device has one until the module is loaded        *)
(* again.)                                                                 *)
GoneWithDevice ==
  \A d \in Device \ AtStart : place[d] = "gone" /\ loads = 1 /\ Settled =>
    MinorsOf(d) \cap cdevs = {} /\ \A i \in ToSet(list) : card[i].dev # d

(* Whatever fails on the way, serialfc_init, serialfc_exit, fc_probe and    *)
(* fc_remove come to their end: again and again nobody is in the driver    *)
(* and the module is either in or out.                                     *)
ComesToRest == []<>(Settled /\ status \in {"in", "out"})

-----------------------------------------------------------------------------
(* "There are two ports per card." (card.c:195): a UART is reached through *)
(* one port.  The code attaches a device that fc_probe has attached once   *)
(* more in the loop of serialfc_init.                                      *)
TwoPortsPerCard ==
  \A p, q \in ports :
    p.minor \in cdevs /\ q.minor \in cdevs /\ p.dev = q.dev /\ p.channel = q.channel => p = q
=============================================================================
