------------------------------- MODULE Driver -------------------------------
(***************************************************************************)
(* The life of the driver: loading and unloading the module (main.c),      *)
(* attaching and detaching cards (main.c, card.c), creating and deleting   *)
(* their ports (port.c), and the users who open a port's device node.      *)
(* A port is known by its minor number.                                    *)
(*                                                                         *)
(* Two threads run this code: the one that loads or unloads the module,    *)
(* and the PCI core's when a device comes or goes.  Nothing in the code    *)
(* keeps them apart.  Orderly says whether they keep apart by themselves:  *)
(* devices come only while the module is in, go only while it is in or     *)
(* out, and neither thread starts before the other has ended.  Users keep  *)
(* apart from nobody: they open and close nodes at any time, also while    *)
(* cards are attached and ports are deleted.                               *)
(***************************************************************************)
EXTENDS Integers, FiniteSets, SequencesExt

CONSTANTS
  Device,     \* the PCI functions, numbered in the order the bus lists them
  NumPorts,   \* ports of a card
  Foreign,    \* devices another driver is bound to: fc_probe is not called
  Fscc,       \* devices of type FSCC
  AtStart,    \* devices in the system before the module is first loaded
  User,       \* processes opening device nodes
  Fails,      \* the steps that may fail
  Orderly,    \* see above
  MaxLoads    \* bound: how often the module is loaded

\* "again" is "enable" in the loop of serialfc_init.
Step == {"class", "chrdev", "driver", "enable", "again", "card", "uarts", "map",
         "port", "group", "cdev"}

ASSUME DeviceAssumption  == Device \subseteq Nat /\ IsFiniteSet(Device)
ASSUME NumberAssumption  == NumPorts \in Nat \ {0} /\ MaxLoads \in Nat
ASSUME KindsAssumption   == Foreign \cup Fscc \cup AtStart \subseteq Device
ASSUME FailsAssumption   == Fails \subseteq Step
ASSUME OrderlyAssumption == Orderly \in BOOLEAN

VARIABLES
  place,   \* of each device: "away" (not plugged in yet), "here" or "gone"
  bound,   \* the devices bound to serialfc_pci_driver
  status,  \* of the module: "out", "loading", "in" or "unloading"
  errno,   \* what the last serialfc_init returned
  loads,   \* how often the module has been loaded
  regs,    \* which of "class", "chrdev" and "driver" are registered
  minor,   \* the static minor_number
  ports,   \* struct serialfc_port in memory: [minor, dev, channel]
  nodes,   \* minors that have a device node
  cdevs,   \* minors that have a cdev
  card,    \* struct serialfc_card in memory: a function on their numbers
  list,    \* serialfc_cards, as a sequence of those numbers
  job,     \* what each thread is doing
  found,   \* num_devices
  file     \* the port each user has open

mod     == <<status, errno, loads, regs, found>>
bus     == <<place, bound>>
objects == <<minor, ports, nodes, cdevs, card>>
vars    == <<place, bound, status, errno, loads, regs, minor, ports, nodes, cdevs,
             card, list, job, found, file>>

EIO     == 5
ENODEV  == 19
EOther  == 12    \* whatever the kernel's function returned

Thread  == {"loader", "pci"}
Closed  == -1    \* no file open
Wild    == -2    \* a file whose private_data is no port

-----------------------------------------------------------------------------
(* Threads.  at: the next step; dev, by: the device being attached, and by *)
(* whom; card: the card being filled or emptied; todo: the devices still   *)
(* to be visited, in the order of the bus.                                 *)

Rest == [at |-> "rest", dev |-> 0, by |-> "none", card |-> 0, channel |-> 0, todo |-> {}]

At(t, step) == job[t].at = step

Goto(t, step) == job' = [job EXCEPT ![t].at = step]

\* The least number of S, if it has any.
First(S) == {x \in S : \A y \in S : x <= y}

Here         == {d \in Device : place[d] = "here"}
MayFail(s)   == s \in Fails

Settled == \A t \in Thread : At(t, "rest")

\* The module's memory has been given back and the kernel or a file still
\* points into it: nothing is modelled beyond that.
Dangling == status = "out" /\ (regs # {} \/ \E u \in User : file[u] # Closed)

\* A faulty variant: the loop of serialfc_init is left with its first device.
AfterAttachLeaves(t) ==
  CASE job[t].by = "probe" /\ t = "loader" -> [Rest EXCEPT !.at = "probe", !.todo = job[t].todo]
    [] OTHER                               -> Rest

\* Where a thread goes on when it is done with one device.
AfterAttach(t) ==
  CASE job[t].by = "probe" /\ t = "loader" -> [Rest EXCEPT !.at = "probe", !.todo = job[t].todo]
    [] job[t].by = "loop"                  -> [Rest EXCEPT !.at = "loop", !.todo = job[t].todo]
    [] OTHER                               -> Rest

-----------------------------------------------------------------------------
(* serialfc_init.                                                          *)

\* A failed step undoes the registrations before it and returns.
Undo(error) ==
  /\ status' = "out" /\ errno' = error /\ regs' = {}
  /\ job' = [job EXCEPT !["loader"] = Rest]

Insert ==
  /\ status = "out" /\ loads < MaxLoads /\ Settled /\ ~Dangling
  /\ status' = "loading" /\ loads' = loads + 1 /\ errno' = 0 /\ found' = 0
  /\ minor' = 0
  /\ Goto("loader", "class")
  /\ UNCHANGED <<bus, regs, ports, nodes, cdevs, card, list, file>>

\* A faulty variant: the character device stays when the driver is refused.
RegisterForgets(step, next) ==
  /\ At("loader", step)
  /\ \/ /\ regs' = regs \cup {step}
        /\ job' = [job EXCEPT !["loader"].at = next, !["loader"].todo = Here \ Foreign]
        /\ UNCHANGED <<status, errno>>
     \/ /\ MayFail(step)
        /\ status' = "out" /\ errno' = EOther /\ regs' = regs \ {"class"}
        /\ job' = [job EXCEPT !["loader"] = Rest]
  /\ UNCHANGED <<bus, objects, list, loads, found, file>>

\* class_create, register_chrdev and pci_register_driver; the last one calls
\* fc_probe for every device that no driver is bound to.
Register(step, next) ==
  /\ At("loader", step)
  /\ \/ /\ regs' = regs \cup {step}
        /\ job' = [job EXCEPT !["loader"].at = next, !["loader"].todo = Here \ Foreign]
        /\ UNCHANGED <<status, errno>>
     \/ MayFail(step) /\ Undo(EOther)
  /\ UNCHANGED <<bus, objects, list, loads, found, file>>

Attaching(t, d, by, todo) ==
  job' = [job EXCEPT ![t] = [Rest EXCEPT !.at = "enable", !.dev = d, !.by = by, !.todo = todo]]

ProbeNext ==
  /\ At("loader", "probe")
  /\ LET todo == job["loader"].todo IN
     IF todo # {}
     THEN \E d \in First(todo) : Attaching("loader", d, "probe", todo \ {d})
     ELSE job' = [job EXCEPT !["loader"].at = "loop", !["loader"].todo = Here]
  /\ UNCHANGED <<bus, mod, objects, list, file>>

\* A faulty variant: only the devices that got a card are counted.
LoopCountsCards ==
  /\ At("loader", "loop")
  /\ LET todo == job["loader"].todo IN
     IF todo # {}
     THEN /\ \E d \in First(todo) : Attaching("loader", d, "loop", todo \ {d})
          /\ UNCHANGED <<bus, mod>>
     ELSE IF list = << >>
     THEN Undo(ENODEV) /\ bound' = {} /\ UNCHANGED <<place, loads, found>>
     ELSE status' = "in" /\ job' = [job EXCEPT !["loader"] = Rest]
          /\ UNCHANGED <<bus, errno, loads, regs, found>>
  /\ UNCHANGED <<objects, list, file>>

\* The loop over pci_get_device: every device of the vendor, those that
\* fc_probe has attached included.
LoopNext ==
  /\ At("loader", "loop")
  /\ LET todo == job["loader"].todo IN
     IF todo # {}
     THEN /\ \E d \in First(todo) : Attaching("loader", d, "loop", todo \ {d})
          /\ found' = found + 1
          /\ UNCHANGED <<bus, status, errno, loads, regs>>
     ELSE IF found = 0
     THEN Undo(ENODEV) /\ bound' = {} /\ UNCHANGED <<place, loads, found>>
     ELSE status' = "in" /\ job' = [job EXCEPT !["loader"] = Rest]
          /\ UNCHANGED <<bus, errno, loads, regs, found>>
  /\ UNCHANGED <<objects, list, file>>

-----------------------------------------------------------------------------
(* fc_probe and the body of the loop: pci_enable_device, then              *)
(* serialfc_card_new.                                                      *)

\* fc_probe refuses the device; serialfc_init returns at once and undoes
\* nothing.
EnableFails(t) ==
  /\ MayFail(IF job[t].by = "loop" THEN "again" ELSE "enable")
  /\ IF job[t].by = "loop"
     THEN status' = "out" /\ errno' = EIO /\ job' = [job EXCEPT ![t] = Rest]
     ELSE job' = [job EXCEPT ![t] = AfterAttach(t)] /\ UNCHANGED <<status, errno>>
  /\ UNCHANGED <<bound, card, loads, regs, found>>

Enable(t) ==
  /\ At(t, "enable")
  /\ \/ Goto(t, "card") /\ UNCHANGED <<bound, card, mod>>
     \/ EnableFails(t)
  /\ UNCHANGED <<place, minor, ports, nodes, cdevs, list, file>>

\* fc_probe returns 0 whatever serialfc_card_new does.
Attached(t) ==
  /\ job' = [job EXCEPT ![t] = AfterAttach(t)]
  /\ bound' = IF job[t].by = "probe" THEN bound \cup {job[t].dev} ELSE bound

\* Where kmalloc finds room for a card: the first place that is free.
Free  == {i \in 1..Cardinality(DOMAIN card) + 1 : i \notin DOMAIN card}

NewCard(t) ==
  /\ At(t, "card")
  /\ \/ /\ \E new \in First(Free) :
             /\ card' = [i \in DOMAIN card \cup {new} |->
                           IF i = new THEN [dev |-> job[t].dev, uarts |-> FALSE, ports |-> << >>]
                                      ELSE card[i]]
             /\ job' = [job EXCEPT ![t].at = IF job[t].dev \in Fscc THEN "uarts" ELSE "map",
                                   ![t].card = new]
        /\ UNCHANGED bound
     \/ MayFail("card") /\ Attached(t) /\ UNCHANGED card
  /\ UNCHANGED <<place, mod, minor, ports, nodes, cdevs, list, file>>

\* pciserial_init_ports; the card is not freed when it fails.
InitUarts(t) ==
  /\ At(t, "uarts")
  /\ \/ card' = [card EXCEPT ![job[t].card].uarts = TRUE] /\ Goto(t, "map") /\ UNCHANGED bound
     \/ MayFail("uarts") /\ Attached(t) /\ UNCHANGED card
  /\ UNCHANGED <<place, mod, minor, ports, nodes, cdevs, list, file>>

\* pci_iomap of the card's regions; nothing is given back when it fails.
MapRegions(t) ==
  /\ At(t, "map")
  /\ \/ Goto(t, "port") /\ UNCHANGED bound
     \/ MayFail("map") /\ Attached(t)
  /\ UNCHANGED <<place, mod, objects, list, file>>

-----------------------------------------------------------------------------
(* serialfc_port_new, for one channel after the other.                     *)

\* A faulty variant: one channel too many.
NextChannelTooMany(t) ==
  /\ minor' = minor + 1
  /\ job' = [job EXCEPT ![t].channel = @ + 1,
                        ![t].at = IF job[t].channel = NumPorts THEN "list" ELSE "port"]

\* On to the next channel, or to the end of serialfc_card_new.
NextChannel(t) ==
  /\ minor' = minor + 1
  /\ job' = [job EXCEPT ![t].channel = @ + 1,
                        ![t].at = IF job[t].channel + 1 = NumPorts THEN "list" ELSE "port"]

\* kmalloc, then device_create: users see the node.  (A minor that has a node
\* already makes device_create fail, which the code would not notice.)
NewPort(t) ==
  /\ At(t, "port")
  /\ \/ /\ minor \notin nodes
        /\ ports' = ports \cup {[minor |-> minor, dev |-> job[t].dev, channel |-> job[t].channel]}
        /\ nodes' = nodes \cup {minor}
        /\ Goto(t, "group")
        /\ UNCHANGED minor
     \/ MayFail("port") /\ NextChannel(t) /\ UNCHANGED <<ports, nodes>>
  /\ UNCHANGED <<bus, mod, cdevs, card, list, file>>

\* When sysfs_create_group fails the port is abandoned, node and all.  When
\* it does not, modules Fscc and Exar say what start-up does to the port.
CreateGroup(t) ==
  /\ At(t, "group")
  /\ \/ Goto(t, "cdev") /\ UNCHANGED minor
     \/ MayFail("group") /\ NextChannel(t)
  /\ UNCHANGED <<bus, mod, ports, nodes, cdevs, card, list, file>>

Without(m) == {p \in ports : p.minor # m}

\* device_destroy and kfree.
CdevFails ==
  /\ MayFail("cdev")
  /\ ports' = Without(minor) /\ nodes' = nodes \ {minor}
  /\ UNCHANGED <<cdevs, card>>

AddCdev(t) ==
  /\ At(t, "cdev")
  /\ \/ /\ cdevs' = cdevs \cup {minor}
        /\ card'  = [card EXCEPT ![job[t].card].ports = Append(@, minor)]
        /\ UNCHANGED <<ports, nodes>>
     \/ CdevFails
  /\ NextChannel(t)
  /\ UNCHANGED <<bus, mod, list, file>>

ListCard(t) ==
  /\ At(t, "list")
  /\ list' = Append(list, job[t].card)
  /\ Attached(t)
  /\ UNCHANGED <<place, mod, objects, file>>

-----------------------------------------------------------------------------
(* serialfc_card_delete.                                                   *)

\* serialfc_port_delete: device_destroy, cdev_del, kfree.
DeletePort(t) ==
  /\ At(t, "delete")
  /\ LET c == job[t].card
         m == Head(card[c].ports)
     IN  /\ card[c].ports # << >>
         /\ ports' = Without(m) /\ nodes' = nodes \ {m} /\ cdevs' = cdevs \ {m}
         /\ card'  = [card EXCEPT ![c].ports = Tail(@)]
  /\ UNCHANGED <<bus, mod, minor, list, job, file>>

\* pciserial_remove_ports, kfree.
FreeCard(t) ==
  /\ At(t, "delete")
  /\ card[job[t].card].ports = << >>
  /\ card' = [i \in DOMAIN card \ {job[t].card} |-> card[i]]
  /\ job' = [job EXCEPT ![t] = IF t = "loader" THEN [Rest EXCEPT !.at = "exit"] ELSE Rest]
  /\ UNCHANGED <<bus, mod, minor, ports, nodes, cdevs, list, file>>

-----------------------------------------------------------------------------
(* serialfc_exit.  A module is not unloaded while one of its files is open: *)
(* the cdevs and the file operations name it as their owner.               *)

\* A faulty variant: the file operations name no owner.
UnloadAnyTime ==
  /\ status = "in" /\ At("loader", "rest")
  /\ Orderly => Settled
  /\ status' = "unloading"
  /\ Goto("loader", "exit")
  /\ UNCHANGED <<bus, errno, loads, regs, found, objects, list, file>>

Unload ==
  /\ status = "in" /\ At("loader", "rest")
  /\ Orderly => Settled
  /\ \A u \in User : file[u] = Closed
  /\ status' = "unloading"
  /\ Goto("loader", "exit")
  /\ UNCHANGED <<bus, errno, loads, regs, found, objects, list, file>>

\* fc_remove, called by pci_unregister_driver, finds no card any more.
Exit ==
  /\ At("loader", "exit")
  /\ IF list # << >>
     THEN /\ job' = [job EXCEPT !["loader"].at = "delete", !["loader"].card = Head(list)]
          /\ list' = Tail(list)
          /\ UNCHANGED <<bound, status, regs>>
     ELSE /\ job' = [job EXCEPT !["loader"] = Rest]
          /\ bound' = {} /\ status' = "out" /\ regs' = {}
          /\ UNCHANGED list
  /\ UNCHANGED <<place, errno, loads, found, objects, file>>

-----------------------------------------------------------------------------
(* Devices that come and go.                                               *)

Plug(d) ==
  /\ place[d] = "away" /\ At("pci", "rest") /\ ~Dangling
  /\ Orderly => (status = "in" /\ Settled)
  /\ place' = [place EXCEPT ![d] = "here"]
  /\ IF "driver" \in regs /\ d \notin Foreign
     THEN Attaching("pci", d, "probe", {}) ELSE UNCHANGED job
  /\ UNCHANGED <<bound, mod, objects, list, file>>

MinorsOf(d) == {p.minor : p \in {q \in ports : q.dev = d}}

\* A faulty variant: serialfc_card_find takes any card.
FindAny(d) == 1..Len(list)

\* serialfc_card_find returns the first of these.
Find(d) == {i \in 1..Len(list) : card[list[i]].dev = d}

\* A faulty variant: the card stays in the list (no list_del).
UnplugKeepsListed(d) ==
  /\ place[d] = "here" /\ At("pci", "rest") /\ ~Dangling
  /\ Orderly => (status \in {"in", "out"} /\ Settled)
  /\ place' = [place EXCEPT ![d] = "gone"]
  /\ bound' = bound \ {d}
  /\ IF d \in bound /\ Find(d) # {}
     THEN \E i \in First(Find(d)) :
          /\ list' = list
          /\ job'  = [job EXCEPT !["pci"].at = "delete", !["pci"].card = list[i]]
     ELSE UNCHANGED <<list, job>>
  /\ UNCHANGED <<mod, objects, file>>

\* fc_remove, if this driver is bound to the device; open files keep nothing.
Unplug(d) ==
  /\ place[d] = "here" /\ At("pci", "rest") /\ ~Dangling
  /\ Orderly => (status \in {"in", "out"} /\ Settled)
  /\ place' = [place EXCEPT ![d] = "gone"]
  /\ bound' = bound \ {d}
  /\ IF d \in bound /\ Find(d) # {}
     THEN \E i \in First(Find(d)) :
          /\ list' = RemoveAt(list, i)
          /\ job'  = [job EXCEPT !["pci"].at = "delete", !["pci"].card = list[i]]
     ELSE UNCHANGED <<list, job>>
  /\ UNCHANGED <<mod, objects, file>>

-----------------------------------------------------------------------------
(* Users.                                                                  *)

\* serialfc_open: the port around the cdev of the inode.  register_chrdev has
\* given all minors a cdev of its own, which no port is around.  The kernel
\* opens no file of a module that is leaving or gone.
Open(u, m) ==
  /\ file[u] = Closed /\ m \in nodes
  /\ (m \in cdevs \/ "chrdev" \in regs)
  /\ status \in {"loading", "in"}
  /\ file' = [file EXCEPT ![u] = IF m \in cdevs THEN m ELSE Wild]
  /\ UNCHANGED <<bus, mod, objects, list, job>>

\* The kernel puts back the cdev of the inode: what happens when that has been
\* freed with its port is not modelled.
Close(u) ==
  /\ file[u] # Closed /\ ~Dangling
  /\ file[u] = Wild \/ \E p \in ports : p.minor = file[u]
  /\ file' = [file EXCEPT ![u] = Closed]
  /\ UNCHANGED <<bus, mod, objects, list, job>>

-----------------------------------------------------------------------------
Init ==
  /\ place = [d \in Device |-> IF d \in AtStart THEN "here" ELSE "away"]
  /\ bound = {} /\ status = "out" /\ errno = 0 /\ loads = 0 /\ regs = {}
  /\ minor = 0 /\ ports = {} /\ nodes = {} /\ cdevs = {}
  /\ card = << >> /\ list = << >> /\ found = 0
  /\ job = [t \in Thread |-> Rest]
  /\ file = [u \in User |-> Closed]

Load ==
  \/ Register("class", "chrdev") \/ Register("chrdev", "driver") \/ Register("driver", "probe")
  \/ ProbeNext \/ LoopNext

Attach(t) ==
  \/ Enable(t) \/ NewCard(t) \/ InitUarts(t) \/ MapRegions(t)
  \/ NewPort(t) \/ CreateGroup(t) \/ AddCdev(t) \/ ListCard(t)

Delete(t) == DeletePort(t) \/ FreeCard(t)

Next ==
  \/ Insert \/ Load \/ Unload \/ Exit
  \/ \E t \in Thread : Attach(t) \/ Delete(t)
  \/ \E d \in Device : Plug(d) \/ Unplug(d)
  \/ \E u \in User : Close(u) \/ \E m \in nodes : Open(u, m)

Spec == Init /\ [][Next]_vars

\* Whoever is in the driver goes on: nothing on the way waits for anybody.
\* Whether the module is loaded or unloaded, a device comes or goes, and a file
\* is opened or closed, is up to others.
FairSpec == Spec /\ WF_vars(Load \/ Exit \/ \E t \in Thread : Attach(t) \/ Delete(t))
=============================================================================
