-------------------------- MODULE DriverInvariant ---------------------------
(***************************************************************************)
(* Why the properties of the driver hold: what is true of its cards, ports *)
(* and nodes after every step, also in the middle of an attachment or of a *)
(* removal.                                                                *)
(***************************************************************************)
EXTENDS DriverProperties

Registering == {"class", "chrdev", "driver"}
Filling     == {"uarts", "map", "port", "group", "cdev", "list"}
AttachStage == {"enable", "card"} \cup Filling

\* t has a device to attach; a card of its own, not in the list; a port of its
\* own, without cdev yet.
Attaches(t) == job[t].at \in AttachStage
OwnsCard(t) == job[t].at \in Filling \cup {"delete"}
OwnsPort(t) == job[t].at \in {"group", "cdev"}

PortsOf(i) == ToSet(card[i].ports)

\* The cards that are in the list, or on their way into it or out of memory.
Live == ToSet(list) \cup {job[t].card : t \in {s \in Thread : OwnsCard(s)}}

(* Only one thread is in the driver, and status says what it does there.   *)
OneThread ==
  /\ At("loader", "rest") \/ At("pci", "rest")
  /\ At("loader", "rest") => status \in {"out", "in"}
  /\ Attaches("loader") \/ job["loader"].at \in Registering \cup {"probe", "loop"}
       => status = "loading"
  /\ job["loader"].at \in {"exit", "delete"} => status = "unloading"
  /\ ~At("pci", "rest") => status = "in" /\ (Attaches("pci") \/ At("pci", "delete"))

(* The devices being attached, or to be visited, are there.                *)
DevicesThere ==
  /\ \A t \in Thread : At(t, "rest") => job[t] = Rest
  /\ \A t \in Thread : Attaches(t) =>
       /\ job[t].dev \in Here
       /\ IF job[t].by = "probe" THEN job[t].dev \notin Foreign ELSE t = "loader" /\ job[t].by = "loop"
       /\ At(t, "list") \/ job[t].channel < NumPorts
  /\ status = "loading" =>
       /\ job["loader"].todo \subseteq Here
       /\ At("loader", "probe") \/ (Attaches("loader") /\ job["loader"].by = "probe")
            => job["loader"].todo \cap Foreign = {}
       /\ \A i \in ToSet(list) : card[i].dev \in Here

(* Cards are in one place, and share no port.                              *)
CardsApart ==
  /\ \A m, n \in DOMAIN list : list[m] = list[n] => m = n
  /\ \A t \in Thread : OwnsCard(t) => job[t].card \in DOMAIN card \ ToSet(list)
  /\ \A t \in Thread : Attaches(t) /\ OwnsCard(t) => card[job[t].card].dev = job[t].dev
  /\ \A t \in Thread : job[t].at \in {"uarts", "map"} => card[job[t].card].ports = << >>
  /\ \A i \in DOMAIN card : \A m, n \in DOMAIN card[i].ports :
       card[i].ports[m] = card[i].ports[n] => m = n
  /\ \A i, j \in DOMAIN card : i # j => PortsOf(i) \cap PortsOf(j) = {}

(* A node belongs to one port, a cdev to a port of a live card, and a port *)
(* of a card to the card's device.                                         *)
PortsKnown ==
  /\ \A p, q \in ports : p.minor = q.minor => p = q
  /\ \A m \in nodes : \E p \in ports : p.minor = m
  /\ \A t \in Thread : OwnsPort(t) =>
       minor \notin cdevs /\ \E p \in ports : p.minor = minor /\ p.dev = job[t].dev
  /\ \A i \in DOMAIN card : \A m \in PortsOf(i) :
       \E p \in ports : p.minor = m /\ p.dev = card[i].dev
  /\ \A m \in cdevs : \E i \in Live : m \in PortsOf(i)

(* Files are open on ports with a smaller minor than the next one, while   *)
(* the module is being loaded only on ports with a cdev, and while it is   *)
(* being unloaded on none; the pci thread deletes what has been removed.   *)
FilesKept ==
  /\ \A m \in cdevs : m < minor
  /\ \A u \in User : file[u] \in Nat => file[u] < minor
  /\ status = "loading" => \A u \in User : file[u] \in Nat => file[u] \in cdevs
  /\ status = "unloading" => \A u \in User : file[u] = Closed
  /\ At("pci", "delete") => place[card[job["pci"].card].dev] = "gone"

\* What serialfc_init has registered when it comes to a step.
Registered ==
  CASE At("loader", "class")  -> {}
    [] At("loader", "chrdev") -> {"class"}
    [] At("loader", "driver") -> {"class", "chrdev"}
    [] OTHER                  -> Registering

(* What serialfc_init has to undo when a step fails, and what it knows     *)
(* when it has found no device.                                            *)
NothingLeft ==
  /\ NothingCallable
  /\ status # "out" => errno = 0
  /\ job["loader"].at \in Registering => cdevs = {} /\ bound = {} /\ list = << >>
  /\ status = "loading" =>
       /\ regs = Registered
       /\ job["loader"].at \in Registering \cup {"probe"}
            \/ (Attaches("loader") /\ job["loader"].by = "probe") => found = 0
       /\ Attaches("loader") /\ job["loader"].by = "loop" => found # 0
       /\ At("loader", "loop") /\ found = 0 => job["loader"].todo = Here
       /\ found # 0 => Here # {}

(* Until the module is loaded a second time, a device that was not there   *)
(* from the start has one card at most, and is bound while that is listed. *)
AttachedOnce ==
  /\ loads = 0 => status = "out"
  /\ loads \in {0, 1} => \A d \in Device \ AtStart :
       /\ loads = 0 \/ status = "loading" => place[d] = "away"
       /\ place[d] = "away" => \A i \in DOMAIN card : card[i].dev # d
       /\ \A i, j \in DOMAIN card : card[i].dev = d /\ card[j].dev = d => i = j
       /\ job["pci"].at \in {"enable", "card"} /\ job["pci"].dev = d
            => \A i \in DOMAIN card : card[i].dev # d
       /\ \A i \in ToSet(list) : card[i].dev = d => d \in bound

IInv ==
  /\ TypeOK /\ OneThread /\ DevicesThere /\ CardsApart
  /\ PortsKnown /\ FilesKept /\ NothingLeft /\ AttachedOnce
=============================================================================
