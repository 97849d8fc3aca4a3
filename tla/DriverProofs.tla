---------------------------- MODULE DriverProofs ----------------------------
(***************************************************************************)
(* The properties of the driver hold for any devices, users and failures,  *)
(* as long as the threads in it keep apart (Orderly, of Driver).           *)
(***************************************************************************)
EXTENDS DriverInvariant, FiniteSetTheorems, SequenceTheorems, TLAPS

\* The elements of a sequence over S are in S.
LEMMA ElementsOf ==
  ASSUME NEW S, NEW s \in Seq(S)
  PROVE  ToSet(s) \subseteq S /\ DOMAIN s = 1..Len(s) /\ Len(s) \in Nat
BY DEF ToSet

(* The invariant holds before the module is loaded for the first time.     *)
LEMMA InitHolds == Init => IInv
<1> SUFFICES ASSUME Init PROVE IInv
  OBVIOUS
<1>0. DOMAIN card = {} /\ DOMAIN list = {} /\ ToSet(list) = {} /\ list \in Seq(DOMAIN card)
  BY DEF Init, ToSet
<1>1. TypeOK
  <2>1. IsFiniteSet(DOMAIN card)
    BY <1>0, FS_EmptySet
  <2>2. job \in [Thread -> JobRecord]
    BY NumberAssumption DEF Init, JobRecord, Rest, Stage, Step, Thread
  <2> QED BY <1>0, <2>1, <2>2, NumberAssumption DEF Init, TypeOK, Here, Closed
<1>2. OneThread /\ DevicesThere
  BY <1>0 DEF Init, OneThread, DevicesThere, At, Attaches, AttachStage, Filling, Rest, Thread, Registering
<1>3. CardsApart
  BY <1>0 DEF Init, CardsApart, OwnsCard, Attaches, AttachStage, Filling, Rest, Thread
<1>4. PortsKnown
  BY <1>0 DEF Init, PortsKnown, OwnsPort, Rest, Thread
<1>5. FilesKept
  BY <1>0 DEF Init, FilesKept, OwnsPort, Rest, Thread, At, Closed
<1>6. NothingLeft
  BY <1>0 DEF Init, NothingLeft, NothingCallable, Rest, Thread, At, Attaches, AttachStage, Filling, Registering, EIO
<1>7. AttachedOnce
  BY <1>0 DEF Init, AttachedOnce, Rest, Thread
<1> QED BY <1>1, <1>2, <1>3, <1>4, <1>5, <1>6, <1>7 DEF IInv

(* Cards stay apart, if no thread gives up its card or takes one.          *)
LEMMA CardsApartKept ==
  ASSUME IInv, UNCHANGED <<card, list>>,
         \A t \in Thread : OwnsCard(t)' <=> OwnsCard(t),
         \A t \in Thread : OwnsCard(t) =>
           /\ job'[t].card = job[t].card /\ job'[t].dev = job[t].dev
           /\ Attaches(t)' => Attaches(t)
           /\ job'[t].at \in {"uarts", "map"} => job[t].at \in {"uarts", "map"}
  PROVE  CardsApart'
<1>1. \A i : PortsOf(i)' = PortsOf(i)
  BY DEF PortsOf
<1>2. \A t \in Thread : OwnsCard(t)' =>
        /\ job'[t].card \in DOMAIN card' \ ToSet(list')
        /\ Attaches(t)' => card'[job'[t].card].dev = job'[t].dev
  BY DEF IInv, CardsApart
<1>3. \A t \in Thread : job'[t].at \in {"uarts", "map"} => card'[job'[t].card].ports = << >>
  BY DEF IInv, CardsApart, OwnsCard, Filling
<1> QED BY <1>1, <1>2, <1>3 DEF IInv, CardsApart

(* A step that touches no card and no port keeps what is known of both, if *)
(* no thread gives up its card or takes one.                               *)
LEMMA CardsKept ==
  ASSUME IInv, UNCHANGED <<card, list, ports, nodes, cdevs>>,
         \A t \in Thread : OwnsCard(t)' <=> OwnsCard(t),
         \A t \in Thread : OwnsCard(t) =>
           /\ job'[t].card = job[t].card /\ job'[t].dev = job[t].dev
           /\ Attaches(t)' => Attaches(t)
           /\ job'[t].at \in {"uarts", "map"} => job[t].at \in {"uarts", "map"},
         \A t \in Thread : OwnsPort(t)' => OwnsPort(t) /\ minor' = minor /\ job'[t].dev = job[t].dev
  PROVE  CardsApart' /\ PortsKnown'
<1>1. CardsApart'
  BY CardsApartKept
<1>2. Live' = Live
  BY DEF Live
<1>3. PortsKnown'
  BY <1>2 DEF IInv, PortsKnown, OwnsPort, PortsOf
<1> QED BY <1>1, <1>3

(* A step that touches no cdev and no file keeps what is known of the      *)
(* files, if loading or unloading does not begin with a file open and the  *)
(* pci thread takes no card to delete.                                     *)
LEMMA FilesKeptOpen ==
  ASSUME IInv, UNCHANGED <<cdevs, file>>, minor' \in Nat, minor' >= minor,
         status' = status \/ status' \in {"in", "out"} \/ \A u \in User : file[u] = Closed,
         job'["pci"].at = "delete" =>
           /\ job["pci"].at = "delete" /\ job'["pci"].card = job["pci"].card
           /\ place' = place /\ card'[job["pci"].card].dev = card[job["pci"].card].dev
  PROVE  FilesKept'
<1>1. minor \in Nat /\ cdevs \subseteq Nat
  BY DEF IInv, TypeOK
<1>2. \A m \in cdevs' : m < minor'
  BY <1>1 DEF IInv, FilesKept
<1>3. \A u \in User : file'[u] \in Nat => file'[u] < minor'
  BY <1>1 DEF IInv, FilesKept
<1>4. /\ status' = "loading" => \A u \in User : file'[u] \in Nat => file'[u] \in cdevs'
      /\ status' = "unloading" => \A u \in User : file'[u] = Closed
  BY DEF IInv, FilesKept, Closed
<1>5. At("pci", "delete")' => place'[card'[job'["pci"].card].dev] = "gone"
  BY DEF IInv, FilesKept, At
<1> QED BY <1>2, <1>3, <1>4, <1>5 DEF FilesKept

(* A user who closes a file leaves everything else alone.                  *)
LEMMA CloseStep ==
  ASSUME IInv, NEW u \in User, Close(u)
  PROVE  IInv'
<1>1. /\ bus' = bus /\ mod' = mod /\ objects' = objects /\ list' = list /\ job' = job
      /\ file' = [file EXCEPT ![u] = Closed]
  BY DEF Close
<1>2. TypeOK'
  BY <1>1 DEF IInv, TypeOK, bus, mod, objects, Here
<1>3. OneThread' /\ DevicesThere'
  BY <1>1 DEF IInv, OneThread, DevicesThere, bus, mod, objects, Here, At, Attaches
<1>4. CardsApart' /\ PortsKnown'
  BY <1>1, CardsKept DEF objects, OwnsCard, OwnsPort, Attaches
<1>5. FilesKept'
  <2>1. \A v \in User : file'[v] = file[v] \/ file'[v] = Closed
    BY <1>1 DEF IInv, TypeOK
  <2> QED BY <1>1, <2>1 DEF IInv, FilesKept, Closed, bus, mod, objects, At
<1>6. NothingLeft' /\ AttachedOnce'
  BY <1>1 DEF IInv, NothingLeft, Registered, AttachedOnce, NothingCallable, bus, mod, objects, Here, At, Attaches
<1> QED BY <1>2, <1>3, <1>4, <1>5, <1>6 DEF IInv

(* A user opens a node, of a port with a cdev or of one that has none (yet  *)
(* or any more), whatever the threads are at.                              *)
LEMMA OpenStep ==
  ASSUME IInv, NEW u \in User, NEW m \in nodes, Open(u, m)
  PROVE  IInv'
<1>1. /\ bus' = bus /\ mod' = mod /\ objects' = objects /\ list' = list /\ job' = job
      /\ file' = [file EXCEPT ![u] = IF m \in cdevs THEN m ELSE Wild]
      /\ status \in {"loading", "in"}
  BY DEF Open
<1>2. TypeOK'
  BY <1>1 DEF IInv, TypeOK, bus, mod, objects, Here
<1>3. OneThread' /\ DevicesThere'
  BY <1>1 DEF IInv, OneThread, DevicesThere, bus, mod, objects, Here, At, Attaches
<1>4. CardsApart' /\ PortsKnown'
  BY <1>1, CardsKept DEF objects, OwnsCard, OwnsPort, Attaches
<1>5. FilesKept'
  <2>1. \A v \in User : file'[v] = file[v] \/ file'[v] = Wild \/ (file'[v] = m /\ m \in cdevs)
    BY <1>1 DEF IInv, TypeOK
  <2> QED BY <1>1, <2>1 DEF IInv, FilesKept, Wild, bus, mod, objects, At
<1>6. NothingLeft' /\ AttachedOnce'
  BY <1>1 DEF IInv, NothingLeft, Registered, AttachedOnce, NothingCallable, bus, mod, objects, Here, At, Attaches
<1> QED BY <1>2, <1>3, <1>4, <1>5, <1>6 DEF IInv

(* The module is loaded only when it is out, and nothing is left then.     *)
LEMMA InsertStep ==
  ASSUME IInv, Insert
  PROVE  IInv'
<1>1. /\ bus' = bus /\ regs' = regs /\ ports' = ports /\ nodes' = nodes /\ cdevs' = cdevs /\ card' = card
      /\ list' = list /\ file' = file /\ minor' = 0 /\ found' = 0 /\ errno' = 0
      /\ status = "out" /\ status' = "loading" /\ loads < MaxLoads /\ loads' = loads + 1 /\ Settled
      /\ regs = {} /\ \A u \in User : file[u] = Closed
      /\ job' = [job EXCEPT !["loader"].at = "class"]
  BY DEF Insert, Goto, Dangling
<1>2. /\ job["loader"].at = "rest" /\ job["pci"].at = "rest"
      /\ job'["loader"].at = "class" /\ job'["pci"].at = "rest" /\ job' \in [Thread -> JobRecord]
      /\ job'["loader"].todo = job["loader"].todo
  <2>1. job["loader"].at = "rest" /\ job["pci"].at = "rest"
    BY <1>1 DEF Settled, At, Thread
  <2>2. job \in [Thread -> JobRecord] /\ "class" \in Stage
    BY DEF IInv, TypeOK, Stage, Step
  <2>3. job["loader"] \in JobRecord /\ "loader" \in Thread /\ "pci" \in Thread
    BY <2>2 DEF Thread
  <2>4. [job["loader"] EXCEPT !.at = "class"] \in JobRecord
    BY <2>2, <2>3 DEF JobRecord
  <2>5. job' = [job EXCEPT !["loader"] = [job["loader"] EXCEPT !.at = "class"]]
    BY <1>1
  <2>6. job' \in [Thread -> JobRecord]
    BY <2>2, <2>3, <2>4, <2>5
  <2>7. job'["pci"] = job["pci"] /\ job'["loader"] = [job["loader"] EXCEPT !.at = "class"]
    BY <2>2, <2>3, <2>5
  <2>8. job'["loader"].at = "class" /\ job'["loader"].todo = job["loader"].todo
    BY <2>3, <2>7 DEF JobRecord
  <2> QED BY <2>1, <2>6, <2>7, <2>8
<1>3. cdevs = {} /\ list = << >> /\ bound = {} /\ regs = {}
  BY <1>1 DEF IInv, NothingLeft, NothingCallable
<1>4. TypeOK'
  BY <1>1, <1>2, NumberAssumption DEF IInv, TypeOK, bus, Here
<1>5. OneThread'
  BY <1>1, <1>2 DEF OneThread, At, Attaches, AttachStage, Filling, Registering
<1>51. DevicesThere'
  <2>1. \A t \in Thread : ~Attaches(t)' /\ (At(t, "rest")' => job'[t] = Rest)
    BY <1>1, <1>2 DEF IInv, TypeOK, DevicesThere, At, Attaches, AttachStage, Filling, Thread
  <2>2. job["loader"].todo = {}
    BY <1>2 DEF IInv, DevicesThere, At, Thread, Rest
  <2> QED BY <1>1, <1>2, <1>3, <2>1, <2>2 DEF DevicesThere, At, ToSet
<1>6. CardsApart' /\ PortsKnown'
  <2>1. \A t \in Thread : ~OwnsCard(t) /\ ~OwnsCard(t)' /\ ~OwnsPort(t)'
    BY <1>2 DEF OwnsCard, Filling, OwnsPort, Thread
  <2> QED BY <1>1, <2>1, CardsKept
<1>7. FilesKept'
  BY <1>1, <1>2, <1>3 DEF FilesKept, At, Closed
<1>8. NothingLeft'
  BY <1>1, <1>2, <1>3 DEF NothingLeft, Registered, NothingCallable, bus, At, Attaches, AttachStage, Filling, Registering
<1>9. AttachedOnce'
  BY <1>1, <1>2, <1>3 DEF IInv, TypeOK, AttachedOnce, bus, Here, ToSet
<1> QED BY <1>4, <1>5, <1>51, <1>6, <1>7, <1>8, <1>9 DEF IInv

(* What is known of cards, ports and files stays true while no thread has  *)
(* a card at hand.                                                         *)
LEMMA NobodyAtWork ==
  ASSUME IInv, UNCHANGED <<minor, card, list, ports, nodes, cdevs, file>>,
         \A t \in Thread : ~OwnsCard(t) /\ ~OwnsCard(t)',
         status' = status \/ status' \in {"in", "out"} \/ \A u \in User : file[u] = Closed
  PROVE  CardsApart' /\ PortsKnown' /\ FilesKept'
<1>1. \A t \in Thread : ~OwnsPort(t)' /\ job'[t].at # "delete"
  BY DEF OwnsCard, OwnsPort, Filling
<1>2. CardsApart' /\ PortsKnown'
  BY <1>1, CardsKept
<1>3. job'["pci"].at # "delete" /\ minor \in Nat
  BY <1>1 DEF Thread, IInv, TypeOK
<1> QED BY <1>2, <1>3, FilesKeptOpen

(* serialfc_init gives up before anything is registered that would stay.   *)
LEMMA UndoStep ==
  ASSUME IInv, NEW error \in {ENODEV, EOther}, Undo(error),
         job["loader"].at \in Registering \cup {"loop"},
         cdevs = {}, list = << >>, bound' = {},
         UNCHANGED <<place, objects, list, loads, found, file>>
  PROVE  IInv'
<1>1. /\ status' = "out" /\ errno' = error /\ regs' = {} /\ job' = [job EXCEPT !["loader"] = Rest]
      /\ UNCHANGED <<place, minor, ports, nodes, cdevs, card, list, loads, found, file>>
  BY DEF Undo, objects
<1>2. job["pci"].at = "rest" /\ status = "loading"
  BY DEF IInv, OneThread, At, Registering
<1>3. job'["loader"] = Rest /\ job'["pci"] = job["pci"] /\ job' \in [Thread -> JobRecord]
  BY <1>1, NumberAssumption DEF IInv, TypeOK, Thread, JobRecord, Stage, Step, Rest
<1>4. \A t \in Thread : job'[t].at = "rest" /\ (job'[t] = Rest)
  BY <1>2, <1>3 DEF IInv, DevicesThere, At, Thread, Rest
<1>5. TypeOK'
  BY <1>1, <1>3 DEF IInv, TypeOK, Here, ENODEV, EOther
<1>6. OneThread' /\ DevicesThere'
  BY <1>1, <1>4 DEF OneThread, DevicesThere, At, Attaches, AttachStage, Filling, Registering, Thread
<1>7. CardsApart' /\ PortsKnown' /\ FilesKept'
  <2>1. \A t \in Thread : ~OwnsCard(t) /\ ~OwnsCard(t)'
    BY <1>2, <1>4 DEF OwnsCard, Filling, Thread, Registering
  <2> QED BY <1>1, <1>2, <2>1, NobodyAtWork
<1>8. NothingLeft'
  BY <1>1, <1>4 DEF NothingLeft, NothingCallable, At, Attaches, AttachStage, Filling, Registering, Thread,
                    EIO, ENODEV, EOther
<1>9. AttachedOnce'
  BY <1>1, <1>2, <1>4 DEF IInv, TypeOK, AttachedOnce, ToSet, Thread
<1> QED BY <1>5, <1>6, <1>7, <1>8, <1>9 DEF IInv

(* The steps of serialfc_init before it looks for cards.                   *)
LEMMA RegisterStep ==
  ASSUME IInv,
         NEW step, NEW next, <<step, next>> \in {<<"class", "chrdev">>, <<"chrdev", "driver">>, <<"driver", "probe">>},
         Register(step, next)
  PROVE  IInv'
<1>1. job["loader"].at = step /\ step \in Registering /\ next \in Registering \cup {"probe"}
  BY DEF Register, At, Registering
<1>2. /\ cdevs = {} /\ bound = {} /\ list = << >> /\ status = "loading" /\ job["pci"].at = "rest"
      /\ job["loader"] \in JobRecord
  BY <1>1 DEF IInv, NothingLeft, OneThread, At, TypeOK, Thread, Registering
<1>3. CASE Undo(EOther)
  <2>1. bound' = {} /\ UNCHANGED <<place, objects, list, loads, found, file>>
    BY <1>2 DEF Register, bus
  <2> QED BY <1>1, <1>2, <1>3, <2>1, UndoStep
<1>4. ASSUME regs' = regs \cup {step},
             job' = [job EXCEPT !["loader"].at = next, !["loader"].todo = Here \ Foreign],
             UNCHANGED <<status, errno>>
      PROVE  IInv'
  <2>1. UNCHANGED <<place, bound, status, errno, minor, ports, nodes, cdevs, card, list, loads, found, file>>
    BY <1>4 DEF Register, bus, objects
  <2>2. /\ job'["loader"] = [job["loader"] EXCEPT !.at = next, !.todo = Here \ Foreign]
        /\ job'["pci"] = job["pci"] /\ DOMAIN job' = DOMAIN job
    BY <1>4 DEF IInv, TypeOK, Thread
  <2>3. /\ job'["loader"].at = next /\ job'["loader"].todo = Here \ Foreign
        /\ job' \in [Thread -> JobRecord]
    BY <1>1, <1>2, <1>4, <2>2 DEF IInv, TypeOK, Thread, JobRecord, Stage, Step, Registering, Here
  <2>4. TypeOK'
    BY <1>1, <1>4, <2>1, <2>3 DEF IInv, TypeOK, Here, Registering
  <2>5. OneThread'
    BY <1>1, <1>2, <2>1, <2>2, <2>3 DEF OneThread, At, Registering, Attaches, AttachStage, Filling
  <2>6. DevicesThere'
    <3>1. \A t \in Thread : ~Attaches(t)' /\ (At(t, "rest")' => job'[t] = Rest)
      BY <1>1, <1>2, <2>2, <2>3 DEF IInv, DevicesThere, At, Attaches, AttachStage, Filling, Thread, Registering
    <3> QED BY <1>2, <2>1, <2>3, <3>1 DEF DevicesThere, At, ToSet, Here
  <2>7. CardsApart' /\ PortsKnown' /\ FilesKept'
    <3>1. \A t \in Thread : ~OwnsCard(t) /\ ~OwnsCard(t)'
      BY <1>1, <1>2, <2>2, <2>3 DEF OwnsCard, Filling, Thread, Registering
    <3> QED BY <2>1, <3>1, NobodyAtWork
  <2>8. NothingLeft'
    <3>1. regs' = Registered'
      BY <1>1, <1>2, <1>4, <2>3 DEF IInv, NothingLeft, Registered, At, Registering
    <3> QED BY <1>1, <1>2, <2>1, <2>3, <3>1 DEF IInv, NothingLeft, NothingCallable, At, Attaches, AttachStage, Filling,
                                               Registering, Here
  <2>9. AttachedOnce'
    BY <1>1, <1>2, <2>1, <2>2 DEF IInv, AttachedOnce, ToSet
  <2> QED BY <2>4, <2>5, <2>6, <2>7, <2>8, <2>9 DEF IInv
<1> QED BY <1>3, <1>4 DEF Register

(* What a thread does first with a device.                                 *)
LEMMA AttachingJob ==
  ASSUME TypeOK, NEW t \in Thread, NEW d \in Device, NEW by \in {"probe", "loop"}, NEW todo \in SUBSET Device,
         Attaching(t, d, by, todo)
  PROVE  /\ job' \in [Thread -> JobRecord]
         /\ job'[t].at = "enable" /\ job'[t].dev = d /\ job'[t].by = by /\ job'[t].channel = 0
         /\ job'[t].todo = todo
         /\ \A s \in Thread \ {t} : job'[s] = job[s]
<1> DEFINE record == [Rest EXCEPT !.at = "enable", !.dev = d, !.by = by, !.todo = todo]
<1>1. Rest \in JobRecord
  BY NumberAssumption DEF Rest, JobRecord, Stage, Step
<1>2. record \in JobRecord
  BY <1>1 DEF JobRecord, Stage, Step
<1>3. record.at = "enable" /\ record.dev = d /\ record.by = by /\ record.channel = 0 /\ record.todo = todo
  BY DEF Rest
<1>4. job' = [job EXCEPT ![t] = record]
  BY DEF Attaching
<1> HIDE DEF record
<1> QED BY <1>2, <1>3, <1>4 DEF TypeOK

(* pci_register_driver and the loop of serialfc_init, at the next device.  *)
LEMMA VisitStep ==
  ASSUME IInv, NEW by \in {"probe", "loop"}, job["loader"].at = by,
         NEW d \in job["loader"].todo, Attaching("loader", d, by, job["loader"].todo \ {d}),
         IF by = "loop" THEN found' = found + 1 ELSE found' = found,
         UNCHANGED <<bus, status, errno, loads, regs, objects, list, file>>
  PROVE  IInv'
<1> DEFINE todo == job["loader"].todo
<1>1. /\ status = "loading" /\ job["pci"].at = "rest" /\ todo \subseteq Here /\ d \in Here
      /\ by = "probe" => todo \cap Foreign = {} /\ found = 0
  BY DEF IInv, OneThread, DevicesThere, NothingLeft, At, Registering
<1>2. todo \in SUBSET Device /\ d \in Device /\ "loader" \in Thread /\ "pci" \in Thread /\ found \in Nat
  BY <1>1 DEF Here, Thread, IInv, TypeOK
<1>3. /\ job' \in [Thread -> JobRecord]
      /\ job'["loader"].at = "enable" /\ job'["loader"].dev = d /\ job'["loader"].by = by
      /\ job'["loader"].channel = 0 /\ job'["loader"].todo = todo \ {d}
      /\ job'["pci"] = job["pci"]
  BY <1>2, AttachingJob DEF IInv, Thread
<1>4. UNCHANGED <<place, bound, status, errno, minor, ports, nodes, cdevs, card, list, loads, regs, file>>
  BY DEF bus, objects
<1>5. TypeOK'
  BY <1>2, <1>3, <1>4 DEF IInv, TypeOK, Here
<1>6. OneThread'
  BY <1>1, <1>3, <1>4 DEF OneThread, At, Attaches, AttachStage, Registering, Filling
<1>7. DevicesThere'
  <2>1. \A t \in Thread : (At(t, "rest")' => job'[t] = Rest) /\ (Attaches(t)' => t = "loader")
    BY <1>1, <1>3 DEF IInv, DevicesThere, At, Attaches, AttachStage, Filling, Thread
  <2> QED BY <1>1, <1>3, <1>4, <2>1, NumberAssumption DEF IInv, DevicesThere, At, ToSet, Here
<1>8. CardsApart' /\ PortsKnown' /\ FilesKept'
  <2>1. \A t \in Thread : ~OwnsCard(t) /\ ~OwnsCard(t)'
    BY <1>1, <1>3 DEF OwnsCard, Filling, Thread
  <2> QED BY <1>4, <2>1, NobodyAtWork
<1>9. NothingLeft'
  BY <1>1, <1>2, <1>3, <1>4 DEF IInv, NothingLeft, Registered, NothingCallable, At, Attaches, AttachStage, Filling, Registering, Here
<1>10. AttachedOnce'
  BY <1>3, <1>4 DEF IInv, AttachedOnce, ToSet
<1> QED BY <1>5, <1>6, <1>7, <1>8, <1>9, <1>10 DEF IInv

(* pci_register_driver goes to the next free device, or is done.           *)
LEMMA ProbeNextStep ==
  ASSUME IInv, ProbeNext
  PROVE  IInv'
<1> DEFINE todo == job["loader"].todo
<1>1. job["loader"].at = "probe" /\ UNCHANGED <<bus, mod, objects, list, file>>
  BY DEF ProbeNext, At
<1>2. CASE todo # {}
  <2>1. PICK d \in todo : Attaching("loader", d, "probe", todo \ {d})
    BY <1>2 DEF ProbeNext, First
  <2>2. found' = found /\ UNCHANGED <<bus, status, errno, loads, regs, objects, list, file>>
    BY <1>1 DEF mod
  <2> QED BY <1>1, <2>1, <2>2, VisitStep
<1>3. CASE todo = {}
  <2>1. job' = [job EXCEPT !["loader"].at = "loop", !["loader"].todo = Here]
    BY <1>3 DEF ProbeNext
  <2>2. /\ status = "loading" /\ job["pci"].at = "rest" /\ found = 0 /\ job["loader"] \in JobRecord
    BY <1>1 DEF IInv, OneThread, NothingLeft, At, Registering, TypeOK, Thread
  <2>3. /\ job'["loader"] = [job["loader"] EXCEPT !.at = "loop", !.todo = Here]
        /\ job'["pci"] = job["pci"] /\ DOMAIN job' = DOMAIN job
    BY <2>1 DEF IInv, TypeOK, Thread
  <2>4. /\ job'["loader"].at = "loop" /\ job'["loader"].todo = Here /\ job' \in [Thread -> JobRecord]
    BY <2>1, <2>2, <2>3 DEF IInv, TypeOK, Thread, JobRecord, Stage, Step, Here
  <2>5. UNCHANGED <<place, bound, status, errno, minor, ports, nodes, cdevs, card, list, loads, regs, found, file>>
    BY <1>1 DEF bus, objects, mod
  <2>6. TypeOK'
    BY <2>4, <2>5 DEF IInv, TypeOK, Here
  <2>7. OneThread'
    BY <2>2, <2>3, <2>4, <2>5 DEF OneThread, At, Attaches, AttachStage, Registering, Filling
  <2>8. DevicesThere'
    <3>1. \A t \in Thread : ~Attaches(t)' /\ (At(t, "rest")' => job'[t] = Rest)
      BY <2>2, <2>3, <2>4 DEF IInv, DevicesThere, At, Attaches, AttachStage, Filling, Thread
    <3> QED BY <2>2, <2>4, <2>5, <3>1 DEF IInv, DevicesThere, At, ToSet, Here, Thread
  <2>9. CardsApart' /\ PortsKnown' /\ FilesKept'
    <3>1. \A t \in Thread : ~OwnsCard(t) /\ ~OwnsCard(t)'
      BY <1>1, <2>2, <2>3, <2>4 DEF OwnsCard, Filling, Thread
    <3> QED BY <2>5, <3>1, NobodyAtWork
  <2>10. NothingLeft'
    BY <1>1, <2>2, <2>4, <2>5 DEF IInv, NothingLeft, Registered, NothingCallable, At, Attaches, AttachStage, Filling, Registering, Here
  <2>11. AttachedOnce'
    BY <2>3, <2>5 DEF IInv, AttachedOnce, ToSet
  <2> QED BY <2>6, <2>7, <2>8, <2>9, <2>10, <2>11 DEF IInv
<1> QED BY <1>2, <1>3

(* When no device was found there is none, and no card was attached.       *)
LEMMA NoneFound ==
  ASSUME IInv, job["loader"].at = "loop", job["loader"].todo = {}, found = 0
  PROVE  Here = {} /\ list = << >> /\ cdevs = {} /\ job["pci"].at = "rest"
<1>1. status = "loading" /\ job["pci"].at = "rest" /\ Here = {}
  BY DEF IInv, OneThread, NothingLeft, At, Registering
<1>2. ToSet(list) = {}
  BY <1>1 DEF IInv, DevicesThere
<1>3. list \in Seq(DOMAIN card) /\ DOMAIN list = 1..Len(list) /\ Len(list) \in Nat
  BY ElementsOf DEF IInv, TypeOK
<1>4. list = << >>
  <2>1. Len(list) > 0 => list[1] \in ToSet(list)
    BY <1>3 DEF ToSet
  <2> QED BY <1>2, <1>3, <2>1, EmptySeq
<1>5. \A t \in Thread : ~OwnsCard(t)
  BY <1>1 DEF OwnsCard, Filling, Thread
<1>6. cdevs = {}
  BY <1>2, <1>5 DEF IInv, PortsKnown, Live
<1> QED BY <1>1, <1>4, <1>6

(* The loop of serialfc_init goes to the next device, or is done.          *)
LEMMA LoopNextStep ==
  ASSUME IInv, LoopNext
  PROVE  IInv'
<1> DEFINE todo == job["loader"].todo
<1>1. job["loader"].at = "loop" /\ UNCHANGED <<objects, list, file>>
  BY DEF LoopNext, At
<1>2. CASE todo # {}
  <2>1. PICK d \in todo : Attaching("loader", d, "loop", todo \ {d})
    BY <1>2 DEF LoopNext, First
  <2>2. found' = found + 1 /\ UNCHANGED <<bus, status, errno, loads, regs, objects, list, file>>
    BY <1>1, <1>2 DEF LoopNext
  <2> QED BY <1>1, <2>1, <2>2, VisitStep
<1>3. CASE todo = {} /\ found = 0
  <2>1. Undo(ENODEV) /\ bound' = {} /\ UNCHANGED <<place, objects, list, loads, found, file>>
    BY <1>1, <1>3 DEF LoopNext
  <2>2. list = << >> /\ cdevs = {}
    BY <1>1, <1>3, NoneFound
  <2> QED BY <1>1, <2>1, <2>2, UndoStep
<1>4. CASE todo = {} /\ found # 0
  <2>1. /\ status' = "in" /\ job' = [job EXCEPT !["loader"] = Rest]
        /\ UNCHANGED <<bus, errno, loads, regs, found>>
    BY <1>4 DEF LoopNext
  <2>2. status = "loading" /\ job["pci"].at = "rest"
    BY <1>1 DEF IInv, OneThread, At, Registering
  <2>3. job'["loader"] = Rest /\ job'["pci"] = job["pci"] /\ job' \in [Thread -> JobRecord]
    BY <2>1, NumberAssumption DEF IInv, TypeOK, Thread, JobRecord, Stage, Step, Rest
  <2>4. \A t \in Thread : job'[t].at = "rest" /\ job'[t] = Rest
    BY <2>2, <2>3 DEF IInv, DevicesThere, At, Thread, Rest
  <2>5. UNCHANGED <<place, bound, errno, minor, ports, nodes, cdevs, card, list, loads, regs, found, file>>
    BY <1>1, <2>1 DEF bus, objects
  <2>6. TypeOK'
    BY <2>1, <2>3, <2>5 DEF IInv, TypeOK, Here
  <2>7. OneThread' /\ DevicesThere'
    BY <2>1, <2>4 DEF OneThread, DevicesThere, At, Attaches, AttachStage, Filling, Registering, Thread
  <2>8. CardsApart' /\ PortsKnown' /\ FilesKept'
    <3>1. \A t \in Thread : ~OwnsCard(t) /\ ~OwnsCard(t)'
      BY <1>1, <2>2, <2>4 DEF OwnsCard, Filling, Thread
    <3> QED BY <2>1, <2>5, <3>1, NobodyAtWork
  <2>9. NothingLeft'
    BY <2>1, <2>2, <2>4 DEF IInv, NothingLeft, NothingCallable, Registering, Thread
  <2>10. AttachedOnce'
    BY <2>1, <2>2, <2>4, <2>5 DEF IInv, AttachedOnce, ToSet, Thread
  <2> QED BY <2>6, <2>7, <2>8, <2>9, <2>10 DEF IInv
<1> QED BY <1>2, <1>3, <1>4

(* serialfc_exit begins with no file open and nobody at work.              *)
LEMMA UnloadStep ==
  ASSUME IInv, Orderly, Unload
  PROVE  IInv'
<1>1. /\ status = "in" /\ Settled /\ status' = "unloading" /\ \A u \in User : file[u] = Closed
      /\ job' = [job EXCEPT !["loader"].at = "exit"]
      /\ UNCHANGED <<place, bound, errno, loads, regs, found, minor, ports, nodes, cdevs, card, list, file>>
  BY DEF Unload, Goto, bus, objects
<1>2. /\ job["loader"].at = "rest" /\ job["pci"].at = "rest" /\ job'["loader"].at = "exit"
      /\ job'["pci"] = job["pci"] /\ job' \in [Thread -> JobRecord]
  <2>1. job \in [Thread -> JobRecord] /\ job["loader"].at = "rest" /\ job["pci"].at = "rest"
    BY <1>1 DEF IInv, TypeOK, Settled, At, Thread
  <2>2. job'["loader"] = [job["loader"] EXCEPT !.at = "exit"] /\ job'["pci"] = job["pci"]
    BY <1>1, <2>1 DEF Thread
  <2>3. job'["loader"] \in JobRecord /\ job'["loader"].at = "exit"
    BY <2>1, <2>2 DEF JobRecord, Stage, Step, Thread
  <2> QED BY <1>1, <2>1, <2>2, <2>3 DEF Thread
<1>3. TypeOK'
  BY <1>1, <1>2 DEF IInv, TypeOK, Here
<1>4. OneThread'
  BY <1>1, <1>2 DEF OneThread, At, Attaches, AttachStage, Filling, Registering
<1>5. DevicesThere'
  BY <1>1, <1>2 DEF IInv, DevicesThere, At, Attaches, AttachStage, Filling, Thread
<1>6. CardsApart' /\ PortsKnown' /\ FilesKept'
  <2>1. \A t \in Thread : ~OwnsCard(t) /\ ~OwnsCard(t)'
    BY <1>2 DEF OwnsCard, Filling, Thread
  <2> QED BY <1>1, <2>1, NobodyAtWork
<1>7. NothingLeft'
  BY <1>1, <1>2 DEF IInv, NothingLeft, NothingCallable, Registering
<1>8. AttachedOnce'
  BY <1>1, <1>2 DEF IInv, AttachedOnce, ToSet
<1> QED BY <1>3, <1>4, <1>5, <1>6, <1>7, <1>8 DEF IInv

(* Taking one element out of a list without repetitions.                   *)
LEMMA Removed ==
  ASSUME NEW S, NEW s \in Seq(S), NEW i \in DOMAIN s,
         \A m, n \in DOMAIN s : s[m] = s[n] => m = n
  PROVE  /\ RemoveAt(s, i) \in Seq(S)
         /\ ToSet(RemoveAt(s, i)) = ToSet(s) \ {s[i]}
         /\ \A m, n \in DOMAIN RemoveAt(s, i) : RemoveAt(s, i)[m] = RemoveAt(s, i)[n] => m = n
<1> DEFINE r == RemoveAt(s, i)
<1>1. Len(s) \in Nat /\ DOMAIN s = 1..Len(s) /\ i \in 1..Len(s)
  BY ElementsOf
<1>2. /\ SubSeq(s, 1, i - 1) \in Seq(S) /\ Len(SubSeq(s, 1, i - 1)) = i - 1
      /\ SubSeq(s, i + 1, Len(s)) \in Seq(S) /\ Len(SubSeq(s, i + 1, Len(s))) = Len(s) - i
      /\ \A k \in 1..i-1 : SubSeq(s, 1, i - 1)[k] = s[k]
      /\ \A k \in 1..Len(s)-i : SubSeq(s, i + 1, Len(s))[k] = s[k + i]
  BY <1>1, SubSeqProperties, SMTT(30)
<1>3. /\ r \in Seq(S) /\ Len(r) = Len(s) - 1 /\ DOMAIN r = 1..Len(s)-1
      /\ \A k \in 1..Len(s)-1 : r[k] = IF k < i THEN s[k] ELSE s[k + 1]
  <2> DEFINE a == SubSeq(s, 1, i - 1)
             b == SubSeq(s, i + 1, Len(s))
  <2>1. r = a \o b
    BY DEF RemoveAt
  <2>2. a \in Seq(S) /\ b \in Seq(S) /\ Len(a) = i - 1 /\ Len(b) = Len(s) - i
    BY <1>2
  <2>3. \A k \in 1..i-1 : a[k] = s[k]
    BY <1>2
  <2>4. \A k \in 1..Len(s)-i : b[k] = s[k + i]
    BY <1>2
  <2> HIDE DEF r, a, b
  <2>5. /\ r \in Seq(S) /\ Len(r) = Len(a) + Len(b)
        /\ \A k \in 1..Len(a) + Len(b) : r[k] = IF k <= Len(a) THEN a[k] ELSE b[k - Len(a)]
    BY <2>1, <2>2, ConcatProperties, SMTT(30)
  <2>6. Len(r) = Len(s) - 1 /\ DOMAIN r = 1..Len(s)-1
    BY <1>1, <2>2, <2>5
  <2>7. ASSUME NEW k \in 1..Len(s)-1 PROVE r[k] = IF k < i THEN s[k] ELSE s[k + 1]
    <3>1. CASE k < i
      BY <1>1, <2>2, <2>3, <2>5, <3>1
    <3>2. CASE k >= i
      <4>1. r[k] = b[k - (i - 1)] /\ k - (i - 1) \in 1..Len(s)-i
        BY <1>1, <2>2, <2>5, <3>2, SMTT(30)
      <4>2. b[k - (i - 1)] = s[k - (i - 1) + i] /\ k - (i - 1) + i = k + 1
        BY <1>1, <2>4, <4>1
      <4> QED BY <1>1, <3>2, <4>1, <4>2
    <3> QED BY <1>1, <3>1, <3>2
  <2> QED BY <2>5, <2>6, <2>7
<1> HIDE DEF r
<1>4. ToSet(r) \subseteq ToSet(s) \ {s[i]}
  BY <1>1, <1>3 DEF ToSet
<1>5. ASSUME NEW x \in ToSet(s) \ {s[i]} PROVE x \in ToSet(r)
  <2>1. PICK k \in 1..Len(s) : x = s[k]
    BY <1>1 DEF ToSet
  <2>2. k # i
    BY <2>1
  <2>3. CASE k < i
    BY <1>1, <1>3, <2>1, <2>3 DEF ToSet
  <2>4. CASE k > i
    <3>1. k - 1 \in 1..Len(s)-1 /\ r[k - 1] = s[k]
      BY <1>1, <1>3, <2>1, <2>4
    <3> QED BY <1>3, <2>1, <3>1 DEF ToSet
  <2> QED BY <1>1, <2>2, <2>3, <2>4
<1>6. ASSUME NEW m \in DOMAIN r, NEW n \in DOMAIN r, r[m] = r[n] PROVE m = n
  <2> DEFINE at(k) == IF k < i THEN k ELSE k + 1
  <2>1. at(m) \in DOMAIN s /\ at(n) \in DOMAIN s /\ r[m] = s[at(m)] /\ r[n] = s[at(n)]
    BY <1>1, <1>3
  <2>2. at(m) = at(n)
    BY <1>6, <2>1
  <2> QED BY <1>1, <1>3, <2>2
<1> QED BY <1>3, <1>4, <1>5, <1>6 DEF r

(* A sequence without its head has the head's element no more.             *)
LEMMA HeadTaken ==
  ASSUME NEW S, NEW s \in Seq(S), s # << >>,
         \A m, n \in DOMAIN s : s[m] = s[n] => m = n
  PROVE  /\ Tail(s) \in Seq(S) /\ Head(s) = s[1] /\ 1 \in DOMAIN s
         /\ ToSet(Tail(s)) = ToSet(s) \ {s[1]}
         /\ \A m, n \in DOMAIN Tail(s) : Tail(s)[m] = Tail(s)[n] => m = n
<1> DEFINE r == Tail(s)
<1>1. Len(s) \in Nat \ {0} /\ DOMAIN s = 1..Len(s)
  BY ElementsOf, EmptySeq
<1>2. r \in Seq(S) /\ Len(r) = Len(s) - 1 /\ DOMAIN r = 1..Len(s)-1 /\ \A k \in 1..Len(s)-1 : r[k] = s[k + 1]
  BY <1>1, HeadTailProperties
<1>3. Head(s) = s[1]
  OBVIOUS
<1> HIDE DEF r
<1>4. ToSet(r) \subseteq ToSet(s) \ {s[1]}
  BY <1>1, <1>2 DEF ToSet
<1>5. ASSUME NEW x \in ToSet(s) \ {s[1]} PROVE x \in ToSet(r)
  <2>1. PICK k \in 1..Len(s) : x = s[k] /\ k # 1
    BY <1>1 DEF ToSet
  <2>2. k - 1 \in 1..Len(s)-1 /\ r[k - 1] = s[k]
    BY <1>1, <1>2, <2>1
  <2> QED BY <1>2, <2>1, <2>2 DEF ToSet
<1>6. ASSUME NEW m \in DOMAIN r, NEW n \in DOMAIN r, r[m] = r[n] PROVE m = n
  <2>1. m + 1 \in DOMAIN s /\ n + 1 \in DOMAIN s /\ r[m] = s[m + 1] /\ r[n] = s[n + 1] /\ m \in Nat /\ n \in Nat
    BY <1>1, <1>2
  <2>2. m + 1 = n + 1
    BY <1>6, <2>1
  <2> QED BY <2>1, <2>2
<1> QED BY <1>1, <1>2, <1>3, <1>4, <1>5, <1>6 DEF r

(* A thread takes a card out of the list to delete it: the pci thread one  *)
(* of a device that is gone.                                               *)
LEMMA CardTaken ==
  ASSUME IInv, NEW t \in Thread, NEW i \in DOMAIN list,
         \A s \in Thread : ~OwnsCard(s),
         job'[t].at = "delete", job'[t].card = list[i], \A s \in Thread \ {t} : job'[s] = job[s],
         ToSet(list') = ToSet(list) \ {list[i]},
         \A m, n \in DOMAIN list' : list'[m] = list'[n] => m = n,
         UNCHANGED <<minor, card, ports, nodes, cdevs, file, status>>,
         t = "pci" => place'[card[list[i]].dev] = "gone"
  PROVE  CardsApart' /\ PortsKnown' /\ FilesKept'
<1>1. \A s \in Thread : /\ OwnsCard(s)' <=> s = t
                        /\ ~OwnsPort(s)'
                        /\ job'[s].at \notin {"uarts", "map"}
                        /\ OwnsCard(s)' => ~Attaches(s)'
  BY DEF OwnsCard, OwnsPort, Attaches, AttachStage, Filling
<1>2. list[i] \in ToSet(list) /\ list[i] \in DOMAIN card
  <2>1. list \in Seq(DOMAIN card) /\ ToSet(list) \subseteq DOMAIN card
    BY ElementsOf DEF IInv, TypeOK
  <2> QED BY <2>1 DEF ToSet
<1>3. \A j : PortsOf(j)' = PortsOf(j)
  BY DEF PortsOf
<1>4. CardsApart'
  BY <1>1, <1>2, <1>3 DEF IInv, CardsApart
<1>5. Live' = Live
  BY <1>1, <1>2 DEF Live
<1>6. PortsKnown'
  BY <1>1, <1>3, <1>5 DEF IInv, PortsKnown
<1>7. FilesKept'
  <2>1. At("pci", "delete")' => t = "pci"
    BY <1>1 DEF At, OwnsCard, Thread
  <2>2. At("pci", "delete")' => place'[card'[job'["pci"].card].dev] = "gone"
    BY <2>1
  <2> QED BY <2>2 DEF IInv, FilesKept, Closed
<1> QED BY <1>4, <1>6, <1>7

(* The cards a thread works on have ports of their own minors.             *)
LEMMA MinorsOfCard ==
  ASSUME TypeOK, NEW i \in DOMAIN card
  PROVE  PortsOf(i) \subseteq cdevs /\ PortsOf(i) \subseteq Nat
<1>1. card[i].ports \in Seq(cdevs) /\ cdevs \subseteq Nat
  BY DEF TypeOK
<1> QED BY <1>1, ElementsOf DEF PortsOf

(* serialfc_exit takes the next card off the list, or is done.             *)
LEMMA ExitStep ==
  ASSUME IInv, Exit
  PROVE  IInv'
<1>1. /\ job["loader"].at = "exit"
      /\ UNCHANGED <<place, errno, loads, found, minor, ports, nodes, cdevs, card, file>>
  BY DEF Exit, At, objects
<1>2. /\ status = "unloading" /\ job["pci"].at = "rest" /\ \A u \in User : file[u] = Closed
      /\ list \in Seq(DOMAIN card) /\ job["loader"] \in JobRecord
  BY <1>1 DEF IInv, OneThread, FilesKept, At, TypeOK, Thread
<1>3. \A t \in Thread : ~OwnsCard(t)
  BY <1>1, <1>2 DEF OwnsCard, Filling, Thread
<1>4. CASE list # << >>
  <2>1. /\ job' = [job EXCEPT !["loader"].at = "delete", !["loader"].card = Head(list)]
        /\ list' = Tail(list) /\ UNCHANGED <<bound, status, regs>>
    BY <1>4 DEF Exit
  <2>2. /\ list' \in Seq(DOMAIN card) /\ Head(list) = list[1] /\ 1 \in DOMAIN list
        /\ ToSet(list') = ToSet(list) \ {list[1]}
        /\ \A m, n \in DOMAIN list' : list'[m] = list'[n] => m = n
    BY <1>2, <1>4, <2>1, HeadTaken DEF IInv, CardsApart
  <2>3. list[1] \in DOMAIN card /\ list[1] \in Nat
    <3>1. ToSet(list) \subseteq DOMAIN card
      BY <1>2, ElementsOf
    <3> QED BY <2>2, <3>1 DEF ToSet, IInv, TypeOK
  <2>4. /\ job'["loader"] = [job["loader"] EXCEPT !.at = "delete", !.card = list[1]]
        /\ job'["pci"] = job["pci"] /\ DOMAIN job' = DOMAIN job
    BY <2>1, <2>2 DEF IInv, TypeOK, Thread
  <2>5. /\ job'["loader"].at = "delete" /\ job'["loader"].card = list[1] /\ job' \in [Thread -> JobRecord]
    BY <1>2, <2>1, <2>3, <2>4 DEF IInv, TypeOK, Thread, JobRecord, Stage, Step
  <2>6. TypeOK'
    BY <1>1, <2>1, <2>2, <2>5 DEF IInv, TypeOK, Here
  <2>7. OneThread'
    BY <1>2, <2>1, <2>4, <2>5 DEF OneThread, At, Attaches, AttachStage, Filling, Registering
  <2>8. DevicesThere'
    BY <1>2, <2>1, <2>4, <2>5 DEF IInv, DevicesThere, At, Attaches, AttachStage, Filling, Thread
  <2>9. CardsApart' /\ PortsKnown' /\ FilesKept'
    <3>3. \A s \in Thread \ {"loader"} : job'[s] = job[s]
      BY <2>4 DEF Thread
    <3> QED BY <1>1, <1>3, <2>1, <2>2, <2>5, <3>3, CardTaken DEF Thread
  <2>10. NothingLeft'
    BY <1>1, <1>2, <2>1, <2>5 DEF IInv, NothingLeft, NothingCallable, Registering
  <2>11. AttachedOnce'
    BY <1>1, <1>2, <2>1, <2>2, <2>4 DEF IInv, AttachedOnce
  <2> QED BY <2>6, <2>7, <2>8, <2>9, <2>10, <2>11 DEF IInv
<1>5. CASE list = << >>
  <2>1. /\ job' = [job EXCEPT !["loader"] = Rest] /\ list' = list
        /\ bound' = {} /\ status' = "out" /\ regs' = {}
    BY <1>5 DEF Exit
  <2>2. job'["loader"] = Rest /\ job'["pci"] = job["pci"] /\ job' \in [Thread -> JobRecord]
    BY <2>1, NumberAssumption DEF IInv, TypeOK, Thread, JobRecord, Stage, Step, Rest
  <2>3. \A t \in Thread : job'[t].at = "rest" /\ job'[t] = Rest
    BY <1>2, <2>2 DEF IInv, DevicesThere, At, Thread, Rest
  <2>4. TypeOK'
    BY <1>1, <2>1, <2>2 DEF IInv, TypeOK, Here
  <2>5. OneThread' /\ DevicesThere'
    BY <2>1, <2>3 DEF OneThread, DevicesThere, At, Attaches, AttachStage, Filling, Registering, Thread
  <2>6. CardsApart' /\ PortsKnown' /\ FilesKept'
    <3>1. \A t \in Thread : ~OwnsCard(t)'
      BY <2>3 DEF OwnsCard, Filling
    <3> QED BY <1>1, <1>2, <1>3, <2>1, <3>1, NobodyAtWork
  <2>7. cdevs = {}
    <3>1. ToSet(list) = {}
      BY <1>5 DEF ToSet
    <3> QED BY <1>3, <3>1 DEF IInv, PortsKnown, Live
  <2>8. NothingLeft'
    BY <1>1, <1>2, <1>5, <2>1, <2>3, <2>7 DEF IInv, NothingLeft, NothingCallable, Registering, Thread, EIO
  <2>9. AttachedOnce'
    BY <1>1, <1>2, <1>5, <2>1, <2>3 DEF IInv, AttachedOnce, ToSet, Thread
  <2> QED BY <2>4, <2>5, <2>6, <2>8, <2>9 DEF IInv
<1> QED BY <1>4, <1>5

(* A device that comes is attached, unless the module does not know of it. *)
LEMMA PlugStep ==
  ASSUME IInv, Orderly, NEW d \in Device, Plug(d)
  PROVE  IInv'
<1>1. /\ place[d] = "away" /\ status = "in" /\ Settled /\ place' = [place EXCEPT ![d] = "here"]
      /\ UNCHANGED <<bound, status, errno, loads, regs, found, minor, ports, nodes, cdevs, card, list, file>>
  BY DEF Plug, mod, objects
<1>2. job["loader"].at = "rest" /\ job["pci"].at = "rest"
  BY <1>1 DEF Settled, At, Thread
<1>3. place' \in [Device -> {"away", "here", "gone"}] /\ Here' = Here \cup {d} /\ d \notin Here
  BY <1>1 DEF IInv, TypeOK, Here
<1>4. AttachedOnce' <=> (loads \in {0, 1} => \A e \in Device \ AtStart :
        job'["pci"].at \in {"enable", "card"} /\ job'["pci"].dev = e => \A i \in DOMAIN card : card[i].dev # e)
  <2>1. loads # 0
    BY <1>1 DEF IInv, AttachedOnce
  <2>2. \A e \in Device \ {d} : place'[e] = place[e]
    BY <1>1 DEF IInv, TypeOK
  <2>3. place'[d] = "here"
    BY <1>1 DEF IInv, TypeOK
  <2> QED BY <1>1, <1>2, <2>1, <2>2, <2>3 DEF IInv, AttachedOnce
<1>5. CASE "driver" \in regs /\ d \notin Foreign
  <2>1. Attaching("pci", d, "probe", {})
    BY <1>5 DEF Plug
  <2>2. /\ job' \in [Thread -> JobRecord]
        /\ job'["pci"].at = "enable" /\ job'["pci"].dev = d /\ job'["pci"].by = "probe" /\ job'["pci"].channel = 0
        /\ job'["loader"] = job["loader"]
    BY <2>1, AttachingJob DEF IInv, Thread
  <2>3. TypeOK'
    BY <1>1, <1>3, <2>2 DEF IInv, TypeOK
  <2>4. OneThread'
    BY <1>1, <1>2, <2>2 DEF IInv, OneThread, At, Attaches, AttachStage, Filling, Registering
  <2>5. DevicesThere'
    <3>1. \A t \in Thread : (At(t, "rest")' => job'[t] = Rest) /\ (Attaches(t)' => t = "pci")
      BY <1>2, <2>2 DEF IInv, DevicesThere, At, Attaches, AttachStage, Filling, Thread
    <3> QED BY <1>1, <1>3, <1>5, <2>2, <3>1, NumberAssumption DEF DevicesThere
  <2>6. CardsApart' /\ PortsKnown' /\ FilesKept'
    <3>1. \A t \in Thread : ~OwnsCard(t) /\ ~OwnsCard(t)'
      BY <1>2, <2>2 DEF OwnsCard, Filling, Thread
    <3> QED BY <1>1, <3>1, NobodyAtWork
  <2>7. NothingLeft'
    BY <1>1, <1>2, <2>2 DEF IInv, NothingLeft, NothingCallable, Registering
  <2>8. AttachedOnce'
    BY <1>1, <1>4, <2>2 DEF IInv, AttachedOnce
  <2> QED BY <2>3, <2>4, <2>5, <2>6, <2>7, <2>8 DEF IInv
<1>6. CASE ~("driver" \in regs /\ d \notin Foreign)
  <2>1. job' = job
    BY <1>6 DEF Plug
  <2>2. TypeOK'
    BY <1>1, <1>3, <2>1 DEF IInv, TypeOK
  <2>3. OneThread'
    BY <1>1, <2>1 DEF IInv, OneThread, At, Attaches
  <2>4. DevicesThere'
    BY <1>1, <1>3, <2>1 DEF IInv, DevicesThere, At, Attaches
  <2>5. CardsApart' /\ PortsKnown' /\ FilesKept'
    <3>1. \A t \in Thread : ~OwnsCard(t) /\ ~OwnsCard(t)'
      BY <1>2, <2>1 DEF OwnsCard, Filling, Thread
    <3> QED BY <1>1, <3>1, NobodyAtWork
  <2>6. NothingLeft'
    BY <1>1, <1>2, <2>1 DEF IInv, NothingLeft, NothingCallable, Registering
  <2>7. AttachedOnce'
    BY <1>2, <1>4, <2>1
  <2> QED BY <2>2, <2>3, <2>4, <2>5, <2>6, <2>7 DEF IInv
<1> QED BY <1>5, <1>6

(* fc_remove finds a card of the device, if there is one in the list, and  *)
(* none stays behind that was attached once.                               *)
LEMMA UnplugStep ==
  ASSUME IInv, Orderly, NEW d \in Device, Unplug(d)
  PROVE  IInv'
<1>1. /\ place[d] = "here" /\ status \in {"in", "out"} /\ Settled /\ place' = [place EXCEPT ![d] = "gone"]
      /\ bound' = bound \ {d} /\ (status = "out" => regs = {})
      /\ UNCHANGED <<status, errno, loads, regs, found, minor, ports, nodes, cdevs, card, file>>
  BY DEF Unplug, Dangling, mod, objects
<1>2. job["loader"].at = "rest" /\ job["pci"].at = "rest" /\ job["pci"] \in JobRecord
  BY <1>1 DEF Settled, At, Thread, IInv, TypeOK
<1>3. /\ place' \in [Device -> {"away", "here", "gone"}] /\ Here' = Here \ {d}
      /\ \A e \in Device \ {d} : place'[e] = place[e]
      /\ place'[d] = "gone"
  BY <1>1 DEF IInv, TypeOK, Here
<1>4. list \in Seq(DOMAIN card) /\ DOMAIN list = 1..Len(list)
  BY <1>1, ElementsOf DEF IInv, AttachedOnce, TypeOK
<1>41. loads = 0 => d \in AtStart
  BY <1>1 DEF IInv, AttachedOnce
<1>42. status = "out" => errno # EIO /\ cdevs = {} /\ bound = {} /\ list = << >>
  BY <1>1 DEF IInv, NothingLeft, NothingCallable
<1>5. \A t \in Thread : ~OwnsCard(t)
  BY <1>2 DEF OwnsCard, Filling, Thread
<1>6. CASE d \in bound /\ Find(d) # {}
  <2>0. status = "in" /\ loads # 0
    BY <1>1, <1>6, <1>42 DEF IInv, AttachedOnce
  <2>1. PICK i \in Find(d) : /\ list' = RemoveAt(list, i)
                             /\ job' = [job EXCEPT !["pci"].at = "delete", !["pci"].card = list[i]]
    BY <1>6 DEF Unplug, First
  <2>2. i \in DOMAIN list /\ card[list[i]].dev = d
    BY <1>4 DEF Find
  <2>3. /\ list' \in Seq(DOMAIN card) /\ ToSet(list') = ToSet(list) \ {list[i]}
        /\ \A m, n \in DOMAIN list' : list'[m] = list'[n] => m = n
    BY <1>4, <2>1, <2>2, Removed, SMTT(30) DEF IInv, CardsApart
  <2>4. list[i] \in DOMAIN card /\ list[i] \in Nat /\ list[i] \in ToSet(list)
    <3>1. ToSet(list) \subseteq DOMAIN card
      BY <1>4, ElementsOf
    <3> QED BY <2>2, <3>1 DEF ToSet, IInv, TypeOK
  <2>5. /\ job'["pci"] = [job["pci"] EXCEPT !.at = "delete", !.card = list[i]]
        /\ job'["loader"] = job["loader"] /\ DOMAIN job' = DOMAIN job
    BY <2>1 DEF IInv, TypeOK, Thread
  <2>6. /\ job'["pci"].at = "delete" /\ job'["pci"].card = list[i] /\ job' \in [Thread -> JobRecord]
    BY <1>2, <2>1, <2>4, <2>5 DEF IInv, TypeOK, Thread, JobRecord, Stage, Step
  <2>7. TypeOK'
    BY <1>1, <1>3, <2>3, <2>6 DEF IInv, TypeOK
  <2>8. OneThread'
    BY <1>1, <1>2, <2>0, <2>5, <2>6 DEF IInv, OneThread, At, Attaches, AttachStage, Filling, Registering
  <2>9. DevicesThere'
    <3>1. \A t \in Thread : (At(t, "rest")' => job'[t] = Rest) /\ ~Attaches(t)'
      BY <1>2, <2>5, <2>6 DEF IInv, DevicesThere, At, Attaches, AttachStage, Filling, Thread
    <3> QED BY <1>1, <3>1 DEF DevicesThere
  <2>10. CardsApart' /\ PortsKnown' /\ FilesKept'
    <3>3. \A s \in Thread \ {"pci"} : job'[s] = job[s]
      BY <2>5 DEF Thread
    <3> QED BY <1>1, <1>3, <1>5, <2>2, <2>3, <2>6, <3>3, CardTaken DEF Thread
  <2>11. NothingLeft'
    BY <1>1, <1>2, <2>0, <2>5 DEF IInv, NothingLeft, NothingCallable, Registering
  <2>12. AttachedOnce'
    <3>1. loads = 1 /\ d \notin AtStart => \A j \in ToSet(list') : card[j].dev # d
      <4>1. ToSet(list) \subseteq DOMAIN card
        BY <1>4, ElementsOf
      <4> QED BY <2>2, <2>3, <2>4, <4>1 DEF IInv, AttachedOnce
    <3> QED BY <1>1, <1>3, <1>4, <2>0, <2>3, <2>6, <3>1 DEF IInv, AttachedOnce
  <2> QED BY <2>7, <2>8, <2>9, <2>10, <2>11, <2>12 DEF IInv
<1>7. CASE ~(d \in bound /\ Find(d) # {})
  <2>1. job' = job /\ list' = list
    BY <1>7 DEF Unplug
  <2>2. TypeOK'
    BY <1>1, <1>3, <2>1 DEF IInv, TypeOK
  <2>3. OneThread'
    BY <1>1, <2>1 DEF IInv, OneThread, At, Attaches
  <2>4. DevicesThere'
    <3>1. \A t \in Thread : ~Attaches(t)'
      BY <1>2, <2>1 DEF Attaches, AttachStage, Filling, Thread
    <3> QED BY <1>1, <2>1, <3>1 DEF IInv, DevicesThere, At
  <2>5. CardsApart' /\ PortsKnown' /\ FilesKept'
    <3>1. \A t \in Thread : ~OwnsCard(t)'
      BY <1>5, <2>1 DEF OwnsCard
    <3> QED BY <1>1, <1>5, <2>1, <3>1, NobodyAtWork
  <2>6. NothingLeft'
    BY <1>1, <1>2, <1>42, <2>1 DEF IInv, NothingLeft, NothingCallable, Registering
  <2>7. AttachedOnce'
    <3>1. loads = 1 /\ d \notin AtStart => \A j \in ToSet(list) : card[j].dev # d
      <4>1. CASE d \notin bound
        BY <4>1 DEF IInv, AttachedOnce
      <4>2. CASE Find(d) = {}
        BY <1>4, <4>2 DEF Find, ToSet
      <4> QED BY <1>7, <4>1, <4>2
    <3> QED BY <1>1, <1>2, <1>3, <1>4, <1>41, <2>1, <3>1 DEF IInv, AttachedOnce
  <2> QED BY <2>2, <2>3, <2>4, <2>5, <2>6, <2>7 DEF IInv
<1> QED BY <1>6, <1>7

(* While a thread attaches a device the other one rests.                   *)
LEMMA AttachFacts ==
  ASSUME IInv, NEW t \in Thread, Attaches(t)
  PROVE  /\ \A s \in Thread \ {t} : job[s].at = "rest" /\ ~OwnsCard(s) /\ ~OwnsPort(s) /\ ~Attaches(s)
         /\ status = (IF t = "loader" THEN "loading" ELSE "in")
         /\ job[t] \in JobRecord /\ job[t].dev \in Here /\ job[t].dev \in Device
         /\ job[t].by \in {"probe", "loop"} /\ (t = "pci" => job[t].by = "probe")
         /\ job[t].by = "probe" => job[t].dev \notin Foreign
         /\ At(t, "list") \/ job[t].channel < NumPorts
         /\ loads # 0 /\ job[t].at \notin {"rest", "delete"}
<1>1. job[t].at \notin {"rest", "delete"}
  BY DEF Attaches, AttachStage, Filling
<1>2. \A s \in Thread \ {t} : job[s].at = "rest"
  BY <1>1 DEF IInv, OneThread, At, Thread
<1>3. \A s \in Thread \ {t} : ~OwnsCard(s) /\ ~OwnsPort(s) /\ ~Attaches(s)
  BY <1>2 DEF OwnsCard, OwnsPort, Attaches, AttachStage, Filling
<1>4. status = IF t = "loader" THEN "loading" ELSE "in"
  BY <1>1 DEF IInv, OneThread, At, Thread
<1>5. /\ job[t] \in JobRecord /\ job[t].dev \in Here /\ job[t].dev \in Device
      /\ job[t].by \in {"probe", "loop"} /\ (t = "pci" => job[t].by = "probe")
      /\ job[t].by = "probe" => job[t].dev \notin Foreign
      /\ At(t, "list") \/ job[t].channel < NumPorts
  BY DEF IInv, DevicesThere, TypeOK, Here
<1>6. loads # 0
  BY <1>4 DEF IInv, AttachedOnce
<1> QED BY <1>1, <1>2, <1>3, <1>4, <1>5, <1>6

(* What a step within an attachment keeps.                                 *)
LEMMA AttachGoesOn ==
  ASSUME IInv, NEW t \in Thread, Attaches(t), Attaches(t)',
         \A s \in Thread \ {t} : job'[s] = job[s],
         job'[t].dev = job[t].dev, job'[t].by = job[t].by, job'[t].todo = job[t].todo,
         At(t, "list")' \/ job'[t].channel < NumPorts,
         UNCHANGED <<place, status, errno, regs, found, list>>,
         \A i \in ToSet(list) : card'[i].dev = card[i].dev
  PROVE  OneThread' /\ DevicesThere' /\ NothingLeft'
<1>1. /\ \A s \in Thread \ {t} : job[s].at = "rest" /\ ~Attaches(s) /\ ~Attaches(s)'
      /\ status = (IF t = "loader" THEN "loading" ELSE "in")
      /\ t = "pci" => job[t].by = "probe"
  BY AttachFacts DEF Attaches
<1>2. job'[t].at \notin {"rest", "delete", "exit", "probe", "loop"} \cup Registering
  BY DEF Attaches, AttachStage, Filling, Registering
<1>3. OneThread'
  BY <1>1, <1>2 DEF OneThread, At, Thread, Registering
<1>4. DevicesThere'
  <2>1. \A s \in Thread : At(s, "rest")' => job'[s] = Rest
    BY <1>1, <1>2 DEF IInv, DevicesThere, At
  <2>2. \A s \in Thread : Attaches(s)' => s = t
    BY <1>1
  <2>3. /\ job[t].dev \in Here'
        /\ IF job[t].by = "probe" THEN job[t].dev \notin Foreign ELSE t = "loader" /\ job[t].by = "loop"
    BY DEF IInv, DevicesThere, Here
  <2>4. status = "loading" => t = "loader"
    BY <1>1 DEF Thread
  <2>5. status' = "loading" =>
          /\ job'["loader"].todo \subseteq Here'
          /\ At("loader", "probe")' \/ (Attaches("loader")' /\ job'["loader"].by = "probe")
               => job'["loader"].todo \cap Foreign = {}
          /\ \A i \in ToSet(list') : card'[i].dev \in Here'
    BY <1>2, <2>4 DEF IInv, DevicesThere, At, Here
  <2> QED BY <2>1, <2>2, <2>3, <2>5 DEF DevicesThere
<1>5. NothingLeft'
  <2>1. status' # "out" /\ job'["loader"].at \notin Registering \cup {"probe", "loop"}
    BY <1>1, <1>2 DEF Thread, Registering
  <2>2. status = "loading" => t = "loader"
    BY <1>1 DEF Thread
  <2>3. Here' = Here
    BY DEF Here
  <2>4. status = "loading" => Registered = Registering /\ Registered' = Registering
    BY <1>2, <2>2 DEF Registered, At, Registering, Attaches, AttachStage, Filling
  <2> QED BY <2>1, <2>2, <2>3, <2>4 DEF IInv, NothingLeft, NothingCallable, At, Registering
<1> QED BY <1>3, <1>4, <1>5

(* A thread between two devices has a well-formed job.                     *)
LEMMA VisitingJob ==
  ASSUME NEW a \in Stage, NEW S \in SUBSET Device
  PROVE  [Rest EXCEPT !.at = a, !.todo = S] \in JobRecord
<1> DEFINE record == [Rest EXCEPT !.at = a, !.todo = S]
<1>1. Rest \in JobRecord
  BY NumberAssumption DEF Rest, JobRecord, Stage, Step
<1> QED BY <1>1 DEF JobRecord

(* Where a thread goes on after an attachment.                             *)
LEMMA AttachDone ==
  ASSUME IInv, NEW t \in Thread, Attaches(t), job' = [job EXCEPT ![t] = AfterAttach(t)]
  PROVE  /\ job' \in [Thread -> JobRecord]
         /\ \A s \in Thread \ {t} : job'[s] = job[s]
         /\ t = "pci" => job'[t] = Rest
         /\ t = "loader" => job'[t].at = job[t].by /\ job'[t].todo = job[t].todo
         /\ \A s \in Thread : ~Attaches(s)' /\ ~OwnsCard(s)' /\ ~OwnsPort(s)' /\ (At(s, "rest")' => job'[s] = Rest)
<1>1. /\ job[t] \in JobRecord /\ job[t].by \in {"probe", "loop"} /\ (t = "pci" => job[t].by = "probe")
      /\ \A s \in Thread \ {t} : job[s].at = "rest"
  BY AttachFacts
<1>2. Rest \in JobRecord /\ Rest.at = "rest"
  BY NumberAssumption DEF Rest, JobRecord, Stage, Step
<1>3. DOMAIN job = Thread
  BY DEF IInv, TypeOK
<1>4. job' = [job EXCEPT ![t] = job'[t]] /\ job'[t] = AfterAttach(t) /\ \A s \in Thread \ {t} : job'[s] = job[s]
  BY <1>3
<1>5. CASE t = "pci"
  <2>1. job'[t] = Rest
    BY <1>1, <1>4, <1>5 DEF AfterAttach
  <2>2. \A s \in Thread : job'[s].at = "rest"
    BY <1>1, <1>2, <1>4, <2>1
  <2>3. \A s \in Thread : ~Attaches(s)' /\ ~OwnsCard(s)' /\ ~OwnsPort(s)'
    BY <2>2 DEF Attaches, OwnsCard, OwnsPort, AttachStage, Filling
  <2>4. \A s \in Thread : job'[s] = Rest
    BY <1>1, <1>4, <2>1 DEF IInv, DevicesThere, At
  <2> QED BY <1>2, <1>4, <1>5, <2>1, <2>3, <2>4 DEF IInv, TypeOK
<1>6. CASE t = "loader"
  <2>1. job'[t] = [Rest EXCEPT !.at = job[t].by, !.todo = job[t].todo]
    BY <1>1, <1>4, <1>6 DEF AfterAttach
  <2>2. job'[t] \in JobRecord
    <3>1. job[t].by \in Stage /\ job[t].todo \in SUBSET Device
      BY <1>1 DEF JobRecord, Stage
    <3> QED BY <2>1, <3>1, VisitingJob
  <2>3. job'[t].at = job[t].by /\ job'[t].todo = job[t].todo
    BY <2>1 DEF Rest
  <2>4. \A s \in Thread : job'[s].at \in {"rest", "probe", "loop"}
    BY <1>1, <1>4, <2>3
  <2>5. \A s \in Thread : ~Attaches(s)' /\ ~OwnsCard(s)' /\ ~OwnsPort(s)'
    BY <2>4 DEF Attaches, OwnsCard, OwnsPort, AttachStage, Filling
  <2>6. \A s \in Thread : At(s, "rest")' => job'[s] = Rest
    BY <1>1, <1>4, <2>3 DEF IInv, DevicesThere, At
  <2> QED BY <1>4, <1>6, <2>2, <2>3, <2>5, <2>6 DEF IInv, TypeOK
<1> QED BY <1>5, <1>6 DEF Thread

(* What the end of an attachment keeps.                                    *)
LEMMA AttachReturns ==
  ASSUME IInv, NEW t \in Thread, Attaches(t), job' = [job EXCEPT ![t] = AfterAttach(t)],
         UNCHANGED <<place, status, errno, regs, found>>,
         \A i \in ToSet(list') : i \in ToSet(list) \/ (OwnsCard(t) /\ i = job[t].card),
         \A i \in DOMAIN card : card'[i].dev = card[i].dev
  PROVE  OneThread' /\ DevicesThere' /\ NothingLeft'
<1>1. /\ \A s \in Thread \ {t} : job[s].at = "rest" /\ ~Attaches(s)
      /\ status = (IF t = "loader" THEN "loading" ELSE "in")
      /\ job[t].by \in {"probe", "loop"} /\ job[t].dev \in Here /\ (t = "pci" => job[t].by = "probe")
  BY AttachFacts
<1>2. /\ \A s \in Thread \ {t} : job'[s] = job[s]
      /\ t = "pci" => job'[t].at = "rest"
      /\ t = "loader" => job'[t].at = job[t].by /\ job'[t].todo = job[t].todo
      /\ \A s \in Thread : ~Attaches(s)' /\ (At(s, "rest")' => job'[s] = Rest)
  <2>1. t = "pci" => job'[t] = Rest
    BY AttachDone
  <2>2. /\ \A s \in Thread \ {t} : job'[s] = job[s]
        /\ t = "loader" => job'[t].at = job[t].by /\ job'[t].todo = job[t].todo
    BY AttachDone
  <2>3. \A s \in Thread : ~Attaches(s)' /\ (At(s, "rest")' => job'[s] = Rest)
    BY AttachDone
  <2> QED BY <2>1, <2>2, <2>3 DEF Rest
<1>3. Here' = Here
  BY DEF Here
<1>4. OneThread'
  BY <1>1, <1>2 DEF OneThread, At, Thread, Registering
<1>5. DevicesThere'
  <2>1. status = "loading" => t = "loader"
    BY <1>1 DEF Thread
  <2>2. status = "loading" => \A i \in ToSet(list') : card'[i].dev \in Here
    <3>1. ToSet(list) \subseteq DOMAIN card
      BY ElementsOf DEF IInv, TypeOK
    <3>2. OwnsCard(t) => job[t].card \in DOMAIN card /\ card[job[t].card].dev = job[t].dev
      BY DEF IInv, CardsApart
    <3> QED BY <1>1, <3>1, <3>2 DEF IInv, DevicesThere
  <2> QED BY <1>1, <1>2, <1>3, <2>1, <2>2 DEF IInv, DevicesThere, At
<1>6. NothingLeft'
  <2>1. status' # "out" /\ job'["loader"].at \notin Registering
    BY <1>1, <1>2 DEF Thread, Registering
  <2>2. status = "loading" => t = "loader"
    BY <1>1 DEF Thread
  <2>3. status = "loading" => Registered = Registering /\ Registered' = Registering
    BY <1>1, <1>2, <2>2 DEF Registered, At, Registering, Attaches, AttachStage, Filling
  <2> QED BY <1>1, <1>2, <1>3, <2>1, <2>2, <2>3 DEF IInv, NothingLeft, NothingCallable, At, Registering
<1> QED BY <1>4, <1>5, <1>6

(* A step that brings no card and lists none keeps what is known of        *)
(* devices attached once.                                                  *)
LEMMA AttachedOnceKept ==
  ASSUME IInv, UNCHANGED <<place, status, loads, list>>, bound \subseteq bound',
         DOMAIN card' = DOMAIN card, \A i \in DOMAIN card : card'[i].dev = card[i].dev,
         job'["pci"].at \in {"enable", "card"} =>
           job["pci"].at \in {"enable", "card"} /\ job'["pci"].dev = job["pci"].dev
  PROVE  AttachedOnce'
<1>1. ToSet(list) \subseteq DOMAIN card
  BY ElementsOf DEF IInv, TypeOK
<1> QED BY <1>1 DEF IInv, AttachedOnce

(* Going to another stage changes nothing else of a job.                   *)
LEMMA GotoJob ==
  ASSUME TypeOK, NEW t \in Thread, NEW stage \in Stage, Goto(t, stage)
  PROVE  /\ job' \in [Thread -> JobRecord] /\ job'[t].at = stage
         /\ job'[t].dev = job[t].dev /\ job'[t].by = job[t].by /\ job'[t].card = job[t].card
         /\ job'[t].channel = job[t].channel /\ job'[t].todo = job[t].todo
         /\ \A s \in Thread \ {t} : job'[s] = job[s]
<1>1. job[t] \in JobRecord /\ job'[t] = [job[t] EXCEPT !.at = stage] /\ job' = [job EXCEPT ![t] = job'[t]]
  BY DEF TypeOK, Goto
<1>2. /\ job'[t] \in JobRecord /\ job'[t].at = stage
      /\ job'[t].dev = job[t].dev /\ job'[t].by = job[t].by /\ job'[t].card = job[t].card
      /\ job'[t].channel = job[t].channel /\ job'[t].todo = job[t].todo
  BY <1>1 DEF JobRecord
<1> QED BY <1>1, <1>2 DEF TypeOK

\* Whether the device was bound or not.
LEMMA BoundFits ==
  ASSUME IInv, NEW t \in Thread, Attaches(t),
         bound' = IF job[t].by = "probe" THEN bound \cup {job[t].dev} ELSE bound
  PROVE  bound' \subseteq Here \ Foreign /\ bound \subseteq bound'
BY AttachFacts DEF IInv, TypeOK

(* serialfc_init returns in the middle of its loop, and everything it has  *)
(* registered or attached stays (main.c:387-388).                          *)
LEMMA GivenUpStep ==
  ASSUME IInv, NEW t \in Thread, job[t].at = "enable", job[t].by = "loop",
         status' = "out", errno' = EIO, job' = [job EXCEPT ![t] = Rest],
         UNCHANGED <<place, bound, loads, regs, found, minor, ports, nodes, cdevs, card, list, file>>
  PROVE  IInv'
<1>1. /\ Attaches(t) /\ t = "loader" /\ status = "loading" /\ job["pci"].at = "rest"
      /\ \A s \in Thread : ~OwnsCard(s)
  <2>1. Attaches(t) /\ ~OwnsCard(t)
    BY DEF Attaches, AttachStage, OwnsCard, Filling
  <2>2. t = "loader"
    BY <2>1, AttachFacts DEF Thread
  <2> QED BY <2>1, <2>2, AttachFacts DEF Thread
<1>2. job'["loader"] = Rest /\ job'["pci"] = job["pci"] /\ job' \in [Thread -> JobRecord]
  BY <1>1, NumberAssumption DEF IInv, TypeOK, Thread, JobRecord, Stage, Step, Rest
<1>3. \A s \in Thread : job'[s].at = "rest" /\ job'[s] = Rest
  BY <1>1, <1>2 DEF IInv, DevicesThere, At, Thread, Rest
<1>4. TypeOK'
  BY <1>2 DEF IInv, TypeOK, Here
<1>5. OneThread' /\ DevicesThere'
  BY <1>3 DEF OneThread, DevicesThere, At, Attaches, AttachStage, Filling, Registering, Thread
<1>6. CardsApart' /\ PortsKnown' /\ FilesKept'
  <2>1. \A s \in Thread : ~OwnsCard(s)'
    BY <1>3 DEF OwnsCard, Filling
  <2> QED BY <1>1, <2>1, NobodyAtWork
<1>7. NothingLeft'
  <2>1. regs = Registering
    BY <1>1 DEF IInv, NothingLeft, Registered, At
  <2> QED BY <1>3, <2>1 DEF NothingLeft, NothingCallable, Registering, Thread
<1>8. AttachedOnce'
  BY <1>1, <1>3 DEF IInv, AttachedOnce, ToSet, Thread
<1> QED BY <1>4, <1>5, <1>6, <1>7, <1>8 DEF IInv

(* pci_enable_device is called; fc_probe and serialfc_init differ in what  *)
(* they do when it fails.                                                  *)
LEMMA EnableStep ==
  ASSUME IInv, NEW t \in Thread, Enable(t)
  PROVE  IInv'
<1>1. /\ job[t].at = "enable" /\ Attaches(t) /\ ~OwnsCard(t)
      /\ UNCHANGED <<place, minor, ports, nodes, cdevs, list, file>>
  BY DEF Enable, At, Attaches, AttachStage, OwnsCard, Filling
<1>2. \A s \in Thread : ~OwnsCard(s)
  BY <1>1, AttachFacts
<1>3. CASE Goto(t, "card") /\ UNCHANGED <<bound, card, mod>>
  <2>1. /\ job' \in [Thread -> JobRecord] /\ job'[t].at = "card"
        /\ job'[t].dev = job[t].dev /\ job'[t].by = job[t].by
        /\ job'[t].channel = job[t].channel /\ job'[t].todo = job[t].todo
        /\ \A s \in Thread \ {t} : job'[s] = job[s]
    BY <1>3, GotoJob DEF IInv, Stage, Step
  <2>2. Attaches(t)' /\ ~OwnsCard(t)'
    BY <2>1 DEF Attaches, AttachStage, OwnsCard, Filling
  <2>3. UNCHANGED <<bound, card, status, errno, loads, regs, found>>
    BY <1>3 DEF mod
  <2>4. TypeOK'
    BY <1>1, <2>1, <2>3 DEF IInv, TypeOK, Here
  <2>5. job'[t].channel < NumPorts
    BY <1>1, <2>1, AttachFacts DEF At
  <2>6. OneThread' /\ DevicesThere' /\ NothingLeft'
    BY <1>1, <2>1, <2>2, <2>3, <2>5, AttachGoesOn
  <2>7. CardsApart' /\ PortsKnown' /\ FilesKept'
    <3>1. \A s \in Thread : ~OwnsCard(s)'
      BY <1>2, <2>1, <2>2 DEF OwnsCard
    <3> QED BY <1>1, <1>2, <2>3, <3>1, NobodyAtWork
  <2>8. AttachedOnce'
    <3>1. job'["pci"].at \in {"enable", "card"} =>
            job["pci"].at \in {"enable", "card"} /\ job'["pci"].dev = job["pci"].dev
      BY <1>1, <2>1 DEF Thread
    <3> QED BY <1>1, <2>3, <3>1, AttachedOnceKept
  <2> QED BY <2>4, <2>6, <2>7, <2>8 DEF IInv
<1>4. CASE EnableFails(t) /\ job[t].by = "loop"
  BY <1>1, <1>4, GivenUpStep DEF EnableFails
<1>5. CASE EnableFails(t) /\ job[t].by # "loop"
  <2>1. job' = [job EXCEPT ![t] = AfterAttach(t)] /\ UNCHANGED <<status, errno, bound, card, loads, regs, found>>
    BY <1>5 DEF EnableFails
  <2>2. /\ job' \in [Thread -> JobRecord] /\ \A s \in Thread : ~OwnsCard(s)'
        /\ job'["pci"].at \notin {"enable", "card"}
    <3>1. \A s \in Thread : ~Attaches(s)' /\ ~OwnsCard(s)'
      BY <1>1, <2>1, AttachDone
    <3> QED BY <1>1, <2>1, <3>1, AttachDone DEF Attaches, AttachStage, Thread
  <2>3. TypeOK'
    BY <1>1, <2>1, <2>2 DEF IInv, TypeOK, Here
  <2>4. OneThread' /\ DevicesThere' /\ NothingLeft'
    BY <1>1, <2>1, AttachReturns
  <2>5. CardsApart' /\ PortsKnown' /\ FilesKept'
    BY <1>1, <1>2, <2>1, <2>2, NobodyAtWork
  <2>6. AttachedOnce'
    BY <1>1, <2>1, <2>2, AttachedOnceKept
  <2> QED BY <2>3, <2>4, <2>5, <2>6 DEF IInv
<1> QED BY <1>3, <1>4, <1>5 DEF Enable

(* A card that is given up before it has ports, and not freed.             *)
LEMMA CardLost ==
  ASSUME IInv, NEW t \in Thread, job[t].at \in {"card", "uarts", "map"},
         job' = [job EXCEPT ![t] = AfterAttach(t)],
         bound' = IF job[t].by = "probe" THEN bound \cup {job[t].dev} ELSE bound,
         UNCHANGED <<place, mod, objects, list, file>>
  PROVE  IInv'
<1>1. Attaches(t) /\ ~OwnsPort(t)
  BY DEF Attaches, AttachStage, Filling, OwnsPort
<1>2. UNCHANGED <<status, errno, loads, regs, found, minor, ports, nodes, cdevs, card>>
  BY DEF mod, objects
<1>3. /\ job' \in [Thread -> JobRecord]
      /\ \A s \in Thread : ~Attaches(s)' /\ ~OwnsCard(s)' /\ ~OwnsPort(s)'
  BY <1>1, AttachDone
<1>4. TypeOK'
  BY <1>1, <1>2, <1>3, BoundFits DEF IInv, TypeOK, Here
<1>5. OneThread' /\ DevicesThere' /\ NothingLeft'
  BY <1>1, <1>2, AttachReturns
<1>6. AttachedOnce'
  <2>1. job'["pci"].at \notin {"enable", "card"}
    BY <1>3 DEF Attaches, AttachStage, Thread
  <2> QED BY <1>1, <1>2, <2>1, BoundFits, AttachedOnceKept
<1>7. \A i : PortsOf(i)' = PortsOf(i)
  BY <1>2 DEF PortsOf
<1>8. \A s \in Thread : job'[s].at \notin {"uarts", "map", "delete"}
  BY <1>3 DEF OwnsCard, Filling
<1>9. CardsApart'
  BY <1>2, <1>3, <1>7, <1>8 DEF IInv, CardsApart
<1>10. PortsKnown'
  <2>1. ASSUME NEW m \in cdevs PROVE \E i \in Live' : m \in PortsOf(i)
    <3>1. PICK i \in Live : m \in PortsOf(i)
      BY DEF IInv, PortsKnown
    <3>2. i \in ToSet(list)
      <4>1. SUFFICES ASSUME NEW s \in Thread, OwnsCard(s), i = job[s].card PROVE FALSE
        BY DEF Live
      <4>2. s = t
        BY <1>1, <4>1, AttachFacts
      <4>3. card[i].ports = << >>
        BY <4>1, <4>2 DEF IInv, CardsApart, OwnsCard, Filling
      <4> QED BY <3>1, <4>3 DEF PortsOf, ToSet
    <3> QED BY <3>1, <3>2 DEF Live
  <2> QED BY <1>2, <1>3, <1>7, <2>1 DEF IInv, PortsKnown
<1>11. FilesKept'
  <2>1. job'["pci"].at # "delete" /\ minor \in Nat
    BY <1>8 DEF Thread, IInv, TypeOK
  <2> QED BY <1>2, <2>1, FilesKeptOpen
<1> QED BY <1>4, <1>5, <1>6, <1>9, <1>10, <1>11 DEF IInv

(* serialfc_card_new finds room for a card, or no card comes to be.        *)
LEMMA NewCardStep ==
  ASSUME IInv, NEW t \in Thread, NewCard(t)
  PROVE  IInv'
<1>1. /\ job[t].at = "card" /\ Attaches(t) /\ ~OwnsCard(t) /\ ~OwnsPort(t)
      /\ UNCHANGED <<place, status, errno, loads, regs, found, minor, ports, nodes, cdevs, list, file>>
  BY DEF NewCard, At, Attaches, AttachStage, OwnsCard, OwnsPort, Filling, mod
<1>2. CASE UNCHANGED card /\ Attached(t)
  BY <1>1, <1>2, CardLost DEF Attached, mod, objects
<1>3. ASSUME NEW new \in Free,
             card' = [i \in DOMAIN card \cup {new} |->
                        IF i = new THEN [dev |-> job[t].dev, uarts |-> FALSE, ports |-> << >>] ELSE card[i]],
             job' = [job EXCEPT ![t].at = IF job[t].dev \in Fscc THEN "uarts" ELSE "map", ![t].card = new],
             UNCHANGED bound
      PROVE  IInv'
  <2>1. new \notin DOMAIN card /\ new \in Nat /\ IsFiniteSet(DOMAIN card)
    <3>1. IsFiniteSet(DOMAIN card)
      BY DEF IInv, TypeOK
    <3>2. Cardinality(DOMAIN card) \in Nat
      BY <3>1, FS_CardinalityType
    <3> QED BY <3>1, <3>2 DEF Free
  <2>2. /\ DOMAIN card' = DOMAIN card \cup {new} /\ \A i \in DOMAIN card : card'[i] = card[i]
        /\ card'[new] = [dev |-> job[t].dev, uarts |-> FALSE, ports |-> << >>]
    BY <1>3, <2>1
  <2>3. /\ job'[t] = [job[t] EXCEPT !.at = job'[t].at, !.card = new] /\ job'[t].at \in {"uarts", "map"}
        /\ job[t] \in JobRecord /\ DOMAIN job' = Thread /\ \A s \in Thread \ {t} : job'[s] = job[s]
    BY <1>3 DEF IInv, TypeOK, JobRecord
  <2>4. /\ job' \in [Thread -> JobRecord] /\ job'[t].card = new
        /\ job'[t].dev = job[t].dev /\ job'[t].by = job[t].by
        /\ job'[t].channel = job[t].channel /\ job'[t].todo = job[t].todo
    <3>1. job'[t] \in JobRecord
      BY <2>1, <2>3 DEF JobRecord, Stage, Step
    <3> QED BY <1>3, <2>3, <3>1 DEF IInv, TypeOK, JobRecord
  <2>5. Attaches(t)' /\ OwnsCard(t)' /\ ~OwnsPort(t)'
    BY <2>3 DEF Attaches, AttachStage, OwnsCard, OwnsPort, Filling
  <2>6. \A s \in Thread \ {t} : /\ ~OwnsCard(s) /\ ~OwnsCard(s)' /\ ~OwnsPort(s)' /\ ~Attaches(s)'
                                /\ job'[s].at \notin {"uarts", "map", "delete"}
    <3>1. \A s \in Thread \ {t} : ~OwnsCard(s) /\ ~OwnsPort(s) /\ ~Attaches(s) /\ job[s].at = "rest"
      BY <1>1, AttachFacts
    <3> QED BY <2>3, <3>1 DEF OwnsCard, OwnsPort, Attaches
  <2>7. job[t].dev \in Device /\ job[t].channel < NumPorts /\ ToSet(list) \subseteq DOMAIN card
        /\ list \in Seq(DOMAIN card)
    BY <1>1, AttachFacts, ElementsOf DEF IInv, TypeOK, At
  <2>8. TypeOK'
    <3>1. IsFiniteSet(DOMAIN card') /\ DOMAIN card' \subseteq Nat
      BY <2>1, <2>2, FS_AddElement DEF IInv, TypeOK
    <3>2. card'[new] \in [dev : Device, uarts : BOOLEAN, ports : Seq(cdevs)]
      BY <2>2, <2>7, EmptySeq
    <3>3. list' \in Seq(DOMAIN card')
      BY <1>1, <2>2, <2>7
    <3> QED BY <1>1, <1>3, <2>2, <2>4, <3>1, <3>2, <3>3 DEF IInv, TypeOK, Here
  <2>9. OneThread' /\ DevicesThere' /\ NothingLeft'
    BY <1>1, <2>2, <2>3, <2>4, <2>5, <2>7, AttachGoesOn
  <2>10. /\ \A i \in DOMAIN card : PortsOf(i)' = PortsOf(i)
         /\ PortsOf(new)' = {}
    BY <2>2 DEF PortsOf, ToSet
  <2>11. CardsApart'
    <3>1. \A i, j \in DOMAIN card' : i # j => PortsOf(i)' \cap PortsOf(j)' = {}
      BY <2>2, <2>10 DEF IInv, CardsApart
    <3>2. \A i \in DOMAIN card' : \A m, n \in DOMAIN card'[i].ports :
            card'[i].ports[m] = card'[i].ports[n] => m = n
      BY <2>2 DEF IInv, CardsApart
    <3>3. \A s \in Thread : /\ OwnsCard(s)' => s = t /\ job'[s].card \in DOMAIN card' \ ToSet(list')
                            /\ Attaches(s)' /\ OwnsCard(s)' => card'[job'[s].card].dev = job'[s].dev
                            /\ job'[s].at \in {"uarts", "map"} => card'[job'[s].card].ports = << >>
      BY <1>1, <2>1, <2>2, <2>4, <2>6, <2>7
    <3>4. \A m, n \in DOMAIN list' : list'[m] = list'[n] => m = n
      BY <1>1 DEF IInv, CardsApart
    <3> QED BY <3>1, <3>2, <3>3, <3>4 DEF CardsApart
  <2>12. PortsKnown'
    <3>1. \A i \in Live : i \in Live' /\ i \in DOMAIN card
      BY <1>1, <2>6, <2>7 DEF Live
    <3>2. \A s \in Thread : ~OwnsPort(s)'
      BY <2>5, <2>6
    <3>3. \A m \in cdevs : \E i \in Live' : m \in PortsOf(i)'
      BY <2>10, <3>1 DEF IInv, PortsKnown
    <3>4. \A i \in DOMAIN card' : \A m \in PortsOf(i)' : \E p \in ports : p.minor = m /\ p.dev = card'[i].dev
      BY <2>2, <2>10 DEF IInv, PortsKnown
    <3> QED BY <1>1, <3>2, <3>3, <3>4 DEF IInv, PortsKnown
  <2>13. FilesKept'
    <3>1. job'["pci"].at # "delete" /\ minor \in Nat
      BY <2>3, <2>6 DEF Thread, IInv, TypeOK
    <3> QED BY <1>1, <3>1, FilesKeptOpen
  <2>14. AttachedOnce'
    <3>1. job'["pci"].at \notin {"enable", "card"}
      BY <1>1, <2>3, AttachFacts DEF Thread
    <3>2. ASSUME NEW d \in Device \ AtStart, loads \in {0, 1}, job[t].dev = d
          PROVE  place[d] # "away" /\ \A i \in DOMAIN card : card[i].dev # d
      <4>1. place[d] = "here"
        BY <1>1, <3>2, AttachFacts DEF Here
      <4>2. status # "loading"
        BY <3>2, <4>1 DEF IInv, AttachedOnce
      <4>3. t = "pci"
        BY <1>1, <4>2, AttachFacts DEF Thread
      <4> QED BY <1>1, <3>2, <4>1, <4>3 DEF IInv, AttachedOnce
    <3> QED BY <1>1, <1>3, <2>1, <2>2, <2>7, <3>1, <3>2 DEF IInv, AttachedOnce
  <2> QED BY <2>8, <2>9, <2>11, <2>12, <2>13, <2>14 DEF IInv
<1> QED BY <1>2, <1>3 DEF NewCard, First

(* The UARTs are known or the card is given up.                            *)
LEMMA InitUartsStep ==
  ASSUME IInv, NEW t \in Thread, InitUarts(t)
  PROVE  IInv'
<1>1. /\ job[t].at = "uarts" /\ Attaches(t) /\ OwnsCard(t) /\ ~OwnsPort(t)
      /\ UNCHANGED <<place, status, errno, loads, regs, found, minor, ports, nodes, cdevs, list, file>>
  BY DEF InitUarts, At, Attaches, AttachStage, OwnsCard, OwnsPort, Filling, mod
<1>2. CASE Attached(t) /\ UNCHANGED card
  BY <1>1, <1>2, CardLost DEF Attached, mod, objects
<1>3. CASE card' = [card EXCEPT ![job[t].card].uarts = TRUE] /\ Goto(t, "map") /\ UNCHANGED bound
  <2>1. /\ job' \in [Thread -> JobRecord] /\ job'[t].at = "map"
        /\ job'[t].dev = job[t].dev /\ job'[t].by = job[t].by /\ job'[t].card = job[t].card
        /\ job'[t].channel = job[t].channel /\ job'[t].todo = job[t].todo
        /\ \A s \in Thread \ {t} : job'[s] = job[s]
    BY <1>3, GotoJob DEF IInv, Stage, Step
  <2>2. Attaches(t)' /\ OwnsCard(t)' /\ ~OwnsPort(t)'
    BY <2>1 DEF Attaches, AttachStage, OwnsCard, OwnsPort, Filling
  <2>3. /\ DOMAIN card' = DOMAIN card
        /\ \A i \in DOMAIN card : card'[i].dev = card[i].dev /\ card'[i].ports = card[i].ports
        /\ \A i \in DOMAIN card : card'[i] \in [dev : Device, uarts : BOOLEAN, ports : Seq(cdevs)]
    <3>1. \A i \in DOMAIN card : card[i] \in [dev : Device, uarts : BOOLEAN, ports : Seq(cdevs)]
      BY DEF IInv, TypeOK
    <3>2. \A i \in DOMAIN card : card'[i] = card[i] \/ card'[i] = [card[i] EXCEPT !.uarts = TRUE]
      BY <1>3
    <3>3. ASSUME NEW i \in DOMAIN card
          PROVE  /\ card'[i].dev = card[i].dev /\ card'[i].ports = card[i].ports
                 /\ card'[i] \in [dev : Device, uarts : BOOLEAN, ports : Seq(cdevs)]
      <4> DEFINE before == card[i]
                 after  == card'[i]
      <4>1. before \in [dev : Device, uarts : BOOLEAN, ports : Seq(cdevs)]
        BY <3>1
      <4>2. after = before \/ after = [before EXCEPT !.uarts = TRUE]
        BY <3>2
      <4> HIDE DEF before, after
      <4>3. after.dev = before.dev /\ after.ports = before.ports
        BY <4>1, <4>2
      <4>4. after \in [dev : Device, uarts : BOOLEAN, ports : Seq(cdevs)]
        BY <4>1, <4>2
      <4> QED BY <4>3, <4>4 DEF before, after
    <3>4. DOMAIN card' = DOMAIN card
      BY <1>3
    <3> QED BY <3>3, <3>4
  <2>4. job[t].card \in DOMAIN card /\ ToSet(list) \subseteq DOMAIN card /\ job[t].channel < NumPorts
    BY <1>1, AttachFacts, ElementsOf DEF IInv, CardsApart, TypeOK, At
  <2>5. TypeOK'
    BY <1>1, <1>3, <2>1, <2>3 DEF IInv, TypeOK, Here
  <2>6. OneThread' /\ DevicesThere' /\ NothingLeft'
    BY <1>1, <2>1, <2>2, <2>3, <2>4, AttachGoesOn
  <2>7. \A i \in DOMAIN card : PortsOf(i)' = PortsOf(i)
    BY <2>3 DEF PortsOf
  <2>8. \A s \in Thread : /\ OwnsCard(s)' <=> OwnsCard(s)
                          /\ job'[s].card = job[s].card /\ job'[s].dev = job[s].dev
                          /\ OwnsPort(s)' <=> OwnsPort(s)
                          /\ Attaches(s)' <=> Attaches(s)
                          /\ job'[s].at \in {"uarts", "map"} <=> job[s].at \in {"uarts", "map"}
                          /\ job'[s].at = "delete" <=> job[s].at = "delete"
    BY <1>1, <2>1, <2>2 DEF OwnsCard, OwnsPort, Attaches
  <2>9. CardsApart'
    <3>1. \A i, j \in DOMAIN card' : i # j => PortsOf(i)' \cap PortsOf(j)' = {}
      BY <2>3, <2>7 DEF IInv, CardsApart
    <3>2. \A i \in DOMAIN card' : \A m, n \in DOMAIN card'[i].ports :
            card'[i].ports[m] = card'[i].ports[n] => m = n
      BY <2>3 DEF IInv, CardsApart
    <3>3. \A s \in Thread : /\ OwnsCard(s)' => job'[s].card \in DOMAIN card' \ ToSet(list')
                            /\ Attaches(s)' /\ OwnsCard(s)' => card'[job'[s].card].dev = job'[s].dev
      BY <1>1, <2>3, <2>8 DEF IInv, CardsApart
    <3>4. \A s \in Thread : job'[s].at \in {"uarts", "map"} => card'[job'[s].card].ports = << >>
      BY <2>3, <2>8 DEF IInv, CardsApart, OwnsCard, Filling
    <3>5. \A m, n \in DOMAIN list' : list'[m] = list'[n] => m = n
      BY <1>1 DEF IInv, CardsApart
    <3> QED BY <3>1, <3>2, <3>3, <3>4, <3>5 DEF CardsApart
  <2>10. PortsKnown'
    <3>1. Live' = Live /\ Live \subseteq DOMAIN card
      BY <1>1, <2>4, <2>8 DEF Live, IInv, CardsApart
    <3> QED BY <1>1, <2>3, <2>7, <2>8, <3>1 DEF IInv, PortsKnown
  <2>11. FilesKept'
    <3>1. job'["pci"].at # "delete" /\ minor \in Nat
      <4>1. \A s \in Thread \ {t} : job[s].at = "rest"
        BY <1>1, AttachFacts
      <4> QED BY <2>1, <4>1 DEF Thread, IInv, TypeOK
    <3> QED BY <1>1, <3>1, FilesKeptOpen
  <2>12. AttachedOnce'
    <3>1. job'["pci"].at \in {"enable", "card"} =>
            job["pci"].at \in {"enable", "card"} /\ job'["pci"].dev = job["pci"].dev
      BY <2>1 DEF Thread
    <3> QED BY <1>1, <1>3, <2>3, <3>1, AttachedOnceKept
  <2> QED BY <2>5, <2>6, <2>9, <2>10, <2>11, <2>12 DEF IInv
<1> QED BY <1>2, <1>3 DEF InitUarts

(* A step within an attachment that leaves the thread its card: what the   *)
(* other thread does not do, and what therefore stays true.                *)
LEMMA StillAttaching ==
  ASSUME IInv, NEW t \in Thread, Attaches(t), OwnsCard(t), Attaches(t)', OwnsCard(t)',
         \A s \in Thread \ {t} : job'[s] = job[s],
         job'[t].card = job[t].card, job'[t].dev = job[t].dev,
         job'[t].at \notin {"enable", "card"}
  PROVE  /\ \A s \in Thread : OwnsCard(s)' <=> OwnsCard(s)
         /\ \A s \in Thread : OwnsCard(s) =>
              job'[s].card = job[s].card /\ job'[s].dev = job[s].dev /\ (Attaches(s)' => Attaches(s))
         /\ \A s \in Thread : OwnsPort(s) \/ OwnsPort(s)' => s = t
         /\ \A s \in Thread : job'[s].at # "delete"
         /\ job'["pci"].at \in {"enable", "card"} =>
              job["pci"].at \in {"enable", "card"} /\ job'["pci"].dev = job["pci"].dev
<1>1. \A s \in Thread \ {t} : job[s].at = "rest" /\ ~OwnsCard(s) /\ ~OwnsPort(s)
  BY AttachFacts
<1>2. \A s \in Thread \ {t} : job'[s].at = "rest" /\ ~OwnsCard(s)' /\ ~OwnsPort(s)'
  BY <1>1 DEF OwnsCard, OwnsPort
<1>3. job'[t].at # "delete"
  BY DEF Attaches, AttachStage, Filling
<1>4. job'["pci"].at \notin {"enable", "card"}
  BY <1>2 DEF Thread
<1> QED BY <1>1, <1>2, <1>3, <1>4

(* The regions are mapped, or the card is lost.                            *)
LEMMA MapRegionsStep ==
  ASSUME IInv, NEW t \in Thread, MapRegions(t)
  PROVE  IInv'
<1>1. /\ job[t].at = "map" /\ Attaches(t) /\ OwnsCard(t) /\ ~OwnsPort(t)
      /\ UNCHANGED <<place, status, errno, loads, regs, found, minor, ports, nodes, cdevs, card, list, file>>
  BY DEF MapRegions, At, Attaches, AttachStage, OwnsCard, OwnsPort, Filling, mod, objects
<1>2. CASE Attached(t)
  BY <1>1, <1>2, CardLost DEF Attached, mod, objects
<1>3. CASE Goto(t, "port") /\ UNCHANGED bound
  <2>1. /\ job' \in [Thread -> JobRecord] /\ job'[t].at = "port"
        /\ job'[t].dev = job[t].dev /\ job'[t].by = job[t].by /\ job'[t].card = job[t].card
        /\ job'[t].channel = job[t].channel /\ job'[t].todo = job[t].todo
        /\ \A s \in Thread \ {t} : job'[s] = job[s]
    BY <1>3, GotoJob DEF IInv, Stage, Step
  <2>2. Attaches(t)' /\ OwnsCard(t)' /\ ~OwnsPort(t)'
    BY <2>1 DEF Attaches, AttachStage, OwnsCard, OwnsPort, Filling
  <2>3. job[t].channel < NumPorts
    BY <1>1, AttachFacts DEF At
  <2>4. TypeOK'
    BY <1>1, <1>3, <2>1 DEF IInv, TypeOK, Here
  <2>5. OneThread' /\ DevicesThere' /\ NothingLeft'
    BY <1>1, <2>1, <2>2, <2>3, AttachGoesOn
  <2>6. /\ \A s \in Thread : OwnsCard(s)' <=> OwnsCard(s)
        /\ \A s \in Thread : OwnsCard(s) =>
             job'[s].card = job[s].card /\ job'[s].dev = job[s].dev /\ (Attaches(s)' => Attaches(s))
        /\ \A s \in Thread : ~OwnsPort(s)' /\ job'[s].at # "delete"
        /\ job'["pci"].at \in {"enable", "card"} =>
             job["pci"].at \in {"enable", "card"} /\ job'["pci"].dev = job["pci"].dev
    BY <1>1, <2>1, <2>2, StillAttaching
  <2>7. \A s \in Thread : job'[s].at \in {"uarts", "map"} => job[s].at \in {"uarts", "map"}
    BY <1>1, <2>1
  <2>8. CardsApart' /\ PortsKnown'
    BY <1>1, <2>6, <2>7, CardsKept
  <2>9. FilesKept'
    <3>1. job'["pci"].at # "delete" /\ minor \in Nat
      BY <2>6 DEF Thread, IInv, TypeOK
    <3> QED BY <1>1, <3>1, FilesKeptOpen
  <2>10. AttachedOnce'
    BY <1>1, <1>3, <2>6, AttachedOnceKept
  <2> QED BY <2>4, <2>5, <2>8, <2>9, <2>10 DEF IInv
<1> QED BY <1>2, <1>3 DEF MapRegions

(* Where a thread goes on after one channel of its card.                   *)
LEMMA NextChannelJob ==
  ASSUME IInv, NEW t \in Thread, job[t].at \in {"port", "group", "cdev"}, NextChannel(t)
  PROVE  /\ job' \in [Thread -> JobRecord] /\ job'[t].at \in {"port", "list"}
         /\ At(t, "list")' \/ job'[t].channel < NumPorts
         /\ job'[t].dev = job[t].dev /\ job'[t].by = job[t].by /\ job'[t].card = job[t].card
         /\ job'[t].todo = job[t].todo
         /\ \A s \in Thread \ {t} : job'[s] = job[s]
         /\ minor' = minor + 1 /\ minor' \in Nat
<1>1. job[t] \in JobRecord /\ job[t].channel \in 0..NumPorts-1 /\ minor \in Nat
  <2>1. job[t] \in JobRecord /\ minor \in Nat
    BY DEF IInv, TypeOK
  <2>2. job[t].channel < NumPorts
    BY AttachFacts DEF Attaches, AttachStage, Filling, At
  <2> QED BY <2>1, <2>2, NumberAssumption DEF JobRecord
<1>2. job' = [job EXCEPT ![t] = [job[t] EXCEPT !.channel = job[t].channel + 1,
                                              !.at = IF job[t].channel + 1 = NumPorts THEN "list" ELSE "port"]]
  BY DEF NextChannel, IInv, TypeOK
<1>3. job'[t] = [job[t] EXCEPT !.channel = job[t].channel + 1,
                               !.at = IF job[t].channel + 1 = NumPorts THEN "list" ELSE "port"]
  BY <1>2 DEF IInv, TypeOK
<1>4. /\ job'[t].at = (IF job[t].channel + 1 = NumPorts THEN "list" ELSE "port")
      /\ job'[t].channel = job[t].channel + 1
      /\ job'[t].dev = job[t].dev /\ job'[t].by = job[t].by /\ job'[t].card = job[t].card
      /\ job'[t].todo = job[t].todo
  BY <1>1, <1>3 DEF JobRecord
<1>5. job[t].channel + 1 \in 0..NumPorts /\ (job[t].channel + 1 # NumPorts => job[t].channel + 1 < NumPorts)
  BY <1>1, NumberAssumption
<1>6. job'[t] \in JobRecord
  BY <1>1, <1>3, <1>5 DEF JobRecord, Stage, Step
<1>7. job' \in [Thread -> JobRecord] /\ \A s \in Thread \ {t} : job'[s] = job[s]
  BY <1>2, <1>3, <1>6 DEF IInv, TypeOK
<1> QED BY <1>1, <1>4, <1>5, <1>7 DEF NextChannel, At

(* What every step in serialfc_port_new keeps.                             *)
LEMMA PortStepKeeps ==
  ASSUME IInv, NEW t \in Thread, job[t].at \in {"port", "group", "cdev"},
         job'[t].at \in {"port", "group", "cdev", "list"},
         \A s \in Thread \ {t} : job'[s] = job[s],
         job'[t].dev = job[t].dev, job'[t].by = job[t].by, job'[t].card = job[t].card,
         job'[t].todo = job[t].todo,
         At(t, "list")' \/ job'[t].channel < NumPorts,
         UNCHANGED <<place, bound, status, errno, loads, regs, found, list>>,
         DOMAIN card' = DOMAIN card, \A i \in DOMAIN card : card'[i].dev = card[i].dev
  PROVE  /\ OneThread' /\ DevicesThere' /\ NothingLeft' /\ AttachedOnce'
         /\ \A s \in Thread : OwnsCard(s) <=> s = t
         /\ \A s \in Thread : OwnsCard(s)' <=> s = t
         /\ Attaches(t) /\ Attaches(t)'
         /\ \A s \in Thread : OwnsPort(s) \/ OwnsPort(s)' => s = t
         /\ \A s \in Thread : job'[s].at \notin {"delete", "uarts", "map"}
         /\ Live' = Live /\ job[t].card \in DOMAIN card /\ card[job[t].card].dev = job[t].dev
         /\ job[t].card \notin ToSet(list)
<1>1. Attaches(t) /\ Attaches(t)' /\ OwnsCard(t) /\ OwnsCard(t)' /\ job'[t].at \notin {"enable", "card"}
  BY DEF Attaches, AttachStage, OwnsCard, Filling
<1>2. ToSet(list) \subseteq DOMAIN card
  BY ElementsOf DEF IInv, TypeOK
<1>3. OneThread' /\ DevicesThere' /\ NothingLeft'
  BY <1>1, <1>2, AttachGoesOn
<1>4. /\ \A s \in Thread : OwnsCard(s)' <=> OwnsCard(s)
      /\ \A s \in Thread : OwnsPort(s) \/ OwnsPort(s)' => s = t
      /\ \A s \in Thread : job'[s].at # "delete"
      /\ job'["pci"].at \in {"enable", "card"} =>
           job["pci"].at \in {"enable", "card"} /\ job'["pci"].dev = job["pci"].dev
  BY <1>1, StillAttaching
<1>5. AttachedOnce'
  BY <1>4, AttachedOnceKept
<1>6. \A s \in Thread : OwnsCard(s) => s = t
  BY <1>1, AttachFacts
<1>7. Live' = Live
  BY <1>1, <1>4, <1>6 DEF Live
<1>8. \A s \in Thread : job'[s].at \notin {"uarts", "map"}
  BY <1>4, <1>6 DEF OwnsCard, Filling
<1>9. job[t].card \in DOMAIN card /\ card[job[t].card].dev = job[t].dev /\ job[t].card \notin ToSet(list)
  BY <1>1 DEF IInv, CardsApart
<1> QED BY <1>1, <1>3, <1>4, <1>5, <1>6, <1>7, <1>8, <1>9

(* A channel without a port, or with one that has a node and nothing else. *)
LEMMA ChannelLeft ==
  ASSUME IInv, NEW t \in Thread, job[t].at \in {"port", "group"}, NextChannel(t),
         UNCHANGED <<bus, mod, ports, nodes, cdevs, card, list, file>>
  PROVE  IInv'
<1>1. /\ job' \in [Thread -> JobRecord] /\ job'[t].at \in {"port", "list"}
      /\ At(t, "list")' \/ job'[t].channel < NumPorts
      /\ job'[t].dev = job[t].dev /\ job'[t].by = job[t].by /\ job'[t].card = job[t].card
      /\ job'[t].todo = job[t].todo
      /\ \A s \in Thread \ {t} : job'[s] = job[s]
      /\ minor' \in Nat /\ minor' = minor + 1
  BY NextChannelJob
<1>2. UNCHANGED <<place, bound, status, errno, loads, regs, found, ports, nodes, cdevs, card, list, file>>
  BY DEF bus, mod
<1>3. /\ OneThread' /\ DevicesThere' /\ NothingLeft' /\ AttachedOnce'
      /\ \A s \in Thread : OwnsCard(s) <=> s = t
      /\ \A s \in Thread : OwnsCard(s)' <=> s = t
      /\ Attaches(t)
      /\ \A s \in Thread : OwnsPort(s) \/ OwnsPort(s)' => s = t
      /\ \A s \in Thread : job'[s].at \notin {"delete", "uarts", "map"}
  BY <1>1, <1>2, PortStepKeeps
<1>4. \A s \in Thread : ~OwnsPort(s)'
  BY <1>1, <1>3 DEF OwnsPort
<1>5. TypeOK'
  BY <1>1, <1>2 DEF IInv, TypeOK, Here
<1>6. CardsApart' /\ PortsKnown'
  BY <1>1, <1>2, <1>3, <1>4, CardsKept
<1>7. FilesKept'
  <2>1. job'["pci"].at # "delete" /\ minor \in Nat
    BY <1>3 DEF Thread, IInv, TypeOK
  <2> QED BY <1>1, <1>2, <2>1, FilesKeptOpen
<1> QED BY <1>3, <1>5, <1>6, <1>7 DEF IInv

(* A new port has a minor no other has.                                    *)
LEMMA NewPortStep ==
  ASSUME IInv, NEW t \in Thread, NewPort(t)
  PROVE  IInv'
<1>1. job[t].at = "port" /\ UNCHANGED <<place, bound, status, errno, loads, regs, found, cdevs, card, list, file>>
  BY DEF NewPort, At, bus, mod
<1>2. CASE NextChannel(t) /\ UNCHANGED <<ports, nodes>>
  BY <1>1, <1>2, ChannelLeft DEF bus, mod
<1> DEFINE new == [minor |-> minor, dev |-> job[t].dev, channel |-> job[t].channel]
<1>3. CASE minor \notin nodes /\ ports' = ports \cup {new} /\ nodes' = nodes \cup {minor}
           /\ Goto(t, "group") /\ UNCHANGED minor
  <2>1. /\ job' \in [Thread -> JobRecord] /\ job'[t].at = "group"
        /\ job'[t].dev = job[t].dev /\ job'[t].by = job[t].by /\ job'[t].card = job[t].card
        /\ job'[t].channel = job[t].channel /\ job'[t].todo = job[t].todo
        /\ \A s \in Thread \ {t} : job'[s] = job[s]
    BY <1>3, GotoJob DEF IInv, Stage, Step
  <2>2. /\ job[t].channel < NumPorts /\ job[t].channel \in 0..NumPorts-1 /\ job[t].dev \in Device
    <3>1. job[t].channel < NumPorts /\ job[t] \in JobRecord /\ job[t].dev \in Device
      BY <1>1, AttachFacts DEF At, Attaches, AttachStage, Filling
    <3> QED BY <3>1, NumberAssumption DEF JobRecord
  <2>3. /\ OneThread' /\ DevicesThere' /\ NothingLeft' /\ AttachedOnce'
        /\ \A s \in Thread : OwnsCard(s) <=> s = t
        /\ \A s \in Thread : OwnsCard(s)' <=> s = t
        /\ Attaches(t)
        /\ \A s \in Thread : OwnsPort(s) \/ OwnsPort(s)' => s = t
        /\ \A s \in Thread : job'[s].at \notin {"delete", "uarts", "map"}
        /\ Live' = Live
    BY <1>1, <2>1, <2>2, PortStepKeeps
  <2>4. minor \in Nat /\ minor \notin cdevs /\ \A p \in ports : p.minor # minor
    BY <1>3 DEF IInv, TypeOK
  <2>5. TypeOK'
    <3>1. new \in [minor : nodes', dev : Device, channel : 0..NumPorts-1]
      BY <1>3, <2>2
    <3>2. \A p \in ports : p \in [minor : nodes', dev : Device, channel : 0..NumPorts-1]
      BY <1>3 DEF IInv, TypeOK
    <3>3. ports' \subseteq [minor : nodes', dev : Device, channel : 0..NumPorts-1]
      BY <1>3, <3>1, <3>2
    <3> HIDE DEF new
    <3> QED BY <1>1, <1>3, <2>1, <2>4, <3>3 DEF IInv, TypeOK, Here
  <2>6. CardsApart'
    BY <1>1, <2>1, <2>3, CardsApartKept
  <2>7. PortsKnown'
    <3>0. new \in ports' /\ new.minor = minor /\ new.dev = job[t].dev
      BY <1>3
    <3>1. \A p, q \in ports' : p.minor = q.minor => p = q
      BY <1>3, <2>4 DEF IInv, PortsKnown
    <3> HIDE DEF new
    <3>2. \A m \in nodes' : \E p \in ports' : p.minor = m
      BY <1>3, <3>0 DEF IInv, PortsKnown
    <3>3. minor' \notin cdevs' /\ \E p \in ports' : p.minor = minor' /\ p.dev = job'[t].dev
      BY <1>1, <1>3, <2>1, <2>4, <3>0
    <3>4. \A i : PortsOf(i)' = PortsOf(i)
      BY <1>1 DEF PortsOf
    <3>5. \A s \in Thread : OwnsPort(s)' => minor' \notin cdevs' /\ \E p \in ports' : p.minor = minor' /\ p.dev = job'[s].dev
      BY <2>3, <3>3
    <3>6. \A i \in DOMAIN card' : \A m \in PortsOf(i)' : \E p \in ports' : p.minor = m /\ p.dev = card'[i].dev
      BY <1>1, <1>3, <3>4 DEF IInv, PortsKnown
    <3>7. \A m \in cdevs' : \E i \in Live' : m \in PortsOf(i)'
      BY <1>1, <2>3, <3>4 DEF IInv, PortsKnown
    <3> QED BY <3>1, <3>2, <3>5, <3>6, <3>7 DEF PortsKnown
  <2>8. FilesKept'
    <3>1. job'["pci"].at # "delete"
      BY <2>3 DEF Thread
    <3> QED BY <1>1, <1>3, <2>4, <3>1, FilesKeptOpen
  <2> QED BY <2>3, <2>5, <2>6, <2>7, <2>8 DEF IInv
<1> QED BY <1>2, <1>3 DEF NewPort

(* The port gets its attributes, or is abandoned with its node.            *)
LEMMA CreateGroupStep ==
  ASSUME IInv, NEW t \in Thread, CreateGroup(t)
  PROVE  IInv'
<1>1. /\ job[t].at = "group"
      /\ UNCHANGED <<place, bound, status, errno, loads, regs, found, ports, nodes, cdevs, card, list, file>>
  BY DEF CreateGroup, At, bus, mod
<1>2. CASE NextChannel(t)
  BY <1>1, <1>2, ChannelLeft DEF bus, mod
<1>3. CASE Goto(t, "cdev") /\ UNCHANGED minor
  <2>1. /\ job' \in [Thread -> JobRecord] /\ job'[t].at = "cdev"
        /\ job'[t].dev = job[t].dev /\ job'[t].by = job[t].by /\ job'[t].card = job[t].card
        /\ job'[t].channel = job[t].channel /\ job'[t].todo = job[t].todo
        /\ \A s \in Thread \ {t} : job'[s] = job[s]
    BY <1>3, GotoJob DEF IInv, Stage, Step
  <2>2. job[t].channel < NumPorts
    BY <1>1, AttachFacts DEF At, Attaches, AttachStage, Filling
  <2>3. /\ OneThread' /\ DevicesThere' /\ NothingLeft' /\ AttachedOnce'
        /\ \A s \in Thread : OwnsCard(s) <=> s = t
        /\ \A s \in Thread : OwnsCard(s)' <=> s = t
        /\ Attaches(t)
        /\ \A s \in Thread : OwnsPort(s) \/ OwnsPort(s)' => s = t
        /\ \A s \in Thread : job'[s].at \notin {"delete", "uarts", "map"}
    BY <1>1, <2>1, <2>2, PortStepKeeps
  <2>4. OwnsPort(t)
    BY <1>1 DEF OwnsPort
  <2>5. TypeOK'
    BY <1>1, <1>3, <2>1 DEF IInv, TypeOK, Here
  <2>6. CardsApart' /\ PortsKnown'
    BY <1>1, <1>3, <2>1, <2>3, <2>4, CardsKept
  <2>7. FilesKept'
    <3>1. job'["pci"].at # "delete" /\ minor \in Nat
      BY <2>3 DEF Thread, IInv, TypeOK
    <3> QED BY <1>1, <1>3, <3>1, FilesKeptOpen
  <2> QED BY <2>3, <2>5, <2>6, <2>7 DEF IInv
<1> QED BY <1>2, <1>3 DEF CreateGroup

(* Adding a new element to a list without repetitions.                     *)
LEMMA Added ==
  ASSUME NEW S, NEW s \in Seq(S), NEW x \in S, x \notin ToSet(s),
         \A m, n \in DOMAIN s : s[m] = s[n] => m = n
  PROVE  /\ Append(s, x) \in Seq(S) /\ ToSet(Append(s, x)) = ToSet(s) \cup {x}
         /\ \A m, n \in DOMAIN Append(s, x) : Append(s, x)[m] = Append(s, x)[n] => m = n
<1> DEFINE r == Append(s, x)
<1>1. Len(s) \in Nat /\ DOMAIN s = 1..Len(s)
  BY ElementsOf
<1>2. /\ r \in Seq(S) /\ Len(r) = Len(s) + 1 /\ DOMAIN r = 1..Len(s)+1
      /\ \A k \in 1..Len(s) : r[k] = s[k]
      /\ r[Len(s) + 1] = x
  BY <1>1, AppendProperties
<1> HIDE DEF r
<1>3. ToSet(r) = ToSet(s) \cup {x}
  BY <1>1, <1>2 DEF ToSet
<1>4. \A k \in 1..Len(s) : s[k] # x
  BY <1>1 DEF ToSet
<1>5. \A m, n \in DOMAIN r : r[m] = r[n] => m = n
  BY <1>1, <1>2, <1>4
<1> QED BY <1>2, <1>3, <1>5 DEF r

(* A port without cdev is taken back, node and all.                        *)
LEMMA CdevFailsStep ==
  ASSUME IInv, NEW t \in Thread, job[t].at = "cdev", CdevFails, NextChannel(t),
         UNCHANGED <<bus, mod, list, file>>
  PROVE  IInv'
<1>1. /\ ports' = Without(minor) /\ nodes' = nodes \ {minor}
      /\ UNCHANGED <<place, bound, status, errno, loads, regs, found, cdevs, card, list, file>>
  BY DEF CdevFails, bus, mod
<1>2. /\ job' \in [Thread -> JobRecord] /\ job'[t].at \in {"port", "list"}
      /\ At(t, "list")' \/ job'[t].channel < NumPorts
      /\ job'[t].dev = job[t].dev /\ job'[t].by = job[t].by /\ job'[t].card = job[t].card
      /\ job'[t].todo = job[t].todo
      /\ \A s \in Thread \ {t} : job'[s] = job[s]
      /\ minor' \in Nat /\ minor' = minor + 1
  BY NextChannelJob
<1>3. /\ OneThread' /\ DevicesThere' /\ NothingLeft' /\ AttachedOnce'
      /\ \A s \in Thread : OwnsCard(s) <=> s = t
      /\ \A s \in Thread : OwnsCard(s)' <=> s = t
      /\ Attaches(t)
      /\ \A s \in Thread : OwnsPort(s) \/ OwnsPort(s)' => s = t
      /\ \A s \in Thread : job'[s].at \notin {"delete", "uarts", "map"}
      /\ Live' = Live
  BY <1>1, <1>2, PortStepKeeps
<1>4. \A s \in Thread : ~OwnsPort(s)' /\ ~At(s, "delete")'
  BY <1>2, <1>3 DEF OwnsPort, At
<1>5. OwnsPort(t) /\ minor \notin cdevs
  BY DEF OwnsPort, IInv, PortsKnown
<1>6. TypeOK'
  <2>1. \A p \in ports' : p \in [minor : nodes', dev : Device, channel : 0..NumPorts-1]
    BY <1>1 DEF IInv, TypeOK, Without
  <2> QED BY <1>1, <1>2, <1>5, <2>1 DEF IInv, TypeOK, Here
<1>7. CardsApart'
  BY <1>1, <1>2, <1>3, CardsApartKept
<1>8. PortsKnown'
  <2>1. \A i : PortsOf(i)' = PortsOf(i)
    BY <1>1 DEF PortsOf
  <2>2. \A i \in DOMAIN card : \A m \in PortsOf(i) : m # minor
    BY <1>5, MinorsOfCard DEF IInv
  <2>3. \A i \in DOMAIN card' : \A m \in PortsOf(i)' : \E p \in ports' : p.minor = m /\ p.dev = card'[i].dev
    BY <1>1, <2>1, <2>2 DEF IInv, PortsKnown, Without
  <2>4. /\ \A p, q \in ports' : p.minor = q.minor => p = q
        /\ \A m \in nodes' : \E p \in ports' : p.minor = m
    BY <1>1 DEF IInv, PortsKnown, Without
  <2>5. \A m \in cdevs' : \E i \in Live' : m \in PortsOf(i)'
    BY <1>1, <1>3, <2>1 DEF IInv, PortsKnown
  <2> QED BY <1>4, <2>3, <2>4, <2>5 DEF PortsKnown
<1>9. FilesKept'
  <2>1. job'["pci"].at # "delete" /\ minor \in Nat
    BY <1>3 DEF Thread, IInv, TypeOK
  <2> QED BY <1>1, <1>2, <2>1, FilesKeptOpen
<1> QED BY <1>3, <1>6, <1>7, <1>8, <1>9 DEF IInv

(* A port gets its cdev, and its card.                                     *)
LEMMA AddCdevStep ==
  ASSUME IInv, NEW t \in Thread, AddCdev(t)
  PROVE  IInv'
<1> DEFINE c == job[t].card
<1>1. /\ job[t].at = "cdev" /\ NextChannel(t)
      /\ UNCHANGED <<place, bound, status, errno, loads, regs, found, list, file>>
  BY DEF AddCdev, At, bus, mod
<1>2. CASE CdevFails
  BY <1>1, <1>2, CdevFailsStep DEF bus, mod
<1>3. CASE /\ cdevs' = cdevs \cup {minor} /\ card' = [card EXCEPT ![c].ports = Append(@, minor)]
           /\ UNCHANGED <<ports, nodes>>
  <2>1. /\ job' \in [Thread -> JobRecord] /\ job'[t].at \in {"port", "list"}
        /\ At(t, "list")' \/ job'[t].channel < NumPorts
        /\ job'[t].dev = job[t].dev /\ job'[t].by = job[t].by /\ job'[t].card = job[t].card
        /\ job'[t].todo = job[t].todo
        /\ \A s \in Thread \ {t} : job'[s] = job[s]
        /\ minor' \in Nat /\ minor' = minor + 1
    BY <1>1, NextChannelJob
  <2>2. /\ c \in DOMAIN card /\ card[c].dev = job[t].dev /\ OwnsPort(t) /\ OwnsCard(t)
        /\ minor \notin cdevs /\ \E p \in ports : p.minor = minor /\ p.dev = job[t].dev
    <3>1. OwnsPort(t) /\ OwnsCard(t) /\ Attaches(t)
      BY <1>1 DEF OwnsPort, OwnsCard, Filling, Attaches, AttachStage
    <3> QED BY <3>1 DEF IInv, CardsApart, PortsKnown
  <2>3. minor \in nodes /\ minor \in Nat
    BY <2>2 DEF IInv, TypeOK
  <2>4. /\ DOMAIN card' = DOMAIN card /\ \A i \in DOMAIN card \ {c} : card'[i] = card[i]
        /\ card'[c] = [card[c] EXCEPT !.ports = Append(card[c].ports, minor)]
    BY <1>3, <2>2
  <2>5. card[c] \in [dev : Device, uarts : BOOLEAN, ports : Seq(cdevs)] /\ minor \notin PortsOf(c)
    BY <2>2, MinorsOfCard DEF IInv, TypeOK
  <2>6. card'[c].dev = card[c].dev /\ card'[c].uarts = card[c].uarts /\ card'[c].ports = Append(card[c].ports, minor)
    BY <2>4, <2>5
  <2>7. /\ Append(card[c].ports, minor) \in Seq(cdevs')
        /\ ToSet(Append(card[c].ports, minor)) = PortsOf(c) \cup {minor}
        /\ \A m, n \in DOMAIN Append(card[c].ports, minor) :
             Append(card[c].ports, minor)[m] = Append(card[c].ports, minor)[n] => m = n
    <3>1. card[c].ports \in Seq(cdevs') /\ minor \in cdevs' /\ minor \notin ToSet(card[c].ports)
      BY <1>3, <2>5 DEF PortsOf
    <3>2. \A m, n \in DOMAIN card[c].ports : card[c].ports[m] = card[c].ports[n] => m = n
      BY <2>2 DEF IInv, CardsApart
    <3> QED BY <3>1, <3>2, Added, SMTT(30) DEF PortsOf
  <2>8. \A i \in DOMAIN card : PortsOf(i)' = IF i = c THEN PortsOf(i) \cup {minor} ELSE PortsOf(i)
    <3> SUFFICES ASSUME NEW i \in DOMAIN card
                 PROVE  PortsOf(i)' = IF i = c THEN PortsOf(i) \cup {minor} ELSE PortsOf(i)
      OBVIOUS
    <3>1. PortsOf(i)' = ToSet(card'[i].ports)
      BY DEF PortsOf
    <3> QED BY <2>4, <2>6, <2>7, <3>1 DEF PortsOf
  <2>9. \A i \in DOMAIN card : card'[i].dev = card[i].dev
    BY <2>4, <2>6
  <2>10. /\ OneThread' /\ DevicesThere' /\ NothingLeft' /\ AttachedOnce'
         /\ \A s \in Thread : OwnsCard(s) <=> s = t
         /\ \A s \in Thread : OwnsCard(s)' <=> s = t
         /\ Attaches(t)
         /\ \A s \in Thread : OwnsPort(s) \/ OwnsPort(s)' => s = t
         /\ \A s \in Thread : job'[s].at \notin {"delete", "uarts", "map"}
         /\ Live' = Live
    BY <1>1, <2>1, <2>4, <2>9, PortStepKeeps
  <2>11. \A s \in Thread : ~OwnsPort(s)' /\ ~At(s, "delete")'
    BY <2>1, <2>10 DEF OwnsPort, At
  <2>12. TypeOK'
    <3>1. \A i \in DOMAIN card' : card'[i] \in [dev : Device, uarts : BOOLEAN, ports : Seq(cdevs')]
      <4>1. ASSUME NEW i \in DOMAIN card, i # c
            PROVE  card'[i] \in [dev : Device, uarts : BOOLEAN, ports : Seq(cdevs')]
        <5>1. card[i] \in [dev : Device, uarts : BOOLEAN, ports : Seq(cdevs)]
          BY DEF IInv, TypeOK
        <5>2. Seq(cdevs) \subseteq Seq(cdevs')
          BY <1>3
        <5> QED BY <2>4, <4>1, <5>1, <5>2
      <4>2. card'[c] \in [dev : Device, uarts : BOOLEAN, ports : Seq(cdevs')]
        BY <2>4, <2>5, <2>7
      <4> QED BY <2>4, <4>1, <4>2
    <3>2. cdevs' \subseteq nodes
      BY <1>3, <2>3 DEF IInv, TypeOK
    <3> QED BY <1>1, <1>3, <2>1, <2>4, <3>1, <3>2 DEF IInv, TypeOK, Here
  <2>13. CardsApart'
    <3>1. \A i \in DOMAIN card : minor \notin PortsOf(i)
      BY <2>2, MinorsOfCard DEF IInv
    <3>2. \A i, j \in DOMAIN card' : i # j => PortsOf(i)' \cap PortsOf(j)' = {}
      <4> SUFFICES ASSUME NEW i \in DOMAIN card, NEW j \in DOMAIN card, i # j
                   PROVE  PortsOf(i)' \cap PortsOf(j)' = {}
        BY <2>4
      <4>1. PortsOf(i) \cap PortsOf(j) = {}
        BY DEF IInv, CardsApart
      <4>2. PortsOf(i)' \subseteq PortsOf(i) \cup (IF i = c THEN {minor} ELSE {})
        BY <2>8
      <4>3. PortsOf(j)' \subseteq PortsOf(j) \cup (IF j = c THEN {minor} ELSE {})
        BY <2>8
      <4> QED BY <3>1, <4>1, <4>2, <4>3
    <3>3. \A i \in DOMAIN card' : \A m, n \in DOMAIN card'[i].ports :
            card'[i].ports[m] = card'[i].ports[n] => m = n
      <4>1. ASSUME NEW i \in DOMAIN card', i # c, NEW m \in DOMAIN card'[i].ports, NEW n \in DOMAIN card'[i].ports,
                   card'[i].ports[m] = card'[i].ports[n]
            PROVE  m = n
        <5>1. card'[i] = card[i] /\ i \in DOMAIN card
          BY <2>4, <4>1
        <5> QED BY <4>1, <5>1 DEF IInv, CardsApart
      <4>2. \A m, n \in DOMAIN card'[c].ports : card'[c].ports[m] = card'[c].ports[n] => m = n
        BY <2>6, <2>7
      <4> QED BY <4>1, <4>2
    <3>4. \A s \in Thread : /\ OwnsCard(s)' => job'[s].card \in DOMAIN card' \ ToSet(list')
                            /\ Attaches(s)' /\ OwnsCard(s)' => card'[job'[s].card].dev = job'[s].dev
      BY <1>1, <2>1, <2>2, <2>4, <2>6, <2>10 DEF IInv, CardsApart
    <3>5. \A m, n \in DOMAIN list' : list'[m] = list'[n] => m = n
      BY <1>1 DEF IInv, CardsApart
    <3> QED BY <2>10, <3>2, <3>3, <3>4, <3>5 DEF CardsApart
  <2>14. PortsKnown'
    <3>1. \A i \in DOMAIN card' : \A m \in PortsOf(i)' : \E p \in ports' : p.minor = m /\ p.dev = card'[i].dev
      <4> SUFFICES ASSUME NEW i \in DOMAIN card, NEW m \in PortsOf(i)'
                   PROVE  \E p \in ports : p.minor = m /\ p.dev = card[i].dev
        BY <1>3, <2>4, <2>9
      <4>1. CASE m \in PortsOf(i)
        BY <4>1 DEF IInv, PortsKnown
      <4>2. CASE i = c /\ m = minor
        BY <2>2, <4>2
      <4> QED BY <2>8, <4>1, <4>2
    <3>2. \A m \in cdevs' : \E i \in Live' : m \in PortsOf(i)'
      <4>1. c \in Live /\ Live \subseteq DOMAIN card
        <5>1. ToSet(list) \subseteq DOMAIN card
          BY ElementsOf DEF IInv, TypeOK
        <5> QED BY <2>2, <5>1 DEF Live, IInv, CardsApart
      <4>2. \A i \in Live : PortsOf(i) \subseteq PortsOf(i)'
        BY <2>8, <4>1
      <4>3. \A m \in cdevs : \E i \in Live : m \in PortsOf(i)
        BY DEF IInv, PortsKnown
      <4> QED BY <1>3, <2>8, <2>10, <4>1, <4>2, <4>3
    <3> QED BY <1>3, <2>11, <3>1, <3>2 DEF IInv, PortsKnown
  <2>15. FilesKept'
    <3>1. \A m \in cdevs' : m < minor'
      BY <1>3, <2>1, <2>3 DEF IInv, FilesKept, TypeOK
    <3>2. \A u \in User : file'[u] \in Nat => file'[u] < minor'
      BY <1>1, <2>1, <2>3 DEF IInv, FilesKept, TypeOK
    <3>3. ~At("pci", "delete")'
      BY <2>11 DEF Thread
    <3> QED BY <1>1, <1>3, <3>1, <3>2, <3>3 DEF IInv, FilesKept
  <2> QED BY <2>10, <2>12, <2>13, <2>14, <2>15 DEF IInv
<1> QED BY <1>2, <1>3 DEF AddCdev

(* The card goes into the list with all its ports.                         *)
LEMMA ListCardStep ==
  ASSUME IInv, NEW t \in Thread, ListCard(t)
  PROVE  IInv'
<1> DEFINE c == job[t].card
<1>1. /\ job[t].at = "list" /\ list' = Append(list, c) /\ Attaches(t) /\ OwnsCard(t) /\ ~OwnsPort(t)
      /\ job' = [job EXCEPT ![t] = AfterAttach(t)]
      /\ bound' = IF job[t].by = "probe" THEN bound \cup {job[t].dev} ELSE bound
      /\ UNCHANGED <<place, status, errno, loads, regs, found, minor, ports, nodes, cdevs, card, file>>
  BY DEF ListCard, Attached, At, Attaches, AttachStage, OwnsCard, OwnsPort, Filling, mod, objects
<1>2. c \in DOMAIN card /\ c \notin ToSet(list) /\ card[c].dev = job[t].dev /\ list \in Seq(DOMAIN card)
      /\ ToSet(list) \subseteq DOMAIN card
  BY <1>1, ElementsOf DEF IInv, CardsApart, TypeOK
<1>3. /\ list' \in Seq(DOMAIN card) /\ ToSet(list') = ToSet(list) \cup {c}
      /\ \A m, n \in DOMAIN list' : list'[m] = list'[n] => m = n
  BY <1>1, <1>2, Added DEF IInv, CardsApart
<1>4. /\ job' \in [Thread -> JobRecord]
      /\ \A s \in Thread : ~Attaches(s)' /\ ~OwnsCard(s)' /\ ~OwnsPort(s)'
  BY <1>1, AttachDone
<1>5. \A s \in Thread : job'[s].at \notin {"uarts", "map", "delete", "enable", "card"}
  BY <1>4 DEF OwnsCard, Filling, Attaches, AttachStage
<1>6. TypeOK'
  BY <1>1, <1>3, <1>4, BoundFits DEF IInv, TypeOK, Here
<1>7. OneThread' /\ DevicesThere' /\ NothingLeft'
  <2>1. \A i \in ToSet(list') : i \in ToSet(list) \/ (OwnsCard(t) /\ i = job[t].card)
    BY <1>1, <1>3
  <2> QED BY <1>1, <2>1, AttachReturns
<1>8. \A i : PortsOf(i)' = PortsOf(i)
  BY <1>1 DEF PortsOf
<1>9. CardsApart'
  BY <1>1, <1>3, <1>4, <1>5, <1>8 DEF IInv, CardsApart
<1>10. PortsKnown'
  <2>1. \A s \in Thread \ {t} : ~OwnsCard(s)
    BY <1>1, AttachFacts
  <2>2. Live' = Live
    BY <1>1, <1>3, <1>4, <2>1 DEF Live
  <2> QED BY <1>1, <1>4, <1>8, <2>2 DEF IInv, PortsKnown
<1>11. FilesKept'
  <2>1. job'["pci"].at # "delete" /\ minor \in Nat
    BY <1>5 DEF Thread, IInv, TypeOK
  <2> QED BY <1>1, <2>1, FilesKeptOpen
<1>12. AttachedOnce'
  <2>1. ASSUME NEW d \in Device \ AtStart, loads \in {0, 1}, job[t].dev = d PROVE d \in bound' /\ place[d] # "away"
    <3>1. place[d] = "here"
      BY <1>1, <2>1, AttachFacts DEF Here
    <3>2. status # "loading"
      BY <2>1, <3>1 DEF IInv, AttachedOnce
    <3>3. job[t].by = "probe"
      BY <1>1, <3>2, AttachFacts DEF Thread
    <3> QED BY <1>1, <2>1, <3>1, <3>3
  <2>2. bound \subseteq bound' /\ job'["pci"].at \notin {"enable", "card"}
    BY <1>1, <1>5, BoundFits DEF Thread
  <2> QED BY <1>1, <1>2, <1>3, <2>1, <2>2 DEF IInv, AttachedOnce
<1> QED BY <1>6, <1>7, <1>9, <1>10, <1>11, <1>12 DEF IInv

(* While a thread deletes a card the other one rests.                      *)
LEMMA DeleteFacts ==
  ASSUME IInv, NEW t \in Thread, job[t].at = "delete"
  PROVE  /\ \A s \in Thread \ {t} : job[s].at = "rest" /\ ~OwnsCard(s)
         /\ \A s \in Thread : ~Attaches(s) /\ ~OwnsPort(s)
         /\ status = (IF t = "loader" THEN "unloading" ELSE "in")
         /\ OwnsCard(t) /\ job[t].card \in DOMAIN card /\ job[t].card \notin ToSet(list)
         /\ ToSet(list) \subseteq DOMAIN card /\ loads # 0
<1>1. \A s \in Thread \ {t} : job[s].at = "rest"
  BY DEF IInv, OneThread, At, Thread
<1>2. /\ \A s \in Thread \ {t} : ~OwnsCard(s)
      /\ \A s \in Thread : ~Attaches(s) /\ ~OwnsPort(s)
      /\ OwnsCard(t)
  BY <1>1 DEF OwnsCard, OwnsPort, Attaches, AttachStage, Filling
<1>3. status = IF t = "loader" THEN "unloading" ELSE "in"
  BY <1>1 DEF IInv, OneThread, At, Thread
<1>4. job[t].card \in DOMAIN card /\ job[t].card \notin ToSet(list) /\ ToSet(list) \subseteq DOMAIN card
  BY <1>2, ElementsOf DEF IInv, CardsApart, TypeOK
<1>5. loads # 0
  BY <1>3 DEF IInv, AttachedOnce
<1> QED BY <1>1, <1>2, <1>3, <1>4, <1>5

(* A sequence is one over any set that holds its elements.                 *)
LEMMA SeqOver ==
  ASSUME NEW S, NEW T, NEW s \in Seq(S), ToSet(s) \subseteq T
  PROVE  s \in Seq(T)
<1>1. Len(s) \in Nat /\ DOMAIN s = 1..Len(s) /\ s \in [1..Len(s) -> S]
  BY ElementsOf
<1>2. \A k \in 1..Len(s) : s[k] \in T
  BY <1>1 DEF ToSet
<1> QED BY <1>1, <1>2

(* A port goes with its node and its cdev; no file is open on it, or its   *)
(* device is gone.                                                         *)
LEMMA DeletePortStep ==
  ASSUME IInv, NEW t \in Thread, DeletePort(t)
  PROVE  IInv'
<1> DEFINE c == job[t].card
           m == Head(card[c].ports)
<1>1. /\ job[t].at = "delete" /\ card[c].ports # << >>
      /\ ports' = Without(m) /\ nodes' = nodes \ {m} /\ cdevs' = cdevs \ {m}
      /\ card' = [card EXCEPT ![c].ports = Tail(@)]
      /\ UNCHANGED <<place, bound, status, errno, loads, regs, found, minor, list, job, file>>
  BY DEF DeletePort, At, bus, mod
<1>2. /\ \A s \in Thread \ {t} : job[s].at = "rest" /\ ~OwnsCard(s)
      /\ \A s \in Thread : ~Attaches(s) /\ ~OwnsPort(s)
      /\ status = (IF t = "loader" THEN "unloading" ELSE "in")
      /\ OwnsCard(t) /\ c \in DOMAIN card /\ c \notin ToSet(list) /\ ToSet(list) \subseteq DOMAIN card
  BY <1>1, DeleteFacts
<1>3. card[c] \in [dev : Device, uarts : BOOLEAN, ports : Seq(cdevs)]
  BY <1>2 DEF IInv, TypeOK
<1>4. /\ Tail(card[c].ports) \in Seq(cdevs) /\ m \in PortsOf(c)
      /\ ToSet(Tail(card[c].ports)) = PortsOf(c) \ {m}
      /\ \A k, n \in DOMAIN Tail(card[c].ports) : Tail(card[c].ports)[k] = Tail(card[c].ports)[n] => k = n
  <2>1. card[c].ports \in Seq(cdevs) /\ \A k, n \in DOMAIN card[c].ports : card[c].ports[k] = card[c].ports[n] => k = n
    BY <1>2, <1>3 DEF IInv, CardsApart
  <2>2. m = card[c].ports[1] /\ 1 \in DOMAIN card[c].ports
    BY <1>1, <2>1, HeadTaken
  <2>3. ToSet(Tail(card[c].ports)) = ToSet(card[c].ports) \ {card[c].ports[1]}
    BY <1>1, <2>1, HeadTaken
  <2>4. Tail(card[c].ports) \in Seq(cdevs)
    BY <1>1, <2>1, HeadTaken
  <2>5. \A k, n \in DOMAIN Tail(card[c].ports) : Tail(card[c].ports)[k] = Tail(card[c].ports)[n] => k = n
    BY <1>1, <2>1, HeadTaken
  <2> QED BY <2>2, <2>3, <2>4, <2>5 DEF PortsOf, ToSet
<1> HIDE DEF m
<1>5. m \in cdevs /\ m \in Nat /\ \A i \in DOMAIN card : i # c => m \notin PortsOf(i)
  BY <1>2, <1>4, MinorsOfCard DEF IInv, CardsApart
<1>6. /\ DOMAIN card' = DOMAIN card /\ \A i \in DOMAIN card : i # c => card'[i] = card[i]
      /\ card'[c] = [card[c] EXCEPT !.ports = Tail(card[c].ports)]
  BY <1>1, <1>2
<1>7. card'[c].dev = card[c].dev /\ card'[c].uarts = card[c].uarts /\ card'[c].ports = Tail(card[c].ports)
  BY <1>3, <1>6
<1>8. \A i \in DOMAIN card : PortsOf(i)' = PortsOf(i) \ {m} /\ card'[i].dev = card[i].dev
  <2> SUFFICES ASSUME NEW i \in DOMAIN card PROVE PortsOf(i)' = PortsOf(i) \ {m} /\ card'[i].dev = card[i].dev
    OBVIOUS
  <2>1. PortsOf(i)' = ToSet(card'[i].ports)
    BY DEF PortsOf
  <2>2. CASE i = c
    BY <1>4, <1>7, <2>1, <2>2
  <2>3. CASE i # c
    BY <1>5, <1>6, <2>1, <2>3 DEF PortsOf
  <2> QED BY <2>2, <2>3
<1>9. TypeOK'
  <2>1. ASSUME NEW i \in DOMAIN card' PROVE card'[i] \in [dev : Device, uarts : BOOLEAN, ports : Seq(cdevs')]
    <3>1. card'[i] \in [dev : Device, uarts : BOOLEAN, ports : Seq(cdevs)]
      <4>1. CASE i = c
        BY <1>3, <1>4, <1>6, <4>1
      <4>2. CASE i # c
        BY <1>6, <4>2 DEF IInv, TypeOK
      <4> QED BY <4>1, <4>2
    <3>2. ToSet(card'[i].ports) \subseteq cdevs'
      <4>1. PortsOf(i)' = PortsOf(i) \ {m} /\ PortsOf(i) \subseteq cdevs
        BY <1>6, <1>8, MinorsOfCard DEF IInv
      <4>2. PortsOf(i)' = ToSet(card'[i].ports)
        BY DEF PortsOf
      <4> QED BY <1>1, <4>1, <4>2
    <3>3. card'[i].ports \in Seq(cdevs')
      BY <3>1, <3>2, SeqOver
    <3> QED BY <3>1, <3>3
  <2>2. ports' \subseteq [minor : nodes', dev : Device, channel : 0..NumPorts-1]
    <3> SUFFICES ASSUME NEW p \in ports' PROVE p \in [minor : nodes', dev : Device, channel : 0..NumPorts-1]
      OBVIOUS
    <3>1. p \in [minor : nodes, dev : Device, channel : 0..NumPorts-1] /\ p.minor # m
      BY <1>1 DEF IInv, TypeOK, Without
    <3> QED BY <1>1, <3>1
  <2> QED BY <1>1, <1>6, <2>1, <2>2 DEF IInv, TypeOK, Here
<1>10. OneThread'
  BY <1>1 DEF IInv, OneThread, At, Attaches
<1>11. DevicesThere'
  BY <1>1, <1>2 DEF IInv, DevicesThere, At, Attaches
<1>12. CardsApart'
  <2>1. \A i, j \in DOMAIN card' : i # j => PortsOf(i)' \cap PortsOf(j)' = {}
    <3> SUFFICES ASSUME NEW i \in DOMAIN card, NEW j \in DOMAIN card, i # j
                 PROVE  PortsOf(i)' \cap PortsOf(j)' = {}
      BY <1>6
    <3>1. PortsOf(i) \cap PortsOf(j) = {}
      BY DEF IInv, CardsApart
    <3> QED BY <1>8, <3>1
  <2>2. \A i \in DOMAIN card' : \A k, n \in DOMAIN card'[i].ports :
          card'[i].ports[k] = card'[i].ports[n] => k = n
    <3>1. ASSUME NEW i \in DOMAIN card', i # c, NEW k \in DOMAIN card'[i].ports, NEW n \in DOMAIN card'[i].ports,
                 card'[i].ports[k] = card'[i].ports[n]
          PROVE  k = n
      <4>1. card'[i] = card[i] /\ i \in DOMAIN card
        BY <1>6, <3>1
      <4> QED BY <3>1, <4>1 DEF IInv, CardsApart
    <3>2. \A k, n \in DOMAIN card'[c].ports : card'[c].ports[k] = card'[c].ports[n] => k = n
      BY <1>4, <1>7
    <3> QED BY <3>1, <3>2
  <2>3. \A s \in Thread : /\ OwnsCard(s)' => job'[s].card \in DOMAIN card' \ ToSet(list')
                          /\ ~Attaches(s)'
                          /\ job'[s].at \notin {"uarts", "map"}
    BY <1>1, <1>2, <1>6 DEF IInv, CardsApart, OwnsCard, Attaches
  <2>4. \A k, n \in DOMAIN list' : list'[k] = list'[n] => k = n
    BY <1>1 DEF IInv, CardsApart
  <2> QED BY <2>1, <2>2, <2>3, <2>4 DEF CardsApart
<1>13. PortsKnown'
  <2>1. Live' = Live /\ Live \subseteq DOMAIN card
    BY <1>1, <1>2 DEF Live, OwnsCard
  <2>2. \A p, q \in ports' : p.minor = q.minor => p = q
    BY <1>1 DEF IInv, PortsKnown, Without
  <2>3. \A k \in nodes' : \E p \in ports' : p.minor = k
    BY <1>1 DEF IInv, PortsKnown, Without
  <2>4. \A i \in DOMAIN card' : \A k \in PortsOf(i)' : \E p \in ports' : p.minor = k /\ p.dev = card'[i].dev
    <3> SUFFICES ASSUME NEW i \in DOMAIN card, NEW k \in PortsOf(i)'
                 PROVE  \E p \in ports' : p.minor = k /\ p.dev = card[i].dev
      BY <1>6, <1>8
    <3>1. k \in PortsOf(i) /\ k # m
      BY <1>8
    <3> QED BY <1>1, <3>1 DEF IInv, PortsKnown, Without
  <2>5. \A k \in cdevs' : \E i \in Live' : k \in PortsOf(i)'
    <3> SUFFICES ASSUME NEW k \in cdevs, k # m PROVE \E i \in Live' : k \in PortsOf(i)'
      BY <1>1
    <3>1. PICK i \in Live : k \in PortsOf(i)
      BY DEF IInv, PortsKnown
    <3>2. PortsOf(i)' = PortsOf(i) \ {m}
      BY <1>8, <2>1
    <3> QED BY <2>1, <3>1, <3>2
  <2>6. \A s \in Thread : ~OwnsPort(s)'
    BY <1>1, <1>2 DEF OwnsPort
  <2> QED BY <2>2, <2>3, <2>4, <2>5, <2>6 DEF PortsKnown
<1>14. FilesKept'
  <2>1. cdevs' \subseteq cdevs /\ status # "loading"
    BY <1>1, <1>2
  <2>2. At("pci", "delete")' => place'[card'[job'["pci"].card].dev] = "gone"
    <3>1. job["pci"].at = "delete" => t = "pci"
      BY <1>2 DEF Thread
    <3> QED BY <1>1, <1>7, <3>1 DEF IInv, FilesKept, At
  <2> QED BY <1>1, <2>1, <2>2 DEF IInv, FilesKept
<1>15. NothingLeft'
  BY <1>1, <1>2 DEF IInv, NothingLeft, NothingCallable, Registering, Thread
<1>16. AttachedOnce'
  BY <1>1, <1>6, <1>8, AttachedOnceKept
<1> QED BY <1>9, <1>10, <1>11, <1>12, <1>13, <1>14, <1>15, <1>16 DEF IInv

(* An empty card leaves memory; the list does not know it any more.        *)
LEMMA FreeCardStep ==
  ASSUME IInv, NEW t \in Thread, FreeCard(t)
  PROVE  IInv'
<1> DEFINE c == job[t].card
           record == IF t = "loader" THEN [Rest EXCEPT !.at = "exit"] ELSE Rest
<1>1. /\ job[t].at = "delete" /\ card[c].ports = << >>
      /\ card' = [i \in DOMAIN card \ {c} |-> card[i]]
      /\ job' = [job EXCEPT ![t] = record]
      /\ UNCHANGED <<place, bound, status, errno, loads, regs, found, minor, ports, nodes, cdevs, list, file>>
  BY DEF FreeCard, At, bus, mod
<1>2. /\ \A s \in Thread \ {t} : job[s].at = "rest" /\ ~OwnsCard(s)
      /\ \A s \in Thread : ~Attaches(s) /\ ~OwnsPort(s)
      /\ status = (IF t = "loader" THEN "unloading" ELSE "in")
      /\ OwnsCard(t) /\ c \in DOMAIN card /\ c \notin ToSet(list) /\ ToSet(list) \subseteq DOMAIN card
  BY <1>1, DeleteFacts
<1>3. record \in JobRecord /\ record.at = (IF t = "loader" THEN "exit" ELSE "rest") /\ (t = "pci" => record = Rest)
  <2>1. Rest \in JobRecord /\ Rest.at = "rest"
    BY NumberAssumption DEF Rest, JobRecord, Stage, Step
  <2>2. [Rest EXCEPT !.at = "exit"] \in JobRecord /\ [Rest EXCEPT !.at = "exit"].at = "exit"
    BY <2>1 DEF JobRecord, Stage
  <2> QED BY <2>1, <2>2
<1> HIDE DEF record
<1>4. job'[t] = record /\ job' \in [Thread -> JobRecord] /\ \A s \in Thread \ {t} : job'[s] = job[s]
  BY <1>1, <1>3 DEF IInv, TypeOK
<1>5. /\ \A s \in Thread : job'[s].at \in {"rest", "exit"} /\ (job'[s].at = "exit" => s = "loader" /\ t = "loader")
      /\ \A s \in Thread : At(s, "rest")' => job'[s] = Rest
  BY <1>2, <1>3, <1>4 DEF IInv, DevicesThere, At, Thread
<1>6. \A s \in Thread : ~Attaches(s)' /\ ~OwnsCard(s)' /\ ~OwnsPort(s)' /\ ~At(s, "delete")'
  BY <1>5 DEF Attaches, OwnsCard, OwnsPort, AttachStage, Filling, At
<1>7. /\ DOMAIN card' = DOMAIN card \ {c} /\ \A i \in DOMAIN card' : card'[i] = card[i]
      /\ \A i \in DOMAIN card' : PortsOf(i)' = PortsOf(i)
  BY <1>1 DEF PortsOf
<1>8. TypeOK'
  <2>1. IsFiniteSet(DOMAIN card')
    BY <1>7, FS_Subset DEF IInv, TypeOK
  <2>2. list' \in Seq(DOMAIN card')
    BY <1>1, <1>2, <1>7, SeqOver DEF IInv, TypeOK
  <2> QED BY <1>1, <1>4, <1>7, <2>1, <2>2 DEF IInv, TypeOK, Here
<1>9. OneThread'
  BY <1>1, <1>2, <1>3, <1>4, <1>6 DEF OneThread, At, Registering, Thread
<1>10. DevicesThere'
  BY <1>1, <1>2, <1>5, <1>6 DEF DevicesThere
<1>11. CardsApart'
  BY <1>1, <1>5, <1>6, <1>7 DEF IInv, CardsApart
<1>12. PortsKnown'
  <2>1. \A k \in cdevs' : \E i \in Live' : k \in PortsOf(i)'
    <3> SUFFICES ASSUME NEW k \in cdevs PROVE \E i \in Live' : k \in PortsOf(i)'
      BY <1>1
    <3>1. PICK i \in Live : k \in PortsOf(i)
      BY DEF IInv, PortsKnown
    <3>2. i # c
      BY <1>1, <3>1 DEF PortsOf, ToSet
    <3>3. i \in ToSet(list) /\ i \in DOMAIN card
      BY <1>2, <3>2 DEF Live
    <3> QED BY <1>1, <1>7, <3>1, <3>2, <3>3 DEF Live
  <2> QED BY <1>1, <1>6, <1>7, <2>1 DEF IInv, PortsKnown
<1>13. FilesKept'
  BY <1>1, <1>6 DEF IInv, FilesKept, Thread
<1>14. NothingLeft'
  BY <1>1, <1>2, <1>5 DEF IInv, NothingLeft, NothingCallable, Registering, Thread
<1>15. AttachedOnce'
  <2>1. \A i \in ToSet(list') : i \in DOMAIN card'
    BY <1>1, <1>2, <1>7
  <2>2. job'["pci"].at \notin {"enable", "card"}
    BY <1>5 DEF Thread
  <2> QED BY <1>1, <1>7, <2>1, <2>2 DEF IInv, AttachedOnce
<1> QED BY <1>8, <1>9, <1>10, <1>11, <1>12, <1>13, <1>14, <1>15 DEF IInv

(* Every step keeps the invariant while the threads keep apart.            *)
LEMMA NextKeepsIInv ==
  ASSUME IInv, Orderly, [Next]_vars PROVE IInv'
<1>1. CASE Insert
  BY <1>1, InsertStep
<1>2. CASE Load
  BY <1>2, RegisterStep, ProbeNextStep, LoopNextStep DEF Load
<1>3. CASE Unload \/ Exit
  BY <1>3, UnloadStep, ExitStep
<1>4. ASSUME NEW t \in Thread, Attach(t) PROVE IInv'
  BY <1>4, EnableStep, NewCardStep, InitUartsStep, MapRegionsStep,
     NewPortStep, CreateGroupStep, AddCdevStep, ListCardStep DEF Attach
<1>5. ASSUME NEW t \in Thread, Delete(t) PROVE IInv'
  BY <1>5, DeletePortStep, FreeCardStep DEF Delete
<1>6. ASSUME NEW d \in Device, Plug(d) \/ Unplug(d) PROVE IInv'
  BY <1>6, PlugStep, UnplugStep
<1>7. ASSUME NEW u \in User, Close(u) \/ \E m \in nodes : Open(u, m) PROVE IInv'
  BY <1>7, CloseStep, OpenStep
<1>8. CASE UNCHANGED vars
  <2> USE <1>8 DEF vars
  <2>1. TypeOK'
    BY DEF IInv, TypeOK, Here
  <2>2. OneThread' /\ DevicesThere'
    BY DEF IInv, OneThread, DevicesThere, At, Attaches, Here
  <2>3. CardsApart' /\ PortsKnown'
    BY CardsKept DEF OwnsCard, OwnsPort, Attaches
  <2>4. FilesKept'
    BY DEF IInv, FilesKept, At
  <2>5. NothingLeft' /\ AttachedOnce'
    BY DEF IInv, NothingLeft, Registered, NothingCallable, AttachedOnce, At, Attaches, Here
  <2> QED BY <2>1, <2>2, <2>3, <2>4, <2>5 DEF IInv
<1> QED BY <1>1, <1>2, <1>3, <1>4, <1>5, <1>6, <1>7, <1>8 DEF Next

(* For any devices, ports per card and users, and whichever steps fail: the *)
(* books of a driver whose threads keep apart are in order after every     *)
(* step, whatever users open and close meanwhile.                          *)
THEOREM Invariance ==
  ASSUME Orderly PROVE Spec => []IInv
<1>1. IInv /\ [Next]_vars => IInv'
  BY NextKeepsIInv
<1> QED BY <1>1, InitHolds, PTL DEF Spec

(* Every minor number, card number and handle stays one of those in use.   *)
THEOREM TypeCorrect ==
  ASSUME Orderly PROVE Spec => []TypeOK
<1>1. Spec => []IInv
  BY Invariance
<1>2. IInv => TypeOK
  BY DEF IInv
<1> QED BY <1>1, <1>2, PTL

(* With nobody in the driver, the live cards are those of the list.        *)
LEMMA LiveAtRest ==
  ASSUME IInv, Settled
  PROVE  Live = ToSet(list) /\ ToSet(list) \subseteq DOMAIN card
<1>1. \A t \in Thread : ~OwnsCard(t)
  BY DEF Settled, At, OwnsCard, Filling
<1>2. ToSet(list) \subseteq DOMAIN card
  BY ElementsOf DEF IInv, TypeOK
<1> QED BY <1>1, <1>2 DEF Live

(* Once the module is loaded, the list and what users can reach are the    *)
(* same cards and ports (serialfc_card_new, serialfc_port_new).            *)
THEOREM RegistryHolds ==
  ASSUME Orderly PROVE Spec => []Registry
<1>1. Spec => []IInv
  BY Invariance
<1>2. IInv => Registry
  <2> SUFFICES ASSUME IInv, Settled
               PROVE  /\ \A i \in ToSet(list) : i \in DOMAIN card /\ ListedOnce(i)
                      /\ \A i \in ToSet(list) : \A m \in PortsOf(i) :
                           m \in nodes /\ m \in cdevs /\ \E p \in ports : p.minor = m /\ p.dev = card[i].dev
                      /\ \A m \in cdevs : Cardinality({i \in ToSet(list) : m \in PortsOf(i)}) = 1
                      /\ \A m \in nodes : \E p \in ports : p.minor = m
    BY DEF Registry, PortsOf
  <2>1. Live = ToSet(list) /\ ToSet(list) \subseteq DOMAIN card
    BY LiveAtRest
  <2>2. ASSUME NEW i \in ToSet(list) PROVE ListedOnce(i)
    <3>1. DOMAIN list = 1..Len(list)
      BY ElementsOf DEF IInv, TypeOK
    <3>2. PICK n \in 1..Len(list) : list[n] = i
      BY <2>2 DEF ToSet
    <3>3. {k \in 1..Len(list) : list[k] = i} = {n}
      BY <3>1, <3>2 DEF IInv, CardsApart
    <3> QED BY <3>3, FS_Singleton DEF ListedOnce
  <2>3. ASSUME NEW i \in ToSet(list), NEW m \in PortsOf(i)
        PROVE  m \in nodes /\ m \in cdevs /\ \E p \in ports : p.minor = m /\ p.dev = card[i].dev
    <3>1. m \in cdevs /\ cdevs \subseteq nodes
      BY <2>1, MinorsOfCard DEF IInv, TypeOK
    <3> QED BY <2>1, <3>1 DEF IInv, PortsKnown
  <2>4. ASSUME NEW m \in cdevs PROVE Cardinality({i \in ToSet(list) : m \in PortsOf(i)}) = 1
    <3>1. PICK i \in ToSet(list) : m \in PortsOf(i)
      BY <2>1 DEF IInv, PortsKnown
    <3>2. {j \in ToSet(list) : m \in PortsOf(j)} = {i}
      BY <2>1, <3>1 DEF IInv, CardsApart
    <3> QED BY <3>2, FS_Singleton
  <2>5. \A m \in nodes : \E p \in ports : p.minor = m
    BY DEF IInv, PortsKnown
  <2> QED BY <2>1, <2>2, <2>3, <2>4, <2>5
<1> QED BY <1>1, <1>2, PTL

(* When the module is out, unloaded or refused by serialfc_init, the kernel *)
(* can call no function of it, unless serialfc_init has returned from its  *)
(* loop (main.c:387-388): then everything is still registered.             *)
THEOREM NothingCallableHolds ==
  ASSUME Orderly PROVE Spec => []NothingCallable
<1>1. Spec => []IInv
  BY Invariance
<1>2. IInv => NothingCallable
  BY DEF IInv, NothingLeft
<1> QED BY <1>1, <1>2, PTL

(* Which ports a step frees: the one whose cdev could not be added, or one *)
(* of a card that is being deleted.                                        *)
LEMMA PortsFreed ==
  ASSUME IInv, Next, NEW p \in ports, p \notin ports'
  PROVE  \E t \in Thread :
           \/ OwnsPort(t) /\ p.minor = minor
           \/ At(t, "delete") /\ p.minor \in PortsOf(job[t].card) /\ p.dev = card[job[t].card].dev
<1>1. ASSUME Insert \/ Load \/ Unload \/ Exit PROVE ports' = ports
  BY <1>1 DEF Insert, Load, Register, ProbeNext, LoopNext, Unload, Exit, objects
<1>2. ASSUME NEW t \in Thread, Attach(t) PROVE OwnsPort(t) /\ p.minor = minor
  <2>1. AddCdev(t) /\ CdevFails
    BY <1>2 DEF Attach, Enable, NewCard, InitUarts, MapRegions, NewPort, CreateGroup, AddCdev, ListCard, objects
  <2> QED BY <2>1 DEF AddCdev, CdevFails, Without, OwnsPort, At
<1>3. ASSUME NEW t \in Thread, Delete(t)
      PROVE  At(t, "delete") /\ p.minor \in PortsOf(job[t].card) /\ p.dev = card[job[t].card].dev
  <2> DEFINE c == job[t].card
  <2>1. At(t, "delete") /\ card[c].ports # << >> /\ p.minor = Head(card[c].ports)
    BY <1>3 DEF Delete, DeletePort, FreeCard, Without
  <2>2. c \in DOMAIN card
    BY <2>1, DeleteFacts DEF At
  <2>3. card[c].ports \in Seq(cdevs) /\ \A k, n \in DOMAIN card[c].ports : card[c].ports[k] = card[c].ports[n] => k = n
    BY <2>2 DEF IInv, TypeOK, CardsApart
  <2>4. p.minor \in PortsOf(c)
    <3>1. Head(card[c].ports) = card[c].ports[1] /\ 1 \in DOMAIN card[c].ports
      BY <2>1, <2>3, HeadTaken
    <3> QED BY <2>1, <3>1 DEF PortsOf, ToSet
  <2>5. PICK q \in ports : q.minor = p.minor /\ q.dev = card[c].dev
    BY <2>2, <2>4 DEF IInv, PortsKnown
  <2>6. q = p
    BY <2>5 DEF IInv, PortsKnown
  <2> QED BY <2>1, <2>4, <2>5, <2>6
<1>4. \A d \in Device : ~Plug(d) /\ ~Unplug(d)
  BY DEF Plug, Unplug, objects
<1>5. \A u \in User : ~Close(u) /\ \A m \in nodes : ~Open(u, m)
  BY DEF Close, Open, objects
<1>6. \E t \in Thread : Attach(t) \/ Delete(t)
  BY <1>1, <1>4, <1>5 DEF Next
<1> QED BY <1>2, <1>3, <1>6

(* Only fc_remove frees the port of an open file: no failing step of an    *)
(* attachment does, and no unloading (serialfc_port_new, serialfc_exit).   *)
THEOREM OpenPortsStayHolds ==
  ASSUME Orderly PROVE Spec => OpenPortsStay
<1> DEFINE Kept(u) ==
      /\ file'[u] = file[u] =>
           \A p \in ports : p.minor = file[u] => p \in ports' \/ place[p.dev] = "gone"
      /\ file'[u] \notin {file[u], Closed, Wild} => \E p \in ports' : p.minor = file'[u]
<1>1. Spec => []IInv
  BY Invariance
<1>2. ASSUME IInv, Next, NEW u \in User, NEW p \in ports, p.minor = file[u], p \notin ports'
      PROVE  place[p.dev] = "gone"
  <2>1. file[u] \in Nat /\ minor \in Nat
    BY <1>2 DEF IInv, TypeOK
  <2>2. p.minor # minor
    <3>1. file[u] < minor
      BY <1>2, <2>1 DEF IInv, FilesKept
    <3> QED BY <1>2, <2>1, <3>1
  <2>3. ASSUME NEW t \in Thread, At(t, "delete"), p.minor \in PortsOf(job[t].card), p.dev = card[job[t].card].dev
        PROVE  place[p.dev] = "gone"
    <3>1. CASE t = "loader"
      <4>1. status = "unloading"
        BY <1>2, <2>3, <3>1, DeleteFacts DEF At
      <4> QED BY <1>2, <2>1, <4>1 DEF IInv, FilesKept, Closed
    <3>2. CASE t = "pci"
      BY <1>2, <2>3, <3>2 DEF IInv, FilesKept
    <3> QED BY <3>1, <3>2 DEF Thread
  <2> QED BY <1>2, <2>2, <2>3, PortsFreed
<1>3. ASSUME IInv, Next, NEW u \in User, file'[u] \notin {file[u], Closed, Wild}
      PROVE  \E p \in ports' : p.minor = file'[u]
  <2>1. ASSUME file' = file PROVE FALSE
    BY <1>3, <2>1
  <2>2. ASSUME NEW v \in User, Close(v) PROVE FALSE
    BY <1>3, <2>2 DEF Close, IInv, TypeOK
  <2>3. ASSUME NEW v \in User, NEW m \in nodes, Open(v, m) PROVE \E p \in ports' : p.minor = file'[u]
    <3>1. file'[u] = m /\ ports' = ports
      BY <1>3, <2>3 DEF Open, IInv, TypeOK, objects
    <3> QED BY <1>3, <3>1 DEF IInv, PortsKnown
  <2>4. CASE Insert \/ Load \/ Unload \/ Exit
    BY <2>1, <2>4 DEF Insert, Load, Register, ProbeNext, LoopNext, Unload, Exit
  <2>5. ASSUME NEW t \in Thread, Attach(t) \/ Delete(t) PROVE FALSE
    BY <2>1, <2>5 DEF Attach, Enable, NewCard, InitUarts, MapRegions, NewPort, CreateGroup, AddCdev, ListCard,
                      Delete, DeletePort, FreeCard
  <2>6. ASSUME NEW d \in Device, Plug(d) \/ Unplug(d) PROVE FALSE
    BY <2>1, <2>6 DEF Plug, Unplug
  <2> QED BY <1>3, <2>2, <2>3, <2>4, <2>5, <2>6 DEF Next
<1>4. IInv /\ [Next]_vars => [\A u \in User : Kept(u)]_vars
  BY <1>2, <1>3
<1> QED BY <1>1, <1>4, PTL DEF Spec, OpenPortsStay

(* A device plugged in after the module was first loaded takes its card    *)
(* and ports along when it goes (fc_remove).                               *)
THEOREM GoneWithDeviceHolds ==
  ASSUME Orderly PROVE Spec => []GoneWithDevice
<1>1. Spec => []IInv
  BY Invariance
<1>2. IInv => GoneWithDevice
  <2> SUFFICES ASSUME IInv, Settled, loads = 1, NEW d \in Device \ AtStart, place[d] = "gone"
               PROVE  /\ \A i \in ToSet(list) : card[i].dev # d
                      /\ \A m \in cdevs : m \notin MinorsOf(d)
    BY DEF GoneWithDevice
  <2>1. Live = ToSet(list) /\ ToSet(list) \subseteq DOMAIN card
    BY LiveAtRest
  <2>2. d \notin bound
    BY DEF IInv, TypeOK, Here
  <2>3. \A i \in ToSet(list) : card[i].dev # d
    BY <2>2 DEF IInv, AttachedOnce
  <2>4. ASSUME NEW m \in cdevs, m \in MinorsOf(d) PROVE FALSE
    <3>1. PICK p \in ports : p.minor = m /\ p.dev = d
      BY <2>4 DEF MinorsOf
    <3>2. PICK i \in ToSet(list) : m \in PortsOf(i)
      BY <2>1 DEF IInv, PortsKnown
    <3>3. \E q \in ports : q.minor = m /\ q.dev = card[i].dev
      BY <2>1, <3>2 DEF IInv, PortsKnown
    <3> QED BY <2>3, <3>1, <3>2, <3>3 DEF IInv, PortsKnown
  <2> QED BY <2>3, <2>4
<1> QED BY <1>1, <1>2, PTL

(* serialfc_init answers ENODEV exactly when there is no card.             *)
THEOREM NoSuchDeviceHolds ==
  ASSUME Orderly PROVE Spec => NoSuchDevice
<1> DEFINE Answer == status = "loading" /\ status' # "loading" =>
                       /\ (errno' = ENODEV) <=> (errno' \notin {EIO, EOther} /\ Here = {})
                       /\ status' = "in" => Here # {}
<1>1. Spec => []IInv
  BY Invariance
<1>2. ASSUME IInv, Next, status = "loading", status' # "loading"
      PROVE  \/ errno' = EOther /\ status' = "out"
             \/ errno' = EIO /\ status' = "out"
             \/ errno' = ENODEV /\ status' = "out" /\ Here = {}
             \/ errno' = 0 /\ status' = "in" /\ Here # {}
  <2>1. CASE \E step, next \in {"class", "chrdev", "driver", "probe"} : Register(step, next)
    BY <1>2, <2>1 DEF Register, Undo
  <2>2. CASE LoopNext
    <3>1. CASE job["loader"].todo # {}
      BY <1>2, <2>2, <3>1 DEF LoopNext
    <3>2. CASE job["loader"].todo = {} /\ found = 0
      BY <1>2, <2>2, <3>2, NoneFound DEF LoopNext, Undo, At
    <3>3. CASE job["loader"].todo = {} /\ found # 0
      BY <1>2, <2>2, <3>3 DEF LoopNext, IInv, NothingLeft
    <3> QED BY <3>1, <3>2, <3>3
  <2>3. ASSUME NEW t \in Thread, Enable(t) PROVE errno' = EIO /\ status' = "out"
    BY <1>2, <2>3 DEF Enable, EnableFails, mod
  <2>4. ASSUME NEW t \in Thread, Attach(t) PROVE errno' = EIO /\ status' = "out"
    BY <1>2, <2>3, <2>4 DEF Attach, NewCard, InitUarts, MapRegions, NewPort, CreateGroup, AddCdev, ListCard, mod
  <2>5. ASSUME NEW t \in Thread, Delete(t) PROVE FALSE
    BY <1>2, <2>5 DEF Delete, DeletePort, FreeCard, mod
  <2>6. CASE Exit
    BY <1>2, <2>6 DEF Exit, IInv, OneThread, At
  <2>7. ASSUME NEW d \in Device, Plug(d) \/ Unplug(d) PROVE FALSE
    BY <1>2, <2>7 DEF Plug, Unplug, mod
  <2>8. ASSUME NEW u \in User, Close(u) \/ \E m \in nodes : Open(u, m) PROVE FALSE
    BY <1>2, <2>8 DEF Close, Open, mod
  <2> QED BY <1>2, <2>1, <2>2, <2>4, <2>5, <2>6, <2>7, <2>8 DEF Next, Load, Insert, Unload, ProbeNext, mod
<1>3. IInv /\ [Next]_vars => Answer
  BY <1>2 DEF vars, EIO, ENODEV, EOther
<1>4. IInv /\ [Next]_vars => [Answer]_vars
  BY <1>3
<1> QED BY <1>1, <1>4, PTL DEF Spec, NoSuchDevice
=============================================================================
