# serialfc-linux in TLA+

A verification project for the Linux driver of Commtech's asynchronous serial
cards (`src/main.c`, `card.c`, `port.c`, `utils.c`, `sysfs.c` of
serialfc-linux) and for the library that computes the words its clock chips
are programmed with (`lib/raw/calculate-clock-bits.c`). The driver sits beside the kernel's 8250 driver: 8250 moves
the characters, this driver configures what the standard UART does not have
(sampling rates, FIFO triggers, RS485, echo cancel, isochronous mode, external
transmit, frame length, termination, clock chips, baud rates).

Every path below is relative to the repository's root.

## 1. Inventory

| Component | State | Operations | What makes it correct |
| --- | --- | --- | --- |
| **FSCC ports** (16C950 UARTs; the `_fscc` functions of `src/utils.c`) | per port: LCR, SPR, the indexed control registers (ICR), FCR/EFR; per card: the 32-bit Feature Control Register; in memory `port->ACR`, `sample_rate`, `tx_trigger`, `rx_trigger` (`src/port.h`) | set/get of each setting, clock loads, asynchronous mode | each access reaches the register it means although three indices (LCR, SPR, ACR) decide which one that is; LCR and ACR are given back; memory and device agree; a call changes its own setting of its own port only |
| **Exar ports** (17D15X PCI and 17V35X PCIe UARTs; the `_pci` and `_pcie` functions) | per port: FCTR, MCR, FCR, LCR, trigger levels, divisor; per board: output pins (MPIOLVL, MPIOLVLH), their direction, a bit per port in 8XMODE and 4XMODE | set/get of each setting, clock loads, baud rates | ports that share registers do not disturb each other; the divisor is reached with its latch open and the latch is closed; baud rates are those asked for; every call ends |
| **Start-up of a port** (`src/port.c:105-127`) | the same registers | gpio, triggers, defaults, asynchronous mode | from any register values, ends with enhanced mode on, the FIFO on (but where LCR was 0xbf) and each setting at its default, while earlier ports of the card are in use |
| **Module life** (`main.c`, `card.c`, `port.c`) | class, character device and PCI driver registrations; list of cards; ports, device nodes, cdevs; minors; open files | load, probe, attach loop, hot-plug, unload, open, close | each failing step undoes what the earlier ones did; nodes lead to live ports; nothing callable is left behind; a device's ports go with it |
| **ioctl interface** (`main.c:89-293`) | `tmp` and `clock_bits` on each caller's stack | one case per request, copies from and to user memory | each request reaches its operation with the value it stands for; a status of 0 means it was done; answers and clock words are those of the call, not of another or of the stack |
| **sysfs attributes** (`sysfs.c`) | none of its own | store and show of each setting | numbers keep within their ranges whatever text they come from; what is shown can be written back |
| **Clock bits** (`lib/raw/calculate-clock-bits.c`) | loop counters, the best settings so far, the 20 bytes being filled in | search for divider settings, translation into the chip's bits | no usable setting is nearer to the frequency asked for; the bits say the setting found, and nothing else changes; every loop ends |
| Card names and board table, examples, udev rules, Makefile | constants | | |

How they interact: ioctl and sysfs callers, any number of them at once, and the
thread that attaches a card all call the same functions of `utils.c`, which go
straight to the registers. **No lock exists anywhere in the driver.** The 8250
driver writes LCR of the same UARTs. Ports of a card share registers.

What is hard about it: multi-step register sequences that interleave; shared
registers that are read, changed and written back; copies of write-only
registers kept in memory; indices left in a state by one call and relied upon
by the next; clock loads that borrow shared pins for dozens of writes; failures
half way through attaching; hot-unplug with files open; arithmetic on rates;
statuses that are dropped and copies that fail; numbers read in one base and
shown in another; bit fields that share bytes, five tables deep.
`PROJECT.json` lists each such hazard at its line, with the property that
covers it or the reason why none does.

## 2. Modules

| Module | Models | Reads as |
| --- | --- | --- |
| `Settings` | what the driver promises a user of settings (abstract) | a value for each setting of each port; Begin, Work, End of a call; StartUp |
| `FsccCalls` | the `_fscc` functions | each handler as the sequence of register accesses it makes, in their order, or the error it returns |
| `Fscc` | FSCC cards and the callers | executes those sequences one access at a time, interleaved; the hardware's answer to each access |
| `FsccProperties`, `FsccInvariant` | | properties and refinement mapping; the inductive invariants |
| `FsccProofs`, `FsccPromiseProofs` | | proofs of the indices (LCR, SPR) and of what the registers hold; that the driver implements `Settings` |
| `ExarCalls`, `Exar` | the `_pci` and `_pcie` functions, baud rates and start-up | the same construction; `Family` says which boards |
| `ExarProperties`, `ExarInvariant` | | properties and refinement mapping; the inductive invariants |
| `ExarProofs`, `ExarPromiseProofs` | | proofs of what one call at a time on a port, and on a card, is enough for; that the driver implements `Settings` |
| `Driver`, `DriverProperties`, `DriverInvariant`, `DriverProofs` | `serialfc_init`, `serialfc_exit`, `fc_probe`, `fc_remove`, `serialfc_card_new/_delete/_find`, `serialfc_port_new/_delete`, `serialfc_open` | two kernel threads (loading, hot-plug) and users; one action per step that may fail |
| `Api`, `ApiProperties`, `ApiProofs` | `serialfc_ioctl` and `sysfs.c`, for a port of any family | callers, each with its locals and its buffer; an operation of `utils.c` is one step on a setting |
| `ClockSearch`, `ClockSearchProperties`, `ClockSearchProofs` | `calculate_clock_bits_335` | three nested loops as counters, a look at a setting as a step |
| `ClockWord`, `ClockWordProperties`, `ClockWordProofs` | `calculate_clock_bits`, `GetICS30703Data` and its five tables, and the driver's change of the crystal bit | the search's order, then a table a step; a byte is the set of its bits |
| `Clock` | a program that calls one or the other | the composition of the two, with fairness |
| `MCFscc`, `MCExar`, `MCDriver`, `MCApi`, `MCClock` | | values for the constants |

**Calls as sequences of accesses.** A function of `utils.c` is straight-line
code between its argument checks and its return: the accesses it will make are
known when it begins, but for values read on the way. `FsccCalls` and
`ExarCalls` give, for each function, its refusals (the early returns, in their
order) and that sequence; `Fscc` and `Exar` have one action per kind of access
(read, write, select, save and restore of LCR, ...), which does what the
register does and carries local variables in the call's record (`lcr`, `fcr`,
`kept`, `got`, ...). So every interleaving at the granularity of device accesses
is there, which is the granularity of the hardware. Which register an FSCC
access reaches depends on LCR, SPR and ACR as they are at that moment: a write
to ICR while LCR is 0xbf does not reach ICR, a read of ICR with ICR reads off
returns some other register's byte (`Junk`).

**Discipline.** The code serialises nothing. `Discipline = "none"` is that
code; `"port"` and `"card"` let at most one call at a time work on a port, or on
a card: what a client must do itself for the promises to hold. Runs of the
promises use the weakest discipline under which they hold; the race runs show
that the next weaker one is not enough.

**The tty driver** (external) sets LCR to a value of `Line` while no call works
on the port. The variable `line` remembers that value: it is the one history
variable.

**Refinement.** `Promise == INSTANCE Settings WITH ...` maps registers to
settings (`isochronous` from two registers, `rs485` from ACR and FCR, or from
FCTR and a pin, ...); a combination no set call produces is `Torn`. The property
`KeepsPromise` is `Promise!Spec`: an accepted set call ends with its own setting
of its own port at the value asked for and touches nothing else; a get call
answers the value; a refused call changes nothing; start-up ends in the
defaults. On PCI boards echo cancel is one setting of the board
(`docs/echo-cancel.md:5`), elsewhere one of the port: the constants `BoardWide`
and `Board`.

**Data abstraction.** A clock load makes 483 (FSCC) or 72 (PCI) writes that
differ in the clock and data pins only; the model makes a few rounds of them,
since what matters is that shared registers hold borrowed values between the
read and the write-back. Register bytes are integers or sets of bit numbers.
Card-specific identities (revision 0x10 or 0x20, family, number of ports) are
constants.

**Driver.** The state is the kernel's view (registrations, bindings, nodes,
cdevs) and the driver's (cards, list, ports, the static minor number). A new
card is known by the least number that is free, and the devices a thread has
still to visit (`todo`) are a set, visited from the least up, which is the order
of the bus. `Fails` is the set of steps that may fail. `Orderly` keeps the two
threads apart: devices come only while the module is in and go only while it is in
or out, and neither thread starts before the other has ended. Users keep apart from
nobody: they open nodes while cards are attached, half-made ones included (the
cdev `register_chrdev` gives every minor then answers, and the file's
`private_data` is no port: `Wild`), and keep files open while `fc_remove` frees
the port behind them. What a call on such a file does is not modelled. Nor is
anything after the module's memory has been given back while the kernel or a file
still points into it (`Dangling`): there the model stops.

**Api.** Where `Fscc` and `Exar` take the operations of `utils.c` apart, `Api`
takes each as one step on `setting` and adds the way to it: which value a
request stands for (`Passed`), what is refused (`Refusal`, in the code's order),
how an accepted value is kept (`Kept`: a switch is one bit, a baud rate a divisor
of 20 bits), which statuses are dropped (`Drops`), and the copies from and to
user memory, each able to fail and each with other callers before and after it.
`Frame(u)` says whose locals a call works with: its own. `family` is chosen at
the start, firmware before revision 0x20 being a family of its own. The word
that `LoadClock` hands over is the caller's, before the driver's crystal bit,
which is `EnableXtal` of `ClockWord`. A text is what `simple_strtoul` makes of it
in either base.

**Clock.** The search for the 335 boards is integer arithmetic and is modelled in
full: `low` and `hi` close in on the rate, ties go by the rules in the code's
comments. The search for FSCC cards decides by floating-point tests of error,
bandwidth and damping; these tests are the constant `Accepted` (for each output
divider the solutions they may accept), while the order of the dividers, the
rule for the VCO and all five tables are the code's. `Reading`, in the properties,
is the chip's side: the fields read back as numbers.

## 3. Runs

Fairness. `FairSpec` of `Driver` says that whoever is in the driver, to load or
unload the module or to attach or remove a plugged device, takes the next step:
no step on the way waits for anything, neither for a lock nor for a user.
Loading, unloading, plugging and opening as such are up to others and have none.
`Clock!Spec` says that a computation goes on: its loops count and wait for
nobody. The calls of `Fscc`, `Exar` and `Api` have no fairness and no liveness
property: none of them waits for anything (no lock, no sleep, no polling), so
that a call ends if it has no step that cannot be taken, which the deadlock check
and, for the one such step in the code, a division by zero, `AnswersOrErrors`
ask. The deadlock check is off in the Driver runs, where nothing need happen
after the last permitted load and unload, and in `Clock`, where a computation
that has ended has ended; `ComesToRest` and `Ends` show there that nothing gets
stuck on the way.

| Run | Question | Bounds |
| --- | --- | --- |
| `FsccBoard` | start-up ends in 950 mode with the defaults, whatever LCR, FIFO control, EFR and the indexed registers held, but for the FIFO of a port found with LCR = 0xbf, which stays as it was; port 0 in use while port 1 starts; rewrites of the shared FCR, clock loads included, keep the other settings and the other port | one card, port 0 found as after a reset, port 1 with LCR = 0xbf, enhanced mode on and the FIFO off; one user and the loader, every FCR operation |
| `FsccSettings` | settings in indexed registers are set and read back; every access reaches its register; ACR, LCR and the copies in memory stay coherent | one port, as an earlier load leaves it; arguments at both ends of each range and next to them |
| `FsccPorts` | two users on two ports: one call per port suffices for what stays off the FCR; the inductive invariants of the proofs hold | two users, symmetric |
| `FsccRaceAcr` (violation) | `utils.c:333` "Restore original ACR value": not with two calls on a port | two users, one port |
| `ExarPci` | shared sampling-rate register and output pins of a two-port PCI board, clock loads included | arguments at the ends of the ranges, both extremes of register contents |
| `ExarPcie` | the same for a four-port PCIe board; baud rates are programmed, in the 20 bits of the divisor, and answered, the divisor latch is open when needed and closed after; the inductive invariants of the proofs hold | first and last port, the first for what both share, the last for everything; a baud rate whose divisor fits at 8 and 16 samples and not at 4, and the first refused at 16 samples; line setting 8N1; all bits set at power-up |
| `ExarClockPins` (violation) | "Disable 485 on transmitters" (`utils.c:481`): a clock load enables them | |
| `ExarBaudZero` (violation) | `docs/baud-rate.md:33` EINVAL for invalid parameters: 0 is divided by | |
| `DriverLife` | load, attach, hot-plug, unload with failures: cards, nodes, registrations agree; no callable is left but by the return of `main.c:387`; the port of an open file is freed only when its device goes; "No such device" exactly when there is none (`README.md:64`); whatever fails, loading, unloading, attaching and removing come to their end | three devices (an FSCC there at first, or taken out before the load, which then finds none; one bound to another driver and another FSCC, both plugged in later), two ports each, two users, one load, every step may fail |
| `DriverTwice` (violation) | "There are two ports per card" (`card.c:195`): a card this driver is bound to is attached by `fc_probe` and again by the loop | one device |
| `Clock` | the word for a 335 board is of the nearest setting, by the comments' rule among equals, or there is an error and none is within a tenth; the word for an FSCC card says the solution found, changes no other bit, is never refused by a table; both computations end | 335: nine frequencies (out of reach on both sides, at and next to limits of the output dividers, reached exactly), a corner of the grid (reference divider to 2, VCO divider to 32); FSCC: every output divider the search comes by, up to 8232, with one solution each that rule 1 takes (`StopsAnywhere`), so that the search may stop at each; they go round all values of resistor and pump current, both ends of the input divider's forms up to 548, and the VCO divider from the least to the greatest rule 1 takes, in quarters; three kinds of card |
| `Api` | settings keep within their ranges whatever is passed; status 0 exactly when the documented value is in force; an answer is the setting at one moment of the call; the clock chip gets one caller's word; a shown value can be written back where the bases agree | two users, two clock words, all four families, a request of each kind and an unknown one, arguments at the edges of ranges (-1, 0, a mode and rate, a baud rate, a length beyond 256), four texts |

Why these bounds are enough: registers of one card are never reached through
another, so one card suffices; a port shares registers with every other port of
its card in the same way, so two ports (first and last of four on PCIe, where
the port number is a bit position) suffice; a call's effect on others shows with
one other call, so two users suffice. Settings are independent but for the
registers they share, and calls are grouped by those registers (`MCFscc`,
`MCExar`). That callers of one card take turns is needed where registers are
shared: with one call per port only, `EchoPortByPort` and `KeepsPromise` fail on
FSCC cards (two ports' echo cancel in one FCR), and `KeepsPromise` on Exar boards
in the same way. In `Api` every request goes through one of the few paths
listed, and requests on one path differ in the setting only; two callers are
enough for one's locals to be in another's way. The grid of `Clock` is small
because what the search finds is proved for every grid; its tables are run
through all output dividers, which costs little. In `Driver`, the
three devices are of each kind there is: attached twice, attached by the loop only
(device 1 again, when enabling it fails in `fc_probe`: to the loop it is what a
device of another driver is), plugged in later, with and without `fc_probe`; and
what is proved of it is proved of any number. A second
load of the module is not run: minors start at 0 again, and a node abandoned by a
failed attach (`port.c:94`) would meet `device_create` again, whose error the code
does not see. The model makes no step there, so that the theorems say nothing of
what follows; a second load without such a node is among what they cover.

Each property of each passing run has a mutant in `PROJECT.json`: a plausible
bug, written beside the definition it would replace and called a faulty variant
there, which the run catches.

## 4. Proofs

What is proved holds for every number of cards and users, every set of calls,
every register content at load (`Fscc`, `Exar`), every set of rates below
3.9 GHz and every grid of dividers up to the code's (`ClockSearch`, with 64-bit
products), every choice of solutions
by the floating-point tests (`ClockWord`), any commands, families, numbers and texts (`Api`), any devices, ports per card, users
and numbers of loads (`Driver`). The proofs assume the named
ASSUMEs of the modules (what calls, bytes, disciplines, grids and families are),
which TLC evaluates in every run, and, for `Fscc` and `Exar`, the discipline:
that at most one call at a time works on a port (`Discipline # "none"`), or on a
card. Without it they are false (`FsccRaceAcr`). For `Driver` they assume
`Orderly`: that the two kernel threads keep apart. Any step may fail and users do
as they like. The run assumes the same.

| Module | Theorem | Needs | Says |
| --- | --- | --- | --- |
| `FsccProofs` | `Invariance`, `TypeCorrect` | port | `Spec => []IInv`; every value written is a byte |
| | `IndexedAccessHolds` | port | every indexed access reaches the register its handler means |
| | `LcrRestoredHolds` | port | a port no call works on has the LCR the tty driver or start-up gave it |
| | `RegistersInvariance` | port | `Spec => []FullInv` |
| | `AcrCoherentHolds`, `CacheCoherentHolds` | port | on a started port ACR is its shadow, and the settings kept in memory are those in the device, once no call works on it |
| | `Mode950Holds` | port | whatever the registers held at load, a started port is in 950 mode, but that the FIFO of a port found with LCR = 0xbf stays as it was |
| | `AsyncKeptHolds`, `EchoPortByPortHolds` | card | the rewrites of the shared FCR neither end asynchronous mode nor change another port's echo bit |
| `FsccPromiseProofs` | `PromiseInvariance` | port | `Spec => []PromiseInv` (its part about the FCR: card; about the settings: card and `CountEnabled`) |
| | `KeepsPromiseHolds` | card, `CountEnabled` | the driver of FSCC cards implements `Settings`: every access is, for the settings of all ports, a step of that specification or none |
| `ExarProofs` | `Invariance`, `TypeCorrect` | port | `Spec => []IInv`; registers and call records keep their types |
| | `DivisorAccessHolds`, `LcrRestoredHolds` | port | the divisor's latch is open at each of its accesses and closed again |
| | `ProgrammableTriggersHolds` | port | what `fastcom_init_triggers` turned on stays on |
| | `FullInvariance` | port | `Spec => []FullInv` (its part about the board: card) |
| | `CacheCoherentHolds` | card | sampling rate and trigger levels answered from memory are those of the device |
| | `BaudProgrammedHolds`, `BaudAnsweredHolds` | card | for every baud rate: the divisor programmed, and the rate answered, are those of the sampling rate the device uses |
| `ExarPromiseProofs` | `PromiseInvariance` | port | `Spec => []PromiseInv` (its part about the board and all settings: card) |
| | `KeepsPromiseHolds` | card | the driver of either Exar family implements `Settings`: every access is, for the settings of all ports, a step of that specification or none |
| `DriverProofs` | `Invariance`, `TypeCorrect` | `Orderly` | `Spec => []IInv`; minors, cards and handles are ones in use |
| | `RegistryHolds` | `Orderly` | once the module is loaded, the listed cards and what users can reach are the same |
| | `NothingCallableHolds` | `Orderly` | a module that is out has left nothing the kernel could call, unless the loop of `serialfc_init` could not enable a device (`main.c:387`): then all it registers is left |
| | `OpenPortsStayHolds` | `Orderly` | the port of an open file is freed only when its device is removed, and a node with a cdev opens on a port in memory |
| | `GoneWithDeviceHolds` | `Orderly` | a device plugged in after the first load takes its ports along |
| | `NoSuchDeviceHolds` | `Orderly` | loading answers ENODEV exactly when there is no card |
| `ClockSearchProofs` | `SearchInvariance` | | `SearchSpec => []SearchInv` |
| | `NearestHolds` | | no usable setting is nearer to the rate, as the code computes frequencies, than the one found; where none is found, none is within a tenth |
| | `NearestButRoundingHolds` | | nor is any nearer as the chip computes them, but for what the rounding costs |
| | `TieBrokenHolds` | | of the settings with that frequency it is the one of lowest reference divider, and of those of highest VCO divider |
| | `WordOfBestHolds` | | the word holds the dividers found, each in its bits |
| `ClockWordProofs` | `WordInvariance` | `MaxOd \in Reached` | `WordSpec => []WordInv` |
| | `WordSaysSolutionHolds` | `MaxOd \in Reached` | the word handed out, and the one loaded, make the chip use the solution found; no table refuses one |
| | `OnlyFieldsHolds` | `MaxOd \in Reached` | no bit outside the programmed fields changes but the crystal's |
| `ApiProofs` | `CallInvariance`, `SettingInvariance` | | what a call's locals hold at every stage; settings within the family's room |
| | `TypeCorrect`, `ShownCanBeStoredHolds` | | ranges; a shown value can be written back (below) |
| | `StatusIsTrueHolds` | | a status of 0 means it was done, an error that nothing was, dropped statuses included |
| | `AnsweredHolds`, `ClockAsHandedHolds` | | an answer is the setting at one moment of the call; the clock chip gets one caller's word |

**Fscc, the indices.** `IndexedAccess` is not inductive: it says that SPR is
right *when* ICR is reached, not why. The reason is in the past of the call: LCR
was cleared and not given back, SPR was written and not again, and nobody else
works on the port. `IInv` says this from the access sequence and the program
counter: every sequence has the shape `Framed` (indexed accesses between the
clearing of LCR and its restoration, after the selection of their register;
`RequestsHandled` and the lemmas before it prove it of every handler); LCR is 0
or `line` as `Cleared` tells (`LcrFollowsCall`), SPR is the register last
selected (`SprFollowsCall`); calls on a port are exclusive. One lemma per action
then shows that it keeps `IInv`. `BootUnderWay` adds that a loader at work has
calls left, without which `boot` could outgrow its type.

**Fscc, the registers.** `AcrCoherent`, `CacheCoherent` and `Mode950` speak of
ports no call works on, or of started ones. `RegistersInv` says what the
registers of a port hold at every access in between: a setter has, of its
registers, written those behind its program counter; a getter has turned ICR
reads on in ACR between two accesses of its sequence and off after; a loader has
programmed the port as far as its calls have returned. `BoardInv` does the same
for the FCR under one call at a time on a card: what a call read of it is still
there but for the call's own bits when it is written back. The handlers are known
to these proofs by what they do (the shape of each sequence, by lemmas), not by
their names.

**Fscc, the refinement.** `KeepsPromise` maps a state to the settings its registers
say. `SettingsHeld` has what makes every access a step of `Settings` or none.
What a call has written of its setting stands until it returns: in indexed
registers by `PutsLand`, in the shadow of ACR by `ShadowLands`, in the FCR by
`FcrLands`, where the bits of other ports and settings are written back as they
are (`FcrFollowsCall`). What a getter has read is what the registers hold
(`GetsKept`; `DtrHeld` says that turning ICR reads on leaves RS485's bits of ACR
alone). Settings in two registers (RS485, isochronous, external transmit) are
torn only while a call sets them (`Whole`). Start-up has given its defaults as far
as it has got (`DefaultsGiven`). From this, `SetDone` and `GetDone` say that an
accepted set call returns with the value asked for in force, and a get call with
the one in force; a lemma per action gives `Begin`, `Work`, `End`, `StartUp` or a
stutter. The handlers enter by the shape of their accesses (`SetterShape`,
`GetterShape`), the isochronous modes by `ModesDiffer`: no two of them
write the same byte to CKS, which is how a mode can be read back at all. One thing the theorem needs of the hardware came out of the
proof: `get_external_transmit` (`utils.c:1330`) masks the enable bit of EXTH off
and does not look at it, so a card that came up with a count but without that bit
would be answered the count while none is in force. `CountEnabled` excludes it:
every setter writes the bit, and after a reset both bytes are 0.

**Exar.** `IInv` relates the accesses a call has made to the registers of its
port: LCR is `line` with bit 7 on from the second access of a baud rate call to
its last (`LcrFollowsCall`); the bytes fetched or stored so far are those of the
divisor (`FetchedFollows`, `DivisorFollows`); bits 6 and 7 of FCTR are on in the
register and in every copy a call may write back, once the second call of
start-up has returned (`TriggersOn`); trigger levels in memory and device agree
unless a setter is between its store and its return (`LevelsHeld`). `Served` and
`Attributed` say that a call executes the handler of what it was asked for, and
that the loader's calls are those of `serialfc_port_new` in their order, which
`BootArithmetic` counts. `BoardHeld` adds for one call at a time on a card that a
setter of the sampling rate has read its register before it writes it and that
the other channels' bits are still as read (`RatesFollowCall`), from which memory
and device agree on the rate (`RatesHeld`). `BaudProgrammed` says which divisor
the device holds in its 20 bits, so that it is proved, and true, for every rate:
one below 477 baud at 4 samples (120 at 16) has a divisor of more bits, which
`utils.c:1248` cuts.

**Exar, the refinement.** `KeepsPromise` maps a state to the settings its registers
say: sampling rate, trigger levels, RS485, termination and echo cancel of every
port. A setting of one bit or several, in a register of its own or one shared by
the board, is read, changed and written back with accesses of other calls in
between, so that the step that changes it must be justified by what is known of
the copy. `SettingsHeld` says that: a copy that a call has read is the register but
for the bits the call changes (`CopiesFollow`, `OwnBits`), so writing it back
changes those bits only, and they belong to the setting the call sets
(`OfSetting`, `BitsApart`); bits a call has written stand until it returns
(`WritesStand`), so an accepted call ends with its setting at the value asked for
and a getter answers what is in force when it returns; RS485, which is
in two registers, is half set only while a setter is under way (`Rs485Whole`);
settings that start-up has reached have their defaults (`DefaultsGiven`), but echo
cancel of a PCI board, which is one setting of all its ports. A load of the clock
chip is what makes this hard: it takes the pins of all ports low and puts them back
72 writes later, so the mapping sees the pins as they will be again (`Pins`,
`Borrows`), and `PinsReturned` says they are. Each handler enters through its list
of accesses (`Rs485Steps`, `PinSteps`, `GetterSteps`, `OtherSteps`), one lemma per
kind of step shows that `PromiseInv` is kept, and another that the step is `Begin`,
`Work`, `End`, `StartUp` or a stutter of `Settings`. For every argument, and not
those of the runs only, the value a switch (RS485, termination, echo cancel) is
asked for is `Wanted`: any number but 0 means on, so a request of 2 ends with 1.

**Driver.** `Registry` and `GoneWithDevice` speak of moments when nobody is in the
driver, the other properties of what users and the kernel see; `IInv` says what is
true half way through an attachment or a removal. A card is in the list or in the
hands of one thread (`Live`), every cdev is on a live card, cards share no port
and a port's minor is nobody else's (`CardsApart`, `PortsKnown`): from these, the
deletion of a card's ports touches no other card, whatever failed before. A thread
between `device_create` and `cdev_add` owns a port that is on no card yet
(`OwnsPort`). A user can open its node already, but not its port: files are on
ports of minors that are all below the next one, and during a load on ports with a
cdev (`FilesKept`), so that the port a failed `cdev_add` frees is nobody's file.
That leaves the ports a thread deletes: the loader's, when no file is open, and
those of a device that has gone (`PortsFreed`), which is `OpenPortsStay`.
`NothingLeft` says what `serialfc_init` has registered at each stage
(`Registered`), so that `Undo` has nothing to undo but that and `main.c:387`
leaves all of it, and what `num_devices` means in the middle of the loop. `AttachedOnce` says of devices that
came after the load that they have one card, listed while they are bound, which is
why the one card `fc_remove` deletes is all there is. One lemma per action shows
that it keeps `IInv`.

**ClockSearch.** `Nearest` speaks of the end only. The loop invariant `Bracket`
says it of the part of the grid that was looked at (`Seen`, by the three
counters): `low` and `hi` are on their sides of the rate, within a tenth, each the
frequency of its setting, and nothing seen lies strictly between them. Each of
the five outcomes of a look keeps it (`LookStep`), the ends of loops add nothing
to `Seen`, and at the end `Seen` is all that is usable. `TieInv` adds for equals
that the setting held is at least as good as any seen. The proof of `Nearest` does
not use the formula of `Check` but that it gives natural numbers, so that it holds
of the rounded frequency the code compares; that of `NearestButRounding` uses what
the rounded division loses at most.

**ClockWord.** `WordSaysSolution` speaks of the finished word. `WordInv` follows
the tables: those done read back as the solution's fields (`Written`), the bits a
later one sets without clearing them are still clear (`Clear`: the tables share
bytes 1, 11, 12 and 13), and what is in no field is as it was (`OnlyFields`). Each table
has a lemma that its bits read back as the number it was given (`InputReads`,
`VcoReads`, `FilterReads`, `CurrentReads`, `SmallReads`, `MiddleReads`,
`LargeReads`) and which bits it leaves alone. They rest on the digits of numbers
(`Digit`, `Pair`, `Nibble`): a number below 2^k is the sum of its k digits. Table 5's last part
looks for the first x, y, z with od = ((x + 3) * 2 + y) * 2^z; there may be none.
That the search stops at dividers with such a form only is `Reached`: its steps
are 2, 4 and 8 above 1030, 2060 and 4120 and keep to multiples of those, if it starts
from one. That is the hypothesis of the three theorems; the code's 8232 satisfies it
(`FirstReached`), and from 8231 they would be false.

**Api.** `Answered` speaks of calls about to return; `CallInv` says what a call's
`tmp` and `clock_bits` hold at every stage before (`Fetched`, `Handed`) and which
requests get to which stage (`Kind`). One lemma per action gives the call, its
locals and its buffer after the step, and `StepOfOne` that everybody else's are
untouched. `SettingInv` adds that a call before its operation still carries what
it was asked for, and keeps settings in the family's room, which `StatusIsTrue`
and `ShownCanBeStored` rest on. The latter was first stated of every baud rate,
as it held in the run; the proof failed on 479 baud at 4 samples, kept as a divisor
cut to 20 bits and shown as 239, whose own divisor at a higher sampling rate has
more than 20 bits. It now asks that 20 bits hold the divisor of the rate shown.

TLC checks the inductive invariants too: `FullInv` in `FsccPorts`,
`PromiseInv` in `FsccSettings` and `ExarPcie` (`FullInv`, `IInv` and `TypeOK` are parts of them), `SearchInv` in `Clock`, `IInv` (with its
`TypeOK`) in `DriverLife`.

Model-checked only: liveness (`ComesToRest`, `Ends`), which is out of the prover's
reach, as are ENABLED and induction over data. Nothing here needs the last: bits
and bytes are read back field by field and not added up by a fold, and no module
declares a RECURSIVE operator. Every invariant and every other temporal property
of a passing run is a theorem.

## 5. Not modelled

* the floating-point tests of `GetICS30703Data` (error, bandwidth, damping): which
  solution they accept is left open, and so how near the frequency comes;
* calls on a port whose device has gone, on one that is half made, or on a file
  without a port: the driver goes on with freed or unset memory there;
* what the kernel does after the return of `main.c:387`: the registrations lead to
  functions of a module that is no longer in memory;
* frequencies of 3.9 GHz and more: `calculate-clock-bits.c` cuts them to 32 bits
  (lines 142 and 1006), and the search would be for another one;
* platforms whose `unsigned long` has 32 bits, where products of the 335 search
  wrap;
* that `IOCTL_FASTCOM_GET_BAUD_RATE` copies four bytes of the eight its type has:
  what is in the other four is the user's affair, and the model's numbers have no
  bytes;
* RS232 boards of the 335 family: two of the pins RS485 and echo cancel use are
  inputs there, and what a chip answers for an input, or keeps of a write to one,
  is not in the repository (on the 8-port one the RS485 pin of channel 4 is
  computed as the echo cancel pin, `utils.c:477`);
* memory addresses: the 323-word buffer for the 483 clock words (`utils.c:1074`,
  a hazard) and the names printed into 10 bytes (`port.c:47`), which hold minors
  up to 9;
* the card and board names (`card.c`), the examples, udev rules and build files:
  constants and text without state;
* printing, tables of identities;
* kernels before 3.8, whose conditional code differs.

Seen on the way and not stated as a run:

* `docs/nine-bit.md:16` lists FSCC cards as supported, `utils.c:1485-1503` refuses
  nine-bit on every card;
* `docs/clock-rate.md` lists `IOCTL_FASTCOM_SET_CLOCK_RATE` as supported, the code
  refuses it on every card; the attribute `clock_rate` has no show function and a
  mode without write permission, though the same page writes to it;
* `docs/isochronous.md:116` disables isochronous mode by writing 0 to its
  attribute; the code takes 0 as a mode and disables at ffffffff only;
* `fastcom_init_triggers` leaves LCR at 0xbf (`utils.c:1554-1555`). A driver loaded
  again before the tty driver has set LCR writes 1 to EFR where it means the FIFO
  control register (`utils.c:1552-1553`); EFR is set right by the next write, the
  FIFO is left as it was;
* attributes are shown in decimal and stored in hexadecimal (`sysfs.c:38`): a
  trigger level shown as 32 is stored back as 50 (`ShownCanBeStored` says where it
  does come back);
* the comment at `utils.c:1057` speaks of revisions greater than 6 where the code
  tests for 6 and less; the model follows the code;
* `examples/baud-rate.c:28` sets 8000000, which the default of 16 samples refuses
  (7812500 is the highest); `examples/clock-rate.c` passes a variable of four bytes
  where the driver copies twenty;
* `card.c:273` names a card, 0x001f, that `is_serialfc_device` does not list.

## 6. Plan

Done, in this order: `Settings`, `FsccCalls` and `Fscc` (the most intricate
operations), the invariant and its proofs, `ExarCalls` and `Exar`, `Driver`; then
`ClockSearch` with its proofs, `ClockWord` and `Clock`, `Api` with its proofs,
the liveness of `Driver`, the proofs of `Exar` and of `Driver`, the refinement
of `Settings` by `Exar` and by `Fscc`, and the proofs of `ClockWord`. Left:

1. Exar with any divisor at power-up, and a second load of the module.
2. The floating-point tests of `GetICS30703Data`, as rules on rationals.
