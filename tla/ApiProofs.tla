------------------------------ MODULE ApiProofs ------------------------------
(***************************************************************************)
(* Proofs of what the ioctls promise about the variables on the kernel     *)
(* stack and the copies to and from user memory, for any users, commands,  *)
(* families and words.                                                     *)
(*                                                                         *)
(* Answered is not inductive: it speaks of calls about to return.  What    *)
(* is in tmp before depends on where the call is: zero until the getter    *)
(* ran, what the getter found from then on.  Likewise for clock_bits.      *)
(***************************************************************************)
EXTENDS ApiProperties, TLAPS

\* Records have their fields.
IsCall(c) == DOMAIN c = {"at", "cmd", "arg", "status", "fault", "seen"}

IsFrame(l) == DOMAIN l = {"tmp", "clock_bits"}

Shape ==
  /\ DOMAIN call = User /\ DOMAIN locals = User /\ DOMAIN mem = User
  /\ call = [u \in User |-> call[u]]
  /\ locals = [u \in User |-> locals[u]]
  /\ mem = [u \in User |-> mem[u]]
  /\ \A u \in User : IsCall(call[u]) /\ IsFrame(locals[u])

\* What a call c, with locals l and a user's buffer m, has done so far.
Kind(c) ==
  /\ c.at \in {"get", "copy_out"} => c.cmd[1] = "get"
  /\ c.at = "set" => c.cmd[1] # "get"
  /\ c.at \in {"copy_in", "load"} => c.cmd = <<"set", "clock_bits">>

Fetched(c, l, m) ==
  /\ c.at = "get" => l.tmp = 0
  /\ c.at = "copy_out" => l.tmp = c.seen
  /\ c.at = "return" /\ c.cmd[1] = "get" /\ c.cmd[2] # "fixed_baud_rate" /\ ~c.fault
       => m = c.seen

Handed(c, l) ==
  c.at = "load" => l.clock_bits = IF c.fault THEN Partly(c.arg) ELSE Whole(c.arg)

Sound(c, l, m) == Kind(c) /\ Fetched(c, l, m) /\ Handed(c, l)

CallInv == Shape /\ \A u \in User : Sound(call[u], locals[u], mem[u])

-----------------------------------------------------------------------------
(* A step of one user that gives it a sound call, record for record, and   *)
(* leaves everybody else's alone keeps the invariant.                      *)
LEMMA StepOfOne ==
  ASSUME CallInv, NEW u \in User, NEW c, NEW l, NEW m,
         IsCall(c), IsFrame(l), Sound(c, l, m),
         call' = [call EXCEPT ![u] = c],
         locals' = [locals EXCEPT ![u] = l],
         mem' = [mem EXCEPT ![u] = m]
  PROVE  CallInv'
<1>1. Shape'
  BY DEF CallInv, Shape
<1>2. ASSUME NEW w \in User PROVE Sound(call'[w], locals'[w], mem'[w])
  <2>1. CASE w = u
    <3>1. call'[w] = c /\ locals'[w] = l /\ mem'[w] = m
      BY <2>1 DEF CallInv, Shape
    <3> QED BY <3>1
  <2>2. CASE w # u
    <3>1. call'[w] = call[w] /\ locals'[w] = locals[w] /\ mem'[w] = mem[w]
      BY <2>2 DEF CallInv, Shape
    <3>2. Sound(call[w], locals[w], mem[w])
      BY DEF CallInv
    <3> QED BY <3>1, <3>2
  <2> QED BY <2>1, <2>2
<1> QED BY <1>1, <1>2 DEF CallInv, Sound, Kind, Fetched, Handed, Partly, Whole

(* What is not changed may be said to be changed to itself.                *)
LEMMA Unchanged ==
  ASSUME CallInv, NEW u \in User
  PROVE  /\ call = [call EXCEPT ![u] = call[u]]
         /\ locals = [locals EXCEPT ![u] = locals[u]]
         /\ mem = [mem EXCEPT ![u] = mem[u]]
         /\ IsCall(call[u]) /\ IsFrame(locals[u])
         /\ Sound(call[u], locals[u], mem[u])
BY DEF CallInv, Shape

(* Every call begins with a stage that fits its command, and fresh locals. *)
LEMMA IoctlStep ==
  ASSUME CallInv, NEW u \in User, NEW cmd, Ioctl(u, cmd) PROVE CallInv'
<1>1. PICK arg \in Arguments(cmd) :
        call' = [call EXCEPT ![u] =
          [Idle EXCEPT !.at = FirstStage(cmd), !.cmd = cmd, !.arg = arg,
                       !.status = AtOnce(cmd)]]
  BY DEF Ioctl
<1> DEFINE st == AtOnce(cmd)
           c == [Idle EXCEPT !.at = FirstStage(cmd), !.cmd = cmd, !.arg = arg, !.status = st]
           l == [tmp |-> 0, clock_bits |-> NoWord]
<1>2. call' = [call EXCEPT ![u] = c]
  BY <1>1
<1>3. locals' = [locals EXCEPT ![u] = l] /\ mem' = [mem EXCEPT ![u] = Junk]
  BY DEF Ioctl, Frame
<1> HIDE DEF st
<1>4. IsCall(c) /\ IsFrame(l) /\ c.at = FirstStage(cmd) /\ c.cmd = cmd /\ l.tmp = 0
  BY DEF IsCall, IsFrame, Idle
<1> HIDE DEF c, l
<1>5. Kind(c)
  BY <1>4 DEF Kind, FirstStage, AtOnce, EPROTONOSUPPORT, ENOTTY
<1>6. Fetched(c, l, Junk)
  BY <1>4 DEF Fetched, FirstStage, AtOnce, EPROTONOSUPPORT, ENOTTY
<1>7. Handed(c, l)
  BY <1>4 DEF Handed, FirstStage, AtOnce, EPROTONOSUPPORT, ENOTTY
<1>8. Sound(c, l, Junk)
  BY <1>5, <1>6, <1>7 DEF Sound
<1> QED BY <1>2, <1>3, <1>4, <1>8, StepOfOne

(* A setter's call is none that gets something.                            *)
LEMMA SetStep == ASSUME CallInv, NEW u \in User, Set(u) PROVE CallInv'
<1> DEFINE st == Status(call[u].cmd, Refusal(call[u].cmd[2], Passed(call[u].cmd, call[u].arg)))
           c == [call[u] EXCEPT !.at = "return", !.status = st]
<1>1. call' = [call EXCEPT ![u] = c] /\ locals' = locals /\ mem' = mem
  BY Unchanged DEF Set, CallInv, Shape
<1> HIDE DEF st
<1>2. IsCall(c) /\ c.at = "return" /\ c.cmd = call[u].cmd
  BY Unchanged DEF IsCall
<1>3. Sound(c, locals[u], mem[u])
  BY Unchanged, <1>2 DEF Sound, Kind, Fetched, Handed, Set
<1> HIDE DEF c
<1> QED BY <1>1, <1>2, <1>3, Unchanged, StepOfOne

(* After a getter, tmp is what the getter found, or still the zero it was  *)
(* set to.                                                                 *)
LEMMA GetStep == ASSUME CallInv, NEW u \in User, Get(u) PROVE CallInv'
<1> DEFINE n == call[u].cmd[2]
<1>1. PICK c, l : /\ call' = [call EXCEPT ![u] = c] /\ locals' = [locals EXCEPT ![u] = l]
                  /\ IsCall(c) /\ c.at = "copy_out" /\ c.cmd = call[u].cmd
                  /\ IsFrame(l) /\ l.tmp = c.seen
  <2>1. CASE n \in {"card_type", "dev_info"}
    <3> DEFINE v == IF n = "card_type" THEN CardType ELSE DevInfo
               c == [call[u] EXCEPT !.at = "copy_out", !.seen = v]
               l == [locals[u] EXCEPT !.tmp = v]
    <3>1. call' = [call EXCEPT ![u] = c] /\ locals' = [locals EXCEPT ![u] = l]
      BY <2>1, Unchanged DEF Get, Frame, CallInv, Shape
    <3> HIDE DEF v
    <3>2. /\ IsCall(c) /\ c.at = "copy_out" /\ c.cmd = call[u].cmd /\ c.seen = v
          /\ IsFrame(l) /\ l.tmp = v
      BY Unchanged DEF IsCall, IsFrame
    <3> HIDE DEF c, l
    <3> QED BY <3>1, <3>2
  <2>2. CASE n \notin {"card_type", "dev_info"} /\ Supported(n)
    <3> DEFINE st == Status(call[u].cmd, 0)
               v == Held(n)
               c == [call[u] EXCEPT !.at = "copy_out", !.status = st, !.seen = v]
               l == [locals[u] EXCEPT !.tmp = v]
    <3>1. call' = [call EXCEPT ![u] = c] /\ locals' = [locals EXCEPT ![u] = l]
      BY <2>2, Unchanged DEF Get, Frame, CallInv, Shape
    <3> HIDE DEF st, v
    <3>2. /\ IsCall(c) /\ c.at = "copy_out" /\ c.cmd = call[u].cmd /\ c.seen = v
          /\ IsFrame(l) /\ l.tmp = v
      BY Unchanged DEF IsCall, IsFrame
    <3> HIDE DEF c, l
    <3> QED BY <3>1, <3>2
  <2>3. CASE n \notin {"card_type", "dev_info"} /\ ~Supported(n)
    <3> DEFINE st == Status(call[u].cmd, EPROTONOSUPPORT)
               c == [call[u] EXCEPT !.at = "copy_out", !.status = st, !.seen = 0]
    <3>1. call' = [call EXCEPT ![u] = c] /\ locals' = [locals EXCEPT ![u] = locals[u]]
      BY <2>3, Unchanged DEF Get, Frame, CallInv, Shape
    <3> HIDE DEF st
    <3>2. IsCall(c) /\ c.at = "copy_out" /\ c.cmd = call[u].cmd /\ c.seen = 0
      BY Unchanged DEF IsCall
    <3>3. IsFrame(locals[u]) /\ locals[u].tmp = 0
      BY Unchanged DEF Sound, Fetched, Get
    <3> HIDE DEF c
    <3> QED BY <3>1, <3>2, <3>3
  <2> QED BY <2>1, <2>2, <2>3
<1>2. Sound(c, l, mem[u])
  BY <1>1, Unchanged DEF Sound, Kind, Fetched, Handed, Get
<1>3. mem' = mem
  BY DEF Get
<1> QED BY <1>1, <1>2, <1>3, Unchanged, StepOfOne

(* A copy that does not fail puts tmp into the user's buffer.              *)
LEMMA CopyToUserStep == ASSUME CallInv, NEW u \in User, CopyToUser(u) PROVE CallInv'
<1>1. CASE mem' = [mem EXCEPT ![u] = locals[u].tmp] /\ call' = [call EXCEPT ![u].at = "return"]
  <2> DEFINE c == [call[u] EXCEPT !.at = "return"]
  <2>1. IsCall(c) /\ c.at = "return" /\ c.cmd = call[u].cmd /\ c.seen = call[u].seen
    BY Unchanged DEF IsCall
  <2>2. Sound(c, locals[u], locals[u].tmp)
    BY <2>1, Unchanged DEF Sound, Kind, Fetched, Handed, CopyToUser
  <2>3. call' = [call EXCEPT ![u] = c] /\ locals' = locals
    BY <1>1 DEF CopyToUser
  <2> HIDE DEF c
  <2> QED BY <1>1, <2>1, <2>2, <2>3, Unchanged, StepOfOne
<1>2. CASE /\ call' = [call EXCEPT ![u].at = "return", ![u].fault = TRUE,
                         ![u].status = IF call[u].cmd[2] = "dev_info" THEN -ENODATA ELSE @]
           /\ mem' = mem
  <2> DEFINE st == IF call[u].cmd[2] = "dev_info" THEN -ENODATA ELSE call[u].status
             c == [call[u] EXCEPT !.at = "return", !.fault = TRUE, !.status = st]
  <2>1. call' = [call EXCEPT ![u] = c] /\ locals' = locals
    BY <1>2, Unchanged DEF CopyToUser, CallInv, Shape, IsCall
  <2> HIDE DEF st
  <2>2. IsCall(c) /\ c.at = "return" /\ c.fault = TRUE
    BY Unchanged DEF IsCall
  <2>3. Sound(c, locals[u], mem[u])
    BY <2>2 DEF Sound, Kind, Fetched, Handed
  <2> HIDE DEF c
  <2> QED BY <1>2, <2>1, <2>2, <2>3, Unchanged, StepOfOne
<1> QED BY <1>1, <1>2 DEF CopyToUser, Frame

(* clock_bits is the word of the call it belongs to, or part of it.        *)
LEMMA CopyFromUserStep == ASSUME CallInv, NEW u \in User, CopyFromUser(u) PROVE CallInv'
<1>1. PICK fault \in BOOLEAN :
        /\ locals' = [locals EXCEPT ![u].clock_bits =
                        IF fault THEN Partly(call[u].arg) ELSE Whole(call[u].arg)]
        /\ call' = [call EXCEPT ![u].at = "load", ![u].fault = fault]
  BY DEF CopyFromUser, Frame
<1> DEFINE w == IF fault THEN Partly(call[u].arg) ELSE Whole(call[u].arg)
           l == [locals[u] EXCEPT !.clock_bits = w]
           c == [call[u] EXCEPT !.at = "load", !.fault = fault]
<1>2. call' = [call EXCEPT ![u] = c] /\ mem' = mem
  BY <1>1, Unchanged DEF CopyFromUser, CallInv, Shape
<1>3. locals' = [locals EXCEPT ![u] = l]
  BY <1>1
<1>4. IsCall(c) /\ c.at = "load" /\ c.cmd = call[u].cmd /\ c.arg = call[u].arg /\ c.fault = fault
  BY Unchanged DEF IsCall
<1>5. IsFrame(l) /\ l.clock_bits = w
  BY Unchanged DEF IsFrame
<1>6. Sound(c, l, mem[u])
  BY <1>4, <1>5, Unchanged DEF Sound, Kind, Fetched, Handed, CopyFromUser
<1> HIDE DEF c, l
<1> QED BY <1>2, <1>3, <1>4, <1>5, <1>6, Unchanged, StepOfOne

(* A call that loads the clock gets nothing.                               *)
LEMMA LoadClockStep == ASSUME CallInv, NEW u \in User, LoadClock(u) PROVE CallInv'
<1>1. PICK c : /\ call' = [call EXCEPT ![u] = c]
               /\ IsCall(c) /\ c.at = "return" /\ c.cmd = call[u].cmd
  <2>1. CASE call' = [call EXCEPT ![u].at = "return"]
    <3> DEFINE c == [call[u] EXCEPT !.at = "return"]
    <3>1. call' = [call EXCEPT ![u] = c]
      BY <2>1
    <3>2. IsCall(c) /\ c.at = "return" /\ c.cmd = call[u].cmd
      BY Unchanged DEF IsCall
    <3> HIDE DEF c
    <3> QED BY <3>1, <3>2
  <2>2. CASE call' = [call EXCEPT ![u].at = "return",
                        ![u].status = IF Fscc THEN 1 ELSE -EPROTONOSUPPORT]
    <3> DEFINE st == IF Fscc THEN 1 ELSE -EPROTONOSUPPORT
               c == [call[u] EXCEPT !.at = "return", !.status = st]
    <3>1. call' = [call EXCEPT ![u] = c]
      BY <2>2, Unchanged DEF CallInv, Shape
    <3> HIDE DEF st
    <3>2. IsCall(c) /\ c.at = "return" /\ c.cmd = call[u].cmd
      BY Unchanged DEF IsCall
    <3> HIDE DEF c
    <3> QED BY <3>1, <3>2
  <2> QED BY <2>1, <2>2 DEF LoadClock
<1>2. Sound(c, locals[u], mem[u])
  <2>1. call[u].cmd = <<"set", "clock_bits">>
    BY Unchanged DEF Sound, Kind, LoadClock
  <2>2. c.cmd[1] # "get"
    BY <1>1, <2>1
  <2> QED BY <1>1, <2>2 DEF Sound, Kind, Fetched, Handed
<1>3. locals' = locals /\ mem' = mem
  BY DEF LoadClock
<1> QED BY <1>1, <1>2, <1>3, Unchanged, StepOfOne

(* Outside a call there is nothing to be right about.                      *)
LEMMA Resting ==
  ASSUME NEW c, NEW l, NEW m, c.at \in {"user", "stored", "shown"} PROVE Sound(c, l, m)
BY DEF Sound, Kind, Fetched, Handed

(* The call returns: the caller is idle again.                             *)
LEMMA ReturnStep == ASSUME CallInv, NEW u \in User, Return(u) PROVE CallInv'
<1> DEFINE l == [tmp |-> Junk, clock_bits |-> NoWord]
<1>1. IsCall(Idle) /\ Idle.at = "user" /\ IsFrame(l)
  BY DEF Idle, IsCall, IsFrame
<1>2. Sound(Idle, l, Junk)
  BY <1>1, Resting
<1>3. /\ call' = [call EXCEPT ![u] = Idle] /\ locals' = [locals EXCEPT ![u] = l]
      /\ mem' = [mem EXCEPT ![u] = Junk]
  BY DEF Return, Frame
<1> HIDE DEF l
<1> QED BY <1>1, <1>2, <1>3, StepOfOne

(* Reading and writing attributes uses no locals of the ioctl.             *)
LEMMA AttributeStep ==
  ASSUME CallInv, NEW u \in User, NEW n, Store(u, n) \/ Show(u, n) \/ Done(u) PROVE CallInv'
<1>1. PICK c, m : /\ call' = [call EXCEPT ![u] = c] /\ mem' = [mem EXCEPT ![u] = m]
                  /\ IsCall(c) /\ c.at \in {"user", "stored", "shown"}
  <2>1. CASE Store(u, n)
    <3>1. PICK text \in Text :
            call' = [call EXCEPT ![u] = [Idle EXCEPT !.at = "stored", !.cmd = <<"store", n>>, !.arg = text]]
      BY <2>1 DEF Store
    <3> DEFINE c == [Idle EXCEPT !.at = "stored", !.cmd = <<"store", n>>, !.arg = text]
    <3>2. IsCall(c) /\ c.at = "stored"
      BY DEF IsCall, Idle
    <3>3. mem' = mem
      BY <2>1 DEF Store
    <3> HIDE DEF c
    <3> QED BY <3>1, <3>2, <3>3, Unchanged DEF c
  <2>2. CASE Show(u, n)
    <3> DEFINE c == [Idle EXCEPT !.at = "shown", !.cmd = <<"show", n>>]
               m == IF Supported(n) THEN Held(n) ELSE 0
    <3>1. call' = [call EXCEPT ![u] = c] /\ mem' = [mem EXCEPT ![u] = m]
      BY <2>2 DEF Show
    <3>2. IsCall(c) /\ c.at = "shown"
      BY DEF IsCall, Idle
    <3> HIDE DEF c, m
    <3> QED BY <3>1, <3>2
  <2>3. CASE Done(u)
    <3>1. IsCall(Idle) /\ Idle.at = "user"
      BY DEF IsCall, Idle
    <3> QED BY <2>3, <3>1 DEF Done
  <2> QED BY <2>1, <2>2, <2>3
<1>2. locals' = locals
  BY DEF Store, Show, Done
<1>3. Sound(c, locals[u], m)
  BY <1>1, Resting
<1> QED BY <1>1, <1>2, <1>3, Unchanged, StepOfOne

-----------------------------------------------------------------------------
(* Whatever users do at once, each call's stack holds what that call put   *)
(* there.                                                                  *)
THEOREM CallInvariance == Spec => []CallInv
<1>1. Init => CallInv
  BY Resting DEF Init, CallInv, Shape, Idle, IsCall, IsFrame
<1>2. CallInv /\ [Next]_vars => CallInv'
  <2> SUFFICES ASSUME CallInv, [Next]_vars PROVE CallInv'
    OBVIOUS
  <2>1. CASE UNCHANGED vars
    BY <2>1 DEF vars, CallInv, Shape, Sound, Kind, Fetched, Handed, Partly, Whole,
                IsCall, IsFrame
  <2>2. ASSUME NEW u \in User, NEW cmd \in Command, Ioctl(u, cmd) PROVE CallInv'
    BY <2>2, IoctlStep
  <2>3. ASSUME NEW u \in User, Set(u) PROVE CallInv'
    BY <2>3, SetStep
  <2>4. ASSUME NEW u \in User, Get(u) PROVE CallInv'
    BY <2>4, GetStep
  <2>5. ASSUME NEW u \in User, CopyToUser(u) PROVE CallInv'
    BY <2>5, CopyToUserStep
  <2>6. ASSUME NEW u \in User, CopyFromUser(u) PROVE CallInv'
    BY <2>6, CopyFromUserStep
  <2>7. ASSUME NEW u \in User, LoadClock(u) PROVE CallInv'
    BY <2>7, LoadClockStep
  <2>8. ASSUME NEW u \in User, Return(u) PROVE CallInv'
    BY <2>8, ReturnStep
  <2>9. ASSUME NEW u \in User, NEW n, Store(u, n) \/ Show(u, n) \/ Done(u) PROVE CallInv'
    BY <2>9, AttributeStep
  <2> QED BY <2>1, <2>2, <2>3, <2>4, <2>5, <2>6, <2>7, <2>8, <2>9 DEF Next
<1> QED BY <1>1, <1>2, PTL DEF Spec

(* The answer to an ioctl that gets something (serialfc_ioctl, main.c) is  *)
(* the setting at one moment of the call, for any number of callers.       *)
THEOREM AnsweredHolds == Spec => []Answered
<1>1. CallInv => Answered
  BY DEF CallInv, Answered, Sound, Fetched
<1> QED BY <1>1, CallInvariance, PTL

(* The clock chip gets one caller's word (IOCTL_FASTCOM_SET_CLOCK_BITS,    *)
(* main.c), for any number of callers and any words.                       *)
THEOREM ClockAsHandedHolds == Spec => ClockAsHanded
<1> DEFINE Step ==
      clock' # clock =>
        \E u \in User :
          /\ call[u].at = "load" /\ call'[u].at = "return"
          /\ clock' = IF call[u].fault THEN Partly(call[u].arg) ELSE Whole(call[u].arg)
<1>1. CallInv /\ [Next]_vars => [Step]_vars
  <2> SUFFICES ASSUME CallInv, Next, clock' # clock PROVE Step
    BY DEF vars
  <2>1. PICK u \in User : LoadClock(u)
    BY DEF Next, Ioctl, Set, Get, CopyToUser, CopyFromUser, Return, Store, Show, Done
  <2>2. call[u].at = "load" /\ clock' = locals[u].clock_bits /\ call' = [call EXCEPT ![u].at = "return"]
    BY <2>1 DEF LoadClock, Frame
  <2>3. call'[u].at = "return"
    BY <2>2, Unchanged DEF CallInv, Shape, IsCall
  <2>4. clock' = IF call[u].fault THEN Partly(call[u].arg) ELSE Whole(call[u].arg)
    BY <2>2, Unchanged DEF Sound, Handed
  <2> QED BY <2>2, <2>3, <2>4
<1> QED BY <1>1, CallInvariance, PTL DEF Spec, ClockAsHanded

-----------------------------------------------------------------------------
(* Settings.                                                               *)

\* What is being asked for is of the kind the command wants.
Asked(c) ==
  /\ c.at = "set" => /\ c.cmd[2] \in Name \cup {"clock_rate"}
                     /\ c.arg \in Int
                     /\ c.cmd[2] = "baud_rate" => c.cmd[1] = "set" /\ c.arg # 0
                     /\ c.cmd[1] \in {"enable", "disable", "set"}
                     /\ c.cmd[1] = "disable" => c.cmd[2] \in Switched
                     /\ c.cmd[1] = "set" => c.cmd[2] \notin OnOff
  /\ c.at \in {"copy_in", "load"} => c.arg \in Word

SettingInv ==
  /\ CallInv /\ TypeOK
  /\ \A u \in User : Asked(call[u])

(* All ranges are ranges of numbers, whatever the family.                  *)
LEMMA Ranges == (\A r \in Rates : r \in 4..16) /\ TriggerLimit \in {127, 64, 255}
BY DEF Rates, TriggerLimit

(* The sampling rate in force is a number from 4 to 16.                    *)
LEMMA RateInForce == ASSUME TypeOK PROVE setting["sample_rate"] \in 4..16
<1>1. "sample_rate" \in Name \ OnOff
  BY DEF Name, Numeric, OnOff
<1>2. setting["sample_rate"] \in Room("sample_rate")
  BY <1>1 DEF TypeOK
<1>3. Room("sample_rate") = Rates
  BY <1>1 DEF Room
<1> QED BY <1>2, <1>3, Ranges

(* No accepted rate has a divisor below sixteen sixteenths, even of those  *)
(* whose divisor is cut to 20 bits: 2^20 times a number that is 1907 at    *)
(* most always leaves more than fifteen sixteenths of 2000000000.          *)
LEMMA DivisorKept ==
  ASSUME NEW v \in Int, NEW rate \in 4..16, v > 0, v <= Clock125 \div rate
  PROVE  (Sixteenths \div (v * rate)) % Divisors \in 16..(Divisors - 1)
<1> DEFINE x == v * rate
           q == Sixteenths \div x
           k == q \div 1048576
           j == q % 1048576
<1>1. x \in Nat /\ x >= 4 /\ x <= 125000000
  BY SMTT(30) DEF Clock125
<1> HIDE DEF x
<1>2. q \in Nat /\ x * q <= 2000000000 /\ 2000000000 < x * q + x
  BY <1>1, SMTT(30) DEF Sixteenths
<1>3. q >= 16
  BY <1>1, SMTT(30) DEF Sixteenths
<1> HIDE DEF q
<1>4. k \in Nat /\ j \in Nat /\ j < 1048576 /\ q = k * 1048576 + j
  BY <1>2, SMTT(30)
<1> HIDE DEF k, j
<1>5. j >= 16
  <2> SUFFICES ASSUME j < 16 PROVE FALSE
    BY <1>4, SMTT(30)
  <2>1. k >= 1
    BY <1>3, <1>4, SMTT(30)
  <2> DEFINE m == x * k
             y == x * j
  <2>2. x * q = m * 1048576 + y
    BY <1>1, <1>4, SMTT(30)
  <2>3. m \in Nat /\ y \in Nat /\ x <= m /\ y <= 15 * x
    BY <1>1, <1>4, <2>1, SMTT(30)
  <2> HIDE DEF m, y
  <2>4. m * 1048576 + y <= 2000000000 /\ 2000000000 < m * 1048576 + y + x
    BY <1>2, <2>2, SMTT(30)
  <2>5. m <= 1907
    BY <2>3, <2>4, SMTT(30)
  <2> QED BY <1>1, <2>3, <2>4, <2>5, SMTT(30)
<1>6. Divisors = 1048576
  BY SMTT(30) DEF Divisors
<1>7. j = (Sixteenths \div (v * rate)) % Divisors
  BY <1>6, SMTT(30) DEF j, q, x
<1>8. j <= Divisors - 1 /\ Divisors - 1 \in Int
  BY <1>4, <1>6, SMTT(30)
<1> QED BY <1>4, <1>5, <1>7, <1>8, SMTT(30)

(* An operation leaves in force a value of the family's range, or refuses. *)
LEMMA OperationKeeps ==
  ASSUME TypeOK,
         NEW n \in Name \cup {"clock_rate"}, NEW v \in Int, n = "baud_rate" => v # 0
  PROVE  /\ Refusal(n, v) = 0 => n \in Name /\ Kept(n, v) \in Room(n) /\ Kept(n, v) \in Int
         /\ Refusal(n, v) \in {0, EINVAL, EPROTONOSUPPORT}
<1>1. Refusal(n, v) \in {0, EINVAL, EPROTONOSUPPORT}
  BY DEF Refusal
<1>2. ASSUME Refusal(n, v) = 0 PROVE n \in Name /\ Kept(n, v) \in Room(n) /\ Kept(n, v) \in Int
  <2>1. Supported(n) /\ InRange(n, v)
    BY <1>2 DEF Refusal, EINVAL, EPROTONOSUPPORT
  <2>2. n \in Name
    BY <2>1 DEF Supported, Name, Switched, OnOff, Numeric
  <2>3. CASE n = "baud_rate"
    <3>1. setting["sample_rate"] \in 4..16
      BY RateInForce
    <3>2. v \in 0..Clock125 \div setting["sample_rate"]
      BY <2>1, <2>3 DEF InRange
    <3>3. (Sixteenths \div (v * setting["sample_rate"])) % Divisors \in 16..(Divisors - 1)
      <4> DEFINE rate == setting["sample_rate"]
      <4>1. v > 0 /\ v <= Clock125 \div rate
        BY <2>3, <3>2, SMTT(30)
      <4>2. rate \in 4..16
        BY <3>1
      <4> HIDE DEF rate
      <4> QED BY <4>1, <4>2, DivisorKept DEF rate
    <3>4. Kept(n, v) = (Sixteenths \div (v * setting["sample_rate"])) % Divisors
      BY <2>3 DEF Kept, OnOff
    <3>5. Kept(n, v) \in 16..(Divisors - 1)
      BY <3>3, <3>4
    <3> QED BY <2>2, <2>3, <3>5 DEF Room, OnOff
  <2>4. CASE n \in OnOff
    BY <2>2, <2>4 DEF Kept, OnOff, Room
  <2>5. CASE n \notin OnOff \cup {"baud_rate"}
    <3>1. Kept(n, v) = v
      BY <2>5 DEF Kept
    <3>2. n \in {"sample_rate", "tx_trigger", "rx_trigger", "isochronous", "external_transmit", "frame_length"}
      BY <2>2, <2>5 DEF Name, Switched, Numeric, OnOff
    <3>3. v \in Room(n)
      <4>1. CASE n = "sample_rate"
        BY <2>1, <4>1 DEF InRange, Room, OnOff
      <4>2. CASE n \in {"tx_trigger", "rx_trigger"}
        BY <2>1, <4>2 DEF InRange, Room, OnOff
      <4>3. CASE n = "isochronous"
        BY <2>1, <4>3 DEF InRange, Room, OnOff
      <4>4. CASE n = "external_transmit"
        BY <2>1, <4>4, SMT DEF InRange, Room, OnOff
      <4>5. CASE n = "frame_length"
        BY <2>1, <4>5 DEF InRange, Room, OnOff
      <4> QED BY <3>2, <4>1, <4>2, <4>3, <4>4, <4>5
    <3> QED BY <2>2, <3>1, <3>3
  <2> QED BY <2>3, <2>4, <2>5
<1> QED BY <1>1, <1>2

(* So an operation, whoever asks for it, keeps all settings in range.      *)
LEMMA ApplyKeeps ==
  ASSUME TypeOK,
         NEW n \in Name \cup {"clock_rate"}, NEW v \in Int, n = "baud_rate" => v # 0,
         Apply(n, v), family' = family
  PROVE  /\ setting' \in [Name -> Int] /\ \A m \in Name : setting'[m] \in Room(m)
<1>1. \A m \in Name : setting[m] \in Room(m)
  BY DEF TypeOK
<1>2. \A m \in Name : setting'[m] = setting[m] \/ setting'[m] \in Room(m)
  <2>1. CASE Refusal(n, v) = 0
    <3>1. Kept(n, v) \in Room(n)
      BY <2>1, OperationKeeps
    <3> QED BY <2>1, <3>1 DEF Apply
  <2>2. CASE Refusal(n, v) # 0
    BY <2>2 DEF Apply
  <2> QED BY <2>1, <2>2
<1>3. setting' \in [Name -> Int]
  <2>1. Refusal(n, v) = 0 => n \in Name /\ Kept(n, v) \in Int
    BY OperationKeeps
  <2> QED BY <2>1 DEF Apply, TypeOK
<1>4. \A m \in Name : setting'[m] \in Room(m)
  BY <1>1, <1>2
<1> QED BY <1>3, <1>4

(* The room for a setting is the family's.                                 *)
LEMMA RoomStays == ASSUME family' = family PROVE \A m \in Name : Room(m)' = Room(m)
<1>1. Rates' = Rates /\ TriggerLimit' = TriggerLimit
  BY DEF Rates, TriggerLimit, Fscc
<1> QED BY <1>1, SMT DEF Room

(* How a call of an ioctl begins.                                          *)
LEMMA Begun ==
  ASSUME CallInv, NEW u \in User, NEW cmd, Ioctl(u, cmd)
  PROVE  \E c : /\ call' = [call EXCEPT ![u] = c]
                /\ c.at = FirstStage(cmd) /\ c.cmd = cmd /\ c.arg \in Arguments(cmd)
<1>1. PICK arg \in Arguments(cmd) :
        call' = [call EXCEPT ![u] =
          [Idle EXCEPT !.at = FirstStage(cmd), !.cmd = cmd, !.arg = arg,
                       !.status = AtOnce(cmd)]]
  BY DEF Ioctl
<1> DEFINE st == AtOnce(cmd)
           c == [Idle EXCEPT !.at = FirstStage(cmd), !.cmd = cmd, !.arg = arg, !.status = st]
<1>2. call' = [call EXCEPT ![u] = c]
  BY <1>1
<1> HIDE DEF st
<1>3. c.at = FirstStage(cmd) /\ c.cmd = cmd /\ c.arg \in Arguments(cmd)
  BY DEF Idle
<1> HIDE DEF c
<1> WITNESS c
<1> QED BY <1>2, <1>3

(* How it ends, and what a use of an attribute leaves behind.              *)
LEMMA Ended ==
  ASSUME DOMAIN call = User, NEW u \in User, NEW n, NEW w \in User,
         Return(u) \/ Store(u, n) \/ Show(u, n) \/ Done(u)
  PROVE  call'[u].at \in {"user", "stored", "shown"} /\ (w # u => call'[w] = call[w])
<1>1. CASE Return(u)
  BY <1>1 DEF Return, Idle
<1>2. CASE Done(u)
  BY <1>2 DEF Done, Idle
<1>3. CASE Show(u, n)
  BY <1>3 DEF Show, Idle
<1>4. CASE Store(u, n)
  <2>1. PICK text \in Text :
          call' = [call EXCEPT ![u] = [Idle EXCEPT !.at = "stored", !.cmd = <<"store", n>>, !.arg = text]]
    BY <1>4 DEF Store
  <2> QED BY <2>1 DEF Idle
<1> QED BY <1>1, <1>2, <1>3, <1>4

(* What callers pass are numbers.                                          *)
LEMMA Numbers ==
  /\ \A x \in Number : x \in Int
  /\ \A t \in Text : t.hex \in Int /\ t.dec \in Int
<1>1. Number \subseteq Int /\ \A t \in Text : {t.hex, t.dec} \subseteq Int
  BY NumberAssumption
<1> QED BY <1>1

(* Between its begin and its set or load, a call keeps what was asked.     *)
LEMMA AskedKeeps ==
  ASSUME CallInv, \A w \in User : Asked(call[w]), Next
  PROVE  \A w \in User : Asked(call'[w])
<1> SUFFICES ASSUME NEW w \in User PROVE Asked(call'[w])
  OBVIOUS
<1>0. /\ \A x \in User : IsCall(call[x]) /\ Asked(call[x])
      /\ DOMAIN call = User
  BY DEF CallInv, Shape
<1>1. \A x \in User : call'[x].at \in {"get", "copy_out", "return", "user", "stored", "shown"} => Asked(call'[x])
  BY DEF Asked
<1>2. ASSUME NEW u \in User, NEW cmd \in Command, Ioctl(u, cmd) PROVE Asked(call'[w])
  <2>1. PICK c : /\ call' = [call EXCEPT ![u] = c]
                 /\ c.at = FirstStage(cmd) /\ c.cmd = cmd /\ c.arg \in Arguments(cmd)
    BY <1>0, <1>2, Begun
  <2> DEFINE arg == c.arg
  <2>2. call' = [call EXCEPT ![u] = c]
    BY <2>1
  <2>3. c.at = FirstStage(cmd) /\ c.cmd = cmd /\ arg \in Arguments(cmd)
    BY <2>1
  <2>4. cmd \in Ioctls
    BY CommandAssumption
  <2>5. Asked(c)
    <3>1. c.at = "set" => /\ cmd[2] \in Name \cup {"clock_rate"}
                          /\ cmd[1] \in {"enable", "disable", "set"}
                          /\ cmd[2] = "baud_rate" => cmd[1] = "set"
                          /\ cmd[1] = "disable" => cmd[2] \in Switched
                          /\ cmd[1] = "set" => cmd[2] \notin OnOff
      BY <2>3, <2>4 DEF FirstStage, AtOnce, EPROTONOSUPPORT, ENOTTY, Ioctls, Name, Switched, OnOff, Numeric
    <3>2. c.at = "set" => arg \in Int
      <4>1. c.at = "set" => arg \in Number \cup {0}
        BY <2>3 DEF FirstStage, AtOnce, EPROTONOSUPPORT, ENOTTY, Arguments
      <4> QED BY <4>1, Numbers
    <3>3. c.at = "set" /\ cmd[2] = "baud_rate" => arg # 0
      <4> SUFFICES ASSUME c.at = "set", cmd[2] = "baud_rate" PROVE arg # 0
        OBVIOUS
      <4>1. cmd = <<"set", "baud_rate">>
        BY <2>4, <3>1 DEF Ioctls
      <4>2. Arguments(cmd) = Number \ {0}
        BY <4>1 DEF Arguments
      <4> QED BY <2>3, <4>2
    <3>4. c.at \in {"copy_in", "load"} => arg \in Word
      BY <2>3 DEF FirstStage, AtOnce, EPROTONOSUPPORT, ENOTTY, Arguments
    <3> QED BY <2>3, <3>1, <3>2, <3>3, <3>4 DEF Asked
  <2> QED BY <1>0, <2>2, <2>5
<1>3. ASSUME NEW u \in User, Set(u) PROVE Asked(call'[w])
  <2>1. call'[u].at = "return" /\ (w # u => call'[w] = call[w])
    BY <1>0, <1>3 DEF Set, IsCall
  <2> QED BY <1>0, <1>1, <2>1
<1>4. ASSUME NEW u \in User, Get(u) PROVE Asked(call'[w])
  <2>1. call'[u].at = "copy_out" /\ (w # u => call'[w] = call[w])
    BY <1>0, <1>4 DEF Get, IsCall
  <2> QED BY <1>0, <1>1, <2>1
<1>5. ASSUME NEW u \in User, CopyToUser(u) PROVE Asked(call'[w])
  <2>1. call'[u].at = "return" /\ (w # u => call'[w] = call[w])
    BY <1>0, <1>5 DEF CopyToUser, IsCall
  <2> QED BY <1>0, <1>1, <2>1
<1>6. ASSUME NEW u \in User, CopyFromUser(u) PROVE Asked(call'[w])
  <2>1. /\ call[u].at = "copy_in" /\ call'[u].at = "load" /\ call'[u].arg = call[u].arg
        /\ w # u => call'[w] = call[w]
    BY <1>0, <1>6 DEF CopyFromUser, IsCall
  <2>2. Asked(call'[u])
    BY <1>0, <2>1 DEF Asked
  <2> QED BY <1>0, <2>1, <2>2
<1>7. ASSUME NEW u \in User, LoadClock(u) PROVE Asked(call'[w])
  <2>1. call'[u].at = "return" /\ (w # u => call'[w] = call[w])
    BY <1>0, <1>7 DEF LoadClock, IsCall
  <2> QED BY <1>0, <1>1, <2>1
<1>8. ASSUME NEW u \in User, NEW n, Return(u) \/ Store(u, n) \/ Show(u, n) \/ Done(u)
      PROVE Asked(call'[w])
  <2>1. call'[u].at \in {"user", "stored", "shown"} /\ (w # u => call'[w] = call[w])
    BY <1>0, <1>8, Ended
  <2> QED BY <1>0, <1>1, <2>1
<1> QED BY <1>2, <1>3, <1>4, <1>5, <1>6, <1>7, <1>8 DEF Next

(* A call is always at a stage that there is.                              *)
LEMMA StagesKept ==
  ASSUME CallInv, Next, \A w \in User : call[w].at \in Stages
  PROVE  \A w \in User : call'[w].at \in Stages
<1> SUFFICES ASSUME NEW w \in User PROVE call'[w].at \in Stages
  OBVIOUS
<1>1. DOMAIN call = User /\ \A x \in User : IsCall(call[x])
  BY DEF CallInv, Shape
<1>2. ASSUME NEW u \in User, NEW cmd, Ioctl(u, cmd) PROVE call'[w].at \in Stages
  <2>0. PICK c : call' = [call EXCEPT ![u] = c] /\ c.at = FirstStage(cmd)
    BY <1>2, Begun
  <2>1. call'[u].at = FirstStage(cmd) /\ (w # u => call'[w] = call[w])
    BY <1>1, <2>0
  <2> QED BY <2>1 DEF FirstStage, AtOnce, EPROTONOSUPPORT, ENOTTY, Stages
<1>3. ASSUME NEW u \in User, Set(u) \/ Get(u) \/ CopyToUser(u) PROVE call'[w].at \in Stages
  <2>1. call'[u].at \in {"return", "copy_out"} /\ (w # u => call'[w] = call[w])
    BY <1>1, <1>3 DEF Set, Get, CopyToUser, IsCall
  <2> QED BY <2>1 DEF Stages
<1>4. ASSUME NEW u \in User, CopyFromUser(u) \/ LoadClock(u) PROVE call'[w].at \in Stages
  <2>1. call'[u].at \in {"load", "return"} /\ (w # u => call'[w] = call[w])
    BY <1>1, <1>4 DEF CopyFromUser, LoadClock, IsCall
  <2> QED BY <2>1 DEF Stages
<1>5. ASSUME NEW u \in User, NEW n, Return(u) \/ Store(u, n) \/ Show(u, n) \/ Done(u)
      PROVE call'[w].at \in Stages
  <2>1. call'[u].at \in {"user", "stored", "shown"} /\ (w # u => call'[w] = call[w])
    BY <1>1, <1>5, Ended
  <2> QED BY <2>1 DEF Stages
<1> QED BY <1>2, <1>3, <1>4, <1>5 DEF Next

(* What the operation behind an ioctl is given fits its setting.           *)
LEMMA PassedTypes ==
  ASSUME SettingInv, NEW u \in User, call[u].at = "set"
  PROVE  LET n == call[u].cmd[2]
             v == Passed(call[u].cmd, call[u].arg)
         IN  n \in Name \cup {"clock_rate"} /\ v \in Int /\ (n = "baud_rate" => v # 0)
<1>1. Asked(call[u])
  BY DEF SettingInv
<1> QED BY <1>1 DEF Asked, Passed

(* Only the operations of setters change settings.                         *)
LEMMA SettingSteps ==
  ASSUME SettingInv, Next
  PROVE  /\ family' = family
         /\ \/ setting' = setting
            \/ \E n \in Name \cup {"clock_rate"}, v \in Int : (n = "baud_rate" => v # 0) /\ Apply(n, v)
<1>1. ASSUME NEW u \in User, Set(u)
      PROVE  \E n \in Name \cup {"clock_rate"}, v \in Int : (n = "baud_rate" => v # 0) /\ Apply(n, v)
  BY <1>1, PassedTypes DEF Set
<1>2. ASSUME NEW u \in User, NEW n \in Attribute, Store(u, n)
      PROVE  \E m \in Name \cup {"clock_rate"}, v \in Int : (m = "baud_rate" => v # 0) /\ Apply(m, v)
  <2>1. PICK text \in Text : (n = "baud_rate" => text.dec # 0) /\ Apply(n, Value(n, text))
    BY <1>2 DEF Store
  <2>2. n \in Name
    BY AttributeAssumption DEF Attributes
  <2>3. Value(n, text) \in Int /\ (n = "baud_rate" => Value(n, text) # 0)
    BY <2>1, Numbers DEF Value
  <2> QED BY <2>1, <2>2, <2>3
<1>3. ASSUME NEW u \in User, NEW cmd, NEW n,
             \/ Ioctl(u, cmd) \/ Get(u) \/ CopyToUser(u) \/ CopyFromUser(u) \/ LoadClock(u)
             \/ Return(u) \/ Show(u, n) \/ Done(u)
      PROVE  setting' = setting
  BY <1>3 DEF Ioctl, Get, CopyToUser, CopyFromUser, LoadClock, Return, Show, Done
<1>4. family' = family
  BY DEF Next, Ioctl, Set, Get, CopyToUser, CopyFromUser, LoadClock, Return, Store, Show, Done
<1> QED BY <1>1, <1>2, <1>3, <1>4 DEF Next

(* The clock chip is loaded from the locals of a call, never else.         *)
LEMMA ClockStep ==
  ASSUME CallInv, Next, clock' # clock
  PROVE  \E u \in User : /\ call[u].at = "load" /\ call'[u].at = "return"
                         /\ clock' = IF call[u].fault THEN Partly(call[u].arg) ELSE Whole(call[u].arg)
<1>1. PICK u \in User : LoadClock(u)
  BY DEF Next, Ioctl, Set, Get, CopyToUser, CopyFromUser, Return, Store, Show, Done
<1>2. call[u].at = "load" /\ clock' = locals[u].clock_bits /\ call' = [call EXCEPT ![u].at = "return"]
  BY <1>1 DEF LoadClock, Frame
<1>3. call'[u].at = "return"
  BY <1>2, Unchanged DEF CallInv, Shape, IsCall
<1>4. clock' = IF call[u].fault THEN Partly(call[u].arg) ELSE Whole(call[u].arg)
  BY <1>2, Unchanged DEF Sound, Handed
<1> QED BY <1>2, <1>3, <1>4

(* Every step keeps the settings and what the calls ask for.               *)
LEMMA NextKeepsSettingInv == ASSUME SettingInv, CallInv', [Next]_vars PROVE SettingInv'
<1>1. CASE Next
  <2>1. /\ CallInv /\ TypeOK /\ \A w \in User : Asked(call[w])
    BY DEF SettingInv
  <2>2. family' = family /\ setting' \in [Name -> Int] /\ \A m \in Name : setting'[m] \in Room(m)
    <3>1. family' = family
      BY <1>1, SettingSteps
    <3>2. CASE setting' = setting
      BY <2>1, <3>1, <3>2 DEF TypeOK
    <3>3. CASE setting' # setting
      <4>1. PICK n \in Name \cup {"clock_rate"}, v \in Int : (n = "baud_rate" => v # 0) /\ Apply(n, v)
        BY <1>1, <3>3, SettingSteps
      <4> QED BY <2>1, <3>1, <4>1, ApplyKeeps
    <3> QED BY <3>2, <3>3
  <2>3. (setting \in [Name -> Int] /\ \A m \in Name : setting[m] \in Room(m))'
    BY <2>2, RoomStays
  <2>4. (clock = NoWord \/ clock.of \in Word)'
    <3>1. CASE clock' = clock
      BY <2>1, <3>1 DEF TypeOK, NoWord, Partly
    <3>2. CASE clock' # clock
      <4>1. PICK u \in User :
              /\ call[u].at = "load"
              /\ clock' = IF call[u].fault THEN Partly(call[u].arg) ELSE Whole(call[u].arg)
        BY <1>1, <2>1, <3>2, ClockStep
      <4>2. call[u].arg \in Word
        BY <2>1, <4>1 DEF Asked
      <4> QED BY <4>1, <4>2 DEF Partly, Whole
    <3> QED BY <3>1, <3>2
  <2>5. (\A u \in User : call[u].at \in Stages)'
    BY <1>1, <2>1, StagesKept DEF TypeOK, Stages
  <2>6. TypeOK'
    BY <2>1, <2>2, <2>3, <2>4, <2>5 DEF TypeOK
  <2>7. (\A u \in User : Asked(call[u]))'
    BY <1>1, <2>1, AskedKeeps DEF Asked
  <2> QED BY <2>2, <2>6, <2>7 DEF SettingInv
<1>2. CASE UNCHANGED vars
  <2>1. \A m \in Name : Room(m)' = Room(m)
    BY <1>2, RoomStays DEF vars
  <2>2. TypeOK'
    BY <1>2, <2>1 DEF SettingInv, vars, TypeOK
  <2>3. (\A u \in User : Asked(call[u]))'
    BY <1>2 DEF SettingInv, vars
  <2> QED BY <1>2, <2>2, <2>3 DEF SettingInv, vars
<1> QED BY <1>1, <1>2

(* What an accepted operation leaves in force is what the docs say.        *)
LEMMA DocumentedHolds ==
  ASSUME SettingInv, NEW u \in User, call[u].at = "set",
         Refusal(call[u].cmd[2], Passed(call[u].cmd, call[u].arg)) = 0
  PROVE  Documented(call[u].cmd, call[u].arg,
                    Kept(call[u].cmd[2], Passed(call[u].cmd, call[u].arg)))
<1> DEFINE cmd == call[u].cmd
           arg == call[u].arg
           n == cmd[2]
           v == Passed(cmd, arg)
<1>1. /\ cmd[1] \in {"enable", "disable", "set"} /\ arg \in Int
      /\ n = "baud_rate" => cmd[1] = "set" /\ arg # 0
  BY DEF SettingInv, Asked
<1>2. n \in Name /\ Supported(n) /\ InRange(n, v)
  BY OperationKeeps, PassedTypes DEF SettingInv, Refusal, EINVAL, EPROTONOSUPPORT
<1>3. CASE n = "baud_rate"
  <2>1. v = arg
    BY <1>1, <1>3 DEF Passed
  <2> DEFINE rate == setting["sample_rate"]
             unit == arg * rate
             q == Sixteenths \div unit
  <2>2. rate \in 4..16
    BY RateInForce DEF SettingInv
  <2>3. arg > 0
    BY <1>1, <1>2, <1>3, <2>1, <2>2 DEF InRange
  <2>4. unit \in Nat /\ unit > 0
    BY <1>1, <2>2, <2>3
  <2>5. Kept(n, v) = q % Divisors
    BY <1>3, <2>1 DEF Kept, OnOff
  <2>6. q < Divisors => q * unit <= Sixteenths /\ q * unit + unit > Sixteenths /\ q % Divisors = q
    <3> HIDE DEF unit
    <3>1. q \in Nat /\ q * unit <= Sixteenths /\ q * unit + unit > Sixteenths
      BY <2>4, SMTT(30) DEF Sixteenths
    <3>2. Divisors = 1048576
      BY SMTT(30) DEF Divisors
    <3> QED BY <3>1, <3>2
  <2> QED BY <1>3, <2>5, <2>6 DEF Documented, OnOff
<1>4. CASE n \in OnOff
  <2>1. v = (IF cmd[1] = "enable" THEN 1 ELSE IF cmd[1] = "disable" THEN 0 ELSE arg)
    BY <1>4 DEF Passed, OnOff
  <2>2. Asked(call[u])
    BY DEF SettingInv
  <2>3. cmd[1] # "set"
    BY <1>4, <2>2 DEF Asked
  <2>4. Kept(n, v) = (IF cmd[1] = "disable" THEN 0 ELSE 1)
    BY <1>1, <1>4, <2>1, <2>3 DEF Kept
  <2> QED BY <1>4, <2>4 DEF Documented
<1>5. CASE n \notin OnOff \cup {"baud_rate"}
  <2>1. Kept(n, v) = v
    BY <1>5 DEF Kept
  <2>2. Documented(cmd, arg, v)
    <3>1. n \in {"isochronous", "external_transmit"} \/ cmd[1] # "disable"
      BY <1>5 DEF SettingInv, Asked, Switched
    <3> QED BY <1>1, <1>5, <3>1 DEF Documented, Passed
  <2> QED BY <2>1, <2>2
<1> QED BY <1>3, <1>4, <1>5

-----------------------------------------------------------------------------
(* The settings at power-up are in the family's room; nobody asks.         *)
LEMMA InitSettingInv == ASSUME Init, CallInv PROVE SettingInv
<1>1. setting \in [Name -> Int]
  BY DEF Init, Default
<1>2. \A n \in Name : setting[n] \in Room(n)
  <2> SUFFICES ASSUME NEW n \in Name PROVE setting[n] \in Room(n)
    OBVIOUS
  <2>1. CASE n = "sample_rate"
    BY <2>1, SMT DEF Init, Default, Room, OnOff, Rates
  <2>2. CASE n \in {"tx_trigger", "rx_trigger"}
    BY <2>2, SMT DEF Init, Default, Room, OnOff, TriggerLimit
  <2>3. CASE n = "termination"
    BY <2>3, SMT DEF Init, Default, Room, OnOff
  <2>4. CASE n = "frame_length"
    BY <2>4, SMT DEF Init, Default, Room, OnOff
  <2>5. CASE n = "isochronous"
    BY <2>5, SMT DEF Init, Default, Room, OnOff
  <2>6. CASE n = "baud_rate"
    <3>1. 16 <= Divisors - 1 /\ Divisors \in Nat
      BY SMTT(30) DEF Divisors
    <3>2. setting[n] = 16
      BY <2>6, SMT DEF Init, Default
    <3> QED BY <2>6, <3>1, <3>2, SMT DEF Room, OnOff
  <2>7. CASE n \in {"rs485", "echo_cancel", "nine_bit", "external_transmit"}
    BY <2>7, SMT DEF Init, Default, Room, OnOff
  <2> QED BY <2>1, <2>2, <2>3, <2>4, <2>5, <2>6, <2>7 DEF Name, Switched, Numeric, OnOff
<1>3. TypeOK
  BY <1>1, <1>2 DEF TypeOK, Init, Idle, Stages
<1>4. \A u \in User : Asked(call[u])
  BY DEF Init, Idle, Asked
<1> QED BY <1>3, <1>4 DEF SettingInv

(* Whoever calls whatever: every setting stays within the room of its      *)
(* family, and a call before its operation holds what it was asked for.    *)
THEOREM SettingInvariance == Spec => []SettingInv
<1>1. Init /\ CallInv => SettingInv
  BY InitSettingInv
<1>2. SettingInv /\ CallInv' /\ [Next]_vars => SettingInv'
  BY NextKeepsSettingInv
<1> QED BY <1>1, <1>2, CallInvariance, PTL DEF Spec

(* Settings stay within the room the chip has for them (every operation of *)
(* utils.c behind serialfc_ioctl and sysfs.c), for any number of callers   *)
(* and whatever numbers and texts they pass.                               *)
THEOREM TypeCorrect == Spec => []TypeOK
<1>1. SettingInv => TypeOK
  BY DEF SettingInv
<1> QED BY <1>1, SettingInvariance, PTL

(* A step is one caller's, and only the setter of that caller is at "set". *)
LEMMA OneMoves ==
  ASSUME CallInv, Next
  PROVE  \E w \in User : /\ \A x \in User \ {w} : call'[x] = call[x]
                         /\ call[w].at = "set" => Set(w)
<1>1. DOMAIN call = User
  BY DEF CallInv, Shape
<1>2. ASSUME NEW w \in User, NEW cmd \in Command, Ioctl(w, cmd)
      PROVE  (\A x \in User \ {w} : call'[x] = call[x]) /\ (call[w].at = "set" => Set(w))
  <2>1. PICK c : call' = [call EXCEPT ![w] = c]
    BY <1>2, Begun
  <2>2. call[w].at # "set"
    BY <1>2 DEF Ioctl
  <2> QED BY <1>1, <2>1, <2>2
<1>3. ASSUME NEW w \in User, Set(w) \/ Get(w) \/ CopyToUser(w) \/ CopyFromUser(w) \/ LoadClock(w)
      PROVE  (\A x \in User \ {w} : call'[x] = call[x]) /\ (call[w].at = "set" => Set(w))
  <2>1. call[w].at = "set" => Set(w)
    BY <1>3 DEF Get, CopyToUser, CopyFromUser, LoadClock
  <2>2. \A x \in User \ {w} : call'[x] = call[x]
    BY <1>1, <1>3 DEF Set, Get, CopyToUser, CopyFromUser, LoadClock
  <2> QED BY <2>1, <2>2
<1>4. ASSUME NEW w \in User, NEW n, Return(w) \/ Store(w, n) \/ Show(w, n) \/ Done(w)
      PROVE  (\A x \in User \ {w} : call'[x] = call[x]) /\ (call[w].at = "set" => Set(w))
  <2>1. call[w].at # "set"
    BY <1>4 DEF Return, Store, Show, Done
  <2>2. \A x \in User \ {w} : call'[x] = call[x]
    BY <1>1, <1>4, Ended
  <2> QED BY <2>1, <2>2
<1> QED BY <1>2, <1>3, <1>4 DEF Next

(* The commands that drop the status are those whose setters every card    *)
(* has and which refuse no value.                                          *)
LEMMA DroppedNeverRefused ==
  ASSUME NEW c, Asked(c), c.at = "set", Drops(c.cmd)
  PROVE  Refusal(c.cmd[2], Passed(c.cmd, c.arg)) = 0
<1>1. c.cmd[2] \in {"rs485", "echo_cancel"}
  BY DEF Asked, Drops
<1>2. Supported(c.cmd[2]) /\ InRange(c.cmd[2], Passed(c.cmd, c.arg)) /\ c.cmd[2] # "frame_length"
  <2>1. \A v, n : n \in {"rs485", "echo_cancel"} => InRange(n, v)
    BY SMTT(30) DEF InRange
  <2>2. InRange(c.cmd[2], Passed(c.cmd, c.arg))
    BY <1>1, <2>1, Zenon
  <2> QED BY <1>1, <2>2, SMT DEF Supported
<1> QED BY <1>2 DEF Refusal

(* What the caller of an ioctl that sets something is told is true: an     *)
(* operation was refused, and then nothing changed, or it put the value    *)
(* documented in force (serialfc_ioctl, main.c, which drops some of the    *)
(* statuses), for any number of callers and any numbers.                   *)
THEOREM StatusIsTrueHolds == Spec => StatusIsTrue
<1> DEFINE True(u) ==
      LET n == call[u].cmd[2] IN
      /\ IF call'[u].status = 0 THEN Documented(call[u].cmd, call[u].arg, setting'[n])
                                ELSE setting' = setting
      /\ \A other \in Name \ {n} : setting'[other] = setting[other]
    Step == \A u \in User : call[u].at = "set" /\ call'[u].at # "set" => True(u)
<1>1. SettingInv /\ [Next]_vars => [Step]_vars
  <2> SUFFICES ASSUME SettingInv, Next,
                      NEW u \in User, call[u].at = "set", call'[u].at # "set"
               PROVE  True(u)
    BY DEF vars
  <2> USE DEF SettingInv
  <2>1. Set(u)
    <3>1. PICK w \in User : /\ \A x \in User \ {w} : call'[x] = call[x]
                            /\ call[w].at = "set" => Set(w)
      BY OneMoves
    <3> QED BY <3>1
  <2> DEFINE cmd == call[u].cmd
             n == cmd[2]
             v == Passed(cmd, call[u].arg)
             error == Refusal(n, v)
  <2>2. Apply(n, v) /\ call'[u].status = Status(cmd, error)
    BY <2>1 DEF Set, CallInv, Shape, IsCall
  <2>3. Asked(call[u]) /\ n \in Name \cup {"clock_rate"} /\ v \in Int /\ (n = "baud_rate" => v # 0)
    BY PassedTypes
  <2>4. CASE error = 0
    <3>1. n \in Name /\ Documented(cmd, call[u].arg, Kept(n, v))
      BY <2>3, <2>4, DocumentedHolds, OperationKeeps
    <3>2. setting' = [setting EXCEPT ![n] = Kept(n, v)]
      BY <2>2, <2>4 DEF Apply
    <3>3. setting'[n] = Kept(n, v) /\ \A other \in Name \ {n} : setting'[other] = setting[other]
      BY <3>1, <3>2 DEF TypeOK
    <3>4. call'[u].status = 0
      <4>1. Status(cmd, 0) = 0
        BY DEF Status
      <4> QED BY <2>2, <2>4, <4>1
    <3> QED BY <3>1, <3>3, <3>4
  <2>5. CASE error # 0
    <3>1. setting' = setting
      BY <2>2, <2>5 DEF Apply
    <3>2. ~Drops(cmd)
      BY <2>3, <2>5, DroppedNeverRefused
    <3>3. error \in {EINVAL, EPROTONOSUPPORT}
      BY <2>3, <2>5, OperationKeeps
    <3>4. call'[u].status # 0
      BY <2>2, <3>2, <3>3 DEF Status, EINVAL, EPROTONOSUPPORT
    <3> QED BY <3>1, <3>4
  <2> QED BY <2>4, <2>5
<1> QED BY <1>1, SettingInvariance, PTL DEF Spec, StatusIsTrue

-----------------------------------------------------------------------------
(* Division, by what it is.                                                *)
LEMMA Quotient ==
  ASSUME NEW a \in Nat, NEW b \in Nat, b > 0
  PROVE  a \div b \in Nat /\ b * (a \div b) <= a /\ a < b * (a \div b) + b
BY SMTT(30)

(* A factor that fits is no more than the quotient.                        *)
LEMMA QuotientAtLeast ==
  ASSUME NEW a \in Nat, NEW b \in Nat, b > 0, NEW q \in Nat, b * q <= a
  PROVE  q <= a \div b
<1> DEFINE d == a \div b
<1>1. d \in Nat /\ a < b * d + b
  BY Quotient
<1> HIDE DEF d
<1>2. d + 1 <= q => b * d + b <= b * q
  BY <1>1, SMTT(30)
<1>3. q <= d
  BY <1>1, <1>2, SMTT(30)
<1> QED BY <1>3 DEF d

(* A larger divisor gives no larger quotient.                              *)
LEMMA QuotientFalls ==
  ASSUME NEW a \in Nat, NEW b \in Nat, NEW c \in Nat, b > 0, b <= c
  PROVE  a \div c <= a \div b
<1> DEFINE d == a \div c
<1>1. d \in Nat /\ c * d <= a
  BY Quotient
<1> HIDE DEF d
<1>2. b * d <= c * d
  BY <1>1, SMTT(30)
<1>3. b * d <= a
  BY <1>1, <1>2, SMTT(30)
<1>4. d <= a \div b
  BY <1>1, <1>3, QuotientAtLeast
<1> QED BY <1>4 DEF d

(* A larger number gives no smaller quotient.                              *)
LEMMA QuotientRises ==
  ASSUME NEW a \in Nat, NEW b \in Nat, NEW c \in Nat, c > 0, a <= b
  PROVE  a \div c <= b \div c
<1> DEFINE d == a \div c
<1>1. d \in Nat /\ c * d <= a
  BY Quotient
<1> HIDE DEF d
<1>2. c * d <= b
  BY <1>1, SMTT(30)
<1>3. d <= b \div c
  BY <1>1, <1>2, QuotientAtLeast
<1> QED BY <1>3 DEF d

(* The rate h a divisor d answers for has a divisor that answers for h.    *)
LEMMA BackAndForth ==
  ASSUME NEW s \in Nat, NEW d \in Nat, NEW r \in Nat, d > 0, r > 0, (s \div d) \div r > 0
  PROVE  (s \div (s \div (((s \div d) \div r) * r))) \div r = (s \div d) \div r
<1> DEFINE p == s \div d
           h == p \div r
           y == h * r
           e == s \div y
           x == s \div e
<1>1. p \in Nat /\ d * p <= s
  BY Quotient
<1>2. h \in Nat /\ h > 0 /\ r * h <= p
  BY <1>1, Quotient
<1>3. y \in Nat /\ y > 0 /\ y = r * h
  BY <1>2, SMTT(30)
<1> HIDE DEF p, h, y
<1>4. y * d <= s
  <2>1. d * y <= d * p
    BY <1>1, <1>2, <1>3, SMTT(30)
  <2>2. d * y = y * d
    BY <1>3, SMTT(30)
  <2>3. d * y \in Nat /\ d * p \in Nat
    BY <1>1, <1>3, SMTT(30)
  <2> QED BY <1>1, <2>1, <2>2, <2>3, SMTT(30)
<1>5. e \in Nat /\ d <= e /\ y * e <= s
  BY <1>3, <1>4, Quotient, QuotientAtLeast
<1> HIDE DEF e
<1>6. e > 0 /\ e * y <= s
  BY <1>3, <1>5, SMTT(30)
<1>7. x \in Nat /\ y <= x /\ x <= p
  <2>1. x \in Nat
    BY <1>5, <1>6, Quotient
  <2>2. y <= x
    BY <1>3, <1>5, <1>6, QuotientAtLeast
  <2>3. x <= p
    BY <1>5, QuotientFalls DEF p
  <2> QED BY <2>1, <2>2, <2>3
<1> HIDE DEF x
<1>8. x \div r <= h
  BY <1>1, <1>7, QuotientRises DEF h
<1>9. h <= x \div r
  BY <1>2, <1>3, <1>7, QuotientAtLeast
<1>10. x \div r \in Nat
  BY <1>7, Quotient
<1>11. x \div r = h
  BY <1>2, <1>8, <1>9, <1>10, SMTT(30)
<1> QED BY <1>11 DEF x, e, y, h, p

(* What an attribute shows can be written back (show and store functions   *)
(* of sysfs.c), whatever the settings have come to.                        *)
THEOREM ShownCanBeStoredHolds == Spec => []ShownCanBeStored
<1>1. ASSUME TypeOK, NEW n \in Name, NEW text \in Text, Supported(n), text.dec = Held(n),
             n # "baud_rate", text.hex = text.dec
      PROVE  Refusal(n, Value(n, text)) = 0 /\ Answer(n, Kept(n, Value(n, text))) = Held(n)
  <2> DEFINE v == setting[n]
  <2>1. Value(n, text) = v /\ Held(n) = v /\ v \in Room(n)
    BY <1>1 DEF Value, Held, Answer, TypeOK
  <2>2. InRange(n, v)
    <3> HIDE DEF v
    <3>1. CASE n = "sample_rate"
      BY <2>1, <3>1 DEF InRange, Room, OnOff
    <3>2. CASE n \in {"tx_trigger", "rx_trigger"}
      BY <2>1, <3>2 DEF InRange, Room, OnOff
    <3>3. CASE n = "isochronous"
      BY <2>1, <3>3 DEF InRange, Room, OnOff
    <3>4. CASE n = "external_transmit"
      BY <2>1, <3>4, SMT DEF InRange, Room, OnOff
    <3>5. CASE n = "frame_length"
      BY <2>1, <3>5 DEF InRange, Room, OnOff
    <3>6. CASE n \in OnOff
      BY <3>6, SMT DEF InRange, OnOff
    <3> QED BY <1>1, <3>1, <3>2, <3>3, <3>4, <3>5, <3>6 DEF Name, Switched, Numeric
  <2>3. Refusal(n, v) = 0
    BY <1>1, <2>2 DEF Refusal
  <2>4. Kept(n, v) = v
    BY <1>1, <2>1, SMT DEF Kept, Room
  <2>5. Answer(n, Kept(n, v)) = v
    BY <1>1, <2>4 DEF Answer
  <2> QED BY <2>1, <2>3, <2>5
<1>2. ASSUME TypeOK, NEW text \in Text, Supported("baud_rate"), text.dec = Held("baud_rate"),
             Sixteenths \div (text.dec * setting["sample_rate"]) < Divisors
      PROVE  /\ Refusal("baud_rate", Value("baud_rate", text)) = 0
             /\ Answer("baud_rate", Kept("baud_rate", Value("baud_rate", text))) = Held("baud_rate")
  <2> DEFINE d == setting["baud_rate"]
             r == setting["sample_rate"]
             h == (Sixteenths \div d) \div r
             e == Sixteenths \div (h * r)
  <2>1. Value("baud_rate", text) = h /\ Held("baud_rate") = h
    BY <1>2 DEF Value, Held, Answer
  <2>2. r \in 4..16
    BY <1>2, RateInForce
  <2>3. d \in Nat /\ d >= 16 /\ d < Divisors
    <3>1. d \in Room("baud_rate")
      BY <1>2 DEF TypeOK, Name, Numeric
    <3>2. d \in 16..(Divisors - 1)
      BY <3>1, SMT DEF Room, OnOff
    <3>3. Divisors \in Nat
      BY SMTT(30) DEF Divisors
    <3> HIDE DEF d
    <3> QED BY <3>2, <3>3
  <2> HIDE DEF d, r
  <2>4. Sixteenths \in Nat /\ Clock125 \in Nat
    BY SMT DEF Sixteenths, Clock125
  <2>5. r <= Sixteenths \div d /\ Sixteenths \div d <= Clock125
    <3>1. d < 1048576
      BY <2>3, SMTT(30) DEF Divisors
    <3> QED BY <2>2, <2>3, <3>1, SMTT(30) DEF Sixteenths, Clock125
  <2>6. h \in Nat /\ h > 0 /\ h <= Clock125 \div r
    <3>1. Sixteenths \div d \in Nat
      BY <2>3, <2>4, Quotient
    <3>2. h \in Nat
      BY <2>2, <3>1, Quotient
    <3>3. 1 <= h
      BY <2>2, <2>5, <3>1, QuotientAtLeast, SMTT(30)
    <3>4. h <= Clock125 \div r
      BY <2>2, <2>4, <2>5, <3>1, QuotientRises
    <3> QED BY <3>2, <3>3, <3>4
  <2>7. (Sixteenths \div e) \div r = h /\ e \in Nat /\ e < Divisors
    <3>1. h * r \in Nat /\ h * r > 0
      BY <2>2, <2>6, SMTT(30)
    <3>2. e \in Nat
      BY <2>4, <3>1, Quotient
    <3>3. (Sixteenths \div e) \div r = h
      <4>1. r \in Nat /\ r > 0 /\ d > 0
        BY <2>2, <2>3
      <4> QED BY <2>3, <2>4, <2>6, <4>1, BackAndForth
    <3>4. e < Divisors
      BY <1>2, <2>1 DEF Value, r
    <3> QED BY <3>2, <3>3, <3>4
  <2> HIDE DEF e
  <2>8. InRange("baud_rate", h)
    BY <2>2, <2>4, <2>6, SMT DEF InRange, r
  <2>9. Refusal("baud_rate", h) = 0
    BY <1>2, <2>8 DEF Refusal
  <2>10. e % Divisors = e
    BY <2>7, SMTT(30) DEF Divisors
  <2>11. Kept("baud_rate", h) = e
    BY <2>10 DEF Kept, OnOff, e, r
  <2>12. Answer("baud_rate", e) = h
    BY <2>7 DEF Answer, r
  <2> QED BY <2>1, <2>9, <2>11, <2>12
<1>3. SettingInv => ShownCanBeStored
  BY <1>1, <1>2 DEF SettingInv, ShownCanBeStored
<1> QED BY <1>3, SettingInvariance, PTL
=============================================================================
