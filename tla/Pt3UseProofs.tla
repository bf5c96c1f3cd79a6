---------------------------- MODULE Pt3UseProofs ----------------------------
(* Proofs about the character device of the PT3 (Pt3Cdev) and about the      *)
(* programs that share a card (Pt3Recorders).  The programs use the driver   *)
(* as Pt3Cdev lets any process use it, so what is proved of the driver holds *)
(* of them.                                                                  *)
EXTENDS Pt3Recorders, FiniteSetTheorems, TLAPS

(* Whoever is in the middle of open has the device's lock, and whoever has *)
(* counted the tuners has pt3_biglock.                                     *)
LocksInv ==
  \A u \in User :
    /\ call[u] \in {"wake", "mark"} => devLock = u
    /\ call[u] \in {"enable", "disable"} => bigLock = u
    /\ call[u] # "none" => chan[u] # NoChan

(* Valid channels are those that are held, by one user each; a channel     *)
(* that is being opened is not valid; those the LNB serves hold channels.  *)
UseInv ==
  /\ \A c \in Channel : valid[c] => \E u \in User : Holds(u) /\ chan[u] = c
  /\ \A u \in User : Holds(u) => valid[chan[u]]
  /\ \A u, v \in User : Holds(u) /\ Holds(v) /\ chan[u] = chan[v] => u = v
  /\ \A u \in User : call[u] \in {"wake", "mark"} => ~valid[chan[u]]
  /\ \A u \in User : served[u] => Holds(u)

RestInv ==
  \A c \in Channel :
    /\ dma[c] => valid[c]
    /\ ~asleep[c] => \E u \in User : chan[u] = c

Woken(u) == call[u] = "mark" \/ Holds(u)

AwakeInv ==
  \A u \in User : Woken(u) =>
    /\ asleep[chan[u]] => late[u]
    /\ \A v \in User : call[v] = "sleep" /\ chan[v] = chan[u] => late[u]

(* LNB_DISABLE that counted one satellite tuner, its own, meets nobody who *)
(* asked for the LNB.                                                      *)
LnbInv ==
  \A u, v \in User :
    /\ u # v /\ call[u] = "disable" /\ chan[u] \in SatCh
    /\ served[v] /\ chan[v] \in SatCh
    => seen[u] > 1

Inv == TypeOK /\ LocksInv /\ UseInv /\ RestInv /\ AwakeInv /\ LnbInv

(* What a step does, one action at a time. *)
Step ==
  \/ \E u \in User :
       \/ \E c \in Channel : OpenEnter(u, c)
       \/ OpenWake(u) \/ OpenMark(u)
       \/ Release(u) \/ ReleaseSleep(u)
       \/ \E what \in {"enable", "disable"} : LnbCount(u, what)
       \/ LnbSet(u)
       \/ \E on \in BOOLEAN : SetEnabled(u, on)
  \/ UNCHANGED vars

LEMMA NextIsStep == [Next]_vars => Step
BY DEF Next, Open, Close, Ioctl, OpenBusy, SetChannel, Step

LEMMA CountIsNat == CountUsedBsTuners \in Nat
BY ChannelAssumption, FS_Subset, FS_CardinalityType, Zenon DEF CountUsedBsTuners

(* Every action gives each variable a value of its type. *)
LEMMA TypesStep ==
  ASSUME TypeOK, Step
  PROVE  TypeOK'
<1> USE DEF TypeOK, Holds, Calls, Channel
<1>1. ASSUME NEW u \in User, NEW c \in Channel, OpenEnter(u, c)
      PROVE  TypeOK'
  BY <1>1, NoneAssumption DEF OpenEnter, boardVars, history
<1>2. ASSUME NEW u \in User, OpenWake(u)
      PROVE  TypeOK'
  BY <1>2, NoneAssumption DEF OpenWake, lockVars
<1>3. ASSUME NEW u \in User, OpenMark(u)
      PROVE  TypeOK'
  BY <1>3, NoneAssumption DEF OpenMark, history
<1>4. ASSUME NEW u \in User, Release(u)
      PROVE  TypeOK'
  BY <1>4, NoneAssumption DEF Release, lockVars
<1>5. ASSUME NEW u \in User, ReleaseSleep(u)
      PROVE  TypeOK'
  BY <1>5, NoneAssumption DEF ReleaseSleep, lockVars
<1>6. ASSUME NEW u \in User, NEW what \in {"enable", "disable"}, LnbCount(u, what)
      PROVE  TypeOK'
  BY <1>6, CountIsNat, NoneAssumption DEF LnbCount, boardVars
<1>7. ASSUME NEW u \in User, LnbSet(u)
      PROVE  TypeOK'
  BY <1>7, NoneAssumption DEF LnbSet
<1>8. ASSUME NEW u \in User, NEW on \in BOOLEAN, SetEnabled(u, on)
      PROVE  TypeOK'
  BY <1>8, NoneAssumption DEF SetEnabled, lockVars, callVars, history
<1>9. ASSUME UNCHANGED vars
      PROVE  TypeOK'
  BY <1>9 DEF vars
<1> QED
  BY <1>1, <1>2, <1>3, <1>4, <1>5, <1>6, <1>7, <1>8, <1>9 DEF Step

(* A lock is taken only when it is free and given back by its owner. *)
LEMMA LocksStep ==
  ASSUME TypeOK, LocksInv, Step
  PROVE  LocksInv'
<1> USE DEF LocksInv, TypeOK, Holds, Calls, Channel
<1>1. ASSUME NEW u \in User, NEW c \in Channel, OpenEnter(u, c)
      PROVE  LocksInv'
  BY <1>1, NoneAssumption DEF OpenEnter, boardVars, history
<1>2. ASSUME NEW u \in User, OpenWake(u)
      PROVE  LocksInv'
  BY <1>2, NoneAssumption DEF OpenWake, lockVars
<1>3. ASSUME NEW u \in User, OpenMark(u)
      PROVE  LocksInv'
  BY <1>3, NoneAssumption DEF OpenMark, history
<1>4. ASSUME NEW u \in User, Release(u)
      PROVE  LocksInv'
  BY <1>4, NoneAssumption DEF Release, lockVars
<1>5. ASSUME NEW u \in User, ReleaseSleep(u)
      PROVE  LocksInv'
  BY <1>5, NoneAssumption DEF ReleaseSleep, lockVars
<1>6. ASSUME NEW u \in User, NEW what \in {"enable", "disable"}, LnbCount(u, what)
      PROVE  LocksInv'
  BY <1>6, NoneAssumption DEF LnbCount, boardVars
<1>7. ASSUME NEW u \in User, LnbSet(u)
      PROVE  LocksInv'
  BY <1>7, NoneAssumption DEF LnbSet
<1>8. ASSUME NEW u \in User, NEW on \in BOOLEAN, SetEnabled(u, on)
      PROVE  LocksInv'
  BY <1>8, NoneAssumption DEF SetEnabled, lockVars, callVars, history
<1>9. ASSUME UNCHANGED vars
      PROVE  LocksInv'
  BY <1>9 DEF vars
<1> QED
  BY <1>1, <1>2, <1>3, <1>4, <1>5, <1>6, <1>7, <1>8, <1>9 DEF Step

(* Who holds a channel: open marks it valid under the lock that kept
   others from opening it, release unmarks it. *)
LEMMA UseStep ==
  ASSUME TypeOK, LocksInv, UseInv, Step
  PROVE  UseInv'
<1> USE DEF LocksInv, TypeOK, UseInv, Holds, Calls, Channel
<1>1. ASSUME NEW u \in User, NEW c \in Channel, OpenEnter(u, c)
      PROVE  UseInv'
  BY <1>1, NoneAssumption DEF OpenEnter, boardVars, history
<1>2. ASSUME NEW u \in User, OpenWake(u)
      PROVE  UseInv'
  BY <1>2, NoneAssumption DEF OpenWake, lockVars
<1>3. ASSUME NEW u \in User, OpenMark(u)
      PROVE  UseInv'
  BY <1>3, NoneAssumption DEF OpenMark, history
<1>4. ASSUME NEW u \in User, Release(u)
      PROVE  UseInv'
  BY <1>4, NoneAssumption DEF Release, lockVars
<1>5. ASSUME NEW u \in User, ReleaseSleep(u)
      PROVE  UseInv'
  BY <1>5, NoneAssumption DEF ReleaseSleep, lockVars
<1>6. ASSUME NEW u \in User, NEW what \in {"enable", "disable"}, LnbCount(u, what)
      PROVE  UseInv'
  BY <1>6, NoneAssumption DEF LnbCount, boardVars
<1>7. ASSUME NEW u \in User, LnbSet(u)
      PROVE  UseInv'
  BY <1>7, NoneAssumption DEF LnbSet
<1>8. ASSUME NEW u \in User, NEW on \in BOOLEAN, SetEnabled(u, on)
      PROVE  UseInv'
  BY <1>8, NoneAssumption DEF SetEnabled, lockVars, callVars, history
<1>9. ASSUME UNCHANGED vars
      PROVE  UseInv'
  BY <1>9 DEF vars
<1> QED
  BY <1>1, <1>2, <1>3, <1>4, <1>5, <1>6, <1>7, <1>8, <1>9 DEF Step

(* The engine runs for a holder only; a tuner is awake for someone. *)
LEMMA RestStep ==
  ASSUME TypeOK, LocksInv, UseInv, RestInv, Step
  PROVE  RestInv'
<1> USE DEF LocksInv, RestInv, TypeOK, UseInv, Holds, Calls, Channel
<1>1. ASSUME NEW u \in User, NEW c \in Channel, OpenEnter(u, c)
      PROVE  RestInv'
  BY <1>1, NoneAssumption DEF OpenEnter, boardVars, history
<1>2. ASSUME NEW u \in User, OpenWake(u)
      PROVE  RestInv'
  BY <1>2, NoneAssumption DEF OpenWake, lockVars
<1>3. ASSUME NEW u \in User, OpenMark(u)
      PROVE  RestInv'
  BY <1>3, NoneAssumption DEF OpenMark, history
<1>4. ASSUME NEW u \in User, Release(u)
      PROVE  RestInv'
  BY <1>4, NoneAssumption DEF Release, lockVars
<1>5. ASSUME NEW u \in User, ReleaseSleep(u)
      PROVE  RestInv'
  BY <1>5, NoneAssumption DEF ReleaseSleep, lockVars
<1>6. ASSUME NEW u \in User, NEW what \in {"enable", "disable"}, LnbCount(u, what)
      PROVE  RestInv'
  BY <1>6, NoneAssumption DEF LnbCount, boardVars
<1>7. ASSUME NEW u \in User, LnbSet(u)
      PROVE  RestInv'
  BY <1>7, NoneAssumption DEF LnbSet
<1>8. ASSUME NEW u \in User, NEW on \in BOOLEAN, SetEnabled(u, on)
      PROVE  RestInv'
  BY <1>8, NoneAssumption DEF SetEnabled, lockVars, callVars, history
<1>9. ASSUME UNCHANGED vars
      PROVE  RestInv'
  BY <1>9 DEF vars
<1> QED
  BY <1>1, <1>2, <1>3, <1>4, <1>5, <1>6, <1>7, <1>8, <1>9 DEF Step

(* A holder whose tuner may yet be put to sleep opened late. *)
LEMMA AwakeStep ==
  ASSUME TypeOK, LocksInv, UseInv, AwakeInv, Step
  PROVE  AwakeInv'
<1> USE DEF AwakeInv, Woken, LocksInv, TypeOK, UseInv, Holds, Calls, Channel
<1>1. ASSUME NEW u \in User, NEW c \in Channel, OpenEnter(u, c)
      PROVE  AwakeInv'
  BY <1>1, NoneAssumption DEF OpenEnter, boardVars, history
<1>2. ASSUME NEW u \in User, OpenWake(u)
      PROVE  AwakeInv'
  BY <1>2, NoneAssumption DEF OpenWake, lockVars
<1>3. ASSUME NEW u \in User, OpenMark(u)
      PROVE  AwakeInv'
  BY <1>3, NoneAssumption DEF OpenMark, history
<1>4. ASSUME NEW u \in User, Release(u)
      PROVE  AwakeInv'
  BY <1>4, NoneAssumption DEF Release, lockVars
<1>5. ASSUME NEW u \in User, ReleaseSleep(u)
      PROVE  AwakeInv'
  BY <1>5, NoneAssumption DEF ReleaseSleep, lockVars
<1>6. ASSUME NEW u \in User, NEW what \in {"enable", "disable"}, LnbCount(u, what)
      PROVE  AwakeInv'
  BY <1>6, NoneAssumption DEF LnbCount, boardVars
<1>7. ASSUME NEW u \in User, LnbSet(u)
      PROVE  AwakeInv'
  BY <1>7, NoneAssumption DEF LnbSet
<1>8. ASSUME NEW u \in User, NEW on \in BOOLEAN, SetEnabled(u, on)
      PROVE  AwakeInv'
  BY <1>8, NoneAssumption DEF SetEnabled, lockVars, callVars, history
<1>9. ASSUME UNCHANGED vars
      PROVE  AwakeInv'
  BY <1>9 DEF vars
<1> QED
  BY <1>1, <1>2, <1>3, <1>4, <1>5, <1>6, <1>7, <1>8, <1>9 DEF Step

(* LNB_DISABLE counts its caller and every other user that holds a         *)
(* satellite channel.                                                      *)
LEMMA TwoAreCounted ==
  ASSUME NEW c \in SatCh, NEW d \in SatCh, c # d, valid[c], valid[d]
  PROVE  CountUsedBsTuners > 1
<1> DEFINE S == {x \in SatCh : valid[x]}
<1>1. IsFiniteSet(S)
  BY ChannelAssumption, FS_Subset, S \in SUBSET SatCh, Zenon
<1>2. IsFiniteSet({c}) /\ Cardinality({c}) = 1
  BY FS_Singleton
<1>3. Cardinality({c} \union {d}) = 2
  BY <1>2, FS_AddElement
<1>4. {c} \union {d} \in SUBSET S
  OBVIOUS
<1>5. Cardinality({c} \union {d}) <= Cardinality(S)
  BY <1>1, <1>4, FS_Subset, Zenon
<1> QED
  BY <1>3, <1>5, CountIsNat DEF CountUsedBsTuners

(* While a process is between the count and the voltage nobody else can    *)
(* ask for the LNB: pt3_biglock is taken.                                  *)
LEMMA LnbStep ==
  ASSUME TypeOK, LocksInv, UseInv, LnbInv, Step
  PROVE  LnbInv'
<1> USE DEF LocksInv, LnbInv
<1>1. ASSUME NEW u \in User, NEW what \in {"enable", "disable"}, LnbCount(u, what)
      PROVE  LnbInv'
  <2> SUFFICES ASSUME NEW w \in User, NEW v \in User, w # v, call'[w] = "disable",
                      chan'[w] \in SatCh, served'[v], chan'[v] \in SatCh
               PROVE  seen'[w] > 1
    OBVIOUS
  <2>1. chan' = chan /\ bigLock = NoUser
    BY <1>1 DEF LnbCount
  <2>2. w = u
    BY <1>1, <2>1, NoneAssumption DEF LnbCount, TypeOK
  <2>3. served[v] /\ Holds(v) /\ Holds(u)
    BY <1>1, <2>2, NoneAssumption DEF LnbCount, TypeOK, UseInv, Holds
  <2>4. chan[u] # chan[v] /\ valid[chan[u]] /\ valid[chan[v]]
    BY <2>2, <2>3 DEF UseInv
  <2>5. CountUsedBsTuners > 1
    BY <2>1, <2>2, <2>4, TwoAreCounted
  <2> QED
    BY <1>1, <2>2, <2>5 DEF LnbCount, TypeOK
<1>2. ASSUME NEW u \in User, LnbSet(u)
      PROVE  LnbInv'
  BY <1>2 DEF LnbSet, TypeOK
<1>3. ASSUME NEW u \in User,
             \/ \E c \in Channel : OpenEnter(u, c)
             \/ OpenWake(u) \/ OpenMark(u) \/ Release(u) \/ ReleaseSleep(u)
             \/ \E on \in BOOLEAN : SetEnabled(u, on)
      PROVE  LnbInv'
  BY <1>3 DEF OpenEnter, OpenWake, OpenMark, Release, ReleaseSleep, SetEnabled, TypeOK, UseInv,
              Holds, boardVars, lockVars, callVars, history
<1>4. ASSUME UNCHANGED vars
      PROVE  LnbInv'
  BY <1>4 DEF vars
<1> QED
  BY <1>1, <1>2, <1>3, <1>4 DEF Step

LEMMA InitInv == Init => Inv
<1> SUFFICES ASSUME Init
             PROVE  Inv
  OBVIOUS
<1> USE DEF Init
<1>1. TypeOK
  BY DEF TypeOK, Calls
<1>2. LocksInv /\ UseInv /\ RestInv /\ AwakeInv /\ LnbInv
  BY NoneAssumption DEF LocksInv, UseInv, RestInv, AwakeInv, Woken, LnbInv, Holds, Channel
<1> QED
  BY <1>1, <1>2 DEF Inv

LEMMA StepInv == Inv /\ [Next]_vars => Inv'
<1> SUFFICES ASSUME Inv, Step
             PROVE  Inv'
  BY NextIsStep
<1> QED
  BY TypesStep, LocksStep, UseStep, RestStep, AwakeStep, LnbStep DEF Inv

-----------------------------------------------------------------------------
(* The theorems, for any set of processes that call in any order.          *)

(* Every variable keeps its type. *)
THEOREM Pt3TypeCorrect == Spec => []TypeOK
<1>1. Inv => TypeOK
  BY DEF Inv
<1> QED
  BY InitInv, StepInv, <1>1, PTL DEF Spec

(* pt3_open lets one process at a time have a channel, and valid tells     *)
(* whether one has: what count_used_bs_tuners counts are the users.        *)
THEOREM Exclusive == Spec => []ExclusiveUse
<1>1. Inv => ExclusiveUse
  BY DEF Inv, TypeOK, UseInv, ExclusiveUse
<1> QED
  BY InitInv, StepInv, <1>1, PTL DEF Spec

(* A channel nobody has is at rest, however its last users left. *)
THEOREM Quiet == Spec => []QuietWhenUnused
<1>1. Inv => QuietWhenUnused
  BY DEF Inv, TypeOK, UseInv, RestInv, QuietWhenUnused
<1> QED
  BY InitInv, StepInv, <1>1, PTL DEF Spec

(* The tuner in use sleeps only after a late pt3_release. *)
THEOREM Awake == Spec => []AwakeInUse
<1>1. Inv => AwakeInUse
  BY DEF Inv, AwakeInv, Woken, AwakeInUse
<1> QED
  BY InitInv, StepInv, <1>1, PTL DEF Spec

(* No user of a satellite channel switches the LNB off under another. *)
THEOREM LnbIsKept == Spec => LnbStays
<1>1. Inv /\ [Next]_vars =>
        [\A u, v \in User :
           /\ u # v /\ call[u] = "disable" /\ call'[u] = "none"
           /\ chan[u] \in SatCh /\ served[v] /\ chan[v] \in SatCh
           => lnb' = lnb]_vars
  <2> SUFFICES ASSUME Inv, Step, NEW u \in User, NEW v \in User,
                      u # v, call[u] = "disable", call'[u] = "none",
                      chan[u] \in SatCh, served[v], chan[v] \in SatCh
               PROVE  lnb' = lnb
    BY NextIsStep
  <2>1. seen[u] \in Nat /\ seen[u] > 1
    BY DEF Inv, LnbInv, TypeOK
  <2>2. ASSUME NEW w \in User, LnbSet(w)
        PROVE  lnb' = lnb
    <3>1. w = u
      BY <2>2 DEF LnbSet, Inv, TypeOK
    <3> QED
      BY <2>1, <2>2, <3>1 DEF LnbSet
  <2> QED
    BY <2>2 DEF Step, OpenEnter, OpenWake, OpenMark, Release, ReleaseSleep, LnbCount, SetEnabled,
                boardVars, vars
<1> QED
  BY InitInv, StepInv, <1>1, PTL DEF Spec, LnbStays

-----------------------------------------------------------------------------
(* recpt1 and checksignal.                                                 *)

(* What is left of the devices to try. *)
TodoInv == todo \in [User -> Seq(Channel)]

LEMMA DevicesAreChannels ==
  \A type : /\ Devices(type) \in Seq(Channel)
           /\ \A i \in DOMAIN Devices(type) : <<Devices(type)[i]>> \in Seq(Channel)
<1>1. BsDev \in Seq(Channel) /\ IsdbTDev \in Seq(Channel)
  BY ProgramAssumption DEF Channel
<1> QED
  BY <1>1 DEF Devices

LEMMA TodoStep ==
  ASSUME TodoInv, [RNext]_allVars
  PROVE  TodoInv'
<1> USE DEF TodoInv
<1>1. ASSUME NEW u \in User, Begin(u)
      PROVE  TodoInv'
  <2>1. PICK type \in {"satellite", "ground"} :
          \E devs \in {Devices(type)} \union {<<Devices(type)[i]>> : i \in DOMAIN Devices(type)} :
            todo' = [todo EXCEPT ![u] = devs]
    BY <1>1 DEF Begin
  <2>2. PICK devs \in Seq(Channel) : todo' = [todo EXCEPT ![u] = devs]
    BY <2>1, DevicesAreChannels
  <2> QED
    BY <2>2
<1>2. ASSUME NEW u \in User, TryBusy(u) \/ TryOpen(u)
      PROVE  TodoInv'
  <2>1. todo[u] # <<>> /\ todo' = [todo EXCEPT ![u] = Tail(@)]
    BY <1>2 DEF TryBusy, TryOpen
  <2>2. Tail(todo[u]) \in Seq(Channel)
    BY <2>1
  <2> QED
    BY <2>1, <2>2
<1>3. ASSUME NEW u \in User, Reband(u)
      PROVE  TodoInv'
  BY <1>3, DevicesAreChannels DEF Reband
<1>4. ASSUME NEW u \in User,
             \/ Wake(u) \/ Opened(u) \/ NoTuner(u) \/ Enable(u) \/ Tuned(u) \/ NotTuned(u)
             \/ GiveUp(u) \/ Start(u) \/ Finish(u) \/ Killed(u) \/ Disable(u) \/ CloseDev(u)
      PROVE  todo' = todo
  BY <1>4 DEF Wake, Opened, NoTuner, Enable, Tuned, NotTuned, GiveUp, Start, Finish, Killed,
              Disable, CloseDev, uvars
<1>5. CASE UNCHANGED allVars
  BY <1>5 DEF allVars
<1> QED
  BY <1>1, <1>2, <1>3, <1>4, <1>5 DEF RNext, Tune

(* What tune, close_tuner and their callers do is a call of the driver, or *)
(* nothing that the driver sees.                                           *)
LEMMA RStepIsStep ==
  ASSUME TodoInv, [RNext]_allVars
  PROVE  [Next]_vars
<1>1. CASE UNCHANGED allVars
  BY <1>1 DEF allVars, vars
<1>2. ASSUME NEW u \in User, Tune(u)
      PROVE  [Next]_vars
  <2>1. CASE Begin(u) \/ TryBusy(u) \/ NoTuner(u) \/ Tuned(u) \/ NotTuned(u) \/ GiveUp(u)
    BY <2>1 DEF Begin, TryBusy, OpenBusy, NoTuner, Tuned, NotTuned, GiveUp, SetChannel
  <2>2. CASE TryOpen(u)
    <3>1. OpenEnter(u, Head(todo[u])) /\ todo[u] # <<>>
      BY <2>2 DEF TryOpen
    <3>2. Head(todo[u]) \in Channel
      BY <3>1 DEF TodoInv
    <3> QED
      BY <3>1, <3>2 DEF Next, Open
  <2>3. CASE Wake(u) \/ Opened(u)
    BY <2>3 DEF Wake, Opened, Next, Open
  <2>4. CASE Enable(u)
    BY <2>4 DEF Enable, Next, Ioctl
  <2> QED
    BY <1>2, <2>1, <2>2, <2>3, <2>4 DEF Tune
<1>3. ASSUME NEW u \in User, Start(u) \/ Finish(u) \/ Reband(u) \/ Killed(u)
      PROVE  [Next]_vars
  BY <1>3 DEF Start, Finish, Reband, Killed, Next, Ioctl
<1>4. ASSUME NEW u \in User, Disable(u)
      PROVE  [Next]_vars
  BY <1>4 DEF Disable, Next, Ioctl
<1>5. ASSUME NEW u \in User, CloseDev(u)
      PROVE  [Next]_vars
  BY <1>5 DEF CloseDev, Next, Close
<1> QED
  BY <1>1, <1>2, <1>3, <1>4, <1>5 DEF RNext

-----------------------------------------------------------------------------

(* recpt1 and checksignal use the driver by its calls only. *)
THEOREM RecordersUseDriver == RSpec => UsesDriver
<1>1. RInit => Init /\ TodoInv
  BY DEF RInit, TodoInv
<1> QED
  BY <1>1, TodoStep, RStepIsStep, PTL DEF RSpec, Spec, UsesDriver

(* Two recorders never share a tuner, and none switches the LNB off under  *)
(* another satellite user, as long as both hold satellite channels.        *)
THEOREM RecordersKeepLnb == RSpec => []ExclusiveUse /\ LnbStays
BY RecordersUseDriver, Exclusive, LnbIsKept DEF UsesDriver

-----------------------------------------------------------------------------
(* The switching off of the LNB.                                           *)

(* Where a process is in recpt1 says where it is in the driver. *)
PlaceInv ==
  \A u \in User :
    /\ pc[u] \in {"idle", "open"} => chan[u] = NoChan /\ call[u] = "none"
    /\ pc[u] = "opening" => chan[u] # NoChan /\ call[u] \in {"wake", "mark"}
    /\ pc[u] = "enabling" => chan[u] # NoChan /\ call[u] = "enable"
    /\ pc[u] = "disabling" => chan[u] # NoChan /\ call[u] = "disable"
    /\ pc[u] = "closing" => chan[u] # NoChan /\ call[u] = "sleep"
    /\ pc[u] \in {"enable", "tune", "start", "run", "disable", "close"} =>
         chan[u] # NoChan /\ call[u] = "none"

Band(type) == IF type = "satellite" THEN SatCh ELSE TerCh

(* A device is of the band of the table, until the table is replaced. *)
BandInv ==
  \A u \in User :
    /\ todo[u] \in Seq(Band(table[u]))
    /\ pc[u] \in {"opening", "enable", "enabling", "tune", "start", "run"} =>
         chan[u] \in Band(table[u])

(* Satellite users who have still to ask for the LNB to be switched off,   *)
(* and those who will.                                                     *)
Using(u) ==
  chan[u] \in SatCh /\ pc[u] \in {"enable", "enabling", "tune", "start", "run", "disable"}
SwitchesOff(u) == Using(u) \/ (chan[u] \in SatCh /\ pc[u] = "disabling" /\ seen[u] <= 1)

(* While the LNB is on without excuse somebody will switch it off, and all *)
(* who use it will ask for that.                                           *)
OffInv ==
  lnb /\ ~excused =>
    /\ \E u \in User : SwitchesOff(u)
    /\ \A u \in User : Using(u) => table[u] = "satellite"

(* Who switches it on has found nobody else, and whoever came since has    *)
(* not got past pt3_biglock.                                               *)
OnInv ==
  \A u, v \in User :
    /\ u # v /\ call[u] = "enable" /\ seen[u] <= 1 /\ ~excused
    /\ chan[u] \in SatCh /\ Using(v)
    => pc[v] = "enable"

\* Only tune of a satellite channel comes to LNB_ENABLE.
EnablesSatellite == \A u \in User : pc[u] \in {"enable", "enabling"} => table[u] = "satellite"

UseOfLnbInv == PlaceInv /\ BandInv /\ EnablesSatellite /\ OnInv /\ OffInv

\* The steps of one process.
LEMMA RSteps ==
  ASSUME [RNext]_allVars
  PROVE  \/ \E u \in User :
              \/ Begin(u) \/ TryBusy(u) \/ TryOpen(u) \/ Wake(u) \/ Opened(u) \/ NoTuner(u)
              \/ Enable(u) \/ Tuned(u) \/ NotTuned(u) \/ GiveUp(u) \/ Start(u) \/ Finish(u)
              \/ Reband(u) \/ Killed(u) \/ Disable(u) \/ CloseDev(u)
         \/ UNCHANGED allVars
BY DEF RNext, Tune

ROwnTypeOK ==
  /\ pc \in [User -> Where]
  /\ table \in [User -> {"satellite", "ground"}]
  /\ next \in [User -> {"idle", "open"}]
  /\ ntunes \in 0 .. MaxTunes
  /\ excused \in BOOLEAN

LEMMA ROwnTypeStep ==
  ASSUME TypeOK, ROwnTypeOK, [RNext]_allVars
  PROVE  ROwnTypeOK'
<1> USE DEF ROwnTypeOK, Where, Goto
<1>1. ASSUME NEW u \in User, Begin(u) PROVE ROwnTypeOK'
  <2>1. pc' \in [User -> Where]
    BY <1>1 DEF Begin
  <2>2. table' \in [User -> {"satellite", "ground"}]
    BY <1>1 DEF Begin
  <2> QED
    BY <1>1, <2>1, <2>2, ProgramAssumption DEF Begin
<1>2. ASSUME NEW u \in User, TryBusy(u) \/ TryOpen(u) \/ Wake(u) \/ Opened(u) \/ NoTuner(u)
      PROVE  ROwnTypeOK'
  BY <1>2 DEF TryBusy, TryOpen, Wake, Opened, NoTuner, uvars
<1>3. ASSUME NEW u \in User, Enable(u) \/ Tuned(u) \/ Start(u)
      PROVE  ROwnTypeOK'
  BY <1>3 DEF Enable, Tuned, Start
<1>4. ASSUME NEW u \in User, NotTuned(u) \/ GiveUp(u) PROVE ROwnTypeOK'
  BY <1>4 DEF NotTuned, GiveUp
<1>5. ASSUME NEW u \in User, Finish(u) \/ Killed(u) PROVE ROwnTypeOK'
  BY <1>5 DEF Finish, Killed
<1>6. ASSUME NEW u \in User, Reband(u) PROVE ROwnTypeOK'
  BY <1>6, ProgramAssumption DEF Reband, OtherType
<1>7. ASSUME NEW u \in User, Disable(u) PROVE ROwnTypeOK'
  BY <1>7 DEF Disable
<1>8. ASSUME NEW u \in User, CloseDev(u) PROVE ROwnTypeOK'
  BY <1>8 DEF CloseDev
<1>9. CASE UNCHANGED allVars
  BY <1>9 DEF allVars
<1> QED
  BY <1>1, <1>2, <1>3, <1>4, <1>5, <1>6, <1>7, <1>8, <1>9, RSteps

LEMMA PlaceStep ==
  ASSUME TypeOK, ROwnTypeOK, TodoInv, PlaceInv, [RNext]_allVars
  PROVE  PlaceInv'
<1> USE DEF TypeOK, ROwnTypeOK, PlaceInv, Where, Calls, Goto
<1>1. ASSUME NEW u \in User, Begin(u) \/ NoTuner(u) \/ TryBusy(u) PROVE PlaceInv'
  BY <1>1 DEF Begin, NoTuner, TryBusy, OpenBusy, vars
<1>2. ASSUME NEW u \in User, TryOpen(u) PROVE PlaceInv'
  <2>1. chan' = [chan EXCEPT ![u] = Head(todo[u])] /\ call' = [call EXCEPT ![u] = "wake"]
    BY <1>2 DEF TryOpen, OpenEnter
  <2>2. Head(todo[u]) \in Channel
    BY <1>2 DEF TryOpen, TodoInv
  <2>3. chan'[u] # NoChan
    BY <2>1, <2>2, NoneAssumption DEF Channel
  <2> QED
    BY <1>2, <2>1, <2>3 DEF TryOpen
<1>3. ASSUME NEW u \in User, Wake(u) \/ Opened(u) PROVE PlaceInv'
  BY <1>3 DEF Wake, Opened, OpenWake, OpenMark, uvars
<1>4. ASSUME NEW u \in User, Enable(u) PROVE PlaceInv'
  BY <1>4 DEF Enable, LnbCount, LnbSet
<1>5. ASSUME NEW u \in User, Tuned(u) \/ NotTuned(u) \/ GiveUp(u) PROVE PlaceInv'
  BY <1>5 DEF Tuned, NotTuned, GiveUp, SetChannel, vars
<1>6. ASSUME NEW u \in User, Start(u) \/ Finish(u) \/ Reband(u) \/ Killed(u) PROVE PlaceInv'
  BY <1>6 DEF Start, Finish, Reband, Killed, SetEnabled, vars, callVars
<1>7. ASSUME NEW u \in User, Disable(u) PROVE PlaceInv'
  BY <1>7 DEF Disable, LnbCount, LnbSet, vars
<1>8. ASSUME NEW u \in User, CloseDev(u) PROVE PlaceInv'
  BY <1>8 DEF CloseDev, Release, ReleaseSleep
<1>9. CASE UNCHANGED allVars
  BY <1>9 DEF allVars
<1> QED
  BY <1>1, <1>2, <1>3, <1>4, <1>5, <1>6, <1>7, <1>8, <1>9, RSteps

LEMMA DevicesOfBand ==
  ASSUME NEW type \in {"satellite", "ground"}
  PROVE  /\ Devices(type) \in Seq(Band(type))
         /\ \A i \in DOMAIN Devices(type) : <<Devices(type)[i]>> \in Seq(Band(type))
<1>1. CASE type = "satellite"
  <2>1. Devices(type) = BsDev /\ Band(type) = SatCh
    BY <1>1 DEF Devices, Band
  <2> QED
    BY <2>1, ProgramAssumption
<1>2. CASE type = "ground"
  <2>1. Devices(type) = IsdbTDev /\ Band(type) = TerCh
    BY <1>2 DEF Devices, Band
  <2> QED
    BY <2>1, ProgramAssumption
<1> QED
  BY <1>1, <1>2

LEMMA BandStep ==
  ASSUME TypeOK, ROwnTypeOK, TodoInv, PlaceInv, BandInv, [RNext]_allVars
  PROVE  BandInv'
<1> USE DEF TypeOK, ROwnTypeOK, Where, Goto
<1>1. ASSUME NEW u \in User, Begin(u) PROVE BandInv'
  <2>1. PICK type \in {"satellite", "ground"} :
          /\ table' = [table EXCEPT ![u] = type]
          /\ \E devs \in {Devices(type)} \union {<<Devices(type)[i]>> : i \in DOMAIN Devices(type)} :
               todo' = [todo EXCEPT ![u] = devs]
    BY <1>1 DEF Begin
  <2>2. PICK devs \in Seq(Band(type)) : todo' = [todo EXCEPT ![u] = devs]
    BY <2>1, DevicesOfBand
  <2>3. ASSUME NEW v \in User PROVE todo'[v] \in Seq(Band(table'[v]))
    BY <2>1, <2>2 DEF BandInv, TodoInv
  <2>4. pc' = [pc EXCEPT ![u] = "open"] /\ chan' = chan
    BY <1>1 DEF Begin, vars
  <2>5. ASSUME NEW v \in User,
               pc'[v] \in {"opening", "enable", "enabling", "tune", "start", "run"}
        PROVE  chan'[v] \in Band(table'[v])
    BY <2>1, <2>4, <2>5 DEF BandInv
  <2> QED
    BY <2>3, <2>5 DEF BandInv
<1>2. ASSUME NEW u \in User, TryBusy(u) \/ TryOpen(u) PROVE BandInv'
  <2>1. todo[u] # <<>> /\ todo' = [todo EXCEPT ![u] = Tail(@)] /\ table' = table
    BY <1>2 DEF TryBusy, TryOpen
  <2>2. Tail(todo[u]) \in Seq(Band(table[u])) /\ Head(todo[u]) \in Band(table[u])
    BY <2>1 DEF BandInv
  <2>3. ASSUME NEW v \in User PROVE todo'[v] \in Seq(Band(table'[v]))
    BY <2>1, <2>2 DEF BandInv, TodoInv
  <2>4. ASSUME NEW v \in User,
               pc'[v] \in {"opening", "enable", "enabling", "tune", "start", "run"}
        PROVE  chan'[v] \in Band(table'[v])
    <3>1. CASE TryBusy(u)
      BY <2>1, <2>4, <3>1 DEF TryBusy, OpenBusy, vars, BandInv
    <3>2. CASE TryOpen(u)
      BY <2>1, <2>2, <2>4, <3>2 DEF TryOpen, OpenEnter, BandInv
    <3> QED
      BY <1>2, <3>1, <3>2
  <2> QED
    BY <2>3, <2>4 DEF BandInv
<1>3. ASSUME NEW u \in User, Reband(u) PROVE BandInv'
  <2>1. /\ table' = [table EXCEPT ![u] = OtherType(@)]
        /\ todo' = [todo EXCEPT ![u] = Devices(OtherType(table[u]))]
        /\ pc' = [pc EXCEPT ![u] = "disable"] /\ chan' = chan
    BY <1>3 DEF Reband, SetEnabled, callVars
  <2>2. OtherType(table[u]) \in {"satellite", "ground"}
    BY DEF OtherType
  <2>3. ASSUME NEW v \in User PROVE todo'[v] \in Seq(Band(table'[v]))
    <3>1. Devices(OtherType(table[u])) \in Seq(Band(OtherType(table[u])))
      BY <2>2, DevicesOfBand
    <3> QED
      BY <2>1, <3>1 DEF BandInv, TodoInv
  <2>4. ASSUME NEW v \in User,
               pc'[v] \in {"opening", "enable", "enabling", "tune", "start", "run"}
        PROVE  chan'[v] \in Band(table'[v])
    BY <2>1, <2>4 DEF BandInv
  <2> QED
    BY <2>3, <2>4 DEF BandInv
<1>4. ASSUME NEW u \in User, NoTuner(u) \/ Wake(u) \/ Opened(u) PROVE BandInv'
  BY <1>4 DEF NoTuner, Wake, Opened, OpenWake, OpenMark, uvars, vars, BandInv
<1>5. ASSUME NEW u \in User, Enable(u) PROVE BandInv'
  BY <1>5 DEF Enable, LnbCount, LnbSet, BandInv
<1>6. ASSUME NEW u \in User, Tuned(u) \/ NotTuned(u) \/ GiveUp(u) PROVE BandInv'
  BY <1>6 DEF Tuned, NotTuned, GiveUp, SetChannel, vars, BandInv
<1>7. ASSUME NEW u \in User, Start(u) \/ Finish(u) \/ Killed(u) PROVE BandInv'
  BY <1>7 DEF Start, Finish, Killed, SetEnabled, vars, callVars, BandInv
<1>8. ASSUME NEW u \in User, Disable(u) PROVE BandInv'
  BY <1>8 DEF Disable, LnbCount, LnbSet, vars, BandInv
<1>9. ASSUME NEW u \in User, CloseDev(u) PROVE BandInv'
  BY <1>9 DEF CloseDev, Release, ReleaseSleep, BandInv
<1>10. CASE UNCHANGED allVars
  BY <1>10 DEF allVars, BandInv
<1> QED
  BY <1>1, <1>2, <1>3, <1>4, <1>5, <1>6, <1>7, <1>8, <1>9, <1>10, RSteps

(* The driver counts every satellite user until it closes its device.      *)
LEMMA UsersAreHeld ==
  ASSUME TypeOK, ROwnTypeOK, UseInv, PlaceInv
  PROVE  /\ \A u \in User : chan[u] \in SatCh /\ (Using(u) \/ pc[u] \in {"disabling", "close"}) =>
                Holds(u) /\ valid[chan[u]]
         /\ \A c \in SatCh : valid[c] =>
              \E v \in User : chan[v] = c /\ (Using(v) \/ Leaving(v))
<1> USE DEF TypeOK, ROwnTypeOK, PlaceInv, Where
<1>1. ASSUME NEW u \in User, chan[u] \in SatCh, Using(u) \/ pc[u] \in {"disabling", "close"}
      PROVE  Holds(u) /\ valid[chan[u]]
  <2>1. chan[u] # NoChan /\ call[u] \notin {"wake", "mark", "sleep"}
    BY <1>1, NoneAssumption DEF Using
  <2> QED
    BY <2>1 DEF Holds, UseInv
<1>2. ASSUME NEW c \in SatCh, valid[c]
      PROVE  \E v \in User : chan[v] = c /\ (Using(v) \/ Leaving(v))
  <2>1. PICK v \in User : Holds(v) /\ chan[v] = c
    BY <1>2 DEF UseInv, Channel
  <2>2. chan[v] # NoChan /\ call[v] \notin {"wake", "mark", "sleep"}
    BY <2>1 DEF Holds
  <2>3. pc[v] \in {"enable", "enabling", "tune", "start", "run", "disable", "disabling", "close"}
    BY <2>2
  <2> QED
    BY <2>1, <2>3 DEF Using, Leaving
<1> QED
  BY <1>1, <1>2

(* Who counts two finds another one.                                       *)
LEMMA AnotherIsCounted ==
  ASSUME NEW u \in User, Inv, ~(CountUsedBsTuners <= 1)
  PROVE  \E c \in SatCh : valid[c] /\ chan[u] # c
<1> SUFFICES ASSUME \A c \in SatCh : valid[c] => chan[u] = c
             PROVE  CountUsedBsTuners <= 1
  OBVIOUS
<1> DEFINE S == {c \in SatCh : valid[c]}
<1>1. S \subseteq {chan[u]}
  OBVIOUS
<1>2. IsFiniteSet({chan[u]}) /\ Cardinality({chan[u]}) = 1
  BY FS_Singleton
<1>3. Cardinality(S) <= 1
  BY <1>1, <1>2, FS_Subset, Zenon
<1> QED
  BY <1>3 DEF CountUsedBsTuners

LEMMA OnStep ==
  ASSUME Inv, ROwnTypeOK, PlaceInv, BandInv, OnInv, [RNext]_allVars
  PROVE  OnInv'
<1> USE DEF TypeOK, ROwnTypeOK, Where, Goto
<1>0. TypeOK /\ LocksInv /\ UseInv
  BY DEF Inv
<1>1. ASSUME NEW w \in User, Enable(w) PROVE OnInv'
  <2>1. CASE Goto(w, "enable", "enabling") /\ LnbCount(w, "enable") /\ UNCHANGED excused
    <3> SUFFICES ASSUME NEW u \in User, NEW v \in User, u # v, call'[u] = "enable", seen'[u] <= 1,
                        chan'[u] \in SatCh, Using(v)'
                 PROVE  pc'[v] = "enable"
      BY DEF OnInv
    <3>1. u = w
      BY <1>0, <2>1, NoneAssumption DEF LnbCount, LocksInv
    <3>2. chan' = chan /\ Using(v) /\ seen'[u] = CountUsedBsTuners
      BY <1>0, <2>1, <3>1 DEF LnbCount, Using
    <3>3. chan[u] \in SatCh /\ chan[v] \in SatCh /\ Using(u)
      BY <2>1, <3>1, <3>2 DEF Using
    <3>4. /\ Holds(u) /\ Holds(v) /\ valid[chan[u]] /\ valid[chan[v]]
      BY <1>0, <3>2, <3>3, UsersAreHeld
    <3>5. chan[u] # chan[v]
      BY <1>0, <3>4 DEF UseInv
    <3>6. CountUsedBsTuners > 1
      BY <3>3, <3>4, <3>5, TwoAreCounted
    <3> QED
      BY <3>2, <3>6, CountIsNat
  <2>2. CASE Goto(w, "enabling", "tune") /\ LnbSet(w) /\ UNCHANGED excused
    BY <1>0, <2>2 DEF LnbSet, LocksInv, OnInv, Using
  <2> QED
    BY <1>1, <2>1, <2>2 DEF Enable
<1>2. ASSUME NEW w \in User, Disable(w) PROVE OnInv'
  <2>1. CASE Goto(w, "disable", "disabling") /\ LnbCount(w, "disable")
    BY <1>0, <2>1, NoneAssumption DEF LnbCount, LocksInv, OnInv
  <2>2. CASE Goto(w, "disabling", "close") /\ LnbSet(w)
    BY <1>0, <2>2, NoneAssumption DEF LnbSet, LocksInv, OnInv, PlaceInv
  <2>3. CASE Goto(w, "disable", "close") /\ UNCHANGED <<vars, excused>>
    BY <1>0, <2>3 DEF vars, OnInv, Using
  <2> QED
    BY <1>2, <2>1, <2>2, <2>3 DEF Disable
<1>3. ASSUME NEW w \in User, Begin(w) \/ NoTuner(w) \/ TryBusy(w) PROVE OnInv'
  BY <1>0, <1>3 DEF Begin, NoTuner, TryBusy, OpenBusy, vars, OnInv, Using
<1>4. ASSUME NEW w \in User, TryOpen(w) PROVE OnInv'
  <2>1. /\ pc' = [pc EXCEPT ![w] = "opening"] /\ excused' = excused /\ seen' = seen
        /\ chan' = [chan EXCEPT ![w] = Head(todo[w])] /\ call' = [call EXCEPT ![w] = "wake"]
    BY <1>4 DEF TryOpen, OpenEnter, history
  <2> QED
    BY <1>0, <2>1 DEF OnInv, Using
<1>5. ASSUME NEW w \in User, Wake(w) PROVE OnInv'
  BY <1>0, <1>5 DEF Wake, OpenWake, uvars, OnInv, Using
<1>6. ASSUME NEW w \in User, Opened(w) PROVE OnInv'
  <2>1. /\ pc' = [pc EXCEPT ![w] = IF table[w] = "satellite" THEN "enable" ELSE "tune"]
        /\ excused' = excused /\ seen' = seen /\ chan' = chan /\ call' = [call EXCEPT ![w] = "none"]
        /\ pc[w] = "opening"
    BY <1>6 DEF Opened, OpenMark, history
  <2>2. chan[w] \in SatCh => table[w] = "satellite"
    BY <2>1, ChannelAssumption DEF BandInv, Band
  <2> QED
    BY <1>0, <2>1, <2>2 DEF OnInv, Using
<1>7. ASSUME NEW w \in User, Tuned(w) \/ NotTuned(w) \/ GiveUp(w) PROVE OnInv'
  <2>1. bigLock = NoUser /\ UNCHANGED <<call, seen, chan>>
    BY <1>7 DEF Tuned, NotTuned, GiveUp, SetChannel, vars
  <2> QED
    BY <1>0, <2>1, NoneAssumption DEF OnInv, LocksInv
<1>8. ASSUME NEW w \in User, Start(w) \/ Finish(w) \/ Reband(w) PROVE OnInv'
  <2>1. CASE bigLock = NoUser /\ UNCHANGED <<call, seen, chan>>
    BY <1>0, <2>1, NoneAssumption DEF OnInv, LocksInv
  <2>2. CASE UNCHANGED vars /\ Finish(w)
    BY <1>0, <2>2 DEF OnInv, vars, Finish, Using
  <2> QED
    BY <1>8, <2>1, <2>2 DEF Start, Finish, Reband, SetEnabled, callVars
<1>9. ASSUME NEW w \in User, Killed(w) PROVE OnInv'
  BY <1>0, <1>9 DEF Killed, vars, OnInv, Using
<1>10. ASSUME NEW w \in User, CloseDev(w) PROVE OnInv'
  <2>1. CASE Goto(w, "close", "closing") /\ Release(w) /\ UNCHANGED excused
    BY <1>0, <2>1 DEF Release, OnInv, Using
  <2>2. CASE Goto(w, "closing", next[w]) /\ ReleaseSleep(w) /\ UNCHANGED excused
    BY <1>0, <2>2 DEF ReleaseSleep, OnInv, Using
  <2> QED
    BY <1>10, <2>1, <2>2 DEF CloseDev
<1>11. CASE UNCHANGED allVars
  BY <1>11 DEF allVars, OnInv, Using
<1> QED
  BY <1>1, <1>2, <1>3, <1>4, <1>5, <1>6, <1>7, <1>8, <1>9, <1>10, <1>11, RSteps

LEMMA EnablesStep ==
  ASSUME ROwnTypeOK, EnablesSatellite, [RNext]_allVars
  PROVE  EnablesSatellite'
<1> USE DEF ROwnTypeOK, Where, Goto, EnablesSatellite
<1>1. ASSUME NEW u \in User, Begin(u) PROVE EnablesSatellite'
  <2>1. /\ pc' = [pc EXCEPT ![u] = "open"]
        /\ \A v \in User \ {u} : table'[v] = table[v]
    BY <1>1 DEF Begin
  <2> QED
    BY <2>1
<1>2. ASSUME NEW u \in User,
             \/ TryBusy(u) \/ TryOpen(u) \/ Wake(u) \/ Opened(u) \/ NoTuner(u)
             \/ Enable(u) \/ Tuned(u) \/ NotTuned(u) \/ GiveUp(u)
      PROVE  EnablesSatellite'
  BY <1>2 DEF TryBusy, TryOpen, Wake, Opened, NoTuner, Enable, Tuned, NotTuned, GiveUp, uvars
<1>3. ASSUME NEW u \in User, Start(u) \/ Finish(u) \/ Reband(u) \/ Killed(u) \/ Disable(u)
      PROVE  EnablesSatellite'
  BY <1>3 DEF Start, Finish, Reband, Killed, Disable
<1>4. ASSUME NEW u \in User, CloseDev(u) PROVE EnablesSatellite'
  BY <1>4 DEF CloseDev
<1>5. CASE UNCHANGED allVars
  BY <1>5 DEF allVars
<1> QED
  BY <1>1, <1>2, <1>3, <1>4, <1>5, RSteps

LEMMA OffStep ==
  ASSUME Inv, ROwnTypeOK, TodoInv, PlaceInv, BandInv, EnablesSatellite, OnInv, OffInv, [RNext]_allVars
  PROVE  OffInv'
<1> USE DEF TypeOK, ROwnTypeOK, Where, Goto
<1>0. TypeOK /\ LocksInv /\ UseInv
  BY DEF Inv
<1>1. ASSUME NEW w \in User, Enable(w) PROVE OffInv'
  <2>1. CASE Goto(w, "enable", "enabling") /\ LnbCount(w, "enable") /\ UNCHANGED <<table, excused>>
    BY <1>0, <2>1 DEF LnbCount, boardVars, OffInv, Using, SwitchesOff
  <2>2. CASE Goto(w, "enabling", "tune") /\ LnbSet(w) /\ UNCHANGED <<table, excused>>
    <3> SUFFICES ASSUME lnb', ~excused
                 PROVE  /\ \E u \in User : SwitchesOff(u)'
                        /\ \A u \in User : Using(u)' => table'[u] = "satellite"
      BY <2>2 DEF OffInv
    <3>1. /\ pc' = [pc EXCEPT ![w] = "tune"] /\ pc[w] = "enabling" /\ call[w] = "enable"
          /\ chan' = chan /\ table' = table /\ seen' = [seen EXCEPT ![w] = 0]
      BY <2>2 DEF LnbSet, PlaceInv
    <3>2. CASE lnb
      BY <1>0, <3>1, <3>2 DEF OffInv, Using, SwitchesOff
    <3>3. CASE ~lnb
      <4>1. seen[w] <= 1
        BY <2>2, <3>3 DEF LnbSet
      <4>2. table[w] = "satellite" /\ chan[w] \in SatCh
        BY <1>1, <3>1 DEF BandInv, Band, EnablesSatellite
      <4>3. SwitchesOff(w)'
        BY <3>1, <4>2 DEF SwitchesOff, Using
      <4>4. ASSUME NEW u \in User, Using(u)' PROVE table'[u] = "satellite"
        <5>1. CASE u = w
          BY <3>1, <4>2, <5>1
        <5>2. CASE u # w
          BY <3>1, <4>1, <4>2, <4>4, <5>2 DEF OnInv, Using, EnablesSatellite
        <5> QED
          BY <5>1, <5>2
      <4> QED
        BY <4>3, <4>4
    <3> QED
      BY <3>2, <3>3
  <2> QED
    BY <1>1, <2>1, <2>2 DEF Enable
<1>2. ASSUME NEW w \in User, Disable(w) PROVE OffInv'
  <2>1. CASE /\ Goto(w, "disable", "disabling") /\ LnbCount(w, "disable") /\ UNCHANGED table
             /\ excused' = (excused \/ \E v \in User \ {w} : Leaving(v))
    <3> SUFFICES ASSUME lnb', ~excused'
                 PROVE  /\ \E u \in User : SwitchesOff(u)'
                        /\ \A u \in User : Using(u)' => table'[u] = "satellite"
      BY DEF OffInv
    <3>1. /\ pc' = [pc EXCEPT ![w] = "disabling"] /\ pc[w] = "disable"
          /\ chan' = chan /\ table' = table /\ seen' = [seen EXCEPT ![w] = CountUsedBsTuners]
          /\ lnb /\ ~excused /\ \A v \in User \ {w} : ~Leaving(v)
      BY <2>1 DEF LnbCount, boardVars
    <3>2. \A u \in User : Using(u)' => table'[u] = "satellite"
      BY <3>1 DEF OffInv, Using
    <3>3. CASE CountUsedBsTuners <= 1 /\ chan[w] \in SatCh
      BY <1>0, <3>1, <3>2, <3>3 DEF SwitchesOff
    <3>4. CASE ~(CountUsedBsTuners <= 1)
      <4>1. PICK c \in SatCh : valid[c] /\ chan[w] # c
        BY <3>4, AnotherIsCounted
      <4>2. PICK v \in User : chan[v] = c /\ (Using(v) \/ Leaving(v))
        BY <1>0, <4>1, UsersAreHeld
      <4> QED
        BY <3>1, <3>2, <4>1, <4>2 DEF SwitchesOff, Using
    <3>5. CASE chan[w] \notin SatCh
      BY <3>1, <3>2, <3>5 DEF OffInv, SwitchesOff, Using
    <3> QED
      BY <3>3, <3>4, <3>5
  <2>2. CASE Goto(w, "disabling", "close") /\ LnbSet(w) /\ UNCHANGED table /\ excused' = (excused /\ lnb')
    <3> SUFFICES ASSUME lnb', ~excused'
                 PROVE  /\ \E u \in User : SwitchesOff(u)'
                        /\ \A u \in User : Using(u)' => table'[u] = "satellite"
      BY DEF OffInv
    <3>1. /\ pc' = [pc EXCEPT ![w] = "close"] /\ pc[w] = "disabling" /\ call[w] = "disable"
          /\ chan' = chan /\ table' = table /\ seen' = [seen EXCEPT ![w] = 0] /\ ~excused
      BY <2>2 DEF LnbSet, PlaceInv
    <3>2. lnb /\ ~(seen[w] <= 1)
      BY <2>2, <3>1 DEF LnbSet
    <3> QED
      BY <3>1, <3>2 DEF OffInv, SwitchesOff, Using
  <2>3. CASE Goto(w, "disable", "close") /\ UNCHANGED <<vars, table, excused>> /\ table[w] = "ground"
    BY <1>0, <2>3 DEF vars, OffInv, Using, SwitchesOff
  <2> QED
    BY <1>2, <2>1, <2>2, <2>3 DEF Disable
<1>3. ASSUME NEW w \in User, Begin(w) \/ NoTuner(w) \/ TryBusy(w) PROVE OffInv'
  <2>1. CASE Begin(w)
    <3>1. /\ pc' = [pc EXCEPT ![w] = "open"] /\ pc[w] = "idle" /\ UNCHANGED <<vars, excused>>
          /\ \A u \in User \ {w} : table'[u] = table[u]
      BY <2>1 DEF Begin
    <3> QED
      BY <3>1 DEF vars, OffInv, Using, SwitchesOff
  <2>2. CASE NoTuner(w) \/ TryBusy(w)
    BY <2>2 DEF NoTuner, TryBusy, OpenBusy, vars, OffInv, Using, SwitchesOff
  <2> QED
    BY <1>3, <2>1, <2>2
<1>4. ASSUME NEW w \in User, TryOpen(w) PROVE OffInv'
  <2>1. /\ pc' = [pc EXCEPT ![w] = "opening"] /\ UNCHANGED <<excused, seen, table, lnb>>
        /\ chan' = [chan EXCEPT ![w] = Head(todo[w])] /\ pc[w] = "open"
    BY <1>4 DEF TryOpen, OpenEnter, history, boardVars
  <2> QED
    BY <1>0, <2>1 DEF OffInv, Using, SwitchesOff
<1>5. ASSUME NEW w \in User, Wake(w) PROVE OffInv'
  BY <1>0, <1>5 DEF Wake, OpenWake, uvars, OffInv, Using, SwitchesOff
<1>6. ASSUME NEW w \in User, Opened(w) PROVE OffInv'
  <2>1. /\ pc' = [pc EXCEPT ![w] = IF table[w] = "satellite" THEN "enable" ELSE "tune"]
        /\ UNCHANGED <<excused, seen, chan, lnb, table>> /\ pc[w] = "opening"
    BY <1>6 DEF Opened, OpenMark, history
  <2>2. chan[w] \in SatCh => table[w] = "satellite"
    BY <2>1, ChannelAssumption DEF BandInv, Band
  <2> QED
    BY <1>0, <2>1, <2>2 DEF OffInv, Using, SwitchesOff
<1>7. ASSUME NEW w \in User, Tuned(w) \/ GiveUp(w) PROVE OffInv'
  BY <1>7 DEF Tuned, GiveUp, SetChannel, vars, OffInv, Using, SwitchesOff
<1>8. ASSUME NEW w \in User, NotTuned(w) PROVE OffInv'
  <2>1. /\ pc' = [pc EXCEPT ![w] = "close"] /\ pc[w] = "tune" /\ UNCHANGED <<chan, seen, lnb, table>>
        /\ excused' = (excused \/ table[w] = "satellite")
    BY <1>8 DEF NotTuned, SetChannel, vars
  <2>2. chan[w] \in SatCh => table[w] = "satellite"
    BY <2>1, ChannelAssumption DEF BandInv, Band
  <2> QED
    BY <2>1, <2>2 DEF OffInv, Using, SwitchesOff
<1>9. ASSUME NEW w \in User, Start(w) \/ Finish(w) PROVE OffInv'
  BY <1>9 DEF Start, Finish, SetEnabled, callVars, vars, OffInv, Using, SwitchesOff
<1>10. ASSUME NEW w \in User, Reband(w) PROVE OffInv'
  <2>1. /\ pc' = [pc EXCEPT ![w] = "disable"] /\ pc[w] = "run" /\ UNCHANGED <<chan, seen, lnb>>
        /\ excused' = (excused \/ table[w] = "satellite")
        /\ \A u \in User \ {w} : table'[u] = table[u]
    BY <1>10 DEF Reband, SetEnabled, callVars
  <2>2. chan[w] \in SatCh => table[w] = "satellite"
    BY <2>1, ChannelAssumption DEF BandInv, Band
  <2> QED
    BY <2>1, <2>2 DEF OffInv, Using, SwitchesOff
<1>11. ASSUME NEW w \in User, Killed(w) PROVE OffInv'
  BY <1>0, <1>11 DEF Killed, vars, OffInv, Using, SwitchesOff
<1>12. ASSUME NEW w \in User, CloseDev(w) PROVE OffInv'
  <2>1. CASE Goto(w, "close", "closing") /\ Release(w) /\ UNCHANGED <<excused, table>>
    BY <1>0, <2>1 DEF Release, OffInv, Using, SwitchesOff
  <2>2. CASE Goto(w, "closing", next[w]) /\ ReleaseSleep(w) /\ UNCHANGED <<excused, table>>
    BY <1>0, <2>2 DEF ReleaseSleep, OffInv, Using, SwitchesOff
  <2> QED
    BY <1>12, <2>1, <2>2 DEF CloseDev
<1>13. CASE UNCHANGED allVars
  BY <1>13 DEF allVars, OffInv, Using, SwitchesOff
<1> QED
  BY <1>1, <1>2, <1>3, <1>4, <1>5, <1>6, <1>7, <1>8, <1>9, <1>10, <1>11, <1>12, <1>13, RSteps

LEMMA RInitInv == RInit => Inv /\ ROwnTypeOK /\ TodoInv /\ UseOfLnbInv
<1> SUFFICES ASSUME RInit PROVE Inv /\ ROwnTypeOK /\ TodoInv /\ UseOfLnbInv
  OBVIOUS
<1>1. Inv
  BY InitInv DEF RInit
<1>2. TodoInv
  BY DEF RInit, TodoInv
<1>3. ROwnTypeOK
  <2>1. pc \in [User -> Where] /\ table \in [User -> {"satellite", "ground"}]
    BY DEF RInit, Where
  <2>2. next \in [User -> {"idle", "open"}] /\ excused \in BOOLEAN
    BY DEF RInit
  <2>3. ntunes \in 0 .. MaxTunes
    BY ProgramAssumption DEF RInit
  <2> QED
    BY <2>1, <2>2, <2>3 DEF ROwnTypeOK
<1>6. PlaceInv /\ EnablesSatellite /\ OffInv
  BY DEF RInit, Init, PlaceInv, EnablesSatellite, OffInv
<1>4. BandInv
  BY DEF RInit, BandInv
<1>5. OnInv
  BY DEF RInit, Init, OnInv
<1> QED
  BY <1>1, <1>2, <1>3, <1>4, <1>5, <1>6 DEF UseOfLnbInv

LEMMA RStepInv ==
  Inv /\ ROwnTypeOK /\ TodoInv /\ UseOfLnbInv /\ [RNext]_allVars =>
    (Inv /\ ROwnTypeOK /\ TodoInv /\ UseOfLnbInv)'
<1> SUFFICES ASSUME Inv, ROwnTypeOK, TodoInv, UseOfLnbInv, [RNext]_allVars
             PROVE  (Inv /\ ROwnTypeOK /\ TodoInv /\ UseOfLnbInv)'
  OBVIOUS
<1>1. /\ TypeOK /\ PlaceInv /\ BandInv /\ EnablesSatellite /\ OnInv /\ OffInv
  BY DEF UseOfLnbInv, Inv
<1>2. Inv'
  BY RStepIsStep, StepInv
<1>3. ROwnTypeOK' /\ TodoInv' /\ PlaceInv'
  BY <1>1, ROwnTypeStep, TodoStep, PlaceStep
<1>4. BandInv' /\ EnablesSatellite' /\ OnInv' /\ OffInv'
  BY <1>1, BandStep, EnablesStep, OnStep, OffStep
<1> QED
  BY <1>2, <1>3, <1>4 DEF UseOfLnbInv

\* tune, close_tuner and their callers keep the values of their variables in
\* range.
THEOREM RecordersTypes == RSpec => []RTypeOK
<1>1. Inv /\ ROwnTypeOK /\ TodoInv => RTypeOK
  BY DEF Inv, ROwnTypeOK, TodoInv, RTypeOK
<1> QED
  BY <1>1, RInitInv, RStepInv, PTL DEF RSpec

\* When the last satellite user has gone, the LNB is off, for any number of
\* processes and channels, unless somebody left without LNB_DISABLE or two
\* left at the same time.
THEOREM LnbGoesOff == RSpec => []LnbOffAfterUse
<1>1. UseOfLnbInv => LnbOffAfterUse
  BY DEF UseOfLnbInv, OffInv, SwitchesOff, Using, LnbOffAfterUse
<1> QED
  BY <1>1, RInitInv, RStepInv, PTL DEF RSpec
=============================================================================
