------------------------------ MODULE Pt3Cdev ------------------------------
(***************************************************************************)
(* The file operations of the PT3 character device                         *)
(* (drivers/video/pt3_dtv.c): open, release and the ioctls that switch the *)
(* LNB and the DMA of a channel, called by any number of processes.        *)
(*                                                                         *)
(* open and release run under the device's lock, ioctls under pt3_biglock, *)
(* and neither looks at the other's lock: the ioctls read `valid` while    *)
(* open and release write it, and release puts the tuner to sleep after it *)
(* has let go of its lock.  A call that sleeps in between, or that another *)
(* call can come into, is several steps here; call[u] says where u is.     *)
(*                                                                         *)
(* A channel's page ring is left to another module.  The voltage of the    *)
(* LNB is on or off, and lnb_force is 0, its default.                      *)
(***************************************************************************)
EXTENDS Integers, FiniteSets

CONSTANTS
  User,      (* processes that use the device                              *)
  SatCh,     (* channels of type PT3_ISDB_S                                *)
  TerCh,     (* channels of type PT3_ISDB_T                                *)
  NoUser,    (* a mutex that is free                                       *)
  NoChan     (* no file opened                                             *)

Channel == SatCh \union TerCh

ASSUME ChannelAssumption == SatCh \intersect TerCh = {} /\ IsFiniteSet(SatCh)
ASSUME NoneAssumption == NoUser \notin User /\ NoChan \notin SatCh \union TerCh

VARIABLES
  valid,     (* channel->valid                                             *)
  asleep,    (* the tuner of the channel has been put to sleep             *)
  dma,       (* the channel's DMA engine runs                              *)
  lnb,       (* the LNB has its voltage                                    *)
  devLock,   (* who has the device's lock                                  *)
  bigLock,   (* who has pt3_biglock                                        *)
  call,      (* the call a process is in                                   *)
  chan,      (* its file: the channel in private_data                      *)
  seen,      (* what count_used_bs_tuners returned to it                   *)
  \* history, read by properties only
  late,      (* its open woke the tuner up while the release of the        *)
             (* channel's last user had still to put it to sleep           *)
  served     (* its last LNB ioctl was an LNB_ENABLE, and that has ended   *)

boardVars == <<valid, asleep, dma, lnb>>
lockVars == <<devLock, bigLock>>
callVars == <<call, chan, seen>>
history == <<late, served>>
vars == <<valid, asleep, dma, lnb, devLock, bigLock, call, chan, seen, late, served>>

(* Where a process can be between two steps of a call:                     *)
(*   wake, mark       in open, with the lock, before set_tuner_sleep(0)    *)
(*                    and before valid = 1                                 *)
(*   sleep            in release, the lock given back                      *)
(*   enable, disable  in LNB_ENABLE, LNB_DISABLE, the tuners counted       *)
Calls == {"none", "wake", "mark", "sleep", "enable", "disable"}

(* The process has a file and is not about to lose it.                     *)
Holds(u) == chan[u] # NoChan /\ call[u] \notin {"wake", "mark", "sleep"}

(* init_all_tuner ends with every tuner asleep; the probe switches the LNB *)
(* off; create_pt3_dma does not start the engine.                          *)
Init ==
  /\ valid = [c \in Channel |-> FALSE]
  /\ asleep = [c \in Channel |-> TRUE]
  /\ dma = [c \in Channel |-> FALSE]
  /\ lnb = FALSE
  /\ devLock = NoUser /\ bigLock = NoUser
  /\ call = [u \in User |-> "none"]
  /\ chan = [u \in User |-> NoChan]
  /\ seen = [u \in User |-> 0]
  /\ late = [u \in User |-> FALSE] /\ served = [u \in User |-> FALSE]

-----------------------------------------------------------------------------
(* pt3_open *)

(* -EIO: the channel has a user. *)
OpenBusy(u, c) ==
  /\ call[u] = "none" /\ chan[u] = NoChan
  /\ devLock = NoUser /\ valid[c]
  /\ UNCHANGED vars

(* Mutant: the lock is not held up to valid = 1. *)
OpenEnterUnlocked(u, c) ==
  /\ call[u] = "none" /\ chan[u] = NoChan
  /\ devLock = NoUser /\ ~valid[c]
  /\ call' = [call EXCEPT ![u] = "wake"]
  /\ chan' = [chan EXCEPT ![u] = c]
  /\ UNCHANGED <<boardVars, lockVars, seen, history>>

OpenEnter(u, c) ==
  /\ call[u] = "none" /\ chan[u] = NoChan
  /\ devLock = NoUser /\ ~valid[c]
  /\ devLock' = u
  /\ call' = [call EXCEPT ![u] = "wake"]
  /\ chan' = [chan EXCEPT ![u] = c]
  /\ UNCHANGED <<boardVars, bigLock, seen, history>>

(* Mutant: the tuner is left asleep. *)
OpenNoWake(u) ==
  /\ call[u] = "wake"
  /\ call' = [call EXCEPT ![u] = "mark"]
  /\ UNCHANGED <<boardVars, lockVars, chan, seen, history>>

OpenWake(u) ==
  /\ call[u] = "wake"
  /\ asleep' = [asleep EXCEPT ![chan[u]] = FALSE]
  /\ call' = [call EXCEPT ![u] = "mark"]
  /\ late' = [late EXCEPT ![u] = \E v \in User : call[v] = "sleep" /\ chan[v] = chan[u]]
  /\ UNCHANGED <<valid, dma, lnb, lockVars, chan, seen, served>>

OpenMark(u) ==
  /\ call[u] = "mark"
  /\ valid' = [valid EXCEPT ![chan[u]] = TRUE]
  /\ devLock' = NoUser
  /\ call' = [call EXCEPT ![u] = "none"]
  /\ UNCHANGED <<asleep, dma, lnb, bigLock, chan, seen, history>>

(* Mutant: the engine of a process that was killed goes on. *)
ReleaseRunning(u) ==
  /\ call[u] = "none" /\ chan[u] # NoChan
  /\ devLock = NoUser
  /\ valid' = [valid EXCEPT ![chan[u]] = FALSE]
  /\ call' = [call EXCEPT ![u] = "sleep"]
  /\ served' = [served EXCEPT ![u] = FALSE]
  /\ UNCHANGED <<asleep, dma, lnb, lockVars, chan, seen, late>>

(* pt3_release: under the lock, then after it. *)
Release(u) ==
  /\ call[u] = "none" /\ chan[u] # NoChan
  /\ devLock = NoUser
  /\ valid' = [valid EXCEPT ![chan[u]] = FALSE]
  /\ dma' = [dma EXCEPT ![chan[u]] = FALSE]
  /\ call' = [call EXCEPT ![u] = "sleep"]
  /\ served' = [served EXCEPT ![u] = FALSE]
  /\ UNCHANGED <<asleep, lnb, lockVars, chan, seen, late>>

ReleaseSleep(u) ==
  /\ call[u] = "sleep"
  /\ asleep' = [asleep EXCEPT ![chan[u]] = TRUE]
  /\ call' = [call EXCEPT ![u] = "none"]
  /\ chan' = [chan EXCEPT ![u] = NoChan]
  /\ late' = [late EXCEPT ![u] = FALSE]
  /\ UNCHANGED <<valid, dma, lnb, lockVars, seen, served>>

-----------------------------------------------------------------------------
(* pt3_do_ioctl *)

(* Mutant: "the others", as if the caller were always one of them. *)
CountOtherBsTuners == Cardinality({c \in SatCh : valid[c]}) - 1

CountUsedBsTuners == Cardinality({c \in SatCh : valid[c]})

(* Mutant: pt3_biglock is not taken. *)
LnbCountUnlocked(u, what) ==
  /\ call[u] = "none" /\ chan[u] # NoChan
  /\ bigLock = NoUser
  /\ seen' = [seen EXCEPT ![u] = CountUsedBsTuners]
  /\ call' = [call EXCEPT ![u] = what]
  /\ served' = [served EXCEPT ![u] = FALSE]
  /\ UNCHANGED <<boardVars, lockVars, chan, late>>

(* LNB_ENABLE (what = "enable") and LNB_DISABLE up to the count, then the  *)
(* rest.  The count is one step: while it runs only opens and releases of  *)
(* the channel it has not read yet could change it.                        *)
LnbCount(u, what) ==
  /\ call[u] = "none" /\ chan[u] # NoChan
  /\ bigLock = NoUser
  /\ bigLock' = u
  /\ seen' = [seen EXCEPT ![u] = CountUsedBsTuners]
  /\ call' = [call EXCEPT ![u] = what]
  /\ served' = [served EXCEPT ![u] = FALSE]
  /\ UNCHANGED <<boardVars, devLock, chan, late>>

(* Mutant: LNB_DISABLE forgets that its caller is counted too. *)
LnbSetOff(u) ==
  /\ call[u] \in {"enable", "disable"}
  /\ lnb' = IF call[u] = "enable" THEN lnb \/ seen[u] <= 1 ELSE lnb /\ seen[u] >= 1
  /\ bigLock' = NoUser
  /\ call' = [call EXCEPT ![u] = "none"]
  /\ seen' = [seen EXCEPT ![u] = 0]
  /\ served' = [served EXCEPT ![u] = call[u] = "enable"]
  /\ UNCHANGED <<valid, asleep, dma, devLock, chan, late>>

LnbSet(u) ==
  /\ call[u] \in {"enable", "disable"}
  /\ lnb' = IF seen[u] <= 1 THEN call[u] = "enable" ELSE lnb
  /\ bigLock' = NoUser
  /\ call' = [call EXCEPT ![u] = "none"]
  /\ seen' = [seen EXCEPT ![u] = 0]
  /\ served' = [served EXCEPT ![u] = call[u] = "enable"]
  /\ UNCHANGED <<valid, asleep, dma, devLock, chan, late>>

(* START_REC and STOP_REC.  They write no flag that another call reads, so *)
(* the time they hold pt3_biglock matters only to those who wait for it.   *)
SetEnabled(u, enabled) ==
  /\ call[u] = "none" /\ chan[u] # NoChan
  /\ bigLock = NoUser
  /\ dma' = [dma EXCEPT ![chan[u]] = enabled]
  /\ UNCHANGED <<valid, asleep, lnb, lockVars, callVars, history>>

(* SET_CHANNEL: it holds pt3_biglock and changes nothing kept here.        *)
SetChannel(u) ==
  /\ call[u] = "none" /\ chan[u] # NoChan
  /\ bigLock = NoUser
  /\ UNCHANGED vars

-----------------------------------------------------------------------------
(* Processes that call in any order. *)

Open(u) == \/ \E c \in Channel : OpenBusy(u, c) \/ OpenEnter(u, c)
           \/ OpenWake(u) \/ OpenMark(u)

Close(u) == Release(u) \/ ReleaseSleep(u)

Ioctl(u) == \/ LnbCount(u, "enable") \/ LnbCount(u, "disable") \/ LnbSet(u)
            \/ SetEnabled(u, TRUE) \/ SetEnabled(u, FALSE) \/ SetChannel(u)

Next == \E u \in User : Open(u) \/ Close(u) \/ Ioctl(u)

Spec == Init /\ [][Next]_vars

-----------------------------------------------------------------------------
TypeOK ==
  /\ valid \in [Channel -> BOOLEAN]
  /\ asleep \in [Channel -> BOOLEAN]
  /\ dma \in [Channel -> BOOLEAN]
  /\ lnb \in BOOLEAN
  /\ devLock \in User \union {NoUser}
  /\ bigLock \in User \union {NoUser}
  /\ call \in [User -> Calls]
  /\ chan \in [User -> Channel \union {NoChan}]
  /\ seen \in [User -> Nat]
  /\ late \in [User -> BOOLEAN]
  /\ served \in [User -> BOOLEAN]

(* A channel has one user at most, and exactly when it is marked valid,    *)
(* whatever else opens, closes and fails at the same time: pt3_open looks  *)
(* at valid and sets it 150 ms later (3410-3422).                          *)
ExclusiveUse ==
  \A c \in Channel :
    /\ valid[c] <=> \E u \in User : Holds(u) /\ chan[u] = c
    /\ \A u, v \in User : Holds(u) /\ Holds(v) /\ chan[u] = c /\ chan[v] = c => u = v

(* A channel that nobody has, or is opening or closing, is left at rest:   *)
(* engine stopped, tuner asleep, free to be opened (pt3_release).          *)
QuietWhenUnused ==
  \A c \in Channel :
    (\A u \in User : chan[u] # c) => ~dma[c] /\ asleep[c] /\ ~valid[c]

(* The tuner of a channel in use is awake, with one exception: pt3_release *)
(* puts it to sleep after it has given up the channel and its lock (3450), *)
(* which may be after the next user's open has woken it up.                *)
AwakeInUse ==
  \A u \in User : Holds(u) /\ asleep[chan[u]] => late[u]

(* Once a user of a satellite channel has asked for the LNB, nobody else   *)
(* who uses a satellite channel switches it off under it, although the     *)
(* count that LNB_DISABLE decides by is taken without the lock that open   *)
(* and release hold, and is old when the voltage is set.  (A process with  *)
(* a terrestrial channel is not counted itself, and can.)                  *)
LnbStays ==
  [][\A u, v \in User :
       /\ u # v /\ call[u] = "disable" /\ call'[u] = "none"
       /\ chan[u] \in SatCh /\ served[v] /\ chan[v] \in SatCh
       => lnb' = lnb]_vars
=============================================================================
