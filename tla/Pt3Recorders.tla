---------------------------- MODULE Pt3Recorders ----------------------------
(***************************************************************************)
(* recpt1 and checksignal processes that share one PT3 card: tune and      *)
(* close_tuner (apps/cdev/recpt1/recpt1core.c), as recpt1's main, its      *)
(* mq_recv and checksignal's main call them, over the driver of Pt3Cdev.   *)
(* Each process has one thread at a time in these functions.               *)
(***************************************************************************)
EXTENDS Pt3Cdev, Sequences

CONSTANTS
  Checker,   (* the processes that run checksignal, which sets             *)
             (* tune_persistent; the others run recpt1, which clears it    *)
  BsDev,     (* bsdev: the satellite devices in the order tune tries them  *)
  IsdbTDev,  (* isdb_t_dev                                                 *)
  MaxTunes   (* how often tune is called, by all processes (a bound)       *)

ASSUME ProgramAssumption ==
  /\ Checker \subseteq User
  /\ BsDev \in Seq(SatCh) /\ IsdbTDev \in Seq(TerCh)
  /\ MaxTunes \in Nat

VARIABLES
  pc,        (* where in tune or close_tuner a process is                  *)
  table,     (* tdata->table->type                                         *)
  todo,      (* the devices tune has still to try                          *)
  next,      (* where the process goes after close_tuner                   *)
  ntunes,    (* tunes begun                                                *)
  excused    (* history: since the LNB was last off, a satellite user went *)
             (* without LNB_DISABLE, or two were leaving at the same time  *)

uvars == <<pc, table, todo, next, ntunes, excused>>
allVars == <<valid, asleep, dma, lnb, devLock, bigLock, call, chan, seen, late, served,
             pc, table, todo, next, ntunes, excused>>

(*   idle                 the process is not running                       *)
(*   open, opening        in open(), about to try a device or inside       *)
(*   enable, enabling     LNB_ENABLE                                       *)
(*   tune                 SET_CHANNEL                                      *)
(*   start, run           START_REC, recording (or checking the signal)    *)
(*   disable, disabling   close_tuner, LNB_DISABLE                         *)
(*   close, closing       close()                                          *)
Where == {"idle", "open", "opening", "enable", "enabling", "tune", "start", "run",
          "disable", "disabling", "close", "closing"}

Devices(type) == IF type = "satellite" THEN BsDev ELSE IsdbTDev
OtherType(type) == IF type = "satellite" THEN "ground" ELSE "satellite"

RInit ==
  /\ Init
  /\ pc = [u \in User |-> "idle"]
  /\ table = [u \in User |-> "ground"]
  /\ todo = [u \in User |-> <<>>]
  /\ next = [u \in User |-> "idle"]
  /\ ntunes = 0
  /\ excused = FALSE

Goto(u, from, to) == pc[u] = from /\ pc' = [pc EXCEPT ![u] = to]

-----------------------------------------------------------------------------
(* tune *)

(* tune is called from main: with a device ("case 1"), which is of the     *)
(* channel's kind, or without ("case 2").                                  *)
Begin(u) ==
  /\ ntunes < MaxTunes
  /\ Goto(u, "idle", "open")
  /\ ntunes' = ntunes + 1
  /\ \E type \in {"satellite", "ground"} :
       /\ table' = [table EXCEPT ![u] = type]
       /\ \E devs \in {Devices(type)} \union {<<Devices(type)[i]>> : i \in DOMAIN Devices(type)} :
            todo' = [todo EXCEPT ![u] = devs]
  /\ UNCHANGED <<vars, next, excused>>

(* The next device is in use. *)
TryBusy(u) ==
  /\ pc[u] = "open" /\ todo[u] # <<>>
  /\ OpenBusy(u, Head(todo[u]))
  /\ todo' = [todo EXCEPT ![u] = Tail(@)]
  /\ UNCHANGED <<pc, table, next, ntunes, excused>>

TryOpen(u) ==
  /\ Goto(u, "open", "opening") /\ todo[u] # <<>>
  /\ OpenEnter(u, Head(todo[u]))
  /\ todo' = [todo EXCEPT ![u] = Tail(@)]
  /\ UNCHANGED <<table, next, ntunes, excused>>

Wake(u) == OpenWake(u) /\ UNCHANGED uvars

Opened(u) ==
  /\ Goto(u, "opening", IF table[u] = "satellite" THEN "enable" ELSE "tune")
  /\ OpenMark(u)
  /\ UNCHANGED <<table, todo, next, ntunes, excused>>

(* "all tuners cannot be used": main returns; after mq_recv's call nothing *)
(* is open for main to close.                                              *)
NoTuner(u) ==
  /\ Goto(u, "open", "idle") /\ todo[u] = <<>>
  /\ UNCHANGED <<vars, table, todo, next, ntunes, excused>>

(* "power on LNB": the ioctl succeeds whether or not it changes anything. *)
Enable(u) ==
  \/ /\ Goto(u, "enable", "enabling")
     /\ LnbCount(u, "enable")
     /\ UNCHANGED <<table, todo, next, ntunes, excused>>
  \/ /\ Goto(u, "enabling", "tune")
     /\ LnbSet(u)
     /\ UNCHANGED <<table, todo, next, ntunes, excused>>

(* "tune to specified channel" *)
Tuned(u) ==
  /\ Goto(u, "tune", IF u \in Checker THEN "run" ELSE "start")
  /\ SetChannel(u)
  /\ UNCHANGED <<table, todo, next, ntunes, excused>>

(* Without tune_persistent the device is closed, not by close_tuner, and   *)
(* the next one tried (with an explicit device none is left).              *)
NotTuned(u) ==
  /\ u \notin Checker
  /\ Goto(u, "tune", "close")
  /\ SetChannel(u)
  /\ next' = [next EXCEPT ![u] = "open"]
  /\ excused' = (excused \/ table[u] = "satellite")
  /\ UNCHANGED <<table, todo, ntunes>>

(* With it close_tuner is called after MAX_RETRY attempts, which go on to  *)
(* the next device, or on f_exit, which ends tune.                         *)
GiveUp(u) ==
  /\ u \in Checker
  /\ Goto(u, "tune", "disable")
  /\ SetChannel(u)
  /\ \E n \in {"open", "idle"} : next' = [next EXCEPT ![u] = n]
  /\ UNCHANGED <<table, todo, ntunes, excused>>

-----------------------------------------------------------------------------
(* What comes after tune. *)

Start(u) ==
  /\ Goto(u, "start", "run")
  /\ SetEnabled(u, TRUE)
  /\ UNCHANGED <<table, todo, next, ntunes, excused>>

(* The end of the recording: STOP_REC, in the end close_tuner. *)
Finish(u) ==
  /\ Goto(u, "run", "disable")
  /\ IF u \in Checker THEN UNCHANGED vars ELSE SetEnabled(u, FALSE)
  /\ next' = [next EXCEPT ![u] = "idle"]
  /\ UNCHANGED <<table, todo, ntunes, excused>>

(* mq_recv is asked for a channel of the other band: tdata->table is       *)
(* replaced first, and close_tuner goes by the new one.                    *)
Reband(u) ==
  /\ u \notin Checker /\ ntunes < MaxTunes
  /\ Goto(u, "run", "disable")
  /\ SetEnabled(u, FALSE)
  /\ table' = [table EXCEPT ![u] = OtherType(@)]
  /\ todo' = [todo EXCEPT ![u] = Devices(OtherType(table[u]))]
  /\ next' = [next EXCEPT ![u] = "open"]
  /\ ntunes' = ntunes + 1
  /\ excused' = (excused \/ table[u] = "satellite")

(* Mutant: the file of a process that is killed is forgotten. *)
KilledUnclosed(u) ==
  /\ call[u] = "none" /\ chan[u] # NoChan
  /\ pc[u] \in {"enable", "tune", "start", "run", "disable"}
  /\ pc' = [pc EXCEPT ![u] = "idle"]
  /\ chan' = [chan EXCEPT ![u] = NoChan]
  /\ UNCHANGED <<boardVars, lockVars, call, seen, history, table, todo, next, ntunes, excused>>

(* The process is killed, or main returns because of a wrong argument that *)
(* it reads after tune: the kernel closes the file.                        *)
Killed(u) ==
  /\ call[u] = "none" /\ chan[u] # NoChan
  /\ pc[u] \in {"enable", "tune", "start", "run", "disable"}
  /\ pc' = [pc EXCEPT ![u] = "close"]
  /\ next' = [next EXCEPT ![u] = "idle"]
  /\ excused' = (excused \/ chan[u] \in SatCh)
  /\ UNCHANGED <<vars, table, todo, ntunes>>

-----------------------------------------------------------------------------
(* close_tuner *)

(* Another satellite user has asked for its LNB to be switched off and is  *)
(* still counted.                                                          *)
Leaving(v) == chan[v] \in SatCh /\ pc[v] \in {"disabling", "close"}

Disable(u) ==
  \/ /\ table[u] = "satellite"
     /\ Goto(u, "disable", "disabling")
     /\ LnbCount(u, "disable")
     /\ excused' = (excused \/ \E v \in User \ {u} : Leaving(v))
     /\ UNCHANGED <<table, todo, next, ntunes>>
  \/ /\ Goto(u, "disabling", "close")
     /\ LnbSet(u)
     /\ excused' = (excused /\ lnb')
     /\ UNCHANGED <<table, todo, next, ntunes>>
  \/ /\ table[u] = "ground"
     /\ Goto(u, "disable", "close")
     /\ UNCHANGED <<vars, table, todo, next, ntunes, excused>>

CloseDev(u) ==
  \/ /\ Goto(u, "close", "closing")
     /\ Release(u)
     /\ UNCHANGED <<table, todo, next, ntunes, excused>>
  \/ /\ Goto(u, "closing", next[u])
     /\ ReleaseSleep(u)
     /\ UNCHANGED <<table, todo, next, ntunes, excused>>

-----------------------------------------------------------------------------

Tune(u) == \/ Begin(u) \/ TryBusy(u) \/ TryOpen(u) \/ Wake(u) \/ Opened(u) \/ NoTuner(u)
           \/ Enable(u) \/ Tuned(u) \/ NotTuned(u) \/ GiveUp(u)

RNext == \E u \in User : \/ Tune(u) \/ Start(u) \/ Finish(u) \/ Reband(u) \/ Killed(u)
                         \/ Disable(u) \/ CloseDev(u)

RSpec == RInit /\ [][RNext]_allVars

-----------------------------------------------------------------------------

RTypeOK ==
  /\ TypeOK
  /\ pc \in [User -> Where]
  /\ table \in [User -> {"satellite", "ground"}]
  /\ todo \in [User -> Seq(Channel)]
  /\ next \in [User -> {"idle", "open"}]
  /\ ntunes \in 0 .. MaxTunes
  /\ excused \in BOOLEAN

(* The processes use the driver by its calls only: whatever is true of the *)
(* driver under any callers is true here.                                  *)
UsesDriver == Spec

(* When the last satellite user has gone the LNB is off, unless somebody   *)
(* left without LNB_DISABLE (killed, a failed SET_CHANNEL, a change of     *)
(* band) or two left at the same time and each counted the other.          *)
LnbOffAfterUse ==
  (\A u \in User : chan[u] \notin SatCh) => ~lnb \/ excused

(* "power on LNB" (recpt1core.c:391): after LNB_ENABLE has succeeded the   *)
(* LNB is on while the channel is tuned.                                   *)
PowerOn ==
  \A u \in User : pc[u] = "tune" /\ table[u] = "satellite" => lnb
=============================================================================
