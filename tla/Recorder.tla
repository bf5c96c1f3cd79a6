------------------------------ MODULE Recorder ------------------------------
(***************************************************************************)
(* recpt1, the recorder (apps/cdev/recpt1/recpt1.c): four threads that     *)
(* share the queue of RecQueue, the flag f_exit and the tuner.             *)
(*                                                                         *)
(*   main    reads the tuner and enqueues; ends the recording; joins       *)
(*   reader  reader_func: dequeues, decodes, writes the file               *)
(*   sig     process_signals: waits for one signal, then cleanup()         *)
(*   ipc     mq_recv: retunes or changes the recording time on request     *)
(*                                                                         *)
(* The tuner is the driver as recpt1 sees it: START_REC empties its ring,  *)
(* STOP_REC leaves what the ring holds readable, a read of an empty ring   *)
(* times out and returns 0.  Decoding and splitting are part of writing.   *)
(***************************************************************************)
EXTENDS RecQueue

CONSTANTS
  MaxRetry,  (* retry_count above which enqueue and dequeue give up: 60  *)
  RingCap,   (* how many reads the driver's ring can hold                *)
  MaxMsgs,   (* how many recpt1ctl messages arrive (a bound)             *)
  Faults     (* which of AllFaults may happen                            *)

AllFaults == {"signal", "write", "malloc", "tune"}

ASSUME RetryAssumption == MaxRetry \in Nat
ASSUME EnvAssumption == RingCap \in Nat /\ MaxMsgs \in Nat /\ Faults \subseteq AllFaults

VARIABLES
  f_exit,    (* the global that tells every thread to finish             *)
  \* main
  main,      (* where main is                                            *)
  mbuf,      (* the pointer main passes to enqueue                       *)
  mret,      (* where main goes on after enqueue                         *)
  mretry,    (* retry_count in enqueue                                   *)
  over,      (* the recording time was over when main last sampled it    *)
  \* reader
  reader, rbuf, rretry,
  \* sig
  sig, pending,
  \* ipc
  ipc,
  reband,    (* the message's channel is of the other band (table->type  *)
             (* # current_type)                                          *)
  msqid,     (* the message queue exists                                 *)
  nmsg,      (* messages received so far                                 *)
  \* tuner, thread_data and clock
  open,      (* tfd # -1                                                 *)
  rec,       (* the driver's DMA is running                              *)
  ring,      (* reads the driver's ring would satisfy                    *)
  timeup,    (* recsec seconds have passed since start_time              *)
  \* history
  nread,     (* buffers read from the tuner                              *)
  written,   (* buffers written, in order                                *)
  failed,    (* the buffer whose write failed: none or one               *)
  dropped,   (* buffers enqueue gave up on                               *)
  quit,      (* how reader_func came to its end: see Quits               *)
  cause,     (* what set f_exit first                                    *)
  stopping,  (* main has gone on to read the remaining data              *)
  again      (* the last buffer was written again, from freed memory     *)

mvars == <<main, mbuf, mret, mretry, over>>
rvars == <<reader, rbuf, rretry>>
svars == <<sig, pending>>
ivars == <<ipc, reband, msqid, nmsg>>
tvars == <<open, rec, ring>>
hvars == <<nread, written, failed, dropped, quit, stopping, again>>
xvars == <<f_exit, cause>>
vars == <<qvars, mvars, rvars, svars, ivars, tvars, timeup, hvars, xvars>>

MainAt == {"start", "top", "read", "enqueue", "enqwait", "check", "stop", "drain",
           "end", "rmid", "kill", "joinR", "joinS", "joinI", "close", "done", "aborted"}
ReaderAt == {"dequeue", "deqwait", "process", "check", "flush", "done"}
SigAt == {"sigwait", "stop", "exit", "done"}
IpcAt == {"msgrcv", "stop", "remainder", "reopen", "tune", "setch", "restart", "time", "done"}

Quits == {"none",    (* it has not                                        *)
          "null",    (* dequeue handed it the NULL that main queued       *)
          "idle",    (* dequeue gave up on an empty queue                 *)
          "late",    (* dequeue gave up although the queue had filled     *)
          "flush"}   (* by the "normal exit" of the loop                  *)

Running == main \notin {"done", "aborted"}

(* A thread is somewhere: not once the process has ended. *)
Reader(at) == Running /\ reader = at
Sig(at) == Running /\ sig = at
Ipc(at) == Running /\ ipc = at

(* f_exit = TRUE. *)
SetExit(why) ==
  /\ f_exit' = TRUE
  /\ cause' = IF f_exit THEN cause ELSE why

Init ==
  /\ create_queue
  /\ f_exit = FALSE /\ cause = "none"
  /\ main = "start" /\ mbuf = NULL /\ mret = "check" /\ mretry = 0 /\ over = FALSE
  /\ reader = "dequeue" /\ rbuf = NULL /\ rretry = 0
  /\ sig = "sigwait" /\ pending = {}
  /\ ipc = "msgrcv" /\ reband = FALSE /\ msqid = TRUE /\ nmsg = 0
  /\ open = TRUE /\ rec = FALSE /\ ring = 0
  /\ timeup = FALSE
  /\ nread = 0 /\ written = <<>> /\ failed = <<>> /\ dropped = {}
  /\ quit = "none" /\ stopping = FALSE /\ again = FALSE

-----------------------------------------------------------------------------
(* The driver, and the clock.                                              *)

(* The DMA fills the driver's ring while it runs. *)
Stream ==
  /\ Running
  /\ rec
  /\ ring < RingCap
  /\ nread + ring < MaxRead
  /\ ring' = ring + 1
  /\ UNCHANGED <<qvars, mvars, rvars, svars, ivars, open, rec, timeup, hvars, xvars>>

(* The recording time passes.  An indefinite recording never sees this.    *)
Tick ==
  /\ Running
  /\ main # "start"
  /\ ~timeup
  /\ timeup' = TRUE
  /\ UNCHANGED <<qvars, mvars, rvars, svars, ivars, tvars, hvars, xvars>>

(* START_REC: pt3_dma_set_enabled(1) empties the ring. *)
StartRec ==
  /\ open
  /\ rec' = TRUE
  /\ ring' = 0
  /\ UNCHANGED open

StopRec ==
  /\ rec' = FALSE
  /\ UNCHANGED <<open, ring>>

(* close_tuner; what it does to the LNB is not modelled here. *)
CloseTuner ==
  /\ open' = FALSE
  /\ rec' = FALSE
  /\ ring' = 0

-----------------------------------------------------------------------------
(* enqueue(p_queue, mbuf), which main calls and which returns to mret.     *)

\* A full queue is not noticed: the oldest buffer is overwritten.
EnqueueOverwrites ==
  /\ main = "enqueue"
  /\ IF num_avail # 0
     THEN Put(mbuf)
     ELSE /\ buffer' = [buffer EXCEPT ![in] = mbuf]
          /\ in' = (in + 1) % Size
          /\ UNCHANGED <<out, num_avail, num_used>>
  /\ main' = mret
  /\ mbuf' = NULL
  /\ UNCHANGED <<mret, mretry, over, rvars, svars, ivars, tvars, timeup, hvars, xvars>>

(* Lock; room: the item goes in.  No room: wait. *)
Enqueue ==
  /\ main = "enqueue"
  /\ IF num_avail # 0
     THEN /\ Put(mbuf)
          /\ main' = mret
          /\ mbuf' = NULL
     ELSE /\ main' = "enqwait"
          /\ UNCHANGED <<qvars, mbuf>>
  /\ UNCHANGED <<mret, mretry, over, rvars, svars, ivars, tvars, timeup, hvars, xvars>>

(* pthread_cond_timedwait returns, signalled or after a second.  When      *)
(* f_exit is set the item is given up, with or without room.               *)
EnqWake ==
  /\ main = "enqwait"
  /\ IF mretry + 1 > MaxRetry THEN SetExit("retry") ELSE UNCHANGED xvars
  /\ \/ /\ f_exit'
        /\ main' = mret
        /\ mbuf' = NULL
        /\ mretry' = 0
        /\ dropped' = dropped \cup ({mbuf} \ {NULL})
        /\ UNCHANGED qvars
     \/ /\ ~f_exit'
        /\ num_avail # 0
        /\ Put(mbuf)
        /\ main' = mret
        /\ mbuf' = NULL
        /\ mretry' = 0
        /\ UNCHANGED dropped
     \/ /\ ~f_exit'
        /\ num_avail = 0
        /\ mretry' = mretry + 1
        /\ UNCHANGED <<qvars, main, mbuf, dropped>>
  /\ UNCHANGED <<mret, over, rvars, svars, ivars, tvars, timeup,
                 nread, written, failed, quit, stopping, again>>

-----------------------------------------------------------------------------
(* main, from START_REC to the joins.                                      *)

(* START_REC, then time(&start_time).  A failure ends the process. *)
MainStart ==
  /\ main = "start"
  /\ IF open
     THEN StartRec /\ main' = "top"
     ELSE UNCHANGED tvars /\ main' = "aborted"
  /\ UNCHANGED <<qvars, mbuf, mret, mretry, over, rvars, svars, ivars, timeup, hvars, xvars>>

\* The loop does not look at f_exit.
MainTopNoExit ==
  /\ main = "top"
  /\ over' = timeup
  /\ main' = "read"
  /\ UNCHANGED <<qvars, mbuf, mret, mretry, rvars, svars, ivars, tvars, timeup, hvars, xvars>>

(* Top of the loop: f_exit, the clock, malloc. *)
MainTop ==
  /\ main = "top"
  /\ \/ /\ f_exit
        /\ main' = "rmid"
        /\ UNCHANGED <<over, xvars>>
     \/ /\ ~f_exit
        /\ over' = timeup
        /\ \/ main' = "read" /\ UNCHANGED xvars
           \/ "malloc" \in Faults /\ main' = "rmid" /\ SetExit("malloc")
  /\ UNCHANGED <<qvars, mbuf, mret, mretry, rvars, svars, ivars, tvars, timeup, hvars>>

(* read(tfd) delivers a buffer, which goes to enqueue. *)
ReadBuffer(from, to) ==
  /\ main = from
  /\ open /\ ring > 0
  /\ ring' = ring - 1
  /\ nread' = nread + 1
  /\ mbuf' = nread + 1
  /\ mret' = to
  /\ main' = "enqueue"
  /\ UNCHANGED <<qvars, mretry, over, rvars, svars, ivars, open, rec, timeup,
                 written, failed, dropped, quit, stopping, again, xvars>>

(* read(tfd) times out or fails. *)
ReadNothing == ~open \/ ring = 0

MainRead == ReadBuffer("read", "check")

(* Nothing read: over, as sampled before the read, says whether to finish. *)
MainReadNothing ==
  /\ main = "read"
  /\ ReadNothing
  /\ main' = IF over THEN "end" ELSE "top"
  /\ UNCHANGED <<qvars, mbuf, mret, mretry, over, rvars, svars, ivars, tvars, timeup, hvars, xvars>>

(* After enqueue: is the recording time over? *)
MainCheck ==
  /\ main = "check"
  /\ main' = IF timeup THEN "stop" ELSE "top"
  /\ UNCHANGED <<qvars, mbuf, mret, mretry, over, rvars, svars, ivars, tvars, timeup, hvars, xvars>>

(* STOP_REC (which fails without effect on a closed tuner). *)
MainStop ==
  /\ main = "stop"
  /\ StopRec
  /\ stopping' = TRUE
  /\ main' = "drain"
  /\ UNCHANGED <<qvars, mbuf, mret, mretry, over, rvars, svars, ivars, timeup,
                 nread, written, failed, dropped, quit, again, xvars>>

(* "read remaining data", until a read yields nothing. *)
MainDrain == ReadBuffer("drain", "drain")

MainDrainNothing ==
  /\ main = "drain"
  /\ ReadNothing
  /\ main' = "end"
  /\ UNCHANGED <<qvars, mbuf, mret, mretry, over, rvars, svars, ivars, tvars, timeup, hvars, xvars>>

MainDrainMalloc ==
  /\ main = "drain"
  /\ "malloc" \in Faults
  /\ SetExit("malloc")
  /\ main' = "rmid"
  /\ UNCHANGED <<qvars, mbuf, mret, mretry, over, rvars, svars, ivars, tvars, timeup, hvars>>

(* f_exit = TRUE; enqueue(p_queue, NULL). *)
MainEnd ==
  /\ main = "end"
  /\ SetExit("time")
  /\ mbuf' = NULL
  /\ mret' = "rmid"
  /\ main' = "enqueue"
  /\ UNCHANGED <<qvars, mretry, over, rvars, svars, ivars, tvars, timeup, hvars>>

\* The message queue is left behind.
MainNoRmid ==
  /\ main = "rmid"
  /\ main' = "kill"
  /\ UNCHANGED <<qvars, mbuf, mret, mretry, over, rvars, svars, ivars, tvars,
                 timeup, hvars, xvars>>

(* msgctl(IPC_RMID) ends a blocked msgrcv. *)
MainRmid ==
  /\ main = "rmid"
  /\ msqid' = FALSE
  /\ main' = "kill"
  /\ UNCHANGED <<qvars, mbuf, mret, mretry, over, rvars, svars, ipc, reband, nmsg, tvars,
                 timeup, hvars, xvars>>

(* pthread_kill(signal_thread, SIGUSR1). *)
MainKill ==
  /\ main = "kill"
  /\ pending' = pending \cup {"SIGUSR1"}
  /\ main' = "joinR"
  /\ UNCHANGED <<qvars, mbuf, mret, mretry, over, rvars, sig, ivars, tvars, timeup, hvars, xvars>>

(* The three joins, in this order. *)
MainJoin ==
  /\ \/ main = "joinR" /\ reader = "done" /\ main' = "joinS"
     \/ main = "joinS" /\ sig = "done"    /\ main' = "joinI"
     \/ main = "joinI" /\ ipc = "done"    /\ main' = "close"
  /\ UNCHANGED <<qvars, mbuf, mret, mretry, over, rvars, svars, ivars, tvars, timeup, hvars, xvars>>

(* close_tuner, destroy_queue and the rest of the way out. *)
MainClose ==
  /\ main = "close"
  /\ CloseTuner
  /\ main' = "done"
  /\ UNCHANGED <<qvars, mbuf, mret, mretry, over, rvars, svars, ivars, timeup, hvars, xvars>>

MainStep ==
  \/ MainStart \/ MainTop \/ MainRead \/ MainReadNothing \/ Enqueue \/ EnqWake
  \/ MainCheck \/ MainStop \/ MainDrain \/ MainDrainNothing \/ MainDrainMalloc
  \/ MainEnd \/ MainRmid \/ MainKill \/ MainJoin \/ MainClose

-----------------------------------------------------------------------------
(* reader_func.                                                            *)

(* The pointer dequeue took: NULL ends the thread. *)
GotItem ==
  /\ Take
  /\ rbuf' = Oldest
  /\ reader' = IF Oldest = NULL THEN "done" ELSE "process"
  /\ quit' = IF Oldest = NULL THEN "null" ELSE quit

(* dequeue(p_queue): lock; an item: take it; no item: wait. *)
Dequeue ==
  /\ Reader("dequeue")
  /\ IF num_used # 0
     THEN GotItem
     ELSE /\ reader' = "deqwait"
          /\ UNCHANGED <<qvars, rbuf, quit>>
  /\ UNCHANGED <<rretry, mvars, svars, ivars, tvars, timeup, xvars,
                 nread, written, failed, dropped, stopping, again>>

(* pthread_cond_timedwait returns, signalled or after a second.  With      *)
(* f_exit set dequeue returns NULL, and does not look at the queue first.  *)
DeqWake ==
  /\ Reader("deqwait")
  /\ IF rretry + 1 > MaxRetry THEN SetExit("retry") ELSE UNCHANGED xvars
  /\ \/ /\ f_exit'
        /\ reader' = "done"
        /\ quit' = IF num_used = 0 THEN "idle" ELSE "late"
        /\ rretry' = 0
        /\ UNCHANGED <<qvars, rbuf>>
     \/ /\ ~f_exit'
        /\ num_used # 0
        /\ GotItem
        /\ rretry' = 0
     \/ /\ ~f_exit'
        /\ num_used = 0
        /\ rretry' = rretry + 1
        /\ UNCHANGED <<qvars, reader, rbuf, quit>>
  /\ UNCHANGED <<mvars, svars, ivars, tvars, timeup,
                 nread, written, failed, dropped, stopping, again>>

\* A failing write signals nobody.
ProcessSilent ==
  /\ Reader("process")
  /\ \/ /\ written' = Append(written, rbuf)
        /\ UNCHANGED failed
     \/ /\ "write" \in Faults
        /\ failed' = Append(failed, rbuf)
        /\ UNCHANGED written
  /\ rbuf' = NULL
  /\ reader' = "check"
  /\ UNCHANGED <<qvars, mvars, rretry, svars, ivars, tvars, timeup, xvars,
                 nread, dropped, quit, stopping, again>>

(* Decode, split, write.  A failing write sends a signal to sig. *)
Process ==
  /\ Reader("process")
  /\ \/ /\ written' = Append(written, rbuf)
        /\ UNCHANGED <<failed, pending>>
     \/ /\ "write" \in Faults
        /\ failed' = Append(failed, rbuf)
        /\ pending' = pending \cup {"SIGUSR2"}
        /\ UNCHANGED written
  /\ rbuf' = NULL
  /\ reader' = "check"
  /\ UNCHANGED <<qvars, mvars, rretry, sig, ivars, tvars, timeup, xvars,
                 nread, dropped, quit, stopping, again>>

\* The loop ends as soon as f_exit is set, whatever the queue still holds.
LoopCheckEager ==
  /\ Reader("check")
  /\ reader' = IF f_exit \/ failed # <<>> THEN "flush" ELSE "dequeue"
  /\ UNCHANGED <<qvars, mvars, rbuf, rretry, svars, ivars, tvars, timeup, hvars, xvars>>

(* "normal exit": f_exit and num_used, read without the mutex; or file_err *)
LoopCheck ==
  /\ Reader("check")
  /\ reader' = IF (f_exit /\ num_used = 0) \/ failed # <<>> THEN "flush" ELSE "dequeue"
  /\ UNCHANGED <<qvars, mvars, rbuf, rretry, svars, ivars, tvars, timeup, hvars, xvars>>

(* "normal exit": b25_finish and, unless a write has failed, a last write, *)
(* which may fail and signal too.  Without a decoder, or when b25_finish   *)
(* fails, it writes the buffer that Process has written and freed.         *)
Flush ==
  /\ Reader("flush")
  /\ \/ UNCHANGED <<pending, again>>
     \/ failed = <<>> /\ again' = TRUE /\ UNCHANGED pending
     \/ /\ "write" \in Faults /\ failed = <<>>
        /\ pending' = pending \cup {"SIGUSR2"}
        /\ UNCHANGED again
  /\ reader' = "done"
  /\ quit' = "flush"
  /\ UNCHANGED <<qvars, mvars, rbuf, rretry, sig, ivars, tvars, timeup, xvars,
                 nread, written, failed, dropped, stopping>>

ReaderStep == Dequeue \/ DeqWake \/ Process \/ LoopCheck \/ Flush

-----------------------------------------------------------------------------
(* process_signals.  All signals are blocked elsewhere, so they wait here. *)

(* SIGINT, SIGTERM from outside. *)
SigExternal ==
  /\ "signal" \in Faults
  /\ Sig("sigwait")
  /\ pending' = pending \cup {"SIGINT"}
  /\ UNCHANGED <<qvars, mvars, rvars, sig, ivars, tvars, timeup, hvars, xvars>>

(* sigwait returns one of the pending signals; each leads to cleanup. *)
SigWait ==
  /\ Sig("sigwait")
  /\ \E s \in pending : pending' = pending \ {s}
  /\ sig' = "stop"
  /\ UNCHANGED <<qvars, mvars, rvars, ivars, tvars, timeup, hvars, xvars>>

(* cleanup: STOP_REC ... *)
CleanupStop ==
  /\ Sig("stop")
  /\ StopRec
  /\ sig' = "exit"
  /\ UNCHANGED <<qvars, mvars, rvars, pending, ivars, timeup, hvars, xvars>>

(* ... then f_exit, and a wake-up for both waiters, who may wake anyway. *)
CleanupExit ==
  /\ Sig("exit")
  /\ SetExit("signal")
  /\ sig' = "done"
  /\ UNCHANGED <<qvars, mvars, rvars, pending, ivars, tvars, timeup, hvars>>

SigStep == SigWait \/ CleanupStop \/ CleanupExit

-----------------------------------------------------------------------------
(* mq_recv.                                                                *)

(* A message: its channel is the present one or unknown (both leave the    *)
(* tuner alone), or another one, of either band.                           *)
IpcReceive ==
  /\ Ipc("msgrcv")
  /\ msqid
  /\ nmsg < MaxMsgs
  /\ nmsg' = nmsg + 1
  /\ \/ /\ ipc' = "time"
        /\ UNCHANGED reband
     \/ /\ ipc' = "stop"
        /\ reband' \in BOOLEAN
  /\ UNCHANGED <<qvars, mvars, rvars, svars, msqid, tvars, timeup, hvars, xvars>>

(* msgrcv fails: the message queue is gone. *)
IpcRemoved ==
  /\ Ipc("msgrcv")
  /\ ~msqid
  /\ ipc' = "done"
  /\ UNCHANGED <<qvars, mvars, rvars, svars, reband, msqid, nmsg, tvars, timeup, hvars, xvars>>

(* "stop stream". *)
IpcStop ==
  /\ Ipc("stop")
  /\ StopRec
  /\ ipc' = "remainder"
  /\ UNCHANGED <<qvars, mvars, rvars, svars, reband, msqid, nmsg, timeup, hvars, xvars>>

(* "wait for remainder": num_used, polled without the mutex. *)
IpcRemainder ==
  /\ Ipc("remainder")
  /\ num_used = 0
  /\ ipc' = IF reband THEN "reopen" ELSE "setch"
  /\ UNCHANGED <<qvars, mvars, rvars, svars, reband, msqid, nmsg, tvars, timeup, hvars, xvars>>

(* "re-open device": close_tuner, which may fail to turn the LNB off and   *)
(* so end the thread, ...                                                  *)
IpcReopen ==
  /\ Ipc("reopen")
  /\ CloseTuner
  /\ ipc' = "tune" \/ ("tune" \in Faults /\ ipc' = "done")
  /\ UNCHANGED <<qvars, mvars, rvars, svars, reband, msqid, nmsg, timeup, hvars, xvars>>

(* ... and tune, whose result is ignored.  The ring of the device that     *)
(* opens holds whatever its last user left in it.                          *)
IpcTune ==
  /\ Ipc("tune")
  /\ \/ /\ open' = TRUE
        /\ ring' \in {r \in 0 .. RingCap : nread + r <= MaxRead}
     \/ /\ "tune" \in Faults
        /\ UNCHANGED <<open, ring>>
  /\ ipc' = "restart"
  /\ UNCHANGED <<qvars, mvars, rvars, svars, reband, msqid, nmsg, rec, timeup, hvars, xvars>>

(* "SET_CHANNEL only": on failure the stream is not started again. *)
IpcSetChannel ==
  /\ Ipc("setch")
  /\ \/ open /\ ipc' = "restart"
     \/ (~open \/ "tune" \in Faults) /\ ipc' = "time"
  /\ UNCHANGED <<qvars, mvars, rvars, svars, reband, msqid, nmsg, tvars, timeup, hvars, xvars>>

(* "restart recording": on failure the thread ends. *)
IpcRestart ==
  /\ Ipc("restart")
  /\ IF open
     THEN StartRec /\ ipc' = "time"
     ELSE UNCHANGED tvars /\ ipc' = "done"
  /\ UNCHANGED <<qvars, mvars, rvars, svars, reband, msqid, nmsg, timeup, hvars, xvars>>

(* Before main has set start_time, any total time is over. *)
TotalIsOver ==
  /\ SetExit("ipc")
  /\ UNCHANGED <<over, timeup>>

(* recsec is set to no less than the time that has passed; the two clock   *)
(* readings that are compared with it may be equal to it.                  *)
TotalIsSet ==
  /\ main # "start"
  /\ timeup' \in BOOLEAN
  /\ over' \in {o \in BOOLEAN : o => timeup'}
  /\ UNCHANGED xvars

(* recsec grows, perhaps beyond one or both of the clock readings. *)
Extended ==
  /\ timeup' \in {timeup, FALSE}
  /\ over' \in {over /\ timeup', FALSE}
  /\ UNCHANGED xvars

(* CHECK_TIME_TO_ADD, the total time, and the test of f_exit.  A message   *)
(* may also say nothing of time: that is Extended with nothing changed.    *)
IpcTime ==
  /\ Ipc("time")
  /\ TotalIsOver \/ TotalIsSet \/ Extended
  /\ ipc' = IF f_exit' THEN "done" ELSE "msgrcv"
  /\ UNCHANGED <<qvars, main, mbuf, mret, mretry, rvars, svars, reband, msqid, nmsg,
                 tvars, hvars>>

IpcStep ==
  \/ IpcReceive \/ IpcRemoved \/ IpcStop \/ IpcRemainder \/ IpcReopen
  \/ IpcTune \/ IpcSetChannel \/ IpcRestart \/ IpcTime

-----------------------------------------------------------------------------
(* The process has ended. *)
Terminated == ~Running /\ UNCHANGED vars

Next == Stream \/ Tick \/ MainStep \/ ReaderStep \/ SigExternal \/ SigStep \/ IpcStep
        \/ Terminated

Spec == Init /\ [][Next]_vars

(* The scheduler runs every thread that can run; a timed wait and a read   *)
(* return.  Nothing says that data, signals or messages come, or that the  *)
(* recording time ever passes.                                             *)
FairSpec == Spec /\ WF_vars(MainStep) /\ WF_vars(ReaderStep) /\ WF_vars(SigStep)
                 /\ WF_vars(IpcStep)

-----------------------------------------------------------------------------
FlagsOK ==
  /\ f_exit \in BOOLEAN /\ over \in BOOLEAN /\ reband \in BOOLEAN /\ msqid \in BOOLEAN
  /\ open \in BOOLEAN /\ rec \in BOOLEAN /\ timeup \in BOOLEAN
  /\ stopping \in BOOLEAN /\ again \in BOOLEAN

TypeOK ==
  /\ QTypeOK
  /\ FlagsOK
  /\ cause \in {"none", "time", "retry", "malloc", "signal", "ipc"}
  /\ main \in MainAt /\ mret \in {"check", "drain", "rmid"}
  /\ mbuf \in Item /\ mretry \in 0 .. MaxRetry
  /\ reader \in ReaderAt /\ rbuf \in Item /\ rretry \in 0 .. MaxRetry
  /\ sig \in SigAt /\ pending \subseteq {"SIGINT", "SIGUSR1", "SIGUSR2"}
  /\ ipc \in IpcAt /\ nmsg \in 0 .. MaxMsgs
  /\ ring \in 0 .. RingCap /\ nread \in 0 .. MaxRead /\ nread + ring <= MaxRead
  /\ written \in Seq(BufNo) /\ failed \in Seq(BufNo) /\ dropped \subseteq BufNo
  /\ quit \in Quits

(* From the file back to the tuner a buffer is in the file, in a failed    *)
(* write, in reader's hands, in the queue or in main's hands.              *)
Hand(p) == IF p = NULL THEN <<>> ELSE <<p>>

Way == written \o failed \o Hand(rbuf) \o Contents \o Hand(mbuf)

(* Of the buffers 1 .. n that were read, a way holds all but the lost      *)
(* ones, in the order of reading; only its last place can hold NULL.       *)
Holds(way, n, lost) ==
  /\ {way[i] : i \in DOMAIN way} \ {NULL} = (1 .. n) \ lost
  /\ \A i, j \in DOMAIN way :
       i < j => way[i] # NULL /\ (way[j] # NULL => way[i] < way[j])

(* What main has read and enqueue has not given up on is on that way:      *)
(* nothing is lost, nothing is written twice, the order is the order of    *)
(* reading, and the NULL that ends reader_func overtakes no buffer.        *)
InOrder == Holds(Way, nread, dropped)

(* A recording that ends because its time is over is complete: every       *)
(* buffer main read, those of the remaining data included, is in the file, *)
(* and nothing else is.  Three things excuse a difference: a failed write, *)
(* reader_func waking up late (the run of NullMeansEmpty shows how that    *)
(* comes about), and the second writing of the last buffer.                *)
CompleteOnTimeUp ==
  main = "done" /\ cause = "time" /\ failed = <<>> /\ quit # "late" /\ ~again
    => written = [i \in 1 .. nread |-> i]

(* However f_exit was set (a signal, a queue that stood still for a        *)
(* minute, a message, no memory), main was reading at most one buffer more *)
(* than reader_func waited for, so one buffer at most is lost.  It takes   *)
(* the reading of the remaining data, which does not look at f_exit, to    *)
(* lose more.                                                              *)
AtMostOneLost ==
  main = "done" /\ ~stopping /\ failed = <<>> /\ quit # "late"
    => nread - Len(written) <= 1

(* Once reader_func is gone nobody empties the queue.  Then f_exit tells   *)
(* main to stop, or a signal that will set it is on its way: main never    *)
(* goes on filling the queue for nobody.                                   *)
ReaderGoneIsNoticed ==
  reader = "done" => f_exit \/ sig \in {"stop", "exit"} \/ (sig = "sigwait" /\ pending # {})

(* Every cause of ending ends the process: f_exit, a failed write, the     *)
(* time being over.  No thread waits for another for ever.                 *)
Terminates == (f_exit \/ failed # <<>> \/ timeup) ~> ~Running

(* "no entry in the queue" (recpt1.c:294): reader_func ends on a null      *)
(* pointer from dequeue's wait only if nothing is left to write.           *)
NullMeansEmpty == quit # "late"

(* "normal exit" (recpt1.c:413): when the time of the recording is over    *)
(* and something was recorded without a failure, reader_func ends through  *)
(* the block that writes out the end of the decoder's stream.              *)
NormalExit ==
  reader = "done" /\ cause = "time" /\ failed = <<>> /\ written # <<>> => quit = "flush"

(* "wait for remainder" (recpt1.c:74): mq_recv's wait for reader_func to   *)
(* write what is queued comes to an end.                                   *)
RemainderEnds == ipc = "remainder" ~> ipc # "remainder"

=============================================================================
