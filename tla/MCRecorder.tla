----------------------------- MODULE MCRecorder -----------------------------
(* Instances of Recorder for TLC: a queue of two slots, three reads, which *)
(* is enough for the positions to wrap and for the queue to be full with   *)
(* main waiting, and a retry limit of one wait.                            *)
EXTENDS Recorder, TLC

IpcFaults == {"signal", "write", "tune"}
LiveFaults == {"signal", "write", "malloc"}
=============================================================================
