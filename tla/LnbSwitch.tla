----------------------------- MODULE LnbSwitch ------------------------------
(* ptx_common: one power supply for the antenna's converter (LNB), shared by *)
(* the adapters of a board.  Every frontend thread that wakes or sleeps its  *)
(* adapter looks at all adapters, and writes the board's register when the   *)
(* answer differs from lnbON.  No lock is held.                              *)
EXTENDS Integers

CONSTANTS
  Adaps,      \* the adapters are numbered 1 .. Adaps
  Sats        \* those that receive satellite
ASSUME LnbSwitchAssumption == Adaps \in Nat /\ Sats \subseteq 1..Adaps

VARIABLES
  fe,         \* adapters registered so far, in their order
  ON,         \* adap->ON
  lnbON,      \* card->lnbON
  reg,        \* what the register was last told; "unknown" after power-up
  step,       \* the call of each thread; 0 is the thread that probes
  raced       \* two calls have overlapped, and none alone has mended it
lsVars == <<fe, ON, lnbON, reg, step, raced>>

Threads == 0..Adaps
Idle == [at |-> "idle", lnb |-> FALSE]
Busy(t) == step[t] # Idle
Quiet == \A t \in Threads : ~Busy(t)

\* kzalloc, and lnbON = true: the first adapter's sleep turns the LNB off.
LsInit ==
  /\ fe = 0 /\ ON = [i \in 1..Adaps |-> FALSE] /\ lnbON = TRUE /\ reg = "unknown"
  /\ step = [t \in Threads |-> Idle] /\ raced = FALSE

Told(b) == IF b THEN "on" ELSE "off"

\* The first assignment of a call of ptx_wakeup or ptx_sleep.
Begins(t, i, on) ==
  /\ ON' = [ON EXCEPT ![i] = on]
  /\ step' = [step EXCEPT ![t] = [at |-> "scan", lnb |-> FALSE]]
  /\ raced' = IF Quiet THEN raced /\ reg # Told(lnbON) ELSE TRUE
  /\ UNCHANGED <<lnbON, reg>>

\* ptx_register_adap: the frontend, then ptx_sleep of it.
RegisterAdap ==
  /\ ~Busy(0) /\ fe < Adaps
  /\ fe' = fe + 1 /\ Begins(0, fe + 1, FALSE)
\* The core opens and closes a frontend in that frontend's thread.
PtxWakeup(i) == ~Busy(i) /\ i <= fe /\ ~ON[i] /\ Begins(i, i, TRUE) /\ UNCHANGED fe
PtxSleep(i) == ~Busy(i) /\ i <= fe /\ ON[i] /\ Begins(i, i, FALSE) /\ UNCHANGED fe

\* ptx_lnb: the scan stops at the first adapter without a frontend.
Needed == \E i \in Sats : i <= fe /\ ON[i]
Scan(t) ==
  /\ step[t].at = "scan"
  /\ step' = [step EXCEPT ![t] = [at |-> "compare", lnb |-> Needed]]
  /\ UNCHANGED <<fe, ON, lnbON, reg, raced>>
Compare(t) ==
  /\ step[t].at = "compare"
  /\ step' = [step EXCEPT ![t] = IF lnbON # @.lnb THEN [@ EXCEPT !.at = "write"] ELSE Idle]
  /\ UNCHANGED <<fe, ON, lnbON, reg, raced>>
\* pt3_lnb, pxq3pe_lnb.
Write(t) ==
  /\ step[t].at = "write"
  /\ reg' = Told(step[t].lnb)
  /\ step' = [step EXCEPT ![t].at = "store"]
  /\ UNCHANGED <<fe, ON, lnbON, raced>>
\* A bug: what was written is not remembered.
StoreNothing(t) ==
  /\ step[t].at = "store"
  /\ step' = [step EXCEPT ![t] = Idle]
  /\ UNCHANGED <<fe, ON, lnbON, reg, raced>>
Store(t) ==
  /\ step[t].at = "store"
  /\ lnbON' = step[t].lnb
  /\ step' = [step EXCEPT ![t] = Idle]
  /\ UNCHANGED <<fe, ON, reg, raced>>

LsNext ==
  \/ RegisterAdap
  \/ \E i \in 1..Adaps : PtxWakeup(i) \/ PtxSleep(i)
  \/ \E t \in Threads : Scan(t) \/ Compare(t) \/ Write(t) \/ Store(t)
LsSpec == LsInit /\ [][LsNext]_lsVars

\* Between calls the LNB has power exactly when a satellite adapter is awake,
\* and lnbON says so, unless calls overlapped: then one sleeping thread that
\* looked too early turns off what another has just needed.  The next call
\* that runs alone mends it, except when register and lnbON have parted.
LnbFollows == Quiet /\ fe > 0 /\ ~raced => lnbON = Needed /\ reg = Told(lnbON)
=============================================================================
