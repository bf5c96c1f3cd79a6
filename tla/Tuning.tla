------------------------------- MODULE Tuning -------------------------------
(* One tune, as each driver does it: a program of writes and reads over I2C  *)
(* to a tuner chip and the demodulator behind it.  Any of them may fail.     *)
(* Some failures end the call, others go by unseen: pt3_dtv and the DVB      *)
(* drivers of the PT3 ignore the result of some writes, and the transfer     *)
(* function of the PX-Q3PE reports a failed last message as a success.       *)
EXTENDS Integers, Sequences

CONSTANTS
  Chs,        \* channels, numbers from 1
  SlotsOf,    \* channel -> the slots in which it carries a stream
  Slots,      \* slots a program may ask for
  MaxCalls,   \* bound: calls of tune, wake and sleep
  MaxFaults   \* bound: transfers that fail
ASSUME TuningAssumption ==
  /\ Chs \subseteq Nat \ {0} /\ SlotsOf \in [Chs -> SUBSET Slots]
  /\ MaxCalls \in Nat /\ MaxFaults \in Nat

VARIABLES
  kind,       \* the chip, and which driver drives it
  div, sd,    \* channel to which the divider and the fraction are set, 0 none
  awake,      \* the chip is not in standby
  cache,      \* channel the driver remembers (t->f_kHz, t->Hz, mx->freq)
  demod,      \* channel the demodulator is locked on, 0 none
  list,       \* channel whose stream ids were read, 0 none, -1 garbage
  sel,        \* channel and slot of the stream the demodulator lets pass
  todo,       \* rest of the program
  ask,        \* channel and slot it was called for, NoSlot for a wake or sleep
  res,        \* "none", "busy", "ok", "failed"
  unseen,     \* steps that failed and were taken for done
  late,       \* ids were read before the demodulator had locked
  calls, faults
tuVars == <<kind, div, sd, awake, cache, demod, list, sel, todo, ask, res, unseen, late, calls, faults>>

NoSlot == -1

\* Satellite and terrestrial tuners of pt3_dtv (qm, mx), of pxq3pe_dtv (tda,
\* nm), and of the DVB drivers.
Kinds == {"qm", "mx", "tda", "nm", "qmDvb", "mxDvb", "tdaDvb", "nmDvb"}
Sat(k) == k \in {"qm", "tda", "qmDvb", "tdaDvb"}
Sleeps(k) == k \in {"qm", "mx", "qmDvb", "mxDvb"}
Caches(k) == k \in {"tda", "nm"}

TuInit ==
  /\ kind \in Kinds
  /\ div = 0 /\ sd = 0 /\ awake = ~Sleeps(kind) /\ cache = 0
  /\ demod = 0 /\ list = 0 /\ sel = <<0, 0>>
  /\ todo = <<>> /\ ask = <<0, 0>> /\ res = "none" /\ unseen = {} /\ late = FALSE
  /\ calls = 0 /\ faults = 0

\* The channel the chip is on: both registers must agree.
Chip == IF awake /\ div = sd THEN div ELSE 0

(***************************************************************************)
(* The programs: S(op) gives up when op fails, G(op) goes on.              *)
(***************************************************************************)

S(op) == [op |-> op, strict |-> TRUE]
G(op) == [op |-> op, strict |-> FALSE]

QmProgram == <<S("agcOff"), G("band"), S("div"), S("sd"), S("cal"), S("pll"), S("agcOn")>>
QmTune == QmProgram \o <<S("ids"), S("setId"), S("getId")>>
MxRf == <<S("note"), G("abort"), G("rf"), G("rest")>>
MxTune == <<S("agcOff")>> \o MxRf \o <<G("pll"), S("agcOn"), G("lock")>>
TdaRegs == <<G("band"), S("note"), G("div"), G("sd"), G("cal"), G("pllOrSkip")>>
TdaChannel(cached) ==
  <<G("agcOff")>> \o (IF cached THEN <<>> ELSE TdaRegs)
    \o <<G("agcOn"), G("idsNow"), G("setId"), G("lock")>>
NmRegs == <<G("band"), G("div"), G("sd"), S("note")>>
NmChannel(cached) == <<G("agcOff")>> \o (IF cached THEN <<>> ELSE NmRegs) \o <<G("agcOn"), G("lock")>>
Qm1d1c004xTune == QmProgram \o <<S("select")>>
Mxl301rfTune == <<S("agcOff"), G("abort"), G("rf"), G("rest"), G("pll"), S("agcOn"), S("lock")>>
Tda2014xTune == <<G("band"), G("agcOff"), G("div"), G("sd"), G("cal"), G("pll"), G("agcOn"), S("select")>>
Nm131Tune == <<G("agcOff"), G("band"), G("div"), G("sd"), G("agcOn"), G("lock")>>
TuneProgram(ch) ==
  CASE kind = "qm" -> QmTune
    [] kind = "mx" -> MxTune
    [] kind = "tda" -> TdaChannel(cache = ch)
    [] kind = "nm" -> NmChannel(cache = ch)
    [] kind = "qmDvb" -> Qm1d1c004xTune
    [] kind = "mxDvb" -> Mxl301rfTune
    [] kind = "tdaDvb" -> Tda2014xTune
    [] kind = "nmDvb" -> Nm131Tune
SleepProgram == IF kind = "qmDvb" THEN <<S("agcOff"), S("standby")>> ELSE <<S("agcOff"), G("standby")>>
\* Waking, the MxL301RF of pt3_dtv goes back to the channel it remembers.
WakeProgram == IF kind = "qmDvb" THEN <<S("wake")>>
               ELSE IF kind = "mx" THEN <<G("wake")>> \o MxRf ELSE <<G("wake")>>

(***************************************************************************)
(* Calls.                                                                  *)
(***************************************************************************)

Begin(program, ch, slot) ==
  /\ todo = <<>> /\ calls < MaxCalls
  /\ calls' = calls + 1 /\ todo' = program /\ ask' = <<ch, slot>> /\ res' = "busy"
  /\ late' = FALSE
  /\ UNCHANGED <<kind, div, sd, awake, cache, demod, list, sel, faults>>
\* What failed unseen stays so while the registers are not written again.
Tune(ch, slot) ==
  /\ Begin(TuneProgram(ch), ch, slot)
  /\ unseen' = IF Caches(kind) /\ cache = ch THEN unseen ELSE {}
Sleep == Sleeps(kind) /\ awake /\ Begin(SleepProgram, 0, NoSlot) /\ UNCHANGED unseen
Wake == Sleeps(kind) /\ ~awake /\ Begin(WakeProgram, cache, NoSlot) /\ UNCHANGED unseen

Op == Head(todo).op
At(ops) == todo # <<>> /\ Op \in ops
Goes == /\ todo' = Tail(todo)
        /\ res' = IF Tail(todo) # <<>> THEN "busy" ELSE IF ask[1] = 0 THEN "none" ELSE "ok"
GivesUp == todo' = <<>> /\ res' = "failed"
Chipped == <<div, sd, awake>>
Kept == <<kind, ask, calls>>

\* A bug: the demodulator is not reset with its gain control.
AgcNoReset ==
  /\ At({"agcOff", "agcOn"}) /\ Goes
  /\ UNCHANGED <<Kept, Chipped, cache, demod, list, sel, unseen, late, faults>>
\* Gain control to manual or automatic, and the demodulator's reset.
Agc ==
  /\ At({"agcOff", "agcOn"}) /\ Goes
  /\ demod' = 0
  /\ UNCHANGED <<Kept, Chipped, cache, list, sel, unseen, late, faults>>
\* Registers that decide no channel.
Plain ==
  /\ At({"band", "cal", "abort", "rest"}) /\ Goes
  /\ UNCHANGED <<Kept, Chipped, cache, demod, list, sel, unseen, late, faults>>
Registers ==
  /\ At({"div", "sd", "rf"}) /\ Goes
  /\ div' = IF Op \in {"div", "rf"} THEN ask[1] ELSE div
  /\ sd' = IF Op \in {"sd", "rf"} THEN ask[1] ELSE sd
  /\ UNCHANGED <<Kept, awake, cache, demod, list, sel, unseen, late, faults>>
Note ==
  /\ At({"note"}) /\ Goes
  /\ cache' = ask[1]
  /\ UNCHANGED <<Kept, Chipped, demod, list, sel, unseen, late, faults>>
Power ==
  /\ At({"standby", "wake"}) /\ Goes
  /\ awake' = (Op = "wake")
  /\ UNCHANGED <<Kept, div, sd, cache, demod, list, sel, unseen, late, faults>>
\* The oscillator locks on whatever it is set to.
Pll ==
  /\ At({"pll", "pllOrSkip"}) /\ Chip # 0 /\ Goes
  /\ UNCHANGED <<Kept, Chipped, cache, demod, list, sel, unseen, late, faults>>
\* It does not in time: the rest of the && chain is left out, and tune of the
\* PX-Q3PE goes on behind it.
PllSkip ==
  /\ At({"pllOrSkip"})
  /\ todo' = Tail(Tail(todo)) /\ unseen' = unseen \cup {"pll"}
  /\ UNCHANGED <<Kept, Chipped, cache, demod, list, sel, res, late, faults>>
Lock ==
  /\ At({"lock"}) /\ demod # 0 /\ Goes
  /\ UNCHANGED <<Kept, Chipped, cache, demod, list, sel, unseen, late, faults>>
Ids ==
  /\ At({"ids"}) /\ demod # 0 /\ Goes
  /\ list' = demod
  /\ UNCHANGED <<Kept, Chipped, cache, demod, sel, unseen, late, faults>>
\* pxq3pe_dtv waits 150 ms, not for the lock.
IdsNow ==
  /\ At({"idsNow"}) /\ Goes
  /\ list' = demod /\ late' = (demod = 0)
  /\ UNCHANGED <<Kept, Chipped, cache, demod, sel, unseen, faults>>
Carries(ch, slot) == ch \in Chs /\ slot \in SlotsOf[ch]
\* pt3_dtv writes the id it finds in the slot, also 0; pxq3pe_dtv not 0.
SetId ==
  /\ At({"setId"}) /\ Goes
  /\ sel' = IF Carries(list, ask[2]) THEN <<list, ask[2]>>
            ELSE IF kind = "tda" /\ list # -1 THEN sel ELSE <<0, 0>>
  /\ UNCHANGED <<Kept, Chipped, cache, demod, list, unseen, late, faults>>
GetId ==
  /\ At({"getId"}) /\ Goes
  /\ UNCHANGED <<Kept, Chipped, cache, demod, list, sel, unseen, late, faults>>
\* tc90522_tune tries the ids again until the asked one is there and passes.
Select ==
  /\ At({"select"}) /\ Carries(demod, ask[2]) /\ Goes
  /\ sel' = <<demod, ask[2]>>
  /\ UNCHANGED <<Kept, Chipped, cache, demod, list, unseen, late, faults>>
\* What is waited for does not come in time.
TimesOut ==
  /\ At({"pll", "lock", "ids", "getId", "select"}) /\ GivesUp
  /\ UNCHANGED <<Kept, Chipped, cache, demod, list, sel, unseen, late, faults>>

\* A transfer fails: a register keeps its value or ends between two channels,
\* and what was read is garbage.
Fails ==
  /\ todo # <<>> /\ Op # "note" /\ faults < MaxFaults
  /\ faults' = faults + 1
  /\ IF Head(todo).strict THEN GivesUp /\ UNCHANGED unseen
     ELSE Goes /\ unseen' = unseen \cup {Op}
  /\ div' \in IF Op \in {"div", "rf"} THEN {div, 0} ELSE {div}
  /\ sd' \in IF Op \in {"sd", "rf"} THEN {sd, 0} ELSE {sd}
  /\ list' = IF Op \in {"ids", "idsNow"} THEN -1 ELSE list
  /\ UNCHANGED <<Kept, awake, cache, demod, sel, late>>

(***************************************************************************)
(* The demodulator locks on what the tuner receives, and may lose it.  It  *)
(* shows its lock on a channel left until it is reset or notices.          *)
(***************************************************************************)

Locks == demod = 0 /\ Chip # 0 /\ demod' = Chip
Loses == demod # 0 /\ demod' = 0
Signal == (Locks \/ Loses) /\ UNCHANGED <<Kept, Chipped, cache, list, sel, todo, res, unseen, late, faults>>

TuNext ==
  \/ \E ch \in Chs, slot \in Slots : Tune(ch, slot)
  \/ Sleep \/ Wake
  \/ Agc \/ Plain \/ Registers \/ Note \/ Power \/ Pll \/ PllSkip \/ Lock \/ Ids \/ IdsNow
  \/ SetId \/ GetId \/ Select \/ TimesOut \/ Fails
  \/ Signal
TuSpec == TuInit /\ [][TuNext]_tuVars

\* When a tune reports success, or an MxL301RF that was woken is back on the
\* channel it remembers, the chip is on that channel, the demodulator of the
\* tune shows no lock of another (nothing resets it after a wake), and the
\* stream it lets pass is the one asked for: unless a failure went by unseen,
\* or the ids were read before the lock.  A slot that carries nothing is
\* accepted by the character devices, and never by the DVB drivers.
TunedAsAsked ==
  res = "ok" /\ unseen \subseteq {"band"} =>
    /\ Chip = ask[1]
    /\ ask[2] # NoSlot => demod \in {0, ask[1]}
    /\ Sat(kind) => IF Carries(ask[1], ask[2]) THEN late \/ sel = ask
                    ELSE kind \in {"qm", "tda"}
=============================================================================
