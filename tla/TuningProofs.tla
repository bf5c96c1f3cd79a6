---------------------------- MODULE TuningProofs ----------------------------
(* A tune that reports success has arrived.  The proof follows the programs  *)
(* of Tuning: what each is at each of its steps, what order between its      *)
(* steps the result depends on, and that every step of every action keeps    *)
(* what the steps behind it have brought about.                              *)
EXTENDS Tuning, SequenceTheorems, TLAPS

\* The programs a driver runs: a tune, and the power of the chip.
TunePrograms ==
  CASE kind = "qm" -> {QmTune}
    [] kind = "mx" -> {MxTune}
    [] kind = "tda" -> {TdaChannel(TRUE), TdaChannel(FALSE)}
    [] kind = "nm" -> {NmChannel(TRUE), NmChannel(FALSE)}
    [] kind = "qmDvb" -> {Qm1d1c004xTune}
    [] kind = "mxDvb" -> {Mxl301rfTune}
    [] kind = "tdaDvb" -> {Tda2014xTune}
    [] kind = "nmDvb" -> {Nm131Tune}
PowerPrograms == {SleepProgram, WakeProgram}

\* The operations of a program before its step i and in all, and whether it
\* writes the channel at all.
Behind(P, i) == {P[j].op : j \in 1 .. i - 1}
All(P) == Behind(P, Len(P) + 1)
Writes(P) == \E j \in 1 .. Len(P) : P[j].op \in {"div", "rf"}

\* No failure that decides a channel went by unseen.
Flawless == unseen \subseteq {"band"}

\* Step i of program P is next.
InCall(P, i) ==
  /\ i \in 1 .. Len(P) + 1
  /\ todo = SubSeq(P, i, Len(P))
  /\ res = IF i <= Len(P) THEN "busy" ELSE IF ask[1] = 0 THEN "none" ELSE "ok"

\* What the operations b of a tune have brought about.
TuneDone(P, b) ==
  /\ "div" \in b \/ "rf" \in b \/ ~Writes(P) => div = ask[1]
  /\ "sd" \in b \/ "rf" \in b \/ ~Writes(P) => sd = ask[1]
  /\ "pll" \in b => awake
  /\ "agcOn" \in b => demod \in {0, ask[1]}
  /\ "ids" \in b \/ "idsNow" \in b => late \/ list = ask[1]
  /\ "setId" \in b => (Carries(ask[1], ask[2]) => late \/ sel = ask)
  /\ "select" \in b => sel = ask /\ Carries(ask[1], ask[2])
InTune(P, i) ==
  /\ P \in TunePrograms /\ ask \in Chs \X Slots /\ InCall(P, i)
  /\ "note" \in Behind(P, i) \/ ~Writes(P) => cache = ask[1]
  /\ Flawless => TuneDone(P, Behind(P, i))

\* And those of a sleep or wake: the MxL301RF is set again.
InPower(P, i) ==
  /\ P \in PowerPrograms /\ ask[1] \in {0, cache} /\ ask[2] = NoSlot /\ InCall(P, i)
  /\ ask[1] # 0 => kind = "mx" /\ P = WakeProgram
  /\ Flawless =>
       /\ "rf" \in Behind(P, i) => div = ask[1] /\ sd = ask[1]
       /\ "wake" \in Behind(P, i) => awake

\* A driver that remembers a channel has set it, unless a failure was unseen.
CacheTrue == Caches(kind) /\ cache # 0 /\ Flawless => div = cache /\ sd = cache
AtRest == todo = <<>> /\ res \in {"none", "failed"} /\ CacheTrue

TuneInv ==
  /\ kind \in Kinds
  /\ ~Sleeps(kind) => awake
  /\ cache # 0 => kind = "mx" \/ Caches(kind)
  /\ \/ AtRest
     \/ \E P \in TunePrograms : \E i \in 1 .. Len(P) + 1 : InTune(P, i)
     \/ Sleeps(kind) /\ \E P \in PowerPrograms : \E i \in 1 .. Len(P) + 1 : InPower(P, i)

\* The steps of programs, and a program put together of two.
OpNames == {"agcOff", "band", "div", "sd", "cal", "pll", "agcOn", "ids", "setId", "getId",
            "note", "abort", "rf", "rest", "lock", "pllOrSkip", "idsNow", "select",
            "standby", "wake"}
Steps == [op : OpNames, strict : BOOLEAN]

LEMMA StepTypes == \A op \in OpNames : S(op) \in Steps /\ G(op) \in Steps
BY DEF S, G, Steps

LEMMA Joined ==
  ASSUME NEW s \in Seq(Steps), NEW t \in Seq(Steps)
  PROVE  /\ s \o t \in Seq(Steps) /\ Len(s \o t) = Len(s) + Len(t)
         /\ \A i \in 1 .. Len(s) + Len(t) :
              (s \o t)[i] = IF i <= Len(s) THEN s[i] ELSE t[i - Len(s)]
BY ConcatProperties

LEMMA QmProgramSteps ==
  /\ QmProgram \in Seq(Steps) /\ Len(QmProgram) = 7 /\ QmProgram[1] = S("agcOff")
  /\ QmProgram[2] = G("band") /\ QmProgram[3] = S("div") /\ QmProgram[4] = S("sd")
  /\ QmProgram[5] = S("cal") /\ QmProgram[6] = S("pll") /\ QmProgram[7] = S("agcOn")
BY StepTypes DEF QmProgram, OpNames

LEMMA MxRfSteps ==
  /\ MxRf \in Seq(Steps) /\ Len(MxRf) = 4 /\ MxRf[1] = S("note") /\ MxRf[2] = G("abort")
  /\ MxRf[3] = G("rf") /\ MxRf[4] = G("rest")
BY StepTypes DEF MxRf, OpNames

LEMMA TdaRegsSteps ==
  /\ TdaRegs \in Seq(Steps) /\ Len(TdaRegs) = 6 /\ TdaRegs[1] = G("band")
  /\ TdaRegs[2] = S("note") /\ TdaRegs[3] = G("div") /\ TdaRegs[4] = G("sd")
  /\ TdaRegs[5] = G("cal") /\ TdaRegs[6] = G("pllOrSkip")
BY StepTypes DEF TdaRegs, OpNames

LEMMA NmRegsSteps ==
  /\ NmRegs \in Seq(Steps) /\ Len(NmRegs) = 4 /\ NmRegs[1] = G("band") /\ NmRegs[2] = G("div")
  /\ NmRegs[3] = G("sd") /\ NmRegs[4] = S("note")
BY StepTypes DEF NmRegs, OpNames

LEMMA Mxl301rfTuneSteps ==
  /\ Mxl301rfTune \in Seq(Steps) /\ Len(Mxl301rfTune) = 7 /\ Mxl301rfTune[1] = S("agcOff")
  /\ Mxl301rfTune[2] = G("abort") /\ Mxl301rfTune[3] = G("rf") /\ Mxl301rfTune[4] = G("rest")
  /\ Mxl301rfTune[5] = G("pll") /\ Mxl301rfTune[6] = S("agcOn") /\ Mxl301rfTune[7] = S("lock")
BY StepTypes DEF Mxl301rfTune, OpNames

LEMMA Tda2014xTuneSteps ==
  /\ Tda2014xTune \in Seq(Steps) /\ Len(Tda2014xTune) = 8 /\ Tda2014xTune[1] = G("band")
  /\ Tda2014xTune[2] = G("agcOff") /\ Tda2014xTune[3] = G("div") /\ Tda2014xTune[4] = G("sd")
  /\ Tda2014xTune[5] = G("cal") /\ Tda2014xTune[6] = G("pll") /\ Tda2014xTune[7] = G("agcOn")
  /\ Tda2014xTune[8] = S("select")
BY StepTypes DEF Tda2014xTune, OpNames

LEMMA Nm131TuneSteps ==
  /\ Nm131Tune \in Seq(Steps) /\ Len(Nm131Tune) = 6 /\ Nm131Tune[1] = G("agcOff")
  /\ Nm131Tune[2] = G("band") /\ Nm131Tune[3] = G("div") /\ Nm131Tune[4] = G("sd")
  /\ Nm131Tune[5] = G("agcOn") /\ Nm131Tune[6] = G("lock")
BY StepTypes DEF Nm131Tune, OpNames

LEMMA QmTuneSteps ==
  /\ QmTune \in Seq(Steps) /\ Len(QmTune) = 10 /\ QmTune[1] = S("agcOff")
  /\ QmTune[2] = G("band") /\ QmTune[3] = S("div") /\ QmTune[4] = S("sd")
  /\ QmTune[5] = S("cal") /\ QmTune[6] = S("pll") /\ QmTune[7] = S("agcOn")
  /\ QmTune[8] = S("ids") /\ QmTune[9] = S("setId") /\ QmTune[10] = S("getId")
<1> DEFINE s0 == QmProgram
           s1 == <<S("ids"), S("setId"), S("getId")>>
<1>1. /\ s0 \in Seq(Steps) /\ Len(s0) = 7 /\ s0[1] = S("agcOff") /\ s0[2] = G("band")
      /\ s0[3] = S("div") /\ s0[4] = S("sd") /\ s0[5] = S("cal") /\ s0[6] = S("pll")
      /\ s0[7] = S("agcOn")
  BY QmProgramSteps
<1>2. /\ s1 \in Seq(Steps) /\ Len(s1) = 3 /\ s1[1] = S("ids") /\ s1[2] = S("setId")
      /\ s1[3] = S("getId")
  BY StepTypes DEF OpNames
<1> HIDE DEF s0, s1
<1>3. /\ (s0 \o s1) \in Seq(Steps) /\ Len((s0 \o s1)) = 10 /\ (s0 \o s1)[1] = S("agcOff")
      /\ (s0 \o s1)[2] = G("band") /\ (s0 \o s1)[3] = S("div") /\ (s0 \o s1)[4] = S("sd")
      /\ (s0 \o s1)[5] = S("cal") /\ (s0 \o s1)[6] = S("pll") /\ (s0 \o s1)[7] = S("agcOn")
      /\ (s0 \o s1)[8] = S("ids") /\ (s0 \o s1)[9] = S("setId") /\ (s0 \o s1)[10] = S("getId")
  <2>1. /\ (s0 \o s1) \in Seq(Steps) /\ Len((s0 \o s1)) = Len(s0) + Len(s1)
        /\ \A i \in 1 .. Len(s0) + Len(s1) :
             (s0 \o s1)[i] = IF i <= Len(s0) THEN s0[i] ELSE s1[i - Len(s0)]
    BY <1>1, <1>2, Joined
  <2> QED
    BY <2>1, <1>1, <1>2
<1>4. QmTune = (s0 \o s1)
  BY DEF QmTune, s0, s1
<1> QED
  BY <1>3, <1>4

LEMMA Qm1d1c004xTuneSteps ==
  /\ Qm1d1c004xTune \in Seq(Steps) /\ Len(Qm1d1c004xTune) = 8
  /\ Qm1d1c004xTune[1] = S("agcOff") /\ Qm1d1c004xTune[2] = G("band")
  /\ Qm1d1c004xTune[3] = S("div") /\ Qm1d1c004xTune[4] = S("sd")
  /\ Qm1d1c004xTune[5] = S("cal") /\ Qm1d1c004xTune[6] = S("pll")
  /\ Qm1d1c004xTune[7] = S("agcOn") /\ Qm1d1c004xTune[8] = S("select")
<1> DEFINE s0 == QmProgram
           s1 == <<S("select")>>
<1>1. /\ s0 \in Seq(Steps) /\ Len(s0) = 7 /\ s0[1] = S("agcOff") /\ s0[2] = G("band")
      /\ s0[3] = S("div") /\ s0[4] = S("sd") /\ s0[5] = S("cal") /\ s0[6] = S("pll")
      /\ s0[7] = S("agcOn")
  BY QmProgramSteps
<1>2. /\ s1 \in Seq(Steps) /\ Len(s1) = 1 /\ s1[1] = S("select")
  BY StepTypes DEF OpNames
<1> HIDE DEF s0, s1
<1>3. /\ (s0 \o s1) \in Seq(Steps) /\ Len((s0 \o s1)) = 8 /\ (s0 \o s1)[1] = S("agcOff")
      /\ (s0 \o s1)[2] = G("band") /\ (s0 \o s1)[3] = S("div") /\ (s0 \o s1)[4] = S("sd")
      /\ (s0 \o s1)[5] = S("cal") /\ (s0 \o s1)[6] = S("pll") /\ (s0 \o s1)[7] = S("agcOn")
      /\ (s0 \o s1)[8] = S("select")
  <2>1. /\ (s0 \o s1) \in Seq(Steps) /\ Len((s0 \o s1)) = Len(s0) + Len(s1)
        /\ \A i \in 1 .. Len(s0) + Len(s1) :
             (s0 \o s1)[i] = IF i <= Len(s0) THEN s0[i] ELSE s1[i - Len(s0)]
    BY <1>1, <1>2, Joined
  <2> QED
    BY <2>1, <1>1, <1>2
<1>4. Qm1d1c004xTune = (s0 \o s1)
  BY DEF Qm1d1c004xTune, s0, s1
<1> QED
  BY <1>3, <1>4

LEMMA MxTuneSteps ==
  /\ MxTune \in Seq(Steps) /\ Len(MxTune) = 8 /\ MxTune[1] = S("agcOff")
  /\ MxTune[2] = S("note") /\ MxTune[3] = G("abort") /\ MxTune[4] = G("rf")
  /\ MxTune[5] = G("rest") /\ MxTune[6] = G("pll") /\ MxTune[7] = S("agcOn")
  /\ MxTune[8] = G("lock")
<1> DEFINE s0 == <<S("agcOff")>>
           s1 == MxRf
           s2 == <<G("pll"), S("agcOn"), G("lock")>>
<1>1. /\ s0 \in Seq(Steps) /\ Len(s0) = 1 /\ s0[1] = S("agcOff")
  BY StepTypes DEF OpNames
<1>2. /\ s1 \in Seq(Steps) /\ Len(s1) = 4 /\ s1[1] = S("note") /\ s1[2] = G("abort")
      /\ s1[3] = G("rf") /\ s1[4] = G("rest")
  BY MxRfSteps
<1>3. /\ s2 \in Seq(Steps) /\ Len(s2) = 3 /\ s2[1] = G("pll") /\ s2[2] = S("agcOn")
      /\ s2[3] = G("lock")
  BY StepTypes DEF OpNames
<1> HIDE DEF s0, s1, s2
<1>4. /\ (s0 \o s1) \in Seq(Steps) /\ Len((s0 \o s1)) = 5 /\ (s0 \o s1)[1] = S("agcOff")
      /\ (s0 \o s1)[2] = S("note") /\ (s0 \o s1)[3] = G("abort") /\ (s0 \o s1)[4] = G("rf")
      /\ (s0 \o s1)[5] = G("rest")
  <2>1. /\ (s0 \o s1) \in Seq(Steps) /\ Len((s0 \o s1)) = Len(s0) + Len(s1)
        /\ \A i \in 1 .. Len(s0) + Len(s1) :
             (s0 \o s1)[i] = IF i <= Len(s0) THEN s0[i] ELSE s1[i - Len(s0)]
    BY <1>1, <1>2, Joined
  <2> QED
    BY <2>1, <1>1, <1>2
<1>5. /\ ((s0 \o s1) \o s2) \in Seq(Steps) /\ Len(((s0 \o s1) \o s2)) = 8
      /\ ((s0 \o s1) \o s2)[1] = S("agcOff") /\ ((s0 \o s1) \o s2)[2] = S("note")
      /\ ((s0 \o s1) \o s2)[3] = G("abort") /\ ((s0 \o s1) \o s2)[4] = G("rf")
      /\ ((s0 \o s1) \o s2)[5] = G("rest") /\ ((s0 \o s1) \o s2)[6] = G("pll")
      /\ ((s0 \o s1) \o s2)[7] = S("agcOn") /\ ((s0 \o s1) \o s2)[8] = G("lock")
  <2>1. /\ ((s0 \o s1) \o s2) \in Seq(Steps) /\ Len(((s0 \o s1) \o s2)) = Len((s0 \o s1)) + Len(s2)
        /\ \A i \in 1 .. Len((s0 \o s1)) + Len(s2) :
             ((s0 \o s1) \o s2)[i] = IF i <= Len((s0 \o s1)) THEN (s0 \o s1)[i] ELSE s2[i - Len((s0 \o s1))]
    BY <1>4, <1>3, Joined
  <2> QED
    BY <2>1, <1>4, <1>3
<1>6. MxTune = ((s0 \o s1) \o s2)
  BY DEF MxTune, s0, s1, s2
<1> QED
  BY <1>5, <1>6

LEMMA TdaSetSteps ==
  /\ TdaChannel(FALSE) \in Seq(Steps) /\ Len(TdaChannel(FALSE)) = 11
  /\ TdaChannel(FALSE)[1] = G("agcOff") /\ TdaChannel(FALSE)[2] = G("band")
  /\ TdaChannel(FALSE)[3] = S("note") /\ TdaChannel(FALSE)[4] = G("div")
  /\ TdaChannel(FALSE)[5] = G("sd") /\ TdaChannel(FALSE)[6] = G("cal")
  /\ TdaChannel(FALSE)[7] = G("pllOrSkip") /\ TdaChannel(FALSE)[8] = G("agcOn")
  /\ TdaChannel(FALSE)[9] = G("idsNow") /\ TdaChannel(FALSE)[10] = G("setId")
  /\ TdaChannel(FALSE)[11] = G("lock")
<1> DEFINE s0 == <<G("agcOff")>>
           s1 == TdaRegs
           s2 == <<G("agcOn"), G("idsNow"), G("setId"), G("lock")>>
<1>1. /\ s0 \in Seq(Steps) /\ Len(s0) = 1 /\ s0[1] = G("agcOff")
  BY StepTypes DEF OpNames
<1>2. /\ s1 \in Seq(Steps) /\ Len(s1) = 6 /\ s1[1] = G("band") /\ s1[2] = S("note")
      /\ s1[3] = G("div") /\ s1[4] = G("sd") /\ s1[5] = G("cal") /\ s1[6] = G("pllOrSkip")
  BY TdaRegsSteps
<1>3. /\ s2 \in Seq(Steps) /\ Len(s2) = 4 /\ s2[1] = G("agcOn") /\ s2[2] = G("idsNow")
      /\ s2[3] = G("setId") /\ s2[4] = G("lock")
  BY StepTypes DEF OpNames
<1> HIDE DEF s0, s1, s2
<1>4. /\ (s0 \o s1) \in Seq(Steps) /\ Len((s0 \o s1)) = 7 /\ (s0 \o s1)[1] = G("agcOff")
      /\ (s0 \o s1)[2] = G("band") /\ (s0 \o s1)[3] = S("note") /\ (s0 \o s1)[4] = G("div")
      /\ (s0 \o s1)[5] = G("sd") /\ (s0 \o s1)[6] = G("cal") /\ (s0 \o s1)[7] = G("pllOrSkip")
  <2>1. /\ (s0 \o s1) \in Seq(Steps) /\ Len((s0 \o s1)) = Len(s0) + Len(s1)
        /\ \A i \in 1 .. Len(s0) + Len(s1) :
             (s0 \o s1)[i] = IF i <= Len(s0) THEN s0[i] ELSE s1[i - Len(s0)]
    BY <1>1, <1>2, Joined
  <2> QED
    BY <2>1, <1>1, <1>2
<1>5. /\ ((s0 \o s1) \o s2) \in Seq(Steps) /\ Len(((s0 \o s1) \o s2)) = 11
      /\ ((s0 \o s1) \o s2)[1] = G("agcOff") /\ ((s0 \o s1) \o s2)[2] = G("band")
      /\ ((s0 \o s1) \o s2)[3] = S("note") /\ ((s0 \o s1) \o s2)[4] = G("div")
      /\ ((s0 \o s1) \o s2)[5] = G("sd") /\ ((s0 \o s1) \o s2)[6] = G("cal")
      /\ ((s0 \o s1) \o s2)[7] = G("pllOrSkip") /\ ((s0 \o s1) \o s2)[8] = G("agcOn")
      /\ ((s0 \o s1) \o s2)[9] = G("idsNow") /\ ((s0 \o s1) \o s2)[10] = G("setId")
      /\ ((s0 \o s1) \o s2)[11] = G("lock")
  <2>1. /\ ((s0 \o s1) \o s2) \in Seq(Steps) /\ Len(((s0 \o s1) \o s2)) = Len((s0 \o s1)) + Len(s2)
        /\ \A i \in 1 .. Len((s0 \o s1)) + Len(s2) :
             ((s0 \o s1) \o s2)[i] = IF i <= Len((s0 \o s1)) THEN (s0 \o s1)[i] ELSE s2[i - Len((s0 \o s1))]
    BY <1>4, <1>3, Joined
  <2> QED
    BY <2>1, <1>4, <1>3, SMTT(60)
<1>6. TdaChannel(FALSE) = ((s0 \o s1) \o s2)
  BY DEF TdaChannel, s0, s1, s2
<1> QED
  BY <1>5, <1>6

LEMMA TdaCachedSteps ==
  /\ TdaChannel(TRUE) \in Seq(Steps) /\ Len(TdaChannel(TRUE)) = 5
  /\ TdaChannel(TRUE)[1] = G("agcOff") /\ TdaChannel(TRUE)[2] = G("agcOn")
  /\ TdaChannel(TRUE)[3] = G("idsNow") /\ TdaChannel(TRUE)[4] = G("setId")
  /\ TdaChannel(TRUE)[5] = G("lock")
<1> DEFINE s0 == <<G("agcOff")>>
           s1 == <<>>
           s2 == <<G("agcOn"), G("idsNow"), G("setId"), G("lock")>>
<1>1. /\ s0 \in Seq(Steps) /\ Len(s0) = 1 /\ s0[1] = G("agcOff")
  BY StepTypes DEF OpNames
<1>2. /\ s1 \in Seq(Steps) /\ Len(s1) = 0
  BY StepTypes DEF OpNames
<1>3. /\ s2 \in Seq(Steps) /\ Len(s2) = 4 /\ s2[1] = G("agcOn") /\ s2[2] = G("idsNow")
      /\ s2[3] = G("setId") /\ s2[4] = G("lock")
  BY StepTypes DEF OpNames
<1> HIDE DEF s0, s1, s2
<1>4. /\ (s0 \o s1) \in Seq(Steps) /\ Len((s0 \o s1)) = 1 /\ (s0 \o s1)[1] = G("agcOff")
  <2>1. /\ (s0 \o s1) \in Seq(Steps) /\ Len((s0 \o s1)) = Len(s0) + Len(s1)
        /\ \A i \in 1 .. Len(s0) + Len(s1) :
             (s0 \o s1)[i] = IF i <= Len(s0) THEN s0[i] ELSE s1[i - Len(s0)]
    BY <1>1, <1>2, Joined
  <2> QED
    BY <2>1, <1>1, <1>2
<1>5. /\ ((s0 \o s1) \o s2) \in Seq(Steps) /\ Len(((s0 \o s1) \o s2)) = 5
      /\ ((s0 \o s1) \o s2)[1] = G("agcOff") /\ ((s0 \o s1) \o s2)[2] = G("agcOn")
      /\ ((s0 \o s1) \o s2)[3] = G("idsNow") /\ ((s0 \o s1) \o s2)[4] = G("setId")
      /\ ((s0 \o s1) \o s2)[5] = G("lock")
  <2>1. /\ ((s0 \o s1) \o s2) \in Seq(Steps) /\ Len(((s0 \o s1) \o s2)) = Len((s0 \o s1)) + Len(s2)
        /\ \A i \in 1 .. Len((s0 \o s1)) + Len(s2) :
             ((s0 \o s1) \o s2)[i] = IF i <= Len((s0 \o s1)) THEN (s0 \o s1)[i] ELSE s2[i - Len((s0 \o s1))]
    BY <1>4, <1>3, Joined
  <2> QED
    BY <2>1, <1>4, <1>3
<1>6. TdaChannel(TRUE) = ((s0 \o s1) \o s2)
  BY DEF TdaChannel, s0, s1, s2
<1> QED
  BY <1>5, <1>6

LEMMA NmSetSteps ==
  /\ NmChannel(FALSE) \in Seq(Steps) /\ Len(NmChannel(FALSE)) = 7
  /\ NmChannel(FALSE)[1] = G("agcOff") /\ NmChannel(FALSE)[2] = G("band")
  /\ NmChannel(FALSE)[3] = G("div") /\ NmChannel(FALSE)[4] = G("sd")
  /\ NmChannel(FALSE)[5] = S("note") /\ NmChannel(FALSE)[6] = G("agcOn")
  /\ NmChannel(FALSE)[7] = G("lock")
<1> DEFINE s0 == <<G("agcOff")>>
           s1 == NmRegs
           s2 == <<G("agcOn"), G("lock")>>
<1>1. /\ s0 \in Seq(Steps) /\ Len(s0) = 1 /\ s0[1] = G("agcOff")
  BY StepTypes DEF OpNames
<1>2. /\ s1 \in Seq(Steps) /\ Len(s1) = 4 /\ s1[1] = G("band") /\ s1[2] = G("div")
      /\ s1[3] = G("sd") /\ s1[4] = S("note")
  BY NmRegsSteps
<1>3. /\ s2 \in Seq(Steps) /\ Len(s2) = 2 /\ s2[1] = G("agcOn") /\ s2[2] = G("lock")
  BY StepTypes DEF OpNames
<1> HIDE DEF s0, s1, s2
<1>4. /\ (s0 \o s1) \in Seq(Steps) /\ Len((s0 \o s1)) = 5 /\ (s0 \o s1)[1] = G("agcOff")
      /\ (s0 \o s1)[2] = G("band") /\ (s0 \o s1)[3] = G("div") /\ (s0 \o s1)[4] = G("sd")
      /\ (s0 \o s1)[5] = S("note")
  <2>1. /\ (s0 \o s1) \in Seq(Steps) /\ Len((s0 \o s1)) = Len(s0) + Len(s1)
        /\ \A i \in 1 .. Len(s0) + Len(s1) :
             (s0 \o s1)[i] = IF i <= Len(s0) THEN s0[i] ELSE s1[i - Len(s0)]
    BY <1>1, <1>2, Joined
  <2> QED
    BY <2>1, <1>1, <1>2
<1>5. /\ ((s0 \o s1) \o s2) \in Seq(Steps) /\ Len(((s0 \o s1) \o s2)) = 7
      /\ ((s0 \o s1) \o s2)[1] = G("agcOff") /\ ((s0 \o s1) \o s2)[2] = G("band")
      /\ ((s0 \o s1) \o s2)[3] = G("div") /\ ((s0 \o s1) \o s2)[4] = G("sd")
      /\ ((s0 \o s1) \o s2)[5] = S("note") /\ ((s0 \o s1) \o s2)[6] = G("agcOn")
      /\ ((s0 \o s1) \o s2)[7] = G("lock")
  <2>1. /\ ((s0 \o s1) \o s2) \in Seq(Steps) /\ Len(((s0 \o s1) \o s2)) = Len((s0 \o s1)) + Len(s2)
        /\ \A i \in 1 .. Len((s0 \o s1)) + Len(s2) :
             ((s0 \o s1) \o s2)[i] = IF i <= Len((s0 \o s1)) THEN (s0 \o s1)[i] ELSE s2[i - Len((s0 \o s1))]
    BY <1>4, <1>3, Joined
  <2> QED
    BY <2>1, <1>4, <1>3
<1>6. NmChannel(FALSE) = ((s0 \o s1) \o s2)
  BY DEF NmChannel, s0, s1, s2
<1> QED
  BY <1>5, <1>6

LEMMA NmCachedSteps ==
  /\ NmChannel(TRUE) \in Seq(Steps) /\ Len(NmChannel(TRUE)) = 3
  /\ NmChannel(TRUE)[1] = G("agcOff") /\ NmChannel(TRUE)[2] = G("agcOn")
  /\ NmChannel(TRUE)[3] = G("lock")
<1> DEFINE s0 == <<G("agcOff")>>
           s1 == <<>>
           s2 == <<G("agcOn"), G("lock")>>
<1>1. /\ s0 \in Seq(Steps) /\ Len(s0) = 1 /\ s0[1] = G("agcOff")
  BY StepTypes DEF OpNames
<1>2. /\ s1 \in Seq(Steps) /\ Len(s1) = 0
  BY StepTypes DEF OpNames
<1>3. /\ s2 \in Seq(Steps) /\ Len(s2) = 2 /\ s2[1] = G("agcOn") /\ s2[2] = G("lock")
  BY StepTypes DEF OpNames
<1> HIDE DEF s0, s1, s2
<1>4. /\ (s0 \o s1) \in Seq(Steps) /\ Len((s0 \o s1)) = 1 /\ (s0 \o s1)[1] = G("agcOff")
  <2>1. /\ (s0 \o s1) \in Seq(Steps) /\ Len((s0 \o s1)) = Len(s0) + Len(s1)
        /\ \A i \in 1 .. Len(s0) + Len(s1) :
             (s0 \o s1)[i] = IF i <= Len(s0) THEN s0[i] ELSE s1[i - Len(s0)]
    BY <1>1, <1>2, Joined
  <2> QED
    BY <2>1, <1>1, <1>2
<1>5. /\ ((s0 \o s1) \o s2) \in Seq(Steps) /\ Len(((s0 \o s1) \o s2)) = 3
      /\ ((s0 \o s1) \o s2)[1] = G("agcOff") /\ ((s0 \o s1) \o s2)[2] = G("agcOn")
      /\ ((s0 \o s1) \o s2)[3] = G("lock")
  <2>1. /\ ((s0 \o s1) \o s2) \in Seq(Steps) /\ Len(((s0 \o s1) \o s2)) = Len((s0 \o s1)) + Len(s2)
        /\ \A i \in 1 .. Len((s0 \o s1)) + Len(s2) :
             ((s0 \o s1) \o s2)[i] = IF i <= Len((s0 \o s1)) THEN (s0 \o s1)[i] ELSE s2[i - Len((s0 \o s1))]
    BY <1>4, <1>3, Joined
  <2> QED
    BY <2>1, <1>4, <1>3
<1>6. NmChannel(TRUE) = ((s0 \o s1) \o s2)
  BY DEF NmChannel, s0, s1, s2
<1> QED
  BY <1>5, <1>6

\* The channel is written, or is the one that was.
ChannelSet(P, b) == ~Writes(P) \/ {"div", "sd"} \subseteq b \/ "rf" \in b
\* The order of the steps on which a tune depends.
OrderedAt(P, i, b) ==
  /\ P[i].op \notin {"standby", "wake"}
  /\ P[i].op = "agcOn" => ChannelSet(P, b)
  /\ P[i].op \in {"ids", "idsNow", "select"} => "agcOn" \in b
  /\ P[i].op = "setId" => ("ids" \in b \/ "idsNow" \in b) /\ "select" \notin b
  /\ P[i].op = "idsNow" => "setId" \notin b
  /\ P[i].op = "note" => kind = "mx" \/ Caches(kind)
  /\ P[i].op = "pllOrSkip" => i + 2 <= Len(P) /\ "note" \in b
  /\ Caches(kind) /\ P[i].strict => P[i].op = "note"
  /\ Caches(kind) /\ P[i].op \in {"pll", "lock", "ids", "getId", "select"} =>
       P[i].op = "lock" /\ (Writes(P) => {"div", "sd", "note"} \subseteq b)
Complete(P, b) ==
  /\ ChannelSet(P, b) /\ "agcOn" \in b
  /\ Sleeps(kind) => "pll" \in b
  /\ kind \in {"qm", "tda"} => "setId" \in b
  /\ kind \in {"qmDvb", "tdaDvb"} => "select" \in b
  /\ Caches(kind) /\ Writes(P) => "note" \in b
  /\ ~Writes(P) => Caches(kind)
Ordered(P) ==
  /\ P \in Seq(Steps) /\ Len(P) \in Nat \ {0}
  /\ \A i \in 1 .. Len(P) : OrderedAt(P, i, Behind(P, i))
  /\ Complete(P, All(P))

LEMMA QmTuneOrdered == kind = "qm" => Ordered(QmTune)
<1> SUFFICES ASSUME kind = "qm" PROVE Ordered(QmTune)
  OBVIOUS
<1> DEFINE P == QmTune
<1>1. /\ P \in Seq(Steps) /\ Len(P) = 10 /\ P[1].op = "agcOff" /\ P[2].op = "band"
      /\ P[3].op = "div" /\ P[4].op = "sd" /\ P[5].op = "cal" /\ P[6].op = "pll"
      /\ P[7].op = "agcOn" /\ P[8].op = "ids" /\ P[9].op = "setId" /\ P[10].op = "getId"
      /\ P[1].strict = TRUE /\ P[2].strict = FALSE /\ P[3].strict = TRUE /\ P[4].strict = TRUE
      /\ P[5].strict = TRUE /\ P[6].strict = TRUE /\ P[7].strict = TRUE /\ P[8].strict = TRUE
      /\ P[9].strict = TRUE /\ P[10].strict = TRUE
  BY QmTuneSteps DEF S, G
<1> HIDE DEF P
<1>2. Writes(P)
  BY <1>1 DEF Writes
<1>3. \A i \in 1 .. Len(P) : OrderedAt(P, i, Behind(P, i))
  <2> TAKE i \in 1 .. Len(P)
  <2>1. CASE i = 1
    BY <2>1, <1>1, <1>2 DEF OrderedAt, ChannelSet, Caches, Behind
  <2>2. CASE i = 2
    BY <2>2, <1>1, <1>2 DEF OrderedAt, ChannelSet, Caches, Behind
  <2>3. CASE i = 3
    BY <2>3, <1>1, <1>2 DEF OrderedAt, ChannelSet, Caches, Behind
  <2>4. CASE i = 4
    BY <2>4, <1>1, <1>2 DEF OrderedAt, ChannelSet, Caches, Behind
  <2>5. CASE i = 5
    BY <2>5, <1>1, <1>2 DEF OrderedAt, ChannelSet, Caches, Behind
  <2>6. CASE i = 6
    BY <2>6, <1>1, <1>2 DEF OrderedAt, ChannelSet, Caches, Behind
  <2>7. CASE i = 7
    BY <2>7, <1>1, <1>2 DEF OrderedAt, ChannelSet, Caches, Behind
  <2>8. CASE i = 8
    BY <2>8, <1>1, <1>2 DEF OrderedAt, ChannelSet, Caches, Behind
  <2>9. CASE i = 9
    BY <2>9, <1>1, <1>2 DEF OrderedAt, ChannelSet, Caches, Behind
  <2>10. CASE i = 10
    BY <2>10, <1>1, <1>2 DEF OrderedAt, ChannelSet, Caches, Behind
  <2> QED
    BY <1>1, <2>1, <2>2, <2>3, <2>4, <2>5, <2>6, <2>7, <2>8, <2>9, <2>10
<1>4. Complete(P, All(P))
  BY <1>1, <1>2 DEF Complete, ChannelSet, All, Behind, Caches, Sleeps
<1>5. Ordered(P)
  BY <1>1, <1>3, <1>4 DEF Ordered
<1> QED
  BY <1>5, Zenon DEF P

LEMMA MxTuneOrdered == kind = "mx" => Ordered(MxTune)
<1> SUFFICES ASSUME kind = "mx" PROVE Ordered(MxTune)
  OBVIOUS
<1> DEFINE P == MxTune
<1>1. /\ P \in Seq(Steps) /\ Len(P) = 8 /\ P[1].op = "agcOff" /\ P[2].op = "note"
      /\ P[3].op = "abort" /\ P[4].op = "rf" /\ P[5].op = "rest" /\ P[6].op = "pll"
      /\ P[7].op = "agcOn" /\ P[8].op = "lock" /\ P[1].strict = TRUE /\ P[2].strict = TRUE
      /\ P[3].strict = FALSE /\ P[4].strict = FALSE /\ P[5].strict = FALSE
      /\ P[6].strict = FALSE /\ P[7].strict = TRUE /\ P[8].strict = FALSE
  BY MxTuneSteps DEF S, G
<1> HIDE DEF P
<1>2. Writes(P)
  BY <1>1 DEF Writes
<1>3. \A i \in 1 .. Len(P) : OrderedAt(P, i, Behind(P, i))
  <2> TAKE i \in 1 .. Len(P)
  <2>1. CASE i = 1
    BY <2>1, <1>1, <1>2 DEF OrderedAt, ChannelSet, Caches, Behind
  <2>2. CASE i = 2
    BY <2>2, <1>1, <1>2 DEF OrderedAt, ChannelSet, Caches, Behind
  <2>3. CASE i = 3
    BY <2>3, <1>1, <1>2 DEF OrderedAt, ChannelSet, Caches, Behind
  <2>4. CASE i = 4
    BY <2>4, <1>1, <1>2 DEF OrderedAt, ChannelSet, Caches, Behind
  <2>5. CASE i = 5
    BY <2>5, <1>1, <1>2 DEF OrderedAt, ChannelSet, Caches, Behind
  <2>6. CASE i = 6
    BY <2>6, <1>1, <1>2 DEF OrderedAt, ChannelSet, Caches, Behind
  <2>7. CASE i = 7
    BY <2>7, <1>1, <1>2 DEF OrderedAt, ChannelSet, Caches, Behind
  <2>8. CASE i = 8
    BY <2>8, <1>1, <1>2 DEF OrderedAt, ChannelSet, Caches, Behind
  <2> QED
    BY <1>1, <2>1, <2>2, <2>3, <2>4, <2>5, <2>6, <2>7, <2>8
<1>4. Complete(P, All(P))
  BY <1>1, <1>2 DEF Complete, ChannelSet, All, Behind, Caches, Sleeps
<1>5. Ordered(P)
  BY <1>1, <1>3, <1>4 DEF Ordered
<1> QED
  BY <1>5, Zenon DEF P

LEMMA TdaSetOrdered == kind = "tda" => Ordered(TdaChannel(FALSE))
<1> SUFFICES ASSUME kind = "tda" PROVE Ordered(TdaChannel(FALSE))
  OBVIOUS
<1> DEFINE P == TdaChannel(FALSE)
<1>0. /\ P \in Seq(Steps) /\ Len(P) = 11 /\ P[1] = G("agcOff") /\ P[2] = G("band")
      /\ P[3] = S("note") /\ P[4] = G("div") /\ P[5] = G("sd") /\ P[6] = G("cal")
      /\ P[7] = G("pllOrSkip") /\ P[8] = G("agcOn") /\ P[9] = G("idsNow") /\ P[10] = G("setId")
      /\ P[11] = G("lock")
  BY TdaSetSteps, Zenon
<1> HIDE DEF P
<1>1. /\ P \in Seq(Steps) /\ Len(P) = 11 /\ P[1].op = "agcOff" /\ P[2].op = "band"
      /\ P[3].op = "note" /\ P[4].op = "div" /\ P[5].op = "sd" /\ P[6].op = "cal"
      /\ P[7].op = "pllOrSkip" /\ P[8].op = "agcOn" /\ P[9].op = "idsNow" /\ P[10].op = "setId"
      /\ P[11].op = "lock" /\ P[1].strict = FALSE /\ P[2].strict = FALSE /\ P[3].strict = TRUE
      /\ P[4].strict = FALSE /\ P[5].strict = FALSE /\ P[6].strict = FALSE
      /\ P[7].strict = FALSE /\ P[8].strict = FALSE /\ P[9].strict = FALSE
      /\ P[10].strict = FALSE /\ P[11].strict = FALSE
  BY <1>0 DEF S, G
<1>2. Writes(P)
  BY <1>1 DEF Writes
<1>3. \A i \in 1 .. Len(P) : OrderedAt(P, i, Behind(P, i))
  <2> TAKE i \in 1 .. Len(P)
  <2>1. CASE i = 1
    BY <2>1, <1>1, <1>2 DEF OrderedAt, ChannelSet, Caches, Behind
  <2>2. CASE i = 2
    BY <2>2, <1>1, <1>2 DEF OrderedAt, ChannelSet, Caches, Behind
  <2>3. CASE i = 3
    BY <2>3, <1>1, <1>2 DEF OrderedAt, ChannelSet, Caches, Behind
  <2>4. CASE i = 4
    BY <2>4, <1>1, <1>2 DEF OrderedAt, ChannelSet, Caches, Behind
  <2>5. CASE i = 5
    BY <2>5, <1>1, <1>2 DEF OrderedAt, ChannelSet, Caches, Behind
  <2>6. CASE i = 6
    BY <2>6, <1>1, <1>2 DEF OrderedAt, ChannelSet, Caches, Behind
  <2>7. CASE i = 7
    BY <2>7, <1>1, <1>2 DEF OrderedAt, ChannelSet, Caches, Behind
  <2>8. CASE i = 8
    BY <2>8, <1>1, <1>2 DEF OrderedAt, ChannelSet, Caches, Behind
  <2>9. CASE i = 9
    BY <2>9, <1>1, <1>2 DEF OrderedAt, ChannelSet, Caches, Behind
  <2>10. CASE i = 10
    BY <2>10, <1>1, <1>2 DEF OrderedAt, ChannelSet, Caches, Behind
  <2>11. CASE i = 11
    BY <2>11, <1>1, <1>2 DEF OrderedAt, ChannelSet, Caches, Behind
  <2> QED
    BY <1>1, <2>1, <2>2, <2>3, <2>4, <2>5, <2>6, <2>7, <2>8, <2>9, <2>10, <2>11
<1>4. Complete(P, All(P))
  BY <1>1, <1>2 DEF Complete, ChannelSet, All, Behind, Caches, Sleeps
<1>5. Ordered(P)
  BY <1>1, <1>3, <1>4 DEF Ordered
<1> QED
  BY <1>5, Zenon DEF P

LEMMA TdaCachedOrdered == kind = "tda" => Ordered(TdaChannel(TRUE))
<1> SUFFICES ASSUME kind = "tda" PROVE Ordered(TdaChannel(TRUE))
  OBVIOUS
<1> DEFINE P == TdaChannel(TRUE)
<1>0. /\ P \in Seq(Steps) /\ Len(P) = 5 /\ P[1] = G("agcOff") /\ P[2] = G("agcOn")
      /\ P[3] = G("idsNow") /\ P[4] = G("setId") /\ P[5] = G("lock")
  BY TdaCachedSteps, Zenon
<1> HIDE DEF P
<1>1. /\ P \in Seq(Steps) /\ Len(P) = 5 /\ P[1].op = "agcOff" /\ P[2].op = "agcOn"
      /\ P[3].op = "idsNow" /\ P[4].op = "setId" /\ P[5].op = "lock" /\ P[1].strict = FALSE
      /\ P[2].strict = FALSE /\ P[3].strict = FALSE /\ P[4].strict = FALSE
      /\ P[5].strict = FALSE
  BY <1>0 DEF S, G
<1>2. ~Writes(P)
  BY <1>1 DEF Writes
<1>3. \A i \in 1 .. Len(P) : OrderedAt(P, i, Behind(P, i))
  <2> TAKE i \in 1 .. Len(P)
  <2>1. CASE i = 1
    BY <2>1, <1>1, <1>2 DEF OrderedAt, ChannelSet, Caches, Behind
  <2>2. CASE i = 2
    BY <2>2, <1>1, <1>2 DEF OrderedAt, ChannelSet, Caches, Behind
  <2>3. CASE i = 3
    BY <2>3, <1>1, <1>2 DEF OrderedAt, ChannelSet, Caches, Behind
  <2>4. CASE i = 4
    BY <2>4, <1>1, <1>2 DEF OrderedAt, ChannelSet, Caches, Behind
  <2>5. CASE i = 5
    BY <2>5, <1>1, <1>2 DEF OrderedAt, ChannelSet, Caches, Behind
  <2> QED
    BY <1>1, <2>1, <2>2, <2>3, <2>4, <2>5
<1>4. Complete(P, All(P))
  BY <1>1, <1>2 DEF Complete, ChannelSet, All, Behind, Caches, Sleeps
<1>5. Ordered(P)
  BY <1>1, <1>3, <1>4 DEF Ordered
<1> QED
  BY <1>5, Zenon DEF P

LEMMA NmSetOrdered == kind = "nm" => Ordered(NmChannel(FALSE))
<1> SUFFICES ASSUME kind = "nm" PROVE Ordered(NmChannel(FALSE))
  OBVIOUS
<1> DEFINE P == NmChannel(FALSE)
<1>0. /\ P \in Seq(Steps) /\ Len(P) = 7 /\ P[1] = G("agcOff") /\ P[2] = G("band")
      /\ P[3] = G("div") /\ P[4] = G("sd") /\ P[5] = S("note") /\ P[6] = G("agcOn")
      /\ P[7] = G("lock")
  BY NmSetSteps, Zenon
<1> HIDE DEF P
<1>1. /\ P \in Seq(Steps) /\ Len(P) = 7 /\ P[1].op = "agcOff" /\ P[2].op = "band"
      /\ P[3].op = "div" /\ P[4].op = "sd" /\ P[5].op = "note" /\ P[6].op = "agcOn"
      /\ P[7].op = "lock" /\ P[1].strict = FALSE /\ P[2].strict = FALSE /\ P[3].strict = FALSE
      /\ P[4].strict = FALSE /\ P[5].strict = TRUE /\ P[6].strict = FALSE
      /\ P[7].strict = FALSE
  BY <1>0 DEF S, G
<1>2. Writes(P)
  BY <1>1 DEF Writes
<1>3. \A i \in 1 .. Len(P) : OrderedAt(P, i, Behind(P, i))
  <2> TAKE i \in 1 .. Len(P)
  <2>1. CASE i = 1
    BY <2>1, <1>1, <1>2 DEF OrderedAt, ChannelSet, Caches, Behind
  <2>2. CASE i = 2
    BY <2>2, <1>1, <1>2 DEF OrderedAt, ChannelSet, Caches, Behind
  <2>3. CASE i = 3
    BY <2>3, <1>1, <1>2 DEF OrderedAt, ChannelSet, Caches, Behind
  <2>4. CASE i = 4
    BY <2>4, <1>1, <1>2 DEF OrderedAt, ChannelSet, Caches, Behind
  <2>5. CASE i = 5
    BY <2>5, <1>1, <1>2 DEF OrderedAt, ChannelSet, Caches, Behind
  <2>6. CASE i = 6
    BY <2>6, <1>1, <1>2 DEF OrderedAt, ChannelSet, Caches, Behind
  <2>7. CASE i = 7
    BY <2>7, <1>1, <1>2 DEF OrderedAt, ChannelSet, Caches, Behind
  <2> QED
    BY <1>1, <2>1, <2>2, <2>3, <2>4, <2>5, <2>6, <2>7
<1>4. Complete(P, All(P))
  BY <1>1, <1>2 DEF Complete, ChannelSet, All, Behind, Caches, Sleeps
<1>5. Ordered(P)
  BY <1>1, <1>3, <1>4 DEF Ordered
<1> QED
  BY <1>5, Zenon DEF P

LEMMA NmCachedOrdered == kind = "nm" => Ordered(NmChannel(TRUE))
<1> SUFFICES ASSUME kind = "nm" PROVE Ordered(NmChannel(TRUE))
  OBVIOUS
<1> DEFINE P == NmChannel(TRUE)
<1>0. /\ P \in Seq(Steps) /\ Len(P) = 3 /\ P[1] = G("agcOff") /\ P[2] = G("agcOn")
      /\ P[3] = G("lock")
  BY NmCachedSteps, Zenon
<1> HIDE DEF P
<1>1. /\ P \in Seq(Steps) /\ Len(P) = 3 /\ P[1].op = "agcOff" /\ P[2].op = "agcOn"
      /\ P[3].op = "lock" /\ P[1].strict = FALSE /\ P[2].strict = FALSE /\ P[3].strict = FALSE
  BY <1>0 DEF S, G
<1>2. ~Writes(P)
  BY <1>1 DEF Writes
<1>3. \A i \in 1 .. Len(P) : OrderedAt(P, i, Behind(P, i))
  <2> TAKE i \in 1 .. Len(P)
  <2>1. CASE i = 1
    BY <2>1, <1>1, <1>2 DEF OrderedAt, ChannelSet, Caches, Behind
  <2>2. CASE i = 2
    BY <2>2, <1>1, <1>2 DEF OrderedAt, ChannelSet, Caches, Behind
  <2>3. CASE i = 3
    BY <2>3, <1>1, <1>2 DEF OrderedAt, ChannelSet, Caches, Behind
  <2> QED
    BY <1>1, <2>1, <2>2, <2>3
<1>4. Complete(P, All(P))
  BY <1>1, <1>2 DEF Complete, ChannelSet, All, Behind, Caches, Sleeps
<1>5. Ordered(P)
  BY <1>1, <1>3, <1>4 DEF Ordered
<1> QED
  BY <1>5, Zenon DEF P

LEMMA Qm1d1c004xTuneOrdered == kind = "qmDvb" => Ordered(Qm1d1c004xTune)
<1> SUFFICES ASSUME kind = "qmDvb" PROVE Ordered(Qm1d1c004xTune)
  OBVIOUS
<1> DEFINE P == Qm1d1c004xTune
<1>1. /\ P \in Seq(Steps) /\ Len(P) = 8 /\ P[1].op = "agcOff" /\ P[2].op = "band"
      /\ P[3].op = "div" /\ P[4].op = "sd" /\ P[5].op = "cal" /\ P[6].op = "pll"
      /\ P[7].op = "agcOn" /\ P[8].op = "select" /\ P[1].strict = TRUE /\ P[2].strict = FALSE
      /\ P[3].strict = TRUE /\ P[4].strict = TRUE /\ P[5].strict = TRUE /\ P[6].strict = TRUE
      /\ P[7].strict = TRUE /\ P[8].strict = TRUE
  BY Qm1d1c004xTuneSteps DEF S, G
<1> HIDE DEF P
<1>2. Writes(P)
  BY <1>1 DEF Writes
<1>3. \A i \in 1 .. Len(P) : OrderedAt(P, i, Behind(P, i))
  <2> TAKE i \in 1 .. Len(P)
  <2>1. CASE i = 1
    BY <2>1, <1>1, <1>2 DEF OrderedAt, ChannelSet, Caches, Behind
  <2>2. CASE i = 2
    BY <2>2, <1>1, <1>2 DEF OrderedAt, ChannelSet, Caches, Behind
  <2>3. CASE i = 3
    BY <2>3, <1>1, <1>2 DEF OrderedAt, ChannelSet, Caches, Behind
  <2>4. CASE i = 4
    BY <2>4, <1>1, <1>2 DEF OrderedAt, ChannelSet, Caches, Behind
  <2>5. CASE i = 5
    BY <2>5, <1>1, <1>2 DEF OrderedAt, ChannelSet, Caches, Behind
  <2>6. CASE i = 6
    BY <2>6, <1>1, <1>2 DEF OrderedAt, ChannelSet, Caches, Behind
  <2>7. CASE i = 7
    BY <2>7, <1>1, <1>2 DEF OrderedAt, ChannelSet, Caches, Behind
  <2>8. CASE i = 8
    BY <2>8, <1>1, <1>2 DEF OrderedAt, ChannelSet, Caches, Behind
  <2> QED
    BY <1>1, <2>1, <2>2, <2>3, <2>4, <2>5, <2>6, <2>7, <2>8
<1>4. Complete(P, All(P))
  BY <1>1, <1>2 DEF Complete, ChannelSet, All, Behind, Caches, Sleeps
<1>5. Ordered(P)
  BY <1>1, <1>3, <1>4 DEF Ordered
<1> QED
  BY <1>5, Zenon DEF P

LEMMA Mxl301rfTuneOrdered == kind = "mxDvb" => Ordered(Mxl301rfTune)
<1> SUFFICES ASSUME kind = "mxDvb" PROVE Ordered(Mxl301rfTune)
  OBVIOUS
<1> DEFINE P == Mxl301rfTune
<1>1. /\ P \in Seq(Steps) /\ Len(P) = 7 /\ P[1].op = "agcOff" /\ P[2].op = "abort"
      /\ P[3].op = "rf" /\ P[4].op = "rest" /\ P[5].op = "pll" /\ P[6].op = "agcOn"
      /\ P[7].op = "lock" /\ P[1].strict = TRUE /\ P[2].strict = FALSE /\ P[3].strict = FALSE
      /\ P[4].strict = FALSE /\ P[5].strict = FALSE /\ P[6].strict = TRUE /\ P[7].strict = TRUE
  BY Mxl301rfTuneSteps DEF S, G
<1> HIDE DEF P
<1>2. Writes(P)
  BY <1>1 DEF Writes
<1>3. \A i \in 1 .. Len(P) : OrderedAt(P, i, Behind(P, i))
  <2> TAKE i \in 1 .. Len(P)
  <2>1. CASE i = 1
    BY <2>1, <1>1, <1>2 DEF OrderedAt, ChannelSet, Caches, Behind
  <2>2. CASE i = 2
    BY <2>2, <1>1, <1>2 DEF OrderedAt, ChannelSet, Caches, Behind
  <2>3. CASE i = 3
    BY <2>3, <1>1, <1>2 DEF OrderedAt, ChannelSet, Caches, Behind
  <2>4. CASE i = 4
    BY <2>4, <1>1, <1>2 DEF OrderedAt, ChannelSet, Caches, Behind
  <2>5. CASE i = 5
    BY <2>5, <1>1, <1>2 DEF OrderedAt, ChannelSet, Caches, Behind
  <2>6. CASE i = 6
    BY <2>6, <1>1, <1>2 DEF OrderedAt, ChannelSet, Caches, Behind
  <2>7. CASE i = 7
    BY <2>7, <1>1, <1>2 DEF OrderedAt, ChannelSet, Caches, Behind
  <2> QED
    BY <1>1, <2>1, <2>2, <2>3, <2>4, <2>5, <2>6, <2>7
<1>4. Complete(P, All(P))
  BY <1>1, <1>2 DEF Complete, ChannelSet, All, Behind, Caches, Sleeps
<1>5. Ordered(P)
  BY <1>1, <1>3, <1>4 DEF Ordered
<1> QED
  BY <1>5, Zenon DEF P

LEMMA Tda2014xTuneOrdered == kind = "tdaDvb" => Ordered(Tda2014xTune)
<1> SUFFICES ASSUME kind = "tdaDvb" PROVE Ordered(Tda2014xTune)
  OBVIOUS
<1> DEFINE P == Tda2014xTune
<1>1. /\ P \in Seq(Steps) /\ Len(P) = 8 /\ P[1].op = "band" /\ P[2].op = "agcOff"
      /\ P[3].op = "div" /\ P[4].op = "sd" /\ P[5].op = "cal" /\ P[6].op = "pll"
      /\ P[7].op = "agcOn" /\ P[8].op = "select" /\ P[1].strict = FALSE /\ P[2].strict = FALSE
      /\ P[3].strict = FALSE /\ P[4].strict = FALSE /\ P[5].strict = FALSE
      /\ P[6].strict = FALSE /\ P[7].strict = FALSE /\ P[8].strict = TRUE
  BY Tda2014xTuneSteps DEF S, G
<1> HIDE DEF P
<1>2. Writes(P)
  BY <1>1 DEF Writes
<1>3. \A i \in 1 .. Len(P) : OrderedAt(P, i, Behind(P, i))
  <2> TAKE i \in 1 .. Len(P)
  <2>1. CASE i = 1
    BY <2>1, <1>1, <1>2 DEF OrderedAt, ChannelSet, Caches, Behind
  <2>2. CASE i = 2
    BY <2>2, <1>1, <1>2 DEF OrderedAt, ChannelSet, Caches, Behind
  <2>3. CASE i = 3
    BY <2>3, <1>1, <1>2 DEF OrderedAt, ChannelSet, Caches, Behind
  <2>4. CASE i = 4
    BY <2>4, <1>1, <1>2 DEF OrderedAt, ChannelSet, Caches, Behind
  <2>5. CASE i = 5
    BY <2>5, <1>1, <1>2 DEF OrderedAt, ChannelSet, Caches, Behind
  <2>6. CASE i = 6
    BY <2>6, <1>1, <1>2 DEF OrderedAt, ChannelSet, Caches, Behind
  <2>7. CASE i = 7
    BY <2>7, <1>1, <1>2 DEF OrderedAt, ChannelSet, Caches, Behind
  <2>8. CASE i = 8
    BY <2>8, <1>1, <1>2 DEF OrderedAt, ChannelSet, Caches, Behind
  <2> QED
    BY <1>1, <2>1, <2>2, <2>3, <2>4, <2>5, <2>6, <2>7, <2>8
<1>4. Complete(P, All(P))
  BY <1>1, <1>2 DEF Complete, ChannelSet, All, Behind, Caches, Sleeps
<1>5. Ordered(P)
  BY <1>1, <1>3, <1>4 DEF Ordered
<1> QED
  BY <1>5, Zenon DEF P

LEMMA Nm131TuneOrdered == kind = "nmDvb" => Ordered(Nm131Tune)
<1> SUFFICES ASSUME kind = "nmDvb" PROVE Ordered(Nm131Tune)
  OBVIOUS
<1> DEFINE P == Nm131Tune
<1>1. /\ P \in Seq(Steps) /\ Len(P) = 6 /\ P[1].op = "agcOff" /\ P[2].op = "band"
      /\ P[3].op = "div" /\ P[4].op = "sd" /\ P[5].op = "agcOn" /\ P[6].op = "lock"
      /\ P[1].strict = FALSE /\ P[2].strict = FALSE /\ P[3].strict = FALSE
      /\ P[4].strict = FALSE /\ P[5].strict = FALSE /\ P[6].strict = FALSE
  BY Nm131TuneSteps DEF S, G
<1> HIDE DEF P
<1>2. Writes(P)
  BY <1>1 DEF Writes
<1>3. \A i \in 1 .. Len(P) : OrderedAt(P, i, Behind(P, i))
  <2> TAKE i \in 1 .. Len(P)
  <2>1. CASE i = 1
    BY <2>1, <1>1, <1>2 DEF OrderedAt, ChannelSet, Caches, Behind
  <2>2. CASE i = 2
    BY <2>2, <1>1, <1>2 DEF OrderedAt, ChannelSet, Caches, Behind
  <2>3. CASE i = 3
    BY <2>3, <1>1, <1>2 DEF OrderedAt, ChannelSet, Caches, Behind
  <2>4. CASE i = 4
    BY <2>4, <1>1, <1>2 DEF OrderedAt, ChannelSet, Caches, Behind
  <2>5. CASE i = 5
    BY <2>5, <1>1, <1>2 DEF OrderedAt, ChannelSet, Caches, Behind
  <2>6. CASE i = 6
    BY <2>6, <1>1, <1>2 DEF OrderedAt, ChannelSet, Caches, Behind
  <2> QED
    BY <1>1, <2>1, <2>2, <2>3, <2>4, <2>5, <2>6
<1>4. Complete(P, All(P))
  BY <1>1, <1>2 DEF Complete, ChannelSet, All, Behind, Caches, Sleeps
<1>5. Ordered(P)
  BY <1>1, <1>3, <1>4 DEF Ordered
<1> QED
  BY <1>5, Zenon DEF P

LEMMA TunesOrdered == kind \in Kinds => \A P \in TunePrograms : Ordered(P)
BY QmTuneOrdered, MxTuneOrdered, TdaSetOrdered, TdaCachedOrdered, NmSetOrdered, NmCachedOrdered, Qm1d1c004xTuneOrdered, Mxl301rfTuneOrdered, Tda2014xTuneOrdered, Nm131TuneOrdered DEF Kinds, TunePrograms

-----------------------------------------------------------------------------
(* One step of a call.                                                       *)

LEMMA NextStep ==
  ASSUME NEW P \in Seq(Steps), NEW i \in 1 .. Len(P) + 1, NEW t, t = SubSeq(P, i, Len(P))
  PROVE  /\ t = <<>> => i = Len(P) + 1
         /\ t # <<>> => /\ i \in 1 .. Len(P) /\ Head(t) = P[i]
                        /\ Tail(t) = SubSeq(P, i + 1, Len(P))
                        /\ Tail(t) = <<>> <=> i = Len(P)
<1>1. Len(P) \in Nat
  BY LenProperties
<1>2. i = Len(P) + 1 => t = <<>>
  BY <1>1, SubSeqEmpty
<1>3. ASSUME i \in 1 .. Len(P)
      PROVE  /\ t # <<>> /\ Head(t) = P[i]
             /\ Tail(t) = SubSeq(P, i + 1, Len(P))
             /\ Tail(t) = <<>> <=> i = Len(P)
  <2>1. \A k \in i .. Len(P) : P[k] \in Steps
    BY <1>1, <1>3, ElementOfSeq
  <2>2. /\ t \in Seq(Steps) /\ Len(t) = Len(P) - i + 1
        /\ \A k \in 1 .. Len(P) - i + 1 : t[k] = P[i + k - 1]
    BY <2>1, <1>1, <1>3, SubSeqProperties
  <2>3. t # <<>>
    <3>1. Len(t) # 0
      BY <2>2, <1>1, <1>3
    <3>2. Len(<<>>) = 0
      BY EmptySeq
    <3> QED
      BY <3>1, <3>2, Zenon
  <2>4. Head(t) = P[i] /\ Tail(t) = SubSeq(P, i + 1, Len(P))
    BY <1>3, <1>1, HeadTailOfSubSeq
  <2>5. Len(Tail(t)) = Len(P) - i /\ Tail(t) \in Seq(Steps)
    BY <2>2, <2>3, <1>1, <1>3, HeadTailProperties
  <2>6. Tail(t) = <<>> <=> Len(Tail(t)) = 0
    BY <2>5, EmptySeq
  <2> QED
    BY <2>3, <2>4, <2>5, <2>6, <1>1, <1>3
<1> QED
  BY <1>1, <1>2, <1>3

LEMMA BehindNext ==
  ASSUME NEW P, NEW i \in Nat \ {0}
  PROVE  Behind(P, i + 1) = Behind(P, i) \cup {P[i].op}
BY DEF Behind

LEMMA BehindNothing == \A P : Behind(P, 1) = {}
BY DEF Behind

\* The next step of a tune, and what order says of it.
LEMMA TuneGoes ==
  ASSUME NEW P, NEW i, kind \in Kinds, InTune(P, i), todo # <<>>
  PROVE  /\ Ordered(P) /\ i \in 1 .. Len(P) /\ i \in Nat \ {0} /\ Head(todo) = P[i]
         /\ OrderedAt(P, i, Behind(P, i)) /\ Op = P[i].op
         /\ Behind(P, i + 1) = Behind(P, i) \cup {Op}
         /\ Goes /\ UNCHANGED <<kind, ask>> =>
              P \in TunePrograms' /\ InCall(P, i + 1)' /\ (ask \in Chs \X Slots)'
<1>1. P \in TunePrograms /\ InCall(P, i) /\ ask \in Chs \X Slots
  BY DEF InTune
<1>2. Ordered(P) /\ P \in Seq(Steps) /\ Len(P) \in Nat \ {0}
  BY <1>1, TunesOrdered DEF Ordered
<1>3. i \in 1 .. Len(P) + 1 /\ todo = SubSeq(P, i, Len(P))
  BY <1>1 DEF InCall
<1>4. /\ i \in 1 .. Len(P) /\ Head(todo) = P[i] /\ Tail(todo) = SubSeq(P, i + 1, Len(P))
      /\ Tail(todo) = <<>> <=> i = Len(P)
  BY <1>2, <1>3, NextStep
<1>5. i \in Nat \ {0} /\ Op = P[i].op /\ OrderedAt(P, i, Behind(P, i))
  BY <1>2, <1>4 DEF Op, Ordered
<1>6. Behind(P, i + 1) = Behind(P, i) \cup {Op}
  BY <1>5, BehindNext
<1>7. ASSUME Goes, UNCHANGED <<kind, ask>>
      PROVE  P \in TunePrograms' /\ InCall(P, i + 1)' /\ (ask \in Chs \X Slots)'
  <2>1. P \in TunePrograms'
    BY <1>1, <1>7 DEF TunePrograms
  <2>2. todo' = SubSeq(P, i + 1, Len(P)) /\ i + 1 \in 1 .. Len(P) + 1
    BY <1>2, <1>4, <1>7 DEF Goes
  <2>3. res' = IF i + 1 <= Len(P) THEN "busy" ELSE IF ask[1] = 0 THEN "none" ELSE "ok"
    BY <1>2, <1>4, <1>7 DEF Goes
  <2> QED
    BY <1>1, <1>7, <2>1, <2>2, <2>3 DEF InCall
<1> QED
  BY <1>2, <1>4, <1>5, <1>6, <1>7


-----------------------------------------------------------------------------
(* What the steps of a tune bring about.                                     *)

\* A step of a tune that goes on leads to the next place of the program.
LEMMA TuneOn ==
  ASSUME NEW P, NEW i, kind \in Kinds, InTune(P, i), todo # <<>>, Goes, UNCHANGED <<kind, ask>>,
         "note" \in Behind(P, i) \/ ~Writes(P) => cache' = ask[1],
         Op = "note" => cache' = ask[1],
         Flawless' => TuneDone(P, Behind(P, i) \cup {P[i].op})'
  PROVE  i + 1 \in 1 .. Len(P) + 1 /\ InTune(P, i + 1)'
<1>1. /\ i \in 1 .. Len(P) /\ Ordered(P) /\ Op = P[i].op
      /\ Behind(P, i + 1) = Behind(P, i) \cup {P[i].op}
      /\ P \in TunePrograms' /\ InCall(P, i + 1)' /\ (ask \in Chs \X Slots)'
  BY TuneGoes
<1>2. "note" \in Behind(P, i + 1) \/ ~Writes(P) => cache' = ask'[1]
  BY <1>1
<1>3. Flawless' => TuneDone(P, Behind(P, i + 1))'
  BY <1>1 DEF TuneDone
<1> QED
  BY <1>1, <1>2, <1>3 DEF InTune, Ordered

\* What is known at a step of a tune.
LEMMA TuneKnows ==
  ASSUME NEW P, NEW i, kind \in Kinds, InTune(P, i), todo # <<>>
  PROVE  /\ OrderedAt(P, i, Behind(P, i)) /\ Op = P[i].op
         /\ ask[1] \in Chs /\ ask[1] # 0 /\ ask = <<ask[1], ask[2]>>
         /\ "note" \in Behind(P, i) \/ ~Writes(P) => cache = ask[1]
         /\ Flawless => TuneDone(P, Behind(P, i))
BY TuneGoes, TuningAssumption DEF InTune

LEMMA AgcInTune ==
  ASSUME NEW P, NEW i, kind \in Kinds, InTune(P, i), Agc
  PROVE  i + 1 \in 1 .. Len(P) + 1 /\ InTune(P, i + 1)'
<1>1. todo # <<>> /\ Goes /\ UNCHANGED <<kind, ask, cache>> /\ Op # "note"
  BY DEF Agc, At, Kept
<1>2. Flawless' => TuneDone(P, Behind(P, i) \cup {P[i].op})'
  BY <1>1, TuneKnows DEF Agc, At, Kept, Chipped, TuneDone, Flawless
<1> QED
  BY <1>1, <1>2, TuneKnows, TuneOn

LEMMA PlainInTune ==
  ASSUME NEW P, NEW i, kind \in Kinds, InTune(P, i), Plain \/ Lock \/ GetId
  PROVE  i + 1 \in 1 .. Len(P) + 1 /\ InTune(P, i + 1)'
<1>1. /\ todo # <<>> /\ Goes /\ Op \in {"band", "cal", "abort", "rest", "lock", "getId"}
      /\ UNCHANGED <<kind, ask, cache, div, sd, awake, demod, list, sel, unseen, late>>
  BY DEF Plain, Lock, GetId, At, Kept, Chipped
<1>2. Flawless' => TuneDone(P, Behind(P, i) \cup {P[i].op})'
  BY <1>1, TuneKnows DEF TuneDone, Flawless
<1> QED
  BY <1>1, <1>2, TuneKnows, TuneOn

LEMMA RegistersInTune ==
  ASSUME NEW P, NEW i, kind \in Kinds, InTune(P, i), Registers
  PROVE  i + 1 \in 1 .. Len(P) + 1 /\ InTune(P, i + 1)'
<1>1. todo # <<>> /\ Goes /\ UNCHANGED <<kind, ask, cache>> /\ Op # "note"
  BY DEF Registers, At, Kept
<1>2. Flawless' => TuneDone(P, Behind(P, i) \cup {P[i].op})'
  BY <1>1, TuneKnows DEF Registers, At, Kept, TuneDone, Flawless
<1> QED
  BY <1>1, <1>2, TuneKnows, TuneOn

LEMMA NoteInTune ==
  ASSUME NEW P, NEW i, kind \in Kinds, InTune(P, i), Note
  PROVE  i + 1 \in 1 .. Len(P) + 1 /\ InTune(P, i + 1)'
<1>1. todo # <<>> /\ Goes /\ UNCHANGED <<kind, ask>> /\ Op = "note" /\ cache' = ask[1]
  BY DEF Note, At, Kept
<1>2. Flawless' => TuneDone(P, Behind(P, i) \cup {P[i].op})'
  BY <1>1, TuneKnows DEF Note, At, Kept, Chipped, TuneDone, Flawless
<1> QED
  BY <1>1, <1>2, TuneKnows, TuneOn

LEMMA PllInTune ==
  ASSUME NEW P, NEW i, kind \in Kinds, InTune(P, i), Pll
  PROVE  i + 1 \in 1 .. Len(P) + 1 /\ InTune(P, i + 1)'
<1>1. todo # <<>> /\ Goes /\ UNCHANGED <<kind, ask, cache>> /\ Op # "note"
  BY DEF Pll, At, Kept
<1>2. Flawless' => TuneDone(P, Behind(P, i) \cup {P[i].op})'
  BY <1>1, TuneKnows DEF Pll, At, Kept, Chipped, Chip, TuneDone, Flawless
<1> QED
  BY <1>1, <1>2, TuneKnows, TuneOn

LEMMA IdsInTune ==
  ASSUME NEW P, NEW i, kind \in Kinds, InTune(P, i), Ids \/ IdsNow
  PROVE  i + 1 \in 1 .. Len(P) + 1 /\ InTune(P, i + 1)'
<1>1. todo # <<>> /\ Goes /\ UNCHANGED <<kind, ask, cache>> /\ Op # "note"
  BY DEF Ids, IdsNow, At, Kept
<1>2. ASSUME Flawless' PROVE TuneDone(P, Behind(P, i) \cup {P[i].op})'
  <2>1. Flawless /\ TuneDone(P, Behind(P, i)) /\ OrderedAt(P, i, Behind(P, i)) /\ Op = P[i].op
    BY <1>2, TuneKnows, <1>1 DEF Flawless, Ids, IdsNow
  <2>2. CASE Ids
    BY <1>1, <2>1, <2>2 DEF Ids, At, Kept, Chipped, TuneDone, OrderedAt
  <2>3. CASE IdsNow
    BY <1>1, <2>1, <2>3 DEF IdsNow, At, Kept, Chipped, TuneDone, OrderedAt
  <2> QED
    BY <2>2, <2>3
<1> QED
  BY <1>1, <1>2, TuneKnows, TuneOn

LEMMA SetIdInTune ==
  ASSUME NEW P, NEW i, kind \in Kinds, InTune(P, i), SetId
  PROVE  i + 1 \in 1 .. Len(P) + 1 /\ InTune(P, i + 1)'
<1>1. todo # <<>> /\ Goes /\ UNCHANGED <<kind, ask, cache>> /\ Op # "note"
  BY DEF SetId, At, Kept
<1>2. Flawless' => TuneDone(P, Behind(P, i) \cup {P[i].op})'
  BY <1>1, TuneKnows DEF SetId, At, Kept, Chipped, TuneDone, OrderedAt, Flawless
<1> QED
  BY <1>1, <1>2, TuneKnows, TuneOn

LEMMA SelectInTune ==
  ASSUME NEW P, NEW i, kind \in Kinds, InTune(P, i), Select
  PROVE  i + 1 \in 1 .. Len(P) + 1 /\ InTune(P, i + 1)'
<1>1. todo # <<>> /\ Goes /\ UNCHANGED <<kind, ask, cache>> /\ Op # "note"
  BY DEF Select, At, Kept
<1>2. Flawless' => TuneDone(P, Behind(P, i) \cup {P[i].op})'
  BY <1>1, TuneKnows, TuningAssumption DEF Select, At, Kept, Chipped, TuneDone, OrderedAt, Flawless, Carries
<1> QED
  BY <1>1, <1>2, TuneKnows, TuneOn

\* Where the oscillator is given up, the next step is left out too.
LEMMA PllSkipInTune ==
  ASSUME NEW P, NEW i, kind \in Kinds, InTune(P, i), PllSkip
  PROVE  i + 2 \in 1 .. Len(P) + 1 /\ InTune(P, i + 2)'
<1>1. todo # <<>> /\ UNCHANGED <<kind, ask, cache, res>> /\ Op = "pllOrSkip" /\ ~Flawless'
  BY DEF PllSkip, At, Kept, Flawless
<1>2. /\ P \in TunePrograms /\ InCall(P, i) /\ ask \in Chs \X Slots
      /\ "note" \in Behind(P, i) => cache = ask[1]
  BY DEF InTune
<1>3. /\ Ordered(P) /\ P \in Seq(Steps) /\ Len(P) \in Nat
      /\ i \in 1 .. Len(P) /\ Behind(P, i + 1) = Behind(P, i) \cup {Op}
      /\ i + 2 <= Len(P) /\ "note" \in Behind(P, i)
  BY <1>1, TuneGoes DEF Ordered, OrderedAt
<1>4. /\ todo = SubSeq(P, i, Len(P)) /\ res = "busy"
      /\ i \in 1 .. Len(P) + 1 /\ i + 1 \in 1 .. Len(P) + 1 /\ i # Len(P)
  BY <1>2, <1>3 DEF InCall
<1>5. Tail(todo) = SubSeq(P, i + 1, Len(P)) /\ Tail(todo) # <<>>
  BY <1>1, <1>3, <1>4, NextStep
<1>6. Tail(Tail(todo)) = SubSeq(P, i + 1 + 1, Len(P))
  BY <1>3, <1>4, <1>5, NextStep
<1>7. todo' = SubSeq(P, i + 2, Len(P))
  BY <1>3, <1>6 DEF PllSkip
<1>8. InCall(P, i + 2)'
  BY <1>1, <1>3, <1>4, <1>7 DEF InCall
<1>9. P \in TunePrograms' /\ (ask \in Chs \X Slots)'
  BY <1>1, <1>2 DEF TunePrograms
<1>10. cache' = ask'[1]
  BY <1>1, <1>2, <1>3
<1> QED
  BY <1>1, <1>3, <1>8, <1>9, <1>10 DEF InTune

LEMMA FailsInTune ==
  ASSUME NEW P, NEW i, kind \in Kinds, InTune(P, i), Fails, ~Head(todo).strict
  PROVE  i + 1 \in 1 .. Len(P) + 1 /\ InTune(P, i + 1)'
<1>1. todo # <<>> /\ Goes /\ UNCHANGED <<kind, ask, cache, awake, demod, sel, late>> /\ Op # "note"
  BY DEF Fails, Kept
<1>2. ASSUME Flawless' PROVE TuneDone(P, Behind(P, i) \cup {P[i].op})'
  <2>1. Op = "band" /\ Flawless /\ UNCHANGED <<div, sd, list>>
    BY <1>2 DEF Fails, Flawless
  <2> QED
    BY <1>1, <2>1, TuneKnows DEF TuneDone
<1> QED
  BY <1>1, <1>2, TuneKnows, TuneOn

LEMMA SignalInTune ==
  ASSUME NEW P, NEW i, kind \in Kinds, InTune(P, i), Signal
  PROVE  InTune(P, i)'
<1>1. UNCHANGED <<kind, ask, cache, todo, res, div, sd, awake, list, sel, unseen, late>>
  BY DEF Signal, Kept, Chipped
<1>2. /\ P \in TunePrograms /\ ask \in Chs \X Slots /\ InCall(P, i)
      /\ "note" \in Behind(P, i) \/ ~Writes(P) => cache = ask[1]
      /\ Flawless => TuneDone(P, Behind(P, i))
  BY DEF InTune
<1>3. P \in TunePrograms' /\ (ask \in Chs \X Slots)' /\ InCall(P, i)'
  BY <1>1, <1>2 DEF TunePrograms, InCall
<1>4. "agcOn" \in Behind(P, i) => ChannelSet(P, Behind(P, i))
  <2> SUFFICES ASSUME "agcOn" \in Behind(P, i) PROVE ChannelSet(P, Behind(P, i))
    OBVIOUS
  <2>1. Ordered(P) /\ i \in 1 .. Len(P) + 1 /\ Len(P) \in Nat
    BY <1>2, TunesOrdered DEF Ordered, InCall
  <2>2. PICK j \in 1 .. i - 1 : P[j].op = "agcOn"
    BY DEF Behind
  <2>3. j \in 1 .. Len(P) /\ ChannelSet(P, Behind(P, j))
    BY <2>1, <2>2 DEF Ordered, OrderedAt
  <2>4. Behind(P, j) \subseteq Behind(P, i)
    BY <2>1, <2>2 DEF Behind
  <2> QED
    BY <2>3, <2>4 DEF ChannelSet
<1>5. ASSUME Flawless' PROVE TuneDone(P, Behind(P, i))'
  <2>1. TuneDone(P, Behind(P, i))
    BY <1>1, <1>2, <1>5 DEF Flawless
  <2>2. "agcOn" \in Behind(P, i) => demod' \in {0, ask[1]}
    BY <1>4, <2>1 DEF Signal, Locks, Loses, Chip, TuneDone, ChannelSet
  <2> QED
    BY <1>1, <2>1, <2>2 DEF TuneDone
<1> QED
  BY <1>1, <1>2, <1>3, <1>5 DEF InTune

\* A tune that ends without success leaves what the driver remembers true.
LEMMA TuneGivenUp ==
  ASSUME NEW P, NEW i, kind \in Kinds, InTune(P, i),
         TimesOut \/ (Fails /\ Head(todo).strict)
  PROVE  AtRest'
<1>1. todo # <<>> /\ UNCHANGED <<kind, cache>> /\ todo' = <<>> /\ res' = "failed"
  BY DEF TimesOut, Fails, At, Kept, GivesUp
<1>2. ASSUME Caches(kind), Flawless' PROVE div' = cache /\ sd' = cache
  <2>1. OrderedAt(P, i, Behind(P, i)) /\ Op = P[i].op /\ Head(todo) = P[i]
    BY <1>1, TuneGoes
  <2>2. TimesOut
    <3>1. Fails => Op # "note"
      BY DEF Fails
    <3> QED
      BY <1>2, <2>1, <3>1 DEF OrderedAt
  <2>3. UNCHANGED <<div, sd, unseen, ask>>
    BY <2>2 DEF TimesOut, Chipped, Kept
  <2>4. Op = "lock" /\ (Writes(P) => {"div", "sd", "note"} \subseteq Behind(P, i))
    BY <1>2, <2>1, <2>2 DEF OrderedAt, TimesOut, At
  <2>5. TuneDone(P, Behind(P, i)) /\ cache = ask[1]
    BY <1>1, <1>2, <2>3, <2>4, TuneKnows DEF Flawless
  <2> QED
    BY <2>3, <2>4, <2>5 DEF TuneDone
<1>3. CacheTrue'
  BY <1>1, <1>2 DEF CacheTrue, Caches
<1> QED
  BY <1>1, <1>3 DEF AtRest


-----------------------------------------------------------------------------
(* Sleep and wake.                                                           *)

PowerAt(P, i, b) ==
  /\ P[i].op \in {"agcOff", "standby", "wake", "note", "abort", "rf", "rest"}
  /\ P[i].op = "note" => kind = "mx"
  /\ P[i].op = "standby" => "wake" \notin b
PowerOrdered(P) ==
  /\ P \in Seq(Steps) /\ Len(P) \in Nat \ {0}
  /\ \A i \in 1 .. Len(P) : PowerAt(P, i, Behind(P, i))

LEMMA MxWakeSteps ==
  LET P == <<G("wake")>> \o MxRf IN
  /\ P \in Seq(Steps) /\ Len(P) = 5 /\ P[1] = G("wake") /\ P[2] = S("note")
  /\ P[3] = G("abort") /\ P[4] = G("rf") /\ P[5] = G("rest")
<1> DEFINE s0 == <<G("wake")>>
           s1 == MxRf
<1>1. s0 \in Seq(Steps) /\ Len(s0) = 1 /\ s0[1] = G("wake")
  BY StepTypes DEF OpNames
<1>2. /\ s1 \in Seq(Steps) /\ Len(s1) = 4 /\ s1[1] = S("note") /\ s1[2] = G("abort")
      /\ s1[3] = G("rf") /\ s1[4] = G("rest")
  BY MxRfSteps
<1> HIDE DEF s0, s1
<1>3. /\ s0 \o s1 \in Seq(Steps) /\ Len(s0 \o s1) = Len(s0) + Len(s1)
      /\ \A i \in 1 .. Len(s0) + Len(s1) :
           (s0 \o s1)[i] = IF i <= Len(s0) THEN s0[i] ELSE s1[i - Len(s0)]
  BY <1>1, <1>2, Joined
<1>4. /\ s0 \o s1 \in Seq(Steps) /\ Len(s0 \o s1) = 5 /\ (s0 \o s1)[1] = G("wake")
      /\ (s0 \o s1)[2] = S("note") /\ (s0 \o s1)[3] = G("abort") /\ (s0 \o s1)[4] = G("rf")
      /\ (s0 \o s1)[5] = G("rest")
  BY <1>1, <1>2, <1>3
<1> QED
  BY <1>4 DEF s0, s1

LEMMA PowerIsOrdered ==
  ASSUME kind \in Kinds
  PROVE  /\ \A P \in PowerPrograms : PowerOrdered(P)
         /\ kind = "mx" => {"rf", "wake"} \subseteq All(WakeProgram)
<1>1. PowerOrdered(SleepProgram)
  <2> DEFINE P == SleepProgram
  <2>1. /\ P \in Seq(Steps) /\ Len(P) = 2 /\ P[1].op = "agcOff" /\ P[2].op = "standby"
    BY StepTypes DEF OpNames, SleepProgram, S, G
  <2> HIDE DEF P
  <2>2. PowerOrdered(P)
    BY <2>1 DEF PowerOrdered, PowerAt, Behind
  <2> QED
    BY <2>2, Zenon DEF P
<1>2. PowerOrdered(WakeProgram) /\ (kind = "mx" => {"rf", "wake"} \subseteq All(WakeProgram))
  <2> DEFINE P == WakeProgram
  <2>1. CASE kind = "mx"
    <3>1. P = <<G("wake")>> \o MxRf
      BY <2>1 DEF WakeProgram
    <3> HIDE DEF P
    <3>2. /\ P \in Seq(Steps) /\ Len(P) = 5 /\ P[1] = G("wake") /\ P[2] = S("note")
          /\ P[3] = G("abort") /\ P[4] = G("rf") /\ P[5] = G("rest")
      BY <3>1, MxWakeSteps, Zenon
    <3>3. /\ P[1].op = "wake" /\ P[2].op = "note" /\ P[3].op = "abort" /\ P[4].op = "rf"
          /\ P[5].op = "rest"
      BY <3>2 DEF S, G
    <3>4. PowerOrdered(P)
      BY <2>1, <3>2, <3>3 DEF PowerOrdered, PowerAt, Behind
    <3>5. {"rf", "wake"} \subseteq All(P)
      BY <3>2, <3>3 DEF All, Behind
    <3> QED
      BY <3>4, <3>5, Zenon DEF P
  <2>2. CASE kind # "mx"
    <3>1. P \in Seq(Steps) /\ Len(P) = 1 /\ P[1].op = "wake"
      BY <2>2, StepTypes DEF OpNames, WakeProgram, S, G
    <3> HIDE DEF P
    <3>2. PowerOrdered(P)
      BY <3>1 DEF PowerOrdered, PowerAt, Behind
    <3> QED
      BY <2>2, <3>2, Zenon DEF P
  <2> QED
    BY <2>1, <2>2
<1> QED
  BY <1>1, <1>2 DEF PowerPrograms

\* The next step of a sleep or wake.
LEMMA PowerGoes ==
  ASSUME NEW P, NEW i, kind \in Kinds, InPower(P, i), todo # <<>>
  PROVE  /\ i \in 1 .. Len(P) /\ Head(todo) = P[i] /\ Op = P[i].op
         /\ PowerAt(P, i, Behind(P, i)) /\ Behind(P, i + 1) = Behind(P, i) \cup {P[i].op}
         /\ Goes /\ UNCHANGED <<kind, ask>> =>
              P \in PowerPrograms' /\ InCall(P, i + 1)' /\ i + 1 \in 1 .. Len(P) + 1
<1>1. P \in PowerPrograms /\ InCall(P, i)
  BY DEF InPower
<1>2. PowerOrdered(P) /\ P \in Seq(Steps) /\ Len(P) \in Nat \ {0}
  BY <1>1, PowerIsOrdered DEF PowerOrdered
<1>3. i \in 1 .. Len(P) + 1 /\ todo = SubSeq(P, i, Len(P))
  BY <1>1 DEF InCall
<1>4. /\ i \in 1 .. Len(P) /\ Head(todo) = P[i] /\ Tail(todo) = SubSeq(P, i + 1, Len(P))
      /\ Tail(todo) = <<>> <=> i = Len(P)
  BY <1>2, <1>3, NextStep
<1>5. i \in Nat \ {0} /\ Op = P[i].op /\ PowerAt(P, i, Behind(P, i))
  BY <1>2, <1>4 DEF Op, PowerOrdered
<1>6. Behind(P, i + 1) = Behind(P, i) \cup {P[i].op}
  BY <1>5, BehindNext
<1>7. ASSUME Goes, UNCHANGED <<kind, ask>>
      PROVE  P \in PowerPrograms' /\ InCall(P, i + 1)' /\ i + 1 \in 1 .. Len(P) + 1
  <2>1. P \in PowerPrograms'
    BY <1>1, <1>7 DEF PowerPrograms, SleepProgram, WakeProgram
  <2>2. todo' = SubSeq(P, i + 1, Len(P)) /\ i + 1 \in 1 .. Len(P) + 1
    BY <1>2, <1>4, <1>7 DEF Goes
  <2>3. res' = IF i + 1 <= Len(P) THEN "busy" ELSE IF ask[1] = 0 THEN "none" ELSE "ok"
    BY <1>2, <1>4, <1>7 DEF Goes
  <2> QED
    BY <1>1, <1>7, <2>1, <2>2, <2>3 DEF InCall
<1> QED
  BY <1>2, <1>4, <1>5, <1>6, <1>7

\* A step of a sleep or wake that goes on leads to its next place, and leaves
\* what the other steps have done.
LEMMA PowerOn ==
  ASSUME NEW P, NEW i, kind \in Kinds, InPower(P, i), todo # <<>>, Goes, UNCHANGED <<kind, ask>>,
         cache' = IF Op = "note" THEN ask[1] ELSE cache,
         Flawless' => /\ Flawless
                      /\ IF Op = "rf" THEN div' = ask[1] /\ sd' = ask[1] ELSE UNCHANGED <<div, sd>>
                      /\ IF Op = "wake" THEN awake' ELSE Op = "standby" \/ UNCHANGED awake
  PROVE  i + 1 \in 1 .. Len(P) + 1 /\ InPower(P, i + 1)'
<1>1. /\ i \in 1 .. Len(P) /\ Op = P[i].op /\ PowerAt(P, i, Behind(P, i))
      /\ Behind(P, i + 1) = Behind(P, i) \cup {P[i].op}
      /\ P \in PowerPrograms' /\ InCall(P, i + 1)' /\ i + 1 \in 1 .. Len(P) + 1
  BY PowerGoes
<1>2. /\ ask[1] \in {0, cache} /\ ask[2] = NoSlot
      /\ ask[1] # 0 => kind = "mx" /\ P = WakeProgram
      /\ Flawless => /\ "rf" \in Behind(P, i) => div = ask[1] /\ sd = ask[1]
                     /\ "wake" \in Behind(P, i) => awake
  BY DEF InPower
<1>3. (ask[1] \in {0, cache})' /\ (ask[2] = NoSlot)'
  BY <1>2 DEF NoSlot
<1>4. ask'[1] # 0 => kind' = "mx" /\ P = WakeProgram'
  BY <1>2 DEF WakeProgram
<1>5. ASSUME Flawless'
      PROVE  /\ "rf" \in Behind(P, i + 1) => div' = ask'[1] /\ sd' = ask'[1]
             /\ "wake" \in Behind(P, i + 1) => awake'
  BY <1>1, <1>2, <1>5 DEF PowerAt
<1> QED
  BY <1>1, <1>3, <1>4, <1>5 DEF InPower

LEMMA PowerStep ==
  ASSUME NEW P, NEW i, kind \in Kinds, Sleeps(kind), InPower(P, i), TuNext, todo # <<>>
  PROVE  /\ UNCHANGED kind
         /\ cache' # 0 => kind = "mx" \/ cache # 0
         /\ \/ AtRest'
            \/ InPower(P, i)'
            \/ i + 1 \in 1 .. Len(P) + 1 /\ InPower(P, i + 1)'
<1>1. /\ i \in 1 .. Len(P) /\ Head(todo) = P[i] /\ Op = P[i].op
      /\ PowerAt(P, i, Behind(P, i))
  BY PowerGoes
<1>2. Op \in {"agcOff", "standby", "wake", "note", "abort", "rf", "rest"} /\ (Op = "note" => kind = "mx")
  BY <1>1 DEF PowerAt
<1>3. ~(\E ch \in Chs, slot \in Slots : Tune(ch, slot)) /\ ~Sleep /\ ~Wake
  BY DEF Tune, Sleep, Wake, Begin
<1>4. /\ ~Pll /\ ~PllSkip /\ ~Lock /\ ~Ids /\ ~IdsNow /\ ~SetId /\ ~GetId /\ ~Select /\ ~TimesOut
  BY <1>2 DEF Pll, PllSkip, Lock, Ids, IdsNow, SetId, GetId, Select, TimesOut, At
<1>5. CASE Agc \/ Plain
  <2>1. Goes /\ UNCHANGED <<kind, ask, cache, div, sd, awake, unseen>> /\ Op \notin {"note", "rf", "wake"}
    BY <1>5 DEF Agc, Plain, At, Kept, Chipped
  <2> QED
    BY <2>1, PowerOn DEF Flawless
<1>6. CASE Registers
  <2>1. Goes /\ UNCHANGED <<kind, ask, cache, awake, unseen>> /\ div' = ask[1] /\ sd' = ask[1] /\ Op = "rf"
    BY <1>2, <1>6 DEF Registers, At, Kept
  <2> QED
    BY <2>1, PowerOn DEF Flawless
<1>7. CASE Note
  <2>1. Goes /\ UNCHANGED <<kind, ask, awake, unseen, div, sd>> /\ cache' = ask[1] /\ Op = "note"
    BY <1>7 DEF Note, At, Kept, Chipped
  <2> QED
    BY <1>2, <2>1, PowerOn DEF Flawless
<1>8. CASE Power
  <2>1. /\ Goes /\ UNCHANGED <<kind, ask, cache, unseen, div, sd>> /\ Op \in {"standby", "wake"}
        /\ awake' = (Op = "wake")
    BY <1>8 DEF Power, At, Kept
  <2>2. Op = "wake" => awake'
    BY <2>1, Zenon
  <2> QED
    BY <2>1, <2>2, PowerOn DEF Flawless
<1>9. CASE Fails
  <2>1. UNCHANGED <<kind, ask, cache, awake>> /\ Op # "note"
    BY <1>9 DEF Fails, Kept
  <2>2. CASE Head(todo).strict
    <3>1. todo' = <<>> /\ res' = "failed"
      BY <1>9, <2>2 DEF Fails, GivesUp
    <3> QED
      BY <2>1, <3>1 DEF AtRest, CacheTrue, Sleeps, Caches
  <2>3. CASE ~Head(todo).strict
    <3>1. Goes /\ ~Flawless'
      BY <1>2, <1>9, <2>3 DEF Fails, Flawless
    <3> QED
      BY <2>1, <3>1, PowerOn
  <2> QED
    BY <2>2, <2>3
<1>10. CASE Signal
  <2>1. UNCHANGED <<kind, ask, cache, todo, res, div, sd, awake, unseen>>
    BY <1>10 DEF Signal, Kept, Chipped
  <2>2. InPower(P, i)'
    BY <2>1 DEF InPower, InCall, PowerPrograms, SleepProgram, WakeProgram, Flawless
  <2> QED
    BY <2>1, <2>2
<1> QED
  BY <1>3, <1>4, <1>5, <1>6, <1>7, <1>8, <1>9, <1>10 DEF TuNext

LEMMA TuneStep ==
  ASSUME NEW P, NEW i, kind \in Kinds, InTune(P, i), TuNext, todo # <<>>
  PROVE  /\ UNCHANGED kind /\ (~Sleeps(kind) => UNCHANGED awake)
         /\ cache' # 0 => cache # 0 \/ kind = "mx" \/ Caches(kind)
         /\ AtRest' \/ \E j \in 1 .. Len(P) + 1 : InTune(P, j)'
<1>1. OrderedAt(P, i, Behind(P, i)) /\ Op = P[i].op /\ i \in 1 .. Len(P) + 1
  BY TuneGoes
<1>2. Op \notin {"standby", "wake"} /\ (Op = "note" => kind = "mx" \/ Caches(kind))
  BY <1>1 DEF OrderedAt
<1>3. ~(\E ch \in Chs, slot \in Slots : Tune(ch, slot)) /\ ~Sleep /\ ~Wake /\ ~Power
  BY <1>2 DEF Tune, Sleep, Wake, Begin, Power, At
<1>4. CASE Agc
  BY <1>4, AgcInTune DEF Agc, Kept, Chipped
<1>5. CASE Plain \/ Lock \/ GetId
  BY <1>5, PlainInTune DEF Plain, Lock, GetId, Kept, Chipped
<1>6. CASE Registers
  BY <1>6, RegistersInTune DEF Registers, Kept
<1>7. CASE Note
  <2>1. UNCHANGED <<kind, awake>> /\ Op = "note"
    BY <1>7 DEF Note, Kept, Chipped, At
  <2> QED
    BY <1>2, <1>7, <2>1, NoteInTune
<1>8. CASE Pll
  BY <1>8, PllInTune DEF Pll, Kept, Chipped
<1>9. CASE PllSkip
  BY <1>9, PllSkipInTune DEF PllSkip, Kept, Chipped
<1>10. CASE Ids \/ IdsNow
  BY <1>10, IdsInTune DEF Ids, IdsNow, Kept, Chipped
<1>11. CASE SetId
  BY <1>11, SetIdInTune DEF SetId, Kept, Chipped
<1>12. CASE Select
  BY <1>12, SelectInTune DEF Select, Kept, Chipped
<1>13. CASE TimesOut
  BY <1>13, TuneGivenUp DEF TimesOut, Kept, Chipped
<1>14. CASE Fails
  <2>1. UNCHANGED <<kind, cache, awake>>
    BY <1>14 DEF Fails, Kept
  <2> QED
    BY <1>14, <2>1, FailsInTune, TuneGivenUp
<1>15. CASE Signal
  <2>1. UNCHANGED <<kind, cache, awake>>
    BY <1>15 DEF Signal, Kept, Chipped
  <2> QED
    BY <1>1, <1>15, <2>1, SignalInTune
<1> QED
  BY <1>3, <1>4, <1>5, <1>6, <1>7, <1>8, <1>9, <1>10, <1>11, <1>12, <1>13, <1>14, <1>15 DEF TuNext

-----------------------------------------------------------------------------
(* Between the calls.                                                        *)

\* A call that has ended: every step of its program is behind it.
LEMMA CallEnded ==
  ASSUME NEW P, NEW i, P \in Seq(Steps), InCall(P, i), todo = <<>>
  PROVE  i = Len(P) + 1 /\ Behind(P, i) = All(P)
<1>1. Len(P) \in Nat /\ i \in 1 .. Len(P) + 1
  BY LenProperties DEF InCall
<1>2. i = Len(P) + 1
  BY <1>1, NextStep DEF InCall
<1> QED
  BY <1>2 DEF All

LEMMA RestIsTrue ==
  ASSUME TuneInv, todo = <<>>
  PROVE  CacheTrue
<1>1. CASE AtRest
  BY <1>1 DEF AtRest
<1>2. ASSUME NEW P \in TunePrograms, NEW i \in 1 .. Len(P) + 1, InTune(P, i) PROVE CacheTrue
  <2>1. P \in Seq(Steps) /\ Complete(P, All(P))
    BY TunesOrdered DEF TuneInv, Ordered
  <2>2. Behind(P, i) = All(P)
    BY <1>2, <2>1, CallEnded DEF InTune
  <2> QED
    BY <1>2, <2>1, <2>2 DEF InTune, CacheTrue, TuneDone, Complete, ChannelSet
<1>3. CASE Sleeps(kind)
  BY <1>3 DEF CacheTrue, Sleeps, Caches
<1> QED
  BY <1>1, <1>2, <1>3 DEF TuneInv

LEMMA BeginCall ==
  ASSUME NEW program, NEW ch, NEW slot, program \in Seq(Steps), Len(program) \in Nat \ {0},
         Begin(program, ch, slot)
  PROVE  InCall(program, 1)' /\ Behind(program, 1) = {} /\ 1 \in 1 .. Len(program) + 1
<1>1. todo' = program /\ res' = "busy"
  BY DEF Begin
<1>2. SubSeq(program, 1, Len(program)) = program
  BY SubSeqFull
<1> QED
  BY <1>1, <1>2, BehindNothing DEF InCall

LEMMA TuneBegins ==
  ASSUME NEW ch \in Chs, NEW slot \in Slots, TuneInv, Tune(ch, slot)
  PROVE  \E P \in TunePrograms' : 1 \in 1 .. Len(P) + 1 /\ InTune(P, 1)'
<1>0. PICK P : P = TuneProgram(ch)
  OBVIOUS
<1>1. P \in TunePrograms
  BY <1>0 DEF TuneProgram, TunePrograms, TuneInv, Kinds
<1>2. /\ Begin(P, ch, slot) /\ todo = <<>>
      /\ unseen' = IF Caches(kind) /\ cache = ch THEN unseen ELSE {}
  BY <1>0 DEF Tune, Begin
<1>3. ~Writes(P) => Caches(kind) /\ cache = ch
  <2>1. Ordered(P)
    BY <1>1, TunesOrdered DEF TuneInv
  <2>2. ~Writes(P) => Caches(kind)
    BY <2>1 DEF Ordered, Complete
  <2>3. kind = "tda" /\ cache # ch => Writes(P)
    <3>1. Writes(TdaChannel(FALSE))
      <4>1. PICK Q : Q = TdaChannel(FALSE)
        OBVIOUS
      <4>2. Len(Q) = 11 /\ Q[4] = G("div")
        BY <4>1, TdaSetSteps, Zenon
      <4>3. Writes(Q)
        BY <4>2 DEF Writes, G
      <4> QED
        BY <4>1, <4>3, Zenon
    <3>2. kind = "tda" /\ cache # ch => P = TdaChannel(FALSE)
      <4> SUFFICES ASSUME kind = "tda", cache # ch PROVE P = TdaChannel(FALSE)
        OBVIOUS
      <4>1. (cache = ch) = FALSE
        OBVIOUS
      <4>2. P = TdaChannel(cache = ch)
        BY <1>0 DEF TuneProgram
      <4> QED
        BY <4>1, <4>2, Zenon
    <3> QED
      BY <3>1, <3>2
  <2>4. kind = "nm" /\ cache # ch => Writes(P)
    <3>1. Writes(NmChannel(FALSE))
      <4>1. PICK Q : Q = NmChannel(FALSE)
        OBVIOUS
      <4>2. Len(Q) = 7 /\ Q[3] = G("div")
        BY <4>1, NmSetSteps, Zenon
      <4>3. Writes(Q)
        BY <4>2 DEF Writes, G
      <4> QED
        BY <4>1, <4>3, Zenon
    <3>2. kind = "nm" /\ cache # ch => P = NmChannel(FALSE)
      <4> SUFFICES ASSUME kind = "nm", cache # ch PROVE P = NmChannel(FALSE)
        OBVIOUS
      <4>1. (cache = ch) = FALSE
        OBVIOUS
      <4>2. P = NmChannel(cache = ch)
        BY <1>0 DEF TuneProgram
      <4> QED
        BY <4>1, <4>2, Zenon
    <3> QED
      BY <3>1, <3>2
  <2> QED
    BY <2>2, <2>3, <2>4 DEF Caches
<1>4. Ordered(P)
  BY <1>1, TunesOrdered DEF TuneInv
<1>5. InCall(P, 1)' /\ Behind(P, 1) = {} /\ 1 \in 1 .. Len(P) + 1
  BY <1>2, <1>4, BeginCall DEF Ordered
<1>6. UNCHANGED <<kind, div, sd, awake, cache, demod, list, sel>> /\ ask' = <<ch, slot>>
  BY <1>2 DEF Begin
<1>7. P \in TunePrograms' /\ (ask \in Chs \X Slots)' /\ ask'[1] = ch
  BY <1>1, <1>6 DEF TunePrograms
<1>8. ~Writes(P) => cache' = ask'[1]
  BY <1>3, <1>6, <1>7
<1>9. ASSUME Flawless' PROVE TuneDone(P, {})'
  <2>1. ~Writes(P) => Flawless
    BY <1>2, <1>3, <1>9 DEF Flawless
  <2>2. ~Writes(P) => div = ch /\ sd = ch
    BY <1>2, <1>3, <2>1, RestIsTrue, TuningAssumption DEF CacheTrue
  <2> QED
    BY <1>6, <1>7, <2>2 DEF TuneDone
<1>10. Flawless' => TuneDone(P, Behind(P, 1))'
  BY <1>5, <1>9 DEF TuneDone
<1>11. InTune(P, 1)'
  BY <1>5, <1>7, <1>8, <1>10 DEF InTune
<1> QED
  BY <1>5, <1>7, <1>11

LEMMA PowerBegins ==
  ASSUME TuneInv, Sleep \/ Wake
  PROVE  \E P \in PowerPrograms' : 1 \in 1 .. Len(P) + 1 /\ InPower(P, 1)'
<1>1. PICK P, c : /\ P \in PowerPrograms /\ Begin(P, c, NoSlot) /\ c \in {0, cache}
                  /\ c # 0 => P = WakeProgram
                  /\ Sleeps(kind) /\ unseen' = unseen
  BY DEF Sleep, Wake, PowerPrograms
<1>2. P \in Seq(Steps) /\ Len(P) \in Nat \ {0}
  BY <1>1, PowerIsOrdered DEF PowerOrdered, TuneInv
<1>3. InCall(P, 1)' /\ Behind(P, 1) = {} /\ 1 \in 1 .. Len(P) + 1
  BY <1>1, <1>2, BeginCall
<1>4. UNCHANGED <<kind, cache>> /\ ask' = <<c, NoSlot>>
  BY <1>1 DEF Begin
<1>5. c # 0 => kind = "mx"
  BY <1>1 DEF TuneInv, Sleeps, Caches
<1>6. P \in PowerPrograms' /\ WakeProgram' = WakeProgram
  BY <1>1, <1>4 DEF PowerPrograms, SleepProgram, WakeProgram
<1>7. /\ ask'[1] = c /\ ask'[2] = NoSlot
  BY <1>4
<1> QED
  BY <1>1, <1>3, <1>4, <1>5, <1>6, <1>7 DEF InPower

LEMMA TuneInvInit == TuInit => TuneInv
BY DEF TuInit, TuneInv, AtRest, CacheTrue, Kinds, Sleeps, Caches

LEMMA TuneInvNext == TuneInv /\ [TuNext]_tuVars => TuneInv'
<1> SUFFICES ASSUME TuneInv, [TuNext]_tuVars PROVE TuneInv'
  OBVIOUS
<1>1. kind \in Kinds /\ (~Sleeps(kind) => awake) /\ (cache # 0 => kind = "mx" \/ Caches(kind))
  BY DEF TuneInv
<1>2. CASE UNCHANGED tuVars
  <2>1. UNCHANGED <<kind, div, sd, awake, cache, demod, list, sel, todo, ask, res, unseen, late>>
    BY <1>2 DEF tuVars
  <2>2. AtRest => AtRest'
    BY <2>1 DEF AtRest, CacheTrue, Flawless, Caches
  <2>3. ASSUME NEW P \in TunePrograms, NEW i \in 1 .. Len(P) + 1, InTune(P, i)
        PROVE  P \in TunePrograms' /\ InTune(P, i)'
    BY <2>1, <2>3 DEF InTune, InCall, TunePrograms, TuneDone, Flawless
  <2>4. ASSUME NEW P \in PowerPrograms, NEW i \in 1 .. Len(P) + 1, InPower(P, i)
        PROVE  P \in PowerPrograms' /\ InPower(P, i)'
    BY <2>1, <2>4 DEF InPower, InCall, PowerPrograms, SleepProgram, WakeProgram, Flawless
  <2>5. Sleeps(kind') = Sleeps(kind) /\ Caches(kind') = Caches(kind)
    BY <2>1
  <2>6. CASE AtRest
    BY <1>1, <2>1, <2>2, <2>5, <2>6 DEF TuneInv
  <2>7. ASSUME NEW P \in TunePrograms, NEW i \in 1 .. Len(P) + 1, InTune(P, i) PROVE TuneInv'
    BY <1>1, <2>1, <2>3, <2>5, <2>7 DEF TuneInv
  <2>8. ASSUME NEW P \in PowerPrograms, NEW i \in 1 .. Len(P) + 1, InPower(P, i), Sleeps(kind)
        PROVE  TuneInv'
    BY <1>1, <2>1, <2>4, <2>5, <2>8 DEF TuneInv
  <2> QED
    BY <2>6, <2>7, <2>8 DEF TuneInv
<1>3. ASSUME NEW ch \in Chs, NEW slot \in Slots, Tune(ch, slot) PROVE TuneInv'
  <2>1. UNCHANGED <<kind, awake, cache>>
    BY <1>3 DEF Tune, Begin
  <2>2. \E P \in TunePrograms' : \E i \in 1 .. Len(P) + 1 : InTune(P, i)'
    BY <1>3, TuneBegins
  <2> QED
    BY <1>1, <2>1, <2>2 DEF TuneInv
<1>4. CASE Sleep \/ Wake
  <2>1. UNCHANGED <<kind, awake, cache>> /\ Sleeps(kind)
    BY <1>4 DEF Sleep, Wake, Begin
  <2> QED
    BY <1>1, <1>4, <2>1, PowerBegins DEF TuneInv
<1>5. CASE TuNext /\ todo # <<>>
  <2>1. PICK P, i : InTune(P, i) \/ (Sleeps(kind) /\ InPower(P, i))
    BY <1>5 DEF TuneInv, AtRest
  <2>2. CASE InTune(P, i)
    <3>1. /\ UNCHANGED kind /\ (~Sleeps(kind) => UNCHANGED awake)
          /\ cache' # 0 => cache # 0 \/ kind = "mx" \/ Caches(kind)
          /\ AtRest' \/ \E j \in 1 .. Len(P) + 1 : InTune(P, j)'
      BY <1>1, <1>5, <2>2, TuneStep
    <3>2. AtRest' \/ \E Q \in TunePrograms' : \E j \in 1 .. Len(Q) + 1 : InTune(Q, j)'
      BY <3>1 DEF InTune
    <3> QED
      BY <1>1, <3>1, <3>2 DEF TuneInv
  <2>3. CASE Sleeps(kind) /\ InPower(P, i)
    <3>1. /\ UNCHANGED kind
          /\ cache' # 0 => kind = "mx" \/ cache # 0
          /\ \/ AtRest'
             \/ InPower(P, i)'
             \/ i + 1 \in 1 .. Len(P) + 1 /\ InPower(P, i + 1)'
      BY <1>1, <1>5, <2>3, PowerStep
    <3>2. i \in 1 .. Len(P) + 1
      BY <2>3 DEF InPower, InCall
    <3>3. AtRest' \/ \E Q \in PowerPrograms' : \E j \in 1 .. Len(Q) + 1 : InPower(Q, j)'
      BY <3>1, <3>2 DEF InPower
    <3> QED
      BY <1>1, <2>3, <3>1, <3>3 DEF TuneInv
  <2> QED
    BY <2>1, <2>2, <2>3
<1>6. CASE Signal /\ todo = <<>>
  <2>1. UNCHANGED <<kind, div, sd, awake, cache, list, sel, todo, ask, res, unseen, late>>
    BY <1>6 DEF Signal, Kept, Chipped
  <2>2. AtRest => AtRest'
    BY <2>1 DEF AtRest, CacheTrue, Flawless, Caches
  <2>3. ASSUME NEW P \in TunePrograms, NEW i \in 1 .. Len(P) + 1, InTune(P, i)
        PROVE  P \in TunePrograms' /\ InTune(P, i)'
    BY <1>1, <1>6, <2>3, SignalInTune DEF InTune
  <2>4. ASSUME NEW P \in PowerPrograms, NEW i \in 1 .. Len(P) + 1, InPower(P, i)
        PROVE  P \in PowerPrograms' /\ InPower(P, i)'
    BY <2>1, <2>4 DEF InPower, InCall, PowerPrograms, SleepProgram, WakeProgram, Flawless
  <2>5. CASE AtRest
    BY <1>1, <2>1, <2>2, <2>5 DEF TuneInv
  <2>6. ASSUME NEW P \in TunePrograms, NEW i \in 1 .. Len(P) + 1, InTune(P, i) PROVE TuneInv'
    BY <1>1, <2>1, <2>3, <2>6 DEF TuneInv
  <2>7. ASSUME NEW P \in PowerPrograms, NEW i \in 1 .. Len(P) + 1, InPower(P, i), Sleeps(kind)
        PROVE  TuneInv'
    BY <1>1, <2>1, <2>4, <2>7 DEF TuneInv
  <2> QED
    BY <2>5, <2>6, <2>7 DEF TuneInv
<1>7. TuNext /\ todo = <<>> =>
        \/ \E ch \in Chs, slot \in Slots : Tune(ch, slot)
        \/ Sleep \/ Wake \/ Signal
  BY DEF TuNext, Agc, Plain, Registers, Note, Power, Pll, PllSkip, Lock, Ids, IdsNow, SetId,
         GetId, Select, TimesOut, Fails, At
<1> QED
  BY <1>2, <1>3, <1>4, <1>5, <1>6, <1>7

LEMMA TuneInvTuned == TuneInv => TunedAsAsked
<1> SUFFICES ASSUME TuneInv, res = "ok", Flawless
             PROVE  /\ Chip = ask[1]
                    /\ ask[2] # NoSlot => demod \in {0, ask[1]}
                    /\ Sat(kind) => IF Carries(ask[1], ask[2]) THEN late \/ sel = ask
                                    ELSE kind \in {"qm", "tda"}
  BY DEF TunedAsAsked, Flawless
<1>1. ~AtRest
  BY DEF AtRest
<1>2. ASSUME NEW P \in TunePrograms, NEW i \in 1 .. Len(P) + 1, InTune(P, i)
      PROVE  /\ Chip = ask[1] /\ demod \in {0, ask[1]}
             /\ Sat(kind) => IF Carries(ask[1], ask[2]) THEN late \/ sel = ask
                             ELSE kind \in {"qm", "tda"}
  <2>1. P \in Seq(Steps) /\ Complete(P, All(P)) /\ Len(P) \in Nat
    BY TunesOrdered DEF TuneInv, Ordered
  <2>2. i = Len(P) + 1
    BY <1>2, <2>1 DEF InTune, InCall
  <2>3. TuneDone(P, All(P))
    BY <1>2, <2>2 DEF InTune, All
  <2>4. awake
    BY <2>1, <2>3 DEF TuneInv, Complete, TuneDone
  <2> QED
    BY <2>1, <2>3, <2>4 DEF TuneInv, Kinds, Complete, TuneDone, ChannelSet, Chip, Sat
<1>3. ASSUME NEW P \in PowerPrograms, NEW i \in 1 .. Len(P) + 1, InPower(P, i)
      PROVE  Chip = ask[1] /\ ask[2] = NoSlot /\ ~Sat(kind)
  <2>1. P \in Seq(Steps) /\ Len(P) \in Nat
    BY PowerIsOrdered DEF TuneInv, PowerOrdered
  <2>2. i = Len(P) + 1 /\ ask[1] # 0
    BY <1>3, <2>1 DEF InPower, InCall
  <2>3. kind = "mx" /\ {"rf", "wake"} \subseteq Behind(P, i)
    BY <1>3, <2>2, PowerIsOrdered DEF InPower, All, TuneInv
  <2> QED
    BY <1>3, <2>3 DEF InPower, Chip, Sat
<1> QED
  BY <1>1, <1>2, <1>3 DEF TuneInv

\* When a tune reports success, the tuner chip is on the channel asked for and
\* the demodulator shows no lock of another, whichever driver tunes whichever
\* chip, after any calls, sleeps, wakes and failures before it, unless a
\* transfer whose result the driver ignores failed in this tune.
THEOREM TunesArrive == TuSpec => []TunedAsAsked
<1>1. TuneInv => TunedAsAsked
  BY TuneInvTuned
<1> QED
  BY <1>1, TuneInvInit, TuneInvNext, PTL DEF TuSpec
=============================================================================
