------------------------------ MODULE PxqProofs ------------------------------
(***************************************************************************)
(* The PX-Q3PE board and the ring of an adapter, for any number of         *)
(* adapters, processes, sessions and packets.                              *)
(***************************************************************************)
EXTENDS PxqCard, PxqStream, RingArithmetic, FiniteSetTheorems, SequenceTheorems, TLAPS

-----------------------------------------------------------------------------
(* The board.                                                              *)

\* What is left of pxq3pe_dma_start, from nothing to all of it.
OnStep == << <<"on">> >>
Ch1Step == << <<"ch", 1>>, <<"on">> >>
Ch0Step == << <<"ch", 0>>, <<"ch", 1>>, <<"on">> >>
Lefts == {<<>>, OnStep, Ch1Step, Ch0Step, StartSteps}

Working == {"lnb", "write", "mark"}
ProcType ==
  [at : {"idle", "take", "lnb", "write", "mark", "dma"}, a : Adaps, open : BOOLEAN,
   streaming : BOOLEAN, lnb : BOOLEAN, todo : Lefts]

PcTypeOK ==
  /\ ON \in [Adaps -> BOOLEAN] /\ lnb \in BOOLEAN /\ pin \in BOOLEAN
  /\ dmaON \in [Ports -> BOOLEAN]
  /\ chan \in [Ports -> [Chans -> {"off", "filling", "full"}]]
  /\ stat \subseteq Ports \X Chans
  /\ handler \in [at : {"idle", "take"}, port : Ports, ch : Chans]
  /\ proc \in [Procs -> ProcType]
  /\ overlap \in BOOLEAN /\ unheard \in BOOLEAN
  /\ collided \in BOOLEAN /\ early \in BOOLEAN

\* The adapters of the board are on two ports.
LEMMA PortType == \A a \in Adaps : Port(a) \in Ports
<1> SUFFICES ASSUME NEW a \in Adaps PROVE a \div PerPort \in {0, 1}
  BY DEF Port, Ports
<1>1. PerPort \in Nat \ {0} BY PxqCardAssumption
<1>2. a \in 0 .. 2 * PerPort - 1 BY DEF Adaps, adapn
<1> QED BY <1>1, <1>2

\* The first of a few steps, and the others.
LEMMA FirstAndRest ==
  ASSUME NEW a, NEW b, NEW c, NEW d
  PROVE  /\ Head(<<a>>) = a /\ Tail(<<a>>) = <<>>
         /\ Head(<<a, b>>) = a /\ Tail(<<a, b>>) = <<b>>
         /\ Head(<<a, b, c>>) = a /\ Tail(<<a, b, c>>) = <<b, c>>
         /\ Head(<<a, b, c, d>>) = a /\ Tail(<<a, b, c, d>>) = <<b, c, d>>
OBVIOUS

\* What each step of pxq3pe_dma_start does and leaves to do.
LEMMA TodoShape ==
  ASSUME NEW t \in Lefts, t # <<>>
  PROVE  /\ Tail(t) \in Lefts
         /\ \/ t = StartSteps /\ Head(t) = <<"enable">> /\ Tail(t) = Ch0Step
            \/ t = Ch0Step /\ Head(t) = <<"ch", 0>> /\ Tail(t) = Ch1Step
            \/ t = Ch1Step /\ Head(t) = <<"ch", 1>> /\ Tail(t) = OnStep
            \/ t = OnStep /\ Head(t) = <<"on">> /\ Tail(t) = <<>>
<1>1. CASE t = StartSteps
  BY <1>1, FirstAndRest DEF StartSteps, Ch0Step, Lefts
<1>2. CASE t = Ch0Step
  BY <1>2, FirstAndRest DEF Ch0Step, Ch1Step, Lefts
<1>3. CASE t = Ch1Step
  BY <1>3, FirstAndRest DEF Ch1Step, OnStep, Lefts
<1>4. CASE t = OnStep
  BY <1>4, FirstAndRest DEF OnStep, Lefts
<1> QED
  BY <1>1, <1>2, <1>3, <1>4 DEF Lefts

LEMMA PcTypeInit == PcInit => PcTypeOK
<1> SUFFICES ASSUME PcInit PROVE PcTypeOK
  OBVIOUS
<1>1. Closed \in ProcType
  <2>1. 0 \in Adaps
    BY PxqCardAssumption DEF Adaps, adapn
  <2> QED
    BY <2>1 DEF Closed, ProcType, Lefts
<1>2. NoIrqHere \in [at : {"idle", "take"}, port : Ports, ch : Chans]
  BY DEF NoIrqHere, Ports, Chans
<1> QED
  BY <1>1, <1>2 DEF PcInit, PcTypeOK

\* A call that ends leaves the file as it was, or closed.
LEMMA EndType ==
  ASSUME PcTypeOK, NEW u \in Procs
  PROVE  /\ CallEnd(u) \in ProcType
         /\ CallEnd(u).at = "idle" /\ CallEnd(u).open = proc[u].open
         /\ proc[u].open => CallEnd(u).a = proc[u].a
<1>1. 0 \in Adaps
  BY PxqCardAssumption DEF Adaps, adapn
<1>2. proc[u] \in ProcType
  BY DEF PcTypeOK
<1> QED
  BY <1>1, <1>2 DEF CallEnd, Closed, ProcType, Lefts

LEMMA PcTypeNext == PcTypeOK /\ [PcNext]_pcVars => PcTypeOK'
<1> SUFFICES ASSUME PcTypeOK, [PcNext]_pcVars PROVE PcTypeOK'
  OBVIOUS
<1> USE DEF PcTypeOK
<1>0. 0 \in Adaps
  BY PxqCardAssumption DEF Adaps, adapn
<1>1. ASSUME NEW u \in Procs, NEW a \in Adaps, OpenTest(u, a) PROVE PcTypeOK'
  <2>1. proc' \in [Procs -> ProcType]
    <3>1. [proc[u] EXCEPT !.at = "take", !.a = a] \in ProcType
      BY DEF ProcType
    <3>2. proc' = [proc EXCEPT ![u] = [proc[u] EXCEPT !.at = "take", !.a = a]]
      BY <1>1 DEF OpenTest
    <3> QED
      BY <3>1, <3>2
  <2>2. overlap' \in BOOLEAN
    BY <1>1, Zenon DEF OpenTest, Busy
  <2> QED
    BY <1>1, <2>1, <2>2 DEF OpenTest, board
<1>2. ASSUME NEW u \in Procs, OpenTake(u) PROVE PcTypeOK'
  <2>1. proc' \in [Procs -> ProcType]
    <3>1. [proc[u] EXCEPT !.at = "lnb", !.open = TRUE] \in ProcType
      BY DEF ProcType
    <3>2. proc' = [proc EXCEPT ![u] = [proc[u] EXCEPT !.at = "lnb", !.open = TRUE]]
      BY <1>2 DEF OpenTake
    <3> QED
      BY <3>1, <3>2
  <2>2. proc[u].a \in Adaps
    BY DEF ProcType
  <2> QED
    BY <1>2, <2>1, <2>2 DEF OpenTake, board, caught
<1>3. ASSUME NEW u \in Procs, Release(u) PROVE PcTypeOK'
  <2>1. proc[u] \in ProcType
    OBVIOUS
  <2>2. [Closed EXCEPT !.at = "lnb", !.a = proc[u].a] \in ProcType
    BY <2>1 DEF Closed, ProcType, Lefts
  <2> QED
    BY <1>3, <2>1, <2>2 DEF Release, board, ProcType
<1>4. ASSUME NEW u \in Procs, LnbLook(u) PROVE PcTypeOK'
  BY <1>4 DEF LnbLook, board, caught, ProcType, SatInUse
<1>5. ASSUME NEW u \in Procs, LnbAsItIs(u) PROVE PcTypeOK'
  BY <1>5, EndType DEF LnbAsItIs, board, caught
<1>6. ASSUME NEW u \in Procs, LnbWrite(u) PROVE PcTypeOK'
  BY <1>6 DEF LnbWrite, board, ProcType
<1>7. ASSUME NEW u \in Procs, LnbMark(u) PROVE PcTypeOK'
  <2>1. proc[u].lnb \in BOOLEAN
    BY DEF ProcType
  <2> QED
    BY <1>7, <2>1, EndType DEF LnbMark, board, caught
<1>8. ASSUME NEW u \in Procs, StartRec(u) PROVE PcTypeOK'
  BY <1>8 DEF StartRec, board, caught, ProcType, Lefts
<1>9. ASSUME NEW u \in Procs, StartStep(u) PROVE PcTypeOK'
  <2>1. proc[u] \in ProcType
    OBVIOUS
  <2>2. proc[u].todo \in Lefts /\ proc[u].todo # <<>> /\ Port(proc[u].a) \in Ports
    BY <1>9, <2>1, PortType DEF StartStep, ProcType
  <2>3. Tail(proc[u].todo) \in Lefts /\ <<>> \in Lefts
    BY <2>2, TodoShape DEF Lefts
  <2>4. proc' \in [Procs -> ProcType]
    <3>1. [proc[u] EXCEPT !.todo = Tail(proc[u].todo)] \in ProcType
      BY <2>1, <2>3 DEF ProcType
    <3>2. [proc[u] EXCEPT !.todo = <<>>] \in ProcType
      BY <2>1, <2>3 DEF ProcType
    <3>3. \/ proc' = [proc EXCEPT ![u] = [proc[u] EXCEPT !.todo = Tail(proc[u].todo)]]
          \/ proc' = [proc EXCEPT ![u] = [proc[u] EXCEPT !.todo = <<>>]]
      BY <1>9 DEF StartStep
    <3> QED
      BY <3>1, <3>2, <3>3
  <2>5. dmaON' \in [Ports -> BOOLEAN]
    BY <1>9, <2>2 DEF StartStep
  <2>6. chan' \in [Ports -> [Chans -> {"off", "filling", "full"}]]
    BY <1>9, <2>2 DEF StartStep
  <2> QED
    BY <1>9, <2>4, <2>5, <2>6 DEF StartStep, caught
<1>10. ASSUME NEW u \in Procs, StartEnd(u) PROVE PcTypeOK'
  BY <1>10 DEF StartEnd, board, caught, ProcType
<1>11. ASSUME NEW u \in Procs, StopRec(u) PROVE PcTypeOK'
  <2>1. proc[u] \in ProcType
    OBVIOUS
  <2> QED
    BY <1>11, <2>1, PortType DEF StopRec, board, caught, ProcType
<1>12. ASSUME NEW p \in Ports, NEW c \in Chans, Fill(p, c) PROVE PcTypeOK'
  BY <1>12 DEF Fill, caught
<1>13. CASE IrqBegin
  BY <1>13, Zenon DEF IrqBegin, PortOf, ChOf, Ports, Chans
<1>14. CASE IrqEnd
  BY <1>14 DEF IrqEnd, NoIrqHere, Ports, Chans
<1>15. CASE UNCHANGED pcVars
  BY <1>15 DEF pcVars, board, caught
<1> QED
  BY <1>1, <1>2, <1>3, <1>4, <1>5, <1>6, <1>7, <1>8, <1>9, <1>10, <1>11, <1>12, <1>13,
     <1>14, <1>15 DEF PcNext

-----------------------------------------------------------------------------
(* No channel is forgotten.                                                *)

Held(p, c) == handler.at = "take" /\ handler.port = p /\ handler.ch = c

\* A start gives the channels their first buffers before it marks the port,
\* and nothing takes a buffer away for good.
StallInv ==
  /\ \A u \in Procs : proc[u].at = "dma" =>
       /\ proc[u].todo \in {Ch1Step, OnStep} => chan[Port(proc[u].a)][0] # "off"
       /\ proc[u].todo = OnStep => chan[Port(proc[u].a)][1] # "off"
  /\ \A p \in Ports : dmaON[p] => \A c \in Chans : chan[p][c] # "off"
  /\ ~collided /\ ~early =>
       \A p \in Ports, c \in Chans :
         chan[p][c] = "full" => <<p, c>> \in stat \/ Held(p, c)

LEMMA StallInit == PcInit => StallInv
BY DEF PcInit, StallInv, Closed

\* A call that is not a start of the DMA changes nothing here.
LEMMA OtherCalls ==
  ASSUME PcTypeOK, StallInv, NEW u \in Procs,
         \/ \E a \in Adaps : OpenTest(u, a)
         \/ OpenTake(u) \/ Release(u) \/ LnbLook(u) \/ LnbAsItIs(u) \/ LnbWrite(u)
         \/ LnbMark(u) \/ StartEnd(u)
  PROVE  StallInv'
<1>1. UNCHANGED <<chan, stat, handler, dmaON, collided, early>>
  BY DEF OpenTest, OpenTake, Release, LnbLook, LnbAsItIs, LnbWrite, LnbMark, StartEnd,
         board, caught
<1>2. \A v \in Procs : proc'[v].at = "dma" => proc'[v] = proc[v]
  <2> SUFFICES ASSUME NEW v \in Procs, proc'[v].at = "dma" PROVE proc'[v] = proc[v]
    OBVIOUS
  <2> USE DEF PcTypeOK, ProcType
  <2>0. proc[u] \in ProcType
    OBVIOUS
  <2>1. ASSUME NEW a \in Adaps, OpenTest(u, a) PROVE proc'[v] = proc[v]
    BY <2>1, <2>0 DEF OpenTest
  <2>2. CASE OpenTake(u)
    BY <2>2, <2>0 DEF OpenTake
  <2>3. CASE Release(u)
    BY <2>3, <2>0 DEF Release, Closed
  <2>4. CASE LnbLook(u) \/ StartEnd(u) \/ LnbWrite(u)
    BY <2>4, <2>0 DEF LnbLook, StartEnd, LnbWrite
  <2>5. CASE LnbAsItIs(u) \/ LnbMark(u)
    BY <2>5, <2>0, EndType DEF LnbAsItIs, LnbMark
  <2> QED
    BY <2>1, <2>2, <2>3, <2>4, <2>5
<1> QED
  BY <1>1, <1>2, Zenon DEF StallInv, Held

LEMMA StallNext == PcTypeOK /\ StallInv /\ [PcNext]_pcVars => StallInv'
<1> SUFFICES ASSUME PcTypeOK, StallInv, [PcNext]_pcVars PROVE StallInv'
  OBVIOUS
<1>t. \A v \in Procs : proc[v] \in ProcType /\ Port(proc[v].a) \in Ports
  BY PortType DEF PcTypeOK, ProcType
<1>1. ASSUME NEW u \in Procs, StartRec(u) PROVE StallInv'
  <2>1. \A v \in Procs \ {u} : proc'[v] = proc[v]
    BY <1>1 DEF StartRec, PcTypeOK
  <2>2. proc'[u].todo \in {<<>>, StartSteps}
    BY <1>1, <1>t DEF StartRec, PcTypeOK
  <2>3. proc'[u].todo \notin {Ch1Step, OnStep}
    BY <2>2 DEF Ch1Step, OnStep, StartSteps
  <2>4. UNCHANGED <<chan, stat, handler, dmaON, collided, early>>
    BY <1>1 DEF StartRec, board, caught
  <2> QED
    BY <2>1, <2>3, <2>4, Zenon DEF StallInv, Held
<1>2. ASSUME NEW u \in Procs, StartStep(u) PROVE StallInv'
  <2> DEFINE t == proc[u].todo  p == Port(proc[u].a)
  <2>1. t \in Lefts /\ t # <<>> /\ p \in Ports /\ proc[u].at = "dma"
    BY <1>2, <1>t DEF StartStep, ProcType
  <2>2. UNCHANGED <<stat, handler, collided, early>>
    BY <1>2 DEF StartStep, caught
  <2>3. \A v \in Procs \ {u} : proc'[v] = proc[v]
    BY <1>2 DEF StartStep, PcTypeOK
  <2>4. proc'[u].a = proc[u].a /\ proc'[u].todo \in {Tail(t), <<>>}
    BY <1>2, <1>t DEF StartStep, PcTypeOK, ProcType
  <2>c. chan \in [Ports -> [Chans -> {"off", "filling", "full"}]] /\ dmaON \in [Ports -> BOOLEAN]
        /\ 0 \in Chans /\ 1 \in Chans
    BY DEF PcTypeOK, Chans
  <2>n. <<>> \notin {Ch1Step, OnStep} /\ Ch0Step \notin {Ch1Step, OnStep} /\ Ch1Step # OnStep
    BY DEF Ch1Step, OnStep, Ch0Step
  <2>5. CASE t = StartSteps /\ Head(t) = <<"enable">> /\ Tail(t) = Ch0Step
    <3>1. chan' = chan /\ dmaON' = dmaON
      BY <1>2, <2>5 DEF StartStep
    <3>2. proc'[u].todo \notin {Ch1Step, OnStep}
      BY <2>4, <2>5, <2>n
    <3> QED
      BY <2>2, <2>3, <3>1, <3>2, Zenon DEF StallInv, Held
  <2>6. ASSUME NEW c \in Chans, Head(t) = <<"ch", c>>,
               \/ t = Ch0Step /\ c = 0 /\ Tail(t) = Ch1Step
               \/ t = Ch1Step /\ c = 1 /\ Tail(t) = OnStep
        PROVE StallInv'
    <3>0. Head(t)[1] = "ch" /\ Head(t)[2] = c
      BY <2>6
    <3>1. chan' = [chan EXCEPT ![p][c] = "filling"] /\ dmaON' = dmaON
      BY <1>2, <3>0 DEF StartStep
    <3>2. /\ \A q \in Ports, d \in Chans : chan'[q][d] = "off" => chan[q][d] = "off"
          /\ \A q \in Ports, d \in Chans : chan'[q][d] = "full" => chan[q][d] = "full"
          /\ chan'[p][c] # "off"
      BY <3>1, <2>1, <2>c
    <3>3. \A v \in Procs : proc'[v].at = "dma" =>
            /\ proc'[v].todo \in {Ch1Step, OnStep} => chan'[Port(proc'[v].a)][0] # "off"
            /\ proc'[v].todo = OnStep => chan'[Port(proc'[v].a)][1] # "off"
      <4> SUFFICES ASSUME NEW v \in Procs, proc'[v].at = "dma"
                   PROVE  /\ proc'[v].todo \in {Ch1Step, OnStep} => chan'[Port(proc'[v].a)][0] # "off"
                          /\ proc'[v].todo = OnStep => chan'[Port(proc'[v].a)][1] # "off"
        OBVIOUS
      <4>1. CASE v # u
        BY <4>1, <2>3, <1>t, <3>2, <2>c DEF StallInv
      <4>2. CASE v = u
        <5>1. chan[p][0] # "off" \/ c = 0
          BY <2>6, <2>1 DEF StallInv
        <5>2. chan'[p][0] # "off"
          BY <5>1, <3>2, <2>1, <2>c
        <5>3. proc'[u].todo = OnStep => c = 1
          BY <2>4, <2>6, <2>n
        <5> QED
          BY <4>2, <5>2, <5>3, <3>2, <2>4
      <4> QED
        BY <4>1, <4>2
    <3>4. \A q \in Ports : dmaON'[q] => \A d \in Chans : chan'[q][d] # "off"
      BY <3>1, <3>2 DEF StallInv
    <3> QED
      BY <2>2, <3>2, <3>3, <3>4 DEF StallInv, Held
  <2>7. CASE t = OnStep /\ Head(t) = <<"on">> /\ Tail(t) = <<>>
    <3>1. chan' = chan /\ dmaON' = [dmaON EXCEPT ![p] = TRUE]
      BY <1>2, <2>7 DEF StartStep
    <3>2. chan[p][0] # "off" /\ chan[p][1] # "off"
      BY <2>1, <2>7 DEF StallInv
    <3>3. \A d \in Chans : chan[p][d] # "off"
      BY <3>2 DEF Chans
    <3>4. proc'[u].todo \notin {Ch1Step, OnStep}
      BY <2>4, <2>7, <2>n
    <3>5. \A q \in Ports : dmaON'[q] => \A d \in Chans : chan'[q][d] # "off"
      BY <3>1, <3>3, <2>1, <2>c DEF StallInv
    <3> QED
      BY <2>2, <2>3, <3>1, <3>4, <3>5, Zenon DEF StallInv, Held
  <2> QED
    BY <2>1, <2>5, <2>6, <2>7, TodoShape DEF Chans
<1>3. ASSUME NEW u \in Procs, StopRec(u) PROVE StallInv'
  <2>1. \A v \in Procs : proc'[v].at = proc[v].at /\ proc'[v].todo = proc[v].todo
                         /\ proc'[v].a = proc[v].a
    BY <1>3, <1>t DEF StopRec, PcTypeOK, ProcType
  <2>2. \A q \in Ports : dmaON'[q] => dmaON[q]
    BY <1>3, <1>t DEF StopRec, PcTypeOK
  <2>3. UNCHANGED <<chan, stat, handler, collided, early>>
    BY <1>3 DEF StopRec, board, caught
  <2> QED
    BY <2>1, <2>2, <2>3, Zenon DEF StallInv, Held
<1>4. ASSUME NEW p \in Ports, NEW c \in Chans, Fill(p, c) PROVE StallInv'
  <2>1. /\ \A q \in Ports, d \in Chans : chan'[q][d] = "off" => chan[q][d] = "off"
        /\ \A q \in Ports, d \in Chans :
             chan'[q][d] = "full" => chan[q][d] = "full" \/ (q = p /\ d = c)
    BY <1>4 DEF Fill, PcTypeOK
  <2>2. stat \subseteq stat' /\ <<p, c>> \in stat'
    BY <1>4 DEF Fill
  <2>3. UNCHANGED <<handler, dmaON, proc, collided, early>>
    BY <1>4 DEF Fill, caught
  <2>4. 0 \in Chans /\ 1 \in Chans
    BY DEF Chans
  <2>5. ~collided' /\ ~early' => \A q \in Ports, d \in Chans :
          chan'[q][d] = "full" => <<q, d>> \in stat' \/ Held(q, d)'
    BY <2>1, <2>2, <2>3 DEF StallInv, Held
  <2> QED
    BY <2>1, <2>3, <2>4, <2>5, <1>t DEF StallInv
<1>5. CASE IrqBegin
  <2>1. UNCHANGED <<chan, dmaON, proc, early>>
    BY <1>5 DEF IrqBegin
  <2>c. ~collided' => ~collided /\ ~(Cardinality(stat) > 1)
    BY <1>5, Zenon DEF IrqBegin
  <2>h. \A p \in Ports, c \in Chans : ~Held(p, c)
    BY <1>5 DEF IrqBegin, Held
  <2>2. ASSUME ~collided', ~early', NEW p \in Ports, NEW c \in Chans, chan'[p][c] = "full"
        PROVE  Held(p, c)'
    <3>1. <<p, c>> \in stat
      BY <2>1, <2>2, <2>c, <2>h DEF StallInv
    <3>2. stat \subseteq Ports \X Chans /\ IsFiniteSet(stat)
      <4>0. IsFiniteSet({0, 1})
        <5>1. {0, 1} = {0} \cup {1}
          OBVIOUS
        <5>2. IsFiniteSet({0} \cup {1})
          BY FS_Singleton, FS_AddElement
        <5> QED
          BY <5>1, <5>2
      <4>1. IsFiniteSet(Ports \X Chans)
        BY <4>0, FS_Product DEF Ports, Chans
      <4> QED
        BY <4>1, FS_Subset DEF PcTypeOK
    <3>3. stat = {<<p, c>>}
      <4>1. ~(Cardinality(stat) > 1)
        BY <2>2, <2>c
      <4>2. ASSUME NEW x \in stat, x # <<p, c>> PROVE FALSE
        <5> DEFINE y == <<p, c>>
        <5>0. IsFiniteSet({x}) /\ Cardinality({x}) = 1 /\ y \notin {x}
          BY <4>2, FS_Singleton
        <5> HIDE DEF y
        <5>a. Cardinality({x} \cup {y}) = Cardinality({x}) + 1
          BY <5>0, FS_AddElement
        <5>1. Cardinality({x} \cup {y}) = 2
          BY <5>0, <5>a
        <5> USE DEF y
        <5>2. {x} \cup {y} \subseteq stat
          BY <3>1, <4>2
        <5>3. Cardinality({x} \cup {y}) <= Cardinality(stat)
          BY <5>2, <3>2, FS_Subset
        <5> QED
          BY <4>1, <5>1, <5>3, <3>2, FS_CardinalityType
      <4> QED
        BY <3>1, <4>2
    <3>4. PortOf(stat) = p /\ ChOf(stat) = c
      BY <3>3 DEF PortOf, ChOf, Ports, Chans
    <3> QED
      BY <1>5, <3>4 DEF Held, IrqBegin
  <2> QED
    BY <2>1, <2>2, Zenon DEF StallInv
<1>6. CASE IrqEnd
  <2> DEFINE p == handler.port  c == handler.ch
  <2>1. p \in Ports /\ c \in Chans /\ 0 \in Chans /\ 1 \in Chans
    BY DEF PcTypeOK, Chans
  <2>2. UNCHANGED <<dmaON, proc, stat, collided>>
    BY <1>6 DEF IrqEnd
  <2>3. /\ \A q \in Ports, d \in Chans : chan'[q][d] = "off" => chan[q][d] = "off"
        /\ \A q \in Ports, d \in Chans : chan'[q][d] = "full" => chan[q][d] = "full"
        /\ dmaON[p] => chan'[p][c] = "filling"
    BY <1>6, <2>1 DEF IrqEnd, PcTypeOK
  <2>4. ~early' => ~early /\ dmaON[p]
    BY <1>6, Zenon DEF IrqEnd
  <2>5. ASSUME ~collided', ~early', NEW q \in Ports, NEW d \in Chans, chan'[q][d] = "full"
        PROVE  <<q, d>> \in stat'
    <3>1. ~(q = p /\ d = c)
      BY <2>3, <2>4, <2>5
    <3>2. ~Held(q, d)
      BY <3>1 DEF Held
    <3> QED
      BY <2>2, <2>3, <2>4, <2>5, <3>2 DEF StallInv
  <2> QED
    BY <2>1, <2>2, <2>3, <2>5, <1>t DEF StallInv
<1>7. CASE UNCHANGED pcVars
  BY <1>7 DEF pcVars, board, caught, StallInv, Held
<1> QED
  BY <1>1, <1>2, <1>3, <1>4, <1>5, <1>6, <1>7, OtherCalls DEF PcNext

\* No channel is forgotten, for any number of adapters and recorders: a
\* buffer of a port that is on is being filled, or its bit is set, or the
\* handler has it, unless the handler cleared two bits at once or met a port
\* that was not yet marked (pxq3pe_irq, pxq3pe_dma_start).
THEOREM NoStall == PcSpec => []NoChannelStalls
<1>1. PcTypeOK /\ StallInv => NoChannelStalls
  <2> SUFFICES ASSUME PcTypeOK, StallInv, ~collided, ~early,
                      NEW p \in Ports, NEW c \in Chans, dmaON[p]
               PROVE  chan[p][c] = "filling" \/ <<p, c>> \in stat \/ Held(p, c)
    BY DEF NoChannelStalls, Held
  <2>1. chan[p][c] \in {"off", "filling", "full"} /\ chan[p][c] # "off"
    BY DEF PcTypeOK, StallInv
  <2> QED
    BY <2>1 DEF StallInv
<1> QED
  BY <1>1, PcTypeInit, PcTypeNext, StallInit, StallNext, PTL DEF PcSpec

-----------------------------------------------------------------------------
(* The LNB.                                                                *)

Calling(u) == proc[u].at \in {"take", "lnb", "write", "mark"}

\* While no two calls have overlapped, there is one at most, ON tells which
\* adapters are held and by whom, and the value read for the LNB is current
\* until it is written and stored.
OneCall == \A u, v \in Procs : Calling(u) /\ Calling(v) => u = v
HeldOnce ==
  /\ \A u, v \in Procs : u # v /\ proc[u].open /\ proc[v].open => proc[u].a # proc[v].a
  /\ \A a \in Adaps : ON[a] <=> \E u \in Procs : proc[u].open /\ proc[u].a = a
CallInv(u) ==
  /\ proc[u].at = "take" => ~proc[u].open /\ ~ON[proc[u].a]
  /\ proc[u].at \in {"write", "mark"} => proc[u].lnb = SatInUse
  /\ proc[u].at = "mark" => unheard \/ pin = proc[u].lnb
  /\ proc[u].at # "mark" => unheard \/ pin = lnb
LnbInv ==
  ~overlap =>
    /\ OneCall /\ HeldOnce
    /\ \A u \in Procs : Calling(u) => CallInv(u)
    /\ ~Busy => lnb = SatInUse /\ (unheard \/ pin = lnb)

\* Busy is: one of the processes is in such a call.
LEMMA BusyCalls == Busy <=> \E u \in Procs : Calling(u)
BY DEF Busy, Calling

LEMMA LnbInit == PcInit => LnbInv
<1> SUFFICES ASSUME PcInit PROVE LnbInv
  OBVIOUS
<1>1. \A u \in Procs : ~proc[u].open /\ ~Calling(u)
  BY DEF PcInit, Closed, Calling
<1>2. \A a \in Adaps : ON[a] = FALSE
  BY DEF PcInit
<1>3. OneCall
  BY <1>1 DEF OneCall
<1>4. HeldOnce
  BY <1>1, <1>2 DEF HeldOnce
<1>5. lnb = SatInUse /\ pin = lnb
  BY <1>2 DEF PcInit, SatInUse
<1> QED
  BY <1>1, <1>3, <1>4, <1>5 DEF LnbInv

\* Who holds which adapter does not change.
LEMMA SameUsers ==
  ASSUME HeldOnce, ON' = ON,
         \A v \in Procs : /\ proc'[v].open = proc[v].open
                          /\ proc'[v].open => proc'[v].a = proc[v].a
  PROVE  HeldOnce'
<1>1. \A u, v \in Procs : u # v /\ proc'[u].open /\ proc'[v].open => proc'[u].a # proc'[v].a
  BY DEF HeldOnce
<1>2. \A a \in Adaps : ON'[a] <=> \E u \in Procs : proc'[u].open /\ proc'[u].a = a
  BY DEF HeldOnce
<1> QED
  BY <1>1, <1>2 DEF HeldOnce

\* A step that neither begins, ends nor continues a call of open or release.
LEMMA NoCall ==
  ASSUME LnbInv,
         UNCHANGED <<ON, lnb, pin, unheard, overlap>>,
         \A v \in Procs : /\ proc'[v].at = proc[v].at \/ (~Calling(v) /\ ~Calling(v)')
                          /\ proc'[v].a = proc[v].a /\ proc'[v].open = proc[v].open
                          /\ proc'[v].lnb = proc[v].lnb
  PROVE  LnbInv'
<1>1. \A v \in Procs : Calling(v)' <=> Calling(v)
  BY DEF Calling
<1>2. Busy' <=> Busy
  BY <1>1, BusyCalls, Zenon DEF Busy, Calling
<1>3. SatInUse' <=> SatInUse
  BY DEF SatInUse
<1>4. \A v \in Procs : Calling(v) => proc'[v].at = proc[v].at
  OBVIOUS
<1> SUFFICES ASSUME ~overlap PROVE (OneCall /\ HeldOnce)' /\ (\A u \in Procs : Calling(u) => CallInv(u))'
                                   /\ (~Busy => lnb = SatInUse /\ (unheard \/ pin = lnb))'
  BY DEF LnbInv
<1>5. OneCall'
  BY <1>1 DEF LnbInv, OneCall
<1>6. HeldOnce'
  BY DEF LnbInv, HeldOnce
<1>7. (\A u \in Procs : Calling(u) => CallInv(u))'
  BY <1>1, <1>3, <1>4 DEF LnbInv, CallInv
<1>8. (~Busy => lnb = SatInUse /\ (unheard \/ pin = lnb))'
  BY <1>2, <1>3 DEF LnbInv
<1> QED
  BY <1>5, <1>6, <1>7, <1>8

\* A call begins: it is the only one, unless calls have overlapped.
LEMMA CallAlone ==
  ASSUME LnbInv, NEW u \in Procs, overlap' = (overlap \/ Busy), ~overlap',
         \A v \in Procs \ {u} : proc'[v] = proc[v]
  PROVE  /\ ~overlap /\ OneCall' /\ \A v \in Procs : Calling(v)' => v = u
         /\ lnb = SatInUse /\ (unheard \/ pin = lnb) /\ HeldOnce
<1>1. ~overlap /\ ~Busy
  BY Zenon
<1>2. \A v \in Procs : ~Calling(v)
  BY <1>1, BusyCalls
<1>3. \A v \in Procs : Calling(v)' => v = u
  BY <1>2 DEF Calling
<1> QED
  BY <1>1, <1>3 DEF LnbInv, OneCall

\* A call goes on or ends: the same one is in progress, or none.
LEMMA CallGoesOn ==
  ASSUME LnbInv, NEW u \in Procs, Calling(u), overlap' = overlap, ~overlap,
         \A v \in Procs \ {u} : proc'[v] = proc[v]
  PROVE  /\ OneCall' /\ \A v \in Procs : Calling(v)' => v = u
         /\ CallInv(u) /\ HeldOnce
<1>1. \A v \in Procs : Calling(v) => v = u
  BY DEF LnbInv, OneCall
<1>2. \A v \in Procs : Calling(v)' => v = u
  BY <1>1 DEF Calling
<1> QED
  BY <1>2 DEF LnbInv, OneCall

LEMMA LnbNext == PcTypeOK /\ LnbInv /\ [PcNext]_pcVars => LnbInv'
<1> SUFFICES ASSUME PcTypeOK, LnbInv, [PcNext]_pcVars PROVE LnbInv'
  OBVIOUS
<1>t. \A v \in Procs : proc[v] \in ProcType /\ proc[v].a \in Adaps
  BY DEF PcTypeOK, ProcType
<1>1. ASSUME NEW u \in Procs, NEW a \in Adaps, OpenTest(u, a), ~overlap' PROVE LnbInv'
  <2>1. /\ overlap' = (overlap \/ Busy) /\ UNCHANGED <<ON, lnb, pin, unheard>>
        /\ proc[u] = Closed /\ ~ON[a]
        /\ \A v \in Procs \ {u} : proc'[v] = proc[v]
        /\ proc'[u] = [Closed EXCEPT !.at = "take", !.a = a]
    BY <1>1, <1>t DEF OpenTest, PcTypeOK
  <2>2. /\ OneCall' /\ \A v \in Procs : Calling(v)' => v = u
        /\ lnb = SatInUse /\ (unheard \/ pin = lnb) /\ HeldOnce
    BY <2>1, <1>1, CallAlone
  <2>3. proc'[u].at = "take" /\ proc'[u].a = a /\ ~proc'[u].open /\ ~proc[u].open
    BY <2>1 DEF Closed
  <2>4. CallInv(u)'
    BY <2>1, <2>2, <2>3 DEF CallInv
  <2>5. Busy'
    BY <2>3 DEF Busy
  <2>6. HeldOnce'
    <3>1. \A v \in Procs : proc'[v].open = proc[v].open /\ (proc'[v].open => v # u)
      BY <2>1 DEF Closed
    <3> QED
      BY <2>1, <2>2, <3>1, SameUsers
  <2> QED
    BY <2>2, <2>4, <2>5, <2>6 DEF LnbInv
<1>2. ASSUME NEW u \in Procs, OpenTake(u), ~overlap' PROVE LnbInv'
  <2>1. /\ UNCHANGED <<overlap, lnb, pin, unheard>> /\ proc[u].at = "take"
        /\ \A v \in Procs \ {u} : proc'[v] = proc[v]
        /\ proc'[u] = [proc[u] EXCEPT !.at = "lnb", !.open = TRUE]
        /\ ON' = [ON EXCEPT ![proc[u].a] = TRUE]
    BY <1>2, <1>t DEF OpenTake, PcTypeOK, caught
  <2>2. Calling(u)
    BY <2>1 DEF Calling
  <2>3. /\ OneCall' /\ \A v \in Procs : Calling(v)' => v = u
        /\ CallInv(u) /\ HeldOnce
    BY <2>1, <2>2, <1>2, CallGoesOn
  <2>4. proc'[u].at = "lnb" /\ proc'[u].a = proc[u].a /\ proc'[u].open
    BY <2>1, <1>t DEF ProcType
  <2>5. CallInv(u)' /\ Busy'
    BY <2>1, <2>3, <2>4 DEF CallInv, Busy
  <2>6. HeldOnce'
    <3>1. \A b \in Adaps : ON'[b] <=> (ON[b] \/ b = proc[u].a)
      BY <2>1, <1>t DEF PcTypeOK
    <3>2. ~ON[proc[u].a] /\ ~proc[u].open
      BY <2>1, <2>3 DEF CallInv
    <3>3. \A v \in Procs : proc[v].open => proc[v].a # proc[u].a
      BY <3>2, <2>3, <1>t DEF HeldOnce
    <3>o. \A v \in Procs \ {u} : proc'[v].open = proc[v].open /\ proc'[v].a = proc[v].a
      BY <2>1
    <3>4. \A v, w \in Procs : v # w /\ proc'[v].open /\ proc'[w].open => proc'[v].a # proc'[w].a
      BY <2>3, <2>4, <3>o, <3>3 DEF HeldOnce
    <3>5. ASSUME NEW b \in Adaps PROVE ON'[b] <=> \E v \in Procs : proc'[v].open /\ proc'[v].a = b
      <4>1. ON[b] <=> \E v \in Procs : proc[v].open /\ proc[v].a = b
        BY <2>3 DEF HeldOnce
      <4> QED
        BY <2>4, <3>1, <3>2, <3>o, <4>1
    <3> QED
      BY <3>4, <3>5 DEF HeldOnce
  <2> QED
    BY <2>3, <2>5, <2>6 DEF LnbInv
<1>3. ASSUME NEW u \in Procs, Release(u), ~overlap' PROVE LnbInv'
  <2>1. /\ overlap' = (overlap \/ Busy) /\ UNCHANGED <<lnb, pin, unheard>>
        /\ proc[u].open
        /\ \A v \in Procs \ {u} : proc'[v] = proc[v]
        /\ proc'[u] = [Closed EXCEPT !.at = "lnb", !.a = proc[u].a]
        /\ ON' = [ON EXCEPT ![proc[u].a] = FALSE]
    BY <1>3, <1>t DEF Release, PcTypeOK
  <2>2. /\ OneCall' /\ \A v \in Procs : Calling(v)' => v = u
        /\ (unheard \/ pin = lnb) /\ HeldOnce
    BY <2>1, <1>3, CallAlone
  <2>3. proc'[u].at = "lnb" /\ ~proc'[u].open
    BY <2>1 DEF Closed
  <2>4. CallInv(u)' /\ Busy'
    BY <2>1, <2>2, <2>3 DEF CallInv, Busy
  <2>5. HeldOnce'
    <3>1. \A b \in Adaps : ON'[b] <=> (ON[b] /\ b # proc[u].a)
      BY <2>1, <1>t DEF PcTypeOK
    <3>2. \A v \in Procs \ {u} : proc[v].open => proc[v].a # proc[u].a
      BY <2>1, <2>2 DEF HeldOnce
    <3>o. \A v \in Procs \ {u} : proc'[v].open = proc[v].open /\ proc'[v].a = proc[v].a
      BY <2>1
    <3>4. \A v, w \in Procs : v # w /\ proc'[v].open /\ proc'[w].open => proc'[v].a # proc'[w].a
      BY <2>2, <2>3, <3>o DEF HeldOnce
    <3>5. ASSUME NEW b \in Adaps PROVE ON'[b] <=> \E v \in Procs : proc'[v].open /\ proc'[v].a = b
      <4>1. ON[b] <=> \E v \in Procs : proc[v].open /\ proc[v].a = b
        BY <2>2 DEF HeldOnce
      <4> QED
        BY <2>3, <3>1, <3>2, <3>o, <4>1
    <3> QED
      BY <3>4, <3>5 DEF HeldOnce
  <2> QED
    BY <2>2, <2>4, <2>5 DEF LnbInv
<1>4. ASSUME NEW u \in Procs, LnbLook(u), ~overlap' PROVE LnbInv'
  <2>1. /\ UNCHANGED <<overlap, ON, lnb, pin, unheard>> /\ proc[u].at = "lnb"
        /\ \A v \in Procs \ {u} : proc'[v] = proc[v]
        /\ proc'[u] = [proc[u] EXCEPT !.lnb = SatInUse, !.at = "write"]
    BY <1>4, <1>t DEF LnbLook, PcTypeOK, caught
  <2>2. Calling(u)
    BY <2>1 DEF Calling
  <2>3. /\ OneCall' /\ \A v \in Procs : Calling(v)' => v = u
        /\ CallInv(u) /\ HeldOnce
    BY <2>1, <2>2, <1>4, CallGoesOn
  <2>4. /\ proc'[u].at = "write" /\ proc'[u].a = proc[u].a /\ proc'[u].open = proc[u].open
        /\ proc'[u].lnb = SatInUse
    BY <2>1, <1>t DEF ProcType
  <2>s. SatInUse' = SatInUse
    BY <2>1 DEF SatInUse
  <2>5. CallInv(u)' /\ Busy'
    BY <2>1, <2>3, <2>4, <2>s DEF CallInv, Busy
  <2>6. HeldOnce'
    BY <2>1, <2>3, <2>4, SameUsers
  <2> QED
    BY <2>3, <2>5, <2>6 DEF LnbInv
<1>5. ASSUME NEW u \in Procs, LnbAsItIs(u) \/ LnbMark(u), ~overlap' PROVE LnbInv'
  <2>1. /\ UNCHANGED <<overlap, ON, pin, unheard>> /\ lnb' = proc[u].lnb
        /\ proc[u].at \in {"write", "mark"} /\ (proc[u].at = "write" => lnb = proc[u].lnb)
        /\ \A v \in Procs \ {u} : proc'[v] = proc[v]
        /\ proc'[u] = CallEnd(u)
    BY <1>5, <1>t DEF LnbAsItIs, LnbMark, PcTypeOK, caught
  <2>2. Calling(u)
    BY <2>1 DEF Calling
  <2>3. /\ OneCall' /\ \A v \in Procs : Calling(v)' => v = u
        /\ CallInv(u) /\ HeldOnce
    BY <2>1, <2>2, <1>5, CallGoesOn
  <2>4. /\ proc'[u].at = "idle" /\ proc'[u].open = proc[u].open
        /\ proc'[u].open => proc'[u].a = proc[u].a
    BY <2>1, EndType
  <2>s. SatInUse' = SatInUse
    BY <2>1 DEF SatInUse
  <2>5. \A v \in Procs : ~Calling(v)'
    BY <2>3, <2>4 DEF Calling
  <2>6. lnb' = SatInUse' /\ (unheard' \/ pin' = lnb')
    BY <2>1, <2>3, <2>s DEF CallInv
  <2>7. HeldOnce'
    BY <2>1, <2>3, <2>4, SameUsers
  <2> QED
    BY <2>3, <2>5, <2>6, <2>7 DEF LnbInv
<1>6. ASSUME NEW u \in Procs, LnbWrite(u), ~overlap' PROVE LnbInv'
  <2>1. /\ UNCHANGED <<overlap, ON, lnb>> /\ proc[u].at = "write"
        /\ (pin' = proc[u].lnb /\ unheard' = unheard) \/ unheard' = TRUE
        /\ \A v \in Procs \ {u} : proc'[v] = proc[v]
        /\ proc'[u] = [proc[u] EXCEPT !.at = "mark"]
    BY <1>6, <1>t DEF LnbWrite, PcTypeOK
  <2>2. Calling(u)
    BY <2>1 DEF Calling
  <2>3. /\ OneCall' /\ \A v \in Procs : Calling(v)' => v = u
        /\ CallInv(u) /\ HeldOnce
    BY <2>1, <2>2, <1>6, CallGoesOn
  <2>4. /\ proc'[u].at = "mark" /\ proc'[u].a = proc[u].a /\ proc'[u].open = proc[u].open
        /\ proc'[u].lnb = proc[u].lnb
    BY <2>1, <1>t DEF ProcType
  <2>s. SatInUse' = SatInUse
    BY <2>1 DEF SatInUse
  <2>5. CallInv(u)' /\ Busy'
    BY <2>1, <2>3, <2>4, <2>s DEF CallInv, Busy
  <2>6. HeldOnce'
    BY <2>1, <2>3, <2>4, SameUsers
  <2> QED
    BY <2>3, <2>5, <2>6 DEF LnbInv
<1>7. ASSUME NEW u \in Procs, StartRec(u) \/ StartStep(u) \/ StartEnd(u) \/ StopRec(u)
      PROVE LnbInv'
  <2>1. UNCHANGED <<ON, lnb, pin, unheard, overlap>>
    BY <1>7 DEF StartRec, StartStep, StartEnd, StopRec, caught
  <2>2. \A v \in Procs \ {u} : proc'[v] = proc[v]
    BY <1>7, <1>t DEF StartRec, StartStep, StartEnd, StopRec, PcTypeOK
  <2>3. /\ proc[u].at \in {"idle", "dma"} /\ proc'[u].at \in {"idle", "dma"}
        /\ proc'[u].a = proc[u].a /\ proc'[u].open = proc[u].open
        /\ proc'[u].lnb = proc[u].lnb
    <3>1. CASE StartRec(u)
      BY <3>1, <1>t DEF StartRec, PcTypeOK, ProcType
    <3>2. CASE StartStep(u)
      BY <3>2, <1>t DEF StartStep, PcTypeOK, ProcType
    <3>3. CASE StartEnd(u) \/ StopRec(u)
      BY <3>3, <1>t DEF StartEnd, StopRec, PcTypeOK, ProcType
    <3> QED
      BY <1>7, <3>1, <3>2, <3>3
  <2> QED
    BY <2>1, <2>2, <2>3, NoCall DEF Calling
<1>8. CASE (\E p \in Ports, c \in Chans : Fill(p, c)) \/ IrqBegin \/ IrqEnd \/ UNCHANGED pcVars
  <2>1. UNCHANGED <<ON, lnb, pin, unheard, overlap, proc>>
    BY <1>8 DEF Fill, IrqBegin, IrqEnd, pcVars, caught
  <2> QED
    BY <2>1, NoCall DEF Calling
<1>9. overlap' => LnbInv'
  BY DEF LnbInv
<1> QED
  BY <1>1, <1>2, <1>3, <1>4, <1>5, <1>6, <1>7, <1>8, <1>9 DEF PcNext

\* While calls do not overlap, no adapter has two users and the LNB is on
\* exactly as long as a satellite adapter has one, however many adapters and
\* processes there are (pxq3pe_open, pxq3pe_release, tc90522_lnb).
THEOREM LnbIsForUsers == PcSpec => []LnbFollowsUse
<1>1. PcTypeOK /\ LnbInv => LnbFollowsUse
  <2> SUFFICES ASSUME PcTypeOK, LnbInv, ~overlap, ~Busy
               PROVE  /\ \A u, v \in Procs : u # v /\ proc[u].open /\ proc[v].open
                                             => proc[u].a # proc[v].a
                      /\ lnb <=> \E u \in Procs : proc[u].open /\ IsSat(proc[u].a)
                      /\ unheard \/ pin = lnb
    BY DEF LnbFollowsUse
  <2>1. HeldOnce /\ lnb = SatInUse /\ (unheard \/ pin = lnb)
    BY DEF LnbInv
  <2>2. \A u \in Procs : proc[u].a \in Adaps
    BY DEF PcTypeOK, ProcType
  <2>3. SatInUse <=> \E u \in Procs : proc[u].open /\ IsSat(proc[u].a)
    BY <2>1, <2>2 DEF HeldOnce, SatInUse
  <2> QED
    BY <2>1, <2>3 DEF HeldOnce
<1> QED
  BY <1>1, PcTypeInit, PcTypeNext, LnbInit, LnbNext, PTL DEF PcSpec

-----------------------------------------------------------------------------
(* The stream of the others.                                               *)

\* A port has another adapter beside each of its own, so that the loop of
\* pxq3pe_dma_stop never comes to its end.
LEMMA NeverStops ==
  ASSUME PerPort > 1, NEW a \in Adaps
  PROVE  ~MayStop(a)
<1>0. PerPort \in Nat /\ a \in 0 .. 2 * PerPort - 1
  BY PxqCardAssumption DEF Adaps, adapn
<1>1. PICK b \in Adaps : b # a /\ SamePort(b, a)
  <2>1. CASE a < PerPort
    <3> DEFINE b == IF a = 0 THEN 1 ELSE 0
    <3>1. b \in Adaps /\ b # a
      BY <1>0 DEF Adaps, adapn
    <3>2. b \div PerPort = 0 /\ a \div PerPort = 0
      BY <1>0, <2>1
    <3> QED
      BY <3>1, <3>2 DEF SamePort
  <2>2. CASE a >= PerPort
    <3> DEFINE b == IF a = PerPort THEN PerPort + 1 ELSE PerPort
    <3>1. b \in Adaps /\ b # a
      BY <1>0 DEF Adaps, adapn
    <3>2. b \div PerPort = 1 /\ a \div PerPort = 1
      BY <1>0, <2>2
    <3> QED
      BY <3>1, <3>2 DEF SamePort
  <2> QED
    BY <1>0, <2>1, <2>2
<1> QED
  BY <1>1 DEF MayStop

\* No STOP_REC takes the stream from another recording on the same port, as
\* long as a port has more than one adapter: four in the code, of which
\* pxq3pe_dma_stop meets another one first, whoever calls it.
THEOREM StreamsStay == PerPort > 1 => (PcSpec => OthersKeepStream)
<1> SUFFICES ASSUME PerPort > 1 PROVE PcSpec => OthersKeepStream
  OBVIOUS
<1>1. ASSUME PcTypeOK, [PcNext]_pcVars, NEW p \in Ports, dmaON[p]
      PROVE  dmaON'[p]
  <2>1. ASSUME NEW u \in Procs, StartStep(u) PROVE dmaON'[p]
    BY <2>1, <1>1, PortType DEF StartStep, PcTypeOK
  <2>2. ASSUME NEW u \in Procs, StopRec(u) PROVE dmaON'[p]
    <3>1. proc[u].a \in Adaps
      BY <1>1 DEF PcTypeOK, ProcType
    <3> QED
      BY <2>2, <1>1, <3>1, NeverStops DEF StopRec
  <2>3. \/ \E u \in Procs : \/ \E a \in Adaps : OpenTest(u, a)
                            \/ OpenTake(u) \/ Release(u)
                            \/ LnbLook(u) \/ LnbAsItIs(u) \/ LnbWrite(u) \/ LnbMark(u)
                            \/ StartRec(u) \/ StartEnd(u)
        \/ \E q \in Ports, c \in Chans : Fill(q, c)
        \/ IrqBegin \/ IrqEnd \/ UNCHANGED pcVars
        => dmaON' = dmaON
    BY DEF OpenTest, OpenTake, Release, LnbLook, LnbAsItIs, LnbWrite, LnbMark, StartRec,
           StartEnd, Fill, IrqBegin, IrqEnd, pcVars
  <2> QED
    BY <1>1, <2>1, <2>2, <2>3 DEF PcNext
<1>2. ASSUME PcTypeOK, [PcNext]_pcVars
      PROVE  \A u \in Procs :
               dmaON[Port(proc[u].a)] /\ proc[u].streaming /\ proc'[u].streaming
                 => dmaON'[Port(proc[u].a)]
  <2>1. \A u \in Procs : Port(proc[u].a) \in Ports
    BY <1>2, PortType DEF PcTypeOK, ProcType
  <2> QED
    BY <1>1, <1>2, <2>1
<1> QED
  BY <1>2, PcTypeInit, PcTypeNext, PTL DEF PcSpec, OthersKeepStream

-----------------------------------------------------------------------------
(* The ring.  First the types, and what tBuf holds: the packets received   *)
(* last.                                                                   *)

StopStart == <<"stop", "start">>
JustStart == <<"start">>

RingTypeOK ==
  /\ driver \in {"cdev", "dvb"}
  /\ tBuf \in Seq(1 .. MaxPkt)
  /\ IF irq.at = "idle" THEN Len(tBuf) < TLen ELSE Len(tBuf) = TLen
  /\ \A j \in 1 .. Len(tBuf) : tBuf[j] = got - Len(tBuf) + j
  /\ sBuf \in [Slots -> [n : 0 .. MaxPkt, dec : 0 .. 2]]
  /\ sBufStart \in Slots /\ sBufStop \in Slots /\ sBufByteCnt \in 0 .. Word - 1
  /\ irq \in [at : {"idle", "copy", "stop", "count", "add", "full"}, cnt : 0 .. Word - 1]
  /\ rdr \in [at : {"idle", "copy", "decode", "filter", "move", "load", "store"},
              sz : 0 .. SLen, from : Slots, cnt : 0 .. Word - 1]
  /\ starts \in {<<>>, JustStart, StopStart, RingFields}
  /\ got \in 0 .. MaxPkt /\ base \in 0 .. MaxPkt /\ want \in 1 .. MaxPkt + 1
  /\ begun \in Nat /\ old \in 0 .. TLen
  /\ {gap, twice, outside, over, reset, lost} \subseteq BOOLEAN
  /\ rdr.at \in {"copy"} => driver = "cdev"
  /\ rdr.at \in {"decode", "filter"} =>
       driver = "dvb" /\ rdr.sz > 0 /\ rdr.from + rdr.sz <= SLen

\* A start that met nobody meets nobody until it ends.
Undisturbed == ~reset /\ starts # <<>> => irq.at = "idle" /\ rdr.at = "idle"

\* What the reader has seen in the counter stays there until it takes it: the
\* handler only adds, and what it adds to is never less than the counter.
CountInv ==
  ~reset =>
    /\ starts = RingFields \/ sBufByteCnt <= SLen
    /\ irq.at = "add" => sBufByteCnt <= irq.cnt /\ irq.cnt + TLen <= SLen
    /\ rdr.at = "copy" => RLen <= sBufByteCnt
    /\ rdr.at \in {"decode", "filter", "move", "load"} => rdr.sz <= sBufByteCnt
    /\ rdr.at = "store" => rdr.sz <= rdr.cnt /\ rdr.cnt <= sBufByteCnt

\* The position the reader computed with is the one it reads at.
PlaceInv ==
  ~over /\ ~reset =>
    /\ ~outside
    /\ rdr.at = "copy" => rdr.sz = SLen - sBufStart
    /\ rdr.at \in {"decode", "filter"} => rdr.from = sBufStart

\* Packets by their numbers: the first that the counter counts, the one at
\* sBufStart, the first that is not counted yet, the one that belongs at
\* sBufStop, the first that is not in the ring yet.
Taken == IF rdr.at \in {"move", "load", "store"} THEN want - rdr.sz ELSE want
AtStart == IF rdr.at = "move" THEN want - rdr.sz ELSE want
Uncounted == got - Len(tBuf) + 1
AtStop == IF irq.at \in {"count", "add"} THEN got + 1 ELSE Uncounted
Uncopied == IF irq.at \in {"stop", "count", "add"} THEN got + 1 ELSE Uncounted

Slot(o, n) == (n - o) % SLen

\* Packet o was the first to go to slot 0, the others follow it around.
InRing(o) ==
  /\ irq.at # "full"
  /\ o <= Taken /\ sBufByteCnt = Uncounted - Taken /\ Uncopied - Taken <= SLen
  /\ sBufStart = Slot(o, AtStart) /\ sBufStop = Slot(o, AtStop)
  /\ \A n \in want .. Uncopied - 1 :
       sBuf[Slot(o, n)] =
         [n |-> n, dec |-> IF rdr.at = "filter" /\ n < want + rdr.sz THEN 1 ELSE 0]
  /\ o <= base + 1 /\ base < o + TLen - 1
  /\ old = (IF want <= base THEN want ELSE base + 1) - o

\* What a start has done so far.
Cleared ==
  /\ starts # <<>> => old = 0
  /\ starts \in {StopStart, JustStart} =>
       sBufByteCnt = 0 /\ want = Uncounted /\ base = got
  /\ starts = JustStart => sBufStop = 0

OrderInv ==
  ~over /\ ~reset /\ ~lost =>
    /\ ~gap /\ ~twice /\ Cleared
    /\ starts = <<>> => \E o \in 1 .. MaxPkt + 1 : InRing(o)

-----------------------------------------------------------------------------
(* The types.                                                              *)

LEMMA Constants ==
  /\ TLen \in Nat \ {0} /\ SLen \in Nat \ {0} /\ RLen \in Nat \ {0} /\ Word \in Nat \ {0}
  /\ TLen <= SLen /\ RLen <= SLen /\ SLen < Word /\ 2 * SLen < Word
  /\ MaxPkt \in Nat /\ MaxStart \in Nat
BY PxqStreamAssumption

LEMMA PastType ==
  ASSUME NEW s \in Slots, NEW k \in 0 .. SLen
  PROVE  Past(s, k) \in Slots
<1>1. (s + k) % SLen \in 0 .. SLen - 1
  BY Constants DEF Slots
<1> QED
  BY <1>1 DEF Past, Slots

\* What the start still has to do.
LEMMA StartsShape ==
  ASSUME RingTypeOK, starts # <<>>
  PROVE  \/ starts = RingFields /\ Head(starts) = "count" /\ Tail(starts) = StopStart
         \/ starts = StopStart /\ Head(starts) = "stop" /\ Tail(starts) = JustStart
         \/ starts = JustStart /\ Head(starts) = "start" /\ Tail(starts) = <<>>
<1>1. CASE starts = RingFields
  BY <1>1, FirstAndRest DEF RingFields, StopStart
<1>2. CASE starts = StopStart
  BY <1>2, FirstAndRest DEF StopStart, JustStart
<1>3. CASE starts = JustStart
  BY <1>3, FirstAndRest DEF JustStart
<1> QED
  BY <1>1, <1>2, <1>3 DEF RingTypeOK

LEMMA TBufCounts ==
  ASSUME RingTypeOK
  PROVE  Len(tBuf) \in 0 .. TLen /\ Len(tBuf) <= got
<1>1. Len(tBuf) \in Nat /\ Len(tBuf) <= TLen
  BY Constants DEF RingTypeOK
<1>2. CASE Len(tBuf) = 0
  BY <1>2, <1>1, Constants DEF RingTypeOK
<1>3. CASE Len(tBuf) > 0
  <2>0. 1 \in 1 .. Len(tBuf)
    BY <1>1, <1>3
  <2>1. tBuf[1] \in 1 .. MaxPkt
    BY <2>0, ElementOfSeq DEF RingTypeOK
  <2>2. tBuf[1] = got - Len(tBuf) + 1
    BY <2>0 DEF RingTypeOK
  <2> QED
    BY <1>1, <2>1, <2>2, Constants DEF RingTypeOK
<1> QED
  BY <1>1, <1>2, <1>3

\* What a copy of the reader leaves behind.
LEMMA HandType ==
  ASSUME RingTypeOK, NEW m \in 1 .. SLen, NEW slots \in [1 .. m -> Int], Len(slots) = m,
         NEW times \in {0, 1}, Hand(slots, times)
  PROVE  /\ want' \in 1 .. MaxPkt + 1 /\ old' \in 0 .. TLen
         /\ {gap', twice', outside'} \subseteq BOOLEAN
<1> DEFINE inside == \A k \in 1 .. m : slots[k] \in Slots
           aged == {k \in 1 .. m : sBuf[slots[k]].n <= base}
<1>0. DOMAIN slots = 1 .. m
  OBVIOUS
<1>1. {gap', twice', outside'} \subseteq BOOLEAN
  BY Zenon DEF Hand
<1>2. want' \in 1 .. MaxPkt + 1
  <2>1. want' = IF inside THEN sBuf[slots[m]].n + 1 ELSE want
    BY <1>0, Zenon DEF Hand
  <2>2. CASE inside
    <3>0. slots[m] \in Slots
      BY <2>2
    <3>1. sBuf[slots[m]].n \in 0 .. MaxPkt
      BY <3>0 DEF RingTypeOK
    <3>2. want' = sBuf[slots[m]].n + 1
      BY <2>1, <2>2
    <3> QED
      BY <3>1, <3>2, Constants
  <2> QED
    BY <2>1, <2>2 DEF RingTypeOK
<1>3. old' \in 0 .. TLen
  <2>1. old' = IF inside THEN Lesser(TLen, old + Cardinality(aged)) ELSE old
    BY <1>0, Zenon DEF Hand
  <2>2. Cardinality(aged) \in Nat
    <3>1. IsFiniteSet(1 .. m)
      BY FS_Interval
    <3>2. aged \subseteq 1 .. m
      OBVIOUS
    <3> QED
      BY <3>1, <3>2, FS_Subset, FS_CardinalityType
  <2> HIDE DEF aged
  <2>3. Lesser(TLen, old + Cardinality(aged)) \in 0 .. TLen
    BY <2>2, Constants DEF RingTypeOK, Lesser
  <2> QED
    BY <2>1, <2>3 DEF RingTypeOK
<1> QED
  BY <1>1, <1>2, <1>3

LEMMA RingTypeInit == PsInit => RingTypeOK
<1> SUFFICES ASSUME PsInit PROVE RingTypeOK
  OBVIOUS
<1> USE DEF PsInit
<1>1. tBuf \in Seq(1 .. MaxPkt) /\ Len(tBuf) = 0
  OBVIOUS
<1>2. sBuf \in [Slots -> [n : 0 .. MaxPkt, dec : 0 .. 2]]
  BY Constants
<1>3. 0 \in Slots /\ 0 \in 0 .. Word - 1 /\ 0 \in 0 .. SLen /\ 0 \in 0 .. TLen
      /\ 0 \in 0 .. MaxPkt /\ 1 \in 1 .. MaxPkt + 1
  BY Constants DEF Slots
<1>4. irq \in [at : {"idle", "copy", "stop", "count", "add", "full"}, cnt : 0 .. Word - 1]
  BY <1>3 DEF NoIrq
<1>5. rdr \in [at : {"idle", "copy", "decode", "filter", "move", "load", "store"},
               sz : 0 .. SLen, from : Slots, cnt : 0 .. Word - 1]
  BY <1>3 DEF NoReader
<1>6. irq.at = "idle" /\ rdr.at = "idle"
  BY DEF NoIrq, NoReader
<1>7. \A j \in 1 .. Len(tBuf) : tBuf[j] = got - Len(tBuf) + j
  BY <1>1
<1>8. {gap, twice, outside, over, reset, lost} \subseteq BOOLEAN
  OBVIOUS
<1> QED
  BY <1>1, <1>2, <1>3, <1>4, <1>5, <1>6, <1>7, <1>8, Constants DEF RingTypeOK

\* What a reader's copy takes, from slots inside the ring or not.
LEMMA ReadSlotsType ==
  ASSUME RingTypeOK, NEW start \in Slots, NEW sz \in 0 .. SLen
  PROVE  /\ RLen \in 1 .. SLen
         /\ ReadSlots(start, sz) \in [1 .. RLen -> Int] /\ Len(ReadSlots(start, sz)) = RLen
<1>1. RLen \in 1 .. SLen
  BY Constants
<1>2. \A k \in 1 .. RLen :
        (IF RLen <= sz \/ k <= sz THEN start + k - 1 ELSE k - 1 - sz) \in Int
  BY <1>1, Constants DEF Slots
<1>3. ReadSlots(start, sz) \in [1 .. RLen -> Int]
  BY <1>2 DEF ReadSlots
<1> QED
  BY <1>1, <1>3

LEMMA ThreadSlotsType ==
  ASSUME NEW m \in 1 .. SLen, NEW from \in Slots
  PROVE  /\ [k \in 1 .. m |-> from + k - 1] \in [1 .. m -> Int]
         /\ Len([k \in 1 .. m |-> from + k - 1]) = m
<1>1. \A k \in 1 .. m : from + k - 1 \in Int
  BY Constants DEF Slots
<1> QED
  BY <1>1, Constants

\* The handler's steps.
LEMMA HandlerType ==
  ASSUME RingTypeOK, Receive \/ CopyIn \/ MoveStop \/ CountIn \/ CountFull \/ StoreIn
  PROVE  RingTypeOK'
<1>b. Len(tBuf) \in 0 .. TLen /\ Len(tBuf) <= got
  BY TBufCounts
<1>i. irq.cnt \in 0 .. Word - 1
  BY DEF RingTypeOK
<1>1. CASE Receive
  <2>0. got' = got + 1 /\ got < MaxPkt /\ tBuf' = Append(tBuf, got')
    BY <1>1 DEF Receive
  <2>1. /\ got' = got + 1 /\ got' \in 0 .. MaxPkt /\ got' \in 1 .. MaxPkt
        /\ tBuf' = Append(tBuf, got')
    BY <2>0, Constants DEF RingTypeOK
  <2>2. tBuf' \in Seq(1 .. MaxPkt) /\ Len(tBuf') = Len(tBuf) + 1
    BY <2>1 DEF RingTypeOK
  <2>3. \A j \in 1 .. Len(tBuf') : tBuf'[j] = got' - Len(tBuf') + j
    <3> SUFFICES ASSUME NEW j \in 1 .. Len(tBuf') PROVE tBuf'[j] = got' - Len(tBuf') + j
      OBVIOUS
    <3>0. got \in Nat /\ Len(tBuf) \in Nat /\ tBuf \in Seq(1 .. MaxPkt)
      BY <1>b DEF RingTypeOK
    <3>1. CASE j = Len(tBuf')
      BY <3>0, <3>1, <2>1, <2>2
    <3>2. CASE j # Len(tBuf')
      <4>1. j \in 1 .. Len(tBuf)
        BY <3>0, <3>2, <2>2
      <4>2. tBuf'[j] = tBuf[j]
        BY <3>0, <4>1, <2>1
      <4>3. tBuf[j] = got - Len(tBuf) + j
        BY <4>1 DEF RingTypeOK
      <4> QED
        BY <3>0, <4>1, <4>2, <4>3, <2>1, <2>2
    <3> QED
      BY <3>1, <3>2
  <2>4. /\ irq' = [irq EXCEPT !.at = IF Len(tBuf) + 1 >= TLen THEN "copy" ELSE "idle"]
        /\ Len(tBuf) < TLen
    BY <1>1 DEF Receive, RingTypeOK
  <2>5. /\ irq' \in [at : {"idle", "copy", "stop", "count", "add", "full"}, cnt : 0 .. Word - 1]
        /\ IF irq'.at = "idle" THEN Len(tBuf') < TLen ELSE Len(tBuf') = TLen
    <3>1. irq \in [at : {"idle", "copy", "stop", "count", "add", "full"}, cnt : 0 .. Word - 1]
      BY DEF RingTypeOK
    <3>2. CASE Len(tBuf) + 1 >= TLen
      <4>1. irq' = [irq EXCEPT !.at = "copy"]
        BY <2>4, <3>2
      <4> QED
        BY <2>2, <2>4, <3>1, <3>2, <4>1, <1>b, Constants
    <3>3. CASE ~(Len(tBuf) + 1 >= TLen)
      <4>1. irq' = [irq EXCEPT !.at = "idle"]
        BY <2>4, <3>3
      <4> QED
        <5>1. Len(tBuf) + 1 < TLen
          BY <3>3, <1>b, Constants
        <5>2. irq'.at = "idle" /\ Len(tBuf') < TLen
          BY <5>1, <2>2, <3>1, <4>1
        <5> QED
          BY <5>2, <3>1, <4>1
    <3> QED
      BY <3>2, <3>3
  <2>6. reset' \in BOOLEAN
    BY <1>1, Zenon DEF Receive
  <2>7. UNCHANGED <<driver, sBuf, fields, rdr, starts, begun, base, verdict, over, lost>>
    BY <1>1 DEF Receive
  <2> QED
    BY <2>1, <2>2, <2>3, <2>5, <2>6, <2>7 DEF RingTypeOK, fields, verdict
<1>2. CASE CopyIn
  <2>1. \A i \in Slots : Source(i) < TLen => Source(i) + 1 \in 1 .. TLen
    BY Constants DEF Source, RingTypeOK, Slots
  <2>2. \A i \in Slots : Source(i) < TLen => tBuf[Source(i) + 1] \in 1 .. MaxPkt
    <3>1. Len(tBuf) = TLen /\ tBuf \in Seq(1 .. MaxPkt)
      BY <1>2 DEF CopyIn, RingTypeOK
    <3> QED
      BY <2>1, <3>1, ElementOfSeq
  <2>3. sBuf' \in [Slots -> [n : 0 .. MaxPkt, dec : 0 .. 2]]
    <3>1. \A i \in Slots : (IF Source(i) < TLen THEN [n |-> tBuf[Source(i) + 1], dec |-> 0]
                            ELSE sBuf[i]) \in [n : 0 .. MaxPkt, dec : 0 .. 2]
      BY <2>2 DEF RingTypeOK
    <3> QED
      BY <1>2, <3>1 DEF CopyIn
  <2>4. over' \in BOOLEAN
    BY <1>2, Zenon DEF CopyIn
  <2>5. /\ irq' \in [at : {"idle", "copy", "stop", "count", "add", "full"}, cnt : 0 .. Word - 1]
        /\ irq'.at # "idle" /\ irq.at # "idle"
    BY <1>2 DEF CopyIn, RingTypeOK
  <2>6. UNCHANGED <<driver, tBuf, fields, rdr, starts, got, begun, base, verdict, reset, lost>>
    BY <1>2 DEF CopyIn
  <2> QED
    BY <2>3, <2>4, <2>5, <2>6 DEF RingTypeOK, fields, verdict
<1>3. CASE MoveStop
  <2>1. sBufStop' \in Slots
    BY <1>3, PastType, Constants DEF MoveStop, RingTypeOK
  <2> QED
    BY <1>3, <2>1 DEF MoveStop, RingTypeOK, verdict
<1>4. CASE CountIn
  BY <1>4 DEF CountIn, RingTypeOK, fields, verdict
<1>5. CASE CountFull
  BY <1>5 DEF CountFull, RingTypeOK, verdict
<1>6. CASE StoreIn
  <2>1. (irq.cnt + TLen) % Word \in 0 .. Word - 1
    BY <1>i, Constants
  <2>2. sBufByteCnt' \in 0 .. Word - 1
    BY <1>6, <2>1, Constants DEF StoreIn
  <2>3. lost' \in BOOLEAN
    BY <1>6, Zenon DEF StoreIn
  <2>4. tBuf' = <<>> /\ tBuf' \in Seq(1 .. MaxPkt) /\ Len(tBuf') = 0
    BY <1>6 DEF StoreIn
  <2>5. /\ irq' \in [at : {"idle", "copy", "stop", "count", "add", "full"}, cnt : 0 .. Word - 1]
        /\ irq'.at = "idle"
    BY <1>6, Constants DEF StoreIn, NoIrq
  <2>6. UNCHANGED <<driver, sBuf, sBufStart, sBufStop, rdr, starts, got, begun, base, verdict,
                    over, reset>>
    BY <1>6 DEF StoreIn
  <2> QED
    BY <2>2, <2>3, <2>4, <2>5, <2>6, Constants DEF RingTypeOK, verdict
<1> QED
  BY <1>1, <1>2, <1>3, <1>4, <1>5, <1>6

\* The steps of a start.
LEMMA StartType ==
  ASSUME RingTypeOK, Start \/ ResetField
  PROVE  RingTypeOK'
<1>1. CASE Start
  <2>1. reset' \in BOOLEAN
    BY <1>1, Zenon DEF Start
  <2>2. /\ starts' = RingFields /\ begun' \in Nat /\ old' \in 0 .. TLen
        /\ {gap', twice', outside', over', lost'} \subseteq BOOLEAN
    <3>1. /\ starts' = RingFields /\ begun' = begun + 1 /\ old' = 0
          /\ gap' = FALSE /\ twice' = FALSE /\ outside' = FALSE
          /\ over' = FALSE /\ lost' = FALSE
      BY <1>1 DEF Start
    <3>2. begun' \in Nat /\ old' \in 0 .. TLen
      BY <3>1, Constants DEF RingTypeOK
    <3>3. {gap', twice', outside', over', lost'} \subseteq BOOLEAN
      BY <3>1
    <3> QED
      BY <3>1, <3>2, <3>3
  <2>3. UNCHANGED <<driver, tBuf, sBuf, fields, irq, rdr, got, base, want>>
    BY <1>1 DEF Start
  <2> QED
    BY <2>1, <2>2, <2>3 DEF RingTypeOK, fields
<1>2. CASE ResetField
  <2>1. /\ UNCHANGED <<driver, tBuf, sBuf, irq, rdr, got, begun, gap, old, twice, outside, over, lost>>
        /\ base' = got /\ want' = got - Len(tBuf) + 1 /\ starts' = Tail(starts)
    BY <1>2 DEF ResetField
  <2>2. want' \in 1 .. MaxPkt + 1
    BY <2>1, TBufCounts, Constants DEF RingTypeOK
  <2>3. starts' \in {<<>>, JustStart, StopStart}
    BY <1>2, <2>1, StartsShape DEF ResetField
  <2>4. reset' \in BOOLEAN
    BY <1>2, Zenon DEF ResetField
  <2>5. sBufByteCnt' \in 0 .. Word - 1 /\ sBufStop' \in Slots /\ sBufStart' \in Slots
    <3>1. 0 \in Slots /\ 0 \in 0 .. Word - 1
      BY Constants DEF Slots
    <3>2. \/ sBufByteCnt' = 0 /\ UNCHANGED <<sBufStop, sBufStart>>
          \/ sBufStop' = 0 /\ UNCHANGED <<sBufByteCnt, sBufStart>>
          \/ sBufStart' = 0 /\ UNCHANGED <<sBufByteCnt, sBufStop>>
      BY <1>2, StartsShape DEF ResetField
    <3> QED
      BY <3>1, <3>2 DEF RingTypeOK
  <2> QED
    BY <2>1, <2>2, <2>3, <2>4, <2>5 DEF RingTypeOK
<1> QED
  BY <1>1, <1>2

\* The reader's steps.
LEMMA ReaderType ==
  ASSUME RingTypeOK,
         \/ ReadBegin \/ ReadCopy \/ ThreadBegin \/ Decode \/ Filter
         \/ MoveStart \/ LoadOut \/ StoreOut
  PROVE  RingTypeOK'
<1>s. sBufStart \in Slots /\ sBufStart \in 0 .. SLen - 1 /\ rdr.sz \in 0 .. SLen
      /\ 0 \in Slots /\ 0 \in 0 .. Word - 1
  BY Constants DEF RingTypeOK, Slots
<1>r. rdr \in [at : {"idle", "copy", "decode", "filter", "move", "load", "store"},
               sz : 0 .. SLen, from : Slots, cnt : 0 .. Word - 1]
  BY DEF RingTypeOK
<1>1. CASE ReadBegin
  <2>1. SLen - sBufStart \in 0 .. SLen
    BY <1>s, Constants
  <2>2. /\ rdr' \in [at : {"idle", "copy", "decode", "filter", "move", "load", "store"},
                     sz : 0 .. SLen, from : Slots, cnt : 0 .. Word - 1]
        /\ rdr'.at = "copy" /\ driver = "cdev"
    BY <1>1, <1>s, <2>1 DEF ReadBegin, NoReader
  <2>3. reset' \in BOOLEAN
    BY <1>1, Zenon DEF ReadBegin
  <2> QED
    BY <1>1, <2>2, <2>3 DEF ReadBegin, RingTypeOK, fields, verdict
<1>2. CASE ReadCopy
  <2>1. /\ want' \in 1 .. MaxPkt + 1 /\ old' \in 0 .. TLen
        /\ {gap', twice', outside'} \subseteq BOOLEAN
    BY <1>2, <1>s, HandType, ReadSlotsType DEF ReadCopy
  <2>2. RLen \in 0 .. SLen
    BY Constants
  <2>3. /\ rdr' \in [at : {"idle", "copy", "decode", "filter", "move", "load", "store"},
                     sz : 0 .. SLen, from : Slots, cnt : 0 .. Word - 1]
        /\ rdr'.at = "move"
    BY <1>2, <1>r, <2>2 DEF ReadCopy
  <2> QED
    BY <1>2, <2>1, <2>3 DEF ReadCopy, RingTypeOK, fields
<1>3. CASE ThreadBegin
  <2> DEFINE sz == Lesser(SLen - sBufStart, sBufByteCnt)
  <2>1. sz \in 1 .. SLen /\ sz \in 0 .. SLen /\ sBufStart + sz <= SLen
    <3>0. sBufByteCnt \in 0 .. Word - 1 /\ sBufByteCnt # 0
      BY <1>3 DEF ThreadBegin, RingTypeOK
    <3>1. sBufByteCnt \in Nat /\ sBufByteCnt > 0 /\ SLen - sBufStart \in 1 .. SLen
      BY <3>0, <1>s, Constants
    <3>2. sz \in 1 .. SLen /\ sz <= SLen - sBufStart
      BY <3>1, Constants DEF Lesser
    <3> HIDE DEF sz
    <3> QED
      BY <3>2, <1>s, Constants
  <2>2. /\ rdr' \in [at : {"idle", "copy", "decode", "filter", "move", "load", "store"},
                     sz : 0 .. SLen, from : Slots, cnt : 0 .. Word - 1]
        /\ rdr'.at = "decode" /\ driver = "dvb" /\ rdr'.sz = sz /\ rdr'.from = sBufStart
    BY <1>3, <1>s, <2>1 DEF ThreadBegin, NoReader
  <2>3. reset' \in BOOLEAN
    BY <1>3, Zenon DEF ThreadBegin
  <2>4. rdr'.sz > 0 /\ rdr'.from + rdr'.sz <= SLen
    BY <2>1, <2>2
  <2>5. UNCHANGED <<driver, tBuf, sBuf, fields, irq, starts, got, begun, base, verdict, over, lost>>
    BY <1>3 DEF ThreadBegin
  <2> QED
    BY <2>2, <2>3, <2>4, <2>5 DEF RingTypeOK, fields, verdict
<1>4. CASE Decode
  <2>1. sBuf' \in [Slots -> [n : 0 .. MaxPkt, dec : 0 .. 2]]
    <3>1. \A i \in Slots : [sBuf[i] EXCEPT !.dec = Lesser(2, @ + 1)] \in [n : 0 .. MaxPkt, dec : 0 .. 2]
      <4> SUFFICES ASSUME NEW i \in Slots
                   PROVE  [sBuf[i] EXCEPT !.dec = Lesser(2, @ + 1)] \in [n : 0 .. MaxPkt, dec : 0 .. 2]
        OBVIOUS
      <4>1. sBuf[i] \in [n : 0 .. MaxPkt, dec : 0 .. 2]
        BY DEF RingTypeOK
      <4>2. Lesser(2, sBuf[i].dec + 1) \in 0 .. 2
        BY <4>1 DEF Lesser
      <4> QED
        BY <4>1, <4>2
    <3>2. \A i \in Slots : sBuf[i] \in [n : 0 .. MaxPkt, dec : 0 .. 2]
      BY DEF RingTypeOK
    <3> QED
      BY <1>4, <3>1, <3>2 DEF Decode
  <2>2. rdr' = [rdr EXCEPT !.at = "filter"] /\ rdr.at = "decode"
    BY <1>4 DEF Decode
  <2>3. UNCHANGED <<driver, tBuf, fields, irq, starts, got, begun, base, verdict, over, reset, lost>>
    BY <1>4 DEF Decode
  <2> QED
    BY <1>r, <2>1, <2>2, <2>3 DEF RingTypeOK, fields, verdict
<1>5. CASE Filter
  <2>1. rdr.sz \in 1 .. SLen /\ rdr.from \in Slots
    BY <1>5, <1>r DEF Filter, RingTypeOK
  <2>2. /\ want' \in 1 .. MaxPkt + 1 /\ old' \in 0 .. TLen
        /\ {gap', twice', outside'} \subseteq BOOLEAN
    BY <1>5, <2>1, HandType, ThreadSlotsType DEF Filter
  <2> QED
    BY <1>5, <1>r, <2>2 DEF Filter, RingTypeOK, fields
<1>6. CASE MoveStart
  <2>1. sBufStart' \in Slots
    BY <1>6, <1>s, PastType DEF MoveStart
  <2> QED
    BY <1>6, <1>r, <2>1 DEF MoveStart, RingTypeOK, verdict
<1>7. CASE LoadOut
  BY <1>7, <1>r DEF LoadOut, RingTypeOK, fields, verdict
<1>8. CASE StoreOut
  <2>1. rdr.cnt + Word - rdr.sz \in Int
    BY <1>r, Constants
  <2>2. (rdr.cnt + Word - rdr.sz) % Word \in 0 .. Word - 1
    BY <2>1, Constants
  <2>3. sBufByteCnt' \in 0 .. Word - 1
    BY <1>8, <2>2 DEF StoreOut
  <2>4. lost' \in BOOLEAN
    BY <1>8, Zenon DEF StoreOut
  <2>5. /\ rdr' \in [at : {"idle", "copy", "decode", "filter", "move", "load", "store"},
                     sz : 0 .. SLen, from : Slots, cnt : 0 .. Word - 1]
        /\ rdr'.at = "idle"
    BY <1>8, <1>s, Constants DEF StoreOut, NoReader
  <2> QED
    BY <1>8, <2>3, <2>4, <2>5 DEF StoreOut, RingTypeOK, verdict
<1> QED
  BY <1>1, <1>2, <1>3, <1>4, <1>5, <1>6, <1>7, <1>8

LEMMA RingTypeNext == RingTypeOK /\ [PsNext]_psVars => RingTypeOK'
<1>1. ASSUME RingTypeOK, UNCHANGED psVars PROVE RingTypeOK'
  BY <1>1 DEF psVars, fields, verdict, RingTypeOK
<1> QED
  BY <1>1, HandlerType, StartType, ReaderType DEF PsNext

\* The positions are slots, the counter a word, tBuf no longer than a
\* transfer, whatever the interrupt handler, the reader and a start do to
\* each other (pxq3pe_dma_put_stream, pxq3pe_read, pxq3pe_thread).
THEOREM RingTypes == PsSpec => []PsTypeOK
<1>1. RingTypeOK => PsTypeOK
  BY TBufCounts DEF RingTypeOK, PsTypeOK
<1> QED
  BY <1>1, RingTypeInit, RingTypeNext, PTL DEF PsSpec

-----------------------------------------------------------------------------
(* The counter.                                                            *)

LEMMA UndisturbedNext == RingTypeOK /\ Undisturbed /\ [PsNext]_psVars => Undisturbed'
<1> SUFFICES ASSUME RingTypeOK, Undisturbed, [PsNext]_psVars PROVE Undisturbed'
  OBVIOUS
<1> USE DEF Undisturbed
<1>1. CASE Receive \/ ReadBegin \/ ThreadBegin
  BY <1>1, Zenon DEF Receive, ReadBegin, ThreadBegin
<1>2. CASE Start
  BY <1>2, Zenon DEF Start
<1>3. CASE ResetField
  BY <1>3, Zenon DEF ResetField
<1>4. CASE CopyIn \/ MoveStop \/ CountIn \/ CountFull \/ StoreIn
  BY <1>4 DEF CopyIn, MoveStop, CountIn, CountFull, StoreIn
<1>5. CASE ReadCopy \/ Decode \/ Filter \/ MoveStart \/ LoadOut \/ StoreOut
  BY <1>5 DEF ReadCopy, Decode, Filter, MoveStart, LoadOut, StoreOut
<1>6. CASE UNCHANGED psVars
  BY <1>6 DEF psVars
<1> QED
  BY <1>1, <1>2, <1>3, <1>4, <1>5, <1>6 DEF PsNext

LEMMA CountNext ==
  ASSUME RingTypeOK, Undisturbed, CountInv, [PsNext]_psVars
  PROVE  CountInv'
<1> SUFFICES ASSUME ~reset' PROVE CountInv'
  BY DEF CountInv
<1>t. /\ sBufByteCnt \in Nat /\ irq.cnt \in Nat /\ rdr.cnt \in Nat /\ rdr.sz \in Nat
      /\ irq \in [at : {"idle", "copy", "stop", "count", "add", "full"}, cnt : 0 .. Word - 1]
      /\ rdr \in [at : {"idle", "copy", "decode", "filter", "move", "load", "store"},
                  sz : 0 .. SLen, from : Slots, cnt : 0 .. Word - 1]
      /\ sBufStart \in 0 .. SLen - 1
  BY Constants DEF RingTypeOK, Slots
<1>1. CASE Receive
  <2>1. /\ ~reset /\ UNCHANGED <<sBufByteCnt, rdr, starts>> /\ irq'.at # "add"
    BY <1>1, <1>t DEF Receive, fields
  <2> QED
    BY <2>1 DEF CountInv
<1>2. CASE CopyIn \/ MoveStop \/ CountFull
  <2>1. /\ ~reset /\ UNCHANGED <<sBufByteCnt, rdr, starts>> /\ irq'.at # "add"
    BY <1>2, <1>t DEF CopyIn, MoveStop, CountFull, fields
  <2> QED
    BY <2>1 DEF CountInv
<1>3. CASE CountIn
  <2>1. /\ ~reset /\ UNCHANGED <<sBufByteCnt, rdr, starts>> /\ irq'.cnt = sBufByteCnt
        /\ irq.at = "count" /\ HasRoom
    BY <1>3 DEF CountIn, fields
  <2>2. sBufByteCnt <= SLen
    BY <2>1, Constants DEF CountInv, Undisturbed, RingFields
  <2>3. (sBufByteCnt + TLen) % Word = sBufByteCnt + TLen
    <3>1. sBufByteCnt + TLen \in 0 .. Word - 1
      BY <2>2, <1>t, Constants
    <3> QED
      BY <3>1, Constants
  <2>4. sBufByteCnt + TLen <= SLen
    BY <2>1, <2>3 DEF HasRoom
  <2> QED
    BY <2>1, <2>2, <2>4, <1>t DEF CountInv
<1>4. CASE StoreIn
  <2>1. /\ ~reset /\ UNCHANGED <<rdr, starts>> /\ irq'.at = "idle" /\ irq.at \in {"add", "full"}
        /\ sBufByteCnt' = IF irq.at = "full" THEN SLen ELSE (irq.cnt + TLen) % Word
    BY <1>4 DEF StoreIn, NoIrq
  <2>2. sBufByteCnt <= SLen
    BY <2>1 DEF CountInv, Undisturbed, RingFields
  <2>3. sBufByteCnt <= sBufByteCnt' /\ sBufByteCnt' <= SLen /\ sBufByteCnt' \in Nat
    <3>1. CASE irq.at = "full"
      BY <3>1, <2>1, <2>2, Constants
    <3>2. CASE irq.at = "add"
      <4>1. sBufByteCnt <= irq.cnt /\ irq.cnt + TLen <= SLen
        BY <3>2, <2>1 DEF CountInv
      <4>2. irq.cnt + TLen \in 0 .. Word - 1
        BY <4>1, <1>t, Constants
      <4>3. (irq.cnt + TLen) % Word = irq.cnt + TLen
        BY <4>2, Constants
      <4> QED
        BY <4>1, <4>3, <2>1, <3>2, <1>t, Constants
    <3> QED
      BY <2>1, <3>1, <3>2
  <2> QED
    BY <2>1, <2>3, <1>t, Constants DEF CountInv
<1>5. CASE Start
  <2>1. starts' = RingFields /\ irq'.at = "idle" /\ rdr'.at = "idle"
    BY <1>5, Zenon DEF Start
  <2> QED
    BY <2>1 DEF CountInv
<1>6. CASE ResetField
  <2>1. ~reset /\ irq.at = "idle" /\ rdr.at = "idle" /\ UNCHANGED <<irq, rdr>>
    BY <1>6, Zenon DEF ResetField
  <2>2. sBufByteCnt' <= SLen
    <3>1. CASE starts = RingFields /\ Head(starts) = "count"
      <4>1. sBufByteCnt' = 0
        BY <1>6, <3>1 DEF ResetField
      <4> QED
        BY <4>1, Constants
    <3>2. CASE starts # RingFields /\ Head(starts) \in {"stop", "start"}
      <4>1. sBufByteCnt' = sBufByteCnt
        BY <1>6, <3>2 DEF ResetField
      <4> QED
        BY <2>1, <3>2, <4>1 DEF CountInv
    <3>3. StopStart # RingFields /\ JustStart # RingFields
      BY DEF StopStart, JustStart, RingFields
    <3>4. starts # <<>>
      BY <1>6 DEF ResetField
    <3> QED
      BY <3>1, <3>2, <3>3, <3>4, StartsShape
  <2> QED
    BY <2>1, <2>2 DEF CountInv
<1>7. CASE ReadBegin
  <2>1. /\ ~reset /\ UNCHANGED <<sBufByteCnt, irq, starts>> /\ rdr'.at = "copy"
        /\ RLen <= sBufByteCnt
    BY <1>7, <1>t, Constants DEF ReadBegin, fields, NoReader
  <2> QED
    BY <2>1 DEF CountInv
<1>8. CASE ThreadBegin
  <2>1. /\ ~reset /\ UNCHANGED <<sBufByteCnt, irq, starts>> /\ rdr'.at = "decode"
        /\ rdr'.sz = Lesser(SLen - sBufStart, sBufByteCnt)
    BY <1>8 DEF ThreadBegin, fields, NoReader
  <2>2. rdr'.sz <= sBufByteCnt
    BY <2>1, <1>t, Constants DEF Lesser
  <2> QED
    BY <2>1, <2>2 DEF CountInv
<1>9. CASE ReadCopy
  <2>1. /\ ~reset /\ UNCHANGED <<sBufByteCnt, irq, starts>> /\ rdr.at = "copy"
        /\ rdr'.at = "move" /\ rdr'.sz = RLen
    BY <1>9, <1>t DEF ReadCopy, fields
  <2> QED
    BY <2>1 DEF CountInv
<1>10. CASE Decode \/ Filter \/ MoveStart
  <2>1. /\ ~reset /\ UNCHANGED <<sBufByteCnt, irq, starts>>
        /\ rdr.at \in {"decode", "filter", "move"}
        /\ rdr'.at \in {"filter", "move", "load"} /\ rdr'.sz = rdr.sz
    BY <1>10, <1>t DEF Decode, Filter, MoveStart, fields
  <2> QED
    BY <2>1 DEF CountInv
<1>11. CASE LoadOut
  <2>1. /\ ~reset /\ UNCHANGED <<sBufByteCnt, irq, starts>> /\ rdr.at = "load"
        /\ rdr'.at = "store" /\ rdr'.sz = rdr.sz /\ rdr'.cnt = sBufByteCnt
    BY <1>11, <1>t DEF LoadOut, fields
  <2> QED
    BY <2>1, <1>t DEF CountInv
<1>12. CASE StoreOut
  <2>1. /\ ~reset /\ UNCHANGED <<irq, starts>> /\ rdr.at = "store" /\ rdr'.at = "idle"
        /\ sBufByteCnt' = (rdr.cnt + Word - rdr.sz) % Word
    BY <1>12 DEF StoreOut, NoReader
  <2>2. rdr.sz <= rdr.cnt /\ rdr.cnt <= sBufByteCnt /\ sBufByteCnt <= SLen
    <3>1. starts = <<>>
      BY <2>1 DEF Undisturbed
    <3>2. starts # RingFields
      BY <3>1 DEF RingFields
    <3> QED
      BY <2>1, <3>2 DEF CountInv
  <2>3. sBufByteCnt' = rdr.cnt - rdr.sz
    <3>1. rdr.cnt - rdr.sz \in 0 .. Word - 1
      BY <2>2, <1>t, Constants
    <3>2. (1 * Word + (rdr.cnt - rdr.sz)) % Word = rdr.cnt - rdr.sz
      BY <3>1, Constants, Remainder
    <3>3. 1 * Word + (rdr.cnt - rdr.sz) = rdr.cnt + Word - rdr.sz
      BY <1>t, Constants
    <3> QED
      BY <2>1, <3>2, <3>3
  <2> QED
    BY <2>1, <2>2, <2>3, <1>t, Constants DEF CountInv
<1>13. CASE UNCHANGED psVars
  BY <1>13 DEF psVars, fields, CountInv
<1> QED
  BY <1>1, <1>2, <1>3, <1>4, <1>5, <1>6, <1>7, <1>8, <1>9, <1>10, <1>11, <1>12, <1>13 DEF PsNext

LEMMA CountInit == PsInit => Undisturbed /\ CountInv
<1> SUFFICES ASSUME PsInit PROVE Undisturbed /\ CountInv
  OBVIOUS
<1>1. starts = <<>> /\ sBufByteCnt = 0 /\ irq.at = "idle" /\ rdr.at = "idle"
  BY DEF PsInit, NoIrq, NoReader
<1> QED
  BY <1>1, Constants DEF Undisturbed, CountInv

\* The counter never exceeds the ring, so that it never wraps, whatever the
\* handler and the reader do to it in between their loads and stores: only a
\* start in the middle of a read can make it (pxq3pe_dma_start and the two
\* users of sBufByteCnt).
THEOREM CounterStaysInRing == PsSpec => []CounterFits
<1>1. CountInv => CounterFits
  BY DEF CountInv, CounterFits
<1>2. RingTypeOK /\ Undisturbed /\ CountInv /\ [PsNext]_psVars => (Undisturbed /\ CountInv)'
  BY UndisturbedNext, CountNext
<1> QED
  BY <1>1, <1>2, RingTypeInit, RingTypeNext, CountInit, PTL DEF PsSpec

-----------------------------------------------------------------------------
(* The places.                                                             *)

\* A copy from inside the ring hands over what is in the slots.
LEMMA HandInside ==
  ASSUME NEW m \in Nat \ {0}, NEW slots \in [1 .. m -> Slots], Len(slots) = m,
         NEW times, Hand(slots, times)
  PROVE  /\ outside' <=> outside
         /\ gap' <=> gap \/ \E k \in 1 .. m : sBuf[slots[k]].n # want + k - 1
         /\ twice' <=> twice \/ \E k \in 1 .. m : sBuf[slots[k]].dec + times # 1
         /\ want' = sBuf[slots[m]].n + 1
         /\ old' = Lesser(TLen, old + Cardinality({k \in 1 .. m : sBuf[slots[k]].n <= base}))
<1>1. DOMAIN slots = 1 .. m /\ \A k \in 1 .. m : slots[k] \in Slots
  OBVIOUS
<1> QED
  BY <1>1, Zenon DEF Hand

\* The copy of read() with the room up to the end of the ring: the slots
\* from the start on, around the end.
LEMMA ReadSlotsInside ==
  ASSUME NEW start \in Slots
  PROVE  /\ ReadSlots(start, SLen - start) \in [1 .. RLen -> Slots]
         /\ Len(ReadSlots(start, SLen - start)) = RLen
         /\ \A k \in 1 .. RLen :
              ReadSlots(start, SLen - start)[k] = (start + (k - 1)) % SLen
<1> DEFINE slot(k) == IF RLen <= SLen - start \/ k <= SLen - start
                      THEN start + k - 1 ELSE k - 1 - (SLen - start)
<1>1. ReadSlots(start, SLen - start) = [k \in 1 .. RLen |-> slot(k)]
  BY DEF ReadSlots
<1>2. ASSUME NEW k \in 1 .. RLen PROVE slot(k) \in Slots /\ slot(k) = (start + (k - 1)) % SLen
  <2>1. start \in 0 .. SLen - 1 /\ k \in 1 .. SLen /\ k - 1 \in 0 .. SLen /\ start \in Int /\ k \in Int
    BY Constants DEF Slots
  <2>2. slot(k) = IF start + (k - 1) < SLen THEN start + (k - 1) ELSE start + (k - 1) - SLen
    BY <2>1, Constants
  <2>3. slot(k) \in 0 .. SLen - 1
    BY <2>1, <2>2, Constants
  <2>4. (start + (k - 1)) % SLen = slot(k)
    BY <2>1, <2>2, StepFrom, Constants
  <2> QED
    BY <2>3, <2>4 DEF Slots
<1> HIDE DEF slot
<1> QED
  BY <1>1, <1>2, Constants

\* The thread's chunk ends at the end of the ring at the latest.
LEMMA ThreadSlotsInside ==
  ASSUME NEW from \in Slots, NEW m \in 1 .. SLen, from + m <= SLen
  PROVE  /\ [k \in 1 .. m |-> from + k - 1] \in [1 .. m -> Slots]
         /\ Len([k \in 1 .. m |-> from + k - 1]) = m
<1>1. \A k \in 1 .. m : from + k - 1 \in Slots
  BY Constants DEF Slots
<1> QED
  BY <1>1, Constants

LEMMA PlaceNext ==
  ASSUME RingTypeOK, PlaceInv, [PsNext]_psVars
  PROVE  PlaceInv'
<1> SUFFICES ASSUME ~over', ~reset' PROVE PlaceInv'
  BY DEF PlaceInv
<1>r. rdr \in [at : {"idle", "copy", "decode", "filter", "move", "load", "store"},
               sz : 0 .. SLen, from : Slots, cnt : 0 .. Word - 1]
  BY DEF RingTypeOK
<1>1. CASE Receive \/ CopyIn \/ MoveStop \/ CountIn \/ StoreIn
  <2>1. ~reset /\ ~over
    <3>1. CASE Receive
      <4>1. over' = over
        BY <3>1 DEF Receive
      <4>2. ~reset
        BY <3>1, Zenon DEF Receive
      <4> QED
        BY <4>1, <4>2
    <3>2. CASE CopyIn
      <4>1. reset' = reset
        BY <3>2 DEF CopyIn
      <4>2. ~over
        BY <3>2, Zenon DEF CopyIn
      <4> QED
        BY <4>1, <4>2
    <3>3. CASE MoveStop \/ CountIn \/ StoreIn
      BY <3>3 DEF MoveStop, CountIn, StoreIn
    <3> QED
      BY <1>1, <3>1, <3>2, <3>3
  <2>2. UNCHANGED <<sBufStart, rdr, outside>>
    BY <1>1 DEF Receive, CopyIn, MoveStop, CountIn, StoreIn, fields, verdict
  <2> QED
    BY <2>1, <2>2 DEF PlaceInv
<1>2. CASE CountFull
  BY <1>2 DEF CountFull
<1>3. CASE Start
  <2>1. outside' = FALSE /\ rdr'.at = "idle"
    BY <1>3, Zenon DEF Start
  <2> QED
    BY <2>1 DEF PlaceInv
<1>4. CASE ResetField
  <2>1. ~reset /\ ~over /\ rdr'.at = "idle" /\ outside' = outside
    BY <1>4, Zenon DEF ResetField
  <2> QED
    BY <2>1 DEF PlaceInv
<1>5. CASE ReadBegin
  <2>1. ~reset /\ ~over
    BY <1>5, Zenon DEF ReadBegin
  <2>2. UNCHANGED <<sBufStart, outside>> /\ rdr'.at = "copy" /\ rdr'.sz = SLen - sBufStart
    BY <1>5 DEF ReadBegin, fields, verdict, NoReader
  <2> QED
    BY <2>1, <2>2 DEF PlaceInv
<1>6. CASE ThreadBegin
  <2>1. ~reset /\ ~over
    BY <1>6, Zenon DEF ThreadBegin
  <2>2. UNCHANGED <<sBufStart, outside>> /\ rdr'.at = "decode" /\ rdr'.from = sBufStart
    BY <1>6 DEF ThreadBegin, fields, verdict, NoReader
  <2> QED
    BY <2>1, <2>2 DEF PlaceInv
<1>7. CASE ReadCopy
  <2>1. /\ ~reset /\ ~over /\ rdr.at = "copy" /\ rdr'.at = "move"
        /\ Hand(ReadSlots(sBufStart, rdr.sz), 1)
    BY <1>7, <1>r DEF ReadCopy
  <2>2. rdr.sz = SLen - sBufStart /\ ~outside /\ sBufStart \in Slots
    BY <2>1 DEF PlaceInv, RingTypeOK
  <2>3. ~outside'
    BY <2>1, <2>2, ReadSlotsInside, HandInside, Constants
  <2> QED
    BY <2>1, <2>3 DEF PlaceInv
<1>8. CASE Decode
  <2>1. /\ ~reset /\ ~over /\ UNCHANGED <<sBufStart, outside>> /\ rdr.at = "decode"
        /\ rdr'.at = "filter" /\ rdr'.from = rdr.from
    BY <1>8, <1>r DEF Decode, fields, verdict
  <2> QED
    BY <2>1 DEF PlaceInv
<1>9. CASE Filter
  <2>1. /\ ~reset /\ ~over /\ rdr.at = "filter" /\ rdr'.at = "move"
        /\ Hand([k \in 1 .. rdr.sz |-> rdr.from + k - 1], 0)
    BY <1>9, <1>r DEF Filter
  <2>2. rdr.sz \in 1 .. SLen /\ rdr.from \in Slots /\ rdr.from + rdr.sz <= SLen /\ ~outside
    BY <2>1, <1>r, Constants DEF RingTypeOK, PlaceInv
  <2>3. ~outside'
    <3> DEFINE slots == [k \in 1 .. rdr.sz |-> rdr.from + k - 1]
    <3>1. slots \in [1 .. rdr.sz -> Slots] /\ Len(slots) = rdr.sz
      BY <2>2, ThreadSlotsInside
    <3>2. rdr.sz \in Nat \ {0} /\ Hand(slots, 0)
      BY <2>1, <2>2, Constants
    <3> HIDE DEF slots
    <3> QED
      BY <2>2, <3>1, <3>2, HandInside
  <2> QED
    BY <2>1, <2>3 DEF PlaceInv
<1>10. CASE MoveStart \/ LoadOut \/ StoreOut
  <2>1. /\ ~reset /\ ~over /\ outside' = outside /\ rdr'.at \in {"load", "store", "idle"}
    <3>1. CASE MoveStart
      BY <3>1, <1>r DEF MoveStart, verdict
    <3>2. CASE LoadOut
      BY <3>2, <1>r DEF LoadOut, verdict
    <3>3. CASE StoreOut
      BY <3>3 DEF StoreOut, verdict, NoReader
    <3> QED
      BY <1>10, <3>1, <3>2, <3>3
  <2> QED
    BY <2>1 DEF PlaceInv
<1>11. CASE UNCHANGED psVars
  BY <1>11 DEF psVars, fields, verdict, PlaceInv
<1> QED
  BY <1>1, <1>2, <1>3, <1>4, <1>5, <1>6, <1>7, <1>8, <1>9, <1>10, <1>11 DEF PsNext

LEMMA PlaceInit == PsInit => PlaceInv
BY DEF PsInit, PlaceInv, NoReader

\* A copy stays inside the ring, whatever the other side does to the counter,
\* unless the handler or a start moved sBufStart under the reader
\* (pxq3pe_read computes the room before it takes the mutex, pxq3pe_thread
\* the chunk before it decodes it).
THEOREM CopiesStayInRing == PsSpec => []InsideRing
<1>1. PlaceInv => InsideRing
  BY DEF PlaceInv, InsideRing
<1> QED
  BY <1>1, PlaceNext, PlaceInit, RingTypeInit, RingTypeNext, PTL DEF PsSpec

-----------------------------------------------------------------------------
(* The order.                                                              *)

OrderTypes ==
  /\ irq \in [at : {"idle", "copy", "stop", "count", "add", "full"}, cnt : 0 .. Word - 1]
  /\ rdr \in [at : {"idle", "copy", "decode", "filter", "move", "load", "store"},
              sz : 0 .. SLen, from : Slots, cnt : 0 .. Word - 1]
  /\ Len(tBuf) \in Nat /\ got \in Nat /\ want \in Nat /\ base \in Nat /\ old \in Nat
  /\ rdr.sz \in Nat /\ rdr.cnt \in Nat /\ irq.cnt \in Nat /\ sBufByteCnt \in Nat
  /\ Uncounted \in Nat /\ Uncopied \in Nat /\ AtStop \in Nat

LEMMA OrderTyped == RingTypeOK => OrderTypes
<1> SUFFICES ASSUME RingTypeOK PROVE OrderTypes
  OBVIOUS
<1>1. Len(tBuf) \in Nat /\ Len(tBuf) <= got
  BY TBufCounts
<1>2. Uncounted \in Nat /\ got \in Nat
  BY <1>1, Constants DEF RingTypeOK, Uncounted
<1> QED
  BY <1>1, <1>2, Constants DEF RingTypeOK, OrderTypes, Uncopied, AtStop

\* The slot of a packet that comes later.
LEMMA SlotOnward ==
  ASSUME NEW o \in Nat, NEW n \in Nat, o <= n, NEW k \in Nat
  PROVE  /\ Slot(o, n) \in Slots
         /\ (Slot(o, n) + k) % SLen = Slot(o, n + k)
<1>1. n - o \in Nat /\ (n - o) + k = (n + k) - o
  OBVIOUS
<1>2. (((n - o) % SLen) + k) % SLen = ((n - o) + k) % SLen
  BY <1>1, Onward, Constants
<1>3. (n - o) % SLen \in 0 .. SLen - 1
  BY <1>1, Constants
<1> QED
  BY <1>1, <1>2, <1>3 DEF Slot, Slots

LEMMA SlotsApart ==
  ASSUME NEW o \in Nat, NEW n \in Nat, NEW m \in Nat, o <= n, n < m, m < n + SLen
  PROVE  Slot(o, n) # Slot(o, m)
<1>1. n - o \in Nat /\ m - o \in Nat /\ n - o < m - o /\ m - o < (n - o) + SLen
  BY Constants
<1> QED
  BY <1>1, Apart, Constants DEF Slot

\* Where the two memcpy find what they put into a slot.
LEMMA SourceOfSlot ==
  ASSUME sBufStop \in Slots, NEW i \in Slots, NEW j \in 0 .. SLen - 1
  PROVE  Source(i) \in Nat /\ (Source(i) = j <=> i = (sBufStop + j) % SLen)
<1>1. sBufStop \in 0 .. SLen - 1 /\ i \in 0 .. SLen - 1 /\ j \in 0 .. SLen
  BY Constants DEF Slots
<1>2. (sBufStop + j) % SLen = IF sBufStop + j < SLen THEN sBufStop + j ELSE sBufStop + j - SLen
  BY <1>1, StepFrom, Constants
<1> QED
  BY <1>1, <1>2, Constants DEF Source

\* How many of the packets copied are older than the start.
LEMMA Aged ==
  ASSUME NEW m \in Nat, NEW w \in Nat, NEW b \in Nat,
         NEW aged, \A k : k \in aged <=> k \in 1 .. m /\ w + k - 1 <= b
  PROVE  Cardinality(aged) =
           (IF w + m <= b THEN w + m ELSE IF w <= b THEN b + 1 ELSE w) - w
<1> DEFINE c == (IF w + m <= b THEN w + m ELSE IF w <= b THEN b + 1 ELSE w) - w
<1>0. c \in Nat /\ \A k \in Int : k \in 1 .. m /\ w + k - 1 <= b <=> k \in 1 .. c
  OBVIOUS
<1>1. c \in Nat /\ aged = 1 .. c
  <2>1. \A k : k \in aged => k \in Int
    OBVIOUS
  <2>2. \A k : k \in 1 .. c => k \in Int
    BY <1>0
  <2> HIDE DEF c
  <2>3. \A k : k \in aged <=> k \in 1 .. c
    BY <1>0, <2>1, <2>2
  <2> QED
    BY <1>0, <2>3
<1> HIDE DEF c
<1>2. Cardinality(1 .. c) = c
  BY <1>1, FS_Interval
<1>3. Cardinality(aged) = c
  BY <1>1, <1>2
<1> QED
  BY <1>3 DEF c

\* A copy of the packets that are due, each decoded once.
LEMMA HandInOrder ==
  ASSUME RingTypeOK, ~gap, ~twice,
         NEW m \in 1 .. SLen, NEW slots \in [1 .. m -> Slots], Len(slots) = m,
         NEW times \in {0, 1}, Hand(slots, times),
         \A k \in 1 .. m : sBuf[slots[k]] = [n |-> want + k - 1, dec |-> 1 - times],
         NEW o \in Nat, o <= base + 1, base < o + TLen - 1, o <= want,
         old = (IF want <= base THEN want ELSE base + 1) - o
  PROVE  /\ ~gap' /\ ~twice' /\ want' = want + m
         /\ old' = (IF want' <= base THEN want' ELSE base + 1) - o
<1>0. m \in Nat /\ m \in Nat \ {0} /\ m \in 1 .. m /\ want \in Nat /\ base \in Nat /\ old \in Nat
  BY Constants DEF RingTypeOK
<1>1. \A k \in 1 .. m : sBuf[slots[k]].n = want + k - 1 /\ sBuf[slots[k]].dec + times = 1
  <2>1. ASSUME NEW k \in 1 .. m
        PROVE  sBuf[slots[k]].n = want + k - 1 /\ sBuf[slots[k]].dec = 1 - times
    <3>1. sBuf[slots[k]] = [n |-> want + k - 1, dec |-> 1 - times]
      OBVIOUS
    <3> QED
      BY <3>1
  <2>2. (1 - times) + times = 1
    OBVIOUS
  <2> QED
    BY <2>1, <2>2
<1>h. /\ gap' <=> gap \/ \E k \in 1 .. m : sBuf[slots[k]].n # want + k - 1
      /\ twice' <=> twice \/ \E k \in 1 .. m : sBuf[slots[k]].dec + times # 1
      /\ want' = sBuf[slots[m]].n + 1
      /\ old' = Lesser(TLen, old + Cardinality({k \in 1 .. m : sBuf[slots[k]].n <= base}))
  BY <1>0, HandInside
<1>2. ~gap' /\ ~twice'
  BY <1>h, <1>1
<1>3. want' = want + m
  BY <1>h, <1>1, <1>0
<1>4. PICK aged : aged = {k \in 1 .. m : want + k - 1 <= base}
  OBVIOUS
<1>5. {k \in 1 .. m : sBuf[slots[k]].n <= base} = aged
  BY <1>1, <1>4
<1>a. \A k : k \in aged <=> k \in 1 .. m /\ want + k - 1 <= base
  BY <1>4
<1>6. Cardinality(aged) =
        (IF want + m <= base THEN want + m ELSE IF want <= base THEN base + 1 ELSE want) - want
  <2>1. m \in Nat /\ want \in Nat /\ base \in Nat
    BY <1>0
  <2> QED
    BY <2>1, <1>a, Aged
<1>7. old' = (IF want + m <= base THEN want + m ELSE base + 1) - o
  <2> DEFINE x == old + Cardinality(aged)
  <2>1. x = (IF want + m <= base THEN want + m ELSE base + 1) - o
    BY <1>0, <1>6
  <2>2. x \in Nat /\ x < TLen
    BY <2>1, <1>0, Constants
  <2>3. old' = Lesser(TLen, x)
    BY <1>h, <1>5
  <2> HIDE DEF x
  <2> QED
    BY <2>1, <2>2, <2>3, Constants DEF Lesser
<1> QED
  BY <1>2, <1>3, <1>7

\* Nothing has gone wrong so far, and no start is under way.
Sound == ~over /\ ~reset /\ ~lost
Steady(o) ==
  /\ RingTypeOK /\ CountInv /\ PlaceInv
  /\ Sound /\ starts = <<>> /\ ~gap /\ ~twice /\ InRing(o)

LEMMA ReceiveInOrder ==
  ASSUME NEW o \in Nat, Steady(o), Receive PROVE InRing(o)' /\ ~gap' /\ ~twice'
<1>t. OrderTypes
  BY OrderTyped DEF Steady
<1>1. /\ got' = got + 1 /\ tBuf' = Append(tBuf, got + 1) /\ irq.at = "idle"
      /\ irq'.at \in {"idle", "copy"}
      /\ UNCHANGED <<sBuf, sBufStart, sBufStop, sBufByteCnt, rdr, want, base, old, gap, twice>>
  BY <1>t DEF Receive, OrderTypes, fields, verdict
<1>2. Len(tBuf') = Len(tBuf) + 1
  BY <1>1 DEF Steady, RingTypeOK
<1>3. Uncounted' = Uncounted
  BY <1>1, <1>2, <1>t DEF Uncounted, OrderTypes
<1>4. AtStop' = AtStop /\ Uncopied' = Uncopied
  BY <1>1, <1>3 DEF AtStop, Uncopied
<1>5. Taken' = Taken /\ AtStart' = AtStart
  BY <1>1 DEF Taken, AtStart
<1>6. InRing(o)'
  BY <1>1, <1>3, <1>4, <1>5 DEF Steady, InRing
<1> QED
  BY <1>1, <1>6 DEF Steady

LEMMA CopyInOrder ==
  ASSUME NEW o \in Nat, Steady(o), CopyIn, ~over' PROVE InRing(o)' /\ ~gap' /\ ~twice'
<1>t. OrderTypes
  BY OrderTyped DEF Steady
<1>o. InRing(o) /\ RingTypeOK /\ CountInv /\ ~reset /\ sBufStop \in Slots
  BY DEF Steady, Sound, RingTypeOK
<1>1. /\ irq.at = "copy" /\ irq'.at = "stop"
      /\ UNCHANGED <<tBuf, got, sBufStart, sBufStop, sBufByteCnt, rdr, want, base, old, gap, twice>>
  BY <1>t DEF CopyIn, OrderTypes, fields, verdict
<1>2. Len(tBuf) = TLen /\ \A j \in 1 .. TLen : tBuf[j] = got - TLen + j
  BY <1>1, <1>o DEF RingTypeOK
<1>3. /\ Uncounted' = Uncounted /\ AtStop' = AtStop /\ AtStop = Uncounted
      /\ Uncopied = Uncounted /\ Uncopied' = Uncounted + TLen
  BY <1>1, <1>2, <1>t, Constants DEF Uncounted, AtStop, Uncopied, OrderTypes
<1>4. Taken' = Taken /\ AtStart' = AtStart /\ Taken <= want /\ Taken \in Int
  BY <1>1, <1>t DEF Taken, AtStart, OrderTypes
<1>5. sBufByteCnt + TLen <= SLen
  <2>1. ~(sBufByteCnt + TLen > SLen)
    BY Zenon DEF CopyIn
  <2> QED
    BY <2>1, <1>t, Constants DEF OrderTypes
<1>6. Uncopied' - Taken <= SLen
  BY <1>3, <1>4, <1>5, <1>o, <1>t, Constants DEF InRing, OrderTypes
<1>7. o <= want /\ o <= Uncounted
  BY <1>o, <1>4, <1>t DEF InRing, OrderTypes
<1>8. sBufStop = Slot(o, Uncounted)
  BY <1>o, <1>3 DEF InRing
<1>9. ASSUME NEW n \in want .. Uncopied' - 1
      PROVE  sBuf'[Slot(o, n)] =
               [n |-> n, dec |-> IF rdr.at = "filter" /\ n < want + rdr.sz THEN 1 ELSE 0]
  <2>0. n \in Nat /\ o <= n
    BY <1>7, <1>t, <1>3, Constants DEF OrderTypes
  <2>i. Slot(o, n) \in Slots
    BY <2>0, SlotOnward
  <2>s. sBuf'[Slot(o, n)] = IF Source(Slot(o, n)) < TLen
                            THEN [n |-> tBuf[Source(Slot(o, n)) + 1], dec |-> 0]
                            ELSE sBuf[Slot(o, n)]
    BY <2>i DEF CopyIn
  <2>1. CASE n >= Uncounted
    <3> DEFINE j == n - Uncounted
    <3>1. j \in 0 .. TLen - 1 /\ j \in 0 .. SLen - 1 /\ j \in Nat /\ n = Uncounted + j
      BY <2>0, <2>1, <1>3, <1>t, Constants DEF OrderTypes
    <3>2. Slot(o, n) = (sBufStop + j) % SLen
      BY <3>1, <1>7, <1>8, <1>t, SlotOnward DEF OrderTypes
    <3>3. Source(Slot(o, n)) = j
      BY <3>1, <3>2, <2>i, <1>o, SourceOfSlot
    <3>4. tBuf[j + 1] = n
      <4>1. j + 1 \in 1 .. TLen
        BY <3>1, Constants
      <4>2. tBuf[j + 1] = got - TLen + (j + 1)
        BY <4>1, <1>2
      <4>3. Uncounted = got - TLen + 1
        BY <1>2 DEF Uncounted
      <4> QED
        BY <4>2, <4>3, <3>1, <1>t, Constants DEF OrderTypes
    <3>5. ~(rdr.at = "filter" /\ n < want + rdr.sz)
      <4> SUFFICES ASSUME rdr.at = "filter" PROVE ~(n < want + rdr.sz)
        OBVIOUS
      <4>1. rdr.sz <= sBufByteCnt /\ sBufByteCnt = Uncounted - want
        BY <1>o DEF CountInv, InRing, Taken
      <4> QED
        BY <4>1, <2>1, <2>0, <1>t DEF OrderTypes
    <3>6. j < TLen
      BY <3>1, Constants
    <3> HIDE DEF j
    <3> QED
      BY <2>s, <3>3, <3>4, <3>5, <3>6
  <2>2. CASE n < Uncounted
    <3>1. ASSUME Source(Slot(o, n)) < TLen PROVE FALSE
      <4> DEFINE j == Source(Slot(o, n))
      <4>0. 0 \in 0 .. SLen - 1
        BY Constants
      <4>1. j \in Nat
        BY <2>i, <4>0, <1>o, SourceOfSlot
      <4>2. j \in 0 .. SLen - 1
        BY <4>1, <3>1, Constants
      <4>3. Slot(o, n) = (sBufStop + j) % SLen
        BY <4>2, <2>i, <1>o, SourceOfSlot
      <4>4. Slot(o, n) = Slot(o, Uncounted + j)
        BY <4>1, <4>3, <1>7, <1>8, <1>t, SlotOnward DEF OrderTypes
      <4>5. n < Uncounted + j /\ Uncounted + j < n + SLen /\ Uncounted + j \in Nat
        BY <4>1, <3>1, <2>0, <2>2, <1>3, <1>4, <1>6, <1>t, Constants DEF OrderTypes
      <4> HIDE DEF j
      <4> QED
        BY <4>4, <4>5, <2>0, SlotsApart
    <3>2. sBuf'[Slot(o, n)] = sBuf[Slot(o, n)]
      BY <2>s, <3>1
    <3>3. n \in want .. Uncopied - 1
      BY <2>2, <1>3, <1>t DEF OrderTypes
    <3> QED
      BY <3>2, <3>3, <1>o DEF InRing
  <2> QED
    BY <2>1, <2>2, <2>0, <1>t DEF OrderTypes
<1>10. InRing(o)'
  BY <1>1, <1>3, <1>4, <1>6, <1>9, <1>o DEF InRing
<1> QED
  BY <1>1, <1>10 DEF Steady

LEMMA StopInOrder ==
  ASSUME NEW o \in Nat, Steady(o), MoveStop PROVE InRing(o)' /\ ~gap' /\ ~twice'
<1>t. OrderTypes
  BY OrderTyped DEF Steady
<1>o. InRing(o) /\ RingTypeOK
  BY DEF Steady
<1>1. /\ irq.at = "stop" /\ irq'.at = "count" /\ sBufStop' = Past(sBufStop, TLen)
      /\ UNCHANGED <<tBuf, got, sBuf, sBufStart, sBufByteCnt, rdr, want, base, old, gap, twice>>
  BY <1>t DEF MoveStop, OrderTypes, verdict
<1>2. Len(tBuf) = TLen
  BY <1>1, <1>o DEF RingTypeOK
<1>3. /\ Uncounted' = Uncounted /\ AtStop = Uncounted /\ AtStop' = got + 1
      /\ Uncopied' = Uncopied /\ got + 1 = Uncounted + TLen
  BY <1>1, <1>2, <1>t, Constants DEF Uncounted, AtStop, Uncopied, OrderTypes
<1>4. Taken' = Taken /\ AtStart' = AtStart /\ Taken \in Int /\ Taken <= Uncounted
  <2>1. Taken' = Taken /\ AtStart' = AtStart /\ Taken \in Int
    BY <1>1, <1>t DEF Taken, AtStart, OrderTypes
  <2> QED
    BY <2>1, <1>t, <1>o DEF InRing, OrderTypes
<1>5. o <= Uncounted
  BY <1>4, <1>o, <1>t DEF InRing, OrderTypes
<1>6. sBufStop' = Slot(o, AtStop')
  <2>1. sBufStop = Slot(o, Uncounted) /\ Uncounted \in Nat
    BY <1>3, <1>o, <1>t DEF InRing, OrderTypes
  <2>2. (Slot(o, Uncounted) + TLen) % SLen = Slot(o, Uncounted + TLen)
    BY <1>5, <2>1, SlotOnward, Constants
  <2> QED
    BY <1>1, <1>3, <2>1, <2>2 DEF Past
<1>7. InRing(o)'
  BY <1>1, <1>3, <1>4, <1>6, <1>o DEF InRing
<1> QED
  BY <1>1, <1>7 DEF Steady

LEMMA CountInOrder ==
  ASSUME NEW o \in Nat, Steady(o), CountIn PROVE InRing(o)' /\ ~gap' /\ ~twice'
<1>1. /\ irq.at = "count" /\ irq'.at = "add"
      /\ UNCHANGED <<tBuf, got, sBuf, sBufStart, sBufStop, sBufByteCnt, rdr, want, base, old, gap, twice>>
  BY DEF CountIn, fields, verdict
<1>2. Uncounted' = Uncounted /\ AtStop' = AtStop /\ Uncopied' = Uncopied
      /\ Taken' = Taken /\ AtStart' = AtStart
  BY <1>1 DEF Uncounted, AtStop, Uncopied, Taken, AtStart
<1> QED
  BY <1>1, <1>2 DEF Steady, InRing

LEMMA StoreInOrder ==
  ASSUME NEW o \in Nat, Steady(o), StoreIn, ~lost' PROVE InRing(o)' /\ ~gap' /\ ~twice'
<1>t. OrderTypes
  BY OrderTyped DEF Steady
<1>o. InRing(o) /\ RingTypeOK /\ CountInv /\ ~reset
  BY DEF Steady, Sound
<1>1. /\ irq.at = "add" /\ irq'.at = "idle" /\ Len(tBuf') = 0
      /\ sBufByteCnt' = (irq.cnt + TLen) % Word
      /\ UNCHANGED <<got, sBuf, sBufStart, sBufStop, rdr, want, base, old, gap, twice>>
  BY <1>o DEF StoreIn, InRing, verdict, NoIrq
<1>2. irq.cnt = sBufByteCnt
  BY <1>1, Zenon DEF StoreIn
<1>3. sBufByteCnt' = sBufByteCnt + TLen
  <2>1. irq.cnt + TLen <= SLen
    BY <1>1, <1>o DEF CountInv
  <2>2. irq.cnt + TLen \in 0 .. Word - 1
    BY <2>1, <1>t, Constants DEF OrderTypes
  <2>3. (irq.cnt + TLen) % Word = irq.cnt + TLen
    BY <2>2, Constants
  <2> QED
    BY <1>1, <1>2, <2>3
<1>4. Len(tBuf) = TLen
  BY <1>1, <1>o DEF RingTypeOK
<1>5. Uncounted' = got + 1 /\ got + 1 = Uncounted + TLen
  BY <1>1, <1>4, <1>t, Constants DEF Uncounted, OrderTypes
<1>6. AtStop' = AtStop /\ Uncopied' = Uncopied
  BY <1>1, <1>5 DEF AtStop, Uncopied
<1>7. Taken' = Taken /\ AtStart' = AtStart /\ Taken \in Int
  BY <1>1, <1>t DEF Taken, AtStart, OrderTypes
<1>8. sBufByteCnt' = Uncounted' - Taken'
  BY <1>3, <1>5, <1>7, <1>o, <1>t, Constants DEF InRing, OrderTypes
<1>9. InRing(o)'
  BY <1>1, <1>6, <1>7, <1>8, <1>o DEF InRing
<1> QED
  BY <1>1, <1>9 DEF Steady

LEMMA BeginInOrder ==
  ASSUME NEW o \in Nat, Steady(o), ReadBegin \/ ThreadBegin
  PROVE  InRing(o)' /\ ~gap' /\ ~twice'
<1>1. /\ rdr.at = "idle" /\ rdr'.at \in {"copy", "decode"}
      /\ UNCHANGED <<irq, tBuf, got, sBuf, sBufStart, sBufStop, sBufByteCnt, want, base, old, gap, twice>>
  BY DEF ReadBegin, ThreadBegin, fields, verdict, NoReader
<1>2. Uncounted' = Uncounted /\ AtStop' = AtStop /\ Uncopied' = Uncopied
      /\ Taken' = Taken /\ AtStart' = AtStart
  BY <1>1 DEF Uncounted, AtStop, Uncopied, Taken, AtStart
<1> QED
  BY <1>1, <1>2 DEF Steady, InRing

\* After a copy of m packets in order, m more are taken.
LEMMA AfterCopy ==
  ASSUME NEW o \in Nat, RingTypeOK, InRing(o), NEW m \in 1 .. SLen,
         rdr.at \in {"copy", "filter"}, rdr.at = "filter" => rdr.sz = m,
         rdr'.at = "move", rdr'.sz = m, want' = want + m,
         old' = (IF want' <= base THEN want' ELSE base + 1) - o,
         UNCHANGED <<irq, tBuf, got, sBuf, sBufStart, sBufStop, sBufByteCnt, base>>
  PROVE  InRing(o)'
<1>t. OrderTypes
  BY OrderTyped
<1>1. Uncounted' = Uncounted /\ AtStop' = AtStop /\ Uncopied' = Uncopied
  BY DEF Uncounted, AtStop, Uncopied
<1>2. Taken = want /\ AtStart = want /\ Taken' = want /\ AtStart' = want /\ m \in Nat
  BY <1>t, Constants DEF Taken, AtStart, OrderTypes
<1>3. ASSUME NEW n \in want' .. Uncopied - 1
      PROVE  sBuf[Slot(o, n)] = [n |-> n, dec |-> 0]
  <2>1. n \in want .. Uncopied - 1 /\ ~(n < want + m)
    BY <1>t, <1>2 DEF OrderTypes
  <2>2. sBuf[Slot(o, n)] =
          [n |-> n, dec |-> IF rdr.at = "filter" /\ n < want + rdr.sz THEN 1 ELSE 0]
    BY <2>1 DEF InRing
  <2>3. ~(rdr.at = "filter" /\ n < want + rdr.sz)
    BY <2>1
  <2> QED
    BY <2>2, <2>3
<1>4. \A n \in want' .. Uncopied' - 1 :
        sBuf'[Slot(o, n)] = [n |-> n, dec |-> IF rdr'.at = "filter" /\ n < want' + rdr'.sz THEN 1 ELSE 0]
  BY <1>1, <1>3
<1> QED
  BY <1>1, <1>2, <1>4 DEF InRing

LEMMA ReadCopyInOrder ==
  ASSUME NEW o \in Nat, Steady(o), ReadCopy PROVE InRing(o)' /\ ~gap' /\ ~twice'
<1>t. OrderTypes
  BY OrderTyped DEF Steady
<1>o. InRing(o) /\ RingTypeOK /\ CountInv /\ PlaceInv /\ Sound /\ ~gap /\ ~twice
  BY DEF Steady
<1>1. /\ rdr.at = "copy" /\ rdr'.at = "move" /\ rdr'.sz = RLen
      /\ Hand(ReadSlots(sBufStart, rdr.sz), 1)
      /\ UNCHANGED <<irq, tBuf, got, sBuf, sBufStart, sBufStop, sBufByteCnt, base>>
  BY <1>t DEF ReadCopy, OrderTypes, fields
<1>2. rdr.sz = SLen - sBufStart /\ sBufStart \in Slots
  BY <1>1, <1>o DEF PlaceInv, Sound, RingTypeOK
<1>3. AtStart = want /\ Taken = want /\ Uncopied >= Uncounted
  BY <1>1, <1>t, <1>o, TBufCounts, Constants DEF AtStart, Taken, Uncopied, Uncounted, OrderTypes
<1>4. sBufStart = Slot(o, want) /\ o <= want /\ RLen <= Uncopied - want
  BY <1>1, <1>3, <1>o, <1>t, Constants DEF InRing, CountInv, Sound, OrderTypes
<1>5. PICK slots \in [1 .. RLen -> Slots] :
        /\ slots = ReadSlots(sBufStart, rdr.sz) /\ Len(slots) = RLen
        /\ \A k \in 1 .. RLen : slots[k] = (sBufStart + (k - 1)) % SLen
  BY <1>2, ReadSlotsInside
<1>6. ASSUME NEW k \in 1 .. RLen PROVE sBuf[slots[k]] = [n |-> want + k - 1, dec |-> 1 - 1]
  <2>1. k - 1 \in Nat /\ want + (k - 1) = want + k - 1 /\ want + k - 1 \in want .. Uncopied - 1
    BY <1>4, <1>t, Constants DEF OrderTypes
  <2>2. slots[k] = Slot(o, want + k - 1)
    <3>1. (Slot(o, want) + (k - 1)) % SLen = Slot(o, want + (k - 1))
      BY <1>4, <1>t, <2>1, SlotOnward DEF OrderTypes
    <3> QED
      BY <3>1, <1>4, <1>5, <2>1
  <2>3. sBuf[Slot(o, want + k - 1)] = [n |-> want + k - 1, dec |-> 0]
    BY <2>1, <1>1, <1>o DEF InRing
  <2> QED
    BY <2>2, <2>3
<1>7. RLen \in 1 .. SLen
  BY Constants
<1>8. o <= base + 1 /\ base < o + TLen - 1 /\ old = (IF want <= base THEN want ELSE base + 1) - o
  BY <1>o DEF InRing
<1>9. /\ ~gap' /\ ~twice' /\ want' = want + RLen
      /\ old' = (IF want' <= base THEN want' ELSE base + 1) - o
  BY <1>1, <1>4, <1>5, <1>6, <1>7, <1>8, <1>o, HandInOrder
<1>10. InRing(o)'
  BY <1>1, <1>7, <1>9, <1>o, AfterCopy
<1> QED
  BY <1>9, <1>10

\* The slots of the thread's chunk, packet by packet.
LEMMA Chunk ==
  ASSUME NEW o \in Nat, RingTypeOK, CountInv, PlaceInv, Sound, InRing(o),
         rdr.at \in {"decode", "filter"}
  PROVE  /\ o <= want /\ rdr.from \in Slots /\ rdr.sz \in 1 .. SLen /\ rdr.from + rdr.sz <= SLen
         /\ want + rdr.sz <= Uncopied
         /\ \A k \in 0 .. rdr.sz - 1 : rdr.from + k = Slot(o, want + k)
<1>t. OrderTypes
  BY OrderTyped
<1>1. rdr.from = sBufStart /\ rdr.sz <= sBufByteCnt
  BY DEF PlaceInv, CountInv, Sound
<1>2. rdr.from \in Slots /\ rdr.sz \in 1 .. SLen /\ rdr.from + rdr.sz <= SLen
  BY <1>t, Constants DEF RingTypeOK, OrderTypes
<1>3. AtStart = want /\ Taken = want /\ Uncopied >= Uncounted
  BY <1>t, TBufCounts, Constants DEF AtStart, Taken, Uncopied, Uncounted, OrderTypes
<1>4. sBufStart = Slot(o, want) /\ o <= want /\ want + rdr.sz <= Uncopied
  BY <1>1, <1>3, <1>t, Constants DEF InRing, OrderTypes
<1>5. ASSUME NEW k \in 0 .. rdr.sz - 1 PROVE rdr.from + k = Slot(o, want + k)
  <2>1. k \in Nat /\ rdr.from + k \in 0 .. SLen - 1 /\ rdr.from \in 0 .. SLen - 1 /\ k \in 0 .. SLen
    BY <1>2, Constants DEF Slots
  <2>2. (rdr.from + k) % SLen = rdr.from + k
    BY <2>1, Constants
  <2>3. (Slot(o, want) + k) % SLen = Slot(o, want + k)
    BY <1>4, <2>1, <1>t, SlotOnward DEF OrderTypes
  <2> QED
    BY <1>1, <1>4, <2>2, <2>3
<1> QED
  BY <1>2, <1>4, <1>5

LEMMA DecodeInOrder ==
  ASSUME NEW o \in Nat, Steady(o), Decode PROVE InRing(o)' /\ ~gap' /\ ~twice'
<1>t. OrderTypes
  BY OrderTyped DEF Steady
<1>o. InRing(o) /\ RingTypeOK /\ CountInv /\ PlaceInv /\ Sound
  BY DEF Steady
<1>1. /\ rdr.at = "decode" /\ rdr'.at = "filter" /\ rdr'.sz = rdr.sz
      /\ sBuf' = [i \in Slots |-> IF i \in rdr.from .. rdr.from + rdr.sz - 1
                                  THEN [sBuf[i] EXCEPT !.dec = Lesser(2, @ + 1)]
                                  ELSE sBuf[i]]
      /\ UNCHANGED <<irq, tBuf, got, sBufStart, sBufStop, sBufByteCnt, want, base, old, gap, twice>>
  BY <1>t DEF Decode, OrderTypes, fields, verdict
<1>2. Uncounted' = Uncounted /\ AtStop' = AtStop /\ Uncopied' = Uncopied
      /\ Taken' = Taken /\ AtStart' = AtStart /\ Taken = want
  BY <1>1 DEF Uncounted, AtStop, Uncopied, Taken, AtStart
<1>3. /\ o <= want /\ rdr.from \in Slots /\ rdr.sz \in 1 .. SLen
      /\ \A k \in 0 .. rdr.sz - 1 : rdr.from + k = Slot(o, want + k)
  BY <1>1, <1>o, Chunk
<1>4. ASSUME NEW n \in want .. Uncopied - 1
      PROVE  sBuf'[Slot(o, n)] = [n |-> n, dec |-> IF n < want + rdr.sz THEN 1 ELSE 0]
  <2>0. n \in Nat /\ o <= n /\ Slot(o, n) \in Slots /\ want \in Nat /\ rdr.sz \in Nat /\ rdr.from \in Nat
    <3>1. n \in Nat /\ o <= n /\ want \in Nat
      BY <1>3, <1>t DEF OrderTypes
    <3>2. rdr.sz \in Nat /\ rdr.from \in Nat
      BY <1>3, Constants DEF Slots
    <3>3. Slot(o, n) \in Slots
      BY <3>1, SlotOnward
    <3> QED
      BY <3>1, <3>2, <3>3
  <2>1. sBuf[Slot(o, n)] = [n |-> n, dec |-> 0]
    BY <1>o, <1>1 DEF InRing
  <2>2. CASE n < want + rdr.sz
    <3>1. n - want \in 0 .. rdr.sz - 1 /\ want + (n - want) = n
      BY <2>0, <2>2
    <3>2. rdr.from + (n - want) = Slot(o, n)
      BY <1>3, <3>1
    <3>3. Slot(o, n) \in rdr.from .. rdr.from + rdr.sz - 1
      BY <3>1, <3>2, <2>0
    <3>4. sBuf'[Slot(o, n)] = [sBuf[Slot(o, n)] EXCEPT !.dec = Lesser(2, sBuf[Slot(o, n)].dec + 1)]
      BY <1>1, <2>0, <3>3
    <3>5. Lesser(2, 0 + 1) = 1
      BY DEF Lesser
    <3> QED
      BY <2>1, <2>2, <3>4, <3>5
  <2>3. CASE ~(n < want + rdr.sz)
    <3>1. ASSUME Slot(o, n) \in rdr.from .. rdr.from + rdr.sz - 1 PROVE FALSE
      <4>1. PICK k \in 0 .. rdr.sz - 1 : Slot(o, n) = rdr.from + k
        <5>1. Slot(o, n) - rdr.from \in 0 .. rdr.sz - 1 /\ Slot(o, n) = rdr.from + (Slot(o, n) - rdr.from)
          BY <3>1, <2>0
        <5> QED
          BY <5>1
      <4>2. Slot(o, n) = Slot(o, want + k)
        BY <1>3, <4>1
      <4>3. want + k \in Nat /\ o <= want + k /\ want + k < n /\ n < (want + k) + SLen
        <5>1. Uncopied - want <= SLen
          BY <1>o, <1>2 DEF InRing
        <5> QED
          BY <5>1, <2>0, <2>3, <1>3, <1>t, Constants DEF OrderTypes
      <4> QED
        BY <4>2, <4>3, <2>0, SlotsApart
    <3>2. sBuf'[Slot(o, n)] = sBuf[Slot(o, n)]
      BY <1>1, <2>0, <3>1
    <3> QED
      BY <2>1, <2>3, <3>2
  <2> QED
    BY <2>2, <2>3
<1>5. InRing(o)'
  BY <1>1, <1>2, <1>4, <1>o DEF InRing
<1> QED
  BY <1>1, <1>5 DEF Steady

LEMMA FilterInOrder ==
  ASSUME NEW o \in Nat, Steady(o), Filter PROVE InRing(o)' /\ ~gap' /\ ~twice'
<1>t. OrderTypes
  BY OrderTyped DEF Steady
<1>o. InRing(o) /\ RingTypeOK /\ CountInv /\ PlaceInv /\ Sound /\ ~gap /\ ~twice
  BY DEF Steady
<1>1. /\ rdr.at = "filter" /\ rdr'.at = "move" /\ rdr'.sz = rdr.sz
      /\ Hand([k \in 1 .. rdr.sz |-> rdr.from + k - 1], 0)
      /\ UNCHANGED <<irq, tBuf, got, sBuf, sBufStart, sBufStop, sBufByteCnt, base>>
  BY <1>t DEF Filter, OrderTypes, fields
<1>2. /\ o <= want /\ rdr.from \in Slots /\ rdr.sz \in 1 .. SLen /\ rdr.from + rdr.sz <= SLen
      /\ want + rdr.sz <= Uncopied
      /\ \A k \in 0 .. rdr.sz - 1 : rdr.from + k = Slot(o, want + k)
  BY <1>1, <1>o, Chunk
<1>3. PICK slots \in [1 .. rdr.sz -> Slots] :
        slots = [k \in 1 .. rdr.sz |-> rdr.from + k - 1] /\ Len(slots) = rdr.sz
  BY <1>2, ThreadSlotsInside
<1>4. ASSUME NEW k \in 1 .. rdr.sz PROVE sBuf[slots[k]] = [n |-> want + k - 1, dec |-> 1 - 0]
  <2>1. k - 1 \in 0 .. rdr.sz - 1 /\ want + (k - 1) = want + k - 1
        /\ want + k - 1 \in want .. Uncopied - 1 /\ want + k - 1 < want + rdr.sz
        /\ rdr.from + (k - 1) = rdr.from + k - 1
    BY <1>2, <1>t, Constants DEF OrderTypes, Slots
  <2>2. slots[k] = Slot(o, want + k - 1)
    BY <1>2, <1>3, <2>1
  <2>3. sBuf[Slot(o, want + k - 1)] = [n |-> want + k - 1, dec |-> 1]
    BY <2>1, <1>1, <1>o DEF InRing
  <2> QED
    BY <2>2, <2>3
<1>5. o <= base + 1 /\ base < o + TLen - 1 /\ old = (IF want <= base THEN want ELSE base + 1) - o
  BY <1>o DEF InRing
<1>6. /\ ~gap' /\ ~twice' /\ want' = want + rdr.sz
      /\ old' = (IF want' <= base THEN want' ELSE base + 1) - o
  BY <1>1, <1>2, <1>3, <1>4, <1>5, <1>o, HandInOrder
<1>7. InRing(o)'
  BY <1>1, <1>2, <1>6, <1>o, AfterCopy
<1> QED
  BY <1>6, <1>7

LEMMA MoveInOrder ==
  ASSUME NEW o \in Nat, Steady(o), MoveStart PROVE InRing(o)' /\ ~gap' /\ ~twice'
<1>t. OrderTypes
  BY OrderTyped DEF Steady
<1>o. InRing(o) /\ RingTypeOK
  BY DEF Steady
<1>1. /\ rdr.at = "move" /\ rdr'.at = "load" /\ rdr'.sz = rdr.sz
      /\ sBufStart' = Past(sBufStart, rdr.sz)
      /\ UNCHANGED <<irq, tBuf, got, sBuf, sBufStop, sBufByteCnt, want, base, old, gap, twice>>
  BY <1>t DEF MoveStart, OrderTypes, verdict
<1>2. /\ Uncounted' = Uncounted /\ AtStop' = AtStop /\ Uncopied' = Uncopied /\ Taken' = Taken
      /\ AtStart = want - rdr.sz /\ Taken = want - rdr.sz /\ AtStart' = want
  BY <1>1 DEF Uncounted, AtStop, Uncopied, Taken, AtStart
<1>3. sBufStart = Slot(o, want - rdr.sz) /\ o <= want - rdr.sz /\ want - rdr.sz \in Nat
      /\ (want - rdr.sz) + rdr.sz = want
  <2>1. o <= Taken /\ sBufStart = Slot(o, AtStart)
    BY <1>o DEF InRing
  <2>2. want \in Nat /\ rdr.sz \in Nat
    BY <1>t DEF OrderTypes
  <2> QED
    BY <1>2, <2>1, <2>2
<1>4. (Slot(o, want - rdr.sz) + rdr.sz) % SLen = Slot(o, (want - rdr.sz) + rdr.sz)
  BY <1>3, <1>t, SlotOnward DEF OrderTypes
<1>5. sBufStart' = Slot(o, AtStart')
  BY <1>1, <1>2, <1>3, <1>4 DEF Past
<1>6. InRing(o)'
  BY <1>1, <1>2, <1>5, <1>o DEF InRing
<1> QED
  BY <1>1, <1>6 DEF Steady

LEMMA LoadInOrder ==
  ASSUME NEW o \in Nat, Steady(o), LoadOut PROVE InRing(o)' /\ ~gap' /\ ~twice'
<1>t. OrderTypes
  BY OrderTyped DEF Steady
<1>1. /\ rdr.at = "load" /\ rdr'.at = "store" /\ rdr'.sz = rdr.sz
      /\ UNCHANGED <<irq, tBuf, got, sBuf, sBufStart, sBufStop, sBufByteCnt, want, base, old, gap, twice>>
  BY <1>t DEF LoadOut, OrderTypes, fields, verdict
<1>2. /\ Uncounted' = Uncounted /\ AtStop' = AtStop /\ Uncopied' = Uncopied /\ Taken' = Taken
      /\ AtStart' = AtStart
  BY <1>1 DEF Uncounted, AtStop, Uncopied, Taken, AtStart
<1> QED
  BY <1>1, <1>2 DEF Steady, InRing

LEMMA TakenInOrder ==
  ASSUME NEW o \in Nat, Steady(o), StoreOut, ~lost' PROVE InRing(o)' /\ ~gap' /\ ~twice'
<1>t. OrderTypes
  BY OrderTyped DEF Steady
<1>o. InRing(o) /\ CountInv /\ Sound
  BY DEF Steady
<1>1. /\ rdr.at = "store" /\ rdr'.at = "idle"
      /\ sBufByteCnt' = (rdr.cnt + Word - rdr.sz) % Word
      /\ UNCHANGED <<irq, tBuf, got, sBuf, sBufStart, sBufStop, want, base, old, gap, twice>>
  BY DEF StoreOut, verdict, NoReader
<1>2. rdr.cnt = sBufByteCnt
  BY Zenon DEF StoreOut
<1>3. sBufByteCnt' = sBufByteCnt - rdr.sz
  <2>1. rdr.sz <= rdr.cnt /\ rdr.cnt \in 0 .. Word - 1 /\ rdr.sz \in Nat
    BY <1>1, <1>o, <1>t DEF CountInv, Sound, OrderTypes
  <2>2. rdr.cnt - rdr.sz \in 0 .. Word - 1
    BY <2>1, Constants
  <2>3. (1 * Word + (rdr.cnt - rdr.sz)) % Word = rdr.cnt - rdr.sz
    BY <2>2, Constants, Remainder
  <2>4. 1 * Word + (rdr.cnt - rdr.sz) = rdr.cnt + Word - rdr.sz
    BY <2>1, Constants
  <2> QED
    BY <1>1, <1>2, <2>3, <2>4
<1>4. /\ Uncounted' = Uncounted /\ AtStop' = AtStop /\ Uncopied' = Uncopied /\ AtStart' = AtStart
      /\ Taken = want - rdr.sz /\ Taken' = want
  BY <1>1 DEF Uncounted, AtStop, Uncopied, Taken, AtStart
<1>5. sBufByteCnt' = Uncounted' - Taken' /\ o <= Taken' /\ Uncopied' - Taken' <= SLen
  <2>1. sBufByteCnt = Uncounted - Taken /\ o <= Taken /\ Uncopied - Taken <= SLen
    BY <1>o DEF InRing
  <2>2. /\ want \in Nat /\ rdr.sz \in Nat /\ Uncounted \in Int /\ Uncopied \in Int
    BY <1>t, TBufCounts, Constants DEF OrderTypes, Uncounted, Uncopied
  <2> QED
    BY <1>3, <1>4, <2>1, <2>2, Constants
<1>6. InRing(o)'
  BY <1>1, <1>4, <1>5, <1>o DEF InRing
<1> QED
  BY <1>1, <1>6 DEF Steady

\* A start clears what was noted of the recording before; its stores make the
\* ring empty, and the last of them begins a new one with what is in tBuf.
LEMMA StartInOrder ==
  ASSUME Start PROVE OrderInv'
<1>1. /\ starts' = RingFields /\ old' = 0 /\ ~gap' /\ ~twice'
  BY Zenon DEF Start
<1>2. RingFields # <<>> /\ RingFields # StopStart /\ RingFields # JustStart
  BY DEF RingFields, StopStart, JustStart
<1> QED
  BY <1>1, <1>2, Zenon DEF OrderInv, Cleared

LEMMA ResetInOrder ==
  ASSUME RingTypeOK, Undisturbed, OrderInv, ResetField PROVE OrderInv'
<1> SUFFICES ASSUME ~over', ~reset', ~lost'
             PROVE  /\ ~gap' /\ ~twice' /\ Cleared'
                    /\ starts' = <<>> => \E o \in 1 .. MaxPkt + 1 : InRing(o)'
  BY Zenon DEF OrderInv
<1>t. OrderTypes
  BY OrderTyped
<1>f. ~over /\ ~reset /\ ~lost /\ starts # <<>> /\ irq.at = "idle" /\ rdr.at = "idle"
      /\ gap' = gap /\ twice' = twice
  BY Zenon DEF ResetField
<1>1. ~gap /\ ~twice /\ Cleared
  BY <1>f DEF OrderInv
<1>2. /\ starts' = Tail(starts) /\ base' = got /\ want' = Uncounted
      /\ UNCHANGED <<tBuf, sBuf, irq, rdr, got, old>>
      /\ old = 0
  BY <1>f, <1>1 DEF ResetField, Uncounted, Cleared
<1>3. Uncounted' = Uncounted
  BY <1>2 DEF Uncounted
<1>4. CASE starts = RingFields
  <2>1. sBufByteCnt' = 0 /\ starts' = StopStart
    BY <1>4, <1>f, <1>2, StartsShape DEF ResetField, RingFields, StopStart, JustStart
  <2>2. StopStart # JustStart /\ StopStart # <<>>
    BY DEF StopStart, JustStart
  <2> QED
    BY <1>f, <1>1, <1>2, <1>3, <2>1, <2>2 DEF Cleared
<1>5. CASE starts = StopStart
  <2>1. sBufStop' = 0 /\ sBufByteCnt' = 0 /\ starts' = JustStart
    <3>1. Head(starts) = "stop" /\ Tail(starts) = JustStart
      BY <1>5, <1>f, StartsShape DEF RingFields, StopStart, JustStart
    <3>2. sBufByteCnt = 0
      BY <1>1, <1>5 DEF Cleared
    <3> QED
      BY <3>1, <3>2, <1>2 DEF ResetField
  <2> QED
    BY <1>f, <1>1, <1>2, <1>3, <2>1 DEF Cleared, JustStart
<1>6. CASE starts = JustStart
  <2>1. sBufStart' = 0 /\ sBufStop' = 0 /\ sBufByteCnt' = 0 /\ starts' = <<>>
    <3>1. Head(starts) = "start" /\ Tail(starts) = <<>>
      BY <1>6, <1>f, StartsShape DEF RingFields, StopStart, JustStart
    <3>2. sBufByteCnt = 0 /\ sBufStop = 0
      BY <1>1, <1>6 DEF Cleared
    <3> QED
      BY <3>1, <3>2, <1>2 DEF ResetField
  <2>2. Len(tBuf) \in 0 .. TLen - 1 /\ Len(tBuf) <= got /\ got \in 0 .. MaxPkt
    <3>1. Len(tBuf) < TLen /\ got \in 0 .. MaxPkt
      BY <1>f DEF RingTypeOK
    <3> QED
      BY <3>1, <1>t, TBufCounts, Constants DEF OrderTypes
  <2>3. PICK o \in 1 .. MaxPkt + 1 : o = Uncounted
    <3>1. got - Len(tBuf) + 1 \in 1 .. MaxPkt + 1
      BY <2>2, Constants
    <3> QED
      BY <3>1 DEF Uncounted
  <2>4. /\ Taken' = o /\ AtStart' = o /\ AtStop' = o /\ Uncopied' = o /\ Uncounted' = o /\ want' = o
    BY <1>f, <1>2, <1>3, <2>3 DEF Taken, AtStart, AtStop, Uncopied
  <2>5. Slot(o, o) = 0
    <3>1. o - o = 0 /\ 0 % SLen = 0
      BY <2>3, Constants
    <3> QED
      BY <3>1 DEF Slot
  <2>6. o <= got + 1 /\ got < o + TLen - 1 /\ 0 = (IF o <= got THEN o ELSE got + 1) - o
    BY <2>2, <2>3, Constants DEF Uncounted
  <2>7. o - o = 0 /\ 0 <= SLen /\ \A n : n \notin o .. o - 1
    BY <2>3, Constants
  <2>8. InRing(o)'
    BY <1>f, <1>2, <2>1, <2>4, <2>5, <2>6, <2>7 DEF InRing
  <2>9. Cleared'
    BY <2>1 DEF Cleared, StopStart, JustStart
  <2> QED
    BY <1>f, <1>1, <2>8, <2>9
<1> QED
  BY <1>4, <1>5, <1>6, <1>f DEF RingTypeOK

\* A step that begins no start and stores nothing of one.
LEMMA GoesOn ==
  ASSUME RingTypeOK, Undisturbed, CountInv, PlaceInv, OrderInv, PsNext, ~Start, ~ResetField,
         ~over', ~reset', ~lost'
  PROVE  /\ starts = <<>> /\ starts' = <<>>
         /\ \E o \in 1 .. MaxPkt + 1 : InRing(o)' /\ ~gap' /\ ~twice'
<1>t. OrderTypes
  BY OrderTyped
<1>1. starts' = starts /\ ~over /\ ~reset /\ ~lost
  <2>1. starts' = starts
    BY DEF PsNext, Receive, CopyIn, MoveStop, CountIn, CountFull, StoreIn, ReadBegin, ThreadBegin, ReadCopy, Decode, Filter, MoveStart, LoadOut, StoreOut
  <2>2. ~over
    <3>1. CASE CopyIn \/ CountFull
      BY <3>1, Zenon DEF CopyIn, CountFull
    <3>2. CASE ~(CopyIn \/ CountFull)
      <4>1. over' = over
        BY <3>2 DEF PsNext, Receive, MoveStop, CountIn, StoreIn, ReadBegin, ThreadBegin, ReadCopy, Decode, Filter, MoveStart, LoadOut, StoreOut
      <4> QED
        BY <4>1
    <3> QED
      BY <3>1, <3>2
  <2>3. ~reset
    <3>1. CASE Receive \/ ReadBegin \/ ThreadBegin
      BY <3>1, Zenon DEF Receive, ReadBegin, ThreadBegin
    <3>2. CASE ~(Receive \/ ReadBegin \/ ThreadBegin)
      <4>1. reset' = reset
        BY <3>2 DEF PsNext, CopyIn, MoveStop, CountIn, CountFull, StoreIn, ReadCopy, Decode, Filter, MoveStart, LoadOut, StoreOut
      <4> QED
        BY <4>1
    <3> QED
      BY <3>1, <3>2
  <2>4. ~lost
    <3>1. CASE StoreIn \/ StoreOut
      BY <3>1, Zenon DEF StoreIn, StoreOut
    <3>2. CASE ~(StoreIn \/ StoreOut)
      <4>1. lost' = lost
        BY <3>2 DEF PsNext, Receive, CopyIn, MoveStop, CountIn, CountFull, ReadBegin, ThreadBegin, ReadCopy, Decode, Filter, MoveStart, LoadOut
      <4> QED
        BY <4>1
    <3> QED
      BY <3>1, <3>2
  <2> QED
    BY <2>1, <2>2, <2>3, <2>4
<1>2. ASSUME starts # <<>> PROVE FALSE
  <2>1. irq.at = "idle" /\ rdr.at = "idle"
    BY <1>1, <1>2 DEF Undisturbed
  <2>2. CASE Receive \/ ReadBegin \/ ThreadBegin
    BY <2>2, <1>2, Zenon DEF Receive, ReadBegin, ThreadBegin
  <2>3. CASE CopyIn \/ MoveStop \/ CountIn \/ CountFull \/ StoreIn
    BY <2>1, <2>3 DEF CopyIn, MoveStop, CountIn, CountFull, StoreIn
  <2>4. CASE ReadCopy \/ Decode \/ Filter \/ MoveStart \/ LoadOut \/ StoreOut
    BY <2>1, <2>4 DEF ReadCopy, Decode, Filter, MoveStart, LoadOut, StoreOut
  <2> QED
    BY <2>2, <2>3, <2>4, Zenon DEF PsNext
<1>3. PICK o \in 1 .. MaxPkt + 1 : InRing(o)
  BY <1>1, <1>2, Zenon DEF OrderInv
<1>4. o \in Nat
  BY <1>3, Constants
<1>5. Steady(o)
  BY <1>1, <1>2, <1>3 DEF Steady, Sound, OrderInv
<1>6. ~CountFull
  BY Zenon DEF CountFull
<1>7. InRing(o)' /\ ~gap' /\ ~twice'
  <2>1. CASE Receive
    BY <2>1, <1>4, <1>5, ReceiveInOrder
  <2>2. CASE CopyIn
    BY <2>2, <1>4, <1>5, CopyInOrder
  <2>3. CASE MoveStop
    BY <2>3, <1>4, <1>5, StopInOrder
  <2>4. CASE CountIn
    BY <2>4, <1>4, <1>5, CountInOrder
  <2>5. CASE StoreIn
    BY <2>5, <1>4, <1>5, StoreInOrder
  <2>6. CASE ReadBegin \/ ThreadBegin
    BY <2>6, <1>4, <1>5, BeginInOrder
  <2>7. CASE ReadCopy
    BY <2>7, <1>4, <1>5, ReadCopyInOrder
  <2>8. CASE Decode
    BY <2>8, <1>4, <1>5, DecodeInOrder
  <2>9. CASE Filter
    BY <2>9, <1>4, <1>5, FilterInOrder
  <2>10. CASE MoveStart
    BY <2>10, <1>4, <1>5, MoveInOrder
  <2>11. CASE LoadOut
    BY <2>11, <1>4, <1>5, LoadInOrder
  <2>12. CASE StoreOut
    BY <2>12, <1>4, <1>5, TakenInOrder
  <2> QED
    BY <1>6, <2>1, <2>2, <2>3, <2>4, <2>5, <2>6, <2>7, <2>8, <2>9, <2>10, <2>11, <2>12, Zenon
    DEF PsNext
<1> QED
  BY <1>1, <1>2, <1>3, <1>7, Zenon

LEMMA OrderNext ==
  ASSUME RingTypeOK, Undisturbed, CountInv, PlaceInv, OrderInv, [PsNext]_psVars
  PROVE  OrderInv'
<1>1. CASE Start
  BY <1>1, StartInOrder
<1>2. CASE ResetField
  BY <1>2, ResetInOrder
<1>3. CASE PsNext /\ ~Start /\ ~ResetField
  <2> SUFFICES ASSUME ~over', ~reset', ~lost'
               PROVE  /\ ~gap' /\ ~twice' /\ Cleared'
                      /\ starts' = <<>> => \E o \in 1 .. MaxPkt + 1 : InRing(o)'
    BY Zenon DEF OrderInv
  <2>1. starts' = <<>> /\ \E o \in 1 .. MaxPkt + 1 : InRing(o)' /\ ~gap' /\ ~twice'
    BY <1>3, GoesOn
  <2>2. Cleared'
    BY <2>1 DEF Cleared, StopStart, JustStart
  <2> QED
    BY <2>1, <2>2
<1>4. CASE UNCHANGED psVars
  <2>1. /\ UNCHANGED <<over, reset, lost, gap, twice, starts>>
        /\ UNCHANGED <<irq, rdr, tBuf, got, sBuf, sBufStart, sBufStop, sBufByteCnt, want, base, old>>
    BY <1>4 DEF psVars, fields, verdict
  <2> QED
    BY <2>1 DEF OrderInv, Cleared, InRing, Taken, AtStart, Uncounted, AtStop, Uncopied
<1> QED
  BY <1>1, <1>2, <1>3, <1>4

LEMMA OrderInit == PsInit => OrderInv
<1> SUFFICES ASSUME PsInit PROVE OrderInv
  OBVIOUS
<1>1. /\ irq.at = "idle" /\ rdr.at = "idle" /\ starts = <<>> /\ got = 0 /\ tBuf = <<>>
      /\ base = 0 /\ want = 1 /\ old = 0 /\ sBufStart = 0 /\ sBufStop = 0 /\ sBufByteCnt = 0
      /\ ~gap /\ ~twice
  BY DEF PsInit, NoIrq, NoReader
<1>2. Len(tBuf) = 0
  BY <1>1
<1>3. Taken = 1 /\ AtStart = 1 /\ AtStop = 1 /\ Uncopied = 1 /\ Uncounted = 1
  BY <1>1, <1>2 DEF Taken, AtStart, AtStop, Uncopied, Uncounted
<1>4. Slot(1, 1) = 0
  <2>1. 1 - 1 = 0 /\ 0 % SLen = 0
    BY Constants
  <2> QED
    BY <2>1 DEF Slot
<1>5. InRing(1)
  BY <1>1, <1>3, <1>4, Constants DEF InRing
<1>6. 1 \in 1 .. MaxPkt + 1
  BY Constants
<1>7. Cleared
  BY <1>1 DEF Cleared, StopStart, JustStart
<1> QED
  BY <1>1, <1>5, <1>6, <1>7 DEF OrderInv

\* Everything a step of the ring keeps.
RingInv == RingTypeOK /\ Undisturbed /\ CountInv /\ PlaceInv /\ OrderInv

LEMMA RingKept == PsSpec => []RingInv
<1>1. PsInit => RingInv
  BY RingTypeInit, CountInit, PlaceInit, OrderInit DEF RingInv
<1>2. RingInv /\ [PsNext]_psVars => RingInv'
  BY RingTypeNext, UndisturbedNext, CountNext, PlaceNext, OrderNext DEF RingInv
<1> QED
  BY <1>1, <1>2, PTL DEF PsSpec

\* As long as the handler met no ring without room, no start came between two
\* steps of the handler or the reader, and no update of the counter was lost,
\* every packet comes out of the ring once, in order, across the wraps of both
\* positions, and decoded exactly once: for every size of ring, transfer and
\* read (pxq3pe_dma_put_stream, pxq3pe_read, pxq3pe_thread).
THEOREM EveryPacketOnce == PsSpec => []RingInOrder
<1>1. RingInv => RingInOrder
  BY Zenon DEF RingInv, OrderInv, RingInOrder
<1> QED
  BY <1>1, RingKept, PTL

\* What a start leaves of the recording before is less than a transfer
\* (pxq3pe_dma_start does not reset tBufIdx).
THEOREM LessThanATransfer == PsSpec => []OldIsBounded
<1>1. RingInv => OldIsBounded
  <2> SUFFICES ASSUME RingInv, ~over, ~reset, ~lost PROVE old < TLen
    BY DEF OldIsBounded
  <2>t. OrderTypes
    BY OrderTyped DEF RingInv
  <2>1. CASE starts # <<>>
    BY <2>1, Constants DEF RingInv, OrderInv, Cleared
  <2>2. CASE starts = <<>>
    <3>1. PICK o \in 1 .. MaxPkt + 1 : InRing(o)
      BY <2>2, Zenon DEF RingInv, OrderInv
    <3>2. o \in Nat /\ base < o + TLen - 1 /\ old = (IF want <= base THEN want ELSE base + 1) - o
      BY <3>1, Constants DEF InRing
    <3> QED
      BY <3>2, <2>t, Constants DEF OrderTypes
  <2> QED
    BY <2>1, <2>2
<1> QED
  BY <1>1, RingKept, PTL
=============================================================================
