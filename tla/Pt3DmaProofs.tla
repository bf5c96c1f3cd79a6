---------------------------- MODULE Pt3DmaProofs ----------------------------
(***************************************************************************)
(* The stream of a PT3 channel, for pages and descriptor pages of any      *)
(* size, any number of ioctls and of reads of any size.                    *)
(***************************************************************************)
EXTENDS Pt3Dma, RingArithmetic, SequenceTheorems

-----------------------------------------------------------------------------
(* The chain.                                                              *)

LEMMA Constants ==
  /\ TsCount \in Nat \ {0} /\ TsCount >= 2 /\ Parts \in Nat \ {0}
  /\ DescSize \in Nat \ {0} /\ DescPage \in Nat
  /\ Total \in Nat \ {0} /\ Total = TsCount * Parts
  /\ MaxParts \in Nat /\ MaxPolls \in Nat \ {0} /\ Sizes \subseteq Nat \ {0}
<1>1. \A a, b \in Nat \ {0} : a * b \in Nat \ {0}
  OBVIOUS
<1>2. TsCount \in Nat \ {0} /\ Parts \in Nat \ {0}
  BY Pt3DmaAssumption
<1>3. TsCount * Parts \in Nat \ {0}
  BY <1>1, <1>2
<1> QED
  BY <1>2, <1>3, Pt3DmaAssumption DEF Total

\* A descriptor page is never quite full: 4096 is no multiple of 20.
LEMMA PerPageFits == PerPage \in Nat \ {0} /\ PerPage * DescSize < DescPage
<1>1. DescSize \in Nat \ {0} /\ DescPage \in Nat /\ DescSize <= DescPage
  BY Pt3DmaAssumption
<1>r. PICK r : r = DescPage % DescSize
  OBVIOUS
<1>2. r # 0
  BY <1>r, Pt3DmaAssumption
<1>3. PerPage \in Nat
  BY <1>1 DEF PerPage
<1>4. DescPage = DescSize * PerPage + r /\ r \in 0 .. DescSize - 1
  BY <1>1, <1>r DEF PerPage
<1>5. PerPage # 0
  BY <1>1, <1>3, <1>4
<1> QED
  BY <1>1, <1>2, <1>3, <1>4, <1>5

\* There are enough descriptor pages, so no early return is taken.
LEMMA AllWritten == \A i \in 0 .. Total - 1 : Written(i) /\ ~PageFull(i)
<1>1. /\ PerPage \in Nat \ {0} /\ PerPage * DescSize < DescPage
      /\ DescSize \in Nat \ {0} /\ DescPage \in Nat /\ Total \in Nat \ {0}
  BY Constants, PerPageFits
<1>2. ASSUME NEW i \in 0 .. Total - 1 PROVE ~PageFull(i)
  <2>1. PICK r : r = i % PerPage
    OBVIOUS
  <2>2. r + 1 \in 1 .. PerPage
    BY <1>1, <1>2, <2>1
  <2>3. \A m \in 1 .. PerPage : m * DescSize <= PerPage * DescSize
    BY <1>1
  <2>4. (r + 1) * DescSize < DescPage
    BY <1>1, <2>2, <2>3
  <2> QED
    BY <2>1, <2>4, <1>1, <2>2 DEF PageFull
<1>3. ASSUME NEW i \in 0 .. Total - 1 PROVE ~NoPageLeft(i)
  <2>1. PICK q \in Nat : q = i \div PerPage /\ i = PerPage * q + (i % PerPage)
    BY <1>1, <1>3
  <2>2. PICK c \in Nat : c = DescCount /\ Total <= PerPage * c
    <3>1. PICK x \in Nat : x = Total + PerPage - 1
      BY <1>1
    <3>2. x \div PerPage \in Nat /\ x = PerPage * (x \div PerPage) + (x % PerPage) /\ x % PerPage \in 0 .. PerPage - 1
      BY <1>1
    <3>3. PICK c \in Nat : c = x \div PerPage
      BY <3>2
    <3>4. PICK r \in 0 .. PerPage - 1 : r = x % PerPage
      BY <3>2
    <3>5. x = PerPage * c + r
      BY <3>2, <3>3, <3>4
    <3>6. PerPage * c \in Nat
      BY <1>1
    <3>7. Total <= PerPage * c
      BY <1>1, <3>1, <3>4, <3>5, <3>6
    <3> QED
      BY <3>1, <3>3, <3>7 DEF DescCount
  <2>3. SUFFICES ASSUME i % PerPage = 0, q >= c PROVE FALSE
    BY <2>1, <2>2 DEF NoPageLeft
  <2>4. PerPage * q >= PerPage * c
    BY <1>1, <2>3
  <2>5. PerPage * q \in Nat /\ PerPage * c \in Nat
    BY <1>1
  <2> QED
    BY <1>1, <1>3, <2>1, <2>2, <2>3, <2>4, <2>5
<1> QED
  BY <1>1, <1>2, <1>3 DEF Written

\* Each descriptor leads to the next one, the last one to the first or nowhere.
Chained(l) ==
  /\ l \in [0 .. Total - 1 -> 0 .. Total - 1 \cup {End}]
  /\ \A i \in 0 .. Total - 1 :
       IF i + 1 < Total THEN l[i] = i + 1 ELSE l[i] \in {0, End}

LEMMA ChainIsClosed ==
  ASSUME NEW old, NEW loop \in BOOLEAN PROVE Chained(ChainOf(old, loop))
<1>1. Total \in Nat \ {0}
  BY Constants
<1>2. ASSUME NEW i \in 0 .. Total - 1
      PROVE  ChainOf(old, loop)[i] = IF i + 1 < Total THEN i + 1
                                     ELSE IF loop THEN 0 ELSE End
  <2>1. Written(i) /\ ~PageFull(i)
    BY <1>2, AllWritten
  <2>2. i + 1 < Total => Written(i + 1)
    BY <1>1, <1>2, AllWritten
  <2>3. i + 1 < Total \/ i + 1 = Total
    BY <1>1, <1>2
  <2> QED
    BY <1>1, <1>2, <2>1, <2>2, <2>3 DEF ChainOf
<1>3. ChainOf(old, loop) = [i \in 0 .. Total - 1 |-> ChainOf(old, loop)[i]]
  BY DEF ChainOf
<1>4. \A i \in 0 .. Total - 1 : ChainOf(old, loop)[i] \in 0 .. Total - 1 \cup {End}
  BY <1>1, <1>2 DEF End
<1>5. ChainOf(old, loop) \in [0 .. Total - 1 -> 0 .. Total - 1 \cup {End}]
  BY <1>3, <1>4
<1> QED
  BY <1>1, <1>2, <1>5 DEF Chained

-----------------------------------------------------------------------------
(* The ioctls.                                                             *)

Steps == {<<"page", p>> : p \in Pages} \cup {<<op>> : op \in {"rewind", "start", "halt", "stopped", "settle"}}
         \cup {<<op, on>> : op \in {"look", "chain"}, on \in BOOLEAN}

\* A reset has begun: page 0 is reset, the engine not yet started.
Midway(s) == s[1] \in {"rewind", "start"} \/ (s[1] = "page" /\ s[2] # 0)

\* The pages are reset in turn, then the ring is rewound, then the engine started.
Follows(s, t) ==
  /\ s[1] = "page" => IF s[2] = TsCount - 1 THEN t[1] = "rewind"
                      ELSE t[1] = "page" /\ t[2] = s[2] + 1
  /\ s[1] = "rewind" => t[1] = "start"
  /\ s[1] \notin {"page", "rewind"} => ~Midway(t)

Ordered(P) ==
  /\ P \in Seq(Steps)
  /\ \A i \in 1 .. Len(P) - 1 : Follows(P[i], P[i + 1])
  /\ P # <<>> => P[Len(P)][1] \notin {"page", "rewind"}

\* What the steps are given.
LEMMA StepArguments ==
  ASSUME NEW s \in Steps
  PROVE  /\ s[1] = "page" => s[2] \in Pages
         /\ s[1] \in {"look", "chain"} => s[2] \in BOOLEAN
<1>1. CASE \E p \in Pages : s = <<"page", p>>
  BY <1>1
<1>2. CASE \E op \in {"rewind", "start", "halt", "stopped", "settle"} : s = <<op>>
  BY <1>2
<1>3. CASE \E op \in {"look", "chain"} : \E on \in BOOLEAN : s = <<op, on>>
  BY <1>3
<1> QED
  BY <1>1, <1>2, <1>3 DEF Steps

\* One step of an ioctl.
LEMMA NextStep ==
  ASSUME NEW P, Ordered(P), P # <<>>
  PROVE  /\ Head(P) \in Steps /\ Ordered(Tail(P))
         /\ Tail(P) # <<>> => Follows(Head(P), Head(Tail(P)))
         /\ Tail(P) = <<>> => Head(P)[1] \notin {"page", "rewind"}
<1>1. P \in Seq(Steps)
  BY DEF Ordered
<1>2. /\ Head(P) \in Steps /\ Tail(P) \in Seq(Steps) /\ Len(P) \in Nat \ {0}
      /\ Len(Tail(P)) = Len(P) - 1 /\ \A i \in 1 .. Len(Tail(P)) : Tail(P)[i] = P[i + 1]
  BY <1>1, HeadTailProperties, LenProperties, EmptySeq
<1>3. Head(P) = P[1]
  BY <1>1
<1>4. Tail(P) = <<>> <=> Len(P) = 1
  BY <1>2, EmptySeq
<1>5. Tail(P) # <<>> => Head(Tail(P)) = P[2]
  BY <1>2, <1>4
<1>6. \A i \in 1 .. Len(Tail(P)) - 1 : Follows(Tail(P)[i], Tail(P)[i + 1])
  <2> SUFFICES ASSUME NEW i \in 1 .. Len(P) - 2 PROVE Follows(Tail(P)[i], Tail(P)[i + 1])
    BY <1>2
  <2>1. Tail(P)[i] = P[i + 1] /\ Tail(P)[i + 1] = P[(i + 1) + 1]
    BY <1>2
  <2>2. Follows(P[i + 1], P[(i + 1) + 1])
    BY <1>2 DEF Ordered
  <2> QED
    BY <2>1, <2>2
<1>7. Tail(P) # <<>> => Tail(P)[Len(Tail(P))][1] \notin {"page", "rewind"}
  <2> SUFFICES ASSUME Tail(P) # <<>> PROVE Tail(P)[Len(Tail(P))][1] \notin {"page", "rewind"}
    OBVIOUS
  <2>1. Len(P) - 1 \in 1 .. Len(Tail(P)) /\ (Len(P) - 1) + 1 = Len(P)
    BY <1>2, <1>4
  <2>2. Tail(P)[Len(Tail(P))] = P[Len(P)]
    BY <1>2, <2>1
  <2> QED
    BY <2>2 DEF Ordered
<1>8. Tail(P) # <<>> => Follows(Head(P), Head(Tail(P)))
  <2>1. Tail(P) # <<>> => 1 \in 1 .. Len(P) - 1
    BY <1>2, <1>4
  <2>2. Tail(P) # <<>> => Follows(P[1], P[1 + 1])
    BY <2>1 DEF Ordered
  <2> QED
    BY <1>3, <1>5, <2>2
<1>9. Tail(P) = <<>> => Head(P)[1] \notin {"page", "rewind"}
  BY <1>3, <1>4 DEF Ordered
<1> QED
  BY <1>2, <1>6, <1>7, <1>8, <1>9 DEF Ordered

LEMMA Joined ==
  ASSUME NEW s \in Seq(Steps), NEW t \in Seq(Steps)
  PROVE  /\ s \o t \in Seq(Steps) /\ Len(s \o t) = Len(s) + Len(t)
         /\ \A i \in 1 .. Len(s) + Len(t) :
              (s \o t)[i] = IF i <= Len(s) THEN s[i] ELSE t[i - Len(s)]
BY ConcatProperties

LEMMA OneStep ==
  ASSUME NEW op \in {"rewind", "start", "halt", "stopped", "settle"}
  PROVE  <<op>> \in Steps
BY DEF Steps

LEMMA OneSwitch ==
  ASSUME NEW op \in {"look", "chain"}, NEW on \in BOOLEAN
  PROVE  <<op, on>> \in Steps
BY DEF Steps

\* The pages in turn, then the rewinding and the start.
LEMMA EnableOrdered ==
  Ordered(Enable) /\ Enable # <<>> /\ ~Midway(Head(Enable))
<1>0. TsCount \in Nat \ {0} /\ TsCount >= 2
  BY Constants
<1> DEFINE pages == [i \in 1 .. TsCount |-> <<"page", i - 1>>]
<1>1. /\ pages \in Seq(Steps) /\ Len(pages) = TsCount
      /\ \A i \in 1 .. TsCount : pages[i] = <<"page", i - 1>>
  <2>1. \A i \in 1 .. TsCount : <<"page", i - 1>> \in Steps
    BY <1>0 DEF Steps, Pages
  <2>2. pages \in [1 .. TsCount -> Steps]
    BY <2>1
  <2>3. pages \in Seq(Steps)
    BY <1>0, <2>2
  <2> QED
    BY <1>0, <2>3
<1> HIDE DEF pages
<1>2. /\ <<<<"rewind">>>> \in Seq(Steps) /\ Len(<<<<"rewind">>>>) = 1
      /\ <<<<"start">>>> \in Seq(Steps) /\ Len(<<<<"start">>>>) = 1
  BY OneStep
<1>3. PICK R : R = pages \o <<<<"rewind">>>>
  OBVIOUS
<1>4. R \in Seq(Steps) /\ Len(R) = TsCount + 1
      /\ \A i \in 1 .. TsCount + 1 : R[i] = IF i <= TsCount THEN <<"page", i - 1>> ELSE <<"rewind">>
  <2>1. /\ R \in Seq(Steps) /\ Len(R) = TsCount + 1
        /\ \A i \in 1 .. TsCount + 1 : R[i] = IF i <= TsCount THEN pages[i] ELSE <<<<"rewind">>>>[i - TsCount]
    BY <1>1, <1>2, <1>3, Joined
  <2>2. ASSUME NEW i \in 1 .. TsCount + 1
        PROVE  R[i] = IF i <= TsCount THEN <<"page", i - 1>> ELSE <<"rewind">>
    <3>1. CASE i <= TsCount
      BY <1>0, <1>1, <2>1, <3>1
    <3>2. CASE i > TsCount
      <4>1. i - TsCount = 1 /\ ~(i <= TsCount)
        BY <1>0, <3>2
      <4>2. R[i] = <<<<"rewind">>>>[i - TsCount]
        BY <2>1, <4>1
      <4> QED
        BY <4>1, <4>2
    <3> QED
      BY <1>0, <3>1, <3>2
  <2> QED
    BY <2>1, <2>2
<1>5. PICK E : E = R \o <<<<"start">>>>
  OBVIOUS
<1>6. /\ E \in Seq(Steps) /\ Len(E) = TsCount + 2
      /\ \A i \in 1 .. TsCount + 2 :
           E[i] = IF i <= TsCount THEN <<"page", i - 1>>
                  ELSE IF i = TsCount + 1 THEN <<"rewind">> ELSE <<"start">>
  <2>1. /\ E \in Seq(Steps) /\ Len(E) = (TsCount + 1) + 1
        /\ \A i \in 1 .. (TsCount + 1) + 1 : E[i] = IF i <= TsCount + 1 THEN R[i] ELSE <<<<"start">>>>[i - (TsCount + 1)]
    BY <1>2, <1>4, <1>5, Joined
  <2> QED
    BY <1>0, <1>4, <2>1
<1>7. E = Enable
  BY <1>3, <1>5 DEF Enable, ResetPages, pages
<1>8. \A i \in 1 .. Len(E) - 1 : Follows(E[i], E[i + 1])
  <2> SUFFICES ASSUME NEW i \in 1 .. TsCount + 1 PROVE Follows(E[i], E[i + 1])
    BY <1>6, <1>0
  <2>1. CASE i < TsCount
    BY <1>0, <1>6, <2>1 DEF Follows
  <2>2. CASE i = TsCount
    BY <1>0, <1>6, <2>2 DEF Follows
  <2>3. CASE i = TsCount + 1
    BY <1>0, <1>6, <2>3 DEF Follows
  <2> QED
    BY <1>0, <2>1, <2>2, <2>3
<1>9. E[Len(E)][1] \notin {"page", "rewind"}
  BY <1>0, <1>6
<1>10. E # <<>> /\ Head(E) = <<"page", 0>>
  <2>1. Len(E) # 0 /\ E[1] = <<"page", 0>>
    BY <1>0, <1>6
  <2>2. E # <<>>
    BY <2>1, EmptySeq
  <2> QED
    BY <2>1, <2>2, <1>6
<1> QED
  BY <1>6, <1>7, <1>8, <1>9, <1>10 DEF Ordered, Midway

\* Programs of which neither begins within a reset, one after the other.
LEMMA OrderedJoined ==
  ASSUME NEW P, NEW Q, Ordered(P), Ordered(Q), P # <<>>, Q # <<>>,
         ~Midway(Head(P)), ~Midway(Head(Q))
  PROVE  Ordered(P \o Q) /\ P \o Q # <<>> /\ ~Midway(Head(P \o Q))
<1>1. /\ P \in Seq(Steps) /\ Q \in Seq(Steps) /\ Len(P) \in Nat \ {0} /\ Len(Q) \in Nat \ {0}
      /\ Head(P) = P[1] /\ Head(Q) = Q[1]
  BY LenProperties, EmptySeq DEF Ordered
<1>2. PICK R : R = P \o Q
  OBVIOUS
<1>3. /\ R \in Seq(Steps) /\ Len(R) = Len(P) + Len(Q)
      /\ \A i \in 1 .. Len(P) + Len(Q) : R[i] = IF i <= Len(P) THEN P[i] ELSE Q[i - Len(P)]
  BY <1>1, <1>2, Joined
<1>4. ASSUME NEW i \in 1 .. Len(R) - 1 PROVE Follows(R[i], R[i + 1])
  <2>1. CASE i < Len(P)
    <3>1. R[i] = P[i] /\ R[i + 1] = P[i + 1]
      BY <1>1, <1>3, <2>1
    <3>2. Follows(P[i], P[i + 1])
      BY <1>1, <2>1 DEF Ordered
    <3> QED
      BY <3>1, <3>2
  <2>2. CASE i = Len(P)
    <3>1. R[i] = P[Len(P)] /\ R[i + 1] = Q[1]
      BY <1>1, <1>3, <2>2
    <3>2. P[Len(P)][1] \notin {"page", "rewind"}
      BY DEF Ordered
    <3> QED
      BY <1>1, <3>1, <3>2 DEF Follows
  <2>3. CASE i > Len(P)
    <3>0. i - Len(P) \in 1 .. Len(Q) - 1
      BY <1>1, <1>3, <2>3
    <3>1. PICK j \in 1 .. Len(Q) - 1 : j = i - Len(P)
      BY <3>0
    <3>2. R[i] = Q[j] /\ R[i + 1] = Q[j + 1]
      BY <1>1, <1>3, <2>3, <3>1
    <3>3. Follows(Q[j], Q[j + 1])
      BY DEF Ordered
    <3> QED
      BY <3>2, <3>3
  <2> QED
    BY <1>1, <1>3, <2>1, <2>2, <2>3
<1>5. R[Len(R)] = Q[Len(Q)]
  BY <1>1, <1>3
<1>6. R # <<>> /\ Head(R) = P[1]
  <2>1. Len(R) # 0 /\ R[1] = P[1]
    BY <1>1, <1>3
  <2>2. R # <<>>
    BY <2>1, EmptySeq
  <2> QED
    BY <1>3, <2>1, <2>2
<1> QED
  BY <1>1, <1>2, <1>3, <1>4, <1>5, <1>6 DEF Ordered

\* A program of one step.
LEMMA OrderedOne ==
  ASSUME NEW s \in Steps, s[1] \notin {"page", "rewind", "start"}
  PROVE  Ordered(<<s>>) /\ <<s>> # <<>> /\ ~Midway(Head(<<s>>))
BY DEF Ordered, Midway

LEMMA Pair == \A a, b : <<a>> \o <<b>> = <<a, b>>
<1> TAKE a, b
<1> DEFINE c == <<a>> \o <<b>>
           d == <<a, b>>
<1>1. /\ <<a>> \in Seq({a, b}) /\ Len(<<a>>) = 1 /\ <<a>>[1] = a
      /\ <<b>> \in Seq({a, b}) /\ Len(<<b>>) = 1 /\ <<b>>[1] = b
      /\ d \in Seq({a, b}) /\ Len(d) = 2 /\ d[1] = a /\ d[2] = b
  OBVIOUS
<1>2. /\ c \in Seq({a, b}) /\ Len(c) = Len(<<a>>) + Len(<<b>>)
      /\ \A i \in 1 .. Len(<<a>>) + Len(<<b>>) : c[i] = IF i <= Len(<<a>>) THEN <<a>>[i] ELSE <<b>>[i - Len(<<a>>)]
  BY <1>1, ConcatProperties
<1> HIDE DEF c, d
<1>3. Len(c) = 2 /\ c[1] = a /\ c[2] = b
  BY <1>1, <1>2
<1>4. \A i \in 1 .. Len(c) : c[i] = d[i]
  BY <1>1, <1>3
<1>5. c = d
  BY <1>1, <1>2, <1>3, <1>4, SeqEqual
<1> QED
  BY <1>5 DEF c, d

\* Every ioctl.
LEMMA IoctlsOrdered ==
  ASSUME NEW P \in {Enable, Disable,
                    << <<"chain", FALSE>> >> \o Enable \o << <<"settle">>, <<"look", FALSE>> >>,
                    << <<"look", TRUE>> >> \o Disable \o << <<"chain", TRUE>> >>}
  PROVE  Ordered(P) /\ P # <<>> /\ ~Midway(Head(P))
<1> DEFINE Program(Q) == Ordered(Q) /\ Q # <<>> /\ ~Midway(Head(Q))
<1>1. \A s \in Steps : s[1] \notin {"page", "rewind", "start"} => Program(<<s>>)
  BY OrderedOne
<1>2. Program(<<<<"halt">>>>) /\ Program(<<<<"stopped">>>>) /\ Program(<<<<"settle">>>>)
  <2>1. <<"halt">> \in Steps /\ <<"stopped">> \in Steps /\ <<"settle">> \in Steps
    BY OneStep
  <2>2. <<"halt">>[1] = "halt" /\ <<"stopped">>[1] = "stopped" /\ <<"settle">>[1] = "settle"
    OBVIOUS
  <2> HIDE DEF Program
  <2> QED
    BY <2>1, <2>2, <1>1
<1>3. \A on \in BOOLEAN : Program(<<<<"look", on>>>>) /\ Program(<<<<"chain", on>>>>)
  <2> TAKE on \in BOOLEAN
  <2>1. <<"look", on>> \in Steps /\ <<"chain", on>> \in Steps
    BY OneSwitch
  <2>2. <<"look", on>>[1] = "look" /\ <<"chain", on>>[1] = "chain"
    OBVIOUS
  <2> HIDE DEF Program
  <2> QED
    BY <2>1, <2>2, <1>1
<1>4. Program(Enable)
  BY EnableOrdered
<1>5. \A Q, R : Program(Q) /\ Program(R) => Program(Q \o R)
  BY OrderedJoined
<1> HIDE DEF Program
<1>6. <<<<"halt">>>> \o <<<<"stopped">>>> = Disable
  BY Pair DEF Disable
<1>7. <<<<"settle">>>> \o <<<<"look", FALSE>>>> = << <<"settle">>, <<"look", FALSE>> >>
  BY Pair
<1>8. Program(Disable) /\ Program(<< <<"settle">>, <<"look", FALSE>> >>)
  BY <1>2, <1>3, <1>5, <1>6, <1>7
<1>9. Program(P)
  BY <1>2, <1>3, <1>4, <1>5, <1>8
<1> QED
  BY <1>9 DEF Program

-----------------------------------------------------------------------------
(* Types.                                                                  *)

ReadType ==
  [at : {"idle", "look", "copy", "advance"}, remain : Nat, page : Pages, polls : Nat,
   from : 0 .. Parts - 1, csize : -1 .. Parts, fresh : BOOLEAN]

MemType == [Pages -> [0 .. Parts - 1 -> 0 .. MaxParts]]

EngineType ==
  /\ Chained(link) /\ eng \in 0 .. Total - 1 \cup {End} /\ (running => eng # End)
  /\ running \in BOOLEAN /\ halting \in BOOLEAN
  /\ count \in 0 .. MaxParts /\ base \in 0 .. count

RingType ==
  /\ mem \in MemType /\ first \in [Pages -> {"sync", "not", "zero"}]
  /\ pos \in [Pages -> 0 .. Parts - 1] /\ ts_pos \in Pages

\* What a copy takes lies inside its page.
ReaderType ==
  /\ rd \in ReadType
  /\ rd.csize >= 0 => rd.from + rd.csize <= Parts
  /\ rd.at = "copy" => rd.csize <= rd.remain
  /\ rd.at = "advance" => rd.csize >= 0
  /\ want \in Nat /\ done \in 0 .. MaxParts

CallType ==
  /\ Ordered(todo) /\ look_ready \in BOOLEAN
  /\ gap \in BOOLEAN /\ stale \in BOOLEAN /\ lapped \in BOOLEAN
  /\ raced \in BOOLEAN /\ hot \in BOOLEAN

DmaType == EngineType /\ RingType /\ ReaderType /\ CallType

ReaderActs ==
  (\E size \in Sizes : Read(size)) \/ TakePage \/ LookAgain \/ ChooseRange \/ CopyFault \/ CopyRange \/ Advance
Calls == StartRec \/ StopRec \/ TestModeOn \/ TestModeOff

LEMMA NextActs ==
  DmaNext => \/ EngineWrite \/ EngineHalt \/ Calls \/ ResetPage \/ Rewind \/ StartEngine
             \/ HaltEngine \/ Stopped \/ Settle \/ SetLook \/ BuildChain \/ ReaderActs
BY Zenon DEF DmaNext, ReaderActs, Calls

\* What an ioctl leaves alone, whichever it is.
LEMMA CallBegins ==
  ASSUME Calls
  PROVE  /\ todo = <<>> /\ Ordered(todo') /\ todo' # <<>> /\ ~Midway(Head(todo'))
         /\ UNCHANGED <<link, engine, ring, look_ready, rd, count, want, done, gap,
                        stale, lapped, raced, hot, base>>
<1>1. PICK P \in {Enable, Disable,
                  << <<"chain", FALSE>> >> \o Enable \o << <<"settle">>, <<"look", FALSE>> >>,
                  << <<"look", TRUE>> >> \o Disable \o << <<"chain", TRUE>> >>} : Ioctl(P)
  BY Zenon DEF Calls, StartRec, StopRec, TestModeOn, TestModeOff
<1>2. Ordered(P) /\ P # <<>> /\ ~Midway(Head(P))
  BY IoctlsOrdered
<1> QED
  BY <1>1, <1>2, Zenon DEF Ioctl

\* One step of it.
LEMMA StepOn ==
  ASSUME Ordered(todo), NEW name, Step(name)
  PROVE  /\ todo # <<>> /\ Head(todo) \in Steps /\ Head(todo)[1] = name
         /\ todo' = Tail(todo) /\ Ordered(todo')
         /\ todo' # <<>> => Follows(Head(todo), Head(todo'))
         /\ todo' = <<>> => name \notin {"page", "rewind"}
<1>1. todo # <<>> /\ Head(todo)[1] = name /\ todo' = Tail(todo)
  BY Zenon DEF Step
<1>2. /\ Head(todo) \in Steps /\ Ordered(Tail(todo))
      /\ Tail(todo) # <<>> => Follows(Head(todo), Head(Tail(todo)))
      /\ Tail(todo) = <<>> => Head(todo)[1] \notin {"page", "rewind"}
  BY <1>1, NextStep
<1> QED
  BY <1>1, <1>2

LEMMA ZeroPage == [b \in 0 .. Parts - 1 |-> 0] \in [0 .. Parts - 1 -> 0 .. MaxParts]
BY Constants

LEMMA TypeInit == DmaInit => DmaType
<1> SUFFICES ASSUME DmaInit PROVE DmaType
  OBVIOUS
<1>0. /\ TsCount \in Nat \ {0} /\ Parts \in Nat \ {0} /\ Total \in Nat \ {0} /\ MaxParts \in Nat
  BY Constants
<1>1. EngineType
  <2>1. Chained(link)
    <3>1. link = ChainOf([i \in 0 .. Total - 1 |-> Nowhere], TRUE)
      BY DEF DmaInit
    <3>2. Chained(ChainOf([i \in 0 .. Total - 1 |-> Nowhere], TRUE))
      BY ChainIsClosed, Zenon
    <3> QED
      BY <3>1, <3>2
  <2>2. /\ eng = 0 /\ running = FALSE /\ halting = FALSE /\ count = 0 /\ base = 0
    BY DEF DmaInit
  <2>3. eng \in 0 .. Total - 1 \cup {End} /\ count \in 0 .. MaxParts /\ base \in 0 .. count
    BY <1>0, <2>2
  <2> QED
    BY <2>1, <2>2, <2>3 DEF EngineType
<1>2. RingType
  <2>1. mem \in MemType
    BY ZeroPage DEF DmaInit, MemType
  <2> QED
    BY <1>0, <2>1 DEF DmaInit, RingType, Pages
<1>3. ReaderType
  BY <1>0 DEF DmaInit, ReaderType, ReadType, Idle, Pages
<1>4. CallType
  <2>1. Ordered(<<>>)
    BY DEF Ordered
  <2> QED
    BY <2>1 DEF DmaInit, CallType
<1> QED
  BY <1>1, <1>2, <1>3, <1>4 DEF DmaType

LEMMA EngineTypeNext ==
  ASSUME DmaType, [DmaNext]_dmaVars PROVE EngineType'
<1> USE DEF DmaType
<1>0. /\ Chained(link) /\ eng \in 0 .. Total - 1 \cup {End} /\ (running => eng # End)
      /\ running \in BOOLEAN /\ halting \in BOOLEAN
      /\ count \in Nat /\ count <= MaxParts /\ base \in Nat /\ base <= count
      /\ MaxParts \in Nat /\ Total \in Nat \ {0} /\ Ordered(todo)
  BY Constants DEF EngineType, CallType
<1>1. CASE EngineWrite
  <2>1. /\ running /\ eng \in 0 .. Total - 1 /\ count < MaxParts /\ count' = count + 1
        /\ eng' = link[eng] /\ UNCHANGED <<link, halting, base>>
    BY <1>1 DEF EngineWrite
  <2>2. running' = (link[eng] # End)
    BY <1>1, Zenon DEF EngineWrite
  <2>3. link[eng] \in 0 .. Total - 1 \cup {End}
    BY <1>0, <2>1 DEF Chained
  <2>4. running' \in BOOLEAN /\ (running' => eng' # End)
    BY <2>1, <2>2, Zenon
  <2>5. count' \in 0 .. MaxParts /\ base' \in 0 .. count'
    BY <1>0, <2>1
  <2> QED
    BY <1>0, <2>1, <2>3, <2>4, <2>5 DEF EngineType
<1>2. CASE EngineHalt
  <2>1. running' = FALSE /\ UNCHANGED <<link, eng, halting, count, base>>
    BY <1>2 DEF EngineHalt, history
  <2> QED
    BY <1>0, <2>1 DEF EngineType
<1>3. CASE StartEngine
  <2>1. eng' = 0 /\ running' = TRUE /\ halting' = FALSE /\ base' = count /\ UNCHANGED <<link, count>>
    BY <1>3 DEF StartEngine
  <2>2. eng' \in 0 .. Total - 1 \cup {End} /\ eng' # End /\ base' \in 0 .. count' /\ count' \in 0 .. MaxParts
    BY <1>0, <2>1 DEF End
  <2>3. Chained(link')
    BY <1>0, <2>1
  <2> QED
    BY <2>1, <2>2, <2>3 DEF EngineType
<1>4. CASE BuildChain
  <2>1. link' = ChainOf(link, Head(todo)[2]) /\ UNCHANGED <<eng, running, halting, count, base>>
    BY <1>4 DEF BuildChain, engine, history
  <2>2. Head(todo)[2] \in BOOLEAN
    <3>1. Head(todo) \in Steps /\ Head(todo)[1] = "chain"
      BY <1>0, <1>4, StepOn DEF BuildChain
    <3> QED
      BY <3>1, StepArguments
  <2>3. Chained(link')
    BY <2>1, <2>2, ChainIsClosed
  <2> QED
    BY <1>0, <2>1, <2>3 DEF EngineType
<1>5. CASE HaltEngine
  <2>1. halting' = TRUE /\ UNCHANGED <<link, eng, running, count, base>>
    BY <1>5 DEF HaltEngine, history
  <2> QED
    BY <1>0, <2>1 DEF EngineType
<1>6. CASE Calls \/ ResetPage \/ Rewind \/ Stopped \/ Settle \/ SetLook \/ ReaderActs \/ UNCHANGED dmaVars
  <2>1. UNCHANGED <<link, eng, running, halting, count, base>>
    <3>1. CASE Calls
      BY <3>1, CallBegins DEF engine
    <3>2. CASE ResetPage \/ Rewind \/ Stopped \/ Settle \/ SetLook
      BY <3>2 DEF ResetPage, Rewind, Stopped, Settle, SetLook, engine, history
    <3>3. CASE ReaderActs
      BY <3>3 DEF ReaderActs, Read, TakePage, LookAgain, ChooseRange, CopyFault, CopyRange, Advance, engine, history
    <3>4. CASE UNCHANGED dmaVars
      BY <3>4 DEF dmaVars, engine, history
    <3> QED
      BY <1>6, <3>1, <3>2, <3>3, <3>4
  <2> QED
    BY <1>0, <2>1 DEF EngineType
<1> QED
  BY <1>1, <1>2, <1>3, <1>4, <1>5, <1>6, NextActs

LEMMA RingTypeNext ==
  ASSUME DmaType, [DmaNext]_dmaVars PROVE RingType'
<1> USE DEF DmaType
<1>0. /\ mem \in MemType /\ first \in [Pages -> {"sync", "not", "zero"}]
      /\ pos \in [Pages -> 0 .. Parts - 1] /\ ts_pos \in Pages /\ Ordered(todo)
      /\ TsCount \in Nat \ {0} /\ Parts \in Nat \ {0} /\ MaxParts \in Nat
  BY Constants DEF RingType, CallType
<1>1. CASE EngineWrite
  <2>1. PICK p, b : /\ p = eng \div Parts /\ b = eng % Parts
                    /\ mem' = [mem EXCEPT ![p][b] = count + 1]
                    /\ first' = IF b = 0 THEN [first EXCEPT ![p] = "sync"] ELSE first
                    /\ count < MaxParts
                    /\ UNCHANGED <<pos, ts_pos>>
    BY <1>1 DEF EngineWrite
  <2>2. count + 1 \in 0 .. MaxParts
    BY <1>0, <2>1 DEF EngineType
  <2>3. mem' \in MemType
    BY <1>0, <2>1, <2>2 DEF MemType
  <2>4. first' \in [Pages -> {"sync", "not", "zero"}]
    BY <1>0, <2>1
  <2> QED
    BY <1>0, <2>1, <2>3, <2>4 DEF RingType
<1>2. CASE ResetPage
  <2>1. PICK p : /\ p = Head(todo)[2]
                 /\ mem' = [mem EXCEPT ![p] = [b \in 0 .. Parts - 1 |-> 0]]
                 /\ first' = [first EXCEPT ![p] = "not"]
                 /\ pos' = [pos EXCEPT ![p] = 0]
                 /\ UNCHANGED ts_pos
    BY <1>2 DEF ResetPage
  <2>2. mem' \in MemType
    BY <1>0, <2>1, ZeroPage DEF MemType
  <2>3. first' \in [Pages -> {"sync", "not", "zero"}]
    BY <1>0, <2>1
  <2>4. pos' \in [Pages -> 0 .. Parts - 1]
    <3>1. 0 \in 0 .. Parts - 1
      BY <1>0
    <3> QED
      BY <1>0, <2>1, <3>1
  <2> QED
    BY <1>0, <2>1, <2>2, <2>3, <2>4 DEF RingType
<1>3. CASE Rewind
  <2>1. ts_pos' = 0 /\ UNCHANGED <<mem, first, pos>>
    BY <1>3 DEF Rewind
  <2> QED
    BY <1>0, <2>1 DEF RingType, Pages
<1>4. CASE Advance
  <2>1. PICK new : /\ new = pos[rd.page] + rd.csize /\ rd.at = "advance" /\ UNCHANGED mem
                   /\ IF PageUsed(new)
                      THEN /\ pos' = [pos EXCEPT ![rd.page] = 0]
                           /\ first' = [first EXCEPT ![rd.page] = "not"]
                           /\ ts_pos' = NextPage(ts_pos)
                      ELSE pos' = [pos EXCEPT ![rd.page] = new] /\ UNCHANGED <<first, ts_pos>>
    BY <1>4 DEF Advance
  <2>2. /\ rd.page \in Pages /\ rd.csize \in 0 .. Parts /\ pos[rd.page] \in 0 .. Parts - 1
    BY <1>0, <2>1 DEF ReaderType, ReadType
  <2>3. NextPage(ts_pos) \in Pages
    BY <1>0 DEF NextPage, Pages
  <2>4. ~PageUsed(new) => new \in 0 .. Parts - 1
    BY <1>0, <2>1, <2>2 DEF PageUsed
  <2>5. pos' \in [Pages -> 0 .. Parts - 1]
    BY <1>0, <2>1, <2>4
  <2>6. first' \in [Pages -> {"sync", "not", "zero"}] /\ ts_pos' \in Pages
    BY <1>0, <2>1, <2>3
  <2> QED
    BY <1>0, <2>1, <2>5, <2>6 DEF RingType
<1>5. CASE \/ EngineHalt \/ Calls \/ StartEngine \/ HaltEngine \/ Stopped \/ Settle \/ SetLook \/ BuildChain
           \/ (\E size \in Sizes : Read(size)) \/ TakePage \/ LookAgain \/ ChooseRange \/ CopyFault \/ CopyRange
           \/ UNCHANGED dmaVars
  <2>1. UNCHANGED <<mem, first, pos, ts_pos>>
    <3>1. CASE Calls
      BY <3>1, CallBegins DEF ring
    <3>2. CASE EngineHalt \/ StartEngine \/ HaltEngine \/ Stopped \/ Settle \/ SetLook \/ BuildChain
      BY <3>2 DEF EngineHalt, StartEngine, HaltEngine, Stopped, Settle, SetLook, BuildChain, ring
    <3>3. CASE (\E size \in Sizes : Read(size)) \/ TakePage \/ LookAgain \/ ChooseRange \/ CopyFault \/ CopyRange
      BY <3>3 DEF Read, TakePage, LookAgain, ChooseRange, CopyFault, CopyRange, ring
    <3>4. CASE UNCHANGED dmaVars
      BY <3>4 DEF dmaVars, ring
    <3> QED
      BY <1>5, <3>1, <3>2, <3>3, <3>4
  <2> QED
    BY <1>0, <2>1 DEF RingType
<1> QED
  BY <1>1, <1>2, <1>3, <1>4, <1>5, NextActs, Zenon DEF ReaderActs

\* What a copy delivers is what its page holds there.
Got == [j \in 1 .. rd.csize |-> mem[rd.page][rd.from + j - 1]]

LEMMA GotType ==
  ASSUME RingType, ReaderType, rd.at = "copy", rd.csize >= 0
  PROVE  \A j \in 1 .. rd.csize : rd.from + j - 1 \in 0 .. Parts - 1 /\ Got[j] \in 0 .. MaxParts
<1>1. /\ rd.page \in Pages /\ rd.csize \in 0 .. Parts /\ rd.from \in 0 .. Parts - 1
      /\ rd.from + rd.csize <= Parts /\ Parts \in Nat
  BY Constants DEF ReaderType, ReadType
<1>2. \A j \in 1 .. rd.csize : rd.from + j - 1 \in 0 .. Parts - 1
  BY <1>1
<1> QED
  BY <1>1, <1>2 DEF Got, RingType, MemType

LEMMA ReaderTypeNext ==
  ASSUME DmaType, [DmaNext]_dmaVars PROVE ReaderType'
<1> USE DEF DmaType
<1>0. /\ rd \in ReadType /\ (rd.csize >= 0 => rd.from + rd.csize <= Parts)
      /\ (rd.at = "copy" => rd.csize <= rd.remain) /\ (rd.at = "advance" => rd.csize >= 0) /\ want \in Nat /\ done \in 0 .. MaxParts
      /\ Parts \in Nat \ {0} /\ TsCount \in Nat \ {0} /\ MaxParts \in Nat /\ MaxPolls \in Nat \ {0}
      /\ 0 \in Pages
  BY Constants DEF ReaderType, Pages
<1>i. Idle \in ReadType /\ Idle.at = "idle" /\ Idle.csize = 0 /\ Idle.from = 0
  BY <1>0 DEF Idle, ReadType
<1>1. ASSUME NEW size \in Sizes, Read(size) PROVE ReaderType'
  <2>1. size \in Nat /\ Resetting \in BOOLEAN
    BY Constants DEF Resetting
  <2>2. rd' = [Idle EXCEPT !.at = "look", !.remain = size, !.fresh = ~Resetting] /\ UNCHANGED <<want, done>>
    BY <1>1 DEF Read
  <2>3. /\ rd' \in ReadType /\ rd'.at = "look" /\ rd'.csize = 0 /\ rd'.from = 0
    BY <2>1, <2>2, <1>i DEF ReadType
  <2> QED
    BY <1>0, <2>2, <2>3 DEF ReaderType
<1>2. CASE TakePage
  <2>1. rd' = [rd EXCEPT !.at = "copy", !.page = ts_pos, !.polls = 0, !.from = 0, !.csize = -1]
        /\ UNCHANGED <<want, done>>
    BY <1>2 DEF TakePage
  <2>2. rd' \in ReadType /\ rd'.at = "copy" /\ rd'.csize = -1
    <3>1. ts_pos \in Pages /\ -1 \in -1 .. Parts /\ 0 \in 0 .. Parts - 1
      BY <1>0 DEF RingType
    <3>2. rd' = [at |-> "copy", remain |-> rd.remain, page |-> ts_pos, polls |-> 0, from |-> 0,
                 csize |-> -1, fresh |-> rd.fresh]
      BY <1>0, <2>1 DEF ReadType
    <3>3. rd.remain \in Nat /\ rd.fresh \in BOOLEAN
      BY <1>0 DEF ReadType
    <3> QED
      BY <3>1, <3>2, <3>3 DEF ReadType
  <2>3. rd'.csize <= rd'.remain
    BY <1>0, <2>1, <2>2 DEF ReadType
  <2> QED
    BY <1>0, <2>1, <2>2, <2>3 DEF ReaderType
<1>3. CASE LookAgain
  <2>1. rd.at = "look" /\ rd' = (IF rd.polls + 1 < MaxPolls THEN [rd EXCEPT !.polls = @ + 1] ELSE Idle) /\ UNCHANGED <<want, done>>
    BY <1>3 DEF LookAgain, history
  <2>2. CASE rd.polls + 1 < MaxPolls
    <3>1. rd' = [rd EXCEPT !.polls = rd.polls + 1]
      BY <2>1, <2>2
    <3>2. rd' \in ReadType /\ rd'.at = "look" /\ rd'.csize = rd.csize /\ rd'.from = rd.from
      BY <1>0, <2>1, <3>1 DEF ReadType
    <3> QED
      BY <1>0, <2>1, <3>2 DEF ReaderType
  <2>3. CASE ~(rd.polls + 1 < MaxPolls)
    BY <1>0, <1>i, <2>1, <2>3 DEF ReaderType
  <2> QED
    BY <2>2, <2>3
<1>4. CASE ChooseRange
  <2>1. PICK room : /\ rd.at = "copy" /\ room = Parts - pos[rd.page]
                    /\ rd' = [rd EXCEPT !.from = pos[rd.page], !.csize = IF room > rd.remain THEN rd.remain ELSE room]
                    /\ UNCHANGED <<want, done>>
    BY <1>4 DEF ChooseRange, history
  <2>2. rd.page \in Pages /\ rd.remain \in Nat
    BY <1>0 DEF ReadType
  <2>3. pos[rd.page] \in 0 .. Parts - 1
    BY <2>2 DEF RingType
  <2>4. PICK c : c = IF room > rd.remain THEN rd.remain ELSE room
    OBVIOUS
  <2>5. c \in 0 .. Parts /\ pos[rd.page] + c <= Parts
    BY <1>0, <2>1, <2>2, <2>3, <2>4
  <2>6. /\ rd' \in ReadType /\ rd'.at = "copy" /\ rd'.csize = c /\ rd'.from = pos[rd.page]
        /\ rd'.remain = rd.remain
    <3>1. rd' = [at |-> rd.at, remain |-> rd.remain, page |-> rd.page, polls |-> rd.polls,
                 from |-> pos[rd.page], csize |-> c, fresh |-> rd.fresh]
      BY <1>0, <2>1, <2>4 DEF ReadType
    <3>2. c \in -1 .. Parts
      BY <1>0, <2>5
    <3>3. rd.at = "copy" /\ rd.remain \in Nat /\ rd.page \in Pages /\ rd.polls \in Nat /\ rd.fresh \in BOOLEAN
      BY <1>0, <2>1 DEF ReadType
    <3>4. rd' \in ReadType
      BY <2>3, <3>1, <3>2, <3>3 DEF ReadType
    <3> QED
      BY <3>1, <3>3, <3>4
  <2>7. c <= rd.remain
    BY <1>0, <2>1, <2>2, <2>3, <2>4
  <2> QED
    BY <1>0, <2>1, <2>5, <2>6, <2>7 DEF ReaderType
<1>5. CASE CopyFault
  <2>1. rd' = Idle /\ UNCHANGED <<want, done>>
    BY <1>5 DEF CopyFault, history
  <2> QED
    BY <1>0, <1>i, <2>1 DEF ReaderType
<1>6. CASE CopyRange
  <2>1. /\ rd.at = "copy" /\ rd.csize >= 0 /\ done' = done
        /\ rd' = [rd EXCEPT !.at = "advance", !.remain = @ - rd.csize]
        /\ want' = IF rd.csize = 0 THEN want ELSE Got[rd.csize] + 1
    BY <1>6 DEF CopyRange, Deliver, Got
  <2>2. rd.remain - rd.csize \in Nat
    BY <1>0, <2>1 DEF ReadType
  <2>3. rd' \in ReadType /\ rd'.at = "advance" /\ rd'.csize = rd.csize /\ rd'.from = rd.from
    <3>1. rd' = [at |-> "advance", remain |-> rd.remain - rd.csize, page |-> rd.page, polls |-> rd.polls,
                 from |-> rd.from, csize |-> rd.csize, fresh |-> rd.fresh]
      BY <1>0, <2>1 DEF ReadType
    <3> QED
      BY <1>0, <2>2, <3>1 DEF ReadType
  <2>4. want' \in Nat
    <3>1. rd.csize # 0 => Got[rd.csize] \in 0 .. MaxParts
      BY <1>0, <2>1, GotType DEF ReadType
    <3> QED
      BY <1>0, <2>1, <3>1
  <2> QED
    BY <1>0, <2>1, <2>3, <2>4 DEF ReaderType
<1>7. CASE Advance
  <2>1. PICK new : /\ new = pos[rd.page] + rd.csize /\ rd.at = "advance" /\ want' = want
                   /\ IF PageUsed(new)
                      THEN /\ done' = (IF done < MaxParts THEN done + 1 ELSE done)
                           /\ rd' = [rd EXCEPT !.at = "look", !.polls = 0]
                      ELSE /\ rd' = IF rd.remain = 0 THEN Idle ELSE [rd EXCEPT !.at = "copy", !.csize = -1]
                           /\ done' = done
    BY <1>7 DEF Advance
  <2>2. done' \in 0 .. MaxParts
    BY <1>0, <2>1
  <2>3. CASE PageUsed(new)
    <3>1. rd' \in ReadType /\ rd'.at = "look" /\ rd'.csize = rd.csize /\ rd'.from = rd.from
      <4>1. rd' = [at |-> "look", remain |-> rd.remain, page |-> rd.page, polls |-> 0, from |-> rd.from,
                   csize |-> rd.csize, fresh |-> rd.fresh]
        BY <1>0, <2>1, <2>3 DEF ReadType
      <4> QED
        BY <1>0, <4>1 DEF ReadType
    <3> QED
      BY <1>0, <2>1, <2>2, <3>1 DEF ReaderType
  <2>4. CASE ~PageUsed(new) /\ rd.remain = 0
    <3>1. rd' = Idle
      BY <2>1, <2>4
    <3> QED
      BY <1>0, <1>i, <2>1, <2>2, <3>1 DEF ReaderType
  <2>5. CASE ~PageUsed(new) /\ rd.remain # 0
    <3>1. rd' = [rd EXCEPT !.at = "copy", !.csize = -1]
      BY <2>1, <2>5
    <3>2. rd' \in ReadType /\ rd'.at = "copy" /\ rd'.csize = -1 /\ rd'.remain \in Nat
      <4>1. rd' = [at |-> "copy", remain |-> rd.remain, page |-> rd.page, polls |-> rd.polls, from |-> rd.from,
                   csize |-> -1, fresh |-> rd.fresh]
        BY <1>0, <3>1 DEF ReadType
      <4>2. -1 \in -1 .. Parts
        BY <1>0
      <4> QED
        BY <1>0, <4>1, <4>2 DEF ReadType
    <3> QED
      BY <1>0, <2>1, <2>2, <3>2 DEF ReaderType
  <2> QED
    BY <2>3, <2>4, <2>5
<1>8. CASE StartEngine
  <2>1. want' = count + 1 /\ done' = 0 /\ rd' = rd
    BY <1>8 DEF StartEngine
  <2>2. want' \in Nat
    BY <1>0, <2>1 DEF EngineType
  <2> QED
    BY <1>0, <2>1, <2>2 DEF ReaderType
<1>9. CASE ResetPage
  <2>1. rd' = [rd EXCEPT !.fresh = FALSE] /\ UNCHANGED <<want, done>>
    BY <1>9 DEF ResetPage
  <2>2. rd' \in ReadType /\ rd'.at = rd.at /\ rd'.csize = rd.csize /\ rd'.from = rd.from /\ rd'.remain = rd.remain
    BY <1>0, <2>1 DEF ReadType
  <2> QED
    BY <1>0, <2>1, <2>2 DEF ReaderType
<1>10. CASE \/ EngineWrite \/ EngineHalt \/ Calls \/ Rewind \/ HaltEngine \/ Stopped \/ Settle \/ SetLook \/ BuildChain
            \/ UNCHANGED dmaVars
  <2>1. UNCHANGED <<rd, want, done>>
    <3>1. CASE Calls
      BY <3>1, CallBegins
    <3>2. CASE EngineWrite \/ EngineHalt \/ Rewind \/ HaltEngine \/ Stopped \/ Settle \/ SetLook \/ BuildChain
      BY <3>2 DEF EngineWrite, EngineHalt, Rewind, HaltEngine, Stopped, Settle, SetLook, BuildChain, history
    <3>3. CASE UNCHANGED dmaVars
      BY <3>3 DEF dmaVars, history
    <3> QED
      BY <1>10, <3>1, <3>2, <3>3
  <2> QED
    BY <1>0, <2>1 DEF ReaderType
<1> QED
  BY <1>1, <1>2, <1>3, <1>4, <1>5, <1>6, <1>7, <1>8, <1>9, <1>10, NextActs, Zenon DEF ReaderActs

LEMMA CallTypeNext ==
  ASSUME DmaType, [DmaNext]_dmaVars PROVE CallType'
<1> USE DEF DmaType
<1> DEFINE Flags == /\ look_ready \in BOOLEAN /\ gap \in BOOLEAN /\ stale \in BOOLEAN /\ lapped \in BOOLEAN
                    /\ raced \in BOOLEAN /\ hot \in BOOLEAN
<1>0. Ordered(todo) /\ Flags
  BY DEF CallType
<1>1. CASE EngineWrite
  <2>1. /\ lapped' = (lapped \/ (count - base) \div Parts >= done + TsCount)
        /\ UNCHANGED <<todo, look_ready, gap, stale, raced, hot>>
    BY <1>1 DEF EngineWrite
  <2>2. lapped' \in BOOLEAN
    BY <2>1, Zenon
  <2> QED
    BY <1>0, <2>1, <2>2 DEF CallType
<1>2. CASE Calls
  <2>1. Ordered(todo') /\ UNCHANGED <<look_ready, gap, stale, lapped, raced, hot>>
    BY <1>2, CallBegins
  <2> QED
    BY <1>0, <2>1 DEF CallType
<1>3. CASE ResetPage
  <2>1. Ordered(todo')
    BY <1>0, <1>3, StepOn DEF ResetPage
  <2>2. UNCHANGED <<look_ready, lapped>>
    BY <1>3 DEF ResetPage
  <2>3. raced' \in BOOLEAN /\ hot' \in BOOLEAN /\ gap' \in BOOLEAN /\ stale' \in BOOLEAN
    BY <1>3, Zenon DEF ResetPage
  <2> QED
    BY <1>0, <2>1, <2>2, <2>3 DEF CallType
<1>4. CASE Rewind
  <2>1. Ordered(todo')
    BY <1>0, <1>4, StepOn DEF Rewind
  <2>2. UNCHANGED <<look_ready, lapped, gap, stale, hot>> /\ raced' \in BOOLEAN
    BY <1>4 DEF Rewind
  <2> QED
    BY <1>0, <2>1, <2>2 DEF CallType
<1>5. CASE StartEngine
  <2>1. Ordered(todo')
    BY <1>0, <1>5, StepOn DEF StartEngine
  <2>2. UNCHANGED <<look_ready, hot>> /\ gap' = FALSE /\ lapped' = FALSE /\ stale' = FALSE /\ raced' \in BOOLEAN
    BY <1>5 DEF StartEngine
  <2> QED
    BY <1>0, <2>1, <2>2 DEF CallType
<1>6. CASE SetLook
  <2>1. Ordered(todo') /\ Head(todo) \in Steps /\ Head(todo)[1] = "look"
    BY <1>0, <1>6, StepOn DEF SetLook
  <2>2. look_ready' = Head(todo)[2] /\ UNCHANGED <<gap, stale, lapped, raced, hot>>
    BY <1>6 DEF SetLook, history
  <2>3. look_ready' \in BOOLEAN
    BY <2>1, <2>2, StepArguments
  <2> QED
    BY <1>0, <2>1, <2>2, <2>3 DEF CallType
<1>7. CASE HaltEngine \/ Stopped \/ Settle \/ BuildChain
  <2>1. Ordered(todo')
    BY <1>0, <1>7, StepOn DEF HaltEngine, Stopped, Settle, BuildChain
  <2>2. UNCHANGED <<look_ready, gap, stale, lapped, raced, hot>>
    BY <1>7 DEF HaltEngine, Stopped, Settle, BuildChain, history
  <2> QED
    BY <1>0, <2>1, <2>2 DEF CallType
<1>8. CASE (\E size \in Sizes : Read(size)) \/ TakePage
  <2>1. UNCHANGED <<todo, look_ready, gap, stale, lapped, hot>> /\ raced' \in BOOLEAN
    BY <1>8 DEF Read, TakePage
  <2> QED
    BY <1>0, <2>1 DEF CallType
<1>9. CASE CopyRange
  <2>1. UNCHANGED <<todo, look_ready, lapped, raced, hot>>
    BY <1>9 DEF CopyRange
  <2>2. gap' \in BOOLEAN /\ stale' \in BOOLEAN
    BY <1>9, Zenon DEF CopyRange, Deliver
  <2> QED
    BY <1>0, <2>1, <2>2 DEF CallType
<1>10. CASE EngineHalt \/ LookAgain \/ ChooseRange \/ CopyFault \/ Advance \/ UNCHANGED dmaVars
  <2>1. UNCHANGED <<todo, look_ready, gap, stale, lapped, raced, hot>>
    <3>1. CASE EngineHalt \/ LookAgain \/ ChooseRange \/ CopyFault \/ Advance
      BY <3>1 DEF EngineHalt, LookAgain, ChooseRange, CopyFault, Advance, history
    <3>2. CASE UNCHANGED dmaVars
      BY <3>2 DEF dmaVars, history
    <3> QED
      BY <1>10, <3>1, <3>2
  <2> QED
    BY <1>0, <2>1 DEF CallType
<1> QED
  BY <1>1, <1>2, <1>3, <1>4, <1>5, <1>6, <1>7, <1>8, <1>9, <1>10, NextActs, Zenon DEF ReaderActs

LEMMA TypeNext == DmaType /\ [DmaNext]_dmaVars => DmaType'
BY EngineTypeNext, RingTypeNext, ReaderTypeNext, CallTypeNext DEF DmaType

(* pt3_dma_build_page_descriptor, pt3_dma_set_enabled, pt3_dma_reset and   *)
(* pt3_dma_copy keep the chain, the engine, the pages and the reader in    *)
(* range: ts_pos is always a page, ts_info[].data_pos a place in it.       *)
THEOREM DmaTypes == DmaSpec => []DmaTypeOK
<1>1. DmaType => DmaTypeOK
  BY Constants DEF DmaType, EngineType, RingType, ReaderType, CallType, DmaTypeOK, ReadType, MemType, Chained
<1> QED
  BY <1>1, TypeInit, TypeNext, PTL DEF DmaSpec

-----------------------------------------------------------------------------
(* Nothing old is read.                                                    *)

MidNow == todo # <<>> /\ Midway(Head(todo))

\* The pages that were reset when s is the next step.
Cleared(s) == IF s[1] = "page" THEN 0 .. s[2] - 1 ELSE Pages

\* Within a reset: no read counts as fresh; the engine stands still unless the
\* reset was hot, nobody reads unless it was raced, and the pages are empty.
Empty(s) ==
  /\ ~hot => ~running /\ \A q \in Cleared(s) : \A b \in 0 .. Parts - 1 : mem[q][b] = 0
  /\ ~raced => /\ rd.at = "idle" /\ ~gap
               /\ s[1] = "start" => ts_pos = 0
               /\ \A q \in Cleared(s) : pos[q] = 0
  /\ ~hot /\ ~raced => \A q \in Cleared(s) : first[q] = "not"
ResetInv == MidNow => ~rd.fresh /\ Empty(Head(todo))

OldInv == ~hot /\ ~MidNow => \A p \in Pages : \A b \in 0 .. Parts - 1 : mem[p][b] \notin 1 .. base

FreshInv == ResetInv /\ OldInv /\ Fresh

\* Where the steps of an ioctl are in a reset.
LEMMA StepInReset ==
  ASSUME Ordered(todo), NEW name, Step(name)
  PROVE  /\ name = "page" => /\ Head(todo)[2] \in Pages /\ MidNow' /\ Head(todo')[1] # "start"
                             /\ Cleared(Head(todo')) = 0 .. Head(todo)[2]
                             /\ Head(todo)[2] # 0 => MidNow /\ Cleared(Head(todo)) = 0 .. Head(todo)[2] - 1
                             /\ Head(todo)[2] = 0 => ~MidNow
         /\ name = "rewind" => /\ MidNow /\ MidNow' /\ Cleared(Head(todo)) = Pages /\ Cleared(Head(todo')) = Pages
                               /\ Head(todo')[1] = "start"
         /\ name = "start" => MidNow /\ ~MidNow' /\ Cleared(Head(todo)) = Pages /\ Head(todo)[1] = "start"
         /\ name \notin {"page", "rewind", "start"} => ~MidNow /\ ~MidNow'
<1>1. /\ todo # <<>> /\ Head(todo) \in Steps /\ Head(todo)[1] = name
      /\ todo' # <<>> => Follows(Head(todo), Head(todo'))
      /\ todo' = <<>> => name \notin {"page", "rewind"}
  BY StepOn
<1>2. TsCount \in Nat \ {0} /\ TsCount >= 2
  BY Constants
<1>3. PICK s : s = Head(todo)
  OBVIOUS
<1>4. CASE name = "page"
  <2>1. s[2] \in Pages /\ s[1] = "page"
    BY <1>1, <1>3, <1>4, StepArguments
  <2>2. todo' # <<>> /\ Follows(s, Head(todo'))
    BY <1>1, <1>3, <1>4
  <2>3. PICK t : t = Head(todo') /\ Follows(s, t)
    BY <2>2
  <2>4. CASE s[2] = TsCount - 1
    <3>1. t[1] = "rewind"
      BY <2>1, <2>3, <2>4 DEF Follows
    <3>2. Pages = 0 .. s[2]
      BY <1>2, <2>4 DEF Pages
    <3> QED
      BY <1>1, <1>2, <1>3, <1>4, <2>1, <2>2, <2>3, <2>4, <3>1, <3>2 DEF MidNow, Midway, Cleared
  <2>5. CASE s[2] # TsCount - 1
    <3>1. t[1] = "page" /\ t[2] = s[2] + 1
      BY <2>1, <2>3, <2>5 DEF Follows
    <3>2. t[2] # 0 /\ 0 .. t[2] - 1 = 0 .. s[2]
      BY <1>2, <2>1, <3>1 DEF Pages
    <3> QED
      BY <1>1, <1>2, <1>3, <1>4, <2>1, <2>2, <2>3, <2>5, <3>1, <3>2 DEF MidNow, Midway, Cleared
  <2> QED
    BY <2>4, <2>5
<1>5. CASE name = "rewind"
  <2>1. todo' # <<>> /\ Head(todo')[1] = "start"
    BY <1>1, <1>5 DEF Follows
  <2> QED
    BY <1>1, <1>5, <2>1 DEF MidNow, Midway, Cleared
<1>6. CASE name \notin {"page", "rewind"}
  <2>1. ~MidNow'
    BY <1>1, <1>6 DEF MidNow, Follows
  <2> QED
    BY <1>1, <1>6, <2>1 DEF MidNow, Midway, Cleared
<1> QED
  BY <1>4, <1>5, <1>6

LEMMA MidIsResetting == MidNow => Resetting
BY DEF MidNow, Midway, Resetting

\* What the reader leaves alone.
LEMMA ReaderKeeps ==
  ASSUME DmaType, ReaderActs
  PROVE  /\ UNCHANGED <<link, eng, running, halting, mem, look_ready, todo, count, calls, lapped, hot, base>>
         /\ raced => raced'
         /\ rd'.fresh => rd.fresh \/ (rd.at = "idle" /\ ~Resetting)
         /\ rd.at = "idle" => raced' \/ ~Resetting
<1>0. rd \in ReadType
  BY DEF DmaType, ReaderType
<1>1. ASSUME NEW size \in Sizes, Read(size)
      PROVE  /\ UNCHANGED <<link, eng, running, halting, mem, look_ready, todo, count, calls, lapped, hot, base>>
             /\ raced => raced'
             /\ rd'.fresh => rd.at = "idle" /\ ~Resetting
             /\ raced' \/ ~Resetting
  <2>1. UNCHANGED <<link, eng, running, halting, mem, look_ready, todo, count, calls, lapped, hot, base>>
    BY <1>1 DEF Read, engine, ring
  <2>2. rd.at = "idle" /\ raced' = (raced \/ Resetting)
    BY <1>1 DEF Read
  <2>3. rd' = [Idle EXCEPT !.at = "look", !.remain = size, !.fresh = ~Resetting]
    BY <1>1 DEF Read
  <2>4. rd'.fresh = ~Resetting
    BY <2>3 DEF Idle
  <2> QED
    BY <2>1, <2>2, <2>4
<1>2. CASE TakePage
  BY <1>0, <1>2 DEF TakePage, engine, ring, ReadType
<1>3. CASE LookAgain
  <2>1. /\ UNCHANGED <<link, eng, running, halting, mem, look_ready, todo, count, calls, lapped, hot, base, raced>>
        /\ rd.at = "look" /\ rd' = IF rd.polls + 1 < MaxPolls THEN [rd EXCEPT !.polls = @ + 1] ELSE Idle
    BY <1>3 DEF LookAgain, engine, ring, history
  <2>2. rd'.fresh => rd.fresh
    BY <1>0, <2>1 DEF ReadType, Idle
  <2> QED
    BY <2>1, <2>2
<1>4. CASE ChooseRange
  BY <1>0, <1>4 DEF ChooseRange, engine, ring, history, ReadType
<1>5. CASE CopyFault
  BY <1>5 DEF CopyFault, engine, ring, history, Idle
<1>6. CASE CopyRange
  BY <1>0, <1>6 DEF CopyRange, engine, ring, ReadType
<1>7. CASE Advance
  <2>1. /\ UNCHANGED <<link, eng, running, halting, mem, look_ready, todo, count, calls, lapped, hot, base, raced>>
        /\ rd.at = "advance"
        /\ \/ rd' = [rd EXCEPT !.at = "look", !.polls = 0]
           \/ rd' = Idle
           \/ rd' = [rd EXCEPT !.at = "copy", !.csize = -1]
    <3>1. CASE PageUsed(pos[rd.page] + rd.csize)
      BY <1>7, <3>1 DEF Advance, engine
    <3>2. CASE ~PageUsed(pos[rd.page] + rd.csize)
      BY <1>7, <3>2 DEF Advance, engine
    <3> QED
      BY <3>1, <3>2
  <2>2. rd'.fresh => rd.fresh
    <3>1. Idle.fresh = FALSE
      BY DEF Idle
    <3>2. CASE rd' = [rd EXCEPT !.at = "look", !.polls = 0]
      BY <1>0, <3>2 DEF ReadType
    <3>3. CASE rd' = [rd EXCEPT !.at = "copy", !.csize = -1]
      BY <1>0, <3>3 DEF ReadType
    <3> QED
      BY <2>1, <3>1, <3>2, <3>3
  <2> QED
    BY <2>1, <2>2
<1> QED
  BY <1>1, <1>2, <1>3, <1>4, <1>5, <1>6, <1>7 DEF ReaderActs

LEMMA ResetNext ==
  ASSUME DmaType, ResetInv, [DmaNext]_dmaVars PROVE ResetInv'
<1>0. Ordered(todo) /\ rd \in ReadType
  BY DEF DmaType, CallType, ReaderType
<1> SUFFICES ASSUME MidNow' PROVE ~rd'.fresh /\ Empty(Head(todo))'
  BY DEF ResetInv
<1>1. CASE EngineWrite
  <2>1. running /\ UNCHANGED <<todo, rd, hot, raced, gap, ts_pos, pos>>
    BY <1>1 DEF EngineWrite
  <2>2. MidNow
    BY <2>1 DEF MidNow
  <2>3. ~rd.fresh /\ Empty(Head(todo))
    BY <2>2 DEF ResetInv
  <2>4. hot
    BY <2>1, <2>3 DEF Empty
  <2> QED
    BY <2>1, <2>3, <2>4 DEF Empty
<1>2. CASE Calls
  <2>1. ~MidNow'
    BY <1>2, CallBegins DEF MidNow
  <2> QED
    BY <2>1
<1>3. CASE ResetPage
  <2>1. PICK p : /\ p = Head(todo)[2]
                 /\ mem' = [mem EXCEPT ![p] = [b \in 0 .. Parts - 1 |-> 0]]
                 /\ first' = [first EXCEPT ![p] = "not"]
                 /\ pos' = [pos EXCEPT ![p] = 0]
                 /\ raced' = (rd.at # "idle" \/ (raced /\ p # 0))
                 /\ hot' = (running \/ (hot /\ p # 0))
                 /\ gap' = (gap /\ p # 0)
                 /\ rd' = [rd EXCEPT !.fresh = FALSE]
                 /\ UNCHANGED <<running, ts_pos>>
    BY <1>3 DEF ResetPage, engine
  <2>2. Step("page")
    BY <1>3 DEF ResetPage
  <2>3. /\ p \in Pages /\ Head(todo')[1] # "start" /\ Cleared(Head(todo')) = 0 .. p
        /\ p # 0 => MidNow /\ Cleared(Head(todo)) = 0 .. p - 1
    BY <1>0, <2>1, <2>2, StepInReset
  <2>4. p # 0 => Empty(Head(todo))
    BY <2>3 DEF ResetInv
  <2>5. ~rd'.fresh /\ rd'.at = rd.at
    BY <1>0, <2>1 DEF ReadType
  <2>6. p \in Nat /\ \A q \in 0 .. p : q \in Pages /\ (q = p \/ (p # 0 /\ q \in 0 .. p - 1))
    BY <2>3, Constants DEF Pages
  <2>7. /\ mem \in MemType /\ first \in [Pages -> {"sync", "not", "zero"}]
        /\ pos \in [Pages -> 0 .. Parts - 1]
    BY DEF DmaType, RingType
  <2>8. ASSUME ~hot' PROVE ~running' /\ \A q \in 0 .. p : \A b \in 0 .. Parts - 1 : mem'[q][b] = 0
    <3>1. ~running /\ (p # 0 => ~hot)
      BY <2>1, <2>8
    <3>2. \A q \in 0 .. p : \A b \in 0 .. Parts - 1 : mem'[q][b] = 0
      <4> TAKE q \in 0 .. p
      <4> TAKE b \in 0 .. Parts - 1
      <4>1. CASE q = p
        <5>1. mem'[p] = [c \in 0 .. Parts - 1 |-> 0]
          BY <2>1, <2>3, <2>7 DEF MemType
        <5> QED
          BY <4>1, <5>1
      <4>2. CASE q # p
        <5>1. mem'[q] = mem[q]
          BY <2>1, <2>6, <2>7, <4>2 DEF MemType
        <5>2. mem[q][b] = 0
          BY <2>3, <2>4, <2>6, <3>1, <4>2 DEF Empty
        <5> QED
          BY <5>1, <5>2
      <4> QED
        BY <4>1, <4>2
    <3> QED
      BY <2>1, <3>1, <3>2
  <2>9. ASSUME ~raced' PROVE rd'.at = "idle" /\ ~gap' /\ \A q \in 0 .. p : pos'[q] = 0
    <3>1. rd.at = "idle" /\ (p # 0 => ~raced)
      BY <2>1, <2>9
    <3>2. ~gap'
      BY <2>1, <2>4, <3>1 DEF Empty
    <3>3. \A q \in 0 .. p : pos'[q] = 0
      BY <2>1, <2>3, <2>4, <2>6, <2>7, <3>1 DEF Empty
    <3> QED
      BY <2>5, <3>1, <3>2, <3>3
  <2>10. ASSUME ~hot', ~raced' PROVE \A q \in 0 .. p : first'[q] = "not"
    <3>1. p # 0 => ~hot /\ ~raced
      BY <2>1, <2>10
    <3> QED
      BY <2>1, <2>3, <2>4, <2>6, <2>7, <3>1 DEF Empty
  <2> QED
    BY <2>3, <2>5, <2>8, <2>9, <2>10 DEF Empty
<1>4. CASE Rewind
  <2>1. ts_pos' = 0 /\ raced' = (raced \/ rd.at # "idle") /\ UNCHANGED <<running, mem, first, pos, rd, gap, hot>>
    BY <1>4 DEF Rewind, engine
  <2>2. MidNow /\ Cleared(Head(todo)) = Pages /\ Cleared(Head(todo')) = Pages
    BY <1>0, <1>4, StepInReset DEF Rewind
  <2>3. ~rd.fresh /\ Empty(Head(todo))
    BY <2>2 DEF ResetInv
  <2> QED
    BY <2>1, <2>2, <2>3 DEF Empty
<1>5. CASE StartEngine \/ HaltEngine \/ Stopped \/ Settle \/ SetLook \/ BuildChain
  <2>1. ~MidNow'
    BY <1>0, <1>5, StepInReset DEF StartEngine, HaltEngine, Stopped, Settle, SetLook, BuildChain
  <2> QED
    BY <2>1
<1>6. CASE ReaderActs
  <2>1. /\ UNCHANGED <<running, mem, todo, hot>>
        /\ (raced => raced') /\ (rd'.fresh => rd.fresh \/ ~Resetting) /\ (rd.at = "idle" => raced' \/ ~Resetting)
    BY <1>6, ReaderKeeps
  <2>2. MidNow /\ Resetting
    BY <2>1, MidIsResetting DEF MidNow
  <2>3. ~rd.fresh /\ Empty(Head(todo))
    BY <2>2 DEF ResetInv
  <2>4. raced'
    BY <2>1, <2>2, <2>3 DEF Empty
  <2> QED
    BY <2>1, <2>2, <2>3, <2>4 DEF Empty
<1>7. CASE EngineHalt \/ UNCHANGED dmaVars
  <2>1. UNCHANGED <<todo, rd, hot, raced, gap, ts_pos, pos, mem, first>> /\ (running' => running)
    BY <1>7 DEF EngineHalt, dmaVars, engine, ring, history
  <2>2. MidNow
    BY <2>1 DEF MidNow
  <2>3. ~rd.fresh /\ Empty(Head(todo))
    BY <2>2 DEF ResetInv
  <2> QED
    BY <2>1, <2>3 DEF Empty
<1> QED
  BY <1>1, <1>2, <1>3, <1>4, <1>5, <1>6, <1>7, NextActs

LEMMA OldNext ==
  ASSUME DmaType, ResetInv, OldInv, [DmaNext]_dmaVars PROVE OldInv'
<1>0. /\ Ordered(todo) /\ mem \in MemType /\ count \in Nat /\ base \in 0 .. count /\ Parts \in Nat \ {0}
  BY Constants DEF DmaType, CallType, RingType, EngineType
<1> SUFFICES ASSUME ~hot', ~MidNow', NEW p \in Pages, NEW b \in 0 .. Parts - 1
             PROVE  mem'[p][b] \notin 1 .. base'
  BY DEF OldInv
<1>1. CASE EngineWrite
  <2>1. PICK x, y : mem' = [mem EXCEPT ![x][y] = count + 1] /\ UNCHANGED <<todo, hot, base>>
    BY <1>1 DEF EngineWrite
  <2>2. mem[p][b] \notin 1 .. base
    BY <2>1 DEF OldInv, MidNow
  <2>3. mem'[p][b] = mem[p][b] \/ mem'[p][b] = count + 1
    BY <1>0, <2>1 DEF MemType
  <2> QED
    BY <1>0, <2>1, <2>2, <2>3
<1>2. CASE ResetPage \/ Rewind
  BY <1>0, <1>2, StepInReset DEF ResetPage, Rewind
<1>3. CASE StartEngine
  <2>1. UNCHANGED <<mem, hot>> /\ Step("start") /\ base' = count
    BY <1>3 DEF StartEngine, ring
  <2>2. MidNow /\ Cleared(Head(todo)) = Pages
    BY <1>0, <2>1, StepInReset
  <2>3. mem[p][b] = 0
    BY <2>1, <2>2 DEF ResetInv, Empty
  <2> QED
    BY <1>0, <2>1, <2>3
<1>4. CASE HaltEngine \/ Stopped \/ Settle \/ SetLook \/ BuildChain
  <2>1. ~MidNow
    BY <1>0, <1>4, StepInReset DEF HaltEngine, Stopped, Settle, SetLook, BuildChain
  <2>2. UNCHANGED <<mem, hot, base>>
    BY <1>4 DEF HaltEngine, Stopped, Settle, SetLook, BuildChain, ring, history
  <2> QED
    BY <2>1, <2>2 DEF OldInv
<1>5. CASE EngineHalt \/ Calls \/ ReaderActs \/ UNCHANGED dmaVars
  <2>1. UNCHANGED <<mem, hot, base>> /\ (MidNow => MidNow')
    <3>1. CASE EngineHalt
      BY <3>1 DEF EngineHalt, ring, history, MidNow
    <3>2. CASE Calls
      BY <3>2, CallBegins DEF ring, MidNow
    <3>3. CASE ReaderActs
      BY <3>3, ReaderKeeps DEF MidNow
    <3>4. CASE UNCHANGED dmaVars
      BY <3>4 DEF dmaVars, ring, history, MidNow
    <3> QED
      BY <1>5, <3>1, <3>2, <3>3, <3>4
  <2> QED
    BY <2>1 DEF OldInv
<1> QED
  BY <1>1, <1>2, <1>3, <1>4, <1>5, NextActs

LEMMA StaleNext ==
  ASSUME DmaType, ResetInv, OldInv, Fresh, [DmaNext]_dmaVars PROVE Fresh'
<1>0. Ordered(todo) /\ rd \in ReadType
  BY DEF DmaType, CallType, ReaderType
<1> SUFFICES ASSUME ~hot' PROVE ~stale'
  BY DEF Fresh
<1>1. CASE ResetPage
  <2>1. hot' = (running \/ (hot /\ Head(todo)[2] # 0)) /\ stale' = (stale /\ Head(todo)[2] # 0)
    BY <1>1 DEF ResetPage
  <2> QED
    BY <2>1 DEF Fresh
<1>2. CASE StartEngine
  BY <1>2 DEF StartEngine
<1>3. CASE CopyRange
  <2>1. /\ rd.at = "copy" /\ rd.csize >= 0 /\ UNCHANGED <<hot, base>>
        /\ stale' = (stale \/ (rd.fresh /\ \E j \in 1 .. rd.csize : Got[j] \in 1 .. base))
    BY <1>3 DEF CopyRange, Deliver, Got
  <2>2. ~stale
    BY <2>1 DEF Fresh
  <2>3. ASSUME rd.fresh, NEW j \in 1 .. rd.csize PROVE Got[j] \notin 1 .. base
    <3>1. ~MidNow
      BY <2>3 DEF ResetInv
    <3>2. rd.page \in Pages /\ rd.from + j - 1 \in 0 .. Parts - 1
      BY <1>0, <2>1, GotType DEF DmaType, ReadType
    <3>3. Got[j] = mem[rd.page][rd.from + j - 1]
      BY DEF Got
    <3> QED
      BY <2>1, <3>1, <3>2, <3>3 DEF OldInv
  <2> QED
    BY <2>1, <2>2, <2>3
<1>4. CASE \/ EngineWrite \/ EngineHalt \/ Calls \/ Rewind \/ HaltEngine \/ Stopped \/ Settle \/ SetLook \/ BuildChain
           \/ (\E size \in Sizes : Read(size)) \/ TakePage \/ LookAgain \/ ChooseRange \/ CopyFault \/ Advance
           \/ UNCHANGED dmaVars
  <2>1. UNCHANGED <<hot, stale>>
    <3>1. CASE Calls
      BY <3>1, CallBegins
    <3>2. CASE EngineWrite \/ EngineHalt \/ Rewind \/ HaltEngine \/ Stopped \/ Settle \/ SetLook \/ BuildChain
      BY <3>2 DEF EngineWrite, EngineHalt, Rewind, HaltEngine, Stopped, Settle, SetLook, BuildChain, history
    <3>3. CASE (\E size \in Sizes : Read(size)) \/ TakePage \/ LookAgain \/ ChooseRange \/ CopyFault \/ Advance
      BY <3>3 DEF Read, TakePage, LookAgain, ChooseRange, CopyFault, Advance, history
    <3>4. CASE UNCHANGED dmaVars
      BY <3>4 DEF dmaVars, history
    <3> QED
      BY <1>4, <3>1, <3>2, <3>3, <3>4
  <2> QED
    BY <2>1 DEF Fresh
<1> QED
  BY <1>1, <1>2, <1>3, <1>4, NextActs, Zenon DEF ReaderActs

(* A read begun after START_REC returns nothing that was received before   *)
(* it, although pt3_dma_reset clears the pages one by one and without the  *)
(* lock that pt3_dma_copy holds: unless the engine still ran.              *)
THEOREM NothingOld == DmaSpec => []Fresh
<1>1. DmaInit => FreshInv
  <2> SUFFICES ASSUME DmaInit PROVE FreshInv
    OBVIOUS
  <2>1. ~MidNow /\ ~stale
    BY DEF DmaInit, MidNow
  <2>2. \A p \in Pages : \A b \in 0 .. Parts - 1 : mem[p][b] = 0
    BY DEF DmaInit
  <2>3. base = 0
    BY DEF DmaInit
  <2> QED
    BY <2>1, <2>2, <2>3 DEF FreshInv, ResetInv, OldInv, Fresh
<1>2. DmaType /\ FreshInv /\ [DmaNext]_dmaVars => FreshInv'
  BY ResetNext, OldNext, StaleNext DEF FreshInv
<1>3. FreshInv => Fresh
  BY DEF FreshInv
<1> QED
  BY <1>1, <1>2, <1>3, TypeInit, TypeNext, PTL DEF DmaSpec

-----------------------------------------------------------------------------
(* Nothing is lost, repeated or out of order.                              *)

Clean == ~lapped /\ ~raced /\ ~hot

\* Of the n parts written since the start, d pages have been read and released.
\* The pages from number d on lie one behind the other from ts_pos on.
Flowing(n, d) ==
  /\ running => eng = n % Total
  /\ ts_pos = d % TsCount
  /\ d * Parts <= n /\ n <= (d + TsCount) * Parts
  /\ \A p \in Pages : p # ts_pos => pos[p] = 0
  /\ \A k \in d .. d + TsCount - 1 : first[k % TsCount] = "sync" => k * Parts < n
  /\ \A k \in d .. d + TsCount - 1 : \A b \in 0 .. Parts - 1 :
       k * Parts + b < n => mem[k % TsCount][b] = base + k * Parts + b + 1

\* The reader takes its page only when that is full.
Reading(n, d) ==
  /\ rd.at \in {"copy", "advance"} =>
       /\ rd.page = ts_pos /\ (d + 1) * Parts <= n
       /\ rd.csize >= 0 => rd.from = pos[rd.page]
  /\ want = base + d * Parts + pos[ts_pos] + 1 + (IF rd.at = "advance" THEN rd.csize ELSE 0)
  /\ ~gap

StreamInv ==
  Clean /\ ~MidNow =>
    \E n, d \in Nat : n = count - base /\ d = done /\ Flowing(n, d) /\ Reading(n, d)

DmaInv == DmaType /\ FreshInv /\ StreamInv

LEMMA Quotient ==
  ASSUME NEW S \in Nat \ {0}, NEW q \in Nat, NEW r \in 0 .. S - 1
  PROVE  (q * S + r) \div S = q
<1>1. PICK x \in Nat : x = q * S + r
  BY Constants
<1>2. x % S = r
  BY <1>1, Remainder
<1>3. PICK c \in Nat : c = x \div S
  OBVIOUS
<1>4. x = S * c + r
  BY <1>2, <1>3
<1>5. S * (c - q) = 0
  BY <1>1, <1>4
<1>6. c = q
  BY <1>5
<1> QED
  BY <1>1, <1>3, <1>6

\* Where the engine writes part n: at its place of page k.
LEMMA Place ==
  ASSUME NEW n \in Nat
  PROVE  \E k \in Nat : \E b \in 0 .. Parts - 1 :
           /\ n = k * Parts + b /\ n \div Parts = k
           /\ k % TsCount \in Pages
           /\ (n % Total) \div Parts = k % TsCount /\ (n % Total) % Parts = b
<1>0. TsCount \in Nat \ {0} /\ Parts \in Nat \ {0} /\ Total \in Nat \ {0} /\ Total = TsCount * Parts
  BY Constants
<1>b. PICK b : b = n % Parts
  OBVIOUS
<1>1. PICK k \in Nat : b \in 0 .. Parts - 1 /\ n = k * Parts + b
  BY <1>0, <1>b, Divided, Zenon
<1>p. PICK p : p = k % TsCount
  OBVIOUS
<1>2. PICK j \in Nat : p \in 0 .. TsCount - 1 /\ k = j * TsCount + p
  BY <1>0, <1>p, Divided, Zenon
<1>3. n = j * Total + (p * Parts + b)
  <2>1. (j * TsCount + p) * Parts = j * (TsCount * Parts) + p * Parts
    BY <1>0, <1>2
  <2> QED
    BY <1>0, <1>1, <1>2, <2>1
<1>4. p * Parts + b \in 0 .. Total - 1
  <2>1. p * Parts \in Nat /\ p * Parts <= (TsCount - 1) * Parts
    BY <1>0, <1>2
  <2>2. (TsCount - 1) * Parts = Total - Parts
    BY <1>0
  <2> QED
    BY <1>0, <1>1, <2>1, <2>2
<1>5. n % Total = p * Parts + b
  <2>1. PICK m \in 0 .. Total - 1 : m = p * Parts + b
    BY <1>4
  <2>2. (j * Total + m) % Total = m
    <3>1. j \in Int
      BY <1>2
    <3> QED
      BY <1>0, <2>1, <3>1, Remainder, Zenon
  <2> QED
    BY <1>3, <2>1, <2>2
<1>6. (p * Parts + b) \div Parts = p /\ (p * Parts + b) % Parts = b
  BY <1>0, <1>1, <1>2, Quotient, Remainder
<1>7. n \div Parts = k
  BY <1>0, <1>1, Quotient
<1> QED
  BY <1>1, <1>2, <1>p, <1>5, <1>6, <1>7 DEF Pages

\* Pages follow each other without a gap.
LEMMA PageStarts ==
  /\ \A k \in Nat : k * Parts \in Nat /\ (k + 1) * Parts = k * Parts + Parts
  /\ \A k, l \in Nat : k < l => k * Parts + Parts <= l * Parts
<1>0. Parts \in Nat \ {0}
  BY Constants
<1>1. \A k \in Nat : k * Parts \in Nat /\ (k + 1) * Parts = k * Parts + Parts
  BY <1>0
<1>2. ASSUME NEW k \in Nat, NEW l \in Nat, k < l PROVE k * Parts + Parts <= l * Parts
  <2>1. (k + 1) * Parts <= l * Parts
    BY <1>0, <1>2
  <2> QED
    BY <1>1, <2>1
<1> QED
  BY <1>1, <1>2

LEMMA PageSlot == \A k \in Nat : k % TsCount \in Pages
<1>1. TsCount \in Nat \ {0}
  BY Constants
<1> QED
  BY <1>1 DEF Pages

\* The pages that follow page number d.
LEMMA PageRing ==
  ASSUME NEW d \in Nat
  PROVE  /\ NextPage(d % TsCount) = (d + 1) % TsCount /\ (d + 1) % TsCount # d % TsCount
         /\ (d + TsCount) % TsCount = d % TsCount
         /\ \A k, l \in d .. d + TsCount - 1 : k # l => k % TsCount # l % TsCount
<1>0. TsCount \in Nat \ {0} /\ TsCount >= 2
  BY Constants
<1>2. PICK r \in 0 .. TsCount - 1 : r = d % TsCount
  BY <1>0
<1>3. (r + 1) % TsCount = (d + 1) % TsCount /\ (r + TsCount) % TsCount = (d + TsCount) % TsCount
  BY <1>0, <1>2, Onward
<1>4. (r + 1) % TsCount = (IF r + 1 < TsCount THEN r + 1 ELSE r + 1 - TsCount)
      /\ (r + TsCount) % TsCount = (IF r + TsCount < TsCount THEN r + TsCount ELSE r + TsCount - TsCount)
  <2>1. 1 \in 0 .. TsCount /\ TsCount \in 0 .. TsCount
    BY <1>0
  <2> QED
    BY <1>0, <2>1, StepFrom
<1>5. NextPage(r) = (r + 1) % TsCount
  BY <1>0, <1>4 DEF NextPage
<1>6. ASSUME NEW k \in d .. d + TsCount - 1, NEW l \in d .. d + TsCount - 1, k # l PROVE k % TsCount # l % TsCount
  <2>1. k \in Nat /\ l \in Nat /\ ((k < l /\ l < k + TsCount) \/ (l < k /\ k < l + TsCount))
    BY <1>0, <1>6
  <2> QED
    BY <1>0, <2>1, Apart
<1>7. (d + 1) % TsCount # d % TsCount
  <2>1. d \in d .. d + TsCount - 1 /\ d + 1 \in d .. d + TsCount - 1 /\ d # d + 1
    BY <1>0
  <2> QED
    BY <1>6, <2>1
<1> QED
  BY <1>0, <1>2, <1>3, <1>4, <1>5, <1>6, <1>7

\* The engine writes the next part into a page that is free.
LEMMA EngineFlows ==
  ASSUME DmaType, NEW n \in Nat, NEW d \in Nat, n = count - base, d = done,
         Flowing(n, d), Reading(n, d), EngineWrite, ~lapped'
  PROVE  Flowing(n + 1, d)' /\ Reading(n + 1, d)'
<1>0. /\ TsCount \in Nat \ {0} /\ TsCount >= 2 /\ Parts \in Nat \ {0} /\ Total \in Nat \ {0}
      /\ mem \in MemType /\ first \in [Pages -> {"sync", "not", "zero"}]
      /\ count \in Nat /\ base \in Nat /\ Chained(link)
  BY Constants DEF DmaType, RingType, EngineType
<1>1. PICK k \in Nat : \E b \in 0 .. Parts - 1 :
           /\ n = k * Parts + b /\ n \div Parts = k
           /\ k % TsCount \in Pages
           /\ (n % Total) \div Parts = k % TsCount /\ (n % Total) % Parts = b
  BY Place
<1>2. PICK b \in 0 .. Parts - 1 :
           /\ n = k * Parts + b /\ n \div Parts = k
           /\ k % TsCount \in Pages
           /\ (n % Total) \div Parts = k % TsCount /\ (n % Total) % Parts = b
  BY <1>1
<1>3. running /\ eng = n % Total /\ eng \in 0 .. Total - 1
  BY DEF EngineWrite, Flowing
<1>4. /\ mem' = [mem EXCEPT ![k % TsCount][b] = count + 1]
      /\ first' = IF b = 0 THEN [first EXCEPT ![k % TsCount] = "sync"] ELSE first
      /\ eng' = link[eng] /\ running' = (link[eng] # End)
      /\ UNCHANGED <<pos, ts_pos, base, rd, want, gap, done>>
  BY <1>2, <1>3 DEF EngineWrite
<1>5. k < d + TsCount
  <2>1. lapped' = (lapped \/ k >= d + TsCount)
    BY <1>2, Zenon DEF EngineWrite
  <2>2. ~(k >= d + TsCount)
    BY <2>1
  <2> QED
    BY <1>0, <2>2
<1>6. d <= k
  <2>1. d * Parts <= n
    BY DEF Flowing
  <2>2. k < d => k * Parts + Parts <= d * Parts
    BY PageStarts
  <2>3. k * Parts \in Nat /\ d * Parts \in Nat
    BY PageStarts
  <2> QED
    BY <1>0, <1>2, <2>1, <2>2, <2>3
<1>7. k \in d .. d + TsCount - 1
  BY <1>0, <1>5, <1>6
<1>8. running' => eng' = (n + 1) % Total
  <2>1. PICK e \in 0 .. Total - 1 : e = n % Total /\ eng = e
    BY <1>3
  <2>2. (e + 1) % Total = (n + 1) % Total
    <3>1. 1 \in Nat
      OBVIOUS
    <3>2. ((n % Total) + 1) % Total = (n + 1) % Total
      BY <1>0, <3>1, Onward, Zenon
    <3> QED
      BY <2>1, <3>2
  <2>3. 1 \in 0 .. Total
    BY <1>0
  <2>4. (e + 1) % Total = IF e + 1 < Total THEN e + 1 ELSE e + 1 - Total
    BY <1>0, <2>3, StepFrom
  <2>5. e + 1 < Total => link[e] = e + 1
    BY <1>0 DEF Chained
  <2>6. ~(e + 1 < Total) => link[e] \in {0, End} /\ e + 1 - Total = 0
    BY <1>0, <2>1 DEF Chained
  <2> QED
    BY <1>4, <2>1, <2>2, <2>4, <2>5, <2>6
<1>9. d * Parts <= n + 1 /\ n + 1 <= (d + TsCount) * Parts
  <2>1. d * Parts <= n /\ d * Parts \in Nat
    BY PageStarts DEF Flowing
  <2>2. d + TsCount \in Nat
    BY <1>0
  <2>3. k * Parts + Parts <= (d + TsCount) * Parts /\ k * Parts \in Nat /\ (d + TsCount) * Parts \in Nat
    BY <1>5, <2>2, PageStarts
  <2> QED
    BY <1>0, <1>2, <2>1, <2>3
<1>10. ASSUME NEW l \in d .. d + TsCount - 1, first'[l % TsCount] = "sync" PROVE l * Parts < n + 1
  <2>0. l \in Nat
    BY <1>0
  <2>1. l % TsCount \in Pages /\ l * Parts \in Nat
    BY <2>0, PageStarts, PageSlot
  <2>2. CASE l = k
    BY <1>0, <1>2, <2>1, <2>2
  <2>3. CASE l # k
    <3>1. l % TsCount # k % TsCount
      BY <1>7, <2>3, PageRing
    <3>2. first[l % TsCount] = "sync"
      BY <1>0, <1>2, <1>4, <1>10, <2>1, <3>1
    <3>3. l * Parts < n
      BY <3>2 DEF Flowing
    <3> QED
      BY <2>1, <3>3
  <2> QED
    BY <2>2, <2>3
<1>11. ASSUME NEW l \in d .. d + TsCount - 1, NEW c \in 0 .. Parts - 1, l * Parts + c < n + 1
       PROVE  mem'[l % TsCount][c] = base + l * Parts + c + 1
  <2>0. l \in Nat
    BY <1>0
  <2>1. l % TsCount \in Pages /\ l * Parts \in Nat /\ k * Parts \in Nat
    BY <2>0, PageStarts, PageSlot
  <2>2. CASE l = k /\ c = b
    <3>1. mem'[l % TsCount][c] = count + 1
      BY <1>0, <1>4, <2>1, <2>2 DEF MemType
    <3> QED
      BY <1>0, <1>2, <2>0, <2>1, <2>2, <3>1
  <2>3. CASE ~(l = k /\ c = b)
    <3>1. l = k => l % TsCount = k % TsCount
      OBVIOUS
    <3>2. l # k => l % TsCount # k % TsCount
      BY <1>7, PageRing
    <3>3. mem'[l % TsCount][c] = mem[l % TsCount][c]
      BY <1>0, <1>4, <2>1, <2>3, <3>2 DEF MemType
    <3>4. l * Parts + c # n
      <4>1. l < k => l * Parts + Parts <= k * Parts
        BY <2>0, PageStarts
      <4>2. k < l => k * Parts + Parts <= l * Parts
        BY <2>0, PageStarts
      <4> QED
        BY <1>0, <1>2, <2>0, <2>1, <2>3, <4>1, <4>2
    <3>5. l * Parts + c < n
      BY <1>0, <1>11, <2>0, <2>1, <3>4
    <3> QED
      BY <3>3, <3>5 DEF Flowing
  <2> QED
    BY <2>2, <2>3
<1>12. Flowing(n + 1, d)'
  <2>1. /\ ts_pos' = d % TsCount /\ \A p \in Pages : p # ts_pos' => pos'[p] = 0
        /\ base' = base
    BY <1>4 DEF Flowing
  <2> QED
    BY <1>8, <1>9, <1>10, <1>11, <2>1 DEF Flowing
<1>13. Reading(n + 1, d)'
  <2>1. (d + 1) * Parts \in Nat
    <3>1. d + 1 \in Nat
      OBVIOUS
    <3> QED
      BY <3>1, PageStarts
  <2>2. (d + 1) * Parts <= n => (d + 1) * Parts <= n + 1
    BY <2>1
  <2> QED
    BY <1>4, <2>2 DEF Reading
<1> QED
  BY <1>12, <1>13

\* What leaves the ring as it is.
LEMMA FlowKept ==
  ASSUME NEW n, NEW d, Flowing(n, d), UNCHANGED <<mem, first, pos, ts_pos, eng, base>>, running' => running
  PROVE  Flowing(n, d)'
BY DEF Flowing

\* The engine is started on an empty ring.
LEMMA StartFlows ==
  ASSUME DmaType, ResetInv, StartEngine, Clean'
  PROVE  Flowing(0, 0)' /\ Reading(0, 0)' /\ count' - base' = 0 /\ done' = 0
<1>0. /\ TsCount \in Nat \ {0} /\ TsCount >= 2 /\ Parts \in Nat \ {0} /\ Total \in Nat \ {0}
      /\ count \in Nat /\ Ordered(todo) /\ 0 \in Pages
  BY Constants DEF DmaType, EngineType, CallType, Pages
<1>1. /\ Step("start") /\ eng' = 0 /\ want' = count + 1 /\ base' = count /\ done' = 0 /\ gap' = FALSE
      /\ raced' = (raced \/ rd.at # "idle")
      /\ UNCHANGED <<mem, first, pos, ts_pos, rd, count, hot>>
  BY DEF StartEngine, ring
<1>2. MidNow /\ Cleared(Head(todo)) = Pages /\ Head(todo)[1] = "start"
  BY <1>0, <1>1, StepInReset
<1>3. ~raced /\ ~hot
  BY <1>1 DEF Clean
<1>4. /\ rd.at = "idle" /\ ts_pos = 0
      /\ \A q \in Pages : pos[q] = 0 /\ first[q] = "not"
  BY <1>2, <1>3 DEF ResetInv, Empty
<1>5. 0 % Total = 0 /\ 0 % TsCount = 0 /\ 0 * Parts = 0 /\ (0 + TsCount) * Parts \in Nat
  BY <1>0
<1>6. ASSUME NEW k \in 0 .. 0 + TsCount - 1
      PROVE  first[k % TsCount] # "sync" /\ \A b \in 0 .. Parts - 1 : ~(k * Parts + b < 0)
  <2>0. k \in Nat
    BY <1>0
  <2>1. k % TsCount \in Pages /\ k * Parts \in Nat
    BY <2>0, PageSlot, PageStarts
  <2> QED
    BY <1>0, <1>4, <2>1
<1>7. Flowing(0, 0)'
  <2>1. 0 * Parts <= 0 /\ 0 <= (0 + TsCount) * Parts
    BY <1>5
  <2>2. ts_pos' = 0 % TsCount /\ \A p \in Pages : p # ts_pos' => pos'[p] = 0
    BY <1>1, <1>4, <1>5
  <2>3. eng' = 0 % Total
    BY <1>1, <1>5
  <2>4. \A k \in 0 .. 0 + TsCount - 1 : first'[k % TsCount] # "sync"
    BY <1>1, <1>6
  <2> QED
    BY <1>6, <2>1, <2>2, <2>3, <2>4 DEF Flowing
<1>8. Reading(0, 0)'
  <2>1. rd'.at = "idle" /\ ts_pos' = 0 /\ pos'[0] = 0
    BY <1>0, <1>1, <1>4
  <2>2. want' = base' + 0 * Parts + pos'[ts_pos'] + 1 + 0
    BY <1>0, <1>1, <1>5, <2>1
  <2> QED
    BY <1>1, <2>1, <2>2 DEF Reading
<1> QED
  BY <1>0, <1>1, <1>7, <1>8

\* A page that is taken is full: the engine has begun the next one.
LEMMA ReadyIsFull ==
  ASSUME DmaType, NEW n \in Nat, NEW d \in Nat, Flowing(n, d), Ready
  PROVE  (d + 1) * Parts <= n
<1>0. TsCount \in Nat \ {0} /\ TsCount >= 2
  BY Constants
<1>1. ts_pos = d % TsCount
  BY DEF Flowing
<1>2. PICK q : q = NextPage(ts_pos) /\ q = (d + 1) % TsCount /\ q # ts_pos
  BY <1>1, PageRing
<1>3. d + 1 \in Nat /\ d + 1 \in d .. d + TsCount - 1
  BY <1>0
<1>4. q \in Pages
  BY <1>2, <1>3, PageSlot
<1>5. pos[q] = 0
  BY <1>2, <1>4 DEF Flowing
<1>6. first[q] = "sync"
  BY <1>2, <1>5 DEF Ready, ByteAt
<1>7. (d + 1) * Parts < n
  BY <1>2, <1>3, <1>6 DEF Flowing
<1>8. (d + 1) * Parts \in Nat
  BY <1>3, PageStarts
<1> QED
  BY <1>7, <1>8

\* What of the reader moves nothing in the ring.
LEMMA LooksFlow ==
  ASSUME DmaType, NEW n \in Nat, NEW d \in Nat, Flowing(n, d), Reading(n, d), Clean',
         (\E size \in Sizes : Read(size)) \/ TakePage \/ LookAgain \/ ChooseRange \/ CopyFault
  PROVE  Flowing(n, d)' /\ Reading(n, d)' /\ UNCHANGED <<count, base, done>>
<1>0. rd \in ReadType
  BY DEF DmaType, ReaderType
<1>1. UNCHANGED <<mem, first, pos, ts_pos, eng, running, count, base, done, want, gap>>
  BY DEF Read, TakePage, LookAgain, ChooseRange, CopyFault, engine, ring, history
<1>2. Flowing(n, d)'
  BY <1>1, FlowKept
<1> SUFFICES Reading(n, d)'
  BY <1>1, <1>2
<1>i. Idle.at = "idle"
  BY DEF Idle
<1>3. ASSUME rd'.at \notin {"copy", "advance"}, rd.at # "advance" PROVE Reading(n, d)'
  BY <1>1, <1>3 DEF Reading
<1>4. ASSUME NEW size \in Sizes, Read(size) PROVE Reading(n, d)'
  <2>1. rd.at = "idle" /\ rd' = [Idle EXCEPT !.at = "look", !.remain = size, !.fresh = ~Resetting]
    BY <1>4 DEF Read
  <2>2. rd'.at = "look"
    BY <2>1 DEF Idle
  <2> QED
    BY <1>3, <2>1, <2>2
<1>5. CASE TakePage
  <2>1. /\ rd.at = "look" /\ raced' = (raced \/ ~Ready)
        /\ rd' = [rd EXCEPT !.at = "copy", !.page = ts_pos, !.polls = 0, !.from = 0, !.csize = -1]
    BY <1>5 DEF TakePage
  <2>2. Ready
    BY <2>1 DEF Clean
  <2>3. (d + 1) * Parts <= n
    BY <2>2, ReadyIsFull
  <2>4. rd'.at = "copy" /\ rd'.page = ts_pos /\ rd'.csize = -1
    BY <1>0, <2>1 DEF ReadType
  <2>5. ~gap /\ want = base + d * Parts + pos[ts_pos] + 1 + 0
    BY <2>1 DEF Reading
  <2>6. rd'.page = ts_pos' /\ ~(rd'.csize >= 0) /\ want' = base' + d * Parts + pos'[ts_pos'] + 1 + 0 /\ ~gap'
    BY <1>1, <2>4, <2>5
  <2> QED
    BY <2>3, <2>4, <2>6 DEF Reading
<1>6. CASE LookAgain
  <2>1. rd.at = "look" /\ rd' = IF rd.polls + 1 < MaxPolls THEN [rd EXCEPT !.polls = @ + 1] ELSE Idle
    BY <1>6 DEF LookAgain
  <2>2. rd'.at \in {"look", "idle"}
    BY <1>0, <1>i, <2>1 DEF ReadType
  <2>3. rd'.at \notin {"copy", "advance"} /\ rd.at # "advance"
    BY <2>1, <2>2
  <2> QED
    BY <1>3, <2>3, Zenon
<1>7. CASE ChooseRange
  <2>1. PICK c : /\ rd.at = "copy"
                 /\ rd' = [rd EXCEPT !.from = pos[rd.page], !.csize = c]
    BY <1>7 DEF ChooseRange
  <2>2. rd'.at = "copy" /\ rd'.page = rd.page /\ rd'.from = pos[rd.page]
    BY <1>0, <2>1 DEF ReadType
  <2>3. /\ rd.page = ts_pos /\ (d + 1) * Parts <= n /\ ~gap
        /\ want = base + d * Parts + pos[ts_pos] + 1 + 0
    BY <2>1 DEF Reading
  <2>4. rd'.page = ts_pos' /\ rd'.from = pos'[rd'.page] /\ want' = base' + d * Parts + pos'[ts_pos'] + 1 + 0 /\ ~gap'
    BY <1>1, <2>2, <2>3
  <2> QED
    BY <2>2, <2>3, <2>4 DEF Reading
<1>8. CASE CopyFault
  <2>1. rd.at = "copy" /\ rd' = Idle
    BY <1>8 DEF CopyFault
  <2>2. rd'.at \notin {"copy", "advance"} /\ rd.at # "advance"
    BY <1>i, <2>1
  <2> QED
    BY <1>3, <2>2, Zenon
<1> QED
  BY <1>4, <1>5, <1>6, <1>7, <1>8

\* What a copy delivers is next in turn.
LEMMA CopyFlows ==
  ASSUME DmaType, NEW n \in Nat, NEW d \in Nat, Flowing(n, d), Reading(n, d), CopyRange
  PROVE  Flowing(n, d)' /\ Reading(n, d)' /\ UNCHANGED <<count, base, done>>
<1>0. /\ rd \in ReadType /\ rd.at = "copy" /\ rd.csize >= 0 /\ base \in Nat
      /\ TsCount \in Nat \ {0} /\ Parts \in Nat \ {0}
      /\ d * Parts \in Nat /\ (d + 1) * Parts = d * Parts + Parts
  BY Constants, PageStarts DEF DmaType, ReaderType, EngineType, CopyRange
<1>1. /\ UNCHANGED <<mem, first, pos, ts_pos, eng, running, count, base, done>>
      /\ gap' = (gap \/ \E j \in 1 .. rd.csize : Got[j] # want + j - 1)
      /\ want' = (IF rd.csize = 0 THEN want ELSE Got[rd.csize] + 1)
      /\ rd' = [rd EXCEPT !.at = "advance", !.remain = @ - rd.csize]
  BY DEF CopyRange, Deliver, Got, engine, ring
<1>2. Flowing(n, d)'
  BY <1>1, FlowKept
<1>3. /\ rd.page = ts_pos /\ (d + 1) * Parts <= n /\ rd.from = pos[ts_pos] /\ ~gap
      /\ want = base + d * Parts + pos[ts_pos] + 1
  BY <1>0 DEF Reading, ReadType
<1>4. /\ ts_pos = d % TsCount /\ d \in d .. d + TsCount - 1
      /\ rd.csize \in 0 .. Parts /\ rd.from \in 0 .. Parts - 1
  BY <1>0 DEF Flowing, ReadType
<1>5. ASSUME NEW j \in 1 .. rd.csize PROVE Got[j] = want + j - 1
  <2>1. PICK b \in 0 .. Parts - 1 : b = rd.from + j - 1
    BY <1>0, GotType DEF DmaType
  <2>2. Got[j] = mem[ts_pos][b]
    BY <1>3, <2>1 DEF Got
  <2>3. d * Parts + b < n
    BY <1>0, <1>3, <2>1
  <2>4. mem[d % TsCount][b] = base + d * Parts + b + 1
    BY <1>4, <2>3 DEF Flowing
  <2>5. mem[ts_pos][b] = base + d * Parts + b + 1
    BY <1>4, <2>4
  <2> QED
    BY <1>0, <1>3, <1>4, <2>1, <2>2, <2>5
<1>6. gap' = FALSE
  BY <1>1, <1>3, <1>5
<1>7. want' = want + rd.csize
  <2>1. want \in Nat
    BY DEF DmaType, ReaderType
  <2>2. CASE rd.csize = 0
    BY <1>1, <2>1, <2>2
  <2>3. CASE rd.csize # 0
    <3>1. rd.csize \in 1 .. rd.csize
      BY <1>4, <2>3
    <3>2. Got[rd.csize] = want + rd.csize - 1
      BY <1>5, <3>1
    <3> QED
      BY <1>1, <1>4, <2>1, <2>3, <3>2
  <2> QED
    BY <2>2, <2>3
<1>8. rd'.at = "advance" /\ rd'.page = rd.page /\ rd'.from = rd.from /\ rd'.csize = rd.csize
  BY <1>0, <1>1 DEF ReadType
<1>9. Reading(n, d)'
  <2>1. rd'.page = ts_pos' /\ rd'.from = pos'[rd'.page]
    BY <1>1, <1>3, <1>8
  <2>2. want' = base' + d * Parts + pos'[ts_pos'] + 1 + rd'.csize
    BY <1>1, <1>3, <1>7, <1>8
  <2> QED
    BY <1>3, <1>6, <1>8, <2>1, <2>2 DEF Reading
<1> QED
  BY <1>1, <1>2, <1>9

\* The page that is used up goes to the end of the ring, free.
LEMMA ReleaseFlows ==
  ASSUME DmaType, NEW n \in Nat, NEW d \in Nat, n = count - base, d = done,
         Flowing(n, d), Reading(n, d), Advance, PageUsed(pos[rd.page] + rd.csize)
  PROVE  Flowing(n, d + 1)' /\ Reading(n, d + 1)' /\ done' = d + 1 /\ UNCHANGED <<count, base>>
<1>0. /\ rd \in ReadType /\ rd.at = "advance" /\ base \in Nat /\ count \in Nat
      /\ TsCount \in Nat \ {0} /\ TsCount >= 2 /\ Parts \in Nat \ {0} /\ MaxParts \in Nat
      /\ d * Parts \in Nat /\ (d + 1) * Parts = d * Parts + Parts
      /\ rd.csize >= 0 /\ rd.from + rd.csize <= Parts
      /\ first \in [Pages -> {"sync", "not", "zero"}] /\ pos \in [Pages -> 0 .. Parts - 1] /\ ts_pos \in Pages
  BY Constants, PageStarts DEF DmaType, ReaderType, RingType, EngineType, Advance
<1>1. /\ rd.page = ts_pos /\ (d + 1) * Parts <= n /\ rd.from = pos[ts_pos] /\ ~gap
      /\ want = base + d * Parts + pos[ts_pos] + 1 + rd.csize
  BY <1>0 DEF Reading
<1>2. /\ pos' = [pos EXCEPT ![ts_pos] = 0] /\ first' = [first EXCEPT ![ts_pos] = "not"]
      /\ ts_pos' = NextPage(ts_pos)
      /\ done' = (IF done < MaxParts THEN done + 1 ELSE done)
      /\ rd' = [rd EXCEPT !.at = "look", !.polls = 0]
      /\ UNCHANGED <<mem, eng, running, count, base, want, gap>>
  BY <1>1 DEF Advance, engine
<1>3. pos[ts_pos] + rd.csize = Parts
  <2>1. rd.csize \in Int /\ pos[ts_pos] \in Nat
    BY <1>0 DEF ReadType
  <2> QED
    BY <1>0, <1>1, <2>1 DEF PageUsed
<1>4. done' = d + 1
  <2>1. n <= MaxParts
    BY <1>0 DEF DmaType, EngineType
  <2>2. d < d * Parts + Parts
    <3>1. d * 1 <= d * Parts
      BY <1>0
    <3> QED
      BY <1>0, <3>1
  <2>3. d < MaxParts
    BY <1>0, <1>1, <2>1, <2>2
  <2> QED
    BY <1>2, <2>3
<1>5. /\ ts_pos = d % TsCount /\ n <= (d + TsCount) * Parts
      /\ ts_pos' = (d + 1) % TsCount /\ ts_pos' # ts_pos /\ (d + TsCount) % TsCount = ts_pos
  BY <1>2, PageRing DEF Flowing
<1>6. \A p \in Pages : pos'[p] = 0
  BY <1>0, <1>2 DEF Flowing
<1>7. ASSUME NEW k \in d + 1 .. (d + 1) + TsCount - 1, k # d + TsCount
      PROVE  k \in d .. d + TsCount - 1 /\ k % TsCount # ts_pos /\ k % TsCount \in Pages
  <2>1. k \in d .. d + TsCount - 1 /\ d \in d .. d + TsCount - 1 /\ k # d /\ k \in Nat
    BY <1>0, <1>7
  <2> QED
    BY <1>5, <2>1, PageRing, PageSlot
<1>8. ASSUME NEW k \in d + 1 .. (d + 1) + TsCount - 1, first'[k % TsCount] = "sync" PROVE k * Parts < n
  <2>1. CASE k = d + TsCount
    <3>1. first'[k % TsCount] = "not"
      BY <1>0, <1>2, <1>5, <2>1
    <3> QED
      BY <1>8, <3>1
  <2>2. CASE k # d + TsCount
    <3>1. k \in d .. d + TsCount - 1 /\ k % TsCount # ts_pos /\ k % TsCount \in Pages
      BY <1>7, <2>2
    <3>2. first[k % TsCount] = "sync"
      BY <1>0, <1>2, <1>8, <3>1
    <3> QED
      BY <3>1, <3>2 DEF Flowing
  <2> QED
    BY <2>1, <2>2
<1>9. ASSUME NEW k \in d + 1 .. (d + 1) + TsCount - 1, NEW b \in 0 .. Parts - 1, k * Parts + b < n
      PROVE  mem[k % TsCount][b] = base + k * Parts + b + 1
  <2>1. k # d + TsCount
    <3>1. SUFFICES ASSUME k = d + TsCount PROVE FALSE
      OBVIOUS
    <3>2. d + TsCount \in Nat
      BY <1>0
    <3>3. (d + TsCount) * Parts \in Nat
      BY <3>2, PageStarts
    <3> QED
      BY <1>0, <1>5, <1>9, <3>1, <3>3
  <2>2. k \in d .. d + TsCount - 1
    BY <1>7, <2>1
  <2> QED
    BY <1>9, <2>2 DEF Flowing
<1>10. n <= ((d + 1) + TsCount) * Parts
  <2>1. d + TsCount \in Nat /\ (d + 1) + TsCount \in Nat /\ d + TsCount < (d + 1) + TsCount
    BY <1>0
  <2>2. PICK x, y \in Nat : x = (d + TsCount) * Parts /\ y = ((d + 1) + TsCount) * Parts /\ x + Parts <= y
    BY <2>1, PageStarts
  <2> QED
    BY <1>0, <1>5, <2>2
<1>11. Flowing(n, d + 1)'
  <2>1. running' => eng' = n % Total
    BY <1>2 DEF Flowing
  <2> QED
    BY <1>1, <1>2, <1>5, <1>6, <1>8, <1>9, <1>10, <2>1 DEF Flowing
<1>12. Reading(n, d + 1)'
  <2>1. rd'.at = "look"
    BY <1>0, <1>2 DEF ReadType
  <2>2. pos'[ts_pos'] = 0
    <3>1. d + 1 \in Nat
      OBVIOUS
    <3>2. ts_pos' \in Pages
      BY <1>5, <3>1, PageSlot
    <3> QED
      BY <1>6, <3>2
  <2>3. want' = base' + (d + 1) * Parts + pos'[ts_pos'] + 1 + 0
    <3>1. rd.csize \in Int /\ pos[ts_pos] \in Nat
      BY <1>0 DEF ReadType
    <3> QED
      BY <1>0, <1>1, <1>2, <1>3, <2>2, <3>1
  <2> QED
    BY <1>1, <1>2, <2>1, <2>3 DEF Reading
<1> QED
  BY <1>2, <1>4, <1>11, <1>12

\* A page that is not used up: data_pos moves on.
LEMMA MoveFlows ==
  ASSUME DmaType, NEW n \in Nat, NEW d \in Nat, Flowing(n, d), Reading(n, d),
         Advance, ~PageUsed(pos[rd.page] + rd.csize)
  PROVE  Flowing(n, d)' /\ Reading(n, d)' /\ UNCHANGED <<count, base, done>>
<1>0. /\ rd \in ReadType /\ rd.at = "advance" /\ base \in Nat /\ rd.csize >= 0
      /\ pos \in [Pages -> 0 .. Parts - 1] /\ ts_pos \in Pages /\ Parts \in Nat \ {0}
      /\ d * Parts \in Nat
  BY Constants, PageStarts DEF DmaType, ReaderType, RingType, EngineType, Advance
<1>1. /\ rd.page = ts_pos /\ (d + 1) * Parts <= n /\ ~gap
      /\ want = base + d * Parts + pos[ts_pos] + 1 + rd.csize
  BY <1>0 DEF Reading
<1>2. /\ pos' = [pos EXCEPT ![ts_pos] = pos[ts_pos] + rd.csize]
      /\ rd' = IF rd.remain = 0 THEN Idle ELSE [rd EXCEPT !.at = "copy", !.csize = -1]
      /\ UNCHANGED <<mem, first, ts_pos, eng, running, count, base, done, want, gap>>
  BY <1>1 DEF Advance, engine
<1>3. \A p \in Pages : p # ts_pos => pos'[p] = pos[p]
  BY <1>0, <1>2
<1>4. pos'[ts_pos] = pos[ts_pos] + rd.csize
  BY <1>0, <1>2
<1>5. Flowing(n, d)'
  BY <1>2, <1>3 DEF Flowing
<1>6. /\ rd'.at \in {"idle", "copy"}
      /\ rd'.at = "copy" => rd'.page = ts_pos /\ rd'.csize = -1
  <2>1. CASE rd.remain = 0
    BY <1>2, <2>1 DEF Idle
  <2>2. CASE rd.remain # 0
    BY <1>0, <1>1, <1>2, <2>2 DEF ReadType
  <2> QED
    BY <2>1, <2>2
<1>7. want' = base' + d * Parts + pos'[ts_pos'] + 1 + 0
  <2>1. rd.csize \in Int /\ pos[ts_pos] \in Nat
    BY <1>0 DEF ReadType
  <2> QED
    BY <1>0, <1>1, <1>2, <1>4, <2>1
<1>8. Reading(n, d)'
  BY <1>1, <1>2, <1>6, <1>7 DEF Reading
<1> QED
  BY <1>2, <1>5, <1>8

LEMMA StreamNext ==
  ASSUME DmaType, ResetInv, StreamInv, [DmaNext]_dmaVars PROVE StreamInv'
<1>0. Ordered(todo) /\ raced \in BOOLEAN /\ lapped \in BOOLEAN
  BY DEF DmaType, CallType
<1> SUFFICES ASSUME Clean', ~MidNow'
             PROVE  \E n, d \in Nat : n = count' - base' /\ d = done' /\ Flowing(n, d)' /\ Reading(n, d)'
  BY Zenon DEF StreamInv
<1>1. CASE ResetPage \/ Rewind
  BY <1>0, <1>1, StepInReset DEF ResetPage, Rewind
<1>2. CASE StartEngine
  <2>1. Flowing(0, 0)' /\ Reading(0, 0)' /\ count' - base' = 0 /\ done' = 0
    BY <1>2, StartFlows
  <2>2. 0 \in Nat /\ 0 = count' - base' /\ 0 = done'
    BY <2>1
  <2> QED
    BY <2>1, <2>2, Zenon
<1>3. ASSUME Clean, ~MidNow
      PROVE  \E n, d \in Nat : n = count - base /\ d = done /\ Flowing(n, d) /\ Reading(n, d)
  BY <1>3, Zenon DEF StreamInv
<1>4. CASE EngineWrite
  <2>1. /\ lapped' = (lapped \/ (count - base) \div Parts >= done + TsCount)
        /\ count' = count + 1 /\ UNCHANGED <<todo, raced, hot, base, done>>
    BY <1>4 DEF EngineWrite
  <2>2. Clean /\ ~MidNow /\ ~lapped'
    BY <2>1 DEF Clean, MidNow
  <2>3. PICK n \in Nat, d \in Nat : n = count - base /\ d = done /\ Flowing(n, d) /\ Reading(n, d)
    BY <1>3, <2>2
  <2>4. Flowing(n + 1, d)' /\ Reading(n + 1, d)'
    BY <1>4, <2>2, <2>3, EngineFlows, Zenon
  <2>5. n + 1 \in Nat /\ n + 1 = count' - base' /\ d = done'
    BY <2>1, <2>3 DEF DmaType, EngineType
  <2> QED
    BY <2>4, <2>5, Zenon
<1>5. CASE \/ EngineHalt \/ Calls \/ HaltEngine \/ Stopped \/ Settle \/ SetLook \/ BuildChain \/ UNCHANGED dmaVars
  <2>1. /\ UNCHANGED <<mem, first, pos, ts_pos, eng, base, count, done, want, gap, rd, lapped, raced, hot>>
        /\ (running' => running)
    <3>1. CASE Calls
      BY <3>1, CallBegins DEF engine, ring
    <3>2. CASE EngineHalt \/ HaltEngine \/ Stopped \/ Settle \/ SetLook \/ BuildChain
      BY <3>2 DEF EngineHalt, HaltEngine, Stopped, Settle, SetLook, BuildChain, engine, ring, history
    <3>3. CASE UNCHANGED dmaVars
      BY <3>3 DEF dmaVars, engine, ring, history
    <3> QED
      BY <1>5, <3>1, <3>2, <3>3
  <2>2. ~MidNow
    <3>1. CASE Calls
      BY <3>1, CallBegins DEF MidNow
    <3>2. CASE HaltEngine \/ Stopped \/ Settle \/ SetLook \/ BuildChain
      BY <1>0, <3>2, StepInReset DEF HaltEngine, Stopped, Settle, SetLook, BuildChain
    <3>3. CASE EngineHalt \/ UNCHANGED dmaVars
      <4>1. todo' = todo
        BY <3>3 DEF EngineHalt, dmaVars
      <4> QED
        BY <4>1 DEF MidNow
    <3> QED
      BY <1>5, <3>1, <3>2, <3>3
  <2>3. Clean
    BY <2>1 DEF Clean
  <2>4. PICK n \in Nat, d \in Nat : n = count - base /\ d = done /\ Flowing(n, d) /\ Reading(n, d)
    BY <1>3, <2>2, <2>3
  <2>5. Flowing(n, d)'
    BY <2>1, <2>4, FlowKept
  <2>6. Reading(n, d)'
    BY <2>1, <2>4 DEF Reading
  <2> QED
    BY <2>1, <2>4, <2>5, <2>6
<1>6. CASE ReaderActs
  <2>1. /\ UNCHANGED <<todo, lapped, hot, base, count>>
        /\ raced => raced'
    BY <1>6, ReaderKeeps
  <2>2. Clean /\ ~MidNow
    BY <2>1 DEF Clean, MidNow
  <2>3. PICK n \in Nat, d \in Nat : n = count - base /\ d = done /\ Flowing(n, d) /\ Reading(n, d)
    BY <1>3, <2>2
  <2>4. CASE (\E size \in Sizes : Read(size)) \/ TakePage \/ LookAgain \/ ChooseRange \/ CopyFault
    <3>1. Flowing(n, d)' /\ Reading(n, d)' /\ UNCHANGED <<count, base, done>>
      BY <2>3, <2>4, LooksFlow
    <3> QED
      BY <2>3, <3>1
  <2>5. CASE CopyRange
    <3>1. Flowing(n, d)' /\ Reading(n, d)' /\ UNCHANGED <<count, base, done>>
      BY <2>3, <2>5, CopyFlows
    <3> QED
      BY <2>3, <3>1
  <2>6. CASE Advance /\ PageUsed(pos[rd.page] + rd.csize)
    <3>1. Flowing(n, d + 1)' /\ Reading(n, d + 1)' /\ done' = d + 1 /\ UNCHANGED <<count, base>>
      BY <2>3, <2>6, ReleaseFlows
    <3>2. d + 1 \in Nat /\ n = count' - base'
      BY <2>3, <3>1
    <3> QED
      BY <2>3, <3>1, <3>2, Zenon
  <2>7. CASE Advance /\ ~PageUsed(pos[rd.page] + rd.csize)
    <3>1. Flowing(n, d)' /\ Reading(n, d)' /\ UNCHANGED <<count, base, done>>
      BY <2>3, <2>7, MoveFlows
    <3> QED
      BY <2>3, <3>1
  <2> QED
    BY <1>6, <2>4, <2>5, <2>6, <2>7, Zenon DEF ReaderActs
<1> QED
  BY <1>1, <1>2, <1>4, <1>5, <1>6, NextActs

LEMMA DmaInvInit == DmaInit => DmaInv
<1> SUFFICES ASSUME DmaInit PROVE DmaInv
  OBVIOUS
<1>0. /\ TsCount \in Nat \ {0} /\ TsCount >= 2 /\ Parts \in Nat \ {0} /\ Total \in Nat \ {0} /\ 0 \in Pages
  BY Constants DEF Pages
<1>1. /\ eng = 0 /\ running = FALSE /\ ts_pos = 0 /\ base = 0 /\ count = 0 /\ done = 0 /\ want = 1 /\ gap = FALSE
      /\ stale = FALSE /\ todo = <<>> /\ rd.at = "idle"
      /\ \A p \in Pages : pos[p] = 0 /\ first[p] = "zero" /\ \A b \in 0 .. Parts - 1 : mem[p][b] = 0
  BY DEF DmaInit, Idle
<1>2. FreshInv
  BY <1>1 DEF FreshInv, ResetInv, OldInv, Fresh, MidNow
<1>3. 0 % TsCount = 0 /\ 0 * Parts = 0 /\ (0 + TsCount) * Parts \in Nat
  BY <1>0
<1>4. ASSUME NEW k \in 0 .. 0 + TsCount - 1
      PROVE  first[k % TsCount] # "sync" /\ \A b \in 0 .. Parts - 1 : ~(k * Parts + b < 0)
  <2>1. k \in Nat
    BY <1>0
  <2>2. k % TsCount \in Pages /\ k * Parts \in Nat
    BY <2>1, PageSlot, PageStarts
  <2> QED
    BY <1>0, <1>1, <2>2
<1>5. Flowing(0, 0)
  <2>1. 0 * Parts <= 0 /\ 0 <= (0 + TsCount) * Parts
    BY <1>3
  <2> QED
    BY <1>1, <1>3, <1>4, <2>1 DEF Flowing
<1>6. Reading(0, 0)
  <2>1. want = base + 0 * Parts + pos[ts_pos] + 1 + 0
    BY <1>0, <1>1, <1>3
  <2> QED
    BY <1>1, <2>1 DEF Reading
<1>7. 0 \in Nat /\ 0 = count - base /\ 0 = done
  BY <1>1
<1>8. \E n, d \in Nat : n = count - base /\ d = done /\ Flowing(n, d) /\ Reading(n, d)
  BY <1>5, <1>6, <1>7, Zenon
<1> QED
  BY <1>2, <1>8, TypeInit DEF DmaInv, StreamInv

(* What pt3_dma_copy hands out is the stream from START_REC on, each part  *)
(* once and in order, for any sizes of pages, descriptor pages and reads:  *)
(* pt3_dma_ready lets a page be taken only when the next one has begun,    *)
(* and the chain of pt3_dma_build_page_descriptor closes without a gap.    *)
(* The conditions are those of Contiguous.                                 *)
THEOREM StreamWhole == DmaSpec => []Contiguous
<1>1. DmaInv /\ [DmaNext]_dmaVars => DmaInv'
  <2>1. DmaType /\ FreshInv /\ [DmaNext]_dmaVars => FreshInv'
    BY ResetNext, OldNext, StaleNext DEF FreshInv
  <2> QED
    BY <2>1, TypeNext, StreamNext DEF DmaInv, FreshInv
<1>2. DmaInv => Contiguous
  <2> SUFFICES ASSUME DmaInv, Clean PROVE ~gap
    BY DEF Contiguous, Clean
  <2>1. CASE MidNow
    BY <2>1 DEF DmaInv, FreshInv, ResetInv, Empty, Clean
  <2>2. CASE ~MidNow
    BY <2>2 DEF DmaInv, StreamInv, Reading
  <2> QED
    BY <2>1, <2>2
<1> QED
  BY <1>1, <1>2, DmaInvInit, PTL DEF DmaSpec
=============================================================================
