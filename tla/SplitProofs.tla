----------------------------- MODULE SplitProofs ----------------------------
(***************************************************************************)
(* What the splitter of recpt1 lets through: for any services, PMTs,       *)
(* requests and blocks, whatever is lost and wherever blocks end.          *)
(***************************************************************************)
EXTENDS SplitReader, RingArithmetic, FiniteSetTheorems, SequenceTheorems, TLAPS

-----------------------------------------------------------------------------
(* The loops.  Each is a recursive function over the packets looked at; that *)
(* there is such a function is shown by the smallest number of packets for   *)
(* which there would be none.                                                *)

LEMMA SplitLoop ==
  ASSUME NEW s, NEW block, Len(block) \in Nat
  PROVE  \E pass : /\ pass = [i \in 0 .. Len(block) |->
                                IF i = 0 THEN [sp |-> s, out |-> {}]
                                ELSE SplitPacket(pass[i - 1], block[i])]
                   /\ split_ts(s, block) = pass[Len(block)]
<1> DEFINE first == [sp |-> s, out |-> {}]
           Runs(f, n) == f = [i \in 0 .. n |-> IF i = 0 THEN first ELSE SplitPacket(f[i - 1], block[i])]
           Bad == {n \in Nat : ~ \E f : Runs(f, n)}
           pass == CHOOSE f : Runs(f, Len(block))
<1>1. Bad = {}
  <2> SUFFICES ASSUME Bad # {} PROVE FALSE
    OBVIOUS
  <2>1. PICK m \in Bad : \A x \in Bad : m <= x
    <3> HIDE DEF Runs
    <3> QED BY Smallest
  <2>2. m # 0
    <3>1. Runs([i \in 0 .. 0 |-> first], 0)
      OBVIOUS
    <3> QED BY <3>1
  <2>3. PICK g : Runs(g, m - 1)
    <3> HIDE DEF Runs
    <3>1. m - 1 \in Nat /\ m - 1 \notin Bad
      BY <2>1, <2>2
    <3> QED BY <3>1
  <2>4. Runs([i \in 0 .. m |-> IF i = m THEN SplitPacket(g[m - 1], block[m]) ELSE g[i]], m)
    <3> HIDE DEF first
    <3> QED BY <2>2, <2>3
  <2> QED BY <2>4
<1>2. \E f : Runs(f, Len(block))
  <2> HIDE DEF Runs
  <2>1. Len(block) \notin Bad
    BY <1>1
  <2> QED BY <2>1
<1>3. split_ts(s, block) = pass[Len(block)]
  BY Zenon DEF split_ts
<1>4. Runs(pass, Len(block))
  <2> HIDE DEF Runs
  <2> QED BY <1>2, Zenon
<1> HIDE DEF pass
<1> QED BY <1>3, <1>4

LEMMA SelectLoop ==
  ASSUME NEW s, NEW block, NEW old, Len(block) \in Nat \ {0}
  PROVE  \E pass : /\ pass = [i \in 0 .. Len(block) - 1 |->
                                IF i = 0 THEN [sp |-> s, ok |-> FALSE, block |-> block]
                                ELSE SelectPacket(pass[i - 1], i, old)]
                   /\ ReadTs(s, block, old) = pass[Len(block) - 1]
<1> DEFINE first == [sp |-> s, ok |-> FALSE, block |-> block]
           Runs(f, n) == f = [i \in 0 .. n |-> IF i = 0 THEN first ELSE SelectPacket(f[i - 1], i, old)]
           Bad == {n \in Nat : ~ \E f : Runs(f, n)}
           pass == CHOOSE f : Runs(f, Len(block) - 1)
<1>1. Bad = {}
  <2> SUFFICES ASSUME Bad # {} PROVE FALSE
    OBVIOUS
  <2>1. PICK m \in Bad : \A x \in Bad : m <= x
    <3> HIDE DEF Runs
    <3> QED BY Smallest
  <2>2. m # 0
    <3>1. Runs([i \in 0 .. 0 |-> first], 0)
      OBVIOUS
    <3> QED BY <3>1
  <2>3. PICK g : Runs(g, m - 1)
    <3> HIDE DEF Runs
    <3>1. m - 1 \in Nat /\ m - 1 \notin Bad
      BY <2>1, <2>2
    <3> QED BY <3>1
  <2>4. Runs([i \in 0 .. m |-> IF i = m THEN SelectPacket(g[m - 1], m, old) ELSE g[i]], m)
    <3> HIDE DEF first
    <3> QED BY <2>2, <2>3
  <2> QED BY <2>4
<1>2. \E f : Runs(f, Len(block) - 1)
  <2> HIDE DEF Runs
  <2>1. Len(block) - 1 \in Nat
    OBVIOUS
  <2>2. Len(block) - 1 \notin Bad
    BY <1>1
  <2> QED BY <2>1, <2>2
<1>3. ReadTs(s, block, old) = pass[Len(block) - 1]
  BY Zenon DEF ReadTs
<1>4. Runs(pass, Len(block) - 1)
  <2> HIDE DEF Runs
  <2> QED BY <1>2, Zenon
<1> HIDE DEF pass
<1> QED BY <1>3, <1>4

(* The services of a PAT are its entries that do not name the NIT. *)
LEMMA ServicesAre ==
  ASSUME NEW Entries, NEW pat \in Seq(Entries)
  PROVE  /\ Services(pat) \in Seq(Entries)
         /\ \A e : e \in ToSet(Services(pat)) <=> e \in ToSet(pat) /\ e[2] # NitPid
<1> DEFINE next(l, i) == IF pat[i][2] = NitPid THEN l ELSE Append(l, pat[i])
           Runs(f, n) == f = [i \in 0 .. n |-> IF i = 0 THEN <<>> ELSE next(f[i - 1], i)]
           None == {n \in Nat : ~ \E f : Runs(f, n)}
           listed == CHOOSE f : Runs(f, Len(pat))
           Lists(n) == /\ listed[n] \in Seq(Entries)
                       /\ \A e : e \in ToSet(listed[n]) <=> \E j \in 1 .. n : e = pat[j] /\ e[2] # NitPid
           Bad == {n \in 0 .. Len(pat) : ~Lists(n)}
<1>1. None = {}
  <2> SUFFICES ASSUME None # {} PROVE FALSE
    OBVIOUS
  <2>1. PICK m \in None : \A x \in None : m <= x
    <3> HIDE DEF Runs
    <3> QED BY Smallest
  <2>2. m # 0
    <3>1. Runs([i \in 0 .. 0 |-> <<>>], 0)
      OBVIOUS
    <3> QED BY <3>1
  <2>3. PICK g : Runs(g, m - 1)
    <3> HIDE DEF Runs
    <3>1. m - 1 \in Nat /\ m - 1 \notin None
      BY <2>1, <2>2
    <3> QED BY <3>1
  <2>4. Runs([i \in 0 .. m |-> IF i = m THEN next(g[m - 1], m) ELSE g[i]], m)
    <3> HIDE DEF next
    <3> QED BY <2>2, <2>3
  <2> QED BY <2>4
<1>2. Len(pat) \in Nat /\ Services(pat) = listed[Len(pat)]
  BY Zenon, LenProperties DEF Services
<1>3. Runs(listed, Len(pat))
  <2>1. Len(pat) \notin None
    BY <1>1
  <2> HIDE DEF Runs
  <2>2. \E f : Runs(f, Len(pat))
    BY <1>2, <2>1
  <2> QED BY <2>2, Zenon
<1> HIDE DEF listed
<1>4. Bad = {}
  <2> SUFFICES ASSUME Bad # {} PROVE FALSE
    OBVIOUS
  <2>1. PICK m \in Bad : \A x \in Bad : m <= x
    <3>1. Bad \in SUBSET Nat
      OBVIOUS
    <3> HIDE DEF Bad
    <3> QED BY <3>1, Smallest
  <2>2. m # 0
    <3>1. listed[0] = <<>>
      BY <1>2, <1>3
    <3>2. Lists(0)
      BY <3>1 DEF ToSet
    <3> QED BY <3>2
  <2>3. m \in 1 .. Len(pat) /\ m - 1 \in 0 .. Len(pat) /\ pat[m] \in Entries
    BY <1>2, <2>2
  <2>4. Lists(m - 1)
    <3> HIDE DEF Lists
    <3>1. m - 1 \notin Bad
      <4> HIDE DEF Bad
      <4>1. m \in Nat /\ ~(m <= m - 1)
        BY <2>3
      <4> QED BY <2>1, <4>1
    <3> QED BY <2>3, <3>1
  <2>5. listed[m] = next(listed[m - 1], m)
    <3> HIDE DEF next
    <3> QED BY <1>2, <1>3, <2>3
  <2>6. Lists(m)
    <3>1. CASE pat[m][2] = NitPid
      BY <2>3, <2>4, <2>5, <3>1
    <3>2. CASE pat[m][2] # NitPid
      <4>1. listed[m] = Append(listed[m - 1], pat[m]) /\ listed[m - 1] \in Seq(Entries)
        BY <2>4, <2>5, <3>2
      <4>2. listed[m] \in Seq(Entries)
        BY <4>1, <2>3
      <4>3. \A e : e \in ToSet(listed[m]) <=> e \in ToSet(listed[m - 1]) \/ e = pat[m]
        <5> DEFINE l == listed[m - 1]
        <5>1. l \in Seq(Entries) /\ listed[m] = Append(l, pat[m])
          BY <4>1
        <5>2. /\ DOMAIN listed[m] = 1 .. Len(l) + 1 /\ DOMAIN l = 1 .. Len(l) /\ Len(l) \in Nat
              /\ \A i \in 1 .. Len(l) : listed[m][i] = l[i]
              /\ listed[m][Len(l) + 1] = pat[m]
          <6> HIDE DEF l, Lists
          <6> QED BY <5>1, <2>3
        <5> HIDE DEF l, Lists
        <5>3. \A i \in Nat : i \in 1 .. Len(l) + 1 <=> i \in 1 .. Len(l) \/ i = Len(l) + 1
          BY <5>2
        <5>4. ToSet(listed[m]) = ToSet(l) \cup {pat[m]}
          BY <5>2, <5>3 DEF ToSet
        <5> QED BY <5>4 DEF l
      <4> QED BY <4>2, <4>3, <2>3, <2>4, <3>2
    <3> QED BY <3>1, <3>2
  <2> QED BY <2>6
<1>5. Lists(Len(pat))
  <2> HIDE DEF Lists
  <2>1. Len(pat) \in 0 .. Len(pat) /\ Len(pat) \notin Bad
    BY <1>2, <1>4
  <2> QED BY <2>1
<1> QED BY <1>2, <1>5 DEF ToSet

-----------------------------------------------------------------------------
(* What is kept from one packet to the next.  s is the splitter, air what is *)
(* on the air: its PAT and the versions of the PMTs; ok says that all PMTs    *)
(* have been read once.                                                      *)

Fields == {"pids", "pmt_pids", "pat", "sid_list", "pmt_retain", "pmt_counter", "pmt_version",
           "section_remain", "packet_seq", "note"}
Notes == {"counted", "again", "rescanned", "read"}

Shape(s) ==
  /\ DOMAIN s = Fields /\ DOMAIN s.note = Notes
  /\ s.pids \in [AllPids -> Nat] /\ s.pmt_pids \in [AllPids -> Nat]
  /\ s.section_remain \in [PmtPids -> Nat] /\ s.pmt_version \in [PmtPids -> Nat]
  /\ s.note.read \in [PmtPids -> Nat] /\ s.note.counted \subseteq PmtPids
  /\ s.note.again \in BOOLEAN /\ s.note.rescanned \in BOOLEAN
  /\ s.pmt_counter \in Nat /\ s.pmt_retain \in Int

\* The first packet of a section that fits into two is read as a whole.
FirstPart(p, v) ==
  LET t == Table[p][v]
  IN {t.pcr} \cup t.ecm \cup {e[2] : e \in {x \in t.es[1] : x[1] # TypeD}}

SectionInv(s, air) ==
  /\ \A p \in PmtPids : s.section_remain[p] > 0 =>
       /\ p \in ChosenPmts(s) /\ s.pmt_version[p] \in 1 .. air.version[p]
       /\ LET size == Table[p][s.pmt_version[p]].size
          IN IF size < 256 THEN size > 183 /\ s.section_remain[p] = size - 183
             ELSE s.section_remain[p] >= 256
  /\ \A p \in s.note.counted :
       /\ p \in ChosenPmts(s)
       /\ s.note.read[p] \in 1 .. air.version[p] /\ Table[p][s.note.read[p]].size < 256
       /\ ~s.note.again => s.section_remain[p] = 0

\* What passes at least ...
Least(s, air) == ~s.note.again =>
  /\ ChosenPmts(s) \subseteq Passing(s)
  /\ ~s.note.rescanned => Epg(s, air) \subseteq Passing(s)
  /\ \A p \in s.note.counted : Wanted(p, s.note.read[p]) \subseteq Passing(s)
  /\ \A p \in PmtPids : s.section_remain[p] > 0 /\ Table[p][s.pmt_version[p]].size < 256 =>
       FirstPart(p, s.pmt_version[p]) \subseteq Passing(s)

\* ... and at most, in a round in which no PMT has begun again ...
Most(s, air) == ~s.note.again => \A q \in Passing(s) :
  \/ q \in ChosenPmts(s)
  \/ ~s.note.rescanned /\ q \in Epg(s, air)
  \/ \E p \in s.note.counted : q \in Wanted(p, s.note.read[p])
  \/ \E p \in PmtPids : s.section_remain[p] > 0 /\ q \in Wanted(p, s.pmt_version[p])

\* ... and in any.
AtMost(s, air) == Passing(s) \subseteq ChosenPmts(s) \cup Epg(s, air) \cup Named(s, air)

\* What AnalyzePmt keeps, whoever counts the PMTs.
ReadInv(s, air) ==
  /\ Shape(s) /\ SectionInv(s, air) /\ Least(s, air) /\ Most(s, air) /\ AtMost(s, air)
  /\ \A q \in AllPids : s.pmt_pids[q] # 0 => q \in PmtPids

AirOK(air) == /\ DOMAIN air = {"pat", "version", "part", "cc"} /\ air.pat \in Pats
              /\ air.version \in [PmtPids -> Nat]
              /\ \A p \in PmtPids : air.version[p] \in DOMAIN Table[p]

\* A packet of version v of a PMT, the k-th of its section.
PmtOf(pid, v, k, c) ==
  LET t == Table[pid][v]
  IN [pid |-> pid, start |-> k = 1, cc |-> c, version |-> v,
      size |-> t.size, pcr |-> t.pcr, ecm |-> t.ecm, es |-> t.es[k]]

FirstBytes(size) == IF size % 256 > 183 THEN 183 ELSE size % 256
NextBytes(left) == IF left % 256 > 184 THEN 184 ELSE left % 256

\* What ReadPart makes of from when it marks some PIDs and leaves so many
\* bytes of the section.
Took(from, r, pid, again, marked, mark, left) ==
  /\ Shape(r.sp)
  /\ r.complete = (left = 0)
  /\ r.sp.pids = Marked(from.pids, marked, mark)
  /\ r.sp.section_remain = [from.section_remain EXCEPT ![pid] = left]
  /\ r.sp.pmt_version = from.pmt_version /\ r.sp.pmt_pids = from.pmt_pids
  /\ r.sp.pat = from.pat /\ r.sp.sid_list = from.sid_list
  /\ r.sp.pmt_retain = from.pmt_retain /\ r.sp.pmt_counter = from.pmt_counter
  /\ r.sp.note.rescanned = from.note.rescanned
  /\ r.sp.note.again = (from.note.again \/ again)
  /\ r.sp.note.counted = IF left = 0 THEN from.note.counted \cup {pid} ELSE from.note.counted
  /\ r.sp.note.read = IF left = 0 THEN [from.note.read EXCEPT ![pid] = from.pmt_version[pid]]
                      ELSE from.note.read

LEMMA SectionType ==
  ASSUME NEW pid \in PmtPids, NEW v \in DOMAIN Table[pid]
  PROVE  /\ Table[pid][v] \in Sections
         /\ v \in Nat \ {0} /\ DOMAIN Table[pid] = 1 .. Len(Table[pid]) /\ Len(Table[pid]) \in Nat
<1>1. Table[pid] \in Seq(Sections)
  BY ReaderAssumption
<1> QED BY <1>1

LEMMA PartTakes ==
  ASSUME NEW s, NEW from, Shape(from), NEW p, p.pid \in PmtPids, NEW mark \in Nat,
         BegunAgain(s, p) \in BOOLEAN,
         Nall(from, p) \in Nat, Nall(from, p) <= from.section_remain[p.pid]
  PROVE  LET n == Nall(from, p)
         IN Took(from, ReadPart(s, from, p, mark), p.pid, BegunAgain(s, p), StreamsIn(p, n), mark,
                 from.section_remain[p.pid] - n)
<1> DEFINE n == Nall(from, p)
           left == from.section_remain[p.pid] - n
           done == [from EXCEPT !.packet_seq[p.pid] = p.cc, !.section_remain[p.pid] = @ - n,
                                !.pids = Marked(@, StreamsIn(p, n), mark)]
           complete == done.section_remain[p.pid] = 0
           final == [done EXCEPT !.note.again = @ \/ BegunAgain(s, p),
                                 !.note.counted = IF complete THEN @ \cup {p.pid} ELSE @,
                                 !.note.read[p.pid] = IF complete THEN done.pmt_version[p.pid] ELSE @]
           r == ReadPart(s, from, p, mark)
<1>1. r = [sp |-> final, complete |-> complete]
  BY Zenon DEF ReadPart
<1> HIDE DEF r, n
<1>0. n \in Nat /\ n <= from.section_remain[p.pid]
  BY DEF n
<1>2. /\ DOMAIN done = Fields /\ done.note = from.note
      /\ done.pids = Marked(from.pids, StreamsIn(p, n), mark)
      /\ done.section_remain = [from.section_remain EXCEPT ![p.pid] = left]
      /\ done.pmt_version = from.pmt_version
      /\ done.pmt_pids = from.pmt_pids /\ done.pat = from.pat /\ done.sid_list = from.sid_list
      /\ done.pmt_retain = from.pmt_retain /\ done.pmt_counter = from.pmt_counter
  BY DEF Fields, Shape
<1>3. left \in Nat
  BY <1>0 DEF Shape
<1> HIDE DEF done, left
<1>4. complete = (left = 0)
  BY <1>2 DEF Shape
<1> HIDE DEF complete
<1>5. /\ DOMAIN final = Fields /\ DOMAIN final.note = Notes
      /\ final.pids = done.pids /\ final.section_remain = done.section_remain
      /\ final.pmt_version = from.pmt_version
      /\ final.pmt_pids = from.pmt_pids /\ final.pat = from.pat /\ final.sid_list = from.sid_list
      /\ final.pmt_retain = from.pmt_retain /\ final.pmt_counter = from.pmt_counter
      /\ final.note.rescanned = from.note.rescanned
      /\ final.note.counted = IF complete THEN from.note.counted \cup {p.pid} ELSE from.note.counted
      /\ final.note.read = [from.note.read EXCEPT ![p.pid] = IF complete THEN from.pmt_version[p.pid] ELSE @]
  BY <1>2 DEF Fields, Notes, Shape
<1>6. final.note.again = (from.note.again \/ BegunAgain(s, p))
  BY <1>2 DEF Fields, Notes, Shape
<1> HIDE DEF final
<1>7. final.note.read = IF left = 0 THEN [from.note.read EXCEPT ![p.pid] = from.pmt_version[p.pid]]
                        ELSE from.note.read
  BY <1>4, <1>5 DEF Shape
<1>8. done.pids \in [AllPids -> Nat]
  BY <1>2 DEF Marked, Shape
<1>9. Shape(final)
  <2>1. /\ final.section_remain \in [PmtPids -> Nat] /\ final.pmt_version \in [PmtPids -> Nat]
        /\ final.note.read \in [PmtPids -> Nat] /\ final.note.counted \subseteq PmtPids
    BY <1>2, <1>3, <1>4, <1>5, <1>7 DEF Shape
  <2>2. final.note.again \in BOOLEAN /\ final.note.rescanned \in BOOLEAN
    BY <1>5, <1>6, Zenon DEF Shape
  <2> QED BY <1>5, <1>8, <2>1, <2>2 DEF Shape
<1>10. r.sp = final /\ r.complete = (left = 0)
  BY <1>1, <1>4
<1>11. Took(from, r, p.pid, BegunAgain(s, p), StreamsIn(p, n), mark, left)
  BY <1>2, <1>4, <1>5, <1>6, <1>7, <1>9, <1>10 DEF Took
<1> QED BY <1>11 DEF left, r, n

\* The low byte of a number, which is what the one-byte counters of the reader hold.
LEMMA LowByte ==
  ASSUME NEW size \in Nat
  PROVE  /\ size % 256 \in Nat /\ size % 256 <= size /\ size % 256 < 256
         /\ size < 256 => size % 256 = size
         /\ size >= 256 => size - (size % 256) >= 256
<1>1. size % 256 \in Nat /\ size % 256 < 256
  BY SMTT(60)
<1>2. size \div 256 \in Nat /\ size = 256 * (size \div 256) + (size % 256)
  BY SMTT(60)
<1>3. PICK b \in Nat, q \in Nat : b = size % 256 /\ b < 256 /\ size = 256 * q + b
  BY <1>1, <1>2
<1>4. b <= size /\ (size < 256 => b = size) /\ (size >= 256 => size - b >= 256)
  <2>1. CASE q = 0
    BY <1>3, <2>1
  <2>2. CASE q >= 1
    BY <1>3, <2>2
  <2> QED BY <2>1, <2>2
<1> QED BY <1>1, <1>3, <1>4

\* The numbers of bytes: a section of at most 183 is over with its first packet,
\* one of less than 256 with the next, and a longer one never.
LEMMA Bytes ==
  ASSUME NEW size \in Nat \ {0}
  PROVE  LET n == FirstBytes(size)
         IN /\ n \in Nat /\ n <= size
            /\ size <= 183 => n = size
            /\ size > 183 /\ size < 256 => n = 183
            /\ size >= 256 => size - n >= 256
<1>1. PICK b : /\ b = size % 256 /\ b \in Nat /\ b <= size
               /\ size < 256 => b = size
               /\ size >= 256 => size - b >= 256
  BY LowByte
<1>2. FirstBytes(size) = IF b > 183 THEN 183 ELSE b
  BY <1>1, Zenon DEF FirstBytes
<1> QED BY <1>1, <1>2

LEMMA BytesLeft ==
  ASSUME NEW left \in Nat \ {0}
  PROVE  LET n == NextBytes(left)
         IN /\ n \in Nat /\ n <= left
            /\ left <= 72 => n = left
            /\ left >= 256 => left - n >= 256
<1>1. PICK b : /\ b = left % 256 /\ b \in Nat /\ b <= left
               /\ left < 256 => b = left
               /\ left >= 256 => left - b >= 256
  BY LowByte
<1>2. NextBytes(left) = IF b > 184 THEN 184 ELSE b
  BY <1>1, Zenon DEF NextBytes
<1> QED BY <1>1, <1>2

LEMMA StartTakes ==
  ASSUME NEW s, Shape(s), NEW pid \in PmtPids, NEW v \in DOMAIN Table[pid], NEW c, NEW mark \in Nat
  PROVE  LET p == PmtOf(pid, v, 1, c)
             n == FirstBytes(p.size)
             from == Begin(s, p, mark)
         IN Took(from, AnalyzePmt(s, p, mark), pid, BegunAgain(s, p), StreamsIn(p, n), mark, p.size - n)
<1> DEFINE t == Table[pid][v]
           p == PmtOf(pid, v, 1, c)
           n == FirstBytes(t.size)
           from == Begin(s, p, mark)
<1>1. /\ p.pid = pid /\ p.start = TRUE /\ p.version = v /\ p.size = t.size
      /\ p.pcr = t.pcr /\ p.ecm = t.ecm
  BY DEF PmtOf
<1>2. t.size \in Nat \ {0} /\ n \in Nat /\ n <= t.size /\ t.size - n \in Nat /\ v \in Nat
  <2>1. t \in Sections /\ v \in Nat
    BY SectionType
  <2>2. t.size \in Nat \ {0}
    BY <2>1 DEF Sections
  <2> HIDE DEF t
  <2>3. FirstBytes(t.size) \in Nat /\ FirstBytes(t.size) <= t.size
    BY <2>2, Bytes
  <2> HIDE DEF n
  <2> QED BY <2>1, <2>2, <2>3 DEF n
<1>3. AnalyzePmt(s, p, mark) = ReadPart(s, from, p, mark)
  BY <1>1, Zenon DEF AnalyzePmt
<1> HIDE DEF p, t
<1>4. /\ DOMAIN from = Fields /\ from.note = s.note
      /\ from.pids = Marked(s.pids, {p.pcr} \cup p.ecm, mark)
      /\ from.section_remain = [s.section_remain EXCEPT ![pid] = p.size]
      /\ from.pmt_version = [s.pmt_version EXCEPT ![pid] = v]
      /\ from.pmt_pids = s.pmt_pids /\ from.pat = s.pat /\ from.sid_list = s.sid_list
      /\ from.pmt_retain = s.pmt_retain /\ from.pmt_counter = s.pmt_counter
  BY <1>1 DEF Begin, Shape, Fields
<1> HIDE DEF from
<1>5. Shape(from)
  <2>1. from.pids \in [AllPids -> Nat]
    BY <1>4 DEF Marked, Shape
  <2>2. from.section_remain \in [PmtPids -> Nat] /\ from.pmt_version \in [PmtPids -> Nat]
    <3>1. t.size \in Nat /\ v \in Nat
      BY <1>2
    <3> QED BY <1>1, <1>4, <3>1 DEF Shape
  <2> QED BY <1>4, <2>1, <2>2 DEF Shape
<1>6. Nall(from, p) = n /\ from.section_remain[pid] = p.size
  BY <1>1, <1>2, <1>4 DEF Nall, FirstBytes, Shape
<1>7. BegunAgain(s, p) \in BOOLEAN
  BY <1>1 DEF BegunAgain
<1> HIDE DEF n
<1>8. Took(from, ReadPart(s, from, p, mark), pid, BegunAgain(s, p), StreamsIn(p, n), mark, p.size - n)
  BY <1>1, <1>2, <1>5, <1>6, <1>7, PartTakes
<1> QED BY <1>1, <1>3, <1>8 DEF p, from, n

LEMMA NextTakes ==
  ASSUME NEW s, Shape(s), NEW pid \in PmtPids, NEW v \in DOMAIN Table[pid],
         NEW k, k # 1, NEW c, NEW mark \in Nat, ~Broken(s, PmtOf(pid, v, k, c))
  PROVE  LET p == PmtOf(pid, v, k, c)
             n == NextBytes(s.section_remain[pid])
         IN Took(s, AnalyzePmt(s, p, mark), pid, BegunAgain(s, p), StreamsIn(p, n), mark,
                 s.section_remain[pid] - n)
<1> DEFINE p == PmtOf(pid, v, k, c)
           n == NextBytes(s.section_remain[pid])
<1>1. p.pid = pid /\ p.start = FALSE /\ ~Broken(s, p)
  BY DEF PmtOf
<1>2. AnalyzePmt(s, p, mark) = ReadPart(s, s, p, mark)
  BY <1>1, Zenon DEF AnalyzePmt
<1> HIDE DEF p
<1>3. Nall(s, p) = n /\ n \in Nat /\ n <= s.section_remain[pid]
  <2>1. s.section_remain[pid] \in Nat
    BY DEF Shape
  <2>2. PICK b : b = s.section_remain[pid] % 256 /\ b \in Nat /\ b <= s.section_remain[pid]
    BY <2>1, LowByte
  <2>3. Nall(s, p) = n /\ n = IF b > 184 THEN 184 ELSE b
    BY <1>1, <2>2, Zenon DEF Nall, NextBytes
  <2> HIDE DEF n
  <2> QED BY <2>1, <2>2, <2>3
<1>4. BegunAgain(s, p) \in BOOLEAN
  BY <1>1 DEF BegunAgain
<1> HIDE DEF n
<1>5. Took(s, ReadPart(s, s, p, mark), pid, BegunAgain(s, p), StreamsIn(p, n), mark, s.section_remain[pid] - n)
  BY <1>1, <1>3, <1>4, PartTakes
<1> QED BY <1>2, <1>5 DEF p, n

LEMMA MarkedPass ==
  ASSUME NEW s, NEW r, s.pids \in [AllPids -> Nat], NEW marked \in SUBSET AllPids, NEW mark \in Nat \ {0},
         r.pids = Marked(s.pids, marked, mark)
  PROVE  /\ Passing(r) = Passing(s) \cup marked
         /\ \A q \in AllPids : r.pids[q] \in {s.pids[q], mark}
BY DEF Passing, Marked

LEMMA WantedType ==
  ASSUME NEW pid \in PmtPids, NEW v \in DOMAIN Table[pid]
  PROVE  Wanted(pid, v) \subseteq AllPids
BY SectionType DEF Wanted, Sections

(* A packet of the chosen PMT pid leaves so many bytes of the section, which *)
(* is of version w.                                                         *)
Reads(s, r, air, pid, w, left) ==
  LET v == air.version[pid]
      size == Table[pid][w].size
  IN /\ Shape(r) /\ left \in Nat /\ w \in 1 .. v
     /\ r.section_remain = [s.section_remain EXCEPT ![pid] = left]
     /\ r.pmt_version = [s.pmt_version EXCEPT ![pid] = w]
     /\ r.pmt_pids = s.pmt_pids /\ r.pat = s.pat /\ r.sid_list = s.sid_list
     /\ r.note.rescanned = s.note.rescanned
     /\ r.note.counted = IF left = 0 THEN s.note.counted \cup {pid} ELSE s.note.counted
     /\ r.note.read = IF left = 0 THEN [s.note.read EXCEPT ![pid] = w] ELSE s.note.read
     /\ left = 0 => size < 256
     /\ left > 0 => IF size < 256 THEN size > 183 /\ left = size - 183 ELSE left >= 256
     /\ Passing(s) \subseteq Passing(r) /\ Passing(r) \subseteq Passing(s) \cup Wanted(pid, v)
     /\ ~r.note.again =>
          /\ ~s.note.again /\ pid \notin s.note.counted /\ w = v
          /\ s.section_remain[pid] > 0 => s.pmt_version[pid] = v
          /\ left = 0 => Wanted(pid, v) \subseteq Passing(r)
          /\ left > 0 /\ Table[pid][v].size < 256 => FirstPart(pid, v) \subseteq Passing(r)

LEMMA PartKeeps ==
  ASSUME NEW s, NEW r, NEW air, AirOK(air), ReadInv(s, air), NEW pid \in ChosenPmts(s),
         NEW w, NEW left, Reads(s, r, air, pid, w, left)
  PROVE  ReadInv(r, air)
<1> DEFINE v == air.version[pid]
<1> USE DEF Reads
<1>0. /\ pid \in PmtPids /\ ChosenPmts(r) = ChosenPmts(s) /\ v \in Nat /\ w \in Nat
      /\ Epg(r, air) = Epg(s, air) /\ Named(r, air) = Named(s, air)
  BY DEF ChosenPmts, Epg, EpgAsked, Looked, Named, AirOK
<1>1. /\ r.section_remain[pid] = left /\ r.pmt_version[pid] = w /\ pid \in DOMAIN s.note.read
      /\ \A p \in PmtPids : p # pid => /\ r.section_remain[p] = s.section_remain[p]
                                       /\ r.pmt_version[p] = s.pmt_version[p]
      /\ \A p \in PmtPids : p # pid => r.note.read[p] = s.note.read[p]
      /\ left = 0 => r.note.read[pid] = w
      /\ left > 0 => r.note.read[pid] = s.note.read[pid]
      /\ s.note.counted \subseteq PmtPids
  BY <1>0 DEF ReadInv, Shape
<1>2. \A p : p \in r.note.counted <=> p \in s.note.counted \/ (p = pid /\ left = 0)
  OBVIOUS
<1>3. SectionInv(r, air)
  <2>1. ASSUME NEW p \in PmtPids, r.section_remain[p] > 0
        PROVE  /\ p \in ChosenPmts(r) /\ r.pmt_version[p] \in 1 .. air.version[p]
               /\ LET size == Table[p][r.pmt_version[p]].size
                  IN IF size < 256 THEN size > 183 /\ r.section_remain[p] = size - 183
                     ELSE r.section_remain[p] >= 256
    <3>1. CASE p = pid
      BY <1>0, <1>1, <2>1, <3>1
    <3>2. CASE p # pid
      BY <1>0, <1>1, <2>1, <3>2 DEF ReadInv, SectionInv
    <3> QED BY <3>1, <3>2
  <2>2. ASSUME NEW p \in r.note.counted
        PROVE  /\ p \in ChosenPmts(r)
               /\ r.note.read[p] \in 1 .. air.version[p] /\ Table[p][r.note.read[p]].size < 256
               /\ ~r.note.again => r.section_remain[p] = 0
    <3>0. p \in PmtPids
      BY <1>0, <1>1, <1>2, <2>2
    <3>1. CASE p = pid /\ left = 0
      BY <1>0, <1>1, <3>1
    <3>2. CASE p = pid /\ left # 0
      <4>1. p \in s.note.counted
        BY <1>2, <2>2, <3>2
      <4> QED BY <1>0, <1>1, <3>2, <4>1 DEF ReadInv, SectionInv
    <3>3. CASE p # pid
      <4>1. p \in s.note.counted
        BY <1>2, <2>2, <3>3
      <4> QED BY <1>0, <1>1, <3>0, <3>3, <4>1 DEF ReadInv, SectionInv
    <3> QED BY <3>1, <3>2, <3>3
  <2> QED BY <2>1, <2>2 DEF SectionInv
<1>4. Least(r, air)
  <2> SUFFICES ASSUME ~r.note.again
               PROVE  /\ ChosenPmts(r) \subseteq Passing(r)
                      /\ ~r.note.rescanned => Epg(r, air) \subseteq Passing(r)
                      /\ \A p \in r.note.counted : Wanted(p, r.note.read[p]) \subseteq Passing(r)
                      /\ \A p \in PmtPids :
                           r.section_remain[p] > 0 /\ Table[p][r.pmt_version[p]].size < 256 =>
                             FirstPart(p, r.pmt_version[p]) \subseteq Passing(r)
    BY DEF Least
  <2>0. ~s.note.again /\ pid \notin s.note.counted /\ w = v
    OBVIOUS
  <2>1. /\ ChosenPmts(r) \subseteq Passing(r)
        /\ ~r.note.rescanned => Epg(r, air) \subseteq Passing(r)
    BY <1>0, <2>0 DEF ReadInv, Least
  <2>2. ASSUME NEW p \in r.note.counted PROVE Wanted(p, r.note.read[p]) \subseteq Passing(r)
    <3>1. CASE p = pid
      BY <1>1, <1>2, <2>0, <3>1
    <3>2. CASE p # pid
      BY <1>1, <1>2, <2>0, <3>2 DEF ReadInv, Least
    <3> QED BY <3>1, <3>2
  <2>3. ASSUME NEW p \in PmtPids, r.section_remain[p] > 0, Table[p][r.pmt_version[p]].size < 256
        PROVE  FirstPart(p, r.pmt_version[p]) \subseteq Passing(r)
    <3>1. CASE p = pid
      BY <1>1, <2>0, <2>3, <3>1
    <3>2. CASE p # pid
      BY <1>1, <2>0, <2>3, <3>2 DEF ReadInv, Least
    <3> QED BY <3>1, <3>2
  <2> QED BY <2>1, <2>2, <2>3
<1>5. Most(r, air)
  <2> SUFFICES ASSUME ~r.note.again, NEW q \in Passing(r)
               PROVE  \/ q \in ChosenPmts(r)
                      \/ ~r.note.rescanned /\ q \in Epg(r, air)
                      \/ \E p \in r.note.counted : q \in Wanted(p, r.note.read[p])
                      \/ \E p \in PmtPids : r.section_remain[p] > 0 /\ q \in Wanted(p, r.pmt_version[p])
    BY DEF Most
  <2>0. ~s.note.again /\ pid \notin s.note.counted /\ w = v
    OBVIOUS
  <2>1. CASE q \in Wanted(pid, v)
    BY <1>0, <1>1, <1>2, <2>0, <2>1
  <2>2. CASE q \in Passing(s) /\ q \notin Wanted(pid, v)
    <3>1. CASE q \in ChosenPmts(s) \/ (~s.note.rescanned /\ q \in Epg(s, air))
      BY <1>0, <3>1
    <3>2. CASE \E p \in s.note.counted : q \in Wanted(p, s.note.read[p])
      BY <1>1, <1>2, <2>0, <3>2
    <3>3. CASE \E p \in PmtPids : s.section_remain[p] > 0 /\ q \in Wanted(p, s.pmt_version[p])
      BY <1>1, <2>0, <2>2, <3>3
    <3> QED BY <2>0, <2>2, <3>1, <3>2, <3>3 DEF ReadInv, Most
  <2> QED BY <2>1, <2>2
<1>6. AtMost(r, air)
  <2>1. v \in 1 .. air.version[pid]
    BY <1>0
  <2>2. Wanted(pid, v) \subseteq Named(r, air)
    BY <1>0, <2>1 DEF Named
  <2> QED BY <1>0, <2>2 DEF ReadInv, AtMost
<1> QED BY <1>3, <1>4, <1>5, <1>6 DEF ReadInv
\* A packet that names streams, in terms of what the section wants.
\* What a packet of a PMT and its first n bytes name.
Names(p, n, pid, v, k) ==
  /\ StreamsIn(p, n) \subseteq Wanted(pid, v)
  /\ {p.pcr} \cup p.ecm \subseteq Wanted(pid, v)
  /\ n = Carried(Table[pid][v].size, k) =>
       StreamsIn(p, n) = {e[2] : e \in {x \in Table[pid][v].es[k] : x[1] # TypeD}}

LEMMA StreamsOf ==
  ASSUME NEW pid \in PmtPids, NEW v \in DOMAIN Table[pid], NEW k \in DOMAIN Table[pid][v].es, NEW c, NEW n
  PROVE  Names(PmtOf(pid, v, k, c), n, pid, v, k)
<1> DEFINE t == Table[pid][v]
           p == PmtOf(pid, v, k, c)
<1>1. \A e \in t.es[k] : e[3] <= Carried(t.size, k)
  BY ReaderAssumption
<1>2. p.es = t.es[k] /\ p.pcr = t.pcr /\ p.ecm = t.ecm
  BY DEF PmtOf
<1> HIDE DEF p
<1>3. Names(p, n, pid, v, k)
  BY <1>1, <1>2 DEF Names, StreamsIn, Wanted
<1> QED BY <1>3 DEF p

\* Where a section ends.
LEMMA Parts ==
  ASSUME NEW pid \in PmtPids, NEW v \in DOMAIN Table[pid]
  PROVE  LET t == Table[pid][v]
         IN /\ t.size \in Nat \ {0} /\ Len(t.es) = 1 + (t.size \div 184) /\ DOMAIN t.es = 1 .. Len(t.es)
            /\ Len(t.es) \in Nat /\ 1 \in DOMAIN t.es
            /\ FirstPart(pid, v) \subseteq Wanted(pid, v)
            /\ t.size <= 183 => /\ Wanted(pid, v) = FirstPart(pid, v)
                                /\ Carried(t.size, 1) = t.size
            /\ t.size > 183 => Carried(t.size, 1) = 183
            /\ t.size > 183 /\ t.size < 256 =>
                 /\ DOMAIN t.es = {1, 2} /\ Carried(t.size, 2) = t.size - 183
                 /\ Wanted(pid, v) = FirstPart(pid, v) \cup {e[2] : e \in {x \in t.es[2] : x[1] # TypeD}}
<1> DEFINE t == Table[pid][v]
<1>1. t \in Sections /\ Len(t.es) = 1 + (t.size \div 184)
  BY SectionType, ReaderAssumption
<1>2. t.size \in Nat \ {0} /\ t.es \in Seq(SUBSET (Nat \X AllPids \X Nat))
  BY <1>1 DEF Sections
<1>3. DOMAIN t.es = 1 .. Len(t.es) /\ Len(t.es) \in Nat
  BY <1>2
<1>4. 1 \in DOMAIN t.es
  BY <1>1, <1>2, <1>3
<1>5. FirstPart(pid, v) \subseteq Wanted(pid, v)
  BY <1>4 DEF FirstPart, Wanted
<1>6. ASSUME t.size <= 183 PROVE Wanted(pid, v) = FirstPart(pid, v) /\ Carried(t.size, 1) = t.size
  <2>1. DOMAIN t.es = {1}
    BY <1>1, <1>2, <1>3, <1>6, Bytes
  <2>2. Carried(t.size, 1) = t.size
    BY <1>2, <1>6 DEF Carried
  <2> QED BY <2>1, <2>2 DEF FirstPart, Wanted
<1>7. ASSUME t.size > 183 PROVE Carried(t.size, 1) = 183
  BY <1>2, <1>7 DEF Carried
<1>8. ASSUME t.size > 183, t.size < 256
      PROVE  /\ DOMAIN t.es = {1, 2} /\ Carried(t.size, 2) = t.size - 183
             /\ Wanted(pid, v) = FirstPart(pid, v) \cup {e[2] : e \in {x \in t.es[2] : x[1] # TypeD}}
  <2>1. DOMAIN t.es = {1, 2}
    BY <1>1, <1>2, <1>3, <1>8, Bytes
  <2>2. Carried(t.size, 2) = t.size - 183
    BY <1>2, <1>8 DEF Carried
  <2> QED BY <2>1, <2>2 DEF FirstPart, Wanted
<1> QED BY <1>1, <1>2, <1>3, <1>4, <1>5, <1>6, <1>7, <1>8

\* What a packet of pid leaves as it was.
Kept(s, r, air, pid, mark) ==
  /\ ReadInv(r.sp, air) /\ r.complete \in BOOLEAN
  /\ r.sp.pmt_pids = s.pmt_pids /\ r.sp.pat = s.pat /\ r.sp.sid_list = s.sid_list
  /\ r.sp.pmt_retain = s.pmt_retain /\ r.sp.pmt_counter = s.pmt_counter
  /\ r.sp.note.rescanned = s.note.rescanned
  /\ \A q \in AllPids : r.sp.pids[q] \in {s.pids[q], mark}
  /\ r.sp.note.counted = IF r.complete THEN s.note.counted \cup {pid} ELSE s.note.counted
  /\ ~r.sp.note.again => ~s.note.again /\ (r.complete => pid \notin s.note.counted)

LEMMA StartKeeps ==
  ASSUME NEW air, AirOK(air), NEW s, ReadInv(s, air), NEW pid \in ChosenPmts(s),
         NEW v, v = air.version[pid], NEW c, NEW mark \in {1, 2},
         NEW r, r = AnalyzePmt(s, PmtOf(pid, v, 1, c), mark)
  PROVE  Kept(s, r, air, pid, mark)
<1> DEFINE p == PmtOf(pid, v, 1, c)
           t == Table[pid][v]
           n == FirstBytes(t.size)
           left == t.size - n
           from == Begin(s, p, mark)
           begun == BegunAgain(s, p)
           keys == {p.pcr} \cup p.ecm
           named == StreamsIn(p, n)
<1>0. /\ pid \in PmtPids /\ v \in DOMAIN Table[pid] /\ mark \in Nat \ {0} /\ v \in Nat \ {0}
      /\ Shape(s) /\ p.size = t.size /\ p.pid = pid /\ p.start = TRUE /\ p.version = v
      /\ t.size \in Nat \ {0} /\ 1 \in DOMAIN t.es
  <2>1. pid \in PmtPids /\ v \in DOMAIN Table[pid]
    BY DEF ChosenPmts, AirOK
  <2>2. v \in Nat \ {0} /\ t.size \in Nat \ {0} /\ 1 \in DOMAIN t.es
    BY <2>1, SectionType, Parts
  <2>3. p.size = t.size /\ p.pid = pid /\ p.start = TRUE /\ p.version = v
    BY DEF PmtOf
  <2> QED BY <2>1, <2>2, <2>3 DEF ReadInv
<1>1. /\ Took(from, r, pid, begun, named, mark, left)
      /\ from.pids = Marked(s.pids, keys, mark)
      /\ from.section_remain = [s.section_remain EXCEPT ![pid] = t.size]
      /\ from.pmt_version = [s.pmt_version EXCEPT ![pid] = v]
      /\ from.pmt_pids = s.pmt_pids /\ from.pat = s.pat /\ from.sid_list = s.sid_list
      /\ from.pmt_retain = s.pmt_retain /\ from.pmt_counter = s.pmt_counter /\ from.note = s.note
  <2>1. /\ Took(from, AnalyzePmt(s, p, mark), pid, begun, StreamsIn(p, FirstBytes(p.size)), mark,
                p.size - FirstBytes(p.size))
        /\ from.pids = Marked(s.pids, keys, mark)
        /\ from.section_remain = [s.section_remain EXCEPT ![pid] = p.size]
        /\ from.pmt_version = [s.pmt_version EXCEPT ![pid] = v]
        /\ from.pmt_pids = s.pmt_pids /\ from.pat = s.pat /\ from.sid_list = s.sid_list
        /\ from.pmt_retain = s.pmt_retain /\ from.pmt_counter = s.pmt_counter /\ from.note = s.note
    <3>1. Shape(s) /\ pid \in PmtPids /\ v \in DOMAIN Table[pid] /\ mark \in Nat
      BY <1>0
    <3>2. Took(from, AnalyzePmt(s, p, mark), pid, begun, StreamsIn(p, FirstBytes(p.size)), mark,
               p.size - FirstBytes(p.size))
      BY <3>1, StartTakes
    <3>3. /\ from.pids = Marked(s.pids, keys, mark)
          /\ from.section_remain = [s.section_remain EXCEPT ![pid] = p.size]
          /\ from.pmt_version = [s.pmt_version EXCEPT ![pid] = v]
          /\ from.pmt_pids = s.pmt_pids /\ from.pat = s.pat /\ from.sid_list = s.sid_list
          /\ from.pmt_retain = s.pmt_retain /\ from.pmt_counter = s.pmt_counter /\ from.note = s.note
      <4> HIDE DEF p
      <4> QED BY <1>0 DEF Begin, Shape, Fields
    <3> QED BY <3>2, <3>3
  <2>2. p.size = t.size
    BY <1>0
  <2> HIDE DEF from, keys, t
  <2> QED BY <2>1, <2>2
<1>2. /\ n \in Nat /\ n <= t.size /\ left \in Nat
      /\ t.size <= 183 => n = t.size
      /\ t.size > 183 /\ t.size < 256 => n = 183
      /\ t.size >= 256 => left >= 256
  <2>1. /\ n \in Nat /\ n <= t.size
        /\ t.size <= 183 => n = t.size
        /\ t.size > 183 /\ t.size < 256 => n = 183
        /\ t.size >= 256 => t.size - n >= 256
    BY <1>0, Bytes
  <2> QED BY <1>0, <2>1
<1>3. /\ named \subseteq Wanted(pid, v) /\ keys \subseteq Wanted(pid, v)
      /\ t.size < 256 => keys \cup named = FirstPart(pid, v)
  <2>0. /\ named \subseteq Wanted(pid, v) /\ keys \subseteq Wanted(pid, v)
        /\ n = Carried(t.size, 1) => named = {e[2] : e \in {x \in t.es[1] : x[1] # TypeD}}
    <3> HIDE DEF n
    <3>1. pid \in PmtPids /\ v \in DOMAIN Table[pid] /\ 1 \in DOMAIN Table[pid][v].es
      BY <1>0
    <3>2. Names(p, n, pid, v, 1)
      BY <3>1, StreamsOf
    <3> HIDE DEF p
    <3> QED BY <3>2 DEF Names
  <2>1. t.size < 256 => n = Carried(t.size, 1)
    <3>1. /\ t.size \in Nat
          /\ t.size <= 183 => Carried(t.size, 1) = t.size
          /\ t.size > 183 => Carried(t.size, 1) = 183
      BY <1>0, Parts
    <3> HIDE DEF t, n
    <3> QED BY <1>2, <3>1
  <2>2. p.pcr = t.pcr /\ p.ecm = t.ecm
    BY DEF PmtOf
  <2> QED BY <2>0, <2>1, <2>2 DEF FirstPart
<1>4. begun \in BOOLEAN /\ (~begun => pid \notin s.note.counted /\ (s.section_remain[pid] > 0 => s.pmt_version[pid] = v))
  BY <1>0 DEF BegunAgain
<1>5. /\ Passing(r.sp) = Passing(s) \cup (keys \cup named)
      /\ \A q \in AllPids : r.sp.pids[q] \in {s.pids[q], mark}
  <2>1. keys \in SUBSET AllPids /\ named \in SUBSET AllPids
    BY <1>0, <1>3, WantedType
  <2>2. s.pids \in [AllPids -> Nat]
    BY <1>0 DEF Shape
  <2>3. r.sp.pids = Marked(from.pids, named, mark)
    BY <1>1 DEF Took
  <2> HIDE DEF from, keys, named
  <2> QED BY <1>0, <1>1, <2>1, <2>2, <2>3 DEF Passing, Marked
<1> HIDE DEF p, n, from, keys, named, begun, t
<1>6. s.section_remain \in [PmtPids -> Nat] /\ s.pmt_version \in [PmtPids -> Nat] /\ s.note.again \in BOOLEAN
  BY <1>0 DEF Shape
<1>7. /\ Shape(r.sp) /\ r.complete = (left = 0)
      /\ r.sp.section_remain = [s.section_remain EXCEPT ![pid] = left]
      /\ r.sp.pmt_version = [s.pmt_version EXCEPT ![pid] = v]
      /\ r.sp.pmt_pids = s.pmt_pids /\ r.sp.pat = s.pat /\ r.sp.sid_list = s.sid_list
      /\ r.sp.pmt_retain = s.pmt_retain /\ r.sp.pmt_counter = s.pmt_counter
      /\ r.sp.note.rescanned = s.note.rescanned
      /\ r.sp.note.again = (s.note.again \/ begun)
      /\ r.sp.note.counted = IF left = 0 THEN s.note.counted \cup {pid} ELSE s.note.counted
      /\ r.sp.note.read = IF left = 0 THEN [s.note.read EXCEPT ![pid] = v] ELSE s.note.read
  BY <1>0, <1>1, <1>6 DEF Took
<1>8. Reads(s, r.sp, air, pid, v, left)
  <2>1. /\ Passing(s) \subseteq Passing(r.sp) /\ Passing(r.sp) \subseteq Passing(s) \cup Wanted(pid, v)
        /\ v \in 1 .. v /\ left \in Nat
    BY <1>0, <1>2, <1>3, <1>5
  <2>2. /\ left = 0 => t.size < 256
        /\ left > 0 => IF t.size < 256 THEN t.size > 183 /\ left = t.size - 183 ELSE left >= 256
    BY <1>0, <1>2
  <2>3. /\ left = 0 => Wanted(pid, v) \subseteq Passing(r.sp)
        /\ left > 0 /\ t.size < 256 => FirstPart(pid, v) \subseteq Passing(r.sp)
    <3>1. left = 0 => Wanted(pid, v) = FirstPart(pid, v)
      BY <1>0, <1>2, <2>2, Parts DEF t
    <3> QED BY <1>3, <1>5, <2>2, <3>1
  <2>4. ~r.sp.note.again => ~s.note.again /\ ~begun
    BY <1>7
  <2> HIDE DEF left
  <2> QED BY <1>4, <1>7, <2>1, <2>2, <2>3, <2>4 DEF Reads, t
<1>9. ReadInv(r.sp, air)
  BY <1>8, PartKeeps
<1> QED BY <1>4, <1>5, <1>7, <1>9 DEF Kept

LEMMA NextKeeps ==
  ASSUME NEW air, AirOK(air), NEW s, ReadInv(s, air), NEW pid \in ChosenPmts(s),
         NEW v, v = air.version[pid], NEW k \in DOMAIN Table[pid][v].es, k # 1, NEW c, NEW mark \in {1, 2},
         NEW r, r = AnalyzePmt(s, PmtOf(pid, v, k, c), mark)
  PROVE  Kept(s, r, air, pid, mark)
<1> DEFINE p == PmtOf(pid, v, k, c)
           t == Table[pid][v]
           before == s.section_remain[pid]
           w == s.pmt_version[pid]
           n == NextBytes(before)
           left == before - n
           begun == BegunAgain(s, p)
           named == StreamsIn(p, n)
<1>0. /\ pid \in PmtPids /\ v \in DOMAIN Table[pid] /\ mark \in Nat \ {0} /\ v \in Nat \ {0}
      /\ Shape(s) /\ before \in Nat /\ w \in Nat /\ p.pid = pid /\ p.start = FALSE /\ p.version = v
  <2>1. pid \in PmtPids /\ v \in DOMAIN Table[pid]
    BY DEF ChosenPmts, AirOK
  <2>2. v \in Nat \ {0}
    BY <2>1, SectionType
  <2>3. p.pid = pid /\ p.start = FALSE /\ p.version = v
    BY DEF PmtOf
  <2>4. Shape(s) /\ before \in Nat /\ w \in Nat
    BY <2>1 DEF ReadInv, Shape
  <2> QED BY <2>1, <2>2, <2>3, <2>4
<1>1. CASE Broken(s, p)
  <2>1. r = [sp |-> s, complete |-> FALSE]
    BY <1>0, <1>1, Zenon DEF AnalyzePmt
  <2>2. r.sp = s /\ r.complete = FALSE
    BY <2>1
  <2> QED BY <2>2 DEF Kept
<1>2. CASE ~Broken(s, p)
  <2>1. Took(s, r, pid, begun, named, mark, left)
    <3>1. Shape(s) /\ pid \in PmtPids /\ v \in DOMAIN Table[pid] /\ mark \in Nat
      BY <1>0
    <3> QED BY <1>2, <3>1, NextTakes
  <2>2. before > 0
    BY <1>0, <1>2 DEF Broken
  <2>3. w \in 1 .. v /\ (IF Table[pid][w].size < 256 THEN Table[pid][w].size > 183 /\ before = Table[pid][w].size - 183
                        ELSE before >= 256)
    BY <1>0, <2>2 DEF ReadInv, SectionInv
  <2>4. w \in DOMAIN Table[pid] /\ Table[pid][w].size \in Nat
    BY <1>0, <2>3, SectionType, Parts
  <2>5. /\ n \in Nat /\ left \in Nat
        /\ before <= 72 => n = before /\ left = 0
        /\ before >= 256 => left >= 256
    <3>1. /\ n \in Nat /\ n <= before
          /\ before <= 72 => n = before
          /\ before >= 256 => before - n >= 256
      BY <1>0, <2>2, BytesLeft
    <3> QED BY <1>0, <3>1
  <2>6. /\ named \subseteq Wanted(pid, v)
        /\ n = Carried(t.size, k) => named = {e[2] : e \in {x \in t.es[k] : x[1] # TypeD}}
    <3> HIDE DEF n
    <3>1. pid \in PmtPids /\ v \in DOMAIN Table[pid] /\ k \in DOMAIN Table[pid][v].es
      BY <1>0
    <3>2. Names(p, n, pid, v, k)
      BY <3>1, StreamsOf
    <3> HIDE DEF p
    <3> QED BY <3>2 DEF Names
  <2>7. /\ Passing(r.sp) = Passing(s) \cup named
        /\ \A q \in AllPids : r.sp.pids[q] \in {s.pids[q], mark}
    <3>1. named \in SUBSET AllPids
      BY <1>0, <2>6, WantedType
    <3>2. s.pids \in [AllPids -> Nat]
      BY <1>0 DEF Shape
    <3>3. r.sp.pids = Marked(s.pids, named, mark)
      BY <2>1 DEF Took
    <3> HIDE DEF named
    <3> QED BY <1>0, <3>1, <3>2, <3>3, MarkedPass
  <2>8. begun \in BOOLEAN /\ (~begun => w = v)
    BY <1>0, <2>2 DEF BegunAgain
  <2>9. /\ ~s.note.again => pid \notin s.note.counted
        /\ ~s.note.again /\ t.size < 256 /\ w = v => FirstPart(pid, v) \subseteq Passing(s)
    BY <1>0, <2>2 DEF ReadInv, SectionInv, Least
  <2>10. t.size < 256 /\ w = v /\ FirstPart(pid, v) \subseteq Passing(s) => Wanted(pid, v) \subseteq Passing(r.sp)
    <3> SUFFICES ASSUME t.size < 256, w = v, FirstPart(pid, v) \subseteq Passing(s)
                 PROVE  Wanted(pid, v) \subseteq Passing(r.sp)
      OBVIOUS
    <3>1. t.size > 183 /\ before = t.size - 183 /\ n = t.size - 183
      BY <2>3, <2>4, <2>5
    <3>2. /\ DOMAIN t.es = {1, 2} /\ Carried(t.size, 2) = t.size - 183
          /\ Wanted(pid, v) = FirstPart(pid, v) \cup {e[2] : e \in {x \in t.es[2] : x[1] # TypeD}}
      BY <1>0, <3>1, Parts
    <3>3. k = 2 /\ n = Carried(t.size, k)
      BY <3>1, <3>2
    <3> HIDE DEF n, named
    <3> QED BY <2>6, <2>7, <3>2, <3>3
  <2> HIDE DEF begun, named, n, t
  <2>11. s.section_remain \in [PmtPids -> Nat] /\ s.pmt_version \in [PmtPids -> Nat] /\ s.note.again \in BOOLEAN
    BY <1>0 DEF Shape
  <2>12. /\ Shape(r.sp) /\ r.complete = (left = 0)
         /\ r.sp.section_remain = [s.section_remain EXCEPT ![pid] = left]
         /\ r.sp.pmt_version = [s.pmt_version EXCEPT ![pid] = w]
         /\ r.sp.pmt_pids = s.pmt_pids /\ r.sp.pat = s.pat /\ r.sp.sid_list = s.sid_list
         /\ r.sp.pmt_retain = s.pmt_retain /\ r.sp.pmt_counter = s.pmt_counter
         /\ r.sp.note.rescanned = s.note.rescanned
         /\ r.sp.note.again = (s.note.again \/ begun)
         /\ r.sp.note.counted = IF left = 0 THEN s.note.counted \cup {pid} ELSE s.note.counted
         /\ r.sp.note.read = IF left = 0 THEN [s.note.read EXCEPT ![pid] = w] ELSE s.note.read
    BY <1>0, <2>1, <2>11 DEF Took
  <2>13. Reads(s, r.sp, air, pid, w, left)
    <3>1. /\ Passing(s) \subseteq Passing(r.sp) /\ Passing(r.sp) \subseteq Passing(s) \cup Wanted(pid, v)
          /\ left \in Nat
      BY <2>5, <2>6, <2>7
    <3>2. /\ left = 0 => Table[pid][w].size < 256
          /\ left > 0 => ~(Table[pid][w].size < 256) /\ left >= 256
      BY <2>3, <2>4, <2>5, <1>0
    <3>3. ~r.sp.note.again => ~s.note.again /\ ~begun
      BY <2>12
    <3>4. ~r.sp.note.again =>
            /\ w = v /\ pid \notin s.note.counted
            /\ left = 0 => Wanted(pid, v) \subseteq Passing(r.sp)
            /\ left > 0 => ~(t.size < 256)
      BY <2>8, <2>9, <2>10, <3>2, <3>3 DEF t
    <3> HIDE DEF left, w, before
    <3> QED BY <2>3, <2>12, <3>1, <3>2, <3>3, <3>4 DEF Reads, t, w
  <2>14. ReadInv(r.sp, air)
    BY <2>13, PartKeeps
  <2> QED BY <2>7, <2>8, <2>9, <2>12, <2>14 DEF Kept
<1> QED BY <1>1, <1>2

LEMMA PmtKeeps ==
  ASSUME NEW air, AirOK(air), NEW s, ReadInv(s, air), NEW pid \in ChosenPmts(s),
         NEW k \in DOMAIN Table[pid][air.version[pid]].es, NEW c, NEW mark \in {1, 2}
  PROVE  Kept(s, AnalyzePmt(s, PmtOf(pid, air.version[pid], k, c), mark), air, pid, mark)
<1>1. CASE k = 1
  BY <1>1, StartKeeps
<1>2. CASE k # 1
  BY <1>2, NextKeeps
<1> QED BY <1>1, <1>2
-----------------------------------------------------------------------------
(* The counting of PMTs.  While they are read for the first time the PMTs     *)
(* counted are those with the mark 2; from then on the PIDs to be kept have   *)
(* the mark 1, or 2 while a rescan is under way.                              *)

Values(s, S) == \A q \in AllPids : s.pids[q] \in S

Counting(s, ok) ==
  /\ Cardinality(ChosenPmts(s)) <= s.pmt_retain /\ s.pmt_counter <= s.pmt_retain
  /\ ok => /\ \A p \in ChosenPmts(s) : s.pmt_pids[p] = 2
           /\ Values(s, IF s.pmt_counter = s.pmt_retain THEN {0, 1} ELSE {0, 2})
           /\ ~s.note.again => s.pmt_counter = Cardinality(s.note.counted)
  /\ ~ok => /\ s.pmt_counter # s.pmt_retain
            /\ \A p \in ChosenPmts(s) : s.pmt_pids[p] = IF p \in s.note.counted THEN 2 ELSE 1
            /\ Values(s, {0, 1})
            /\ s.pmt_counter = Cardinality(s.note.counted)
            /\ ~s.note.rescanned

\* With the choice made where the counts agree.
Judged(s) == IF s.pmt_counter = s.pmt_retain THEN Counting(s, TRUE) ELSE Counting(s, FALSE)

\* Before a PAT has been seen.
Untouched(s) ==
  /\ Values(s, {0}) /\ \A q \in AllPids : s.pmt_pids[q] = 0
  /\ \A p \in PmtPids : s.section_remain[p] = 0
  /\ s.note.counted = {} /\ s.pmt_counter = 0 /\ s.pmt_retain = -1
  /\ ~s.note.again /\ ~s.note.rescanned

SplitterInv(s, air, ok) ==
  /\ Shape(s)
  /\ s.pat = {} => Untouched(s) /\ ~ok
  /\ s.pat # {} => ReadInv(s, air) /\ Counting(s, ok)

Fixed(s, t) == /\ t.pmt_pids = s.pmt_pids /\ t.pat = s.pat /\ t.sid_list = s.sid_list
               /\ t.pmt_retain = s.pmt_retain

LEMMA SameReads ==
  ASSUME NEW s, NEW t, NEW air, ReadInv(s, air), Shape(t), Passing(t) = Passing(s), t.note = s.note,
         t.section_remain = s.section_remain, t.pmt_version = s.pmt_version,
         t.pat = s.pat, t.sid_list = s.sid_list,
         \A q \in AllPids : t.pmt_pids[q] # 0 <=> s.pmt_pids[q] # 0
  PROVE  ReadInv(t, air) /\ ChosenPmts(t) = ChosenPmts(s)
<1>1. /\ ChosenPmts(t) = ChosenPmts(s) /\ Epg(t, air) = Epg(s, air) /\ Named(t, air) = Named(s, air)
  BY DEF ChosenPmts, AllPids, Epg, EpgAsked, Looked, Named
<1>2. SectionInv(t, air)
  BY <1>1 DEF ReadInv, SectionInv
<1>3. Least(t, air)
  BY <1>1 DEF ReadInv, Least
<1>4. Most(t, air)
  BY <1>1 DEF ReadInv, Most
<1>5. AtMost(t, air)
  BY <1>1 DEF ReadInv, AtMost
<1> QED BY <1>1, <1>2, <1>3, <1>4, <1>5 DEF ReadInv

LEMMA ClearIs ==
  ASSUME NEW s, Shape(s)
  PROVE  LET t == Clear(s)
         IN /\ Shape(t) /\ Fixed(s, t) /\ t.pids = s.pmt_pids /\ t.pmt_counter = 0
            /\ t.section_remain = [p \in PmtPids |-> 0] /\ t.pmt_version = s.pmt_version
            /\ t.note.counted = {} /\ t.note.again = FALSE /\ t.note.rescanned = TRUE
<1> DEFINE t == Clear(s)
<1>1. /\ DOMAIN t = Fields /\ DOMAIN t.note = Notes
      /\ Fixed(s, t) /\ t.pids = s.pmt_pids /\ t.pmt_counter = 0
      /\ t.section_remain = [p \in PmtPids |-> 0] /\ t.pmt_version = s.pmt_version
      /\ t.note.counted = {} /\ t.note.read = s.note.read
  BY DEF Clear, Shape, Fields, Notes, Fixed
<1>2. t.note.again = FALSE /\ t.note.rescanned = TRUE
  BY DEF Clear, Shape, Fields, Notes
<1> HIDE DEF t
<1>3. Shape(t)
  <2>1. t.section_remain \in [PmtPids -> Nat]
    BY <1>1
  <2>2. t.note.again \in BOOLEAN /\ t.note.rescanned \in BOOLEAN
    BY <1>2, Zenon
  <2>3. t.pmt_counter \in Nat
    BY <1>1
  <2> QED BY <1>1, <2>1, <2>2, <2>3 DEF Shape, Fixed
<1> QED BY <1>1, <1>2, <1>3 DEF t

\* A rescan begins with the PMTs alone.
LEMMA ClearKeeps ==
  ASSUME NEW air, AirOK(air), NEW s, ReadInv(s, air)
  PROVE  ReadInv(Clear(s), air)
<1> DEFINE t == Clear(s)
<1>1. /\ Shape(t) /\ Fixed(s, t) /\ t.pids = s.pmt_pids
      /\ t.section_remain = [p \in PmtPids |-> 0]
      /\ t.note.counted = {} /\ t.note.again = FALSE /\ t.note.rescanned = TRUE
  BY ClearIs DEF ReadInv
<1> HIDE DEF t
<1>2. ChosenPmts(t) = ChosenPmts(s) /\ Passing(t) = ChosenPmts(t)
  BY <1>1 DEF Fixed, ReadInv, ChosenPmts, Passing, AllPids
<1>3. SectionInv(t, air)
  BY <1>1 DEF SectionInv
<1>4. Least(t, air)
  BY <1>1, <1>2 DEF Least
<1>5. Most(t, air) /\ AtMost(t, air)
  BY <1>2 DEF Most, AtMost
<1> QED BY <1>1, <1>3, <1>4, <1>5 DEF ReadInv, Fixed, t

\* What a packet of a PMT never changes, however the PMTs are counted.
LEMMA AnalyzeFixed ==
  ASSUME NEW s, Shape(s), NEW pid \in PmtPids, NEW v \in DOMAIN Table[pid],
         NEW k, NEW c, NEW mark \in {1, 2}
  PROVE  LET r == AnalyzePmt(s, PmtOf(pid, v, k, c), mark)
         IN /\ Shape(r.sp) /\ Fixed(s, r.sp) /\ r.complete \in BOOLEAN
            /\ r.sp.pmt_counter = s.pmt_counter /\ r.sp.note.rescanned = s.note.rescanned
<1> DEFINE p == PmtOf(pid, v, k, c)
           r == AnalyzePmt(s, p, mark)
<1>0. mark \in Nat /\ p.pid = pid /\ p.start = (k = 1)
  BY DEF PmtOf
<1>1. CASE k = 1
  <2> DEFINE from == Begin(s, p, mark)
  <2>1. PICK begun, marked, left : Took(from, r, pid, begun, marked, mark, left)
    BY <1>0, <1>1, StartTakes
  <2>2. Fixed(s, from) /\ from.pmt_counter = s.pmt_counter /\ from.note.rescanned = s.note.rescanned
    <3> HIDE DEF p
    <3> QED BY <1>0 DEF Begin, Shape, Fields, Fixed
  <2> HIDE DEF from, r, p
  <2> QED BY <2>1, <2>2 DEF Took, Fixed, r, p
<1>2. CASE k # 1 /\ Broken(s, p)
  <2>1. r = [sp |-> s, complete |-> FALSE]
    BY <1>0, <1>2, Zenon DEF AnalyzePmt
  <2> HIDE DEF r
  <2>2. r.sp = s /\ r.complete = FALSE
    BY <2>1
  <2> QED BY <2>2 DEF Fixed, r
<1>3. CASE k # 1 /\ ~Broken(s, p)
  <2>1. PICK begun, marked, left : Took(s, r, pid, begun, marked, mark, left)
    BY <1>0, <1>3, NextTakes
  <2> HIDE DEF r, p
  <2> QED BY <2>1 DEF Took, Fixed, r, p
<1> QED BY <1>1, <1>2, <1>3

\* The steps of RescanPID.
LEMMA RescanFixed ==
  ASSUME NEW s, Shape(s), NEW pid \in PmtPids, NEW v \in DOMAIN Table[pid], NEW k, NEW c
  PROVE  LET t == RescanPID(s, PmtOf(pid, v, k, c))
         IN Shape(t) /\ Fixed(s, t)
<1> DEFINE p == PmtOf(pid, v, k, c)
           begin == IF s.pmt_counter = s.pmt_retain THEN Clear(s) ELSE s
           r == AnalyzePmt(begin, p, 2)
           got == IF r.complete THEN [r.sp EXCEPT !.pmt_counter = @ + 1] ELSE r.sp
           t == IF got.pmt_counter = got.pmt_retain
                THEN [got EXCEPT !.pids = [q \in AllPids |-> IF @[q] > 0 THEN @[q] - 1 ELSE 0]]
                ELSE got
<1>1. t = RescanPID(s, p)
  BY Zenon DEF RescanPID
<1>2. Shape(begin) /\ Fixed(s, begin)
  BY ClearIs DEF Fixed
<1>3. Shape(r.sp) /\ Fixed(begin, r.sp)
  <2> HIDE DEF begin
  <2> QED BY <1>2, AnalyzeFixed
<1> HIDE DEF r, begin
<1>4. Shape(got) /\ Fixed(r.sp, got)
  BY <1>3 DEF Shape, Fields, Fixed
<1> HIDE DEF got
<1>5. Shape(t) /\ Fixed(got, t)
  <2>1. CASE got.pmt_counter = got.pmt_retain
    <3> DEFINE less == [q \in AllPids |-> IF got.pids[q] > 0 THEN got.pids[q] - 1 ELSE 0]
    <3>1. less \in [AllPids -> Nat]
      BY <1>4 DEF Shape
    <3>2. t = [got EXCEPT !.pids = less]
      BY <2>1
    <3> HIDE DEF less, t
    <3>3. DOMAIN t = Fields /\ t.pids = less /\ Fixed(got, t)
      BY <1>4, <3>2 DEF Shape, Fields, Fixed
    <3>4. /\ t.note = got.note /\ t.section_remain = got.section_remain /\ t.pmt_version = got.pmt_version
          /\ t.pmt_counter = got.pmt_counter
      BY <1>4, <3>2 DEF Shape, Fields
    <3> QED BY <1>4, <3>1, <3>3, <3>4 DEF Shape, Fixed
  <2>2. CASE got.pmt_counter # got.pmt_retain
    BY <1>4, <2>2 DEF Fixed
  <2> QED BY <2>1, <2>2
<1> HIDE DEF t
<1> QED BY <1>1, <1>2, <1>3, <1>4, <1>5 DEF Fixed, p

LEMMA CountedFinite ==
  ASSUME NEW s, NEW air, ReadInv(s, air)
  PROVE  /\ IsFiniteSet(ChosenPmts(s)) /\ IsFiniteSet(s.note.counted)
         /\ s.note.counted \subseteq ChosenPmts(s)
         /\ Cardinality(ChosenPmts(s)) \in Nat /\ Cardinality(s.note.counted) \in Nat
         /\ Cardinality(s.note.counted) <= Cardinality(ChosenPmts(s))
         /\ \A p \in ChosenPmts(s) \ s.note.counted :
              /\ Cardinality(s.note.counted \cup {p}) = Cardinality(s.note.counted) + 1
              /\ Cardinality(s.note.counted \cup {p}) <= Cardinality(ChosenPmts(s))
         /\ Cardinality(s.note.counted) = Cardinality(ChosenPmts(s)) => s.note.counted = ChosenPmts(s)
<1>1. s.note.counted \subseteq ChosenPmts(s)
  BY DEF ReadInv, SectionInv
<1>2. IsFiniteSet(ChosenPmts(s))
  <2>1. IsFiniteSet(PmtPids) /\ ChosenPmts(s) \subseteq PmtPids
    BY SplitterAssumption DEF ChosenPmts
  <2> QED BY <2>1, FS_Subset
<1>3. IsFiniteSet(s.note.counted) /\ Cardinality(s.note.counted) <= Cardinality(ChosenPmts(s))
      /\ (Cardinality(s.note.counted) = Cardinality(ChosenPmts(s)) => s.note.counted = ChosenPmts(s))
  BY <1>1, <1>2, FS_Subset
<1>4. Cardinality(ChosenPmts(s)) \in Nat /\ Cardinality(s.note.counted) \in Nat
  BY <1>2, <1>3, FS_CardinalityType
<1>5. ASSUME NEW p \in ChosenPmts(s) \ s.note.counted
      PROVE  /\ Cardinality(s.note.counted \cup {p}) = Cardinality(s.note.counted) + 1
             /\ Cardinality(s.note.counted \cup {p}) <= Cardinality(ChosenPmts(s))
  <2>1. Cardinality(s.note.counted \cup {p}) = Cardinality(s.note.counted) + 1
    BY <1>3, <1>5, FS_AddElement
  <2>2. s.note.counted \cup {p} \subseteq ChosenPmts(s)
    BY <1>1, <1>5
  <2>3. Cardinality(s.note.counted \cup {p}) <= Cardinality(ChosenPmts(s))
    BY <1>2, <2>2, FS_Subset
  <2> QED BY <2>1, <2>3
<1> QED BY <1>1, <1>2, <1>3, <1>4, <1>5

\* The middle of a rescan: a round that is not over.
Rescanning(s, air) ==
  /\ ReadInv(s, air)
  /\ Cardinality(ChosenPmts(s)) <= s.pmt_retain /\ s.pmt_counter < s.pmt_retain
  /\ \A p \in ChosenPmts(s) : s.pmt_pids[p] = 2
  /\ Values(s, {0, 2})
  /\ ~s.note.again => s.pmt_counter = Cardinality(s.note.counted)

LEMMA BeginRescan ==
  ASSUME NEW air, AirOK(air), NEW s, ReadInv(s, air), Counting(s, TRUE), ChosenPmts(s) # {}
  PROVE  LET t == IF s.pmt_counter = s.pmt_retain THEN Clear(s) ELSE s
         IN Rescanning(t, air) /\ Fixed(s, t)
<1>1. CASE s.pmt_counter # s.pmt_retain
  <2>1. s.pmt_counter \in Nat /\ s.pmt_retain \in Int
    BY DEF ReadInv, Shape
  <2> QED BY <1>1, <2>1 DEF Counting, Rescanning, Fixed
<1>2. CASE s.pmt_counter = s.pmt_retain
  <2> DEFINE t == Clear(s)
  <2>1. ReadInv(t, air)
    BY ClearKeeps
  <2>2. /\ Shape(s) /\ Shape(t) /\ Fixed(s, t) /\ t.pids = s.pmt_pids /\ t.pmt_counter = 0
        /\ t.note.counted = {}
    BY ClearIs DEF ReadInv
  <2> HIDE DEF t
  <2>3. ChosenPmts(t) = ChosenPmts(s)
    BY <2>2 DEF Fixed, ChosenPmts
  <2>4. Cardinality(ChosenPmts(t)) <= t.pmt_retain /\ t.pmt_counter < t.pmt_retain
    <3>1. PICK p : p \in ChosenPmts(s)
      OBVIOUS
    <3>2. IsFiniteSet(ChosenPmts(s)) /\ Cardinality(ChosenPmts(s)) \in Nat
      BY CountedFinite
    <3>3. Cardinality(ChosenPmts(s)) # 0
      BY <3>1, <3>2, FS_EmptySet
    <3>4. Cardinality(ChosenPmts(s)) <= s.pmt_retain /\ s.pmt_retain \in Int
      BY <2>2 DEF Counting, Shape
    <3> QED BY <2>2, <2>3, <3>2, <3>3, <3>4 DEF Fixed
  <2>5. \A p \in ChosenPmts(t) : t.pmt_pids[p] = 2
    BY <2>2, <2>3 DEF Counting, Fixed
  <2>6. Values(t, {0, 2})
    <3>1. \A q \in AllPids : t.pids[q] = t.pmt_pids[q]
      BY <2>2 DEF Fixed
    <3>2. \A q \in AllPids : t.pmt_pids[q] # 0 => q \in ChosenPmts(t)
      BY <2>1 DEF ReadInv, ChosenPmts
    <3> QED BY <2>5, <3>1, <3>2 DEF Values
  <2>7. t.pmt_counter = Cardinality(t.note.counted)
    BY <2>2, FS_EmptySet
  <2>8. Rescanning(t, air) /\ Fixed(s, t)
    BY <2>1, <2>2, <2>4, <2>5, <2>6, <2>7 DEF Rescanning
  <2> QED BY <1>2, <2>8 DEF t
<1> QED BY <1>1, <1>2

\* The last PMT of a round takes the mark back.
LEMMA EndRescan ==
  ASSUME NEW air, NEW got, ReadInv(got, air), Cardinality(ChosenPmts(got)) <= got.pmt_retain,
         got.pmt_counter <= got.pmt_retain,
         \A p \in ChosenPmts(got) : got.pmt_pids[p] = 2, Values(got, {0, 2}),
         ~got.note.again => got.pmt_counter = Cardinality(got.note.counted)
  PROVE  LET t == IF got.pmt_counter = got.pmt_retain
                  THEN [got EXCEPT !.pids = [q \in AllPids |-> IF @[q] > 0 THEN @[q] - 1 ELSE 0]]
                  ELSE got
         IN ReadInv(t, air) /\ Counting(t, TRUE) /\ Fixed(got, t)
<1> DEFINE less == [q \in AllPids |-> IF got.pids[q] > 0 THEN got.pids[q] - 1 ELSE 0]
           t == [got EXCEPT !.pids = less]
<1>1. CASE got.pmt_counter # got.pmt_retain
  BY <1>1 DEF Counting, Fixed
<1>2. CASE got.pmt_counter = got.pmt_retain
  <2>1. Shape(got) /\ got.pids \in [AllPids -> Nat]
    BY DEF ReadInv, Shape
  <2>2. /\ less \in [AllPids -> Nat]
        /\ \A q \in AllPids : less[q] \in {0, 1} /\ (less[q] # 0 <=> got.pids[q] # 0)
    BY <2>1 DEF Values
  <2> HIDE DEF less
  <2>3. /\ DOMAIN t = Fields /\ t.pids = less /\ Fixed(got, t) /\ t.note = got.note
        /\ t.section_remain = got.section_remain /\ t.pmt_version = got.pmt_version
        /\ t.pmt_counter = got.pmt_counter
    BY <2>1 DEF Shape, Fields, Fixed
  <2> HIDE DEF t
  <2>4. Shape(t)
    BY <2>1, <2>2, <2>3 DEF Shape, Fixed
  <2>5. Passing(t) = Passing(got)
    BY <2>2, <2>3 DEF Passing
  <2>6. ReadInv(t, air) /\ ChosenPmts(t) = ChosenPmts(got)
    BY <2>3, <2>4, <2>5, SameReads DEF Fixed
  <2>7. Values(t, {0, 1})
    BY <2>2, <2>3 DEF Values
  <2>8. Counting(t, TRUE)
    BY <1>2, <2>3, <2>6, <2>7 DEF Counting, Fixed
  <2> QED BY <1>2, <2>3, <2>6, <2>8 DEF t, less
<1> QED BY <1>1, <1>2

LEMMA RescanKeeps ==
  ASSUME NEW air, AirOK(air), NEW s, ReadInv(s, air), Counting(s, TRUE), NEW pid \in ChosenPmts(s),
         NEW k \in DOMAIN Table[pid][air.version[pid]].es, NEW c
  PROVE  LET t == RescanPID(s, PmtOf(pid, air.version[pid], k, c))
         IN ReadInv(t, air) /\ Counting(t, TRUE) /\ Fixed(s, t)
<1> DEFINE p == PmtOf(pid, air.version[pid], k, c)
           begin == IF s.pmt_counter = s.pmt_retain THEN Clear(s) ELSE s
           r == AnalyzePmt(begin, p, 2)
           got == IF r.complete THEN [r.sp EXCEPT !.pmt_counter = @ + 1] ELSE r.sp
           t == IF got.pmt_counter = got.pmt_retain
                THEN [got EXCEPT !.pids = [q \in AllPids |-> IF @[q] > 0 THEN @[q] - 1 ELSE 0]]
                ELSE got
<1>1. t = RescanPID(s, p)
  BY Zenon DEF RescanPID
<1>2. Rescanning(begin, air) /\ Fixed(s, begin)
  BY BeginRescan
<1> HIDE DEF begin
<1>3. pid \in ChosenPmts(begin) /\ ReadInv(begin, air)
  BY <1>2 DEF Fixed, ChosenPmts, Rescanning
<1>4. Kept(begin, r, air, pid, 2)
  BY <1>3, PmtKeeps
<1> HIDE DEF r, p
<1>5. /\ ReadInv(r.sp, air) /\ ChosenPmts(r.sp) = ChosenPmts(begin) /\ Fixed(begin, r.sp)
      /\ Values(r.sp, {0, 2}) /\ r.sp.pmt_counter = begin.pmt_counter /\ r.complete \in BOOLEAN
  <2>1. Values(r.sp, {0, 2})
    BY <1>2, <1>4 DEF Kept, Rescanning, Values
  <2> QED BY <1>4, <2>1 DEF Kept, ChosenPmts, Fixed
<1>6. begin.pmt_counter \in Nat /\ begin.pmt_retain \in Int /\ begin.pmt_counter < begin.pmt_retain
  BY <1>2 DEF Rescanning, ReadInv, Shape
<1>7. /\ ReadInv(got, air) /\ ChosenPmts(got) = ChosenPmts(begin) /\ Fixed(begin, got) /\ Values(got, {0, 2})
      /\ got.pmt_counter = IF r.complete THEN begin.pmt_counter + 1 ELSE begin.pmt_counter
      /\ got.note = r.sp.note
  <2>1. CASE r.complete
    <3> DEFINE g == [r.sp EXCEPT !.pmt_counter = @ + 1]
    <3>1. Shape(r.sp)
      BY <1>5 DEF ReadInv
    <3>2. /\ DOMAIN g = Fields /\ g.note = r.sp.note /\ Fixed(r.sp, g) /\ g.pids = r.sp.pids
          /\ g.pmt_counter = r.sp.pmt_counter + 1
          /\ g.section_remain = r.sp.section_remain /\ g.pmt_version = r.sp.pmt_version
      BY <3>1 DEF Shape, Fields, Fixed
    <3> HIDE DEF g
    <3>3. Shape(g)
      <4>1. g.pmt_counter \in Nat
        BY <1>5, <1>6, <3>2
      <4> QED BY <3>1, <3>2, <4>1 DEF Shape, Fixed
    <3>4. ReadInv(g, air) /\ ChosenPmts(g) = ChosenPmts(r.sp)
      <4>1. Passing(g) = Passing(r.sp)
        BY <3>2 DEF Passing
      <4> QED BY <1>5, <3>2, <3>3, <4>1, SameReads DEF Fixed
    <3>5. Values(g, {0, 2}) /\ Fixed(begin, g)
      BY <1>5, <3>2 DEF Values, Fixed
    <3> QED BY <1>5, <2>1, <3>2, <3>4, <3>5 DEF g
  <2>2. CASE ~r.complete
    BY <1>5, <2>2
  <2> QED BY <2>1, <2>2
<1>8. ~got.note.again => got.pmt_counter = Cardinality(got.note.counted)
  <2> SUFFICES ASSUME ~got.note.again PROVE got.pmt_counter = Cardinality(got.note.counted)
    OBVIOUS
  <2>1. /\ ~begin.note.again /\ (r.complete => pid \notin begin.note.counted)
        /\ got.note.counted = IF r.complete THEN begin.note.counted \cup {pid} ELSE begin.note.counted
    BY <1>4, <1>7 DEF Kept
  <2>2. begin.pmt_counter = Cardinality(begin.note.counted)
    BY <1>2, <2>1 DEF Rescanning
  <2>3. r.complete => Cardinality(begin.note.counted \cup {pid}) = Cardinality(begin.note.counted) + 1
    BY <1>3, <2>1, CountedFinite
  <2> QED BY <1>5, <1>7, <2>1, <2>2, <2>3
<1>9. /\ Cardinality(ChosenPmts(got)) <= got.pmt_retain /\ got.pmt_counter <= got.pmt_retain
      /\ \A q \in ChosenPmts(got) : got.pmt_pids[q] = 2
  BY <1>2, <1>6, <1>7 DEF Rescanning, Fixed
<1> HIDE DEF got
<1>10. ReadInv(t, air) /\ Counting(t, TRUE) /\ Fixed(got, t)
  BY <1>7, <1>8, <1>9, EndRescan
<1> HIDE DEF t
<1> QED BY <1>1, <1>2, <1>7, <1>10 DEF Fixed, p

-----------------------------------------------------------------------------
(* The packets of a block. *)

\* What may be in a block while air is on the air.
FromAir(air, p) ==
  \/ p.pid = Patpid /\ p.pat = air.pat
  \/ p.pid \in {Streams, NullPid}
  \/ \E pid \in PmtPids : \E k \in DOMAIN Table[pid][air.version[pid]].es : \E c :
       p = PmtOf(pid, air.version[pid], k, c)

LEMMA AirCases ==
  ASSUME NEW air, AirOK(air), NEW p, FromAir(air, p)
  PROVE  /\ p.pid \notin PmtPids => p.pid = Patpid \/ p.pid \in {Streams, NullPid}
         /\ p.pid \in PmtPids =>
              /\ air.version[p.pid] \in DOMAIN Table[p.pid]
              /\ \E k \in DOMAIN Table[p.pid][air.version[p.pid]].es : \E c :
                   p = PmtOf(p.pid, air.version[p.pid], k, c)
<1>1. ASSUME NEW pid \in PmtPids, NEW k, NEW c, p = PmtOf(pid, air.version[pid], k, c)
      PROVE  p.pid = pid
  BY <1>1 DEF PmtOf
<1>2. {Patpid, Streams, NullPid} \cap PmtPids = {}
  BY SplitterAssumption
<1> QED BY <1>1, <1>2 DEF FromAir, AirOK

(* What SplitPacket does in the use of the splitter. *)
LEMMA CheckKeeps ==
  ASSUME NEW air, AirOK(air), NEW s, ReadInv(s, air), Counting(s, TRUE), NEW pid \in ChosenPmts(s),
         NEW k \in DOMAIN Table[pid][air.version[pid]].es, NEW c
  PROVE  LET t == CheckVersion(s, PmtOf(pid, air.version[pid], k, c))
         IN ReadInv(t, air) /\ Counting(t, TRUE) /\ Fixed(s, t)
<1> DEFINE p == PmtOf(pid, air.version[pid], k, c)
<1>1. CheckVersion(s, p) = s \/ CheckVersion(s, p) = RescanPID(s, p)
  BY Zenon DEF CheckVersion
<1>2. Fixed(s, s)
  BY DEF Fixed
<1>3. ReadInv(RescanPID(s, p), air) /\ Counting(RescanPID(s, p), TRUE) /\ Fixed(s, RescanPID(s, p))
  BY RescanKeeps
<1> HIDE DEF p
<1> QED BY <1>1, <1>2, <1>3 DEF p

SplitSp(st, p) == IF p.pid \in PmtPids /\ st.sp.pmt_pids[p.pid] # 0 THEN CheckVersion(st.sp, p) ELSE st.sp

LEMMA SplitPacketIs ==
  ASSUME NEW st, NEW p
  PROVE  /\ SplitPacket(st, p).sp = SplitSp(st, p)
         /\ SplitPacket(st, p).out \subseteq st.out \cup {Patpid} \cup Passing(SplitSp(st, p))
<1> DEFINE t == IF p.pid \in PmtPids /\ st.sp.pmt_pids[p.pid] # 0 THEN CheckVersion(st.sp, p) ELSE st.sp
<1>1. t = SplitSp(st, p)
  BY Zenon DEF SplitSp
<1>2. SplitPacket(st, p) =
        CASE p.pid = Patpid -> [sp |-> t, out |-> st.out \cup {Patpid}]
          [] p.pid = Streams -> [sp |-> t, out |-> st.out \cup (Passing(t) \ PmtPids)]
          [] OTHER -> [sp |-> t, out |-> st.out \cup (Passing(t) \cap {p.pid})]
  BY Zenon DEF SplitPacket
<1> HIDE DEF t
<1>3. CASE p.pid = Patpid
  BY <1>1, <1>2, <1>3
<1>4. CASE p.pid = Streams
  BY <1>1, <1>2, <1>4
<1>5. CASE p.pid # Patpid /\ p.pid # Streams
  BY <1>1, <1>2, <1>5
<1> QED BY <1>3, <1>4, <1>5

LEMMA SplitStep ==
  ASSUME NEW air, AirOK(air), NEW st, ReadInv(st.sp, air), Counting(st.sp, TRUE), NEW p, FromAir(air, p)
  PROVE  LET r == SplitPacket(st, p)
         IN /\ ReadInv(r.sp, air) /\ Counting(r.sp, TRUE) /\ Fixed(st.sp, r.sp)
            /\ r.out \subseteq st.out \cup {Patpid} \cup Passing(r.sp)
<1>1. ReadInv(SplitSp(st, p), air) /\ Counting(SplitSp(st, p), TRUE) /\ Fixed(st.sp, SplitSp(st, p))
  <2>1. CASE p.pid \in PmtPids /\ st.sp.pmt_pids[p.pid] # 0
    <3>1. p.pid \in ChosenPmts(st.sp)
      BY <2>1 DEF ChosenPmts
    <3>20. PICK k \in DOMAIN Table[p.pid][air.version[p.pid]].es :
              \E c : p = PmtOf(p.pid, air.version[p.pid], k, c)
      BY <2>1, AirCases
    <3>2. PICK c : p = PmtOf(p.pid, air.version[p.pid], k, c)
      BY <3>20
    <3>3. SplitSp(st, p) = CheckVersion(st.sp, p)
      BY <2>1 DEF SplitSp
    <3> QED BY <3>1, <3>2, <3>3, CheckKeeps
  <2>2. CASE ~(p.pid \in PmtPids /\ st.sp.pmt_pids[p.pid] # 0)
    <3>1. SplitSp(st, p) = st.sp
      BY <2>2 DEF SplitSp
    <3> QED BY <3>1 DEF Fixed
  <2> QED BY <2>1, <2>2
<1> QED BY <1>1, SplitPacketIs

\* What split_ts leaves alone even where the choice has not succeeded.
LEMMA SplitStepFixed ==
  ASSUME NEW air, AirOK(air), NEW st, Shape(st.sp), NEW p, FromAir(air, p)
  PROVE  LET r == SplitPacket(st, p)
         IN Shape(r.sp) /\ Fixed(st.sp, r.sp)
<1>0. SplitPacket(st, p).sp = SplitSp(st, p)
  BY SplitPacketIs
<1>1. CASE p.pid \in PmtPids /\ st.sp.pmt_pids[p.pid] # 0
  <2>1. SplitSp(st, p) = CheckVersion(st.sp, p)
    BY <1>1 DEF SplitSp
  <2>2. CheckVersion(st.sp, p) = st.sp \/ CheckVersion(st.sp, p) = RescanPID(st.sp, p)
    BY Zenon DEF CheckVersion
  <2>3. PICK k, c : p = PmtOf(p.pid, air.version[p.pid], k, c)
    BY <1>1, AirCases
  <2>4. Shape(RescanPID(st.sp, p)) /\ Fixed(st.sp, RescanPID(st.sp, p))
    <3>1. air.version[p.pid] \in DOMAIN Table[p.pid]
      BY <1>1, AirCases
    <3> QED BY <1>1, <2>3, <3>1, RescanFixed
  <2>5. Fixed(st.sp, st.sp)
    BY DEF Fixed
  <2> QED BY <1>0, <2>1, <2>2, <2>4, <2>5
<1>2. CASE ~(p.pid \in PmtPids /\ st.sp.pmt_pids[p.pid] # 0)
  BY <1>0, <1>2 DEF SplitSp, Fixed
<1> QED BY <1>1, <1>2

LEMMA SplitTsKeeps ==
  ASSUME NEW air, AirOK(air), NEW s, ReadInv(s, air), Counting(s, TRUE),
         NEW block, Len(block) \in Nat, \A i \in 1 .. Len(block) : FromAir(air, block[i])
  PROVE  LET r == split_ts(s, block)
         IN /\ ReadInv(r.sp, air) /\ Counting(r.sp, TRUE) /\ Fixed(s, r.sp)
            /\ r.out \subseteq {Patpid} \cup ChosenPmts(s) \cup Epg(s, air) \cup Named(s, air)
<1>1. PICK pass : /\ pass = [i \in 0 .. Len(block) |->
                                IF i = 0 THEN [sp |-> s, out |-> {}]
                                ELSE SplitPacket(pass[i - 1], block[i])]
                  /\ split_ts(s, block) = pass[Len(block)]
  BY SplitLoop
<1> DEFINE all == {Patpid} \cup ChosenPmts(s) \cup Epg(s, air) \cup Named(s, air)
           Good(r) == /\ ReadInv(r.sp, air) /\ Counting(r.sp, TRUE) /\ Fixed(s, r.sp)
                      /\ r.out \subseteq all
           Bad == {i \in 0 .. Len(block) : ~Good(pass[i])}
<1>2. Bad = {}
  <2> SUFFICES ASSUME Bad # {} PROVE FALSE
    OBVIOUS
  <2>1. PICK m \in Bad : \A x \in Bad : m <= x
    <3> HIDE DEF Good
    <3>1. Bad \in SUBSET Nat
      OBVIOUS
    <3> HIDE DEF Bad
    <3> QED BY <3>1, Smallest
  <2>2. m # 0
    <3>1. pass[0] = [sp |-> s, out |-> {}]
      BY <1>1
    <3>2. pass[0].sp = s /\ pass[0].out = {}
      BY <3>1
    <3>3. Fixed(s, s)
      BY DEF Fixed
    <3>4. Good(pass[0])
      BY <3>2, <3>3
    <3> HIDE DEF Good
    <3> QED BY <3>4
  <2>3. m \in 1 .. Len(block) /\ m - 1 \in 0 .. Len(block)
    BY <2>2
  <2>4. Good(pass[m - 1])
    <3> HIDE DEF Good
    <3>1. m - 1 \notin Bad
      <4> HIDE DEF Bad
      <4>1. m \in Nat /\ ~(m <= m - 1)
        BY <2>3
      <4> QED BY <2>1, <4>1
    <3> QED BY <2>3, <3>1
  <2>5. pass[m] = SplitPacket(pass[m - 1], block[m])
    <3> HIDE DEF Good, Bad
    <3>1. m \in 0 .. Len(block)
      BY <2>3
    <3> QED BY <1>1, <2>2, <3>1
  <2> DEFINE st == pass[m - 1]
             r == pass[m]
  <2> HIDE DEF st, r
  <2>6. /\ ReadInv(r.sp, air) /\ Counting(r.sp, TRUE) /\ Fixed(st.sp, r.sp)
        /\ r.out \subseteq st.out \cup {Patpid} \cup Passing(r.sp)
    BY <2>3, <2>4, <2>5, SplitStep DEF st, r
  <2>7. Fixed(s, r.sp)
    BY <2>4, <2>6 DEF Fixed, st
  <2>8. Passing(r.sp) \subseteq all
    <3>1. /\ ChosenPmts(r.sp) = ChosenPmts(s) /\ Epg(r.sp, air) = Epg(s, air)
          /\ Named(r.sp, air) = Named(s, air)
      BY <2>7 DEF Fixed, ChosenPmts, Epg, EpgAsked, Looked, Named
    <3> QED BY <2>6, <3>1 DEF ReadInv, AtMost
  <2>9. Good(r)
    BY <2>4, <2>6, <2>7, <2>8 DEF st
  <2> HIDE DEF Good
  <2> QED BY <2>9 DEF r
<1>3. Good(pass[Len(block)])
  <2> HIDE DEF Good
  <2>1. Len(block) \in 0 .. Len(block) /\ Len(block) \notin Bad
    BY <1>2
  <2> QED BY <2>1
<1> QED BY <1>1, <1>3

LEMMA SplitTsFixed ==
  ASSUME NEW air, AirOK(air), NEW s, Shape(s),
         NEW block, Len(block) \in Nat, \A i \in 1 .. Len(block) : FromAir(air, block[i])
  PROVE  Fixed(s, split_ts(s, block).sp) /\ Shape(split_ts(s, block).sp)
<1>1. PICK pass : /\ pass = [i \in 0 .. Len(block) |->
                                IF i = 0 THEN [sp |-> s, out |-> {}]
                                ELSE SplitPacket(pass[i - 1], block[i])]
                  /\ split_ts(s, block) = pass[Len(block)]
  BY SplitLoop
<1> DEFINE Good(r) == Shape(r.sp) /\ Fixed(s, r.sp)
           Bad == {i \in 0 .. Len(block) : ~Good(pass[i])}
<1>2. Bad = {}
  <2> SUFFICES ASSUME Bad # {} PROVE FALSE
    OBVIOUS
  <2>1. PICK m \in Bad : \A x \in Bad : m <= x
    <3> HIDE DEF Good
    <3>1. Bad \in SUBSET Nat
      OBVIOUS
    <3> HIDE DEF Bad
    <3> QED BY <3>1, Smallest
  <2>2. m # 0
    <3>1. pass[0] = [sp |-> s, out |-> {}]
      BY <1>1
    <3>2. pass[0].sp = s /\ Fixed(s, s)
      BY <3>1 DEF Fixed
    <3>3. Good(pass[0])
      BY <3>2
    <3> HIDE DEF Good
    <3> QED BY <3>3
  <2>3. m \in 1 .. Len(block) /\ m - 1 \in 0 .. Len(block)
    BY <2>2
  <2>4. Good(pass[m - 1])
    <3> HIDE DEF Good
    <3>1. m - 1 \notin Bad
      <4> HIDE DEF Bad
      <4>1. m \in Nat /\ ~(m <= m - 1)
        BY <2>3
      <4> QED BY <2>1, <4>1
    <3> QED BY <2>3, <3>1
  <2>5. pass[m] = SplitPacket(pass[m - 1], block[m])
    <3> HIDE DEF Good, Bad
    <3>1. m \in 0 .. Len(block)
      BY <2>3
    <3> QED BY <1>1, <2>2, <3>1
  <2> DEFINE st == pass[m - 1]
             r == pass[m]
  <2> HIDE DEF st, r
  <2>6. Shape(r.sp) /\ Fixed(st.sp, r.sp)
    BY <2>3, <2>4, <2>5, SplitStepFixed DEF st, r
  <2>7. Good(r)
    BY <2>4, <2>6 DEF Fixed, st
  <2> HIDE DEF Good
  <2> QED BY <2>7 DEF r
<1>3. Good(pass[Len(block)])
  <2> HIDE DEF Good
  <2>1. Len(block) \in 0 .. Len(block) /\ Len(block) \notin Bad
    BY <1>2
  <2> QED BY <2>1
<1> QED BY <1>1, <1>3

-----------------------------------------------------------------------------
(* split_select. *)

\* A PMT that is counted in the choice.
Got(r, pid) == IF r.complete THEN [r.sp EXCEPT !.pmt_pids[pid] = 2, !.pmt_counter = @ + 1] ELSE r.sp

\* What a packet of the block leaves of the splitter once the PAT has been seen.
Goes(t, g, air) ==
  /\ ReadInv(g, air) /\ Judged(g) /\ ChosenPmts(g) = ChosenPmts(t) /\ g.pat = t.pat
  /\ g.sid_list = t.sid_list /\ g.pmt_retain = t.pmt_retain

\* Reading a PMT for the first time.
LEMMA FirstKeeps ==
  ASSUME NEW air, AirOK(air), NEW s, ReadInv(s, air), Counting(s, FALSE), NEW pid \in PmtPids,
         s.pmt_pids[pid] = 1, NEW k \in DOMAIN Table[pid][air.version[pid]].es, NEW c
  PROVE  LET r == AnalyzePmt(s, PmtOf(pid, air.version[pid], k, c), 1)
             got == Got(r, pid)
         IN Goes(s, got, air)
<1> DEFINE r == AnalyzePmt(s, PmtOf(pid, air.version[pid], k, c), 1)
           got == Got(r, pid)
<1>1. pid \in ChosenPmts(s) /\ pid \notin s.note.counted
  <2>1. pid \in ChosenPmts(s)
    BY DEF ChosenPmts
  <2> QED BY <2>1 DEF Counting
<1>2. Kept(s, r, air, pid, 1)
  BY <1>1, PmtKeeps
<1> HIDE DEF r
<1> DEFINE g == [r.sp EXCEPT !.pmt_pids[pid] = 2, !.pmt_counter = @ + 1]
<1>0. (r.complete => got = g) /\ (~r.complete => got = r.sp)
  BY DEF Got
<1> HIDE DEF got
<1>3. /\ ReadInv(r.sp, air) /\ ChosenPmts(r.sp) = ChosenPmts(s) /\ Fixed(s, r.sp)
      /\ Values(r.sp, {0, 1}) /\ r.sp.pmt_counter = s.pmt_counter /\ r.complete \in BOOLEAN
      /\ r.sp.note.counted = (IF r.complete THEN s.note.counted \cup {pid} ELSE s.note.counted)
  <2>1. Values(r.sp, {0, 1})
    BY <1>2 DEF Kept, Counting, Values
  <2> QED BY <1>2, <2>1 DEF Kept, ChosenPmts, Fixed
<1>4. ~r.sp.note.rescanned
  BY <1>2 DEF Kept, Counting
<1>5. /\ s.pmt_counter = Cardinality(s.note.counted) /\ s.pmt_counter \in Nat /\ s.pmt_retain \in Int
      /\ Cardinality(s.note.counted \cup {pid}) = s.pmt_counter + 1
      /\ Cardinality(s.note.counted \cup {pid}) <= Cardinality(ChosenPmts(s))
      /\ Cardinality(ChosenPmts(s)) \in Nat /\ Cardinality(ChosenPmts(s)) <= s.pmt_retain
      /\ s.pmt_counter # s.pmt_retain /\ s.pmt_counter <= s.pmt_retain
      /\ \A p \in ChosenPmts(s) : s.pmt_pids[p] = IF p \in s.note.counted THEN 2 ELSE 1
  <2>1. s.pmt_counter \in Nat /\ s.pmt_retain \in Int
    BY DEF ReadInv, Shape
  <2> QED BY <1>1, <2>1, CountedFinite DEF Counting
<1>6. ASSUME ~r.complete PROVE Goes(s, got, air)
  <2>1. got = r.sp
    BY <1>0, <1>6
  <2>2. Counting(r.sp, FALSE) /\ r.sp.pmt_counter # r.sp.pmt_retain
    BY <1>3, <1>4, <1>5, <1>6 DEF Counting, Fixed
  <2> QED BY <1>3, <2>1, <2>2 DEF Fixed, Judged, Goes
<1>7. ASSUME r.complete PROVE Goes(s, got, air)
  <2>0. Shape(r.sp) /\ pid \in AllPids
    BY <1>3 DEF ReadInv, AllPids
  <2>1. /\ DOMAIN g = Fields /\ g.note = r.sp.note /\ g.pids = r.sp.pids
        /\ g.pmt_pids = [s.pmt_pids EXCEPT ![pid] = 2]
        /\ g.pat = s.pat /\ g.sid_list = s.sid_list /\ g.pmt_retain = s.pmt_retain
        /\ g.pmt_counter = s.pmt_counter + 1
        /\ g.section_remain = r.sp.section_remain /\ g.pmt_version = r.sp.pmt_version
    BY <1>3, <2>0 DEF Shape, Fields, Fixed
  <2> HIDE DEF g
  <2>2. s.pmt_pids \in [AllPids -> Nat]
    BY DEF ReadInv, Shape
  <2>3. Shape(g)
    <3>1. g.pmt_counter \in Nat
      BY <1>5, <2>1
    <3>2. g.pmt_pids \in [AllPids -> Nat]
      <4>1. 2 \in Nat
        OBVIOUS
      <4> QED BY <2>1, <2>2, <4>1, Zenon
    <3> QED BY <1>5, <2>0, <2>1, <3>1, <3>2 DEF Shape
  <2>4. /\ g.pmt_pids[pid] = 2 /\ s.pmt_pids[pid] = 1
        /\ \A q \in AllPids : q # pid => g.pmt_pids[q] = s.pmt_pids[q]
    BY <2>0, <2>1, <2>2
  <2>5. ReadInv(g, air) /\ ChosenPmts(g) = ChosenPmts(r.sp)
    <3>1. Passing(g) = Passing(r.sp)
      BY <2>1 DEF Passing
    <3>2. \A q \in AllPids : g.pmt_pids[q] # 0 <=> r.sp.pmt_pids[q] # 0
      BY <1>3, <2>4 DEF Fixed
    <3>3. g.pat = r.sp.pat /\ g.sid_list = r.sp.sid_list
      BY <1>3, <2>1 DEF Fixed
    <3> QED BY <1>3, <2>1, <2>3, <3>1, <3>2, <3>3, SameReads
  <2>6. Values(g, {0, 1}) /\ g.note.counted = s.note.counted \cup {pid} /\ ~g.note.rescanned
    BY <1>3, <1>4, <1>7, <2>1 DEF Values
  <2>7. \A p \in ChosenPmts(g) : g.pmt_pids[p] = IF p \in g.note.counted THEN 2 ELSE 1
    <3>1. \A p \in ChosenPmts(g) : p \in AllPids
      BY DEF ChosenPmts, AllPids
    <3> QED BY <1>3, <1>5, <2>4, <2>5, <2>6, <3>1
  <2>8. g.pmt_counter = Cardinality(g.note.counted) /\ g.pmt_counter <= g.pmt_retain
    BY <1>5, <2>1, <2>6
  <2>9. CASE g.pmt_counter = g.pmt_retain
    <3>1. g.note.counted = ChosenPmts(g)
      <4>1. Cardinality(g.note.counted) = Cardinality(ChosenPmts(g))
        BY <1>3, <1>5, <2>1, <2>5, <2>6, <2>8, <2>9
      <4> QED BY <2>5, <4>1, CountedFinite
    <3>2. Counting(g, TRUE)
      BY <1>3, <1>5, <2>1, <2>5, <2>6, <2>7, <2>8, <2>9, <3>1 DEF Counting
    <3> QED BY <1>0, <1>3, <1>7, <2>1, <2>5, <2>9, <3>2 DEF Judged, Goes
  <2>10. CASE g.pmt_counter # g.pmt_retain
    <3>1. Counting(g, FALSE)
      BY <1>3, <1>5, <2>1, <2>5, <2>6, <2>7, <2>8, <2>10 DEF Counting
    <3> QED BY <1>0, <1>3, <1>7, <2>1, <2>5, <2>10, <3>1 DEF Judged, Goes
  <2> QED BY <2>9, <2>10
<1> QED BY <1>3, <1>6, <1>7 DEF r, got

-----------------------------------------------------------------------------
(* The choice of the services. *)

Taken(s, pat, old) ==
  {t \in ToSet(Services(pat)) \X DOMAIN s.sid_list : t[2] \in Hits(s, pat, old, t[1])}
Fallback(s, pat, old) == s.sid_list # <<>> /\ ~EpgAsked(s, pat) /\ Taken(s, pat, old) = {}
Chosen(s, pat, old) ==
  IF Fallback(s, pat, old) THEN ToSet(Services(pat)) ELSE {t[1] : t \in Taken(s, pat, old)}
Awaited(s, pat, old) == IF Fallback(s, pat, old) THEN ToSet(Services(pat)) ELSE Taken(s, pat, old)
PmtsOf(S) == {e[2] : e \in S}

\* The image of a finite set, as large as the set when no two members have the same image.
LEMMA ImageSize ==
  ASSUME NEW S, IsFiniteSet(S), NEW f, f = [x \in S |-> f[x]]
  PROVE  LET T == {f[x] : x \in S}
         IN /\ IsFiniteSet(T) /\ Cardinality(T) \in Nat /\ Cardinality(S) \in Nat
            /\ Cardinality(T) <= Cardinality(S)
            /\ (\A x, y \in S : f[x] = f[y] => x = y) => Cardinality(T) = Cardinality(S)
<1> DEFINE T == {f[x] : x \in S}
<1>1. f \in Surjection(S, T)
  BY DEF Surjection
<1>2. (\A x, y \in S : f[x] = f[y] => x = y) => f \in Injection(S, T)
  BY <1>1 DEF Surjection, Injection, IsInjective
<1>3. /\ IsFiniteSet(T) /\ Cardinality(T) <= Cardinality(S)
      /\ f \in Injection(S, T) => Cardinality(T) = Cardinality(S)
  BY <1>1, FS_Surjection
<1>4. Cardinality(T) \in Nat /\ Cardinality(S) \in Nat
  BY <1>3, FS_CardinalityType
<1> QED BY <1>2, <1>3, <1>4

LEMMA ToSetFinite ==
  ASSUME NEW E, NEW l \in Seq(E)
  PROVE  IsFiniteSet(ToSet(l))
<1>1. Len(l) \in Nat /\ DOMAIN l = 1 .. Len(l)
  OBVIOUS
<1>2. IsFiniteSet(1 .. Len(l))
  BY <1>1, FS_Interval
<1>3. l = [x \in 1 .. Len(l) |-> l[x]]
  BY <1>1
<1>4. IsFiniteSet({l[x] : x \in 1 .. Len(l)})
  BY <1>2, <1>3, ImageSize
<1> QED BY <1>1, <1>4 DEF ToSet

LEMMA PatServices ==
  ASSUME NEW pat \in Pats
  PROVE  /\ pat \in Seq(Nat \X (PmtPids \cup {NitPid})) /\ Services(pat) \in Seq(Nat \X (PmtPids \cup {NitPid}))
         /\ IsFiniteSet(ToSet(Services(pat)))
         /\ \A e \in ToSet(Services(pat)) : e[1] \in Nat /\ e[2] \in PmtPids /\ e \in ToSet(pat)
<1>1. pat \in Seq(Nat \X (PmtPids \cup {NitPid}))
  BY ReaderAssumption
<1>2. /\ Services(pat) \in Seq(Nat \X (PmtPids \cup {NitPid}))
      /\ \A e : e \in ToSet(Services(pat)) <=> e \in ToSet(pat) /\ e[2] # NitPid
  BY <1>1, ServicesAre
<1>3. \A e \in ToSet(Services(pat)) : e \in Nat \X (PmtPids \cup {NitPid})
  BY <1>2 DEF ToSet
<1> QED BY <1>1, <1>2, <1>3, ToSetFinite

LEMMA TakenFinite ==
  ASSUME NEW s, NEW pat \in Pats, NEW old, s.sid_list \in Seq(DOMAIN Atoi)
  PROVE  /\ IsFiniteSet(Taken(s, pat, old)) /\ IsFiniteSet(Chosen(s, pat, old))
         /\ IsFiniteSet(Awaited(s, pat, old))
         /\ Cardinality(Chosen(s, pat, old)) \in Nat /\ Cardinality(Awaited(s, pat, old)) \in Nat
         /\ Cardinality(Chosen(s, pat, old)) <= Cardinality(Awaited(s, pat, old))
         /\ Chosen(s, pat, old) \subseteq ToSet(Services(pat))
         /\ (\A x, y \in Taken(s, pat, old) : x[1] = y[1] => x = y) =>
              Cardinality(Chosen(s, pat, old)) = Cardinality(Awaited(s, pat, old))
<1> DEFINE all == ToSet(Services(pat))
           taken == Taken(s, pat, old)
           first == [t \in taken |-> t[1]]
<1>1. IsFiniteSet(all)
  BY PatServices
<1>2. IsFiniteSet(taken)
  <2>1. IsFiniteSet(DOMAIN s.sid_list)
    <3>1. Len(s.sid_list) \in Nat /\ DOMAIN s.sid_list = 1 .. Len(s.sid_list)
      OBVIOUS
    <3>2. IsFiniteSet(1 .. Len(s.sid_list))
      BY <3>1, FS_Interval
    <3> QED BY <3>1, <3>2
  <2>2. IsFiniteSet(all \X DOMAIN s.sid_list)
    BY <1>1, <2>1, FS_Product
  <2>3. taken \subseteq all \X DOMAIN s.sid_list
    BY DEF Taken
  <2> QED BY <2>2, <2>3, FS_Subset
<1> HIDE DEF all
<1>3. {t[1] : t \in taken} \subseteq ToSet(Services(pat))
  BY DEF Taken
<1> HIDE DEF taken
<1>4. /\ IsFiniteSet({t[1] : t \in taken})
      /\ Cardinality({t[1] : t \in taken}) \in Nat /\ Cardinality(taken) \in Nat
      /\ Cardinality({t[1] : t \in taken}) <= Cardinality(taken)
      /\ (\A x, y \in taken : x[1] = y[1] => x = y) => Cardinality({t[1] : t \in taken}) = Cardinality(taken)
  <2>1. first = [t \in taken |-> first[t]] /\ \A t \in taken : first[t] = t[1]
    OBVIOUS
  <2>2. {first[t] : t \in taken} = {t[1] : t \in taken}
    BY <2>1
  <2> HIDE DEF first
  <2>3. /\ IsFiniteSet({first[t] : t \in taken}) /\ Cardinality({first[t] : t \in taken}) \in Nat
        /\ Cardinality(taken) \in Nat
        /\ Cardinality({first[t] : t \in taken}) <= Cardinality(taken)
        /\ (\A x, y \in taken : first[x] = first[y] => x = y) =>
             Cardinality({first[t] : t \in taken}) = Cardinality(taken)
    BY <1>2, <2>1, ImageSize
  <2>4. (\A x, y \in taken : x[1] = y[1] => x = y) => (\A x, y \in taken : first[x] = first[y] => x = y)
    BY <2>1
  <2> QED BY <2>2, <2>3, <2>4
<1>5. IsFiniteSet(ToSet(Services(pat))) /\ Cardinality(ToSet(Services(pat))) \in Nat
  BY <1>1, FS_CardinalityType DEF all
<1>6. CASE Fallback(s, pat, old)
  BY <1>2, <1>5, <1>6 DEF Chosen, Awaited, taken
<1>7. CASE ~Fallback(s, pat, old)
  <2>1. Chosen(s, pat, old) = {t[1] : t \in taken} /\ Awaited(s, pat, old) = taken
    BY <1>7 DEF Chosen, Awaited, taken
  <2> QED BY <1>2, <1>3, <1>4, <2>1 DEF taken
<1> QED BY <1>6, <1>7

LEMMA PatIs ==
  ASSUME NEW s, Shape(s), s.pat = {}, NEW pat, NEW old
  PROVE  LET t == AnalyzePat(s, pat, old)
             pmts == PmtsOf(Chosen(s, pat, old))
         IN /\ DOMAIN t = Fields /\ t.pat = {RecreatePat(pat, Chosen(s, pat, old))}
            /\ t.pmt_retain = Cardinality(Awaited(s, pat, old))
            /\ t.pmt_pids = [p \in AllPids |-> IF p \in pmts THEN 1 ELSE s.pmt_pids[p]]
            /\ t.pids = [p \in AllPids |-> IF p \in pmts \/ (EpgAsked(s, pat) /\ p \in EpgPids)
                                           THEN 1 ELSE s.pids[p]]
            /\ t.sid_list = s.sid_list /\ t.pmt_counter = s.pmt_counter /\ t.note = s.note
            /\ t.section_remain = s.section_remain /\ t.pmt_version = s.pmt_version
<1> DEFINE all == ToSet(Services(pat))
           taken == {t \in all \X DOMAIN s.sid_list : t[2] \in Hits(s, pat, old, t[1])}
           epg == EpgAsked(s, pat)
           fallback == s.sid_list # <<>> /\ ~epg /\ taken = {}
           chosen == IF fallback THEN all ELSE {t[1] : t \in taken}
           pmts == {e[2] : e \in chosen}
           new == [s EXCEPT !.pat = {RecreatePat(pat, chosen)},
                            !.pmt_retain = Cardinality(IF fallback THEN all ELSE taken),
                            !.pmt_pids = [p \in AllPids |-> IF p \in pmts THEN 1 ELSE @[p]],
                            !.pids = [p \in AllPids |->
                                        IF p \in pmts \/ (epg /\ p \in EpgPids) THEN 1 ELSE @[p]]]
<1>1. AnalyzePat(s, pat, old) = IF s.pat # {} THEN s ELSE new
  BY Zenon DEF AnalyzePat
<1>2. AnalyzePat(s, pat, old) = new
  BY <1>1
<1>3. /\ taken = Taken(s, pat, old) /\ fallback = Fallback(s, pat, old)
      /\ chosen = Chosen(s, pat, old) /\ pmts = PmtsOf(chosen)
      /\ (IF fallback THEN all ELSE taken) = Awaited(s, pat, old)
  BY DEF Taken, Fallback, Chosen, Awaited, PmtsOf
<1>4. epg \in BOOLEAN
  BY DEF EpgAsked
<1> HIDE DEF pmts, chosen, epg, fallback, taken
<1>5. /\ DOMAIN new = Fields /\ new.pat = {RecreatePat(pat, chosen)}
      /\ new.pmt_retain = Cardinality(IF fallback THEN all ELSE taken)
      /\ new.pmt_pids = [p \in AllPids |-> IF p \in pmts THEN 1 ELSE s.pmt_pids[p]]
      /\ new.pids = [p \in AllPids |-> IF p \in pmts \/ (epg /\ p \in EpgPids) THEN 1 ELSE s.pids[p]]
      /\ new.sid_list = s.sid_list /\ new.pmt_counter = s.pmt_counter /\ new.note = s.note
      /\ new.section_remain = s.section_remain /\ new.pmt_version = s.pmt_version
  BY DEF Shape, Fields
<1> HIDE DEF new
<1> QED BY <1>2, <1>3, <1>5 DEF epg

(* With the PAT the invariant begins. *)
Begins(s, t, air, old) ==
  /\ ReadInv(t, air) /\ Judged(t) /\ t.pat # {} /\ t.sid_list = s.sid_list
  /\ ChosenPmts(t) = PmtsOf(Chosen(s, air.pat, old))
  /\ t.pmt_retain = Cardinality(Awaited(s, air.pat, old))
  /\ t.pat = {RecreatePat(air.pat, Chosen(s, air.pat, old))}

LEMMA PatKeeps ==
  ASSUME NEW air, AirOK(air), NEW s, Shape(s), s.pat = {}, Untouched(s), NEW old,
         s.sid_list \in Seq(DOMAIN Atoi)
  PROVE  LET t == AnalyzePat(s, air.pat, old)
         IN Begins(s, t, air, old)
<1> DEFINE pat == air.pat
           t == AnalyzePat(s, pat, old)
           chosen == Chosen(s, pat, old)
           pmts == PmtsOf(chosen)
<1>0. pat \in Pats
  BY DEF AirOK
<1>1. /\ DOMAIN t = Fields /\ t.pat = {RecreatePat(pat, chosen)}
      /\ t.pmt_retain = Cardinality(Awaited(s, pat, old))
      /\ t.pmt_pids = [p \in AllPids |-> IF p \in pmts THEN 1 ELSE s.pmt_pids[p]]
      /\ t.pids = [p \in AllPids |-> IF p \in pmts \/ (EpgAsked(s, pat) /\ p \in EpgPids)
                                     THEN 1 ELSE s.pids[p]]
      /\ t.sid_list = s.sid_list /\ t.pmt_counter = s.pmt_counter /\ t.note = s.note
      /\ t.section_remain = s.section_remain /\ t.pmt_version = s.pmt_version
  BY PatIs
<1>2. /\ IsFiniteSet(chosen) /\ Cardinality(chosen) \in Nat /\ t.pmt_retain \in Nat
      /\ Cardinality(chosen) <= t.pmt_retain /\ chosen \subseteq ToSet(Services(pat))
  <2>1. /\ IsFiniteSet(chosen) /\ Cardinality(chosen) \in Nat /\ Cardinality(Awaited(s, pat, old)) \in Nat
        /\ Cardinality(chosen) <= Cardinality(Awaited(s, pat, old)) /\ chosen \subseteq ToSet(Services(pat))
    BY <1>0, TakenFinite
  <2> HIDE DEF chosen, t, pat
  <2> QED BY <1>1, <2>1
<1> HIDE DEF chosen, t, pat
<1>3. pmts \subseteq PmtPids /\ IsFiniteSet(pmts) /\ Cardinality(pmts) \in Nat /\ Cardinality(pmts) <= t.pmt_retain
  <2>1. pmts \subseteq PmtPids
    BY <1>0, <1>2, PatServices DEF PmtsOf
  <2> DEFINE f == [e \in chosen |-> e[2]]
  <2>2. f = [e \in chosen |-> f[e]] /\ pmts = {f[e] : e \in chosen}
    BY DEF PmtsOf
  <2> HIDE DEF f, pmts
  <2>3. IsFiniteSet(pmts) /\ Cardinality(pmts) \in Nat /\ Cardinality(pmts) <= Cardinality(chosen)
    BY <1>2, <2>2, ImageSize
  <2> QED BY <1>2, <2>1, <2>3
<1> HIDE DEF pmts
<1>4. pmts \subseteq AllPids /\ EpgPids \subseteq AllPids
  BY <1>3 DEF AllPids
<1>5. /\ \A q \in AllPids : s.pids[q] = 0 /\ s.pmt_pids[q] = 0
      /\ s.note.counted = {} /\ s.pmt_counter = 0 /\ ~s.note.again /\ ~s.note.rescanned
      /\ \A p \in PmtPids : s.section_remain[p] = 0
  BY DEF Untouched, Values
<1>6. Shape(t)
  <2>1. 0 \in Nat /\ 1 \in Nat
    OBVIOUS
  <2>2. t.pids \in [AllPids -> Nat] /\ t.pmt_pids \in [AllPids -> Nat]
    BY <1>1, <1>5, <2>1
  <2>3. t.pmt_counter \in Nat /\ t.pmt_retain \in Int
    BY <1>1, <1>2, <1>5
  <2> QED BY <1>1, <2>2, <2>3 DEF Shape
<1>7. /\ \A q \in AllPids : t.pmt_pids[q] = IF q \in pmts THEN 1 ELSE 0
      /\ \A q \in AllPids : t.pids[q] = IF q \in pmts \/ (EpgAsked(s, pat) /\ q \in EpgPids) THEN 1 ELSE 0
  BY <1>1, <1>5
<1>8. ChosenPmts(t) = pmts
  BY <1>3, <1>7 DEF ChosenPmts, AllPids
<1>9. Epg(t, air) = IF EpgAsked(s, pat) THEN EpgPids ELSE {}
  BY <1>1 DEF Epg, EpgAsked, Looked, pat
<1>10. Passing(t) = pmts \cup Epg(t, air)
  BY <1>4, <1>7, <1>9 DEF Passing
<1>11. SectionInv(t, air)
  BY <1>1, <1>5 DEF SectionInv
<1>12. Least(t, air) /\ Most(t, air) /\ AtMost(t, air)
  BY <1>1, <1>5, <1>8, <1>10 DEF Least, Most, AtMost
<1>13. ReadInv(t, air)
  <2>1. \A q \in AllPids : t.pmt_pids[q] # 0 => q \in PmtPids
    BY <1>3, <1>7
  <2> QED BY <1>6, <1>11, <1>12, <2>1 DEF ReadInv
<1>14. Values(t, {0, 1})
  BY <1>7 DEF Values
<1>15. t.pmt_counter = 0 /\ Cardinality(t.note.counted) = 0 /\ t.note.counted = {} /\ ~t.note.rescanned
  BY <1>1, <1>5, FS_EmptySet
<1>16. \A p \in ChosenPmts(t) : t.pmt_pids[p] = 1
  BY <1>4, <1>7, <1>8
<1>17. CASE t.pmt_retain = 0
  <2>1. pmts = {}
    BY <1>3, <1>17, FS_EmptySet
  <2>2. Counting(t, TRUE)
    BY <1>3, <1>8, <1>14, <1>15, <1>17, <2>1 DEF Counting
  <2> QED BY <1>1, <1>8, <1>13, <1>15, <1>17, <2>2 DEF Judged, Begins, t, pat, chosen, pmts
<1>18. CASE t.pmt_retain # 0
  <2>1. Counting(t, FALSE)
    BY <1>2, <1>3, <1>8, <1>14, <1>15, <1>16, <1>18 DEF Counting
  <2> QED BY <1>1, <1>8, <1>13, <1>15, <1>18, <2>1 DEF Judged, Begins, t, pat, chosen, pmts
<1> QED BY <1>17, <1>18

(* A packet of the block in split_select: what AnalyzePat makes of it, if it *)
(* is a PAT, and what AnalyzePmt makes of that, if it is a PMT waited for.   *)
AfterPat(s, p, old) == IF p.pid = Patpid THEN AnalyzePat(s, p.pat, old) ELSE s
AfterPmt(t, p) ==
  IF p.pid \in PmtPids /\ t.pmt_pids[p.pid] = 1 THEN AnalyzePmt(t, p, 1) ELSE [sp |-> t, complete |-> FALSE]

LEMMA PatOnAir ==
  ASSUME NEW air, NEW p, FromAir(air, p), p.pid = Patpid
  PROVE  p.pat = air.pat
<1>1. Patpid \notin PmtPids /\ Patpid \notin {Streams, NullPid}
  BY SplitterAssumption DEF Patpid, Streams, NullPid
<1>2. ASSUME NEW pid \in PmtPids, NEW k, NEW c, p = PmtOf(pid, air.version[pid], k, c)
      PROVE  p.pid = pid
  BY <1>2 DEF PmtOf
<1> QED BY <1>1, <1>2 DEF FromAir

HasPat(s, t, air) == ReadInv(t, air) /\ Judged(t) /\ t.pat # {} /\ t.sid_list = s.sid_list

LEMMA AfterPatKeeps ==
  ASSUME NEW air, AirOK(air), NEW s, SplitterInv(s, air, FALSE), s.sid_list \in Seq(DOMAIN Atoi), NEW old,
         NEW p, FromAir(air, p), p.pid = Patpid \/ s.pat # {}
  PROVE  LET t == AfterPat(s, p, old)
         IN HasPat(s, t, air)
<1>1. CASE s.pat = {}
  <2>1. Shape(s) /\ Untouched(s) /\ AfterPat(s, p, old) = AnalyzePat(s, air.pat, old)
    BY <1>1, PatOnAir DEF SplitterInv, AfterPat
  <2>2. Begins(s, AfterPat(s, p, old), air, old)
    BY <1>1, <2>1, PatKeeps
  <2> QED BY <2>2 DEF Begins, HasPat
<1>2. CASE s.pat # {}
  <2>1. AnalyzePat(s, p.pat, old) = s
    BY <1>2, Zenon DEF AnalyzePat
  <2>2. AfterPat(s, p, old) = s
    BY <2>1 DEF AfterPat
  <2>3. ReadInv(s, air) /\ Counting(s, FALSE)
    BY <1>2 DEF SplitterInv
  <2> QED BY <1>2, <2>2, <2>3 DEF Counting, Judged, HasPat
<1> QED BY <1>1, <1>2

LEMMA AfterPmtKeeps ==
  ASSUME NEW air, AirOK(air), NEW t, ReadInv(t, air), Judged(t), NEW p, FromAir(air, p)
  PROVE  LET g == Got(AfterPmt(t, p), p.pid)
         IN Goes(t, g, air)
<1> DEFINE read == p.pid \in PmtPids /\ t.pmt_pids[p.pid] = 1
<1>1. CASE read /\ t.pmt_counter # t.pmt_retain
  <2>10. PICK k \in DOMAIN Table[p.pid][air.version[p.pid]].es :
            \E c : p = PmtOf(p.pid, air.version[p.pid], k, c)
    BY <1>1, AirCases
  <2>1. PICK c : p = PmtOf(p.pid, air.version[p.pid], k, c)
    BY <2>10
  <2>2. Counting(t, FALSE) /\ p.pid \in PmtPids /\ t.pmt_pids[p.pid] = 1
    BY <1>1 DEF Judged
  <2>3. AfterPmt(t, p) = AnalyzePmt(t, PmtOf(p.pid, air.version[p.pid], k, c), 1)
    BY <1>1, <2>1 DEF AfterPmt
  <2> QED BY <2>2, <2>3, FirstKeeps
<1>2. CASE ~read
  <2>1. AfterPmt(t, p) = [sp |-> t, complete |-> FALSE]
    BY <1>2 DEF AfterPmt
  <2>2. Got(AfterPmt(t, p), p.pid) = t
    BY <2>1 DEF Got
  <2> QED BY <2>2 DEF Goes
<1>3. CASE read /\ t.pmt_counter = t.pmt_retain
  <2>1. p.pid \in ChosenPmts(t) /\ t.pmt_pids[p.pid] = 1
    BY <1>3 DEF ChosenPmts
  <2> QED BY <1>3, <2>1 DEF Counting, Judged
<1> QED BY <1>1, <1>2, <1>3

IsSelected(st, i, u, r, got) ==
  /\ u.sp = got /\ u.ok = (got.pmt_counter = got.pmt_retain)
  /\ u.block = IF r.complete THEN [st.block EXCEPT ![i] = [pid |-> NullPid]] ELSE st.block

LEMMA SelectPacketIs ==
  ASSUME NEW st, NEW i, NEW old, ~st.ok
  PROVE  LET p == st.block[i]
             r == AfterPmt(AfterPat(st.sp, p, old), p)
             u == SelectPacket(st, i, old)
         IN IsSelected(st, i, u, r, Got(r, p.pid))
<1> DEFINE p == st.block[i]
           t == IF p.pid = Patpid THEN AnalyzePat(st.sp, p.pat, old) ELSE st.sp
           first == p.pid \in PmtPids /\ t.pmt_pids[p.pid] = 1
           r == IF first THEN AnalyzePmt(t, p, 1) ELSE [sp |-> t, complete |-> FALSE]
           got == IF r.complete
                  THEN [r.sp EXCEPT !.pmt_pids[p.pid] = 2, !.pmt_counter = @ + 1] ELSE r.sp
           new == [sp |-> got, ok |-> got.pmt_counter = got.pmt_retain,
                   block |-> IF r.complete THEN [st.block EXCEPT ![i] = [pid |-> NullPid]] ELSE st.block]
<1>1. SelectPacket(st, i, old) = IF st.ok THEN st ELSE new
  BY Zenon DEF SelectPacket
<1>2. t = AfterPat(st.sp, p, old) /\ r = AfterPmt(t, p) /\ got = Got(r, p.pid)
  BY Zenon DEF AfterPat, AfterPmt, Got
<1> HIDE DEF t, r, got
<1>3. IsSelected(st, i, SelectPacket(st, i, old), r, got)
  BY <1>1 DEF IsSelected
<1> QED BY <1>2, <1>3

LEMMA SelectStep ==
  ASSUME NEW air, AirOK(air), NEW st, st.ok \in BOOLEAN, SplitterInv(st.sp, air, st.ok),
         st.sp.sid_list \in Seq(DOMAIN Atoi), NEW old,
         NEW i, FromAir(air, st.block[i])
  PROVE  LET r == SelectPacket(st, i, old)
             t == IF st.ok THEN st.sp ELSE AfterPat(st.sp, st.block[i], old)
         IN /\ r.ok \in BOOLEAN /\ SplitterInv(r.sp, air, r.ok) /\ r.sp.sid_list = st.sp.sid_list
            /\ r.sp.pat = t.pat /\ r.sp.pmt_retain = t.pmt_retain /\ ChosenPmts(r.sp) = ChosenPmts(t)
            /\ r.block = st.block \/ r.block = [st.block EXCEPT ![i] = [pid |-> NullPid]]
<1> DEFINE p == st.block[i]
           s == st.sp
           t == AfterPat(s, p, old)
           r == AfterPmt(t, p)
           got == Got(r, p.pid)
           u == SelectPacket(st, i, old)
<1>1. CASE st.ok
  <2>1. u = st
    BY <1>1, Zenon DEF SelectPacket
  <2> QED BY <1>1, <2>1
<1>2. CASE ~st.ok
  <2>1. /\ u.sp = got /\ u.ok = (got.pmt_counter = got.pmt_retain)
        /\ u.block = IF r.complete THEN [st.block EXCEPT ![i] = [pid |-> NullPid]] ELSE st.block
    <3>1. IsSelected(st, i, u, r, got)
      BY <1>2, SelectPacketIs
    <3> HIDE DEF u, r, got
    <3> QED BY <3>1 DEF IsSelected
  <2>2. SplitterInv(s, air, FALSE)
    BY <1>2 DEF SplitterInv
  <2>3. u.block = st.block \/ u.block = [st.block EXCEPT ![i] = [pid |-> NullPid]]
    BY <2>1
  <2> HIDE DEF u, got, r
  <2>4. CASE p.pid # Patpid /\ s.pat = {}
    <3>1. t = s /\ \A q \in AllPids : s.pmt_pids[q] = 0
      BY <2>2, <2>4 DEF SplitterInv, Untouched, AfterPat
    <3>2. r = [sp |-> s, complete |-> FALSE]
      BY <3>1 DEF AllPids, AfterPmt, r
    <3>3. got = s
      BY <3>2 DEF Got, got
    <3>4. s.pmt_counter # s.pmt_retain
      BY <2>2, <2>4 DEF SplitterInv, Untouched
    <3>5. u.ok = FALSE /\ u.sp = s
      BY <2>1, <3>3, <3>4
    <3> QED BY <1>2, <2>2, <2>3, <3>1, <3>5 DEF u
  <2>5. CASE p.pid = Patpid \/ s.pat # {}
    <3>1. ReadInv(t, air) /\ Judged(t) /\ t.pat # {} /\ t.sid_list = s.sid_list
      <4>1. HasPat(s, t, air)
        BY <2>2, <2>5, AfterPatKeeps
      <4> QED BY <4>1 DEF HasPat
    <3> HIDE DEF t
    <3>2. /\ ReadInv(got, air) /\ Judged(got) /\ ChosenPmts(got) = ChosenPmts(t) /\ got.pat = t.pat
          /\ got.sid_list = t.sid_list /\ got.pmt_retain = t.pmt_retain
      <4>1. Goes(t, got, air)
        BY <3>1, AfterPmtKeeps DEF got, r
      <4> QED BY <4>1 DEF Goes
    <3>3. u.ok \in BOOLEAN /\ (u.ok <=> got.pmt_counter = got.pmt_retain)
      BY <2>1
    <3>4. SplitterInv(got, air, u.ok)
      <4>1. CASE u.ok
        <5>1. Counting(got, TRUE)
          BY <3>2, <3>3, <4>1 DEF Judged
        <5>2. u.ok = TRUE
          BY <3>3, <4>1
        <5> QED BY <3>1, <3>2, <5>1, <5>2 DEF SplitterInv, ReadInv
      <4>2. CASE ~u.ok
        <5>1. Counting(got, FALSE)
          BY <3>2, <3>3, <4>2 DEF Judged
        <5>2. u.ok = FALSE
          BY <3>3, <4>2
        <5> QED BY <3>1, <3>2, <5>1, <5>2 DEF SplitterInv, ReadInv
      <4> QED BY <4>1, <4>2
    <3> QED BY <1>2, <2>1, <2>3, <3>1, <3>2, <3>3, <3>4 DEF u, t
  <2> QED BY <2>4, <2>5
<1> QED BY <1>1, <1>2

\* What the choice has come to.
Choice(s, air, old) == s.pat # {} =>
  /\ ChosenPmts(s) = PmtsOf(Chosen(s, air.pat, old))
  /\ s.pmt_retain = Cardinality(Awaited(s, air.pat, old))
  /\ s.pat = {RecreatePat(air.pat, Chosen(s, air.pat, old))}

LEMMA ChoiceSame ==
  ASSUME NEW s, NEW t, NEW air, NEW old, Choice(s, air, old), t.pat = s.pat, t.sid_list = s.sid_list,
         t.pmt_retain = s.pmt_retain, ChosenPmts(t) = ChosenPmts(s)
  PROVE  Choice(t, air, old)
<1>1. EpgAsked(t, air.pat) = EpgAsked(s, air.pat)
  BY DEF EpgAsked, Looked
<1>2. Taken(t, air.pat, old) = Taken(s, air.pat, old)
  BY DEF Taken, Hits
<1>3. Fallback(t, air.pat, old) = Fallback(s, air.pat, old)
  BY <1>1, <1>2 DEF Fallback
<1>4. /\ Chosen(t, air.pat, old) = Chosen(s, air.pat, old)
      /\ Awaited(t, air.pat, old) = Awaited(s, air.pat, old)
  BY <1>2, <1>3 DEF Chosen, Awaited
<1> QED BY <1>4 DEF Choice

LEMMA FixedChoice ==
  ASSUME NEW s, NEW t, NEW air, NEW old, Choice(s, air, old), Fixed(s, t)
  PROVE  Choice(t, air, old)
<1>1. ChosenPmts(t) = ChosenPmts(s)
  BY DEF Fixed, ChosenPmts
<1> QED BY <1>1, ChoiceSame DEF Fixed

LEMMA SelectChoice ==
  ASSUME NEW air, AirOK(air), NEW s, SplitterInv(s, air, FALSE), NEW old, Choice(s, air, old),
         s.sid_list \in Seq(DOMAIN Atoi), NEW p, FromAir(air, p)
  PROVE  Choice(AfterPat(s, p, old), air, old)
<1>1. CASE p.pid = Patpid /\ s.pat = {}
  <2> DEFINE t == AnalyzePat(s, air.pat, old)
  <2>1. Shape(s) /\ Untouched(s) /\ AfterPat(s, p, old) = t
    BY <1>1, PatOnAir DEF SplitterInv, AfterPat
  <2>2. Begins(s, t, air, old)
    BY <1>1, <2>1, PatKeeps
  <2> HIDE DEF t
  <2>3. /\ EpgAsked(t, air.pat) = EpgAsked(s, air.pat) /\ Taken(t, air.pat, old) = Taken(s, air.pat, old)
        /\ t.sid_list = s.sid_list
    BY <2>2 DEF Begins, EpgAsked, Looked, Taken, Hits
  <2>4. Fallback(t, air.pat, old) = Fallback(s, air.pat, old)
    BY <2>3 DEF Fallback
  <2>5. /\ Chosen(t, air.pat, old) = Chosen(s, air.pat, old)
        /\ Awaited(t, air.pat, old) = Awaited(s, air.pat, old)
    BY <2>3, <2>4 DEF Chosen, Awaited
  <2> QED BY <2>1, <2>2, <2>5 DEF Begins, Choice
<1>2. CASE p.pid # Patpid
  BY <1>2 DEF AfterPat
<1>3. CASE p.pid = Patpid /\ s.pat # {}
  <2>1. AnalyzePat(s, p.pat, old) = s
    BY <1>3, Zenon DEF AnalyzePat
  <2> QED BY <2>1 DEF AfterPat
<1> QED BY <1>1, <1>2, <1>3

\* The state of the loop of split_select.
Selecting(st, s, air, old, P) ==
  /\ st.ok \in BOOLEAN /\ SplitterInv(st.sp, air, st.ok) /\ st.sp.sid_list = s.sid_list
  /\ Choice(st.sp, air, old) /\ st.block \in Seq(P)

LEMMA SelectKeeps ==
  ASSUME NEW air, AirOK(air), NEW P, \A p \in P : FromAir(air, p), [pid |-> NullPid] \in P,
         NEW s, s.sid_list \in Seq(DOMAIN Atoi), NEW old,
         NEW st, Selecting(st, s, air, old, P), NEW i \in DOMAIN st.block
  PROVE  /\ Selecting(SelectPacket(st, i, old), s, air, old, P)
         /\ Len(SelectPacket(st, i, old).block) = Len(st.block)
<1> DEFINE r == SelectPacket(st, i, old)
           t == IF st.ok THEN st.sp ELSE AfterPat(st.sp, st.block[i], old)
<1>1. /\ st.ok \in BOOLEAN /\ SplitterInv(st.sp, air, st.ok) /\ st.sp.sid_list = s.sid_list
      /\ st.sp.sid_list \in Seq(DOMAIN Atoi) /\ Choice(st.sp, air, old) /\ st.block \in Seq(P)
  BY DEF Selecting
<1>2. FromAir(air, st.block[i])
  <2>1. st.block[i] \in P
    BY <1>1
  <2> QED BY <2>1
<1>3. /\ r.ok \in BOOLEAN /\ SplitterInv(r.sp, air, r.ok) /\ r.sp.sid_list = st.sp.sid_list
      /\ r.sp.pat = t.pat /\ r.sp.pmt_retain = t.pmt_retain /\ ChosenPmts(r.sp) = ChosenPmts(t)
      /\ r.block = st.block \/ r.block = [st.block EXCEPT ![i] = [pid |-> NullPid]]
  BY <1>1, <1>2, SelectStep
<1>4. Choice(t, air, old) /\ t.sid_list = st.sp.sid_list
  <2>1. CASE st.ok
    BY <1>1, <2>1
  <2>2. CASE ~st.ok
    <3>1. SplitterInv(st.sp, air, FALSE)
      BY <1>1, <2>2 DEF SplitterInv
    <3>2. Choice(AfterPat(st.sp, st.block[i], old), air, old)
      BY <1>1, <1>2, <3>1, SelectChoice
    <3>3. AfterPat(st.sp, st.block[i], old).sid_list = st.sp.sid_list
      <4>1. CASE st.block[i].pid = Patpid \/ st.sp.pat # {}
        <5>1. HasPat(st.sp, AfterPat(st.sp, st.block[i], old), air)
          BY <1>1, <1>2, <3>1, <4>1, AfterPatKeeps
        <5> QED BY <5>1 DEF HasPat
      <4>2. CASE st.block[i].pid # Patpid
        BY <4>2 DEF AfterPat
      <4> QED BY <4>1, <4>2
    <3> QED BY <2>2, <3>2, <3>3
  <2> QED BY <2>1, <2>2
<1> HIDE DEF r, t
<1>5. Choice(r.sp, air, old)
  BY <1>3, <1>4, ChoiceSame
<1>6. r.block \in Seq(P) /\ Len(r.block) = Len(st.block)
  BY <1>1, <1>3
<1> QED BY <1>1, <1>3, <1>5, <1>6 DEF Selecting, r

LEMMA ReadTsKeeps ==
  ASSUME NEW air, AirOK(air), NEW P, \A p \in P : FromAir(air, p), [pid |-> NullPid] \in P,
         NEW s, s.sid_list \in Seq(DOMAIN Atoi), NEW old, SplitterInv(s, air, FALSE), Choice(s, air, old),
         NEW block \in Seq(P), Len(block) # 0
  PROVE  Selecting(ReadTs(s, block, old), s, air, old, P)
<1>0. Len(block) \in Nat \ {0} /\ DOMAIN block = 1 .. Len(block)
  OBVIOUS
<1>1. PICK pass : /\ pass = [i \in 0 .. Len(block) - 1 |->
                                IF i = 0 THEN [sp |-> s, ok |-> FALSE, block |-> block]
                                ELSE SelectPacket(pass[i - 1], i, old)]
                  /\ ReadTs(s, block, old) = pass[Len(block) - 1]
  BY <1>0, SelectLoop
<1> DEFINE Good(r) == Selecting(r, s, air, old, P) /\ Len(r.block) = Len(block)
           Bad == {i \in 0 .. Len(block) - 1 : ~Good(pass[i])}
<1>2. Bad = {}
  <2> SUFFICES ASSUME Bad # {} PROVE FALSE
    OBVIOUS
  <2>1. PICK m \in Bad : \A x \in Bad : m <= x
    <3> HIDE DEF Good
    <3>1. Bad \in SUBSET Nat
      OBVIOUS
    <3> HIDE DEF Bad
    <3> QED BY <3>1, Smallest
  <2>2. m # 0
    <3> DEFINE r == [sp |-> s, ok |-> FALSE, block |-> block]
    <3>1. pass[0] = r
      <4> HIDE DEF Good, Bad
      <4>1. 0 \in 0 .. Len(block) - 1
        BY <1>0
      <4> QED BY <1>1, <4>1
    <3>2. r.sp = s /\ r.ok = FALSE /\ r.block = block
      OBVIOUS
    <3> HIDE DEF r
    <3>3. Good(r)
      BY <3>2 DEF Selecting
    <3> HIDE DEF Good
    <3> QED BY <3>1, <3>3
  <2>3. m \in 1 .. Len(block) - 1 /\ m - 1 \in 0 .. Len(block) - 1
    <3> HIDE DEF Good
    <3> QED BY <1>0, <2>2
  <2>4. Good(pass[m - 1])
    <3> HIDE DEF Good
    <3>1. m - 1 \notin Bad
      <4> HIDE DEF Bad
      <4>1. m \in Nat /\ ~(m <= m - 1)
        BY <1>0, <2>3
      <4> QED BY <2>1, <4>1
    <3> QED BY <2>3, <3>1
  <2>5. pass[m] = SelectPacket(pass[m - 1], m, old)
    <3> HIDE DEF Good, Bad
    <3>1. m \in 0 .. Len(block) - 1
      BY <1>0, <2>3
    <3> QED BY <1>1, <2>2, <3>1
  <2>6. m \in DOMAIN pass[m - 1].block
    <3>1. pass[m - 1].block \in Seq(P) /\ Len(pass[m - 1].block) = Len(block)
      BY <2>4 DEF Selecting
    <3>2. DOMAIN pass[m - 1].block = 1 .. Len(block)
      BY <3>1
    <3> QED BY <1>0, <2>3, <3>2
  <2> DEFINE st == pass[m - 1]
  <2>7. Good(SelectPacket(st, m, old))
    <3>1. Selecting(st, s, air, old, P) /\ m \in DOMAIN st.block /\ Len(st.block) = Len(block)
      BY <2>4, <2>6
    <3> HIDE DEF st
    <3>2. /\ Selecting(SelectPacket(st, m, old), s, air, old, P)
          /\ Len(SelectPacket(st, m, old).block) = Len(st.block)
      BY <3>1, SelectKeeps
    <3> QED BY <3>1, <3>2
  <2> HIDE DEF Good
  <2> QED BY <2>5, <2>7
<1>3. Good(pass[Len(block) - 1])
  <2> HIDE DEF Good
  <2>1. Len(block) - 1 \in 0 .. Len(block) - 1 /\ Len(block) - 1 \notin Bad
    BY <1>0, <1>2
  <2> QED BY <2>1
<1> QED BY <1>1, <1>3

-----------------------------------------------------------------------------
(* The broadcast. *)

AirInv(air) ==
  /\ AirOK(air) /\ air.part \in [PmtPids -> Nat]
  /\ \A p \in PmtPids : air.part[p] \in 1 .. Len(Table[p][air.version[p]].es)

\* The same PAT, and versions that only go up.
Later(air, next) ==
  next.pat = air.pat /\ \A p \in PmtPids : air.version[p] <= next.version[p]

LEMMA Sent ==
  ASSUME NEW kinds, NEW n \in Nat, NEW p
  PROVE  Cardinality({j \in 1 .. n : kinds[j] = p}) \in Nat
<1>1. IsFiniteSet(1 .. n)
  BY FS_Interval
<1>2. IsFiniteSet({j \in 1 .. n : kinds[j] = p})
  BY <1>1, FS_Subset
<1> QED BY <1>2, FS_CardinalityType

LEMMA AfterKeeps ==
  ASSUME NEW air, AirInv(air), NEW kinds, NEW n \in Nat
  PROVE  LET next == After(air, kinds, n)
         IN AirInv(next) /\ next.pat = air.pat /\ next.version = air.version
<1> DEFINE sent == [p \in PmtPids |-> Cardinality({j \in 1 .. n : kinds[j] = p})]
           long(p) == \E v \in DOMAIN Table[p] : Len(Table[p][v].es) > 1
           part == [p \in PmtPids |-> ((air.part[p] - 1 + sent[p]) % Len(Section(air, p).es)) + 1]
           cc == [p \in PmtPids |-> IF long(p) THEN (air.cc[p] + sent[p]) % CcMod ELSE 0]
           next == [air EXCEPT !.part = part, !.cc = cc]
<1>1. After(air, kinds, n) = next
  BY DEF After, AirInv, AirOK
<1>2. sent \in [PmtPids -> Nat]
  BY Sent
<1> HIDE DEF sent
<1>3. ASSUME NEW p \in PmtPids
      PROVE  part[p] \in Nat /\ part[p] \in 1 .. Len(Table[p][air.version[p]].es)
  <2>1. /\ Len(Section(air, p).es) \in Nat /\ air.part[p] \in 1 .. Len(Section(air, p).es)
        /\ sent[p] \in Nat /\ Section(air, p) = Table[p][air.version[p]]
    BY <1>2, Parts DEF AirInv, AirOK, Section
  <2> DEFINE size == Len(Section(air, p).es)
             x == air.part[p] - 1 + sent[p]
  <2>2. size \in Nat \ {0} /\ x \in Nat
    BY <2>1
  <2>3. part[p] = (x % size) + 1
    OBVIOUS
  <2> HIDE DEF size, x, part
  <2>4. x % size \in 0 .. size - 1
    BY <2>2
  <2>5. part[p] \in Nat /\ part[p] \in 1 .. size
    BY <2>2, <2>3, <2>4
  <2> QED BY <2>1, <2>5 DEF size
<1>4. DOMAIN part = PmtPids
  OBVIOUS
<1> HIDE DEF part, cc
<1>5. /\ DOMAIN next = {"pat", "version", "part", "cc"} /\ next.pat = air.pat /\ next.version = air.version
      /\ next.part = part
  BY DEF AirInv, AirOK
<1> HIDE DEF next
<1>6. part \in [PmtPids -> Nat]
  <2>1. part = [p \in PmtPids |-> part[p]]
    BY DEF part
  <2> QED BY <1>3, <1>4, <2>1
<1>7. AirInv(next)
  BY <1>3, <1>5, <1>6 DEF AirInv, AirOK
<1> QED BY <1>1, <1>5, <1>7

LEMMA PacketFromAir ==
  ASSUME NEW air, AirInv(air), NEW kind \in {Patpid, Streams} \cup PmtPids
  PROVE  FromAir(air, Packet(air, kind))
<1>0. Patpid \notin PmtPids /\ Streams \notin PmtPids /\ Patpid # Streams
  BY SplitterAssumption DEF Patpid, Streams
<1>1. CASE kind = Patpid
  <2>1. Packet(air, kind) = [pid |-> Patpid, pat |-> air.pat]
    BY <1>0, <1>1 DEF Packet
  <2> QED BY <2>1 DEF FromAir
<1>2. CASE kind = Streams
  <2>1. Packet(air, kind) = [pid |-> Streams]
    BY <1>0, <1>2 DEF Packet
  <2> QED BY <2>1 DEF FromAir
<1>3. CASE kind \in PmtPids
  <2>1. Packet(air, kind) = PmtPacket(air, kind)
    BY <1>0, <1>3 DEF Packet
  <2>2. PmtPacket(air, kind) = PmtOf(kind, air.version[kind], air.part[kind], air.cc[kind])
    BY DEF PmtPacket, PmtOf, Section
  <2>3. air.part[kind] \in DOMAIN Table[kind][air.version[kind]].es
    BY <1>3, Parts DEF AirInv, AirOK
  <2> QED BY <1>3, <2>1, <2>2, <2>3 DEF FromAir
<1> QED BY <1>1, <1>2, <1>3

LEMMA LaterKeeps ==
  ASSUME NEW air, AirOK(air), NEW next, AirOK(next), Later(air, next), NEW s, NEW ok \in BOOLEAN, NEW old
  PROVE  /\ SplitterInv(s, air, ok) => SplitterInv(s, next, ok)
         /\ Choice(s, air, old) => Choice(s, next, old)
<1>1. Choice(s, air, old) => Choice(s, next, old)
  BY DEF Choice, Later
<1>2. \A p \in PmtPids : air.version[p] \in Nat /\ next.version[p] \in Nat
  BY DEF AirOK
<1>3. ASSUME ReadInv(s, air) PROVE ReadInv(s, next)
  <2>1. Epg(s, next) = Epg(s, air)
    BY DEF Epg, Later
  <2>2. \A p \in PmtPids : \A v \in 1 .. air.version[p] : v \in 1 .. next.version[p]
    BY <1>2 DEF Later
  <2>3. Named(s, air) \subseteq Named(s, next)
    BY <2>2 DEF Named, ChosenPmts
  <2>4. SectionInv(s, next)
    BY <1>3, <2>2 DEF ReadInv, SectionInv, ChosenPmts
  <2>5. Least(s, next) /\ Most(s, next)
    BY <1>3, <2>1 DEF ReadInv, Least, Most
  <2>6. AtMost(s, next)
    BY <1>3, <2>1, <2>3 DEF ReadInv, AtMost
  <2> QED BY <1>3, <2>4, <2>5, <2>6 DEF ReadInv
<1>4. SplitterInv(s, air, ok) => SplitterInv(s, next, ok)
  BY <1>3 DEF SplitterInv
<1> QED BY <1>1, <1>4

\* What a block is.
BlockOf(air, b, P) ==
  /\ b.block \in Seq(P) /\ Len(b.block) # 0 /\ \A p \in P : FromAir(air, p)
  /\ [pid |-> NullPid] \in P
  /\ AirInv(b.air) /\ b.air.pat = air.pat /\ b.air.version = air.version

LEMMA BlocksAre ==
  ASSUME AirInv(onair), NEW b \in Blocks
  PROVE  \E P : BlockOf(onair, b, P)
<1>a. PICK n \in 2 .. MaxBlock : \E kinds \in [1 .. n -> Kinds] :
        b = [block |-> [i \in DOMAIN kinds |-> Packet(After(onair, kinds, i - 1), kinds[i])],
             air |-> After(onair, kinds, Len(kinds))]
  BY DEF Blocks
<1>1. PICK kinds \in [1 .. n -> Kinds] :
        b = [block |-> [i \in DOMAIN kinds |-> Packet(After(onair, kinds, i - 1), kinds[i])],
             air |-> After(onair, kinds, Len(kinds))]
  BY <1>a
<1> DEFINE f(i) == Packet(After(onair, kinds, i - 1), kinds[i])
           P == {f(i) : i \in 1 .. n} \cup {[pid |-> NullPid]}
<1>2. n \in Nat \ {0} /\ DOMAIN kinds = 1 .. n /\ Len(kinds) = n
  <2>1. n \in Nat \ {0}
    BY ReaderAssumption
  <2> QED BY <2>1
<1>3. Kinds \subseteq {Patpid, Streams} \cup PmtPids
  BY PatServices DEF Kinds, AirInv, AirOK
<1>4. ASSUME NEW i \in 1 .. n PROVE FromAir(onair, f(i))
  <2>1. i - 1 \in Nat /\ kinds[i] \in {Patpid, Streams} \cup PmtPids
    BY <1>2, <1>3
  <2> DEFINE next == After(onair, kinds, i - 1)
  <2>2. AirInv(next) /\ next.pat = onair.pat /\ next.version = onair.version
    BY <2>1, AfterKeeps
  <2> HIDE DEF next
  <2>3. FromAir(next, Packet(next, kinds[i]))
    BY <2>1, <2>2, PacketFromAir
  <2>4. FromAir(onair, Packet(next, kinds[i]))
    BY <2>2, <2>3 DEF FromAir
  <2> QED BY <2>4 DEF next
<1>5. FromAir(onair, [pid |-> NullPid])
  BY DEF FromAir
<1>6. \A p \in P : FromAir(onair, p)
  <2> HIDE DEF f
  <2> QED BY <1>4, <1>5
<1>7. b.block = [i \in 1 .. n |-> f(i)] /\ b.air = After(onair, kinds, n)
  BY <1>1, <1>2
<1>8. AirInv(b.air) /\ b.air.pat = onair.pat /\ b.air.version = onair.version
  BY <1>2, <1>7, AfterKeeps
<1> HIDE DEF f
<1>9. b.block \in Seq(P) /\ Len(b.block) # 0
  <2>1. \A i \in 1 .. n : f(i) \in P
    OBVIOUS
  <2> HIDE DEF P
  <2>2. b.block \in [1 .. n -> P]
    BY <1>7, <2>1
  <2>3. b.block \in Seq(P) /\ Len(b.block) = n
    BY <1>2, <2>2
  <2> QED BY <1>2, <2>3
<1>10. BlockOf(onair, b, P)
  <2>1. [pid |-> NullPid] \in P
    OBVIOUS
  <2> HIDE DEF P
  <2> QED BY <1>6, <1>8, <1>9, <2>1 DEF BlockOf
<1> QED BY <1>10

-----------------------------------------------------------------------------
(* The reader. *)

SrInv ==
  /\ AirInv(onair) /\ split_select_finish \in BOOLEAN /\ stray = {}
  /\ sp.sid_list \in Seq(DOMAIN Atoi) /\ Choice(sp, onair, stale) /\ Shape(sp)
  /\ reader = "running" => SplitterInv(sp, onair, split_select_finish)

LEMMA SrStart == SrInit => SrInv
<1> SUFFICES ASSUME SrInit PROVE SrInv
  OBVIOUS
<1>1. PICK pat \in Pats : onair = [pat |-> pat, version |-> [p \in PmtPids |-> 1],
                                   part |-> [p \in PmtPids |-> 1], cc |-> [p \in PmtPids |-> 0]]
  BY DEF SrInit
<1>2. PICK words \in Requests : sp = split_startup(words)
  BY DEF SrInit
<1>3. \A p \in PmtPids : 1 \in DOMAIN Table[p] /\ 1 \in 1 .. Len(Table[p][1].es)
  <2>1. \A p \in PmtPids : 1 \in DOMAIN Table[p]
    BY ReaderAssumption
  <2> QED BY <2>1, Parts
<1>4. AirInv(onair)
  <2>1. 1 \in Nat
    OBVIOUS
  <2>2. /\ DOMAIN onair = {"pat", "version", "part", "cc"} /\ onair.pat = pat
        /\ onair.version = [p \in PmtPids |-> 1] /\ onair.part = [p \in PmtPids |-> 1]
    BY <1>1
  <2>3. onair.version \in [PmtPids -> Nat] /\ onair.part \in [PmtPids -> Nat]
    BY <2>1, <2>2
  <2>4. \A p \in PmtPids : onair.version[p] = 1 /\ onair.part[p] = 1
    BY <2>2
  <2> QED BY <1>3, <2>2, <2>3, <2>4 DEF AirInv, AirOK
<1>5. /\ sp.pids = [p \in AllPids |-> 0] /\ sp.pmt_pids = [p \in AllPids |-> 0]
      /\ sp.pat = {} /\ sp.sid_list = words /\ sp.pmt_retain = -1 /\ sp.pmt_counter = 0
      /\ sp.pmt_version = [p \in PmtPids |-> NoVersion] /\ sp.section_remain = [p \in PmtPids |-> 0]
      /\ DOMAIN sp = Fields /\ DOMAIN sp.note = Notes
      /\ sp.note.counted = {} /\ sp.note.read = [p \in PmtPids |-> NoVersion]
  BY <1>2 DEF split_startup, Fields, Notes
<1>6. sp.note.again = FALSE /\ sp.note.rescanned = FALSE
  BY <1>2 DEF split_startup
<1>7. Shape(sp)
  <2>1. 0 \in Nat /\ NoVersion \in Nat /\ -1 \in Int
    BY DEF NoVersion
  <2> HIDE DEF NoVersion
  <2>2. /\ sp.pids \in [AllPids -> Nat] /\ sp.pmt_pids \in [AllPids -> Nat]
        /\ sp.section_remain \in [PmtPids -> Nat] /\ sp.pmt_version \in [PmtPids -> Nat]
        /\ sp.note.read \in [PmtPids -> Nat]
    BY <1>5, <2>1
  <2>3. sp.pmt_counter \in Nat /\ sp.pmt_retain \in Int
    BY <1>5
  <2> QED BY <1>5, <1>6, <2>2, <2>3 DEF Shape
<1>8. Untouched(sp)
  BY <1>5, <1>6 DEF Untouched, Values
<1>9. sp.sid_list \in Seq(DOMAIN Atoi)
  BY <1>5, ReaderAssumption
<1> QED BY <1>4, <1>5, <1>7, <1>8, <1>9 DEF SrInit, SrInv, SplitterInv, Choice

LEMMA SplitterShape ==
  ASSUME NEW s, NEW air, NEW ok, SplitterInv(s, air, ok)
  PROVE  Shape(s)
BY DEF SplitterInv

\* split_ts on a block when the choice has succeeded.
LEMMA WriteKeeps ==
  ASSUME SrInv, NEW b, NEW P, BlockOf(onair, b, P), NEW s, SplitterInv(s, onair, TRUE),
         s.sid_list = sp.sid_list, Choice(s, onair, stale),
         NEW block \in Seq(P), onair' = b.air, stale' = stale, Write(split_ts(s, block), b.air)
  PROVE  /\ stray' = {} /\ Shape(sp') /\ sp'.sid_list = sp.sid_list /\ Choice(sp', onair', stale')
         /\ AirInv(onair') /\ SplitterInv(sp', onair', TRUE)
<1> DEFINE r == split_ts(s, block)
<1>0. AirOK(onair) /\ AirOK(b.air) /\ AirInv(b.air) /\ Later(onair, b.air) /\ b.air.version = onair.version
  <2>1. AirOK(onair) /\ AirOK(b.air) /\ AirInv(b.air)
    BY DEF SrInv, AirInv, BlockOf
  <2>2. b.air.pat = onair.pat /\ b.air.version = onair.version
    BY DEF BlockOf
  <2>3. \A p \in PmtPids : onair.version[p] \in Nat
    BY <2>1 DEF AirOK
  <2> QED BY <2>1, <2>2, <2>3 DEF Later
<1>1. s.pat # {} /\ ReadInv(s, onair) /\ Counting(s, TRUE)
  BY DEF SplitterInv
<1>2. Len(block) \in Nat /\ \A i \in 1 .. Len(block) : FromAir(onair, block[i])
  BY DEF BlockOf
<1>3. /\ ReadInv(r.sp, onair) /\ Counting(r.sp, TRUE) /\ Fixed(s, r.sp)
      /\ r.out \subseteq {Patpid} \cup ChosenPmts(s) \cup Epg(s, onair) \cup Named(s, onair)
  BY <1>0, <1>1, <1>2, SplitTsKeeps
<1> HIDE DEF r
<1>4. sp' = r.sp /\ stray' = r.out \ ({Patpid} \cup ChosenPmts(r.sp) \cup Epg(r.sp, b.air) \cup Named(r.sp, b.air))
  BY DEF Write, r
<1>5. /\ ChosenPmts(r.sp) = ChosenPmts(s) /\ Epg(r.sp, b.air) = Epg(s, onair)
      /\ Named(r.sp, b.air) = Named(s, onair)
  BY <1>0, <1>3 DEF Fixed, ChosenPmts, Epg, EpgAsked, Looked, Named, Later
<1>6. stray' = {}
  BY <1>3, <1>4, <1>5
<1>7. SplitterInv(r.sp, onair, TRUE) /\ Choice(r.sp, onair, stale)
  <2>1. Choice(r.sp, onair, stale)
    BY <1>3, FixedChoice
  <2> QED BY <1>1, <1>3, <2>1 DEF SplitterInv, ReadInv, Fixed
<1>8. SplitterInv(r.sp, b.air, TRUE) /\ Choice(r.sp, b.air, stale)
  BY <1>0, <1>7, LaterKeeps
<1>9. r.sp.sid_list = sp.sid_list
  BY <1>3 DEF Fixed
<1> QED BY <1>0, <1>4, <1>6, <1>8, <1>9, SplitterShape

LEMMA DequeueKeeps ==
  ASSUME SrInv, Dequeue
  PROVE  SrInv'
<1>1. /\ reader = "running" /\ reader' = "running" /\ stale' = stale
      /\ SplitterInv(sp, onair, split_select_finish)
  BY DEF SrInv, Dequeue
<1>2. PICK b \in Blocks : onair' = b.air /\ (Select(b) \/ Split(b))
  BY DEF Dequeue
<1>3. PICK P : BlockOf(onair, b, P)
  BY BlocksAre DEF SrInv
<1>4. AirInv(b.air) /\ AirOK(b.air) /\ AirOK(onair) /\ Later(onair, b.air)
  <2>1. AirInv(b.air) /\ AirOK(b.air) /\ AirOK(onair) /\ b.air.pat = onair.pat /\ b.air.version = onair.version
    BY <1>3 DEF SrInv, AirInv, BlockOf
  <2>2. \A p \in PmtPids : onair.version[p] \in Nat
    BY <2>1 DEF AirOK
  <2> QED BY <2>1, <2>2 DEF Later
<1>5. CASE Split(b)
  <2>1. /\ split_select_finish = TRUE /\ split_select_finish' = TRUE
        /\ Write(split_ts(sp, b.block), b.air)
    BY <1>5 DEF Split, SrInv
  <2>2. SplitterInv(sp, onair, TRUE) /\ b.block \in Seq(P) /\ Choice(sp, onair, stale)
    BY <1>1, <1>3, <2>1 DEF BlockOf, SrInv
  <2>3. /\ stray' = {} /\ Shape(sp') /\ sp'.sid_list = sp.sid_list /\ Choice(sp', onair', stale')
        /\ AirInv(onair') /\ SplitterInv(sp', onair', TRUE)
    BY <1>1, <1>2, <1>3, <2>1, <2>2, WriteKeeps
  <2> QED BY <1>1, <2>1, <2>3 DEF SrInv
<1>6. CASE Select(b)
  <2> DEFINE r == ReadTs(sp, b.block, stale)
  <2>0. Select(b)
    BY <1>6
  <2>1. /\ split_select_finish = FALSE /\ split_select_finish' = r.ok
        /\ IF r.ok THEN Write(split_ts(r.sp, r.block), b.air)
           ELSE Write([sp |-> r.sp, out |-> {}], b.air)
    BY <2>0 DEF Select, SrInv
  <2>2. Selecting(r, sp, onair, stale, P)
    <3>1. SplitterInv(sp, onair, FALSE)
      BY <1>1, <2>1
    <3>2. sp.sid_list \in Seq(DOMAIN Atoi) /\ Choice(sp, onair, stale)
      BY DEF SrInv
    <3>3. /\ \A p \in P : FromAir(onair, p)
          /\ [pid |-> NullPid] \in P /\ b.block \in Seq(P) /\ Len(b.block) # 0
      BY <1>3 DEF BlockOf
    <3> HIDE DEF r
    <3> QED BY <1>4, <3>1, <3>2, <3>3, ReadTsKeeps DEF r
  <2> HIDE DEF r
  <2>3. /\ r.ok \in BOOLEAN /\ SplitterInv(r.sp, onair, r.ok) /\ r.sp.sid_list = sp.sid_list
        /\ Choice(r.sp, onair, stale) /\ r.block \in Seq(P)
    BY <2>2 DEF Selecting
  <2>4. CASE r.ok
    <3>1. SplitterInv(r.sp, onair, TRUE) /\ Write(split_ts(r.sp, r.block), b.air) /\ split_select_finish' = TRUE
      BY <2>1, <2>3, <2>4
    <3>2. /\ stray' = {} /\ Shape(sp') /\ sp'.sid_list = sp.sid_list /\ Choice(sp', onair', stale')
          /\ AirInv(onair') /\ SplitterInv(sp', onair', TRUE)
      BY <1>1, <1>2, <1>3, <2>3, <3>1, WriteKeeps
    <3> QED BY <1>1, <3>1, <3>2 DEF SrInv
  <2>5. CASE ~r.ok
    <3>1. Write([sp |-> r.sp, out |-> {}], b.air) /\ split_select_finish' = FALSE
      BY <2>1, <2>3, <2>5
    <3>2. sp' = r.sp /\ stray' = {}
      BY <3>1 DEF Write
    <3>3. SplitterInv(r.sp, onair, FALSE)
      BY <2>3, <2>5
    <3>4. SplitterInv(r.sp, b.air, FALSE) /\ Choice(r.sp, b.air, stale)
      BY <1>4, <2>3, <3>3, LaterKeeps
    <3>5. Shape(r.sp)
      BY <3>3, SplitterShape
    <3>6. sp'.sid_list \in Seq(DOMAIN Atoi)
      BY <2>3, <3>2 DEF SrInv
    <3> QED BY <1>1, <1>2, <1>4, <3>1, <3>2, <3>4, <3>5, <3>6 DEF SrInv
  <2> QED BY <2>4, <2>5
<1> QED BY <1>2, <1>5, <1>6

LEMMA FinishKeeps ==
  ASSUME SrInv, Finish
  PROVE  SrInv'
<1>1. reader' # "running" /\ UNCHANGED <<stale, use_splitter, split_select_finish, stray>>
  BY DEF Finish
<1>2. PICK b \in Blocks :
        IF ~use_splitter THEN reader' = "done" /\ UNCHANGED <<onair, sp>>
        ELSE IF sp.pat = {} /\ \E p \in ToSet(b.block) : p.pid = Patpid
        THEN reader' = "crashed" /\ UNCHANGED <<onair, sp>>
        ELSE reader' = "done" /\ onair' = b.air /\ sp' = split_ts(sp, b.block).sp
  BY DEF Finish
<1>3. CASE UNCHANGED <<onair, sp>>
  BY <1>1, <1>3 DEF SrInv
<1>4. CASE onair' = b.air /\ sp' = split_ts(sp, b.block).sp
  <2>1. PICK P : BlockOf(onair, b, P)
    BY BlocksAre DEF SrInv
  <2>2. AirInv(b.air) /\ AirOK(b.air) /\ AirOK(onair) /\ b.air.pat = onair.pat
    BY <2>1 DEF SrInv, AirInv, BlockOf
  <2>3. Len(b.block) \in Nat /\ \A i \in 1 .. Len(b.block) : FromAir(onair, b.block[i])
    BY <2>1 DEF BlockOf
  <2>4. Fixed(sp, sp') /\ Shape(sp')
    <3>1. Shape(sp)
      BY DEF SrInv
    <3>2. Fixed(sp, split_ts(sp, b.block).sp) /\ Shape(split_ts(sp, b.block).sp)
      BY <2>2, <2>3, <3>1, SplitTsFixed
    <3> QED BY <1>4, <3>2
  <2>5. Choice(sp', onair, stale)
    BY <2>4, FixedChoice DEF SrInv
  <2>6. Choice(sp', onair', stale')
    BY <1>1, <1>4, <2>2, <2>5 DEF Choice
  <2> QED BY <1>1, <1>4, <2>2, <2>4, <2>6 DEF SrInv, Fixed
<1> QED BY <1>2, <1>3, <1>4

LEMMA LoseKeeps ==
  ASSUME SrInv, NEW pid \in PmtPids, Lose(pid) \/ Change(pid)
  PROVE  SrInv'
<1>0. AirInv(onair) /\ AirOK(onair) /\ \A p \in PmtPids : onair.version[p] \in Nat
  BY DEF SrInv, AirInv, AirOK
<1>1. AirInv(onair') /\ Later(onair, onair')
  <2>1. CASE Lose(pid)
    <3>1. AirInv(onair') /\ onair'.pat = onair.pat /\ onair'.version = onair.version
      BY <1>0, <2>1, AfterKeeps DEF Lose
    <3> QED BY <1>0, <3>1 DEF Later
  <2>2. CASE Change(pid)
    <3> DEFINE up == [onair.version EXCEPT ![pid] = @ + 1]
               next == [onair EXCEPT !.version = up]
    <3>1. onair' = next
      BY <1>0, <2>2 DEF Change, AirOK
    <3>2. /\ up \in [PmtPids -> Nat] /\ onair.version \in [PmtPids -> Nat]
          /\ \A p \in PmtPids : up[p] = IF p = pid THEN onair.version[p] + 1 ELSE onair.version[p]
      BY <1>0 DEF AirOK
    <3> HIDE DEF up
    <3>3. /\ DOMAIN next = {"pat", "version", "part", "cc"} /\ next.pat = onair.pat
          /\ next.version = up /\ next.part = onair.part
      BY <1>0 DEF AirOK
    <3> HIDE DEF next
    <3>4. /\ onair.part[pid] = 1 /\ onair.version[pid] < Len(Table[pid])
          /\ onair.version[pid] \in DOMAIN Table[pid]
      BY <1>0, <2>2 DEF Change, AirOK
    <3>5. onair.version[pid] + 1 \in DOMAIN Table[pid]
      BY <1>0, <3>4, SectionType
    <3>6. 1 \in 1 .. Len(Table[pid][onair.version[pid] + 1].es)
      BY <3>5, Parts
    <3>7. \A p \in PmtPids : up[p] \in DOMAIN Table[p] /\ onair.part[p] \in 1 .. Len(Table[p][up[p]].es)
      BY <1>0, <3>2, <3>4, <3>5, <3>6 DEF AirInv, AirOK
    <3>8. AirInv(next)
      BY <1>0, <3>2, <3>3, <3>7 DEF AirInv, AirOK
    <3>9. Later(onair, next)
      BY <1>0, <3>2, <3>3 DEF Later
    <3> QED BY <3>1, <3>8, <3>9
  <2> QED BY <2>1, <2>2
<1>2. UNCHANGED <<stale, sp, use_splitter, split_select_finish, stray, reader>>
  BY DEF Lose, Change
<1>3. Choice(sp, onair', stale)
  <2>1. Choice(sp, onair, stale)
    BY DEF SrInv
  <2> QED BY <1>1, <2>1 DEF Choice, Later
<1>4. reader = "running" => SplitterInv(sp, onair', split_select_finish)
  <2> SUFFICES ASSUME reader = "running" PROVE SplitterInv(sp, onair', split_select_finish)
    OBVIOUS
  <2>1. SplitterInv(sp, onair, split_select_finish) /\ split_select_finish \in BOOLEAN
    BY DEF SrInv
  <2>2. AirOK(onair')
    BY <1>1 DEF AirInv
  <2> QED BY <1>0, <1>1, <2>1, <2>2, LaterKeeps
<1> QED BY <1>1, <1>2, <1>3, <1>4 DEF SrInv

LEMMA SrStep ==
  ASSUME SrInv, [SrNext]_srVars
  PROVE  SrInv'
<1>1. CASE Dequeue
  BY <1>1, DequeueKeeps
<1>2. CASE GiveUp
  BY <1>2 DEF GiveUp, SrInv
<1>3. CASE Finish
  BY <1>3, FinishKeeps
<1>4. CASE \E p \in Kinds \cap PmtPids : Lose(p) \/ Change(p)
  BY <1>4, LoseKeeps
<1>5. CASE UNCHANGED srVars
  BY <1>5 DEF srVars, SrInv
<1> QED BY <1>1, <1>2, <1>3, <1>4, <1>5 DEF SrNext

(* Whatever the services, the PMTs, the request and the blocks, and whatever *)
(* is lost: SrInv, the inductive invariant.                                  *)
THEOREM Splitter == SrSpec => []SrInv
<1>1. SrInv /\ [SrNext]_srVars => SrInv'
  BY SrStep
<1> QED BY SrStart, <1>1, PTL DEF SrSpec

(* No packet of a service that was not chosen, and none of a stream that no  *)
(* PMT of a chosen service has named so far, gets into the file.             *)
THEOREM NoForeignHolds == SrSpec => []NoForeign
<1>1. SrInv => NoForeign
  BY DEF SrInv, NoForeign
<1> QED BY Splitter, <1>1, PTL

(* Outside a rescan the PIDs let through are those of the PMTs last read to  *)
(* the end, all of them and no others.                                       *)
THEOREM SplitExactHolds == SrSpec => []SplitExact
<1>1. SrInv => SplitExact
  <2> SUFFICES ASSUME SrInv, Splitting, sp.pmt_counter = sp.pmt_retain, ~sp.note.again
               PROVE  /\ Passing(sp) = ChosenPmts(sp) \cup (UNION {Wanted(p, sp.note.read[p]) : p \in ChosenPmts(sp)})
                                         \cup (IF sp.note.rescanned THEN {} ELSE Epg(sp, onair))
                      /\ \A p \in ChosenPmts(sp) : Table[p][sp.note.read[p]].size < 256
    BY DEF SplitExact
  <2>1. SplitterInv(sp, onair, TRUE)
    BY DEF SrInv, Splitting
  <2>2. ReadInv(sp, onair) /\ Counting(sp, TRUE)
    BY <2>1 DEF SplitterInv
  <2>3. sp.note.counted = ChosenPmts(sp)
    <3>1. /\ Cardinality(sp.note.counted) = sp.pmt_retain /\ Cardinality(ChosenPmts(sp)) <= sp.pmt_retain
          /\ sp.pmt_retain \in Int
      BY <2>2 DEF Counting, ReadInv, Shape
    <3> QED BY <2>2, <3>1, CountedFinite
  <2>4. \A p \in PmtPids : ~(sp.section_remain[p] > 0)
    BY <2>2, <2>3 DEF ReadInv, SectionInv, Shape
  <2>5. \A p \in ChosenPmts(sp) : Table[p][sp.note.read[p]].size < 256
    BY <2>2, <2>3 DEF ReadInv, SectionInv
  <2>6. \A q \in Passing(sp) : \/ q \in ChosenPmts(sp)
                               \/ ~sp.note.rescanned /\ q \in Epg(sp, onair)
                               \/ \E p \in ChosenPmts(sp) : q \in Wanted(p, sp.note.read[p])
    BY <2>2, <2>3, <2>4 DEF ReadInv, Most
  <2>7. /\ ChosenPmts(sp) \subseteq Passing(sp)
        /\ ~sp.note.rescanned => Epg(sp, onair) \subseteq Passing(sp)
        /\ \A p \in ChosenPmts(sp) : Wanted(p, sp.note.read[p]) \subseteq Passing(sp)
    BY <2>2, <2>3 DEF ReadInv, Least
  <2> DEFINE W == UNION {Wanted(p, sp.note.read[p]) : p \in ChosenPmts(sp)}
             G == IF sp.note.rescanned THEN {} ELSE Epg(sp, onair)
  <2>8. \A q : q \in W <=> \E p \in ChosenPmts(sp) : q \in Wanted(p, sp.note.read[p])
    BY Zenon
  <2>9. \A q : q \in G <=> ~sp.note.rescanned /\ q \in Epg(sp, onair)
    BY Zenon
  <2> HIDE DEF W, G
  <2>10. \A q : q \in Passing(sp) <=> q \in ChosenPmts(sp) \cup W \cup G
    BY <2>6, <2>7, <2>8, <2>9
  <2>11. Passing(sp) = ChosenPmts(sp) \cup W \cup G
    <3> DEFINE L == Passing(sp)
               R == ChosenPmts(sp) \cup W \cup G
    <3>1. \A q : q \in L <=> q \in R
      BY <2>10
    <3> HIDE DEF L, R
    <3>2. L = R
      BY <3>1
    <3> QED BY <3>2 DEF L, R
  <2> QED BY <2>5, <2>11, Zenon DEF W, G
<1> QED BY Splitter, <1>1, PTL

-----------------------------------------------------------------------------
(* The services that are chosen are those that the words name. *)

\* An ID tells which entry it is, and is no word's number.
LEMMA Ids ==
  ASSUME NEW pat \in Pats
  PROVE  LET l == Services(pat)
         IN /\ Len(l) \in Nat /\ DOMAIN l = 1 .. Len(l)
            /\ \A i, j \in DOMAIN l : l[i][1] = l[j][1] => i = j
            /\ \A e \in ToSet(l), w \in Words \cap DOMAIN Atoi : Atoi[w] # e[1]
<1> DEFINE l == Services(pat)
<1>1. Len(l) \in Nat /\ DOMAIN l = 1 .. Len(l)
  <2>1. l \in Seq(Nat \X (PmtPids \cup {NitPid}))
    BY PatServices
  <2> HIDE DEF l
  <2> QED BY <2>1
<1>2. \A i, j \in DOMAIN l : /\ l[i][1] = l[j][1] => i = j
                             /\ \A w \in Words \cap DOMAIN Atoi : l[i][1] # Atoi[w]
  BY ReaderAssumption
<1>3. \A e \in ToSet(l) : \E i \in DOMAIN l : e = l[i]
  BY DEF ToSet
<1> HIDE DEF l
<1>4. \A e \in ToSet(l), w \in Words \cap DOMAIN Atoi : Atoi[w] # e[1]
  BY <1>2, <1>3
<1> QED BY <1>1, <1>2, <1>4 DEF l

\* The k-th service.
Nth(pat, k) == {Services(pat)[i] : i \in DOMAIN Services(pat) \cap {k}}

LEMMA NthIs ==
  ASSUME NEW pat \in Pats, NEW old, NEW k \in Nat \ {0}, k <= Len(Services(pat)),
         NEW e \in ToSet(Services(pat))
  PROVE  e[1] = Avail(pat, old, k) <=> e \in Nth(pat, k)
<1> DEFINE l == Services(pat)
<1>1. /\ Len(l) \in Nat /\ DOMAIN l = 1 .. Len(l)
      /\ \A i, j \in DOMAIN l : l[i][1] = l[j][1] => i = j
  BY Ids
<1>2. PICK i \in DOMAIN l : e = l[i]
  BY DEF ToSet
<1>3. Avail(pat, old, k) = l[k][1]
  BY DEF Avail
<1>4. Nth(pat, k) = {l[k]}
  <2>1. DOMAIN l \cap {k} = {k}
    <3>1. k <= Len(l)
      OBVIOUS
    <3> HIDE DEF l
    <3> QED BY <1>1, <3>1
  <2> QED BY <2>1 DEF Nth
<1>5. k \in DOMAIN l
  <2>1. k <= Len(l)
    OBVIOUS
  <2> HIDE DEF l
  <2> QED BY <1>1, <2>1
<1> HIDE DEF l
<1> QED BY <1>1, <1>2, <1>3, <1>4, <1>5

LEMMA NamedByIs ==
  ASSUME NEW pat, NEW w
  PROVE  /\ w \in {"hd", "sd1"} => NamedBy(pat, w) = Nth(pat, 1)
         /\ w = "sd2" => NamedBy(pat, w) = Nth(pat, 2)
         /\ w = "sd3" => NamedBy(pat, w) = Nth(pat, 3)
         /\ w = "1seg" => NamedBy(pat, w) = {e \in ToSet(Services(pat)) : e[2] = OneSegPid}
         /\ w = "all" => NamedBy(pat, w) = ToSet(Services(pat))
         /\ w = "epg" => NamedBy(pat, w) = {}
         /\ w \notin Words => NamedBy(pat, w) = {e \in ToSet(Services(pat)) : e[1] = Atoi[w]}
BY DEF NamedBy, Nth, Words

\* A word takes the services it names, a proper one at least.
LEMMA TakesNamed ==
  ASSUME NEW pat \in Pats, NEW old, NEW e \in ToSet(Services(pat)), NEW w \in DOMAIN Atoi,
         w \in {"sd2", "sd3"} => NamedBy(pat, w) # {}
  PROVE  TakesBy(pat, old, e, w) <=> e \in NamedBy(pat, w)
<1> DEFINE l == Services(pat)
<1>1. /\ Len(l) \in Nat /\ DOMAIN l = 1 .. Len(l)
      /\ w \in Words => Atoi[w] # e[1]
  BY Ids
<1>2. 1 <= Len(l)
  <2>1. PICK i \in DOMAIN l : e = l[i]
    BY DEF ToSet
  <2> HIDE DEF l
  <2> QED BY <1>1, <2>1
<1>3. CASE w \in {"hd", "sd1"}
  <2>1. e[1] = Avail(pat, old, 1) <=> e \in Nth(pat, 1)
    BY <1>2, NthIs
  <2>2. NamedBy(pat, w) = Nth(pat, 1)
    BY <1>3, NamedByIs
  <2> QED BY <1>1, <1>3, <2>1, <2>2 DEF TakesBy, Words
<1>4. ASSUME NEW k \in {2, 3}, w = IF k = 2 THEN "sd2" ELSE "sd3"
      PROVE  TakesBy(pat, old, e, w) <=> e \in NamedBy(pat, w)
  <2>1. NamedBy(pat, w) = Nth(pat, k) /\ Nth(pat, k) # {}
    BY <1>4, NamedByIs
  <2>2. k \in DOMAIN l
    BY <2>1 DEF Nth
  <2>3. k \in Nat \ {0} /\ k <= Len(l)
    <3> HIDE DEF l
    <3> QED BY <1>1, <2>2
  <2>4. e[1] = Avail(pat, old, k) <=> e \in Nth(pat, k)
    BY <2>3, NthIs
  <2> QED BY <1>1, <1>4, <2>1, <2>4 DEF TakesBy, Words
<1>5. CASE w = "1seg"
  <2>1. NamedBy(pat, w) = {f \in ToSet(l) : f[2] = OneSegPid}
    BY <1>5, NamedByIs
  <2> QED BY <1>1, <1>5, <2>1 DEF TakesBy, Words
<1>6. CASE w = "all"
  <2>1. NamedBy(pat, w) = ToSet(l)
    BY <1>6, NamedByIs
  <2> QED BY <1>6, <2>1 DEF TakesBy
<1>7. CASE w = "epg"
  <2>1. NamedBy(pat, w) = {}
    BY <1>7, NamedByIs
  <2> QED BY <1>1, <1>7, <2>1 DEF TakesBy, Words
<1>8. CASE w \notin Words
  <2>1. NamedBy(pat, w) = {f \in ToSet(l) : f[1] = Atoi[w]}
    BY <1>8, NamedByIs
  <2> QED BY <1>8, <2>1 DEF TakesBy, Words
<1>9. w = "sd2" => (TakesBy(pat, old, e, w) <=> e \in NamedBy(pat, w))
  <2>1. 2 \in {2, 3}
    OBVIOUS
  <2> QED BY <1>4, <2>1
<1>10. w = "sd3" => (TakesBy(pat, old, e, w) <=> e \in NamedBy(pat, w))
  <2>1. 3 \in {2, 3}
    OBVIOUS
  <2> QED BY <1>4, <2>1
<1> QED BY <1>3, <1>5, <1>6, <1>7, <1>8, <1>9, <1>10 DEF Words

\* Before the last word only "all" ends the search for a service.
LEMMA Stopping ==
  ASSUME NEW pat \in Pats, NEW words \in Seq(DOMAIN Atoi), ProperRequest(pat, words),
         NEW e \in ToSet(Services(pat)), NEW j \in DOMAIN words, j < Len(words)
  PROVE  Stops(e, words[j]) <=> words[j] = "all"
<1>1. /\ words[j] \in DOMAIN Atoi /\ Len(words) \in Nat /\ DOMAIN words = 1 .. Len(words)
      /\ j \in 1 .. (Len(words) - 1)
  OBVIOUS
<1>2. words[j] # "epg"
  BY <1>1 DEF ProperRequest
<1>3. words[j] \in Words => Atoi[words[j]] # e[1]
  BY <1>1, Ids
<1> QED BY <1>2, <1>3 DEF Stops, Words

NamedByAny(pat, words) == UNION {NamedBy(pat, words[i]) : i \in DOMAIN words}

LEMMA HitsNamed ==
  ASSUME NEW s, NEW pat \in Pats, NEW old, s.sid_list \in Seq(DOMAIN Atoi),
         ProperRequest(pat, s.sid_list), NEW e \in ToSet(Services(pat))
  PROVE  /\ \A i \in Hits(s, pat, old, e) : i \in DOMAIN s.sid_list /\ e \in NamedBy(pat, s.sid_list[i])
         /\ Hits(s, pat, old, e) # {} <=> e \in NamedByAny(pat, s.sid_list)
<1> DEFINE words == s.sid_list
<1>1. /\ words \in Seq(DOMAIN Atoi) /\ Len(words) \in Nat /\ DOMAIN words = 1 .. Len(words)
      /\ \A i \in DOMAIN words : words[i] \in DOMAIN Atoi
  OBVIOUS
<1>2. \A i \in DOMAIN words : TakesBy(pat, old, e, words[i]) <=> e \in NamedBy(pat, words[i])
  BY <1>1, TakesNamed DEF ProperRequest
<1>3. \A i : i \in Hits(s, pat, old, e) <=> i \in Looked(words, e) /\ TakesBy(pat, old, e, words[i])
  BY DEF Hits
<1>4. \A i : i \in Looked(words, e) <=> i \in DOMAIN words /\ \A j \in 1..(i - 1) : ~Stops(e, words[j])
  BY DEF Looked
<1>5. \A i \in Hits(s, pat, old, e) : i \in DOMAIN words /\ e \in NamedBy(pat, words[i])
  BY <1>2, <1>3, <1>4
<1>6. \A j \in DOMAIN words : j < Len(words) => (Stops(e, words[j]) <=> words[j] = "all")
  BY <1>1, Stopping
<1>7. ASSUME NEW i \in DOMAIN words, e \in NamedBy(pat, words[i])
      PROVE  Hits(s, pat, old, e) # {}
  <2> HIDE DEF words
  <2>1. CASE i \in Looked(words, e)
    BY <1>2, <1>3, <1>7, <2>1
  <2>2. CASE i \notin Looked(words, e)
    <3> DEFINE Alls == {k \in DOMAIN words : words[k] = "all"}
    <3>1. PICK j \in 1..(i - 1) : Stops(e, words[j])
      BY <1>4, <2>2
    <3>2. j \in Alls
      BY <1>1, <1>6, <3>1
    <3>3. PICK m \in Alls : \A x \in Alls : m <= x
      <4>1. Alls \in SUBSET Nat /\ Alls # {}
        BY <1>1, <3>2
      <4> HIDE DEF Alls
      <4> QED BY <4>1, Smallest
    <3>4. \A k \in 1..(m - 1) : ~Stops(e, words[k])
      BY <1>1, <1>6, <3>3
    <3>5. m \in Looked(words, e)
      BY <1>4, <3>3, <3>4
    <3>6. TakesBy(pat, old, e, words[m])
      BY <3>3 DEF TakesBy
    <3> QED BY <1>3, <3>5, <3>6
  <2> QED BY <2>1, <2>2
<1>8. e \in NamedByAny(pat, words) <=> \E i \in DOMAIN words : e \in NamedBy(pat, words[i])
  BY Zenon DEF NamedByAny
<1> QED BY <1>5, <1>7, <1>8

LEMMA NamedServices ==
  ASSUME NEW pat \in Pats, NEW w
  PROVE  NamedBy(pat, w) \subseteq ToSet(Services(pat))
<1>1. \A k : Nth(pat, k) \subseteq ToSet(Services(pat))
  BY DEF Nth, ToSet
<1> QED BY <1>1, NamedByIs DEF Words

LEMMA TakenNamed ==
  ASSUME NEW s, NEW pat \in Pats, NEW old, s.sid_list \in Seq(DOMAIN Atoi),
         ProperRequest(pat, s.sid_list)
  PROVE  {t[1] : t \in Taken(s, pat, old)} = NamedByAny(pat, s.sid_list)
<1> DEFINE words == s.sid_list
           left == {t[1] : t \in Taken(s, pat, old)}
<1>1. \A t : t \in Taken(s, pat, old) <=>
               /\ t \in ToSet(Services(pat)) \X DOMAIN words
               /\ t[2] \in Hits(s, pat, old, t[1])
  BY DEF Taken
<1>2. NamedByAny(pat, words) \subseteq ToSet(Services(pat))
  BY NamedServices DEF NamedByAny
<1>3. ASSUME NEW e \in left
      PROVE  e \in NamedByAny(pat, words)
  <2>1. PICK t \in Taken(s, pat, old) : e = t[1]
    BY <1>3
  <2>2. e \in ToSet(Services(pat)) /\ Hits(s, pat, old, e) # {}
    BY <1>1, <2>1
  <2> QED BY <2>2, HitsNamed
<1>4. ASSUME NEW e \in NamedByAny(pat, words)
      PROVE  e \in left
  <2>1. PICK i : i \in Hits(s, pat, old, e)
    BY <1>2, <1>4, HitsNamed
  <2>2. i \in DOMAIN words
    BY <1>2, <2>1, HitsNamed
  <2>3. <<e, i>> \in Taken(s, pat, old)
    BY <1>1, <1>2, <2>1, <2>2
  <2> QED BY <2>3
<1> HIDE DEF left
<1>5. left = NamedByAny(pat, words)
  BY <1>3, <1>4
<1> QED BY <1>5 DEF left

LEMMA ChosenAsked ==
  ASSUME NEW s, NEW pat \in Pats, NEW old, s.sid_list \in Seq(DOMAIN Atoi),
         ProperRequest(pat, s.sid_list)
  PROVE  Chosen(s, pat, old) = Asked(pat, s.sid_list)
<1> DEFINE words == s.sid_list
           named == NamedByAny(pat, words)
<1>1. {t[1] : t \in Taken(s, pat, old)} = named
  BY TakenNamed
<1>2. Taken(s, pat, old) = {} <=> named = {}
  BY <1>1
<1>3. Asked(pat, words) = IF named = {} /\ words # <<>> /\ "epg" \notin ToSet(words)
                          THEN ToSet(Services(pat)) ELSE named
  BY Zenon DEF Asked, NamedByAny
<1>4. Chosen(s, pat, old) = IF words # <<>> /\ ~EpgAsked(s, pat) /\ named = {}
                            THEN ToSet(Services(pat)) ELSE named
  BY <1>1, <1>2, Zenon DEF Chosen, Fallback
<1>5. EpgAsked(s, pat) => "epg" \in ToSet(words)
  BY DEF EpgAsked, ToSet
<1>6. ASSUME named = {}, "epg" \in ToSet(words), NEW e \in ToSet(Services(pat))
      PROVE  EpgAsked(s, pat)
  <2>0. /\ words \in Seq(DOMAIN Atoi) /\ Len(words) \in Nat /\ DOMAIN words = 1 .. Len(words)
    OBVIOUS
  <2>1. PICK i \in DOMAIN words : words[i] = "epg"
    BY <1>6 DEF ToSet
  <2>2. \A j \in DOMAIN words : words[j] # "all"
    <3> SUFFICES ASSUME NEW j \in DOMAIN words, words[j] = "all" PROVE FALSE
      OBVIOUS
    <3>1. e \in NamedBy(pat, words[j])
      BY <1>6, NamedByIs
    <3> QED BY <1>6, <3>1 DEF NamedByAny
  <2>3. \A j \in DOMAIN words : j < Len(words) => ~Stops(e, words[j])
    BY <1>6, <2>0, <2>2, Stopping
  <2> HIDE DEF words
  <2>4. \A j \in 1..(i - 1) : ~Stops(e, words[j])
    BY <2>0, <2>3
  <2>5. i \in Looked(words, e)
    BY <2>4 DEF Looked
  <2> QED BY <1>6, <2>1, <2>5 DEF EpgAsked, words
<1> HIDE DEF named, words
<1>7. Chosen(s, pat, old) = Asked(pat, words)
  <2>1. CASE named = {} /\ "epg" \in ToSet(words) /\ ToSet(Services(pat)) = {}
    BY <1>3, <1>4, <2>1
  <2>2. CASE named = {} /\ "epg" \in ToSet(words) /\ ToSet(Services(pat)) # {}
    BY <1>3, <1>4, <1>6, <2>2
  <2>3. CASE named # {} \/ "epg" \notin ToSet(words)
    BY <1>3, <1>4, <1>5, <2>3
  <2> QED BY <2>1, <2>2, <2>3
<1> QED BY <1>7 DEF words

(* The new PAT: the last entry of every PMT. *)
LEMMA Recreated ==
  ASSUME NEW E, NEW pat \in Seq(E), NEW C, C \subseteq ToSet(pat)
  PROVE  /\ RecreatePat(pat, C) \subseteq C
         /\ PmtsOf(RecreatePat(pat, C)) = PmtsOf(C)
<1>1. Len(pat) \in Nat /\ DOMAIN pat = 1 .. Len(pat)
  OBVIOUS
<1>2. RecreatePat(pat, C) \subseteq C
  BY DEF RecreatePat
<1>3. ASSUME NEW e \in C
      PROVE  \E f \in RecreatePat(pat, C) : f[2] = e[2]
  <2> DEFINE K == {k \in DOMAIN pat : pat[k] \in C /\ pat[k][2] = e[2]}
             Behind == {n \in Nat : \E k \in K : n = Len(pat) - k}
  <2>1. PICK i \in DOMAIN pat : pat[i] = e
    BY <1>3 DEF ToSet
  <2>2. i \in K
    BY <1>3, <2>1
  <2>3. Len(pat) - i \in Behind
    BY <1>1, <2>2
  <2>4. PICK n \in Behind : \A x \in Behind : n <= x
    <3>1. Behind \in SUBSET Nat
      OBVIOUS
    <3> HIDE DEF Behind
    <3> QED BY <2>3, <3>1, Smallest
  <2>5. PICK k \in K : n = Len(pat) - k
    BY <2>4
  <2>6. \A m \in K : m <= k
    <3> SUFFICES ASSUME NEW m \in K PROVE m <= k
      OBVIOUS
    <3>1. m \in 1 .. Len(pat) /\ k \in 1 .. Len(pat)
      BY <1>1, <2>5
    <3>2. Len(pat) - m \in Behind
      BY <1>1, <3>1
    <3>3. n <= Len(pat) - m
      BY <2>4, <3>2
    <3> HIDE DEF K, Behind
    <3> QED BY <1>1, <2>5, <3>1, <3>3
  <2>7. k \in DOMAIN pat /\ pat[k] \in C /\ pat[k][2] = e[2]
    BY <2>5
  <2>8. \A m \in (k + 1)..Len(pat) : pat[m] \in C => pat[m][2] # pat[k][2]
    <3> SUFFICES ASSUME NEW m \in (k + 1)..Len(pat), pat[m] \in C, pat[m][2] = pat[k][2] PROVE FALSE
      OBVIOUS
    <3>1. m \in 1 .. Len(pat) /\ ~(m <= k)
      BY <1>1, <2>7
    <3>2. m \in K
      BY <1>1, <2>7, <3>1
    <3> QED BY <2>6, <3>1, <3>2
  <2> HIDE DEF K, Behind
  <2>9. pat[k] \in RecreatePat(pat, C)
    BY <2>7, <2>8 DEF RecreatePat
  <2> QED BY <2>7, <2>9
<1> QED BY <1>2, <1>3 DEF PmtsOf

LEMMA PmtsSize ==
  ASSUME NEW C, IsFiniteSet(C)
  PROVE  /\ Cardinality(PmtsOf(C)) \in Nat /\ Cardinality(PmtsOf(C)) <= Cardinality(C)
         /\ (\A e, f \in C : e[2] = f[2] => e = f) => Cardinality(PmtsOf(C)) = Cardinality(C)
<1> DEFINE second == [e \in C |-> e[2]]
<1>1. second = [e \in C |-> second[e]] /\ \A e \in C : second[e] = e[2]
  OBVIOUS
<1>2. {second[e] : e \in C} = PmtsOf(C)
  BY <1>1 DEF PmtsOf
<1> HIDE DEF second
<1>3. /\ Cardinality({second[e] : e \in C}) \in Nat
      /\ Cardinality({second[e] : e \in C}) <= Cardinality(C)
      /\ (\A e, f \in C : second[e] = second[f] => e = f) => Cardinality({second[e] : e \in C}) = Cardinality(C)
  BY <1>1, ImageSize
<1>4. (\A e, f \in C : e[2] = f[2] => e = f) => (\A e, f \in C : second[e] = second[f] => e = f)
  BY <1>1
<1> QED BY <1>2, <1>3, <1>4

LEMMA TakenOnce ==
  ASSUME NEW s, NEW pat \in Pats, NEW old, s.sid_list \in Seq(DOMAIN Atoi),
         ProperRequest(pat, s.sid_list), OncePerPmt(pat, s.sid_list)
  PROVE  \A x, y \in Taken(s, pat, old) : x[1] = y[1] => x = y
<1> DEFINE words == s.sid_list
<1> SUFFICES ASSUME NEW x \in Taken(s, pat, old), NEW y \in Taken(s, pat, old), x[1] = y[1]
             PROVE  x = y
  OBVIOUS
<1>1. /\ x \in ToSet(Services(pat)) \X DOMAIN words /\ x[2] \in Hits(s, pat, old, x[1])
      /\ y \in ToSet(Services(pat)) \X DOMAIN words /\ y[2] \in Hits(s, pat, old, y[1])
  BY DEF Taken
<1>2. /\ x[1] \in NamedBy(pat, words[x[2]]) /\ y[1] \in NamedBy(pat, words[y[2]])
      /\ x[2] \in DOMAIN words /\ y[2] \in DOMAIN words
  BY <1>1, HitsNamed
<1>3. x[2] = y[2]
  BY <1>2 DEF OncePerPmt
<1>4. x = <<x[1], x[2]>> /\ y = <<y[1], y[2]>>
  BY <1>1
<1> QED BY <1>3, <1>4

(* Whatever the services and the words of a proper request, those are kept  *)
(* that the words name, and the splitter waits for no PMT that will not come *)
(* when each is named once.                                                  *)
THEOREM ChosenAsAskedHolds == SrSpec => []ChosenAsAsked
<1>1. SrInv => ChosenAsAsked
  <2> DEFINE pat == onair.pat
             words == sp.sid_list
             chosen == Chosen(sp, pat, stale)
  <2> SUFFICES ASSUME SrInv, ProperRequest(pat, words), sp.pat # {}
               PROVE  /\ ChosenPmts(sp) = {e[2] : e \in Asked(pat, words)}
                      /\ \A E \in sp.pat : E \subseteq Asked(pat, words) /\ {e[2] : e \in E} = ChosenPmts(sp)
                      /\ sp.pmt_retain >= Cardinality(ChosenPmts(sp))
                      /\ OncePerPmt(pat, words) => sp.pmt_retain = Cardinality(ChosenPmts(sp))
    BY DEF ChosenAsAsked
  <2>1. /\ ChosenPmts(sp) = PmtsOf(chosen)
        /\ sp.pmt_retain = Cardinality(Awaited(sp, pat, stale))
        /\ sp.pat = {RecreatePat(pat, chosen)}
    BY DEF SrInv, Choice
  <2>2. pat \in Pats /\ words \in Seq(DOMAIN Atoi)
    BY DEF SrInv, AirInv, AirOK
  <2>3. chosen = Asked(pat, words)
    BY <2>2, ChosenAsked
  <2>4. /\ IsFiniteSet(chosen) /\ Cardinality(chosen) \in Nat
        /\ Cardinality(Awaited(sp, pat, stale)) \in Nat
        /\ Cardinality(chosen) <= Cardinality(Awaited(sp, pat, stale))
        /\ chosen \subseteq ToSet(Services(pat))
        /\ (\A x, y \in Taken(sp, pat, stale) : x[1] = y[1] => x = y) =>
             Cardinality(chosen) = Cardinality(Awaited(sp, pat, stale))
    BY <2>2, TakenFinite
  <2>5. chosen \subseteq ToSet(pat) /\ pat \in Seq(Nat \X (PmtPids \cup {NitPid}))
    BY <2>2, <2>4, PatServices
  <2>6. OncePerPmt(pat, words) => /\ \A x, y \in Taken(sp, pat, stale) : x[1] = y[1] => x = y
                                  /\ \A e, f \in chosen : e[2] = f[2] => e = f
    BY <2>2, <2>3, TakenOnce DEF OncePerPmt
  <2> HIDE DEF chosen, pat, words
  <2>7. RecreatePat(pat, chosen) \subseteq chosen /\ PmtsOf(RecreatePat(pat, chosen)) = PmtsOf(chosen)
    BY <2>5, Recreated
  <2>8. /\ Cardinality(PmtsOf(chosen)) \in Nat /\ Cardinality(PmtsOf(chosen)) <= Cardinality(chosen)
        /\ (\A e, f \in chosen : e[2] = f[2] => e = f) => Cardinality(PmtsOf(chosen)) = Cardinality(chosen)
    BY <2>4, PmtsSize
  <2>9. ChosenPmts(sp) = {e[2] : e \in Asked(pat, words)}
    BY <2>1, <2>3 DEF PmtsOf
  <2>10. \A E \in sp.pat : E \subseteq Asked(pat, words) /\ {e[2] : e \in E} = ChosenPmts(sp)
    BY <2>1, <2>3, <2>7 DEF PmtsOf
  <2>11. sp.pmt_retain >= Cardinality(ChosenPmts(sp))
    BY <2>1, <2>4, <2>8
  <2>12. OncePerPmt(pat, words) => sp.pmt_retain = Cardinality(ChosenPmts(sp))
    BY <2>1, <2>4, <2>6, <2>8
  <2> QED BY <2>9, <2>10, <2>11, <2>12
<1> QED BY Splitter, <1>1, PTL
=============================================================================
