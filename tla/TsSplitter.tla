----------------------------- MODULE TsSplitter -----------------------------
(***************************************************************************)
(* The TS splitter of recpt1 (apps/cdev/recpt1/tssplitter_lite.c), which   *)
(* lets through the packets of the services asked for with --sid: its      *)
(* struct as a record and its functions as operators on that record; pat   *)
(* is {} for NULL and {E} for a PAT with the set E of entries.  The        *)
(* continuity counter of the PATs written is left out.                     *)
(*                                                                         *)
(* A PID is a string.  A PAT is the sequence of its entries, the pair of a *)
(* service ID and the PID of the service's PMT.  A packet is a record with *)
(* its PID; a packet of a PMT also has                                     *)
(*   start    it begins a section                                          *)
(*   cc       its continuity counter                                       *)
(*   version  the version of the section                                   *)
(*   size     how many bytes the section has (read in the first packet)    *)
(*   pcr, ecm, es   the PID of the clock, the PIDs of the keys, and the    *)
(*            streams that this packet names, each a triple of a type, a   *)
(*            PID and how far into the packet's part of the section the    *)
(*            entry's head reaches; pcr and ecm count in the first packet  *)
(*            only                                                         *)
(* The packet [pid |-> Streams] stands for one packet of every PID that    *)
(* carries neither the PAT nor a PMT.                                      *)
(*                                                                         *)
(* note is history: what of the PMTs has been read in this round.          *)
(***************************************************************************)
EXTENDS Integers, FiniteSets, SequencesExt

CONSTANTS
  PmtPids, (* the PIDs of PMTs                                           *)
  EsPids,  (* the PIDs that PMTs name                                    *)
  Atoi,    (* atoi, on the words a user may write                        *)
  CcMod    (* the modulus of continuity counters: 16                     *)

Patpid == "0x0000"
NitPid == "0x0010"
OneSegPid == "0x1FC8"
NullPid == "0x1FFF"
EpgPids == {"0x0011", "0x0012", "0x0026", "0x0027"}
Streams == "streams"
TypeD == 13
NoVersion == 99

AllPids == PmtPids \cup EsPids \cup EpgPids \cup {NullPid}

ASSUME SplitterAssumption ==
  /\ CcMod \in Nat \ {0}
  /\ Atoi \in [DOMAIN Atoi -> Nat]
  /\ IsFiniteSet(PmtPids) /\ PmtPids \cap {Patpid, NitPid, NullPid, Streams} = {}

-----------------------------------------------------------------------------
\* malloc leaves pmt_version as it was; it is written before it is read.
split_startup(words) ==
  [pids |-> [p \in AllPids |-> 0], pmt_pids |-> [p \in AllPids |-> 0], pat |-> {},
   sid_list |-> words, pmt_retain |-> -1, pmt_counter |-> 0,
   pmt_version |-> [p \in PmtPids |-> NoVersion],
   section_remain |-> [p \in PmtPids |-> 0], packet_seq |-> [p \in PmtPids |-> 0],
   note |-> [counted |-> {}, again |-> FALSE, rescanned |-> FALSE, read |-> [p \in PmtPids |-> NoVersion]]]

(***************************************************************************)
(* The choice of the services.  avail is avail_sids: entries past the      *)
(* services of the PAT are what the stack held, stale.                     *)
(***************************************************************************)
Services(pat) ==
  LET listed[i \in 0..Len(pat)] ==
        IF i = 0 THEN <<>>
        ELSE IF pat[i][2] = NitPid THEN listed[i - 1] ELSE Append(listed[i - 1], pat[i])
  IN listed[Len(pat)]
Avail(pat, stale, k) == LET s == Services(pat) IN IF k <= Len(s) THEN s[k][1] ELSE stale

\* Mutant: the words count from 0.
TakesByFromZero(pat, stale, e, w) ==
  \/ Atoi[w] = e[1]
  \/ w \in {"hd", "sd1", "all"}
  \/ w \in {"sd2", "sd3"} /\ e[1] = Avail(pat, stale, IF w = "sd2" THEN 1 ELSE 2)
  \/ w = "1seg" /\ e[2] = OneSegPid

\* A word takes an entry, or ends the search for the entry.
TakesBy(pat, stale, e, w) ==
  \/ Atoi[w] = e[1]
  \/ w \in {"hd", "sd1"} /\ e[1] = Avail(pat, stale, 1)
  \/ w = "sd2" /\ e[1] = Avail(pat, stale, 2)
  \/ w = "sd3" /\ e[1] = Avail(pat, stale, 3)
  \/ w = "1seg" /\ e[2] = OneSegPid
  \/ w = "all"
Stops(e, w) == w \in {"all", "epg"} /\ Atoi[w] # e[1]
Looked(words, e) == {i \in DOMAIN words : \A j \in 1..(i - 1) : ~Stops(e, words[j])}

\* AnalyzePat counts a service once for every word that takes it.
Hits(sp, pat, stale, e) ==
  {i \in Looked(sp.sid_list, e) : TakesBy(pat, stale, e, sp.sid_list[i])}
EpgAsked(sp, pat) == \E e \in ToSet(Services(pat)), i \in DOMAIN sp.sid_list :
                        i \in Looked(sp.sid_list, e) /\ sp.sid_list[i] = "epg"

\* The new PAT has one entry for every PMT, that of the last service which has this PMT.
RecreatePat(pat, chosen) ==
  {pat[i] : i \in {k \in DOMAIN pat : /\ pat[k] \in chosen
                                    /\ \A m \in (k + 1)..Len(pat) :
                                         pat[m] \in chosen => pat[m][2] # pat[k][2]}}

AnalyzePat(sp, pat, stale) ==
  LET all == ToSet(Services(pat))
      taken == {t \in all \X DOMAIN sp.sid_list : t[2] \in Hits(sp, pat, stale, t[1])}
      epg == EpgAsked(sp, pat)
      fallback == sp.sid_list # <<>> /\ ~epg /\ taken = {}
      chosen == IF fallback THEN all ELSE {t[1] : t \in taken}
      pmts == {e[2] : e \in chosen}
  IN IF sp.pat # {} THEN sp
     ELSE [sp EXCEPT !.pat = {RecreatePat(pat, chosen)},
                     !.pmt_retain = Cardinality(IF fallback THEN all ELSE taken),
                     !.pmt_pids = [p \in AllPids |-> IF p \in pmts THEN 1 ELSE @[p]],
                     !.pids = [p \in AllPids |->
                                 IF p \in pmts \/ (epg /\ p \in EpgPids) THEN 1 ELSE @[p]]]

(***************************************************************************)
(* A packet of a PMT.                                                      *)
(***************************************************************************)
Marked(pids, S, mark) == [p \in AllPids |-> IF p \in S THEN mark ELSE pids[p]]

\* A second beginning of a PMT in one round, other than of the same unfinished section; or the
\* continuation of another version, whose counter fits because it has gone round.
BegunAgain(sp, p) ==
  \/ p.start /\ p.pid \in sp.note.counted
  \/ sp.section_remain[p.pid] > 0 /\ sp.pmt_version[p.pid] # p.version

Begin(sp, p, mark) ==
  [sp EXCEPT !.section_remain[p.pid] = p.size, !.pmt_version[p.pid] = p.version,
             !.pids = Marked(@, {p.pcr} \cup p.ecm, mark)]

\* The section's beginning was missed, or packets between.
Broken(sp, p) == \/ sp.section_remain[p.pid] = 0
                 \/ p.cc # (sp.packet_seq[p.pid] + 1) % CcMod

\* Nall, what the packet holds of the section, is a byte; section_remain has two.
Nall(sp, p) ==
  LET byte == sp.section_remain[p.pid] % 256
      room == IF p.start THEN 183 ELSE 184
  IN IF byte > room THEN room ELSE byte

\* Mutant: streams of type D are kept too.
StreamsWithTypeD(p, n) == {e[2] : e \in {s \in p.es : s[3] <= n}}

\* The streams named in the first n bytes.
StreamsIn(p, n) == {e[2] : e \in {s \in p.es : s[1] # TypeD /\ s[3] <= n}}

\* The streams in the packet; from is the splitter that has seen the beginning of the section.
\* Returns the splitter and whether the section is complete.
ReadPart(sp, from, p, mark) ==
  LET n == Nall(from, p)
      done == [from EXCEPT !.packet_seq[p.pid] = p.cc, !.section_remain[p.pid] = @ - n,
                           !.pids = Marked(@, StreamsIn(p, n), mark)]
      complete == done.section_remain[p.pid] = 0
  IN [sp |-> [done EXCEPT !.note.again = @ \/ BegunAgain(sp, p),
                          !.note.counted = IF complete THEN @ \cup {p.pid} ELSE @,
                          !.note.read[p.pid] = IF complete THEN done.pmt_version[p.pid] ELSE @],
      complete |-> complete]

AnalyzePmt(sp, p, mark) ==
  IF p.start THEN ReadPart(sp, Begin(sp, p, mark), p, mark)
  ELSE IF Broken(sp, p) THEN [sp |-> sp, complete |-> FALSE]
  ELSE ReadPart(sp, sp, p, mark)

-----------------------------------------------------------------------------
(***************************************************************************)
(* split_select: until every PMT to be kept has been read.  The packet     *)
(* that completes a PMT gets the null PID.  The last packet of the buffer  *)
(* is left out.  st is [sp, block, ok].                                    *)
(***************************************************************************)
SelectPacket(st, i, stale) ==
  LET p == st.block[i]
      sp == IF p.pid = Patpid THEN AnalyzePat(st.sp, p.pat, stale) ELSE st.sp
      first == p.pid \in PmtPids /\ sp.pmt_pids[p.pid] = 1
      r == IF first THEN AnalyzePmt(sp, p, 1) ELSE [sp |-> sp, complete |-> FALSE]
      got == IF r.complete
             THEN [r.sp EXCEPT !.pmt_pids[p.pid] = 2, !.pmt_counter = @ + 1] ELSE r.sp
  IN IF st.ok THEN st
     ELSE [sp |-> got, ok |-> got.pmt_counter = got.pmt_retain,
           block |-> IF r.complete THEN [st.block EXCEPT ![i] = [pid |-> NullPid]] ELSE st.block]

ReadTs(sp, block, stale) ==
  LET pass[i \in 0..(Len(block) - 1)] ==
        IF i = 0 THEN [sp |-> sp, ok |-> FALSE, block |-> block]
        ELSE SelectPacket(pass[i - 1], i, stale)
  IN pass[Len(block) - 1]

(***************************************************************************)
(* split_ts.                                                               *)
(***************************************************************************)
\* Mutant: the PIDs of the old version stay.
ClearCounterOnly(sp) ==
  [sp EXCEPT !.pmt_counter = 0, !.section_remain = [p \in PmtPids |-> 0],
             !.note.counted = {}, !.note.again = FALSE, !.note.rescanned = TRUE]

Clear(sp) ==
  [sp EXCEPT !.pids = sp.pmt_pids, !.pmt_counter = 0,
             !.section_remain = [p \in PmtPids |-> 0], !.packet_seq = [p \in PmtPids |-> 0],
             !.note.counted = {}, !.note.again = FALSE, !.note.rescanned = TRUE]

RescanPID(sp, p) ==
  LET r == AnalyzePmt(IF sp.pmt_counter = sp.pmt_retain THEN Clear(sp) ELSE sp, p, 2)
      got == IF r.complete THEN [r.sp EXCEPT !.pmt_counter = @ + 1] ELSE r.sp
  IN IF got.pmt_counter = got.pmt_retain
     THEN [got EXCEPT !.pids = [q \in AllPids |-> IF @[q] > 0 THEN @[q] - 1 ELSE 0]]
     ELSE got

CheckVersion(sp, p) ==
  IF (p.start /\ sp.pmt_version[p.pid] # p.version) \/ sp.pmt_retain # sp.pmt_counter
  THEN RescanPID(sp, p) ELSE sp

Passing(sp) == {p \in AllPids : sp.pids[p] # 0}

\* st is [sp, out]; out is the set of the PIDs written.
SplitPacket(st, p) ==
  LET sp == IF p.pid \in PmtPids /\ st.sp.pmt_pids[p.pid] # 0
            THEN CheckVersion(st.sp, p) ELSE st.sp
  IN CASE p.pid = Patpid -> [sp |-> sp, out |-> st.out \cup {Patpid}]
       [] p.pid = Streams -> [sp |-> sp, out |-> st.out \cup (Passing(sp) \ PmtPids)]
       [] OTHER -> [sp |-> sp, out |-> st.out \cup (Passing(sp) \cap {p.pid})]

split_ts(sp, block) ==
  LET pass[i \in 0..Len(block)] ==
        IF i = 0 THEN [sp |-> sp, out |-> {}] ELSE SplitPacket(pass[i - 1], block[i])
  IN pass[Len(block)]
=============================================================================
