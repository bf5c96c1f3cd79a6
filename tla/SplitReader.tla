---------------------------- MODULE SplitReader -----------------------------
(***************************************************************************)
(* reader_func of recpt1 with a splitter: the blocks of packets it takes   *)
(* from the queue go through split_select until that succeeds and through  *)
(* split_ts from then on.  The broadcaster repeats the PAT and the PMTs,   *)
(* gives a PMT a new version now and then, and packets get lost.           *)
(***************************************************************************)
EXTENDS TsSplitter

CONSTANTS
  Requests,  (* what --sid may say: sequences of words                    *)
  Pats,      (* the PATs there may be                                    *)
  Stale,     (* what an unwritten entry of avail_sids may hold           *)
  Table,     (* for every PMT the versions it has, each with its size in *)
             (* bytes, the clock, the keys and, for every packet it      *)
             (* takes, the streams                                       *)
  MaxBlock   (* how many packets a block has (a bound)                   *)

Words == {"hd", "sd1", "sd2", "sd3", "1seg", "all", "epg"}

Sections == [size : Nat \ {0}, pcr : AllPids, ecm : SUBSET AllPids,
             es : Seq(SUBSET (Nat \X AllPids \X Nat))]

\* How much of a section of so many bytes its k-th packet carries: the first one up to 183.
Carried(size, k) == LET before == IF k = 1 THEN 0 ELSE (184 * (k - 1)) - 1
                        room == IF k = 1 THEN 183 ELSE 184
                    IN IF size - before > room THEN room ELSE size - before

\* A service has an ID of its own, which is not what atoi makes of a word that is no number; a
\* section takes the packets its size needs, and they name the streams in what they carry.
ASSUME ReaderAssumption ==
  /\ MaxBlock \in Nat \ {0, 1}
  /\ Requests \subseteq Seq(DOMAIN Atoi)
  /\ Pats \subseteq Seq(Nat \X (PmtPids \cup {NitPid}))
  /\ \A pat \in Pats : \A i, j \in DOMAIN Services(pat) :
       /\ Services(pat)[i][1] = Services(pat)[j][1] => i = j
       /\ \A w \in Words \cap DOMAIN Atoi : Services(pat)[i][1] # Atoi[w]
  /\ Table \in [PmtPids -> Seq(Sections) \ {<<>>}]
  /\ \A p \in PmtPids : \A v \in DOMAIN Table[p] :
       LET s == Table[p][v]
       IN /\ Len(s.es) = 1 + (s.size \div 184)
          /\ \A k \in DOMAIN s.es : \A e \in s.es[k] : e[3] <= Carried(s.size, k)

VARIABLES
  onair,     (* the PAT and, for each PMT, its version, the packet of its *)
             (* section that is next and its counter; the counter of a    *)
             (* PMT that never takes two packets is not looked at: 0      *)
  stale,     (* what avail_sids holds past the services of the PAT       *)
  sp,        (* the splitter                                             *)
  use_splitter, split_select_finish,
  stray,     (* history: what the last block left in the file that no    *)
             (* chosen service has                                       *)
  reader     (* "running", "done" or "crashed"                           *)

srVars == <<onair, stale, sp, use_splitter, split_select_finish, stray, reader>>

SrInit ==
  /\ \E pat \in Pats :
       onair = [pat |-> pat, version |-> [p \in PmtPids |-> 1], part |-> [p \in PmtPids |-> 1],
                cc |-> [p \in PmtPids |-> 0]]
  /\ stale \in Stale
  /\ \E words \in Requests : sp = split_startup(words)
  /\ use_splitter = TRUE
  /\ split_select_finish = FALSE
  /\ stray = {}
  /\ reader = "running"

-----------------------------------------------------------------------------
(***************************************************************************)
(* The broadcast.                                                          *)
(***************************************************************************)
Section(air, pid) == Table[pid][air.version[pid]]

PmtPacket(air, pid) ==
  LET s == Section(air, pid) k == air.part[pid]
  IN [pid |-> pid, start |-> k = 1, cc |-> air.cc[pid], version |-> air.version[pid],
      size |-> s.size, pcr |-> s.pcr, ecm |-> s.ecm, es |-> s.es[k]]

\* What is on the air after the first n packets of kinds.
After(air, kinds, n) ==
  LET sent == [p \in PmtPids |-> Cardinality({j \in 1..n : kinds[j] = p})]
      long(p) == \E v \in DOMAIN Table[p] : Len(Table[p][v].es) > 1
  IN [air EXCEPT
        !.part = [p \in PmtPids |-> ((@[p] - 1 + sent[p]) % Len(Section(air, p).es)) + 1],
        !.cc = [p \in PmtPids |-> IF long(p) THEN (@[p] + sent[p]) % CcMod ELSE 0]]

Kinds == {Patpid, Streams} \cup {e[2] : e \in ToSet(Services(onair.pat))}

Packet(air, kind) ==
  CASE kind = Patpid -> [pid |-> Patpid, pat |-> air.pat]
    [] kind = Streams -> [pid |-> Streams]
    [] OTHER -> PmtPacket(air, kind)

\* A block and what is on the air after it.
Blocks == {[block |-> [i \in DOMAIN kinds |-> Packet(After(onair, kinds, i - 1), kinds[i])],
            air |-> After(onair, kinds, Len(kinds))] :
             kinds \in UNION {[1..n -> Kinds] : n \in 2..MaxBlock}}

Lose(pid) ==
  /\ onair' = After(onair, <<pid>>, 1)
  /\ UNCHANGED <<stale, sp, use_splitter, split_select_finish, stray, reader>>

Change(pid) ==
  /\ onair.part[pid] = 1 /\ onair.version[pid] < Len(Table[pid])
  /\ onair' = [onair EXCEPT !.version[pid] = @ + 1]
  /\ UNCHANGED <<stale, sp, use_splitter, split_select_finish, stray, reader>>

-----------------------------------------------------------------------------
(***************************************************************************)
(* What belongs to the chosen services.                                    *)
(***************************************************************************)
Wanted(pid, v) ==
  LET s == Table[pid][v]
  IN {s.pcr} \cup s.ecm \cup UNION {{e[2] : e \in {x \in s.es[k] : x[1] # TypeD}} : k \in DOMAIN s.es}

ChosenPmts(s) == {p \in PmtPids : s.pmt_pids[p] # 0}
Epg(s, air) == IF EpgAsked(s, air.pat) THEN EpgPids ELSE {}

\* The streams that the PMTs of the chosen services have named up to now.
Named(s, air) == UNION {UNION {Wanted(p, v) : v \in 1..air.version[p]} : p \in ChosenPmts(s)}

-----------------------------------------------------------------------------
(***************************************************************************)
(* reader_func.                                                            *)
(***************************************************************************)
Write(r, air) ==
  /\ sp' = r.sp
  /\ stray' = r.out \ ({Patpid} \cup ChosenPmts(r.sp) \cup Epg(r.sp, air) \cup Named(r.sp, air))

\* split_select and, when it has succeeded, split_ts on the same block.
Select(b) ==
  /\ ~split_select_finish
  /\ \E r \in {ReadTs(sp, b.block, stale)} :
       /\ split_select_finish' = r.ok
       /\ IF r.ok THEN Write(split_ts(r.sp, r.block), b.air)
          ELSE Write([sp |-> r.sp, out |-> {}], b.air)

Split(b) ==
  /\ split_select_finish
  /\ Write(split_ts(sp, b.block), b.air)
  /\ UNCHANGED split_select_finish

Dequeue ==
  /\ reader = "running" /\ use_splitter
  /\ \E b \in Blocks : onair' = b.air /\ (Select(b) \/ Split(b))
  /\ UNCHANGED <<stale, use_splitter, reader>>

\* Four seconds have passed without success, or realloc or RecreatePat finds no memory: from
\* here on every packet goes to the file as it is.
GiveUp ==
  /\ reader = "running" /\ use_splitter
  /\ use_splitter' = FALSE
  /\ UNCHANGED <<onair, stale, sp, split_select_finish, stray, reader>>

\* The last pass, whether or not the PAT has been seen.  Nothing is written: the size is that of
\* splitbuf.buffer_size, which stays 0.
Finish ==
  /\ reader = "running"
  /\ \E b \in Blocks :
       IF ~use_splitter THEN reader' = "done" /\ UNCHANGED <<onair, sp>>
       ELSE IF sp.pat = {} /\ \E p \in ToSet(b.block) : p.pid = Patpid
       THEN reader' = "crashed" /\ UNCHANGED <<onair, sp>>
       ELSE reader' = "done" /\ onair' = b.air /\ sp' = split_ts(sp, b.block).sp
  /\ UNCHANGED <<stale, use_splitter, split_select_finish, stray>>

SrNext == \/ Dequeue
          \/ GiveUp
          \/ Finish
          \/ reader = "running" /\ use_splitter /\ \E p \in Kinds \cap PmtPids : Lose(p) \/ Change(p)

SrSpec == SrInit /\ [][SrNext]_srVars

-----------------------------------------------------------------------------
(***************************************************************************)
(* Properties.                                                             *)
(***************************************************************************)
Splitting == reader = "running" /\ use_splitter /\ split_select_finish

(* Outside a rescan the splitter lets through the PMTs of the chosen services and the streams
   named by the PMTs it has read to the end, all of them and nothing else, whatever was lost and
   wherever blocks end: a rescan forgets the streams of the old version and keeps those of the
   services that have not changed.  Two exceptions are the code's: the PIDs of the programme guide
   are gone after the first rescan, and a PMT that comes again in a round in which another has not
   come yet counts for that one (note.again).  And the limit is the code's: a PMT of 256 bytes or
   more is never read to the end, since Nall is a byte. *)
SplitExact ==
  (Splitting /\ sp.pmt_counter = sp.pmt_retain /\ ~sp.note.again) =>
    /\ Passing(sp) = ChosenPmts(sp) \cup (UNION {Wanted(p, sp.note.read[p]) : p \in ChosenPmts(sp)})
                       \cup (IF sp.note.rescanned THEN {} ELSE Epg(sp, onair))
    /\ \A p \in ChosenPmts(sp) : Table[p][sp.note.read[p]].size < 256

(* What section_remain is there for: of a section that is being read as much is left as the packets
   read so far have not carried. *)
SectionLeft ==
  \A p \in PmtPids : sp.section_remain[p] > 0 =>
    LET size == Table[p][sp.pmt_version[p]].size
    IN \E k \in 1..(size \div 184) : sp.section_remain[p] = size - ((184 * k) - 1)

(* Whatever happens, as long as the splitter is in use no packet of a service that was not chosen
   gets into the file, nor of a stream that no PMT of a chosen service has named so far. *)
NoForeign == stray = {}

(* The services the words name: an ID, the first, second or third of the PAT, the one for mobile
   reception, or all; all too when a request for services names none of the PAT's. *)
NamedBy(pat, w) ==
  LET s == Services(pat)
      nth(k) == {s[i] : i \in DOMAIN s \cap {k}}
  IN CASE w \in {"hd", "sd1"} -> nth(1) [] w = "sd2" -> nth(2) [] w = "sd3" -> nth(3)
       [] w = "1seg" -> {e \in ToSet(s) : e[2] = OneSegPid}
       [] w = "all" -> ToSet(s)
       [] w = "epg" -> {}
       [] OTHER -> {e \in ToSet(s) : e[1] = Atoi[w]}
Asked(pat, words) ==
  LET named == UNION {NamedBy(pat, words[i]) : i \in DOMAIN words}
  IN IF named = {} /\ words # <<>> /\ "epg" \notin ToSet(words) THEN ToSet(Services(pat)) ELSE named

\* Words after "epg" are not looked at, and sd2 and sd3 need as many services.
ProperRequest(pat, words) ==
  /\ \A i \in 1..(Len(words) - 1) : words[i] # "epg"
  /\ \A i \in DOMAIN words : words[i] \in {"sd2", "sd3"} => NamedBy(pat, words[i]) # {}
OncePerPmt(pat, words) ==
  /\ \A i, j \in DOMAIN words : i # j => NamedBy(pat, words[i]) \cap NamedBy(pat, words[j]) = {}
  /\ \A e, f \in Asked(pat, words) : e[2] = f[2] => e = f

(* The PMTs that are kept are those of the services the words name, in whatever order words and
   services come and however they are mixed; the new PAT lists such services only, one for every
   PMT; and the splitter waits for as many PMTs as there are unless a service is named twice or
   shares its PMT, when it waits for one that never comes and gives up. *)
ChosenAsAsked ==
  LET asked == Asked(onair.pat, sp.sid_list)
  IN (ProperRequest(onair.pat, sp.sid_list) /\ sp.pat # {}) =>
       /\ ChosenPmts(sp) = {e[2] : e \in asked}
       /\ \A E \in sp.pat : E \subseteq asked /\ {e[2] : e \in E} = ChosenPmts(sp)
       /\ sp.pmt_retain >= Cardinality(ChosenPmts(sp))
       /\ OncePerPmt(onair.pat, sp.sid_list) => sp.pmt_retain = Cardinality(ChosenPmts(sp))
=============================================================================
