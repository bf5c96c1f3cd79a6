------------------------------- MODULE Pt3Dma -------------------------------
(***************************************************************************)
(* The stream of one channel of the PT3 character device (pt3_dtv.c): the  *)
(* DMA engine fills a ring of pages along a chain of descriptors, read()   *)
(* copies the pages out under dma->lock, and the ioctls START_REC,         *)
(* STOP_REC and SET_TEST_MODE_ON/OFF reset, start and stop the engine      *)
(* under pt3_biglock, a different lock.                                    *)
(*                                                                         *)
(* A page is Parts parts; a part stands for the bytes between two read     *)
(* positions, and its value is the number of the part in the order in      *)
(* which the engine wrote it (0: zeroed by memset).  The first byte of a   *)
(* page is kept apart: the driver writes NOT_SYNC_BYTE into it.            *)
(***************************************************************************)
EXTENDS Integers, Sequences

CONSTANTS
  TsCount,    \* PAGE_BLOCK_COUNT, 17 in the code
  Parts,      \* parts of a page
  DescSize,   \* DMA_DESC_SIZE
  DescPage,   \* size of a descriptor page, DMA_PAGE_SIZE
  Sizes,      \* sizes of reads, in parts
  MaxPolls,   \* looks at the next page in one read, 20 in the code
  MaxParts,   \* bound: parts the engine writes, pages counted in done
  MaxCalls    \* bound: ioctls

ASSUME Pt3DmaAssumption ==
  /\ TsCount \in Nat /\ TsCount >= 2
  /\ Parts \in Nat \ {0}
  /\ DescSize \in Nat \ {0} /\ DescPage \in Nat /\ DescSize <= DescPage
  /\ DescPage % DescSize # 0        \* 4096 % 20
  /\ Sizes \subseteq Nat \ {0}
  /\ MaxPolls \in Nat \ {0} /\ MaxParts \in Nat /\ MaxCalls \in Nat

Pages == 0 .. TsCount - 1
End == -1     \* dma_link_descriptor(1, ..): the chain ends here
Nowhere == -2 \* a link that was never written

VARIABLES
  link,       \* next descriptor of each descriptor; the i-th one is for part i
  eng,        \* the descriptor the engine is at
  running,    \* bit 0 of the status register
  halting,    \* the engine has been told to stop
  mem,        \* mem[page][part]
  first,      \* first byte of a page: "sync", "not" (NOT_SYNC_BYTE), "zero"
  pos,        \* page->data_pos
  ts_pos,
  look_ready, \* dma_look_ready[]
  todo,       \* what is left of the ioctl in progress
  rd,         \* the read in progress
  \* history, read by properties and bounds only
  count,      \* parts written
  calls,
  want,       \* number of the part the reader should get next
  done,       \* pages released since the engine was started
  gap,        \* a part was delivered that was not the next one
  stale,      \* a read that began after a start delivered an older part
  lapped,     \* the engine came to the page the reader had not released
  raced,      \* the ring was reset under a read, or read without looking
  hot,        \* the ring was reset while the engine was running
  base        \* value of count when the engine was started

engine == <<eng, running, halting>>
ring == <<mem, first, pos, ts_pos>>
history == <<count, calls, want, done, gap, stale, lapped, raced, hot, base>>
dmaVars == <<link, engine, ring, look_ready, todo, rd, history>>

-----------------------------------------------------------------------------
(* pt3_dma_build_page_descriptor.  Descriptors are laid out page by page,  *)
(* as many as fit, and each is linked to the next one once that is         *)
(* written; the last one closes the chain or ends it.                      *)

PerPage == DescPage \div DescSize
Total == TsCount * Parts
DescCount == (Total + PerPage - 1) \div PerPage

\* The early returns: no descriptor page is left for i; a page is exactly full.
NoPageLeft(i) == i % PerPage = 0 /\ i \div PerPage >= DescCount
PageFull(i) == ((i % PerPage) + 1) * DescSize >= DescPage

Written(i) == /\ \A j \in 0 .. i : ~NoPageLeft(j)
              /\ \A j \in 0 .. i - 1 : ~PageFull(j)

ChainOf(old, loop) ==
  [i \in 0 .. Total - 1 |->
     CASE ~Written(i) -> old[i]
       [] Written(i) /\ i + 1 < Total /\ Written(i + 1) -> i + 1
       [] Written(i) /\ i + 1 = Total /\ ~PageFull(i) -> IF loop THEN 0 ELSE End
       [] OTHER -> Nowhere]

-----------------------------------------------------------------------------
Idle == [at |-> "idle", remain |-> 0, page |-> 0, polls |-> 0, from |-> 0,
         csize |-> 0, fresh |-> FALSE]

\* create_pt3_dma: zeroed pages, a closed chain, the engine off.
DmaInit ==
  /\ link = ChainOf([i \in 0 .. Total - 1 |-> Nowhere], TRUE)
  /\ eng = 0 /\ running = FALSE /\ halting = FALSE
  /\ mem = [p \in Pages |-> [b \in 0 .. Parts - 1 |-> 0]]
  /\ first = [p \in Pages |-> "zero"]
  /\ pos = [p \in Pages |-> 0]
  /\ ts_pos = 0 /\ look_ready = TRUE
  /\ todo = <<>> /\ rd = Idle
  /\ count = 0 /\ calls = 0 /\ want = 1 /\ done = 0 /\ base = 0
  /\ gap = FALSE /\ stale = FALSE /\ lapped = FALSE /\ raced = FALSE /\ hot = FALSE

-----------------------------------------------------------------------------
(* The engine.                                                             *)

EngineWrite ==
  LET p == eng \div Parts
      b == eng % Parts
  IN /\ running /\ eng \in 0 .. Total - 1 /\ count < MaxParts
     /\ mem' = [mem EXCEPT ![p][b] = count + 1]
     /\ first' = IF b = 0 THEN [first EXCEPT ![p] = "sync"] ELSE first
     /\ count' = count + 1
     /\ lapped' = (lapped \/ (count - base) \div Parts >= done + TsCount)
     /\ eng' = link[eng]
     /\ running' = (link[eng] # End)
     /\ UNCHANGED <<link, halting, pos, ts_pos, look_ready, todo, rd, calls,
                    want, done, gap, stale, raced, hot, base>>

EngineHalt ==
  /\ running /\ halting
  /\ running' = FALSE
  /\ UNCHANGED <<link, eng, halting, ring, look_ready, todo, rd, history>>

-----------------------------------------------------------------------------
(* The ioctls, as the list of what they do.                                *)

\* Mutant: the pages keep what they hold.
RewindOnly == << <<"rewind">> >>

ResetPages == [i \in 1 .. TsCount |-> <<"page", i - 1>>] \o << <<"rewind">> >>
Enable == ResetPages \o << <<"start">> >>
Disable == << <<"halt">>, <<"stopped">> >>

Ioctl(steps) ==
  /\ todo = <<>> /\ calls < MaxCalls
  /\ calls' = calls + 1
  /\ todo' = steps
  /\ UNCHANGED <<link, engine, ring, look_ready, rd, count, want, done, gap,
                 stale, lapped, raced, hot, base>>

StartRec == Ioctl(Enable)
StopRec == Ioctl(Disable)
TestModeOn == Ioctl(<< <<"chain", FALSE>> >> \o Enable
                    \o << <<"settle">>, <<"look", FALSE>> >>)
TestModeOff == Ioctl(<< <<"look", TRUE>> >> \o Disable \o << <<"chain", TRUE>> >>)

Step(name) == todo # <<>> /\ Head(todo)[1] = name /\ todo' = Tail(todo)

\* pt3_dma_reset, one page of the loop.
ResetPage ==
  /\ Step("page")
  /\ LET p == Head(todo)[2] IN
       /\ mem' = [mem EXCEPT ![p] = [b \in 0 .. Parts - 1 |-> 0]]
       /\ first' = [first EXCEPT ![p] = "not"]
       /\ pos' = [pos EXCEPT ![p] = 0]
  /\ raced' = (rd.at # "idle" \/ (raced /\ Head(todo)[2] # 0))
  /\ hot' = (running \/ (hot /\ Head(todo)[2] # 0))
  /\ gap' = (gap /\ Head(todo)[2] # 0)
  /\ stale' = (stale /\ Head(todo)[2] # 0)
  /\ rd' = [rd EXCEPT !.fresh = FALSE]
  /\ UNCHANGED <<link, engine, ts_pos, look_ready, count, calls, want, done,
                 lapped, base>>

Rewind ==
  /\ Step("rewind")
  /\ ts_pos' = 0
  /\ raced' = (raced \/ rd.at # "idle")
  /\ UNCHANGED <<link, engine, mem, first, pos, look_ready, rd, count, calls,
                 want, done, gap, stale, lapped, hot, base>>

\* The start address is that of the first descriptor.
StartEngine ==
  /\ Step("start")
  /\ eng' = 0 /\ running' = TRUE /\ halting' = FALSE
  /\ want' = count + 1 /\ base' = count /\ done' = 0
  /\ gap' = FALSE /\ lapped' = FALSE /\ stale' = FALSE
  /\ raced' = (raced \/ rd.at # "idle")
  /\ UNCHANGED <<link, ring, look_ready, rd, count, calls, hot>>

HaltEngine ==
  /\ Step("halt")
  /\ halting' = TRUE
  /\ UNCHANGED <<link, eng, running, ring, look_ready, rd, history>>

\* The loop that waits for the engine has no other way out.
Stopped ==
  /\ Step("stopped") /\ ~running
  /\ UNCHANGED <<link, engine, ring, look_ready, rd, history>>

\* SET_TEST_MODE_ON waits until the engine has ended or the status looks wrong.
Settle ==
  /\ Step("settle")
  /\ UNCHANGED <<link, engine, ring, look_ready, rd, history>>

SetLook ==
  /\ Step("look")
  /\ look_ready' = Head(todo)[2]
  /\ UNCHANGED <<link, engine, ring, rd, history>>

BuildChain ==
  /\ Step("chain")
  /\ link' = ChainOf(link, Head(todo)[2])
  /\ UNCHANGED <<engine, ring, look_ready, rd, history>>

-----------------------------------------------------------------------------
(* pt3_read and pt3_dma_copy.                                              *)

NextPage(p) == IF p + 1 >= TsCount THEN 0 ELSE p + 1

\* The byte pt3_dma_ready looks at.
ByteAt(p) == IF pos[p] = 0 THEN first[p]
             ELSE IF mem[p][pos[p]] = 0 THEN "zero" ELSE "sync"
\* Mutant: a page is ready when the engine has begun it.
Begun == ByteAt(ts_pos) = "sync"

Ready == ByteAt(NextPage(ts_pos)) = "sync"

Resetting == todo # <<>> /\ Head(todo)[1] \in {"page", "rewind", "start"}

Read(size) ==
  /\ rd.at = "idle"
  /\ rd' = [Idle EXCEPT !.at = "look", !.remain = size,
                       !.fresh = ~Resetting]
  /\ raced' = (raced \/ Resetting)
  /\ UNCHANGED <<link, engine, ring, look_ready, todo, count, calls, want, done,
                 gap, stale, lapped, hot, base>>

\* With look_ready a page is taken when the engine has begun the next one.
TakePage ==
  /\ rd.at = "look" /\ (Ready \/ ~look_ready)
  /\ rd' = [rd EXCEPT !.at = "copy", !.page = ts_pos, !.polls = 0, !.from = 0,
                      !.csize = -1]
  /\ raced' = (raced \/ ~Ready)
  /\ UNCHANGED <<link, engine, ring, look_ready, todo, count, calls, want, done,
                 gap, stale, lapped, hot, base>>

\* Not ready: sleep and look again, at most MaxPolls times.
LookAgain ==
  /\ rd.at = "look" /\ look_ready /\ ~Ready
  /\ rd' = IF rd.polls + 1 < MaxPolls THEN [rd EXCEPT !.polls = @ + 1] ELSE Idle
  /\ UNCHANGED <<link, engine, ring, look_ready, todo, history>>

\* The range of one copy_to_user, fixed when it begins.
ChooseRange ==
  /\ rd.at = "copy" /\ rd.csize = -1
  /\ LET room == Parts - pos[rd.page] IN
       rd' = [rd EXCEPT !.from = pos[rd.page],
                        !.csize = IF room > rd.remain THEN rd.remain ELSE room]
  /\ UNCHANGED <<link, engine, ring, look_ready, todo, history>>

\* copy_to_user fails: -EFAULT, nothing of this range counts as read.
CopyFault ==
  /\ rd.at = "copy" /\ rd.csize > 0
  /\ rd' = Idle
  /\ UNCHANGED <<link, engine, ring, look_ready, todo, history>>

\* What copy_to_user hands over, in one step.
Deliver(k) ==
  LET got == [j \in 1 .. k |-> mem[rd.page][rd.from + j - 1]] IN
  /\ gap' = (gap \/ \E j \in 1 .. k : got[j] # want + j - 1)
  /\ want' = IF k = 0 THEN want ELSE got[k] + 1
  /\ stale' = (stale \/ (rd.fresh /\ \E j \in 1 .. k : got[j] \in 1 .. base))

CopyRange ==
  /\ rd.at = "copy" /\ rd.csize >= 0
  /\ Deliver(rd.csize)
  /\ rd' = [rd EXCEPT !.at = "advance", !.remain = @ - rd.csize]
  /\ UNCHANGED <<link, engine, ring, look_ready, todo, count, calls, done,
                 lapped, raced, hot, base>>

\* Mutant: a page read to its last part is not seen to be used up.
PageOverrun(new) == new > Parts

PageUsed(new) == new >= Parts

\* data_pos moves; a page that is used up is marked and released.
Advance ==
  /\ rd.at = "advance"
  /\ LET p == rd.page
         new == pos[p] + rd.csize
     IN IF PageUsed(new)
        THEN /\ pos' = [pos EXCEPT ![p] = 0]
             /\ first' = [first EXCEPT ![p] = "not"]
             /\ ts_pos' = NextPage(ts_pos)
             /\ done' = IF done < MaxParts THEN done + 1 ELSE done
             /\ rd' = [rd EXCEPT !.at = "look", !.polls = 0]
        ELSE /\ pos' = [pos EXCEPT ![p] = new]
             /\ rd' = IF rd.remain = 0 THEN Idle
                      ELSE [rd EXCEPT !.at = "copy", !.csize = -1]
             /\ UNCHANGED <<first, ts_pos, done>>
  /\ UNCHANGED <<link, engine, mem, look_ready, todo, count, calls, want, gap,
                 stale, lapped, raced, hot, base>>

-----------------------------------------------------------------------------
DmaNext ==
  \/ EngineWrite \/ EngineHalt
  \/ StartRec \/ StopRec \/ TestModeOn \/ TestModeOff
  \/ ResetPage \/ Rewind \/ StartEngine \/ HaltEngine \/ Stopped
  \/ Settle \/ SetLook \/ BuildChain
  \/ \E size \in Sizes : Read(size)
  \/ TakePage \/ LookAgain \/ ChooseRange \/ CopyFault \/ CopyRange \/ Advance

DmaSpec == DmaInit /\ [][DmaNext]_dmaVars
-----------------------------------------------------------------------------
DmaTypeOK ==
  /\ link \in [0 .. Total - 1 -> {End, Nowhere} \union 0 .. Total - 1]
  /\ eng \in {End, Nowhere} \union 0 .. Total - 1
  /\ running \in BOOLEAN /\ halting \in BOOLEAN /\ look_ready \in BOOLEAN
  /\ mem \in [Pages -> [0 .. Parts - 1 -> 0 .. MaxParts]]
  /\ first \in [Pages -> {"sync", "not", "zero"}]
  /\ pos \in [Pages -> 0 .. Parts - 1]
  /\ ts_pos \in Pages
  /\ rd.page \in Pages /\ rd.remain \in Nat /\ rd.csize \in -1 .. Parts

(* What a recording gets is the stream from its start, in order, without   *)
(* a hole and nothing twice: as long as the engine has not come round to   *)
(* the page that is not yet released (the driver then only logs "dma       *)
(* buffer overflow") and the ring was not reset under a read or a running  *)
(* engine, nor read in test mode.  pt3_dma_ready, pt3_dma_copy,            *)
(* pt3_dma_build_page_descriptor.                                          *)
Contiguous == ~lapped /\ ~raced /\ ~hot => ~gap

(* A read that begins after START_REC never returns what was received      *)
(* before it, although the pages are reset without dma->lock: unless the   *)
(* engine was still running.                                               *)
Fresh == ~hot => ~stale
=============================================================================
