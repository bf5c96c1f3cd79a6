------------------------------ MODULE PtxFeeds ------------------------------
(* ptx_common and pt3_pci, pxq3pe_pci: one adapter's stream.  A feed starts  *)
(* a kernel thread and then the DMA; on the PT3 engine and thread share a    *)
(* ring of blocks in which the first byte of a block is its mark.  The ring  *)
(* of the PX-Q3PE is in PxqStream.                                           *)
EXTENDS Integers

CONSTANTS
  N,          \* blocks of the ring, TS_BLOCK_CNT
  MaxFeeds,   \* bound: feeds started
  MaxBlocks   \* bound: blocks the engine begins in one feed
ASSUME PtxFeedsAssumption == N \in Nat \ {0, 1} /\ MaxFeeds \in Nat /\ MaxBlocks \in Nat

VARIABLES
  card,       \* "pt3" or "pxq3pe"
  feed,       \* the core has started a feed and not yet stopped it
  call,       \* where start_feed or stop_feed is; "idle"
  kthread,    \* adap->kthread: 0, or the number of the feed that made it
  threads,    \* the threads that run, with what each holds in variables
  feeds,      \* feeds started so far
  dmaOn,      \* the engine runs (PT3)
  begun,      \* blocks the engine has begun in this feed
  mark,       \* per block: its first byte is PTX_TS_SYNC
  block,      \* per block: feed and number of what is in it
  idx,        \* p->ts_blk_idx
  out,        \* the block delivered last
  early,      \* in this start the thread took a mark of the feed before
  lapped,     \* the engine began a block the thread had not read
  failed      \* start_feed failed after it had made a thread
pfVars == <<card, feed, call, kthread, threads, feeds, dmaOn, begun, mark, block, idx, out, early,
            lapped, failed>>
core == <<card, feed, kthread, feeds, failed>>
ring == <<dmaOn, begun, mark, block, idx>>
seen == <<out, early, lapped>>

Blocks == 0..(N - 1)
Nothing == [feed |-> 0, no |-> 0]
None == [k \in {} |-> 0]
Waiting == [at |-> "check", next |-> 0]

PfInit ==
  /\ card \in {"pt3", "pxq3pe"}
  /\ feed = FALSE /\ call = "idle" /\ kthread = 0 /\ threads = None /\ feeds = 0
  /\ dmaOn = FALSE /\ begun = 0 /\ mark = [b \in Blocks |-> FALSE]
  /\ block = [b \in Blocks |-> Nothing] /\ idx = 0
  /\ out = Nothing /\ early = FALSE /\ lapped = FALSE /\ failed = FALSE

(***************************************************************************)
(* ptx_start_feed and ptx_stop_feed; the core allows one feed at a time.   *)
(***************************************************************************)

\* The thread runs before the DMA is started.
StartFeed ==
  /\ call = "idle" /\ ~feed /\ feeds < MaxFeeds
  /\ feeds' = feeds + 1 /\ kthread' = feeds + 1
  /\ threads' = [k \in DOMAIN threads \cup {feeds + 1} |->
                   IF k \in DOMAIN threads THEN threads[k] ELSE Waiting]
  /\ call' = "dma" /\ early' = FALSE
  /\ UNCHANGED <<card, feed, failed, ring, out, lapped>>
\* kthread_run fails: so does start_feed.
NoThread ==
  /\ call = "idle" /\ ~feed /\ feeds < MaxFeeds
  /\ feeds' = feeds + 1 /\ kthread' = 0
  /\ UNCHANGED <<card, feed, call, threads, failed, ring, seen>>

\* A bug: the marks of the feed before stay.
MarksKept ==
  /\ card = "pt3" /\ call = "dma"
  /\ call' = "index"
  /\ UNCHANGED <<core, threads, ring, seen>>
\* pt3_dma_run: the marks, the index, the engine.
ClearMarks ==
  /\ card = "pt3" /\ call = "dma"
  /\ mark' = [b \in Blocks |-> FALSE]
  /\ call' = "index"
  /\ UNCHANGED <<core, threads, dmaOn, begun, block, idx, seen>>
ResetIndex ==
  /\ call = "index"
  /\ idx' = 0 /\ call' = "engine"
  /\ UNCHANGED <<core, threads, dmaOn, begun, mark, block, seen>>
\* The engine writes block 0.
StartEngine ==
  /\ call = "engine"
  /\ dmaOn' = TRUE /\ begun' = 1
  /\ mark' = [mark EXCEPT ![0] = TRUE]
  /\ block' = [block EXCEPT ![0] = [feed |-> feeds, no |-> 1]]
  /\ lapped' = FALSE
  /\ feed' = TRUE /\ call' = "idle"
  /\ UNCHANGED <<card, kthread, feeds, failed, threads, idx, out, early>>
\* pxq3pe_dma: the port is started, or its interrupt cannot be enabled.  Then
\* start_feed has failed, and the core will not stop what it did not start.
PxqDma ==
  /\ card = "pxq3pe" /\ call = "dma"
  /\ \/ feed' = TRUE /\ UNCHANGED failed
     \/ failed' = TRUE /\ UNCHANGED feed
  /\ call' = "idle"
  /\ UNCHANGED <<card, kthread, feeds, threads, ring, seen>>

\* ptx_stop_feed: the engine (the PX-Q3PE's runs on), then the thread.
StopFeed ==
  /\ call = "idle" /\ feed
  /\ dmaOn' = FALSE /\ feed' = FALSE /\ call' = "join"
  /\ UNCHANGED <<card, kthread, feeds, failed, threads, begun, mark, block, idx, seen>>
\* A bug: kthread_stop is left out.
NotStopped ==
  /\ call = "join"
  /\ call' = "idle"
  /\ UNCHANGED <<core, threads, ring, seen>>
\* kthread_stop: the thread ends at the head of its loop.
ThreadStopped ==
  /\ call = "join" /\ threads[kthread].at = "check"
  /\ threads' = [k \in DOMAIN threads \ {kthread} |-> threads[k]]
  /\ call' = "idle"
  /\ UNCHANGED <<core, ring, seen>>

(***************************************************************************)
(* The engine and pt3_thread.                                              *)
(***************************************************************************)

\* The block in work is full, and the engine goes on with the next, whether
\* that has been read or not.
NextBlock ==
  /\ dmaOn /\ begun < MaxBlocks
  /\ LET b == begun % N IN
       /\ lapped' = (lapped \/ mark[b])
       /\ mark' = [mark EXCEPT ![b] = TRUE]
       /\ block' = [block EXCEPT ![b] = [feed |-> feeds, no |-> begun + 1]]
  /\ begun' = begun + 1
  /\ UNCHANGED <<core, call, threads, dmaOn, idx, out, early>>

\* The mark of the block after the one in turn says that this one is full.
Check(k) ==
  LET next == (idx + 1) % N IN
  /\ card = "pt3" /\ threads[k].at = "check" /\ mark[next]
  /\ threads' = [threads EXCEPT ![k] = [at |-> "deliver", next |-> next]]
  /\ early' = (early \/ call \in {"dma", "index", "engine"})
  /\ UNCHANGED <<core, call, ring, out, lapped>>
Deliver(k) ==
  /\ threads[k].at = "deliver"
  /\ out' = block[idx]
  /\ mark' = [mark EXCEPT ![idx] = FALSE]
  /\ threads' = [threads EXCEPT ![k].at = "move"]
  /\ UNCHANGED <<core, call, dmaOn, begun, block, idx, early, lapped>>
Move(k) ==
  /\ threads[k].at = "move"
  /\ idx' = threads[k].next
  /\ threads' = [threads EXCEPT ![k].at = "check"]
  /\ UNCHANGED <<core, call, dmaOn, begun, mark, block, seen>>

PfNext ==
  \/ StartFeed \/ NoThread \/ ClearMarks \/ ResetIndex \/ StartEngine \/ PxqDma
  \/ StopFeed \/ ThreadStopped \/ NextBlock
  \/ \E k \in DOMAIN threads : Check(k) \/ Deliver(k) \/ Move(k)
PfSpec == PfInit /\ [][PfNext]_pfVars

(***************************************************************************)
(* Properties.                                                             *)
(***************************************************************************)

\* Between calls a feed that is on has its thread, the only one, and on the
\* PT3 the engine; one that is off has neither.  A start of the PX-Q3PE that
\* failed leaves its thread for good.
PtxFeedsStream ==
  call = "idle" /\ ~failed =>
    /\ DOMAIN threads = IF feed THEN {kthread} ELSE {}
    /\ card = "pt3" => dmaOn = feed

\* What the thread hands to the demultiplexer is the next full block of the
\* feed, never one of an earlier feed, one twice or one too far: unless the
\* engine has lapped the reader, or the thread, which starts before the marks
\* are cleared, has taken one of the feed before.
BlocksInOrder ==
  [][\A k \in DOMAIN threads : Deliver(k) /\ ~lapped /\ ~early =>
       /\ out'.feed = feeds /\ out'.no < begun
       /\ out'.no = IF out.feed = feeds THEN out.no + 1 ELSE 1]_pfVars
=============================================================================
