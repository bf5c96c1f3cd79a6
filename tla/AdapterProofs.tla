---------------------------- MODULE AdapterProofs ----------------------------
(* Proofs about the DVB adapters of ptx_common and of em28xx: the stream of a *)
(* feed is complete and in order, it is on when and only when there is a     *)
(* feed, and the LNB follows the adapters of a board, however many there are, *)
(* as long as the calls of their frontend threads do not overlap, and again  *)
(* after the first call that runs alone.  And about how a board is found: the *)
(* tables in which open looks for it, for any number of boards and of slots,  *)
(* and the endpoints by which em28xx tells what an interface offers, for any  *)
(* number of them in any order; and that the board it takes the device for    *)
(* fits.  And about the life of the drivers, for any number of adapters:      *)
(* while an interrupt handler or a DMA engine is there, so is what it uses.   *)
EXTENDS AllFeeds, LnbSwitch, CardTable, Em28xxBoards, DriverLife, RingArithmetic, FiniteSetTheorems, SequenceTheorems,
        TLAPS

-----------------------------------------------------------------------------
(* The feeds of the boards' drivers.                                        *)

\* A start or a stop is under way, or a feed is on: there is a thread.
Starting == call \in {"dma", "index", "engine"}
Used == Starting \/ call = "join" \/ feed

\* As long as no start has failed there is the thread of the feed and no
\* other; only the PX-Q3PE's start can fail, and its thread takes nothing
\* from the ring of the PT3.
ThreadInv ==
  /\ card \in {"pt3", "pxq3pe"} /\ call \in {"idle", "dma", "index", "engine", "join"}
  /\ feed \in BOOLEAN
  /\ failed => card = "pxq3pe"
  /\ call # "idle" => ~feed
  /\ call \in {"index", "engine"} => card = "pt3"
  /\ card = "pt3" => dmaOn = feed
  /\ card = "pxq3pe" => dmaOn = FALSE
  /\ ~failed => DOMAIN threads = IF Used THEN {kthread} ELSE {}
  /\ threads \in [DOMAIN threads -> [at : {"check", "deliver", "move"}, next : Blocks]]
  /\ card = "pxq3pe" => \A k \in DOMAIN threads : threads[k].at = "check"

\* No block carries a feed that has not begun.
BlockInv ==
  /\ feeds \in Nat /\ begun \in Nat /\ idx \in Blocks
  /\ mark \in [Blocks -> BOOLEAN] /\ block \in [Blocks -> [feed : 0 .. feeds, no : Nat]]
  /\ out \in [feed : 0 .. feeds, no : Nat]
  /\ Starting => \A b \in Blocks : block[b].feed < feeds

\* A thread that has taken no old mark waits until the engine runs.
StartInv ==
  card = "pt3" /\ Starting /\ ~early =>
    /\ threads[kthread].at = "check" /\ out.feed < feeds
    /\ call \in {"index", "engine"} => \A b \in Blocks : mark[b] = FALSE
    /\ call = "engine" => idx = 0

\* The blocks of this feed that the thread has handed on.
Delivered == IF out.feed = feeds THEN out.no ELSE 0

\* Where the thread th is with d blocks behind it.
PlaceOf(th, d) ==
  \/ th.at = "check" /\ idx = d % N
  \/ th.at = "deliver" /\ idx = d % N /\ th.next = (d + 1) % N /\ d + 2 <= begun
  \/ th.at = "move" /\ d > 0 /\ idx = (d - 1) % N /\ th.next = d % N

\* The engine is ahead of the thread by one block at least and by the ring at
\* most; marked are the blocks it has begun and the thread has not handed on,
\* and they hold what is in turn.
Ahead(d) ==
  /\ d < begun /\ begun <= d + N
  /\ PlaceOf(threads[kthread], d)
  /\ \A j \in d .. d + N - 1 : mark[j % N] = (j < begun)
  /\ \A j \in d .. begun - 1 : block[j % N] = [feed |-> feeds, no |-> j + 1]
StreamInv ==
  card = "pt3" /\ Used /\ ~Starting /\ ~early /\ ~lapped => Ahead(Delivered)

FeedInv == ThreadInv /\ BlockInv /\ StartInv /\ StreamInv

LEMMA FeedInit == PfInit => FeedInv
<1> SUFFICES ASSUME PfInit PROVE FeedInv
  OBVIOUS
<1> USE DEF PfInit
<1>1. DOMAIN threads = {} /\ threads \in [DOMAIN threads -> [at : {"check", "deliver", "move"}, next : Blocks]]
  BY DEF None
<1>2. ~Starting /\ ~Used
  BY DEF Starting, Used
<1>3. ThreadInv
  BY <1>1, <1>2 DEF ThreadInv
<1>4. 0 \in Blocks
  BY PtxFeedsAssumption DEF Blocks
<1>5. BlockInv
  BY <1>2, <1>4 DEF BlockInv, Nothing
<1> QED
  BY <1>2, <1>3, <1>5 DEF FeedInv, StartInv, StreamInv

LEMMA ThreadNext ==
  ASSUME ThreadInv, BlockInv, [PfNext]_pfVars PROVE ThreadInv'
<1> USE DEF ThreadInv, Used, Starting
<1>1. CASE StartFeed
  <2>1. DOMAIN threads' = DOMAIN threads \cup {kthread'} /\ Waiting \in [at : {"check", "deliver", "move"}, next : Blocks]
    BY <1>1, PtxFeedsAssumption DEF StartFeed, Waiting, Blocks
  <2>2. \A k \in DOMAIN threads' : threads'[k] = IF k \in DOMAIN threads THEN threads[k] ELSE Waiting
    BY <1>1 DEF StartFeed
  <2>3. \A k \in DOMAIN threads' : threads'[k] \in [at : {"check", "deliver", "move"}, next : Blocks]
    BY <2>1, <2>2
  <2>4. threads' \in [DOMAIN threads' -> [at : {"check", "deliver", "move"}, next : Blocks]]
    BY <2>3, <1>1 DEF StartFeed
  <2>5. card = "pxq3pe" => \A k \in DOMAIN threads' : threads'[k].at = "check"
    BY <2>2 DEF Waiting
  <2> QED
    BY <1>1, <2>1, <2>4, <2>5 DEF StartFeed, core, ring
<1>2. CASE NoThread \/ ClearMarks \/ ResetIndex
  BY <1>2 DEF NoThread, ClearMarks, ResetIndex, core, ring, seen
<1>3. CASE StartEngine
  <2>1. feed' = TRUE /\ call' = "idle" /\ call = "engine" /\ dmaOn' = TRUE /\ UNCHANGED <<card, kthread, threads, failed>>
    BY <1>3 DEF StartEngine
  <2>2. card = "pt3" /\ ~failed
    BY <2>1
  <2> QED
    BY <2>1, <2>2
<1>9. CASE PxqDma
  <2>1. card = "pxq3pe" /\ call = "dma" /\ call' = "idle" /\ UNCHANGED <<card, kthread, threads, dmaOn>>
    BY <1>9 DEF PxqDma, ring
  <2>2. CASE feed' = TRUE /\ UNCHANGED failed
    BY <2>1, <2>2
  <2>3. CASE failed' = TRUE /\ UNCHANGED feed
    BY <2>1, <2>3
  <2> QED
    BY <1>9, <2>2, <2>3, Zenon DEF PxqDma
<1>4. CASE StopFeed
  BY <1>4 DEF StopFeed, core, ring, seen
<1>5. CASE ThreadStopped
  <2>1. DOMAIN threads' = DOMAIN threads \ {kthread} /\ \A k \in DOMAIN threads' : threads'[k] = threads[k]
    BY <1>5 DEF ThreadStopped
  <2>2. threads' \in [DOMAIN threads' -> [at : {"check", "deliver", "move"}, next : Blocks]]
    BY <2>1, <1>5 DEF ThreadStopped
  <2> QED
    BY <1>5, <2>1, <2>2 DEF ThreadStopped, core, ring, seen
<1>6. CASE NextBlock
  BY <1>6 DEF NextBlock, core, ring, seen
<1>7. ASSUME NEW k \in DOMAIN threads, Check(k) \/ Deliver(k) \/ Move(k) PROVE ThreadInv'
  <2>1. card = "pt3" /\ UNCHANGED <<card, call, feed, kthread, failed, dmaOn>>
    BY <1>7 DEF Check, Deliver, Move, core, ring, seen
  <2>2. PICK th \in [at : {"check", "deliver", "move"}, next : Blocks] : threads' = [threads EXCEPT ![k] = th]
    <3>0. threads[k] \in [at : {"check", "deliver", "move"}, next : Blocks] /\ N \in Nat \ {0}
      BY PtxFeedsAssumption
    <3>1. CASE Check(k)
      <4>1. (idx + 1) % N \in Blocks
        BY <3>0 DEF BlockInv, Blocks
      <4> QED
        BY <4>1, <3>1 DEF Check
    <3>2. CASE Deliver(k)
      <4>1. [threads[k] EXCEPT !.at = "move"] \in [at : {"check", "deliver", "move"}, next : Blocks]
        BY <3>0
      <4>2. threads' = [threads EXCEPT ![k] = [threads[k] EXCEPT !.at = "move"]]
        BY <3>2 DEF Deliver
      <4> QED
        BY <4>1, <4>2
    <3>3. CASE Move(k)
      <4>1. [threads[k] EXCEPT !.at = "check"] \in [at : {"check", "deliver", "move"}, next : Blocks]
        BY <3>0
      <4>2. threads' = [threads EXCEPT ![k] = [threads[k] EXCEPT !.at = "check"]]
        BY <3>3 DEF Move
      <4> QED
        BY <4>1, <4>2
    <3> QED
      BY <1>7, <3>1, <3>2, <3>3
  <2>3. DOMAIN threads' = DOMAIN threads /\ threads' \in [DOMAIN threads' -> [at : {"check", "deliver", "move"}, next : Blocks]]
    BY <2>2
  <2> QED
    BY <2>1, <2>3
<1>8. CASE UNCHANGED pfVars
  BY <1>8 DEF pfVars
<1> QED
  BY <1>1, <1>2, <1>3, <1>4, <1>5, <1>6, <1>7, <1>8, <1>9 DEF PfNext

LEMMA BlockNext ==
  ASSUME ThreadInv, BlockInv, [PfNext]_pfVars PROVE BlockInv'
<1> USE DEF BlockInv, Starting
<1>0. N \in Nat \ {0} /\ 0 \in Blocks
  BY PtxFeedsAssumption DEF Blocks
<1>1. CASE StartFeed \/ NoThread
  <2>1. feeds' = feeds + 1 /\ UNCHANGED <<begun, idx, mark, block, out>> /\ ~Starting
    BY <1>1 DEF StartFeed, NoThread, ring, seen
  <2>2. \A b \in Blocks : block[b].feed \in 0 .. feeds /\ block[b].no \in Nat
    OBVIOUS
  <2>3. block \in [Blocks -> [feed : 0 .. feeds', no : Nat]] /\ out \in [feed : 0 .. feeds', no : Nat]
    <3>1. 0 .. feeds \subseteq 0 .. feeds'
      BY <2>1
    <3> QED
      BY <3>1
  <2>4. \A b \in Blocks : block[b].feed < feeds'
    BY <2>1, <2>2
  <2> QED
    BY <2>1, <2>3, <2>4
<1>2. CASE ClearMarks \/ ResetIndex
  BY <1>0, <1>2 DEF ClearMarks, ResetIndex, core, seen
<1>3. CASE StartEngine
  <2>1. [feed |-> feeds, no |-> 1] \in [feed : 0 .. feeds, no : Nat]
    OBVIOUS
  <2> QED
    BY <1>0, <1>3, <2>1 DEF StartEngine
<1>4. CASE PxqDma \/ StopFeed \/ ThreadStopped
  BY <1>4 DEF PxqDma, StopFeed, ThreadStopped, core, ring, seen
<1>5. CASE NextBlock
  <2>1. begun % N \in Blocks /\ [feed |-> feeds, no |-> begun + 1] \in [feed : 0 .. feeds, no : Nat]
    BY <1>0 DEF Blocks
  <2>2. dmaOn /\ UNCHANGED <<feeds, call, idx, out, card>> /\ begun' = begun + 1
        /\ mark' = [mark EXCEPT ![begun % N] = TRUE]
        /\ block' = [block EXCEPT ![begun % N] = [feed |-> feeds, no |-> begun + 1]]
    BY <1>5 DEF NextBlock, core
  <2>3. ~Starting
    <3>1. card = "pt3" /\ feed
      BY <2>2 DEF ThreadInv
    <3>2. call = "idle"
      BY <3>1 DEF ThreadInv
    <3> QED
      BY <3>2
  <2> QED
    BY <2>1, <2>2, <2>3
<1>6. ASSUME NEW k \in DOMAIN threads, Check(k) \/ Deliver(k) \/ Move(k) PROVE BlockInv'
  <2>1. CASE Check(k)
    BY <2>1 DEF Check, core, ring
  <2>2. CASE Deliver(k)
    <3>1. block[idx] \in [feed : 0 .. feeds, no : Nat]
      OBVIOUS
    <3> QED
      BY <2>2, <3>1 DEF Deliver, core
  <2>3. CASE Move(k)
    <3>1. threads[k].next \in Blocks
      BY DEF ThreadInv
    <3> QED
      BY <2>3, <3>1 DEF Move, core, seen
  <2> QED
    BY <1>6, <2>1, <2>2, <2>3
<1>7. CASE UNCHANGED pfVars
  BY <1>7 DEF pfVars
<1> QED
  BY <1>1, <1>2, <1>3, <1>4, <1>5, <1>6, <1>7 DEF PfNext

-----------------------------------------------------------------------------
(* The feeds of em28xx.                                                      *)

\* What nfeeds counts beside the feeds that are on: a first start that failed.
Lost == IF stuck THEN 1 ELSE 0
EfInv ==
  /\ on \subseteq Feeds /\ stuck \in BOOLEAN /\ streaming \in BOOLEAN
  /\ nfeeds = Cardinality(on) + Lost
  /\ Em28xxFeedsStream

\* A finite set has a cardinality, which is 0 for the empty one only.
LEMMA OnIsCounted ==
  ASSUME on \subseteq Feeds
  PROVE  IsFiniteSet(on) /\ Cardinality(on) \in Nat /\ (Cardinality(on) = 0 <=> on = {})
<1>1. IsFiniteSet(on) BY Em28xxFeedsAssumption, FS_Subset
<1> QED BY <1>1, FS_CardinalityType, FS_EmptySet

LEMMA EfInvNext == EfInv /\ [EfNext]_efVars => EfInv'
<1> SUFFICES ASSUME EfInv, [EfNext]_efVars PROVE EfInv' OBVIOUS
<1> USE DEF EfInv, Lost, Em28xxFeedsStream
<1>c. IsFiniteSet(on) /\ Cardinality(on) \in Nat /\ (Cardinality(on) = 0 <=> on = {})
  BY OnIsCounted
<1>1. ASSUME NEW f \in Feeds, StartFirst(f) PROVE EfInv'
  <2>1. on = {} /\ stuck = FALSE /\ Cardinality(on) = 0 BY <1>1, <1>c DEF StartFirst
  <2>2. CASE streaming' = TRUE /\ on' = on \cup {f} /\ UNCHANGED stuck
    <3>0. f \notin on BY <1>1 DEF StartFirst
    <3>a. on' = on \cup {f} BY <2>2
    <3>b. Cardinality(on) = 0 /\ IsFiniteSet(on) BY <2>1, <1>c
    <3>c. Cardinality(on \cup {f}) = Cardinality(on) + 1 BY <3>0, <3>b, FS_AddElement
    <3>1. Cardinality(on') = 1 BY <3>a, <3>b, <3>c
    <3> QED BY <2>1, <2>2, <3>1, <1>1 DEF StartFirst
  <2>3. CASE stuck' = TRUE /\ UNCHANGED <<streaming, on>>
    BY <2>1, <2>3, <1>1 DEF StartFirst
  <2> QED BY <2>2, <2>3, <1>1 DEF StartFirst
<1>2. ASSUME NEW f \in Feeds, StartMore(f) PROVE EfInv'
  <2>1. Cardinality(on') = Cardinality(on) + 1 BY <1>2, <1>c, FS_AddElement DEF StartMore
  <2>2. stuck \/ on # {} BY <1>2, <1>c DEF StartMore
  <2> QED BY <1>2, <1>c, <2>1, <2>2 DEF StartMore
<1>3. ASSUME NEW f \in Feeds, EmStopFeed(f) PROVE EfInv'
  <2>1. f \in on /\ on' = on \ {f} /\ nfeeds' = nfeeds - 1 /\ stuck' = stuck BY <1>3 DEF EmStopFeed
  <2>2. Cardinality(on') = Cardinality(on) - 1 BY <2>1, <1>c, FS_RemoveElement
  <2>3. on' \subseteq Feeds /\ nfeeds' = Cardinality(on') + Lost' BY <2>1, <2>2, <1>c
  <2>4. Cardinality(on') \in Nat /\ (Cardinality(on') = 0 <=> on' = {})
    BY <2>3, <1>c, <2>1, Em28xxFeedsAssumption, FS_Subset, FS_CardinalityType, FS_EmptySet
  <2>5. streaming' = (streaming /\ nfeeds' # 0) BY <1>3 DEF EmStopFeed
  <2>6. CASE stuck = TRUE BY <2>1, <2>3, <2>5, <2>6
  <2>7. CASE stuck = FALSE
    <3>1. streaming = TRUE BY <2>1, <2>7
    <3>2. nfeeds' = 0 <=> on' = {} BY <2>1, <2>3, <2>4, <2>7
    <3>3. streaming' <=> on' # {} BY <2>5, <3>1, <3>2
    <3> QED BY <2>1, <2>3, <2>5, <2>7, <3>3
  <2> QED BY <2>6, <2>7
<1>4. CASE UNCHANGED efVars BY <1>4 DEF efVars
<1> QED BY <1>1, <1>2, <1>3, <1>4 DEF EfNext

\* The stream runs exactly while a feed is on, as long as no first start has
\* failed; then it never runs again, since nfeeds stays one too high
\* (em28xx_start_feed, em28xx_stop_feed).
THEOREM StreamFollowsFeeds == EfSpec => []Em28xxFeedsStream
<1>1. ASSUME EfInit PROVE EfInv
  <2>1. on = {} /\ Cardinality(on) = 0 BY <1>1, FS_EmptySet DEF EfInit
  <2>2. nfeeds = Cardinality(on) + Lost BY <1>1, <2>1 DEF EfInit, Lost
  <2>3. stuck = FALSE /\ streaming = FALSE BY <1>1 DEF EfInit
  <2>4. Em28xxFeedsStream BY <2>1, <2>3 DEF Em28xxFeedsStream
  <2> QED BY <2>1, <2>2, <2>3, <2>4 DEF EfInv
<1>2. EfInv => Em28xxFeedsStream BY DEF EfInv
<1> QED BY <1>1, <1>2, EfInvNext, PTL DEF EfSpec

LEMMA StartNext ==
  ASSUME ThreadInv, BlockInv, StartInv, [PfNext]_pfVars PROVE StartInv'
<1> SUFFICES ASSUME card' = "pt3", Starting', ~early'
             PROVE  /\ threads'[kthread'].at = "check" /\ out'.feed < feeds'
                    /\ call' \in {"index", "engine"} => \A b \in Blocks : mark'[b] = FALSE
                    /\ call' = "engine" => idx' = 0
  BY Zenon DEF StartInv
<1> USE DEF Starting
<1>1. CASE StartFeed
  <2>1. /\ feeds' = feeds + 1 /\ kthread' = feeds + 1 /\ call' = "dma" /\ UNCHANGED <<out, card, failed>> /\ ~feed
        /\ call = "idle"
        /\ threads' = [k \in DOMAIN threads \cup {feeds + 1} |->
                        IF k \in DOMAIN threads THEN threads[k] ELSE Waiting]
    BY <1>1 DEF StartFeed
  <2>2. DOMAIN threads = {}
    BY <2>1 DEF ThreadInv, Used
  <2>3. threads'[kthread'] = Waiting
    BY <2>1, <2>2
  <2> QED
    BY <2>1, <2>3 DEF Waiting, BlockInv
<1>2. CASE NoThread
  BY <1>2 DEF NoThread
<1>3. CASE ClearMarks
  <2>1. /\ call = "dma" /\ call' = "index" /\ mark' = [b \in Blocks |-> FALSE]
        /\ UNCHANGED <<card, kthread, feeds, threads, early, out>>
    BY <1>3 DEF ClearMarks, core, seen
  <2> QED
    BY <2>1 DEF StartInv
<1>4. CASE ResetIndex
  <2>1. call = "index" /\ idx' = 0 /\ UNCHANGED <<card, kthread, feeds, threads, early, out, mark>>
    BY <1>4 DEF ResetIndex, core, seen
  <2> QED
    BY <2>1 DEF StartInv
<1>5. CASE StartEngine \/ PxqDma \/ StopFeed \/ ThreadStopped
  BY <1>5 DEF StartEngine, PxqDma, StopFeed, ThreadStopped
<1>6. CASE NextBlock
  <2>1. call' = call /\ dmaOn
    BY <1>6 DEF NextBlock
  <2>2. feed
    BY <2>1 DEF ThreadInv
  <2> QED
    BY <2>1, <2>2 DEF ThreadInv
<1>7. ASSUME NEW k \in DOMAIN threads, Check(k) \/ Deliver(k) \/ Move(k) PROVE FALSE
  <2>1. call' = call /\ card = "pt3" /\ UNCHANGED <<card, failed, kthread>>
    BY <1>7 DEF Check, Deliver, Move, core, ring, seen, ThreadInv
  <2>2. k = kthread
    BY <2>1 DEF ThreadInv, Used
  <2>3. CASE Check(k)
    BY <2>1, <2>3, Zenon DEF Check
  <2>4. CASE Deliver(k) \/ Move(k)
    <3>1. early' = early /\ threads[k].at # "check"
      BY <2>4 DEF Deliver, Move, seen
    <3> QED
      BY <2>1, <2>2, <3>1 DEF StartInv
  <2> QED
    BY <1>7, <2>3, <2>4
<1>8. CASE UNCHANGED pfVars
  <2>1. UNCHANGED <<card, call, early, threads, kthread, out, feeds, mark, idx>>
    BY <1>8 DEF pfVars
  <2> QED
    BY <2>1 DEF StartInv
<1> QED
  BY <1>1, <1>2, <1>3, <1>4, <1>5, <1>6, <1>7, <1>8 DEF PfNext

\* The slots of the ring, from the one of block number d on.
LEMMA RingSlots ==
  ASSUME NEW d \in Nat
  PROVE  /\ N \in Nat \ {0} /\ N >= 2 /\ d % N \in Blocks
         /\ ((d % N) + 1) % N = (d + 1) % N
         /\ (d + N) % N = d % N
         /\ \A i, j \in d .. d + N - 1 : i # j => i % N # j % N
<1>1. N \in Nat \ {0} /\ N >= 2
  BY PtxFeedsAssumption
<1>2. d % N \in Blocks
  BY <1>1 DEF Blocks
<1>3. ((d % N) + 1) % N = (d + 1) % N
  BY <1>1, Onward
<1>4. (d + N) % N = d % N
  <2>1. ((d % N) + N) % N = (d + N) % N
    BY <1>1, Onward
  <2>2. PICK r \in 0 .. N - 1 : r = d % N
    BY <1>1
  <2>3. (1 * N + r) % N = r
    BY <1>1, Remainder
  <2> QED
    BY <1>1, <2>1, <2>2, <2>3
<1>5. ASSUME NEW i \in d .. d + N - 1, NEW j \in d .. d + N - 1, i # j PROVE i % N # j % N
  <2>1. i \in Nat /\ j \in Nat /\ ((i < j /\ j < i + N) \/ (j < i /\ i < j + N))
    BY <1>1, <1>5
  <2> QED
    BY <1>1, <2>1, Apart
<1> QED
  BY <1>1, <1>2, <1>3, <1>4, <1>5

\* The engine begins a block that is free.
LEMMA EngineGoesOn ==
  ASSUME ThreadInv, BlockInv, NEW d \in Nat, Ahead(d), NextBlock, ~lapped'
  PROVE  Ahead(d)'
<1>0. N \in Nat \ {0} /\ N >= 2
  BY PtxFeedsAssumption
<1>1. /\ begun' = begun + 1 /\ UNCHANGED <<threads, kthread, idx, feeds, out>>
      /\ mark' = [mark EXCEPT ![begun % N] = TRUE]
      /\ block' = [block EXCEPT ![begun % N] = [feed |-> feeds, no |-> begun + 1]]
  BY DEF NextBlock, core
<1>2. mark[begun % N] = FALSE
  <2>1. ~mark[begun % N]
    BY Zenon DEF NextBlock
  <2>2. begun % N \in Blocks
    BY <1>0 DEF Blocks, BlockInv
  <2> QED
    BY <2>1, <2>2 DEF BlockInv
<1>3. begun \in d .. d + N - 1
  <2>1. begun # d + N
    <3>1. mark[d % N] = TRUE
      <4>1. d \in d .. d + N - 1 /\ d < begun
        BY <1>0 DEF Ahead
      <4>2. mark[d % N] = (d < begun)
        BY <4>1 DEF Ahead
      <4> QED
        BY <4>1, <4>2
    <3> QED
      BY <1>2, <3>1, RingSlots
  <2> QED
    BY <1>0, <2>1 DEF Ahead, BlockInv
<1>4. ASSUME NEW j \in d .. d + N - 1 PROVE mark'[j % N] = (j < begun')
  <2>1. j % N \in Blocks /\ j \in Nat
    BY <1>0 DEF Blocks
  <2>2. CASE j = begun
    <3>1. mark'[j % N] = TRUE
      BY <1>1, <2>1, <2>2 DEF BlockInv
    <3>2. (j < begun') = TRUE
      BY <1>1, <2>1, <2>2
    <3> QED
      BY <3>1, <3>2, Zenon
  <2>3. CASE j # begun
    <3>1. j % N # begun % N
      BY <1>3, <2>3, RingSlots
    <3>2. mark'[j % N] = mark[j % N]
      BY <1>1, <2>1, <3>1 DEF BlockInv
    <3>3. mark[j % N] = (j < begun)
      BY DEF Ahead
    <3>4. (j < begun) = (j < begun + 1)
      BY <2>1, <2>3 DEF BlockInv
    <3> QED
      BY <1>1, <3>2, <3>3, <3>4
  <2> QED
    BY <2>2, <2>3
<1>5. ASSUME NEW j \in d .. begun' - 1 PROVE block'[j % N] = [feed |-> feeds', no |-> j + 1]
  <2>1. j % N \in Blocks /\ j \in Nat /\ j \in d .. d + N - 1
    BY <1>0, <1>1, <1>3 DEF Blocks, BlockInv
  <2>2. CASE j = begun
    BY <1>1, <2>1, <2>2 DEF BlockInv
  <2>3. CASE j # begun
    <3>1. j % N # begun % N
      BY <1>3, <2>1, <2>3, RingSlots
    <3>2. block'[j % N] = block[j % N]
      BY <1>1, <2>1, <3>1 DEF BlockInv
    <3>3. j \in d .. begun - 1
      BY <1>1, <2>1, <2>3 DEF BlockInv
    <3>4. block[j % N] = [feed |-> feeds, no |-> j + 1]
      BY <3>3 DEF Ahead
    <3> QED
      BY <1>1, <3>2, <3>4
  <2> QED
    BY <2>2, <2>3
<1>6. PlaceOf(threads[kthread], d)'
  BY <1>1 DEF Ahead, PlaceOf, BlockInv
<1>7. d < begun' /\ begun' <= d + N
  BY <1>0, <1>1, <1>3 DEF Ahead, BlockInv
<1> QED
  BY <1>4, <1>5, <1>6, <1>7 DEF Ahead

\* The thread hands on the block in turn, and it is full.
LEMMA HandsOn ==
  ASSUME ThreadInv, BlockInv, NEW d \in Nat, Ahead(d), d = Delivered, kthread \in DOMAIN threads,
         Deliver(kthread)
  PROVE  out' = [feed |-> feeds, no |-> d + 1] /\ d + 2 <= begun /\ Ahead(d + 1)'
<1>0. N \in Nat \ {0} /\ N >= 2 /\ begun \in Nat
  BY PtxFeedsAssumption DEF BlockInv
<1>1. /\ idx = d % N /\ d + 2 <= begun /\ threads[kthread].next = (d + 1) % N
  BY DEF Deliver, Ahead, PlaceOf
<1>2. /\ out' = block[d % N] /\ mark' = [mark EXCEPT ![d % N] = FALSE]
      /\ threads'[kthread].at = "move" /\ threads'[kthread].next = (d + 1) % N
      /\ UNCHANGED <<feeds, kthread, begun, block, idx>>
  BY <1>1 DEF Deliver, core, ThreadInv
<1>3. out' = [feed |-> feeds, no |-> d + 1]
  <2>1. d \in d .. begun - 1
    BY <1>0, <1>1
  <2> QED
    BY <1>2, <2>1 DEF Ahead
<1>4. PlaceOf(threads[kthread], d + 1)'
  <2>1. d + 1 > 0 /\ (d + 1) - 1 = d
    OBVIOUS
  <2> QED
    BY <1>1, <1>2, <2>1 DEF PlaceOf
<1>5. ASSUME NEW j \in d + 1 .. (d + 1) + N - 1 PROVE mark'[j % N] = (j < begun')
  <2>1. CASE j = d + N
    <3>1. j % N = d % N /\ d % N \in Blocks
      BY <2>1, RingSlots
    <3>2. mark'[j % N] = FALSE
      BY <1>2, <3>1 DEF BlockInv
    <3>3. (j < begun') = FALSE
      BY <1>0, <1>2, <2>1 DEF Ahead
    <3> QED
      BY <3>2, <3>3, Zenon
  <2>2. CASE j # d + N
    <3>1. j \in d .. d + N - 1 /\ d \in d .. d + N - 1 /\ j # d
      BY <1>0, <2>2
    <3>2. j % N # d % N
      BY <3>1, RingSlots
    <3>3. mark'[j % N] = mark[j % N]
      <4>1. j % N \in Blocks
        BY <1>0, <3>1 DEF Blocks
      <4> QED
        BY <1>2, <3>2, <4>1 DEF BlockInv
    <3>4. mark[j % N] = (j < begun)
      BY <3>1 DEF Ahead
    <3> QED
      BY <1>2, <3>3, <3>4
  <2> QED
    BY <2>1, <2>2
<1>6. ASSUME NEW j \in d + 1 .. begun' - 1 PROVE block'[j % N] = [feed |-> feeds', no |-> j + 1]
  <2>1. j \in d .. begun - 1
    BY <1>0, <1>2
  <2> QED
    BY <1>2, <2>1 DEF Ahead
<1>7. d + 1 < begun' /\ begun' <= (d + 1) + N
  BY <1>0, <1>1, <1>2 DEF Ahead
<1>8. Ahead(d + 1)'
  BY <1>4, <1>5, <1>6, <1>7 DEF Ahead
<1> QED
  BY <1>1, <1>3, <1>8

LEMMA StreamNext ==
  ASSUME FeedInv, [PfNext]_pfVars PROVE StreamInv'
<1> SUFFICES ASSUME card' = "pt3", Used', ~Starting', ~early', ~lapped' PROVE Ahead(Delivered)'
  BY Zenon DEF StreamInv
<1>i. ThreadInv /\ BlockInv /\ StartInv /\ StreamInv
  BY DEF FeedInv
<1>d. PICK d \in Nat : d = Delivered
  BY <1>i DEF Delivered, BlockInv
<1>1. CASE StartFeed \/ NoThread \/ ClearMarks \/ ResetIndex \/ PxqDma
  <2>1. CASE StartFeed \/ ClearMarks \/ ResetIndex
    BY <2>1 DEF StartFeed, ClearMarks, ResetIndex, Starting
  <2>2. CASE NoThread
    BY <2>2 DEF NoThread, Used, Starting, core
  <2>3. CASE PxqDma
    BY <2>3 DEF PxqDma
  <2> QED
    BY <1>1, <2>1, <2>2, <2>3
<1>2. CASE StartEngine
  <2>1. /\ call = "engine" /\ begun' = 1 /\ mark' = [mark EXCEPT ![0] = TRUE]
        /\ block' = [block EXCEPT ![0] = [feed |-> feeds, no |-> 1]]
        /\ UNCHANGED <<card, kthread, feeds, threads, idx, out, early>>
    BY <1>2 DEF StartEngine
  <2>2. threads[kthread].at = "check" /\ out.feed < feeds /\ idx = 0 /\ \A b \in Blocks : mark[b] = FALSE
    BY <1>i, <2>1 DEF StartInv, Starting
  <2>3. N \in Nat \ {0} /\ N >= 2 /\ 0 \in Blocks /\ 0 % N = 0
    BY PtxFeedsAssumption DEF Blocks
  <2>4. Delivered' = 0
    BY <1>i, <2>1, <2>2 DEF Delivered, BlockInv
  <2>5. ASSUME NEW j \in 0 .. 0 + N - 1 PROVE mark'[j % N] = (j < 1)
    <3>1. j % N = j /\ j \in Blocks
      BY <2>3 DEF Blocks
    <3>2. CASE j = 0
      <4>1. mark'[j % N] = TRUE
        BY <1>i, <2>1, <2>3, <3>1, <3>2 DEF BlockInv
      <4>2. (j < 1) = TRUE
        BY <3>2
      <4> QED
        BY <4>1, <4>2, Zenon
    <3>3. CASE j # 0
      <4>1. mark'[j % N] = FALSE
        BY <1>i, <2>1, <2>2, <3>1, <3>3 DEF BlockInv
      <4>2. (j < 1) = FALSE
        BY <2>3, <3>3
      <4> QED
        BY <4>1, <4>2, Zenon
    <3> QED
      BY <3>2, <3>3
  <2>6. ASSUME NEW j \in 0 .. 1 - 1 PROVE block'[j % N] = [feed |-> feeds', no |-> j + 1]
    BY <1>i, <2>1, <2>3 DEF BlockInv
  <2>7. Ahead(0)'
    <3>1. PlaceOf(threads[kthread], 0)'
      BY <2>1, <2>2, <2>3 DEF PlaceOf
    <3>2. 0 < begun' /\ begun' <= 0 + N
      BY <2>1, <2>3
    <3> QED
      BY <2>1, <2>5, <2>6, <3>1, <3>2 DEF Ahead
  <2> QED
    BY <2>4, <2>7
<1>3. CASE StopFeed
  <2>1. /\ call = "idle" /\ feed /\ UNCHANGED <<card, early, lapped, kthread, feeds, threads, begun, mark, block, idx, out>>
    BY <1>3 DEF StopFeed, seen
  <2>2. Ahead(Delivered)
    BY <1>i, <2>1 DEF StreamInv, Used, Starting
  <2> QED
    BY <2>1, <2>2 DEF Ahead, Delivered, PlaceOf
<1>4. CASE ThreadStopped
  BY <1>4, <1>i DEF ThreadStopped, Used, Starting, ThreadInv, core
<1>5. CASE NextBlock
  <2>1. UNCHANGED <<card, call, feed, early, feeds, out>>
    BY <1>5 DEF NextBlock, core
  <2>2. ~lapped
    BY <1>5, Zenon DEF NextBlock
  <2>3. Ahead(d)
    BY <1>i, <1>d, <2>1, <2>2 DEF StreamInv, Used, Starting
  <2>4. Ahead(d)'
    BY <1>i, <1>5, <2>3, EngineGoesOn
  <2> QED
    BY <1>d, <2>1, <2>4 DEF Delivered
<1>6. ASSUME NEW k \in DOMAIN threads, Check(k) \/ Deliver(k) \/ Move(k) PROVE Ahead(Delivered)'
  <2>1. UNCHANGED <<card, call, feed, failed, kthread, lapped, feeds>>
    BY <1>6 DEF Check, Deliver, Move, core, ring, seen
  <2>2. ~early
    <3>1. CASE Check(k)
      BY <3>1, Zenon DEF Check
    <3>2. CASE Deliver(k) \/ Move(k)
      BY <3>2 DEF Deliver, Move, seen
    <3> QED
      BY <1>6, <3>1, <3>2
  <2>3. Ahead(d)
    BY <1>i, <1>d, <2>1, <2>2 DEF StreamInv, Used, Starting
  <2>4. k = kthread
    BY <1>i, <2>1 DEF ThreadInv
  <2>5. CASE Check(k)
    <3>1. /\ mark[(idx + 1) % N] /\ threads[k].at = "check" /\ threads'[k] = [at |-> "deliver", next |-> (idx + 1) % N]
          /\ UNCHANGED <<begun, mark, block, idx, out>>
      BY <2>5, <1>i DEF Check, ring, ThreadInv
    <3>2. idx = d % N /\ (idx + 1) % N = (d + 1) % N
      BY <2>3, <2>4, <3>1, RingSlots DEF Ahead, PlaceOf
    <3>3. d + 2 <= begun
      <4>1. d + 1 \in d .. d + N - 1
        BY PtxFeedsAssumption
      <4>2. d + 1 < begun
        BY <2>3, <3>1, <3>2, <4>1 DEF Ahead
      <4> QED
        BY <1>i, <4>2 DEF BlockInv
    <3>4. PlaceOf(threads[kthread], d)'
      BY <2>1, <2>4, <3>1, <3>2, <3>3 DEF PlaceOf
    <3>5. Ahead(d)'
      BY <2>1, <2>3, <3>1, <3>4 DEF Ahead
    <3> QED
      BY <1>d, <2>1, <3>1, <3>5 DEF Delivered
  <2>6. CASE Deliver(k)
    <3>1. out' = [feed |-> feeds, no |-> d + 1] /\ Ahead(d + 1)'
      BY <1>i, <1>d, <2>3, <2>4, <2>6, HandsOn
    <3>2. Delivered' = d + 1
      BY <2>1, <3>1 DEF Delivered
    <3> QED
      BY <3>1, <3>2
  <2>7. CASE Move(k)
    <3>1. /\ threads[k].at = "move" /\ idx' = threads[k].next /\ threads'[k].at = "check"
          /\ UNCHANGED <<begun, mark, block, out>>
      BY <2>7, <1>i DEF Move, core, seen, ThreadInv
    <3>2. PlaceOf(threads[kthread], d)'
      BY <2>1, <2>3, <2>4, <3>1 DEF Ahead, PlaceOf
    <3>3. Ahead(d)'
      BY <2>1, <2>3, <3>1, <3>2 DEF Ahead
    <3> QED
      BY <1>d, <2>1, <3>1, <3>3 DEF Delivered
  <2> QED
    BY <1>6, <2>5, <2>6, <2>7
<1>7. CASE UNCHANGED pfVars
  <2>1. UNCHANGED <<card, call, feed, early, lapped, kthread, feeds, threads, begun, mark, block, idx, out>>
    BY <1>7 DEF pfVars
  <2>2. Ahead(Delivered)
    BY <1>i, <2>1 DEF StreamInv, Used, Starting
  <2> QED
    BY <2>1, <2>2 DEF Ahead, Delivered, PlaceOf
<1> QED
  BY <1>1, <1>2, <1>3, <1>4, <1>5, <1>6, <1>7 DEF PfNext

LEMMA FeedNext == FeedInv /\ [PfNext]_pfVars => FeedInv'
<1> SUFFICES ASSUME FeedInv, [PfNext]_pfVars PROVE FeedInv'
  OBVIOUS
<1> QED
  BY ThreadNext, BlockNext, StartNext, StreamNext DEF FeedInv

\* What pt3_thread hands to the demultiplexer is the next full block of the
\* feed, for every size of ring and any number of feeds: unless the engine
\* lapped it or it took a mark that ptx_start_feed was yet to clear.
THEOREM StreamInOrder == PfSpec => BlocksInOrder
<1>1. ASSUME FeedInv, [PfNext]_pfVars
      PROVE  [\A k \in DOMAIN threads : Deliver(k) /\ ~lapped /\ ~early =>
               /\ out'.feed = feeds /\ out'.no < begun
               /\ out'.no = IF out.feed = feeds THEN out.no + 1 ELSE 1]_pfVars
  <2> SUFFICES ASSUME NEW k \in DOMAIN threads, Deliver(k), ~lapped, ~early
               PROVE  /\ out'.feed = feeds /\ out'.no < begun
                      /\ out'.no = IF out.feed = feeds THEN out.no + 1 ELSE 1
    OBVIOUS
  <2>1. ThreadInv /\ BlockInv /\ StartInv /\ StreamInv
    BY <1>1 DEF FeedInv
  <2>2. threads[k].at = "deliver"
    BY DEF Deliver
  <2>3. card = "pt3" /\ ~failed
    BY <2>1, <2>2 DEF ThreadInv
  <2>4. k = kthread /\ Used
    BY <2>1, <2>3 DEF ThreadInv
  <2>5. ~Starting
    BY <2>1, <2>2, <2>3, <2>4 DEF StartInv
  <2>6. PICK d \in Nat : d = Delivered
    BY <2>1 DEF Delivered, BlockInv
  <2>7. Ahead(d)
    BY <2>1, <2>3, <2>4, <2>5, <2>6 DEF StreamInv
  <2>8. out' = [feed |-> feeds, no |-> d + 1] /\ d + 2 <= begun
    BY <2>1, <2>4, <2>6, <2>7, HandsOn
  <2> QED
    BY <2>1, <2>6, <2>8 DEF Delivered, BlockInv
<1> QED
  BY <1>1, FeedInit, FeedNext, PTL DEF PfSpec, BlocksInOrder

\* Between calls a feed that is on has its thread, the only one, and on the
\* PT3 the engine (ptx_start_feed, ptx_stop_feed); and in em28xx the stream
\* runs exactly while a feed is on (em28xx_start_feed, em28xx_stop_feed).
THEOREM StreamsFollowFeeds == PfSpec /\ EfSpec => []FeedsStream
<1>1. FeedInv => PtxFeedsStream
  BY DEF FeedInv, ThreadInv, PtxFeedsStream, Used, Starting
<1> QED
  BY <1>1, FeedInit, FeedNext, StreamFollowsFeeds, PTL DEF PfSpec, FeedsStream

-----------------------------------------------------------------------------
(* The LNB of a board.                                                       *)

Calls == [at : {"idle", "scan", "compare", "write", "store"}, lnb : BOOLEAN]

LsTypeOK ==
  /\ fe \in 0..Adaps /\ ON \in [1..Adaps -> BOOLEAN] /\ lnbON \in BOOLEAN
  /\ reg \in {"unknown", "on", "off"} /\ raced \in BOOLEAN
  /\ step \in [Threads -> Calls]
  /\ \A t \in Threads : step[t].at = "idle" => step[t] = Idle

\* Nobody has raced: one call at most is under way.
OneAlone == ~raced => \A s, t \in Threads : Busy(s) /\ Busy(t) => s = t

\* lnbON is true to the register, or nobody needs the LNB and it was never
\* switched: the next comparison finds what there is to do.
Ready == fe > 0 /\ (reg = Told(lnbON) \/ (lnbON = TRUE /\ ~Needed))
StepInv(t) ==
  /\ step[t].at \in {"scan", "compare"} => Ready
  /\ step[t].at \in {"compare", "write", "store"} => fe > 0 /\ step[t].lnb = Needed
  /\ step[t].at = "write" => lnbON # step[t].lnb
  /\ step[t].at = "store" => reg = Told(step[t].lnb)
QuietInv ==
  Quiet => \/ fe = 0 /\ lnbON = TRUE
           \/ fe > 0 /\ lnbON = Needed /\ reg = Told(lnbON)
LsInv == LsTypeOK /\ OneAlone /\ (~raced => QuietInv /\ \A t \in Threads : StepInv(t))

\* The adapters of ptx_alloc: nobody is registered, nobody calls.
LEMMA LsInvInit == LsInit => LsInv
<1> SUFFICES ASSUME LsInit PROVE LsInv OBVIOUS
<1> USE DEF LsInit
<1>0. Adaps \in Nat BY LnbSwitchAssumption
<1>i. Idle \in Calls BY DEF Idle, Calls
<1>s. step \in [Threads -> Calls] /\ \A t \in Threads : step[t] = Idle BY <1>i
<1>f. fe \in 0..Adaps BY <1>0
<1>o. ON \in [1..Adaps -> BOOLEAN] OBVIOUS
<1>1. LsTypeOK BY <1>f, <1>o, <1>s, Zenon DEF LsTypeOK
<1>2. OneAlone BY DEF OneAlone, Busy
<1>3. QuietInv BY DEF QuietInv
<1>4. \A t \in Threads : StepInv(t) BY DEF StepInv, Idle
<1> QED BY <1>1, <1>2, <1>3, <1>4 DEF LsInv

\* A call begins: it is alone, or the threads have raced.
LEMMA BeginsInv ==
  ASSUME LsInv, NEW t \in Threads, NEW i \in 1..Adaps, NEW power \in BOOLEAN,
         Begins(t, i, power), ~Busy(t),
         \/ fe' = fe /\ i <= fe
         \/ fe' = fe + 1 /\ i = fe + 1 /\ power = FALSE
  PROVE  LsInv'
<1>a. Adaps \in Nat /\ Sats \subseteq 1..Adaps BY LnbSwitchAssumption
<1>0. LsTypeOK /\ OneAlone BY DEF LsInv
<1>1. LsTypeOK'
  <2>f. fe' \in 0..Adaps BY <1>0, <1>a DEF LsTypeOK
  <2>o. ON' \in [1..Adaps -> BOOLEAN] BY <1>0 DEF LsTypeOK, Begins
  <2>r. raced' \in BOOLEAN BY <1>0, Zenon DEF LsTypeOK, Begins
  <2>2. [at |-> "scan", lnb |-> FALSE] \in Calls BY DEF Calls
  <2>3. step' \in [Threads -> Calls] BY <1>0, <2>2 DEF LsTypeOK, Begins
  <2>4. \A s \in Threads : step'[s].at = "idle" => step'[s] = Idle
    BY <1>0 DEF LsTypeOK, Begins
  <2> QED BY <2>f, <2>o, <2>r, <2>3, <2>4, <1>0 DEF LsTypeOK, Begins
<1>2. ASSUME ~raced' PROVE OneAlone' /\ QuietInv' /\ \A s \in Threads : StepInv(s)'
  <2>1. Quiet /\ (~raced \/ reg = Told(lnbON)) BY <1>2 DEF Begins
  <2>2. \A s \in Threads \ {t} : step'[s] = Idle BY <2>1, <1>0 DEF Begins, LsTypeOK, Quiet, Busy
  <2>3. step'[t] = [at |-> "scan", lnb |-> FALSE] BY <1>0 DEF Begins, LsTypeOK
  <2>4. Busy(t)' BY <2>3 DEF Busy, Idle
  <2>5. OneAlone' BY <2>2 DEF OneAlone, Busy
  <2>6. ~Quiet' BY <2>4 DEF Quiet
  <2>7. fe' > 0 BY <1>0 DEF LsTypeOK
  <2>8. lnbON' = lnbON /\ reg' = reg BY DEF Begins
  <2>9. Ready'
    <3>1. CASE reg = Told(lnbON) BY <3>1, <2>7, <2>8 DEF Ready, Told
    <3>2. CASE reg # Told(lnbON)
      <4>1. fe = 0 /\ lnbON = TRUE BY <3>2, <2>1 DEF LsInv, QuietInv
      <4>2. fe' = 1 /\ i = 1 /\ power = FALSE BY <4>1
      <4>3. ON'[1] = FALSE BY <4>2, <1>0 DEF Begins, LsTypeOK
      <4>4. ~Needed' BY <1>a, <4>2, <4>3 DEF Needed
      <4> QED BY <4>1, <4>4, <2>7, <2>8 DEF Ready
    <3> QED BY <3>1, <3>2
  <2>10. ASSUME NEW s \in Threads PROVE StepInv(s)'
    <3>1. CASE s = t BY <3>1, <2>3, <2>9 DEF StepInv
    <3>2. CASE s # t BY <3>2, <2>2 DEF StepInv, Idle
    <3> QED BY <3>1, <3>2
  <2> QED BY <2>5, <2>6, <2>10 DEF QuietInv
<1> QED BY <1>1, <1>2 DEF LsInv, OneAlone

\* A step of a call under way, which leaves the adapters alone.
LEMMA CallInv ==
  ASSUME LsInv, NEW t \in Threads, Scan(t) \/ Compare(t) \/ Write(t) \/ Store(t)
  PROVE  LsInv'
<1>0. LsTypeOK /\ OneAlone /\ step \in [Threads -> Calls] /\ step[t] \in Calls
  BY DEF LsInv, LsTypeOK
<1>a. fe' = fe /\ ON' = ON /\ raced' = raced BY DEF Scan, Compare, Write, Store
<1>b. Needed' = Needed BY <1>a DEF Needed
<1>c. Needed \in BOOLEAN BY DEF Needed
<1>d. Busy(t) BY DEF Busy, Idle, Scan, Compare, Write, Store
<1>e. \A s \in Threads \ {t} : step'[s] = step[s]
  BY <1>0 DEF Scan, Compare, Write, Store
<1>1. LsTypeOK'
  <2>1. CASE Scan(t) BY <2>1, <1>0, <1>c DEF LsTypeOK, Scan, Calls, Idle
  <2>2. CASE Compare(t) BY <2>2, <1>0 DEF LsTypeOK, Compare, Calls, Idle
  <2>3. CASE Write(t) BY <2>3, <1>0 DEF LsTypeOK, Write, Calls, Idle, Told
  <2>4. CASE Store(t) BY <2>4, <1>0 DEF LsTypeOK, Store, Calls, Idle
  <2> QED BY <2>1, <2>2, <2>3, <2>4
<1>2. ASSUME ~raced PROVE OneAlone' /\ QuietInv' /\ \A s \in Threads : StepInv(s)'
  <2>1. \A s \in Threads \ {t} : step'[s] = Idle
    BY <1>2, <1>0, <1>d, <1>e DEF OneAlone, Busy
  <2>2. OneAlone' BY <2>1 DEF OneAlone, Busy
  <2>3. \A s \in Threads \ {t} : StepInv(s)' BY <2>1 DEF StepInv, Idle
  <2>4. StepInv(t) BY <1>2 DEF LsInv
  <2>5. QuietInv' /\ StepInv(t)'
    <3>1. CASE Scan(t)
      <4>1. step'[t] = [at |-> "compare", lnb |-> Needed] BY <3>1, <1>0 DEF Scan
      <4>2. Ready BY <3>1, <2>4 DEF Scan, StepInv
      <4>3. Ready' BY <4>2, <3>1, <1>b DEF Ready, Scan, Told
      <4>4. ~Quiet' BY <4>1 DEF Quiet, Busy, Idle
      <4> QED BY <4>1, <4>2, <4>3, <4>4, <1>a, <1>b DEF StepInv, QuietInv, Ready
    <3>2. CASE Compare(t)
      <4>1. Ready /\ step[t].lnb = Needed BY <3>2, <2>4 DEF Compare, StepInv
      <4>2. fe' = fe /\ lnbON' = lnbON /\ reg' = reg BY <3>2 DEF Compare
      <4>3. CASE lnbON = step[t].lnb
        <5>1. step'[t] = Idle BY <4>3, <3>2, <1>0 DEF Compare
        <5>2. StepInv(t)' BY <5>1 DEF StepInv, Idle
        <5>3. fe > 0 /\ lnbON = Needed /\ reg = Told(lnbON) BY <4>1, <4>3 DEF Ready
        <5>4. QuietInv' BY <5>3, <4>2, <1>b DEF QuietInv, Told
        <5> QED BY <5>2, <5>4
      <4>4. CASE lnbON # step[t].lnb
        <5>1. step'[t] = [step[t] EXCEPT !.at = "write"] BY <4>4, <3>2, <1>0 DEF Compare
        <5>2. step'[t].at = "write" /\ step'[t].lnb = step[t].lnb BY <5>1, <1>0 DEF Calls
        <5>3. ~Quiet' BY <5>2 DEF Quiet, Busy, Idle
        <5>4. StepInv(t)' BY <5>2, <4>1, <4>2, <4>4, <1>b DEF StepInv, Ready
        <5> QED BY <5>3, <5>4 DEF QuietInv
      <4> QED BY <4>3, <4>4
    <3>3. CASE Write(t)
      <4>1. step'[t].at = "store" /\ step'[t].lnb = step[t].lnb BY <3>3, <1>0 DEF Write, Calls
      <4>2. fe > 0 /\ step[t].lnb = Needed BY <3>3, <2>4 DEF Write, StepInv
      <4>3. ~Quiet' BY <4>1 DEF Quiet, Busy, Idle
      <4>4. reg' = Told(step[t].lnb) BY <3>3 DEF Write
      <4>5. StepInv(t)' BY <4>1, <4>2, <4>4, <1>a, <1>b DEF StepInv, Told
      <4> QED BY <4>3, <4>5 DEF QuietInv
    <3>4. CASE Store(t)
      <4>1. step'[t] = Idle /\ lnbON' = step[t].lnb /\ reg' = reg BY <3>4, <1>0 DEF Store
      <4>2. fe > 0 /\ step[t].lnb = Needed /\ reg = Told(step[t].lnb)
        BY <3>4, <2>4 DEF Store, StepInv
      <4>3. StepInv(t)' BY <4>1 DEF StepInv, Idle
      <4>4. QuietInv' BY <4>1, <4>2, <1>a, <1>b DEF QuietInv, Told
      <4> QED BY <4>3, <4>4
    <3> QED BY <3>1, <3>2, <3>3, <3>4
  <2> QED BY <2>2, <2>3, <2>5
<1> QED BY <1>1, <1>2, <1>a DEF LsInv, OneAlone

LEMMA LsInvNext == LsInv /\ [LsNext]_lsVars => LsInv'
<1> SUFFICES ASSUME LsInv, [LsNext]_lsVars PROVE LsInv' OBVIOUS
<1>a. Adaps \in Nat BY LnbSwitchAssumption
<1>0. fe \in 0..Adaps BY DEF LsInv, LsTypeOK
<1>1. CASE RegisterAdap
  <2>1. 0 \in Threads /\ fe + 1 \in 1..Adaps BY <1>1, <1>0, <1>a DEF Threads, RegisterAdap
  <2> QED BY <2>1, <1>1, BeginsInv DEF RegisterAdap
<1>2. ASSUME NEW i \in 1..Adaps, PtxWakeup(i) PROVE LsInv'
  <2>1. i \in Threads BY <1>a DEF Threads
  <2> QED BY <2>1, <1>2, BeginsInv DEF PtxWakeup
<1>3. ASSUME NEW i \in 1..Adaps, PtxSleep(i) PROVE LsInv'
  <2>1. i \in Threads BY <1>a DEF Threads
  <2> QED BY <2>1, <1>3, BeginsInv DEF PtxSleep
<1>4. ASSUME NEW t \in Threads, Scan(t) \/ Compare(t) \/ Write(t) \/ Store(t) PROVE LsInv'
  BY <1>4, CallInv
<1>5. CASE UNCHANGED lsVars
  BY <1>5 DEF lsVars, LsInv, LsTypeOK, OneAlone, QuietInv, StepInv, Ready, Quiet, Busy, Needed, Told
<1> QED BY <1>1, <1>2, <1>3, <1>4, <1>5 DEF LsNext

\* Between calls the LNB has power exactly when a satellite adapter is awake
\* (LnbFollows): ptx_lnb compares with lnbON, which is true to the register
\* as long as one call runs at a time.
THEOREM LnbFollowsAdapters == LsSpec => []LnbFollows
<1>1. LsInv => LnbFollows BY DEF LsInv, QuietInv, LnbFollows
<1> QED BY LsInvInit, LsInvNext, <1>1, PTL DEF LsSpec

-----------------------------------------------------------------------------
(* The table of boards.                                                    *)

CtTypeOK ==
  /\ owner \in {"pt3_dtv", "pxq3pe_dtv"}
  /\ table \in [1 .. Places -> Boards \union {none}]
  /\ life \in [Boards -> {"out", "entered", "live", "freed"}]
  /\ number \in [Boards -> 1 .. Places]
  /\ overflow \subseteq Boards /\ fallen \subseteq Boards /\ removed \subseteq Boards

\* A board has one entry, at its number, and leaves none behind that its
\* driver does not leave.
EntryInv ==
  \A s \in 1 .. Places : table[s] # none =>
    /\ number[table[s]] = s /\ life[table[s]] # "out"
    /\ life[table[s]] = "freed" => owner = "pt3_dtv" /\ table[s] \in fallen

\* And it has that entry while it lives.
ListedInv ==
  \A b \in Boards : life[b] \in {"entered", "live"} =>
    \/ table[number[b]] = b
    \/ owner = "pt3_dtv" /\ (b \in overflow \/ overflow \intersect removed # {})

\* Boards that only come fill the table from the front.
FrontInv ==
  owner = "pt3_dtv" /\ removed \union fallen \union overflow = {} =>
    \A s \in 1 .. Places : \A t \in 1 .. s : table[s] # none => table[t] # none

CtInv == CtTypeOK /\ EntryInv /\ ListedInv /\ FrontInv

LEMMA FreeSlotIsFirst ==
  ASSUME CtTypeOK, FreeSlots # {}
  PROVE  /\ FreeSlot \in 1 .. Places /\ table[FreeSlot] = none
         /\ \A t \in 1 .. Places : t < FreeSlot => table[t] # none
<1>1. FreeSlots \in SUBSET Nat
  BY DEF FreeSlots
<1>2. FreeSlot \in FreeSlots /\ \A x \in FreeSlots : FreeSlot <= x
  BY <1>1, Smallest DEF FreeSlot, Min
<1> QED
  BY <1>2, TableAssumption DEF FreeSlots

LEMMA CtInvInit == CtInit => CtInv
<1>1. 1 \in 1 .. Places
  BY TableAssumption
<1> QED
  BY <1>1 DEF CtInit, CtInv, CtTypeOK, EntryInv, ListedInv, FrontInv

LEMMA CtTypeNext == CtTypeOK /\ [CtNext]_ctVars => CtTypeOK'
<1> SUFFICES ASSUME CtTypeOK, [CtNext]_ctVars PROVE CtTypeOK'
  OBVIOUS
<1> USE DEF CtTypeOK
<1>1. ASSUME NEW b \in Boards, Enter(b)
      PROVE  CtTypeOK'
  <2>1. FreeSlot \in 1 .. Places
    BY <1>1, FreeSlotIsFirst DEF Enter
  <2> QED
    BY <1>1, <2>1 DEF Enter
<1>2. ASSUME NEW b \in Boards, EnterFull(b) \/ ProbeDone(b)
      PROVE  CtTypeOK'
  BY <1>2 DEF EnterFull, ProbeDone
<1>3. ASSUME NEW b \in Boards, ProbeFailsLate(b) \/ RemoveBoard(b)
      PROVE  CtTypeOK'
  BY <1>3 DEF ProbeFailsLate, RemoveBoard, WithoutBoard
<1>4. CASE UNCHANGED ctVars
  BY <1>4 DEF ctVars
<1> QED
  BY <1>1, <1>2, <1>3, <1>4 DEF CtNext

(* A board that comes takes the first free slot. *)
LEMMA EnterKeeps ==
  ASSUME CtInv, NEW b \in Boards, Enter(b)
  PROVE  EntryInv' /\ ListedInv' /\ FrontInv'
<1> USE TableAssumption DEF CtInv, CtTypeOK
<1>1. PICK f \in 1 .. Places : /\ table[f] = none /\ table' = [table EXCEPT ![f] = b]
                              /\ number' = [number EXCEPT ![b] = f]
                              /\ \A t \in 1 .. Places : t < f => table[t] # none
  BY FreeSlotIsFirst DEF Enter
<1>2. /\ life[b] = "out" /\ life' = [life EXCEPT ![b] = "entered"]
      /\ UNCHANGED <<owner, overflow, fallen, removed>>
  BY DEF Enter
<1>3. \A s \in 1 .. Places : table[s] # b
  BY <1>2 DEF EntryInv
<1>4. EntryInv'
  BY <1>1, <1>2, <1>3 DEF EntryInv
<1>5. ListedInv'
  <2> SUFFICES ASSUME NEW c \in Boards, life'[c] \in {"entered", "live"}
               PROVE  \/ table'[number'[c]] = c
                      \/ owner' = "pt3_dtv" /\ (c \in overflow' \/ overflow' \intersect removed' # {})
    BY DEF ListedInv
  <2>1. CASE c = b
    BY <1>1, <2>1
  <2>2. CASE c # b
    <3>1. life[c] \in {"entered", "live"} /\ number'[c] = number[c]
      BY <1>1, <1>2, <2>2
    <3>2. table[number[c]] = c => table'[number[c]] = c
      BY <1>1
    <3> QED
      BY <1>2, <3>1, <3>2 DEF ListedInv
  <2> QED
    BY <2>1, <2>2
<1>6. FrontInv'
  BY <1>1, <1>2 DEF FrontInv
<1> QED
  BY <1>4, <1>5, <1>6

LEMMA EnterFullKeeps ==
  ASSUME CtInv, NEW b \in Boards, EnterFull(b)
  PROVE  EntryInv' /\ ListedInv' /\ FrontInv'
<1> USE TableAssumption DEF CtInv, CtTypeOK
<1>1. /\ life[b] = "out" /\ b \in overflow' /\ overflow \subseteq overflow'
      /\ life' = [life EXCEPT ![b] = IF owner = "pt3_dtv" THEN "entered" ELSE "freed"]
      /\ UNCHANGED <<owner, table, number, fallen, removed>>
  BY DEF EnterFull
<1>2. \A s \in 1 .. Places : table[s] # b
  BY <1>1 DEF EntryInv
<1>3. EntryInv'
  BY <1>1, <1>2 DEF EntryInv
<1>4. ListedInv'
  BY <1>1 DEF ListedInv
<1>5. FrontInv'
  BY <1>1 DEF FrontInv
<1> QED
  BY <1>3, <1>4, <1>5

(* The error path of pt3_dtv.c leaves the entry, that of pxq3pe_dtv.c *)
(* removes it.                                                        *)
LEMMA FailKeeps ==
  ASSUME CtInv, NEW b \in Boards, ProbeFailsLate(b)
  PROVE  EntryInv' /\ ListedInv' /\ FrontInv'
<1> USE TableAssumption DEF CtInv, CtTypeOK
<1>1. /\ life[b] = "entered" /\ life' = [life EXCEPT ![b] = "freed"] /\ fallen' = fallen \union {b}
      /\ UNCHANGED <<owner, number, overflow, removed>>
  BY DEF ProbeFailsLate
<1>2. CASE owner = "pt3_dtv"
  <2>1. table' = table
    BY <1>2 DEF ProbeFailsLate
  <2> QED
    BY <1>1, <1>2, <2>1 DEF EntryInv, ListedInv, FrontInv
<1>3. CASE owner = "pxq3pe_dtv"
  <2>1. \A s \in 1 .. Places : table'[s] = IF table[s] = b THEN none ELSE table[s]
    BY <1>3 DEF ProbeFailsLate, WithoutBoard
  <2> QED
    BY <1>1, <1>3, <2>1 DEF EntryInv, ListedInv, FrontInv
<1> QED
  BY <1>2, <1>3

(* The board that goes clears the slot of its number: its own, unless it *)
(* was beyond the table.                                                 *)
LEMMA RemoveKeeps ==
  ASSUME CtInv, NEW b \in Boards, RemoveBoard(b)
  PROVE  EntryInv' /\ ListedInv' /\ FrontInv'
<1> USE TableAssumption DEF CtInv, CtTypeOK
<1>1. /\ life[b] = "live" /\ life' = [life EXCEPT ![b] = "freed"] /\ removed' = removed \union {b}
      /\ UNCHANGED <<owner, number, overflow, fallen>>
  BY DEF RemoveBoard
<1>2. CASE owner = "pt3_dtv"
  <2>1. table' = [table EXCEPT ![number[b]] = none] /\ number[b] \in 1 .. Places
    BY <1>2 DEF RemoveBoard
  <2>2. \A s \in 1 .. Places : table'[s] # none => table'[s] = table[s] /\ table[s] # b
    BY <2>1 DEF EntryInv
  <2>3. EntryInv'
    BY <1>1, <1>2, <2>2 DEF EntryInv
  <2>4. ListedInv'
    <3> SUFFICES ASSUME NEW c \in Boards, life'[c] \in {"entered", "live"},
                        c \notin overflow, overflow \intersect removed' = {}
                 PROVE  table[number[c]] = c /\ number[c] # number[b]
      BY <1>1, <1>2, <2>1 DEF ListedInv
    <3>1. c # b /\ table[number[c]] = c
      BY <1>1 DEF ListedInv
    <3>2. table[number[b]] = b
      BY <1>1 DEF ListedInv
    <3> QED
      BY <3>1, <3>2
  <2>5. FrontInv'
    BY <1>1 DEF FrontInv
  <2> QED
    BY <2>3, <2>4, <2>5
<1>3. CASE owner = "pxq3pe_dtv"
  <2>1. \A s \in 1 .. Places : table'[s] = IF table[s] = b THEN none ELSE table[s]
    BY <1>3 DEF RemoveBoard, WithoutBoard
  <2> QED
    BY <1>1, <1>3, <2>1 DEF EntryInv, ListedInv, FrontInv
<1> QED
  BY <1>2, <1>3

LEMMA CtInvNext == CtInv /\ [CtNext]_ctVars => CtInv'
<1> SUFFICES ASSUME CtInv, [CtNext]_ctVars PROVE EntryInv' /\ ListedInv' /\ FrontInv'
  BY CtTypeNext DEF CtInv
<1>1. ASSUME NEW b \in Boards, ProbeDone(b)
      PROVE  EntryInv' /\ ListedInv' /\ FrontInv'
  BY <1>1 DEF ProbeDone, CtInv, CtTypeOK, EntryInv, ListedInv, FrontInv
<1>2. CASE UNCHANGED ctVars
  BY <1>2 DEF ctVars, CtInv, EntryInv, ListedInv, FrontInv
<1> QED
  BY <1>1, <1>2, EnterKeeps, EnterFullKeeps, FailKeeps, RemoveKeeps DEF CtNext

(* A search from the front meets the board before anything wrong. *)
LEMMA CtInvTrue == CtInv => TableTrue
<1> SUFFICES ASSUME CtInv PROVE TableTrue
  OBVIOUS
<1> USE TableAssumption DEF CtInv, CtTypeOK
<1>1. ASSUME owner = "pxq3pe_dtv" \/ removed \union fallen \union overflow = {},
             NEW b \in Boards, life[b] = "live"
      PROVE  Opens(b) = "found"
  <2>1. table[number[b]] = b /\ number[b] \in 1 .. Places
    BY <1>1 DEF ListedInv
  <2>2. number[b] \notin Before(b)
    BY <2>1 DEF Before
  <2>3. \A s \in Before(b) : ~(table[s] # none /\ life[table[s]] = "freed")
    BY <1>1 DEF EntryInv, Before
  <2>4. owner = "pt3_dtv" => \A s \in Before(b) : table[s] # none
    <3> SUFFICES ASSUME owner = "pt3_dtv", NEW s \in Before(b) PROVE table[s] # none
      OBVIOUS
    <3>1. s \in 1 .. Places /\ s < number[b]
      BY <2>1 DEF Before
    <3> QED
      BY <1>1, <2>1, <3>1 DEF FrontInv
  <2> QED
    BY <2>1, <2>2, <2>3, <2>4 DEF Opens
<1>2. \A s \in 1 .. Places : table[s] # none /\ life[table[s]] = "freed" => owner = "pt3_dtv" /\ table[s] \in fallen
  BY DEF EntryInv
<1>3. \A b \in Boards : life[b] = "live" /\ ~Listed(b) => b \in overflow \/ overflow \intersect removed # {}
  BY DEF ListedInv, Listed
<1> QED
  BY <1>1, <1>2, <1>3 DEF TableTrue

\* Every board that lives can be opened, and open meets no board that is gone,
\* in pxq3pe_dtv.c always, in pt3_dtv.c as long as none was removed, failed
\* late or found the table full; and what else is wrong with the table then,
\* for any number of boards and slots.
THEOREM BoardsAreFound == CtSpec => []TableTrue
BY CtInvInit, CtInvNext, CtInvTrue, PTL DEF CtSpec

-----------------------------------------------------------------------------
(* The endpoints of an interface.                                          *)

Modes == {"isoc", "bulk"}
Interface ==
  [seen : Seq(Endpoints), video : BOOLEAN, audio : BOOLEAN, dvb : BOOLEAN,
   analog : SUBSET Modes, digital : SUBSET Modes]

\* The endpoint 0x82 makes the interface one with video.
VideoInv == ifc.video <=> \E k \in DOMAIN ifc.seen : ifc.seen[k].ep = "0x82"

EbInv == ifc \in Interface /\ VideoInv /\ EndpointsServe

LEMMA EbInvInit == EbInit => EbInv
<1> SUFFICES ASSUME EbInit PROVE EbInv
  OBVIOUS
<1>1. ifc = [seen |-> <<>>, video |-> FALSE, audio |-> FALSE, dvb |-> FALSE, analog |-> {}, digital |-> {}]
  BY DEF EbInit
<1>2. <<>> \in Seq(Endpoints) /\ DOMAIN ifc.seen = {}
  BY <1>1
<1> QED
  BY <1>1, <1>2 DEF EbInv, Interface, VideoInv, EndpointsServe, Seen, Sized84

\* What an endpoint changes.
LEMMA Classified ==
  ASSUME ifc \in Interface, NEW e \in Endpoints, ifc' = [Classify(e) EXCEPT !.seen = Append(@, e)]
  PROVE  /\ ifc' \in Interface /\ ifc'.seen = Append(ifc.seen, e)
         /\ ifc'.video = (ifc.video \/ e.ep = "0x82")
         /\ "isoc" \in ifc'.digital <=>
              "isoc" \in ifc.digital \/ (e.ep = "0x84" /\ e.mode = "isoc" /\ e.size > 0)
         /\ "isoc" \in ifc'.analog <=> "isoc" \in ifc.analog \/ (e.ep = "0x82" /\ e.mode = "isoc")
         /\ "bulk" \in ifc'.digital <=>
              "bulk" \in ifc.digital \/ (e.ep = "0x84" /\ e.mode = "bulk" /\ ~ifc.video)
         /\ "bulk" \in ifc'.analog <=>
              \/ "bulk" \in ifc.analog \/ (e.ep = "0x82" /\ e.mode = "bulk")
              \/ (e.ep = "0x84" /\ e.mode = "bulk" /\ ifc.video)
<1>1. Append(ifc.seen, e) \in Seq(Endpoints)
  BY DEF Interface
<1>2. CASE e.ep = "0x82"
  BY <1>1, <1>2 DEF Classify, Interface, Endpoints, Modes
<1>3. CASE e.ep = "0x83"
  BY <1>1, <1>3 DEF Classify, Interface, Endpoints, Modes
<1>4. CASE e.ep = "0x84" /\ e.mode = "bulk"
  BY <1>1, <1>4 DEF Classify, Bulk84, Interface, Endpoints, Modes
<1>5. CASE e.ep = "0x84" /\ e.mode = "isoc"
  BY <1>1, <1>5 DEF Classify, Interface, Endpoints, Modes
<1> QED
  BY <1>2, <1>3, <1>4, <1>5 DEF Endpoints

LEMMA EndpointServes ==
  ASSUME EbInv, NEW e \in Endpoints, ifc' = [Classify(e) EXCEPT !.seen = Append(@, e)]
  PROVE  EbInv'
<1> DEFINE s == ifc.seen
           n == Len(s)
<1>1. /\ ifc' \in Interface /\ ifc'.seen = Append(s, e)
      /\ ifc'.video = (ifc.video \/ e.ep = "0x82")
      /\ "isoc" \in ifc'.digital <=>
           "isoc" \in ifc.digital \/ (e.ep = "0x84" /\ e.mode = "isoc" /\ e.size > 0)
      /\ "isoc" \in ifc'.analog <=> "isoc" \in ifc.analog \/ (e.ep = "0x82" /\ e.mode = "isoc")
      /\ "bulk" \in ifc'.digital <=>
           "bulk" \in ifc.digital \/ (e.ep = "0x84" /\ e.mode = "bulk" /\ ~ifc.video)
      /\ "bulk" \in ifc'.analog <=>
           \/ "bulk" \in ifc.analog \/ (e.ep = "0x82" /\ e.mode = "bulk")
           \/ (e.ep = "0x84" /\ e.mode = "bulk" /\ ifc.video)
  BY Classified DEF EbInv
<1>2. s \in Seq(Endpoints)
  BY DEF EbInv, Interface
<1>3. /\ n \in Nat /\ DOMAIN s = 1 .. n /\ DOMAIN ifc'.seen = 1 .. n + 1
      /\ ifc'.seen[n + 1] = e /\ \A k \in 1 .. n : ifc'.seen[k] = s[k]
  BY <1>1, <1>2
<1> DEFINE d == DOMAIN s
<1>4. /\ n + 1 \notin d /\ DOMAIN ifc'.seen = d \union {n + 1} /\ \A k \in d : 1 .. k \subseteq d
      /\ \A k \in d : n + 1 \notin 1 .. k
      /\ \A k \in d : ifc'.seen[k] = s[k]
  BY <1>3
<1> HIDE DEF n
<1>5. VideoInv'
  <2>1. (\E k \in DOMAIN ifc'.seen : ifc'.seen[k].ep = "0x82")
          <=> (\E k \in d : s[k].ep = "0x82") \/ e.ep = "0x82"
    BY <1>3, <1>4
  <2>2. ifc.video <=> \E k \in d : s[k].ep = "0x82"
    BY DEF EbInv, VideoInv
  <2> QED
    BY <1>1, <2>1, <2>2 DEF VideoInv
<1>6. ("isoc" \in ifc.digital <=> Sized84)'
  BY <1>1, <1>3, <1>4 DEF EbInv, EndpointsServe, Sized84
<1>7. \A ep, mode : Seen(ep, mode)' <=> Seen(ep, mode) \/ (e.ep = ep /\ e.mode = mode)
  BY <1>3, <1>4 DEF Seen
<1>8. ("isoc" \in ifc.analog <=> Seen("0x82", "isoc"))'
  BY <1>1, <1>7 DEF EbInv, EndpointsServe
<1>9. (~ifc.video => ("bulk" \in ifc.digital <=> Seen("0x84", "bulk")))'
  BY <1>1, <1>7 DEF EbInv, EndpointsServe
<1>10. ASSUME ifc'.video, Before84("0x82")'
       PROVE  "bulk" \notin ifc'.digital /\ (Seen("0x84", "bulk")' => "bulk" \in ifc'.analog)
  <2>1. Before84("0x82")
    BY <1>3, <1>4, <1>10 DEF Before84
  <2>2. CASE ifc.video
    BY <1>1, <1>7, <2>1, <2>2 DEF EbInv, EndpointsServe
  <2>3. CASE ~ifc.video
    <3>1. e.ep = "0x82"
      BY <1>1, <1>10, <2>3
    <3>2. \A k \in d : s[k].ep # "0x82"
      BY <2>3 DEF EbInv, VideoInv
    <3>3. ~Seen("0x84", "bulk")
      BY <1>4, <2>1, <3>2 DEF Seen, Before84
    <3> QED
      BY <1>1, <1>7, <2>3, <3>1, <3>3 DEF EbInv, EndpointsServe
  <2> QED
    BY <2>2, <2>3
<1> QED
  BY <1>1, <1>5, <1>6, <1>8, <1>9, <1>10 DEF EbInv, EndpointsServe

\* An interface gets the endpoints that it offers, in whatever number and order
\* they are listed, but for the order in which 0x84 comes before 0x82.
THEOREM EndpointsAreSorted == EbSpec => []EndpointsServe
<1>1. EbInv /\ [EbNext]_ebVars => EbInv'
  <2> SUFFICES ASSUME EbInv, [EbNext]_ebVars PROVE EbInv'
    OBVIOUS
  <2>1. CASE Endpoint
    BY <2>1, EndpointServes DEF Endpoint
  <2>2. CASE ProbeModel \/ CardSetup \/ BindDvb \/ UNCHANGED ebVars
    <3>1. ifc' = ifc
      BY <2>2 DEF ProbeModel, CardSetup, BindDvb, ebVars
    <3> QED
      BY <3>1 DEF EbInv, Interface, VideoInv, EndpointsServe, Seen, Sized84, Before84
  <2> QED
    BY <2>1, <2>2 DEF EbNext
<1>2. EbInv => EndpointsServe
  BY DEF EbInv
<1> QED
  BY EbInvInit, <1>1, <1>2, PTL DEF EbSpec

-----------------------------------------------------------------------------
(* The boards of em28xx.                                                    *)

DvbModels ==
  {"EM2870_KWORLD_355U", "EM2880_TERRATEC_HYBRID_XS_FR", "EM2884_TERRATEC_H5", "EM2884_HAUPPAUGE_WINTV_HVR_930C",
   "EM2884_C3TECH_DIGITAL_DUO", "EM2884_CINERGY_HTC_STICK", "EM2884_ELGATO_EYETV_HYBRID_2008",
   "EM2880_HAUPPAUGE_WINTV_HVR_900", "EM2880_HAUPPAUGE_WINTV_HVR_900_R2", "EM2883_HAUPPAUGE_WINTV_HVR_850",
   "EM2883_HAUPPAUGE_WINTV_HVR_950", "EM2880_PINNACLE_PCTV_HD_PRO", "EM2880_AMD_ATI_TV_WONDER_HD_600",
   "EM2880_TERRATEC_HYBRID_XS", "EM2874_LEADERSHIP_ISDBT", "EM2880_KWORLD_DVB_310U", "EM2882_KWORLD_ATSC_315U",
   "EM2880_EMPIRE_DUAL_TV", "EM2881_PINNACLE_HYBRID_PRO", "EM2882_PINNACLE_HYBRID_PRO_330E", "EM2882_KWORLD_VS_DVBT",
   "EM2882_TERRATEC_HYBRID_XS", "EM2882_DIKOM_DK300", "EM2883_KWORLD_HYBRID_330U", "EM2882_EVGA_INDTUBE",
   "EM2870_REDDO_DVB_C_USB_BOX", "EM2870_KWORLD_A340", "EM28174_PCTV_290E", "EM28174_PCTV_460E",
   "EM2874_MAXMEDIA_UB425_TC", "EM2884_PCTV_510E", "EM2884_PCTV_520E", "EM2884_TERRATEC_HTC_USB_XS",
   "EM2874_DELOCK_61959", "EM2874_KWORLD_UB435Q_V2", "EM2874_KWORLD_UB435Q_V3", "EM28178_PCTV_461E",
   "EM28178_PCTV_292E", "EM28178_TERRATEC_T2_STICK_HD", "EM28178_PLEX_PX_BCUD", "EM2874_PCTV_HD_MINI_80E"}
Sensors == {"EM2820_SILVERCREST_WEBCAM", "EM2750_UNKNOWN"}
XcModels == {"EM2880_KWORLD_DVB_310U", "EM2880_EMPIRE_DUAL_TV", "EM2882_EVGA_INDTUBE", "EM2881_PINNACLE_HYBRID_PRO",
             "EM2882_DIKOM_DK300"}
YmecModels == {"EM2820_PROLINK_PLAYTV_USB2", "EM2820_PROLINK_PLAYTV_BOX4_USB2"}
PalModels == {"EM2800_VGEAR_POCKETTV", "EM2820_GADMEI_TVR200"}
AbsentModels == {"EM2870_REDDO_DVB_C_USB_BOX", "EM2860_SAA711X_REFERENCE_DESIGN", "EM2860_TVP5150_REFERENCE_DESIGN"}
Cinergy == "EM2800_TERRATEC_CINERGY_200"
Utv330 == "EM2861_GADMEI_UTV330PLUS"
Leadership == "EM2874_LEADERSHIP_ISDBT"
OtherModels == XcModels \cup YmecModels \cup PalModels \cup AbsentModels \cup Sensors \cup {Cinergy, Utv330}

Kinds == {"webcam", "analog", "dvb"}
TunerTypes == {"absent", "other", "LG_PAL", "LG_TALN", "TNF", "XC2028", "YMEC"}
Entries == [kind : Kinds, tuner : TunerTypes, bus : {0, 1}]

\* What an entry of the table has to be, so that hints and boards fit it.
KindFits(m, kind) == (kind = "dvb" <=> m \in DvbModels) /\ (m \in Sensors => kind = "webcam")
TunerFits(m, type) ==
  /\ m \in XcModels => type = "XC2028"
  /\ m \in YmecModels => type = "YMEC"
  /\ m \in PalModels => type = "LG_PAL"
  /\ m \in AbsentModels \cup {Leadership} => type = "absent"
  /\ m = Utv330 => type = "TNF"
BusFits(m, bus) == m \in OtherModels => bus = 0
RowFits(kind, type, bus, models) ==
  /\ kind \in Kinds /\ type \in TunerTypes /\ bus \in {0, 1}
  /\ \A m \in models : KindFits(m, kind) /\ TunerFits(m, type) /\ BusFits(m, bus)
EntryGood(m, e) ==
  /\ e \in Entries
  /\ KindFits(m, e.kind) /\ TunerFits(m, e.tuner) /\ BusFits(m, e.bus)
AllGood(f) == \A m \in DOMAIN f : EntryGood(m, f[m])

LEMMA GoodRow ==
  ASSUME NEW kind, NEW type, NEW bus, NEW models, RowFits(kind, type, bus, models)
  PROVE  AllGood(Row(kind, type, bus, models))
<1>1. \A m \in models : EntryGood(m, [kind |-> kind, tuner |-> type, bus |-> bus])
  BY DEF EntryGood, RowFits, Entries
<1> QED BY <1>1 DEF AllGood, Row

LEMMA GoodBoth ==
  ASSUME NEW f, NEW g, AllGood(f), AllGood(g)
  PROVE  AllGood(f ++ g)
BY DEF AllGood, ++

Names(f, models) == DOMAIN f = models

LEMMA NamesOne ==
  /\ \A kind, type, bus, models : Names(Row(kind, type, bus, models), models)
  /\ \A models, q : Names(For(models, q), models)
BY DEF Names, Row, For

LEMMA NamesBoth ==
  ASSUME NEW f, NEW g, NEW A, NEW B, Names(f, A), Names(g, B)
  PROVE  Names(f ++ g, A \cup B)
BY DEF Names, ++

LEMMA GoodTable == AllGood(Table)
<1>1. AllGood(Rows1)
  <2>1. RowFits("webcam", "absent", 0, {"EM2750_UNKNOWN", "EM2820_UNKNOWN", "EM2750_DLCW_130"})
    BY DEF RowFits, KindFits, TunerFits, BusFits, Kinds, TunerTypes, DvbModels, Sensors, XcModels, YmecModels, PalModels,
           AbsentModels, Cinergy, Utv330, Leadership, OtherModels
  <2>2. RowFits("analog", "absent", 0, {"EM2800_UNKNOWN"})
    BY DEF RowFits, KindFits, TunerFits, BusFits, Kinds, TunerTypes, DvbModels, Sensors, XcModels, YmecModels, PalModels,
           AbsentModels, Cinergy, Utv330, Leadership, OtherModels
  <2>3. RowFits("analog", "other", 0, {"EM2820_KWORLD_PVRTV2800RF", "EM2820_HAUPPAUGE_WINTV_USB_2"})
    BY DEF RowFits, KindFits, TunerFits, BusFits, Kinds, TunerTypes, DvbModels, Sensors, XcModels, YmecModels, PalModels,
           AbsentModels, Cinergy, Utv330, Leadership, OtherModels
  <2>4. RowFits("analog", "LG_PAL", 0, {"EM2820_GADMEI_TVR200", "EM2820_TERRATEC_CINERGY_250", "EM2820_PINNACLE_USB_2"})
    BY DEF RowFits, KindFits, TunerFits, BusFits, Kinds, TunerTypes, DvbModels, Sensors, XcModels, YmecModels, PalModels,
           AbsentModels, Cinergy, Utv330, Leadership, OtherModels
  <2> QED BY <2>1, <2>2, <2>3, <2>4, GoodRow, GoodBoth, Zenon DEF Rows1
<1>2. AllGood(Rows2)
  <2>1. RowFits("analog", "LG_PAL", 0, {"EM2820_DLINK_USB_TV", "EM2820_HERCULES_SMART_TV_USB2"})
    BY DEF RowFits, KindFits, TunerFits, BusFits, Kinds, TunerTypes, DvbModels, Sensors, XcModels, YmecModels, PalModels,
           AbsentModels, Cinergy, Utv330, Leadership, OtherModels
  <2>2. RowFits("analog", "other", 0, {"EM2820_PINNACLE_USB_2_FM1216ME", "EM2820_LEADTEK_WINFAST_USBII_DELUXE"})
    BY DEF RowFits, KindFits, TunerFits, BusFits, Kinds, TunerTypes, DvbModels, Sensors, XcModels, YmecModels, PalModels,
           AbsentModels, Cinergy, Utv330, Leadership, OtherModels
  <2>3. RowFits("analog", "TNF", 0, {"EM2820_GADMEI_UTV310"})
    BY DEF RowFits, KindFits, TunerFits, BusFits, Kinds, TunerTypes, DvbModels, Sensors, XcModels, YmecModels, PalModels,
           AbsentModels, Cinergy, Utv330, Leadership, OtherModels
  <2>4. RowFits("webcam", "absent", 0, {"EM2820_VIDEOLOGY_20K14XUSB", "EM2820_SILVERCREST_WEBCAM"})
    BY DEF RowFits, KindFits, TunerFits, BusFits, Kinds, TunerTypes, DvbModels, Sensors, XcModels, YmecModels, PalModels,
           AbsentModels, Cinergy, Utv330, Leadership, OtherModels
  <2> QED BY <2>1, <2>2, <2>3, <2>4, GoodRow, GoodBoth, Zenon DEF Rows2
<1>3. AllGood(Rows3)
  <2>1. RowFits("analog", "other", 0, {"EM2821_SUPERCOMP_USB_2"})
    BY DEF RowFits, KindFits, TunerFits, BusFits, Kinds, TunerTypes, DvbModels, Sensors, XcModels, YmecModels, PalModels,
           AbsentModels, Cinergy, Utv330, Leadership, OtherModels
  <2>2. RowFits("analog", "absent", 0, {"EM2821_USBGEAR_VD204", "EM2860_TYPHOON_DVD_MAKER"})
    BY DEF RowFits, KindFits, TunerFits, BusFits, Kinds, TunerTypes, DvbModels, Sensors, XcModels, YmecModels, PalModels,
           AbsentModels, Cinergy, Utv330, Leadership, OtherModels
  <2>3. RowFits("webcam", "absent", 0, {"EM2860_NETGMBH_CAM"})
    BY DEF RowFits, KindFits, TunerFits, BusFits, Kinds, TunerTypes, DvbModels, Sensors, XcModels, YmecModels, PalModels,
           AbsentModels, Cinergy, Utv330, Leadership, OtherModels
  <2>4. RowFits("analog", "TNF", 0, {"EM2860_GADMEI_UTV330", "EM2861_GADMEI_UTV330PLUS"})
    BY DEF RowFits, KindFits, TunerFits, BusFits, Kinds, TunerTypes, DvbModels, Sensors, XcModels, YmecModels, PalModels,
           AbsentModels, Cinergy, Utv330, Leadership, OtherModels
  <2>5. RowFits("analog", "XC2028", 0, {"EM2860_TERRATEC_HYBRID_XS", "EM2861_KWORLD_PVRTV_300U"})
    BY DEF RowFits, KindFits, TunerFits, BusFits, Kinds, TunerTypes, DvbModels, Sensors, XcModels, YmecModels, PalModels,
           AbsentModels, Cinergy, Utv330, Leadership, OtherModels
  <2> QED BY <2>1, <2>2, <2>3, <2>4, <2>5, GoodRow, GoodBoth, Zenon DEF Rows3
<1>4. AllGood(Rows4)
  <2>1. RowFits("analog", "absent", 0, {"EM2861_YAKUMO_MOVIE_MIXER", "EM2860_TVP5150_REFERENCE_DESIGN", "EM2870_TERRATEC_XS_MT2060",
               "EM2870_PINNACLE_PCTV_DVB", "EM2870_COMPRO_VIDEOMATE"})
    BY DEF RowFits, KindFits, TunerFits, BusFits, Kinds, TunerTypes, DvbModels, Sensors, XcModels, YmecModels, PalModels,
           AbsentModels, Cinergy, Utv330, Leadership, OtherModels
  <2>2. RowFits("analog", "TNF", 0, {"EM2861_PLEXTOR_PX_TV100U"})
    BY DEF RowFits, KindFits, TunerFits, BusFits, Kinds, TunerTypes, DvbModels, Sensors, XcModels, YmecModels, PalModels,
           AbsentModels, Cinergy, Utv330, Leadership, OtherModels
  <2>3. RowFits("analog", "XC2028", 0, {"EM2870_TERRATEC_XS", "EM2870_KWORLD_350U"})
    BY DEF RowFits, KindFits, TunerFits, BusFits, Kinds, TunerTypes, DvbModels, Sensors, XcModels, YmecModels, PalModels,
           AbsentModels, Cinergy, Utv330, Leadership, OtherModels
  <2>4. RowFits("dvb", "absent", 0, {"EM2870_KWORLD_355U"})
    BY DEF RowFits, KindFits, TunerFits, BusFits, Kinds, TunerTypes, DvbModels, Sensors, XcModels, YmecModels, PalModels,
           AbsentModels, Cinergy, Utv330, Leadership, OtherModels
  <2>5. RowFits("dvb", "XC2028", 0, {"EM2880_TERRATEC_HYBRID_XS_FR"})
    BY DEF RowFits, KindFits, TunerFits, BusFits, Kinds, TunerTypes, DvbModels, Sensors, XcModels, YmecModels, PalModels,
           AbsentModels, Cinergy, Utv330, Leadership, OtherModels
  <2>6. RowFits("dvb", "absent", 1, {"EM2884_TERRATEC_H5"})
    BY DEF RowFits, KindFits, TunerFits, BusFits, Kinds, TunerTypes, DvbModels, Sensors, XcModels, YmecModels, PalModels,
           AbsentModels, Cinergy, Utv330, Leadership, OtherModels
  <2> QED BY <2>1, <2>2, <2>3, <2>4, <2>5, <2>6, GoodRow, GoodBoth, Zenon DEF Rows4
<1>5. AllGood(Rows5)
  <2>1. RowFits("dvb", "absent", 1, {"EM2884_HAUPPAUGE_WINTV_HVR_930C", "EM2884_C3TECH_DIGITAL_DUO", "EM2884_CINERGY_HTC_STICK",
               "EM2884_ELGATO_EYETV_HYBRID_2008"})
    BY DEF RowFits, KindFits, TunerFits, BusFits, Kinds, TunerTypes, DvbModels, Sensors, XcModels, YmecModels, PalModels,
           AbsentModels, Cinergy, Utv330, Leadership, OtherModels
  <2>2. RowFits("dvb", "XC2028", 0, {"EM2880_HAUPPAUGE_WINTV_HVR_900", "EM2880_HAUPPAUGE_WINTV_HVR_900_R2",
               "EM2883_HAUPPAUGE_WINTV_HVR_850", "EM2883_HAUPPAUGE_WINTV_HVR_950"})
    BY DEF RowFits, KindFits, TunerFits, BusFits, Kinds, TunerTypes, DvbModels, Sensors, XcModels, YmecModels, PalModels,
           AbsentModels, Cinergy, Utv330, Leadership, OtherModels
  <2> QED BY <2>1, <2>2, GoodRow, GoodBoth, Zenon DEF Rows5
<1>6. AllGood(Rows6)
  <2>1. RowFits("dvb", "XC2028", 0, {"EM2880_PINNACLE_PCTV_HD_PRO", "EM2880_AMD_ATI_TV_WONDER_HD_600", "EM2880_TERRATEC_HYBRID_XS"})
    BY DEF RowFits, KindFits, TunerFits, BusFits, Kinds, TunerTypes, DvbModels, Sensors, XcModels, YmecModels, PalModels,
           AbsentModels, Cinergy, Utv330, Leadership, OtherModels
  <2>2. RowFits("analog", "XC2028", 0, {"EM2880_TERRATEC_PRODIGY_XS"})
    BY DEF RowFits, KindFits, TunerFits, BusFits, Kinds, TunerTypes, DvbModels, Sensors, XcModels, YmecModels, PalModels,
           AbsentModels, Cinergy, Utv330, Leadership, OtherModels
  <2>3. RowFits("analog", "LG_PAL", 0, {"EM2820_MSI_VOX_USB_2"})
    BY DEF RowFits, KindFits, TunerFits, BusFits, Kinds, TunerTypes, DvbModels, Sensors, XcModels, YmecModels, PalModels,
           AbsentModels, Cinergy, Utv330, Leadership, OtherModels
  <2>4. RowFits("analog", "LG_TALN", 0, {"EM2800_TERRATEC_CINERGY_200"})
    BY DEF RowFits, KindFits, TunerFits, BusFits, Kinds, TunerTypes, DvbModels, Sensors, XcModels, YmecModels, PalModels,
           AbsentModels, Cinergy, Utv330, Leadership, OtherModels
  <2> QED BY <2>1, <2>2, <2>3, <2>4, GoodRow, GoodBoth, Zenon DEF Rows6
<1>7. AllGood(Rows7)
  <2>1. RowFits("analog", "absent", 0, {"EM2800_GRABBEEX_USB2800", "EM2800_VC211A", "EM2820_PINNACLE_DVC_90"})
    BY DEF RowFits, KindFits, TunerFits, BusFits, Kinds, TunerTypes, DvbModels, Sensors, XcModels, YmecModels, PalModels,
           AbsentModels, Cinergy, Utv330, Leadership, OtherModels
  <2>2. RowFits("analog", "LG_PAL", 0, {"EM2800_LEADTEK_WINFAST_USBII", "EM2800_VGEAR_POCKETTV"})
    BY DEF RowFits, KindFits, TunerFits, BusFits, Kinds, TunerTypes, DvbModels, Sensors, XcModels, YmecModels, PalModels,
           AbsentModels, Cinergy, Utv330, Leadership, OtherModels
  <2>3. RowFits("analog", "other", 0, {"EM2800_KWORLD_USB2800"})
    BY DEF RowFits, KindFits, TunerFits, BusFits, Kinds, TunerTypes, DvbModels, Sensors, XcModels, YmecModels, PalModels,
           AbsentModels, Cinergy, Utv330, Leadership, OtherModels
  <2>4. RowFits("analog", "YMEC", 0, {"EM2820_PROLINK_PLAYTV_BOX4_USB2", "EM2820_PROLINK_PLAYTV_USB2"})
    BY DEF RowFits, KindFits, TunerFits, BusFits, Kinds, TunerTypes, DvbModels, Sensors, XcModels, YmecModels, PalModels,
           AbsentModels, Cinergy, Utv330, Leadership, OtherModels
  <2> QED BY <2>1, <2>2, <2>3, <2>4, GoodRow, GoodBoth, Zenon DEF Rows7
<1>8. AllGood(Rows8)
  <2>1. RowFits("analog", "absent", 0, {"EM2860_SAA711X_REFERENCE_DESIGN"})
    BY DEF RowFits, KindFits, TunerFits, BusFits, Kinds, TunerTypes, DvbModels, Sensors, XcModels, YmecModels, PalModels,
           AbsentModels, Cinergy, Utv330, Leadership, OtherModels
  <2>2. RowFits("dvb", "absent", 1, {"EM2874_LEADERSHIP_ISDBT"})
    BY DEF RowFits, KindFits, TunerFits, BusFits, Kinds, TunerTypes, DvbModels, Sensors, XcModels, YmecModels, PalModels,
           AbsentModels, Cinergy, Utv330, Leadership, OtherModels
  <2>3. RowFits("analog", "XC2028", 0, {"EM2880_MSI_DIGIVOX_AD", "EM2880_MSI_DIGIVOX_AD_II", "EM2880_KWORLD_DVB_305U"})
    BY DEF RowFits, KindFits, TunerFits, BusFits, Kinds, TunerTypes, DvbModels, Sensors, XcModels, YmecModels, PalModels,
           AbsentModels, Cinergy, Utv330, Leadership, OtherModels
  <2>4. RowFits("dvb", "XC2028", 0, {"EM2880_KWORLD_DVB_310U"})
    BY DEF RowFits, KindFits, TunerFits, BusFits, Kinds, TunerTypes, DvbModels, Sensors, XcModels, YmecModels, PalModels,
           AbsentModels, Cinergy, Utv330, Leadership, OtherModels
  <2>5. RowFits("dvb", "other", 0, {"EM2882_KWORLD_ATSC_315U"})
    BY DEF RowFits, KindFits, TunerFits, BusFits, Kinds, TunerTypes, DvbModels, Sensors, XcModels, YmecModels, PalModels,
           AbsentModels, Cinergy, Utv330, Leadership, OtherModels
  <2> QED BY <2>1, <2>2, <2>3, <2>4, <2>5, GoodRow, GoodBoth, Zenon DEF Rows8
<1>9. AllGood(Rows9)
  <2>1. RowFits("dvb", "XC2028", 0, {"EM2880_EMPIRE_DUAL_TV", "EM2881_PINNACLE_HYBRID_PRO", "EM2882_PINNACLE_HYBRID_PRO_330E",
               "EM2882_KWORLD_VS_DVBT", "EM2882_TERRATEC_HYBRID_XS"})
    BY DEF RowFits, KindFits, TunerFits, BusFits, Kinds, TunerTypes, DvbModels, Sensors, XcModels, YmecModels, PalModels,
           AbsentModels, Cinergy, Utv330, Leadership, OtherModels
  <2>2. RowFits("analog", "XC2028", 0, {"EM2881_DNT_DA2_HYBRID"})
    BY DEF RowFits, KindFits, TunerFits, BusFits, Kinds, TunerTypes, DvbModels, Sensors, XcModels, YmecModels, PalModels,
           AbsentModels, Cinergy, Utv330, Leadership, OtherModels
  <2> QED BY <2>1, <2>2, GoodRow, GoodBoth, Zenon DEF Rows9
<1>10. AllGood(Rows10)
  <2>1. RowFits("dvb", "XC2028", 0, {"EM2882_DIKOM_DK300", "EM2883_KWORLD_HYBRID_330U"})
    BY DEF RowFits, KindFits, TunerFits, BusFits, Kinds, TunerTypes, DvbModels, Sensors, XcModels, YmecModels, PalModels,
           AbsentModels, Cinergy, Utv330, Leadership, OtherModels
  <2>2. RowFits("analog", "LG_PAL", 0, {"EM2820_COMPRO_VIDEOMATE_FORYOU"})
    BY DEF RowFits, KindFits, TunerFits, BusFits, Kinds, TunerTypes, DvbModels, Sensors, XcModels, YmecModels, PalModels,
           AbsentModels, Cinergy, Utv330, Leadership, OtherModels
  <2>3. RowFits("analog", "XC2028", 0, {"EM2860_KAIOMY_TVNPC_U2"})
    BY DEF RowFits, KindFits, TunerFits, BusFits, Kinds, TunerTypes, DvbModels, Sensors, XcModels, YmecModels, PalModels,
           AbsentModels, Cinergy, Utv330, Leadership, OtherModels
  <2>4. RowFits("analog", "absent", 0, {"EM2860_EASYCAP", "EM2860_TERRATEC_GRABBY"})
    BY DEF RowFits, KindFits, TunerFits, BusFits, Kinds, TunerTypes, DvbModels, Sensors, XcModels, YmecModels, PalModels,
           AbsentModels, Cinergy, Utv330, Leadership, OtherModels
  <2>5. RowFits("analog", "other", 0, {"EM2820_IODATA_GVMVP_SZ"})
    BY DEF RowFits, KindFits, TunerFits, BusFits, Kinds, TunerTypes, DvbModels, Sensors, XcModels, YmecModels, PalModels,
           AbsentModels, Cinergy, Utv330, Leadership, OtherModels
  <2> QED BY <2>1, <2>2, <2>3, <2>4, <2>5, GoodRow, GoodBoth, Zenon DEF Rows10
<1>11. AllGood(Rows11)
  <2>1. RowFits("analog", "absent", 0, {"EM2860_TERRATEC_AV350", "EM2860_ELGATO_VIDEO_CAPTURE", "EM2860_HT_VIDBOX_NW03"})
    BY DEF RowFits, KindFits, TunerFits, BusFits, Kinds, TunerTypes, DvbModels, Sensors, XcModels, YmecModels, PalModels,
           AbsentModels, Cinergy, Utv330, Leadership, OtherModels
  <2>2. RowFits("dvb", "XC2028", 0, {"EM2882_EVGA_INDTUBE"})
    BY DEF RowFits, KindFits, TunerFits, BusFits, Kinds, TunerTypes, DvbModels, Sensors, XcModels, YmecModels, PalModels,
           AbsentModels, Cinergy, Utv330, Leadership, OtherModels
  <2>3. RowFits("dvb", "absent", 0, {"EM2870_REDDO_DVB_C_USB_BOX", "EM2870_KWORLD_A340"})
    BY DEF RowFits, KindFits, TunerFits, BusFits, Kinds, TunerTypes, DvbModels, Sensors, XcModels, YmecModels, PalModels,
           AbsentModels, Cinergy, Utv330, Leadership, OtherModels
  <2>4. RowFits("dvb", "absent", 1, {"EM28174_PCTV_290E", "EM28174_PCTV_460E", "EM2874_MAXMEDIA_UB425_TC", "EM2884_PCTV_510E"})
    BY DEF RowFits, KindFits, TunerFits, BusFits, Kinds, TunerTypes, DvbModels, Sensors, XcModels, YmecModels, PalModels,
           AbsentModels, Cinergy, Utv330, Leadership, OtherModels
  <2> QED BY <2>1, <2>2, <2>3, <2>4, GoodRow, GoodBoth, Zenon DEF Rows11
<1>12. AllGood(Rows12)
  <2>1. RowFits("dvb", "absent", 1, {"EM2884_PCTV_520E", "EM2884_TERRATEC_HTC_USB_XS", "EM2874_DELOCK_61959",
               "EM2874_KWORLD_UB435Q_V2", "EM2874_KWORLD_UB435Q_V3", "EM28178_PCTV_461E", "EM28178_PCTV_292E",
               "EM28178_TERRATEC_T2_STICK_HD", "EM28178_PLEX_PX_BCUD"})
    BY DEF RowFits, KindFits, TunerFits, BusFits, Kinds, TunerTypes, DvbModels, Sensors, XcModels, YmecModels, PalModels,
           AbsentModels, Cinergy, Utv330, Leadership, OtherModels
  <2>2. RowFits("dvb", "absent", 0, {"EM2874_PCTV_HD_MINI_80E"})
    BY DEF RowFits, KindFits, TunerFits, BusFits, Kinds, TunerTypes, DvbModels, Sensors, XcModels, YmecModels, PalModels,
           AbsentModels, Cinergy, Utv330, Leadership, OtherModels
  <2>3. RowFits("webcam", "absent", 1, {"EM2765_SPEEDLINK_VAD_LAPLACE"})
    BY DEF RowFits, KindFits, TunerFits, BusFits, Kinds, TunerTypes, DvbModels, Sensors, XcModels, YmecModels, PalModels,
           AbsentModels, Cinergy, Utv330, Leadership, OtherModels
  <2>4. RowFits("analog", "absent", 0, {"EM2861_LEADTEK_VC100"})
    BY DEF RowFits, KindFits, TunerFits, BusFits, Kinds, TunerTypes, DvbModels, Sensors, XcModels, YmecModels, PalModels,
           AbsentModels, Cinergy, Utv330, Leadership, OtherModels
  <2> QED BY <2>1, <2>2, <2>3, <2>4, GoodRow, GoodBoth, Zenon DEF Rows12
<1> QED BY <1>1, <1>2, <1>3, <1>4, <1>5, <1>6, <1>7, <1>8, <1>9, <1>10, <1>11, <1>12, GoodBoth DEF Table


\* The models in the table, in rows.
LEMMA InTable ==
  /\ Ids1 \cup Ids2 \cup DvbModels \cup Sensors \cup {"EM2800_UNKNOWN"} \subseteq DOMAIN Table
  /\ \A h \in EepromHash \cup I2cHash : h[1] \in DOMAIN Table
<1> DEFINE all == DOMAIN Table
<1>1. PICK names1 : /\ Names(Rows1, names1)
                /\ names1 =
                     {"EM2750_UNKNOWN", "EM2820_UNKNOWN", "EM2750_DLCW_130"}
                 \cup {"EM2800_UNKNOWN"}
                 \cup {"EM2820_KWORLD_PVRTV2800RF", "EM2820_HAUPPAUGE_WINTV_USB_2"}
                 \cup {"EM2820_GADMEI_TVR200", "EM2820_TERRATEC_CINERGY_250", "EM2820_PINNACLE_USB_2"}
  BY NamesOne, NamesBoth, Zenon DEF Rows1
<1>2. PICK names2 : /\ Names(Rows2, names2)
                /\ names2 =
                     {"EM2820_DLINK_USB_TV", "EM2820_HERCULES_SMART_TV_USB2"}
                 \cup {"EM2820_PINNACLE_USB_2_FM1216ME", "EM2820_LEADTEK_WINFAST_USBII_DELUXE"}
                 \cup {"EM2820_GADMEI_UTV310"}
                 \cup {"EM2820_VIDEOLOGY_20K14XUSB", "EM2820_SILVERCREST_WEBCAM"}
  BY NamesOne, NamesBoth, Zenon DEF Rows2
<1>3. PICK names3 : /\ Names(Rows3, names3)
                /\ names3 =
                     {"EM2821_SUPERCOMP_USB_2"}
                 \cup {"EM2821_USBGEAR_VD204", "EM2860_TYPHOON_DVD_MAKER"}
                 \cup {"EM2860_NETGMBH_CAM"}
                 \cup {"EM2860_GADMEI_UTV330", "EM2861_GADMEI_UTV330PLUS"}
                 \cup {"EM2860_TERRATEC_HYBRID_XS", "EM2861_KWORLD_PVRTV_300U"}
  BY NamesOne, NamesBoth, Zenon DEF Rows3
<1>4. PICK names4 : /\ Names(Rows4, names4)
                /\ names4 =
                     {"EM2861_YAKUMO_MOVIE_MIXER", "EM2860_TVP5150_REFERENCE_DESIGN",
                      "EM2870_TERRATEC_XS_MT2060", "EM2870_PINNACLE_PCTV_DVB", "EM2870_COMPRO_VIDEOMATE"}
                 \cup {"EM2861_PLEXTOR_PX_TV100U"}
                 \cup {"EM2870_TERRATEC_XS", "EM2870_KWORLD_350U"}
                 \cup {"EM2870_KWORLD_355U"}
                 \cup {"EM2880_TERRATEC_HYBRID_XS_FR"}
                 \cup {"EM2884_TERRATEC_H5"}
  BY NamesOne, NamesBoth, Zenon DEF Rows4
<1>5. PICK names5 : /\ Names(Rows5, names5)
                /\ names5 =
                     {"EM2884_HAUPPAUGE_WINTV_HVR_930C", "EM2884_C3TECH_DIGITAL_DUO",
                      "EM2884_CINERGY_HTC_STICK", "EM2884_ELGATO_EYETV_HYBRID_2008"}
                 \cup {"EM2880_HAUPPAUGE_WINTV_HVR_900", "EM2880_HAUPPAUGE_WINTV_HVR_900_R2",
                      "EM2883_HAUPPAUGE_WINTV_HVR_850", "EM2883_HAUPPAUGE_WINTV_HVR_950"}
  BY NamesOne, NamesBoth, Zenon DEF Rows5
<1>6. PICK names6 : /\ Names(Rows6, names6)
                /\ names6 =
                     {"EM2880_PINNACLE_PCTV_HD_PRO", "EM2880_AMD_ATI_TV_WONDER_HD_600",
                      "EM2880_TERRATEC_HYBRID_XS"}
                 \cup {"EM2880_TERRATEC_PRODIGY_XS"}
                 \cup {"EM2820_MSI_VOX_USB_2"}
                 \cup {"EM2800_TERRATEC_CINERGY_200"}
  BY NamesOne, NamesBoth, Zenon DEF Rows6
<1>7. PICK names7 : /\ Names(Rows7, names7)
                /\ names7 =
                     {"EM2800_GRABBEEX_USB2800", "EM2800_VC211A", "EM2820_PINNACLE_DVC_90"}
                 \cup {"EM2800_LEADTEK_WINFAST_USBII", "EM2800_VGEAR_POCKETTV"}
                 \cup {"EM2800_KWORLD_USB2800"}
                 \cup {"EM2820_PROLINK_PLAYTV_BOX4_USB2", "EM2820_PROLINK_PLAYTV_USB2"}
  BY NamesOne, NamesBoth, Zenon DEF Rows7
<1>8. PICK names8 : /\ Names(Rows8, names8)
                /\ names8 =
                     {"EM2860_SAA711X_REFERENCE_DESIGN"}
                 \cup {"EM2874_LEADERSHIP_ISDBT"}
                 \cup {"EM2880_MSI_DIGIVOX_AD", "EM2880_MSI_DIGIVOX_AD_II", "EM2880_KWORLD_DVB_305U"}
                 \cup {"EM2880_KWORLD_DVB_310U"}
                 \cup {"EM2882_KWORLD_ATSC_315U"}
  BY NamesOne, NamesBoth, Zenon DEF Rows8
<1>9. PICK names9 : /\ Names(Rows9, names9)
                /\ names9 =
                     {"EM2880_EMPIRE_DUAL_TV", "EM2881_PINNACLE_HYBRID_PRO", "EM2882_PINNACLE_HYBRID_PRO_330E",
                      "EM2882_KWORLD_VS_DVBT", "EM2882_TERRATEC_HYBRID_XS"}
                 \cup {"EM2881_DNT_DA2_HYBRID"}
  BY NamesOne, NamesBoth, Zenon DEF Rows9
<1>10. PICK names10 : /\ Names(Rows10, names10)
                /\ names10 =
                     {"EM2882_DIKOM_DK300", "EM2883_KWORLD_HYBRID_330U"}
                 \cup {"EM2820_COMPRO_VIDEOMATE_FORYOU"}
                 \cup {"EM2860_KAIOMY_TVNPC_U2"}
                 \cup {"EM2860_EASYCAP", "EM2860_TERRATEC_GRABBY"}
                 \cup {"EM2820_IODATA_GVMVP_SZ"}
  BY NamesOne, NamesBoth, Zenon DEF Rows10
<1>11. PICK names11 : /\ Names(Rows11, names11)
                /\ names11 =
                     {"EM2860_TERRATEC_AV350", "EM2860_ELGATO_VIDEO_CAPTURE", "EM2860_HT_VIDBOX_NW03"}
                 \cup {"EM2882_EVGA_INDTUBE"}
                 \cup {"EM2870_REDDO_DVB_C_USB_BOX", "EM2870_KWORLD_A340"}
                 \cup {"EM28174_PCTV_290E", "EM28174_PCTV_460E", "EM2874_MAXMEDIA_UB425_TC", "EM2884_PCTV_510E"}
  BY NamesOne, NamesBoth, Zenon DEF Rows11
<1>12. PICK names12 : /\ Names(Rows12, names12)
                /\ names12 =
                     {"EM2884_PCTV_520E", "EM2884_TERRATEC_HTC_USB_XS", "EM2874_DELOCK_61959",
                      "EM2874_KWORLD_UB435Q_V2", "EM2874_KWORLD_UB435Q_V3", "EM28178_PCTV_461E",
                      "EM28178_PCTV_292E", "EM28178_TERRATEC_T2_STICK_HD", "EM28178_PLEX_PX_BCUD"}
                 \cup {"EM2874_PCTV_HD_MINI_80E"}
                 \cup {"EM2765_SPEEDLINK_VAD_LAPLACE"}
                 \cup {"EM2861_LEADTEK_VC100"}
  BY NamesOne, NamesBoth, Zenon DEF Rows12
<1>13. Names(Table, names1 \cup names2 \cup names3 \cup names4 \cup names5 \cup names6
                  \cup names7 \cup names8 \cup names9 \cup names10 \cup names11 \cup names12)
  <2>1. /\ Names(Rows1, names1) /\ Names(Rows2, names2) /\ Names(Rows3, names3)
        /\ Names(Rows4, names4) /\ Names(Rows5, names5) /\ Names(Rows6, names6)
        /\ Names(Rows7, names7) /\ Names(Rows8, names8) /\ Names(Rows9, names9)
        /\ Names(Rows10, names10) /\ Names(Rows11, names11) /\ Names(Rows12, names12)
    BY <1>1, <1>2, <1>3, <1>4, <1>5, <1>6, <1>7, <1>8, <1>9, <1>10, <1>11, <1>12
  <2>2. Names(Rows1 ++ Rows2 ++ Rows3 ++ Rows4 ++ Rows5 ++ Rows6,
              names1 \cup names2 \cup names3 \cup names4 \cup names5 \cup names6)
    BY <2>1, NamesBoth, Zenon
  <2> QED BY <2>1, <2>2, NamesBoth, Zenon DEF Table
<1>14. all = names1 \cup names2 \cup names3 \cup names4 \cup names5 \cup names6
                  \cup names7 \cup names8 \cup names9 \cup names10 \cup names11 \cup names12
  BY <1>13 DEF Names
<1> HIDE DEF all
<1>15. Ids1 \subseteq all
  BY <1>1, <1>2, <1>3, <1>4, <1>5, <1>6, <1>7, <1>8, <1>9, <1>10, <1>11, <1>12, <1>14 DEF Ids1
<1>16. Ids2 \subseteq all
  BY <1>1, <1>2, <1>3, <1>4, <1>5, <1>6, <1>7, <1>8, <1>9, <1>10, <1>11, <1>12, <1>14 DEF Ids2
<1>17. DvbModels \subseteq all
  BY <1>1, <1>2, <1>3, <1>4, <1>5, <1>6, <1>7, <1>8, <1>9, <1>10, <1>11, <1>12, <1>14 DEF DvbModels
<1>18. Sensors \cup {"EM2800_UNKNOWN"} \subseteq all
  BY <1>1, <1>2, <1>3, <1>4, <1>5, <1>6, <1>7, <1>8, <1>9, <1>10, <1>11, <1>12, <1>14 DEF Sensors
<1>19. \A h \in EepromHash \cup I2cHash : h[1] \in all
  BY <1>1, <1>2, <1>3, <1>4, <1>5, <1>6, <1>7, <1>8, <1>9, <1>10, <1>11, <1>12, <1>14 DEF EepromHash, I2cHash
<1> QED BY <1>15, <1>16, <1>17, <1>18, <1>19 DEF all

LEMMA DvbBoards == DOMAIN BoardInit \ {"other"} = DvbModels
<1>1. PICK names1 : /\ Names(Boards1, names1)
                /\ names1 =
                     {"EM2874_LEADERSHIP_ISDBT"}
                 \cup {"EM2883_HAUPPAUGE_WINTV_HVR_850", "EM2883_HAUPPAUGE_WINTV_HVR_950",
                      "EM2880_PINNACLE_PCTV_HD_PRO", "EM2880_AMD_ATI_TV_WONDER_HD_600",
                      "EM2880_KWORLD_DVB_310U", "EM2880_HAUPPAUGE_WINTV_HVR_900", "EM2882_TERRATEC_HYBRID_XS",
                      "EM2880_EMPIRE_DUAL_TV", "EM2880_TERRATEC_HYBRID_XS", "EM2880_TERRATEC_HYBRID_XS_FR",
                      "EM2881_PINNACLE_HYBRID_PRO", "EM2882_DIKOM_DK300", "EM2882_KWORLD_VS_DVBT",
                      "EM2883_KWORLD_HYBRID_330U", "EM2882_EVGA_INDTUBE", "EM2880_HAUPPAUGE_WINTV_HVR_900_R2",
                      "EM2882_PINNACLE_HYBRID_PRO_330E"}
                 \cup {"EM2870_KWORLD_355U"}
                 \cup {"EM2882_KWORLD_ATSC_315U", "EM2870_REDDO_DVB_C_USB_BOX"}
                 \cup {"EM2870_KWORLD_A340", "EM28174_PCTV_290E"}
  BY NamesOne, NamesBoth, Zenon DEF Boards1
<1>2. PICK names2 : /\ Names(Boards2, names2)
                /\ names2 =
                     {"EM2884_HAUPPAUGE_WINTV_HVR_930C", "EM2884_TERRATEC_H5"}
                 \cup {"EM2884_C3TECH_DIGITAL_DUO", "EM28174_PCTV_460E"}
                 \cup {"EM2874_DELOCK_61959", "EM2874_MAXMEDIA_UB425_TC", "EM2884_PCTV_510E", "EM2884_PCTV_520E"}
  BY NamesOne, NamesBoth, Zenon DEF Boards2
<1>3. PICK names3 : /\ Names(Boards3, names3)
                /\ names3 =
                     {"EM2884_ELGATO_EYETV_HYBRID_2008", "EM2884_CINERGY_HTC_STICK",
                      "EM2884_TERRATEC_HTC_USB_XS", "EM2874_KWORLD_UB435Q_V2", "EM2874_PCTV_HD_MINI_80E"}
                 \cup {"EM2874_KWORLD_UB435Q_V3"}
                 \cup {"EM28178_PCTV_461E"}
  BY NamesOne, NamesBoth, Zenon DEF Boards3
<1>4. PICK names4 : /\ Names(Boards4, names4)
                /\ names4 =
                     {"EM28178_PCTV_292E", "EM28178_TERRATEC_T2_STICK_HD"}
                 \cup {"EM28178_PLEX_PX_BCUD"}
                 \cup {"other"}
  BY NamesOne, NamesBoth, Zenon DEF Boards4
<1>5. Names(BoardInit, names1 \cup names2 \cup names3 \cup names4)
  <2>1. Names(Boards1, names1) /\ Names(Boards2, names2) /\ Names(Boards3, names3) /\ Names(Boards4, names4)
    BY <1>1, <1>2, <1>3, <1>4
  <2> QED BY <2>1, NamesBoth, Zenon DEF BoardInit
<1>6. DOMAIN BoardInit = names1 \cup names2 \cup names3 \cup names4
  BY <1>5 DEF Names
<1> QED BY <1>1, <1>2, <1>3, <1>4, <1>6 DEF DvbModels

-----------------------------------------------------------------------------
(* What the driver thinks a device is.                                      *)

Models == DOMAIN Table \cup {"none"}
Sure == DOMAIN Table
HintTuners == TunerTypes \cup {"none"}
Hints == EepromHash \cup I2cHash
Devices ==
  [at : {"endpoints", "buses", "ready", "dvb"}, eeprom : EepromHash \cup {NoHash}, i2c : I2cHash \cup {NoHash},
   sensor : {"none", "MT9V011", "MT9M001"}, model : Models, entry : Entries, tuner : HintTuners,
   buses : SUBSET {0, 1}, hint : Models \X HintTuners]

\* The entry is that of the model, but for a webcam that has no sensor; the
\* hint is the last one taken, and names the model.
Settled(d) ==
  /\ d \in Devices /\ d.model \in Sure
  /\ d.entry.bus = Table[d.model].bus /\ d.entry.kind \in {Table[d.model].kind, "analog"}
  /\ d.hint # NoHash => d.hint[1] = d.model
  /\ 0 \in d.buses /\ (d.entry.bus \in d.buses \/ d.hint[1] = Leadership)
\* The table has the tuner the hint names.
TableAgrees(d) ==
  d.hint # NoHash /\ d.model # Cinergy => Table[d.model].tuner = d.hint[2] \/ d.entry.kind = "webcam"
TunerAgrees(d) ==
  d.hint # NoHash /\ d.model # Cinergy => d.tuner = d.hint[2] \/ d.entry.kind = "webcam"

BfInv ==
  /\ dev28 \in Devices
  /\ dev28.at = "endpoints" => dev28.hint = NoHash
  /\ dev28.at = "buses" =>
       /\ dev28.model \in Sure /\ dev28.entry = Table[dev28.model] /\ dev28.hint = NoHash
       /\ dev28.buses = {0, Table[dev28.model].bus}
  /\ dev28.at \in {"ready", "dvb"} => Settled(dev28) /\ TunerAgrees(dev28)

\* The entries hints lead to.
LEMMA HintsFit ==
  ASSUME NEW h \in Hints
  PROVE  /\ h[1] \in Sure /\ h[2] \in TunerTypes /\ h = <<h[1], h[2]>> /\ h # NoHash
         /\ h[1] # Cinergy => Table[h[1]].tuner = h[2]
         /\ Table[h[1]] \in Entries /\ (h[1] = Leadership \/ Table[h[1]].bus = 0)
<1>1. h[1] \in Sure /\ EntryGood(h[1], Table[h[1]])
  BY InTable, GoodTable DEF Hints, Sure, AllGood
<1>2. /\ h[2] \in TunerTypes /\ h = <<h[1], h[2]>> /\ h # NoHash
      /\ h[1] = Leadership \/ h[1] \in OtherModels
  BY DEF Hints, EepromHash, I2cHash, TunerTypes, NoHash, OtherModels, XcModels, YmecModels, PalModels, AbsentModels,
         Sensors, Cinergy, Utv330, Leadership
<1>3. /\ h[1] \in XcModels => h[2] = "XC2028"
      /\ h[1] \in YmecModels => h[2] = "YMEC"
      /\ h[1] \in PalModels => h[2] = "LG_PAL"
      /\ h[1] \in AbsentModels \cup {Leadership} => h[2] = "absent"
      /\ h[1] = Utv330 => h[2] = "TNF"
  BY DEF Hints, EepromHash, I2cHash, XcModels, YmecModels, PalModels, AbsentModels, Sensors, Cinergy, Utv330, Leadership
<1>4. h[1] \notin Sensors
  BY DEF Hints, EepromHash, I2cHash, Sensors
<1>5. h[1] # Cinergy => Table[h[1]].tuner = h[2]
  BY <1>1, <1>2, <1>3, <1>4 DEF EntryGood, TunerFits, OtherModels
<1>6. Table[h[1]] \in Entries /\ (h[1] = Leadership \/ Table[h[1]].bus = 0)
  BY <1>1, <1>2 DEF EntryGood, BusFits
<1> QED BY <1>1, <1>2, <1>5, <1>6

LEMMA SureEntries == \A m \in Sure : m \in Models /\ Table[m] \in Entries
BY GoodTable DEF AllGood, EntryGood, Sure, Models

\* What setting a model and taking a hint do.
LEMMA ModelSet ==
  ASSUME NEW d \in Devices, NEW m \in Sure, NEW e, e = SetModel(d, m)
  PROVE  /\ e \in Devices /\ e.model = m /\ e.entry = Table[m]
         /\ e.tuner = d.tuner /\ e.buses = d.buses /\ e.hint = d.hint /\ e.sensor = d.sensor
<1>1. m \in Models /\ Table[m] \in Entries
  BY SureEntries
<1> QED BY <1>1 DEF SetModel, Devices

WithHint(d, m, t) == [SetModel(d, m) EXCEPT !.tuner = t, !.hint = <<m, t>>]

LEMMA HintTaken ==
  ASSUME NEW d \in Devices, NEW m \in Sure, NEW t \in HintTuners,
         NEW e, e = WithHint(d, m, t)
  PROVE  /\ e \in Devices /\ e.model = m /\ e.entry = Table[m]
         /\ e.tuner = t /\ e.buses = d.buses /\ e.hint = <<m, t>>
<1>1. PICK c : c = SetModel(d, m)
  OBVIOUS
<1>2. c \in Devices /\ c.model = m /\ c.entry = Table[m] /\ c.buses = d.buses
  BY <1>1, ModelSet
<1>3. m \in Models
  BY SureEntries
<1> QED BY <1>1, <1>2, <1>3 DEF WithHint, Devices

\* A hint taken keeps what is settled, and is true of the table.
LEMMA HintSettles ==
  ASSUME NEW d, Settled(d), TunerAgrees(d)
  PROVE  /\ Settled(Hinted(d)) /\ TunerAgrees(Hinted(d))
         /\ TableAgrees(d) => TableAgrees(Hinted(d))
<1> DEFINE h == HintBoard(d)
<1>1. /\ d \in Devices /\ d.model \in Sure /\ 0 \in d.buses /\ d.tuner \in HintTuners
      /\ d.entry.bus = Table[d.model].bus /\ d.entry.kind \in {Table[d.model].kind, "analog"}
      /\ d.entry.bus \in d.buses \/ (d.hint # NoHash /\ d.hint[1] = Leadership)
  <2>1. NoHash[1] # Leadership
    BY DEF NoHash, Leadership
  <2> QED BY <2>1 DEF Settled, Devices
<1>2. CASE h = NoHash
  BY <1>2 DEF Hinted
<1>3. ASSUME h # NoHash, NEW m \in Sure, NEW t \in HintTuners, h = <<m, t>>,
             Table[m].bus \in d.buses \/ m = Leadership,
             m # Cinergy => Table[m].tuner = t \/ Table[m].kind = "webcam"
      PROVE  Settled(Hinted(d)) /\ TunerAgrees(Hinted(d)) /\ TableAgrees(Hinted(d))
  <2>1. PICK e : e = WithHint(d, m, t)
    OBVIOUS
  <2>2. Hinted(d) = e
    BY <1>3, <2>1 DEF Hinted, WithHint
  <2>3. /\ e \in Devices /\ e.model = m /\ e.entry = Table[m]
        /\ e.tuner = t /\ e.buses = d.buses /\ e.hint = <<m, t>>
    <3>1. d \in Devices /\ m \in Sure /\ t \in HintTuners
      BY <1>1, <1>3
    <3>2. e.hint = <<m, t>>
      BY <3>1, <2>1, HintTaken
    <3>3. e \in Devices /\ e.model = m /\ e.entry = Table[m] /\ e.tuner = t /\ e.buses = d.buses
      BY <3>1, <2>1, HintTaken
    <3> QED BY <3>2, <3>3
  <2>4. e.hint[1] = m /\ e.hint[2] = t
    BY <2>3
  <2>5. Settled(e)
    BY <1>1, <1>3, <2>3, <2>4 DEF Settled
  <2>6. TunerAgrees(e)
    BY <2>3, <2>4 DEF TunerAgrees
  <2>7. TableAgrees(e)
    BY <1>3, <2>3, <2>4 DEF TableAgrees
  <2> QED BY <2>2, <2>5, <2>6, <2>7
<1>4. CASE h # NoHash /\ d.entry.kind # "webcam"
  <2>1. h \in Hints
    BY <1>1, <1>4 DEF HintBoard, Devices, Hints
  <2>2. PICK g \in Hints : g = h
    BY <2>1
  <2>3. /\ g[1] \in Sure /\ g[2] \in TunerTypes /\ g = <<g[1], g[2]>>
        /\ g[1] # Cinergy => Table[g[1]].tuner = g[2]
        /\ g[1] = Leadership \/ Table[g[1]].bus = 0
    BY HintsFit
  <2>4. g[2] \in HintTuners
    BY <2>3 DEF HintTuners
  <2> QED BY <1>1, <1>3, <1>4, <2>2, <2>3, <2>4
<1>5. CASE h # NoHash /\ d.entry.kind = "webcam"
  <2>1. Table[d.model].kind = "webcam"
    BY <1>1, <1>5
  <2>2. h \in {<<m, d.tuner>> : m \in Sensors \cup {d.model}}
    BY <1>5 DEF HintBoard, Sensors
  <2>3. PICK m \in Sensors \cup {d.model} : h = <<m, d.tuner>>
    BY <2>2
  <2>4. CASE m \in Sensors
    <3>1. m \in Sure /\ Table[m].kind = "webcam" /\ Table[m].bus = 0
      BY <2>4, InTable, GoodTable DEF AllGood, EntryGood, KindFits, BusFits, OtherModels, Sure
    <3> QED BY <1>1, <1>3, <1>5, <2>3, <3>1
  <2>5. CASE m = d.model /\ d.entry.bus \in d.buses
    BY <1>1, <1>3, <1>5, <2>1, <2>3, <2>5
  <2>6. CASE m = d.model /\ d.entry.bus \notin d.buses
    <3>1. d.model = Leadership
      BY <1>1, <2>6 DEF Settled
    <3> QED BY <1>1, <1>3, <1>5, <2>1, <2>3, <2>6, <3>1
  <2> QED BY <2>3, <2>4, <2>5, <2>6
<1> QED BY <1>2, <1>4, <1>5

\* The two looks at what board it is, and what comes before.
LEMMA LooksSettle ==
  ASSUME BfInv, dev28.at = "buses",
         NEW a, a = DetectSensor(dev28), NEW b, b = FirstLook(a), NEW c, c = TableTuner(b), NEW d, d = SecondLook(c)
  PROVE  Settled(d) /\ TunerAgrees(d)
<1>1. /\ dev28 \in Devices /\ dev28.model \in Sure /\ dev28.entry = Table[dev28.model] /\ dev28.hint = NoHash
      /\ dev28.buses = {0, Table[dev28.model].bus} /\ dev28.entry \in Entries
  BY DEF BfInv, Devices
<1>2. /\ a \in Devices /\ a.model = dev28.model /\ a.hint = NoHash /\ a.buses = dev28.buses
      /\ a.entry.bus = dev28.entry.bus /\ a.entry.kind \in {dev28.entry.kind, "analog"}
  <2>1. CASE dev28.entry.kind = "webcam" /\ dev28.sensor = "none"
    <3>1. a = [dev28 EXCEPT !.entry.kind = "analog"]
      BY <2>1 DEF DetectSensor
    <3> QED BY <1>1, <3>1 DEF Devices, Entries, Kinds
  <2>2. CASE ~(dev28.entry.kind = "webcam" /\ dev28.sensor = "none")
    BY <1>1, <2>2 DEF DetectSensor
  <2> QED BY <2>1, <2>2
<1>3. Settled(a) /\ TunerAgrees(a) /\ TableAgrees(a)
  BY <1>1, <1>2 DEF Settled, TunerAgrees, TableAgrees
<1>4. Settled(b) /\ TableAgrees(b)
  <2>1. CASE b = Hinted(a)
    BY <1>3, <2>1, HintSettles
  <2>2. CASE b = SetModel(a, a.model)
    <3>1. /\ b \in Devices /\ b.model = a.model /\ b.entry = Table[a.model]
          /\ b.tuner = a.tuner /\ b.buses = a.buses /\ b.hint = a.hint
      BY <1>1, <1>2, <2>2, ModelSet
    <3> QED BY <1>1, <1>2, <3>1 DEF Settled, TableAgrees
  <2> QED BY <2>1, <2>2 DEF FirstLook
<1>5. Settled(c) /\ TunerAgrees(c)
  <2>1. c = [b EXCEPT !.tuner = Table[b.model].tuner] /\ b \in Devices /\ b.model \in Sure
    BY <1>4 DEF TableTuner, Settled
  <2>2. Table[b.model].tuner \in HintTuners
    BY <2>1, SureEntries DEF Entries, HintTuners
  <2>3. /\ c \in Devices /\ c.model = b.model /\ c.entry = b.entry /\ c.hint = b.hint /\ c.buses = b.buses
        /\ c.tuner = Table[b.model].tuner
    BY <2>1, <2>2 DEF Devices
  <2> QED BY <1>4, <2>3 DEF Settled, TunerAgrees, TableAgrees
<1>6. CASE d = Hinted(c)
  BY <1>5, <1>6, HintSettles
<1>7. CASE d = c
  BY <1>5, <1>7
<1> QED BY <1>6, <1>7 DEF SecondLook

\* A settled device fits, whoever looks.
LEMMA BfInvInit == EbInit => BfInv
<1> SUFFICES ASSUME EbInit PROVE BfInv
  OBVIOUS
<1>1. PICK e \in EepromHash \union {NoHash}, i \in I2cHash \union {NoHash}, c \in {"none", "MT9V011", "MT9M001"} :
        dev28 = [at |-> "endpoints", eeprom |-> e, i2c |-> i, sensor |-> c, model |-> "none",
                 entry |-> Table["EM2800_UNKNOWN"], tuner |-> "none", buses |-> {}, hint |-> NoHash]
  BY DEF EbInit
<1>2. Table["EM2800_UNKNOWN"] \in Entries
  BY InTable, SureEntries DEF Sure
<1>3. NoHash \in Models \X HintTuners /\ "none" \in Models /\ "none" \in HintTuners
  BY DEF NoHash, Models, HintTuners
<1>4. dev28 \in Devices
  BY <1>1, <1>2, <1>3 DEF Devices
<1> QED BY <1>1, <1>4 DEF BfInv

LEMMA BfInvNext == BfInv /\ [EbNext]_ebVars => BfInv'
<1> SUFFICES ASSUME BfInv, [EbNext]_ebVars PROVE BfInv'
  OBVIOUS
<1>1. CASE Endpoint \/ UNCHANGED ebVars
  BY <1>1 DEF Endpoint, ebVars, BfInv
<1>2. CASE ProbeModel
  <2>1. PICK m \in Sure : dev28' = [SetModel(dev28, m) EXCEPT !.at = "buses", !.buses = {0, Table[m].bus}]
    BY <1>2, InTable DEF ProbeModel, Sure
  <2>2. PICK e : e = SetModel(dev28, m)
    OBVIOUS
  <2>3. /\ e \in Devices /\ e.model = m /\ e.entry = Table[m] /\ e.hint = dev28.hint
        /\ dev28.hint = NoHash /\ Table[m].bus \in {0, 1}
    BY <1>2, <2>2, ModelSet, SureEntries DEF BfInv, ProbeModel, Entries
  <2>4. dev28' \in Devices /\ dev28'.at = "buses" /\ dev28'.buses = {0, Table[m].bus}
        /\ dev28'.model = m /\ dev28'.entry = Table[m] /\ dev28'.hint = NoHash
    BY <2>1, <2>2, <2>3 DEF Devices
  <2> QED BY <2>4 DEF BfInv
<1>3. CASE CardSetup
  <2>1. PICK a : a = DetectSensor(dev28)
    OBVIOUS
  <2>2. PICK b : b = FirstLook(a)
    OBVIOUS
  <2>3. PICK c : c = TableTuner(b)
    OBVIOUS
  <2>4. PICK d : d = SecondLook(c)
    OBVIOUS
  <2>5. Settled(d) /\ TunerAgrees(d)
    BY <1>3, <2>1, <2>2, <2>3, <2>4, LooksSettle DEF CardSetup
  <2>6. dev28' = [d EXCEPT !.at = "ready"]
    BY <1>3, <2>1, <2>2, <2>3, <2>4 DEF CardSetup
  <2>7. /\ dev28' \in Devices /\ dev28'.at = "ready" /\ dev28'.model = d.model /\ dev28'.entry = d.entry
        /\ dev28'.tuner = d.tuner /\ dev28'.buses = d.buses /\ dev28'.hint = d.hint
    BY <2>5, <2>6 DEF Settled, Devices
  <2> QED BY <2>5, <2>7 DEF BfInv, Settled, TunerAgrees
<1>4. CASE BindDvb
  <2>1. Settled(dev28) /\ TunerAgrees(dev28) /\ dev28.entry.kind = "dvb"
    BY <1>4 DEF BindDvb, BfInv
  <2>2. dev28.model \in DOMAIN BoardInit
    <3>1. Table[dev28.model].kind = "dvb" /\ EntryGood(dev28.model, Table[dev28.model])
      BY <2>1, GoodTable DEF Settled, AllGood, Sure
    <3> QED BY <3>1, DvbBoards DEF EntryGood, KindFits
  <2>3. dev28' = [dev28 EXCEPT !.at = "dvb"]
    BY <1>4, <2>2 DEF BindDvb
  <2>4. /\ dev28' \in Devices /\ dev28'.at = "dvb" /\ dev28'.model = dev28.model /\ dev28'.entry = dev28.entry
        /\ dev28'.tuner = dev28.tuner /\ dev28'.buses = dev28.buses /\ dev28'.hint = dev28.hint
    BY <2>1, <2>3 DEF Settled, Devices
  <2> QED BY <2>1, <2>4 DEF BfInv, Settled, TunerAgrees
<1> QED BY <1>1, <1>2, <1>3, <1>4 DEF EbNext

LEMMA BfInvFits == BfInv => BoardFits
<1> SUFFICES ASSUME BfInv PROVE BoardFits
  OBVIOUS
<1>1. dev28.at # "unsupported"
  BY DEF BfInv, Devices
<1>2. DvbModels = {m \in DOMAIN Table : Table[m].kind = "dvb"}
  BY InTable, GoodTable DEF AllGood, EntryGood, KindFits
<1>3. dev28.at \in {"ready", "dvb"} => Settled(dev28) /\ TunerAgrees(dev28)
  BY DEF BfInv
<1> QED BY <1>1, <1>2, <1>3, DvbBoards DEF BoardFits, Settled, TunerAgrees, Leadership, Cinergy

\* Whatever EEPROM, I2C chips and sensor a device has, and by whichever entry
\* it was found: a board with DVB has its frontend, its bus is registered but
\* for the Leadership, and its tuner is that of the hint taken last.
THEOREM BoardFitsHolds == EbSpec => []BoardFits
<1> QED BY BfInvInit, BfInvNext, BfInvFits, PTL DEF EbSpec

-----------------------------------------------------------------------------
(* Sequences of steps.                                                      *)

\* Where the parts of a sequence put together from n parts lie in it.
Places1(f, n, w, start) ==
  /\ \A i \in 1 .. n : \A m \in 1 .. Len(f[i]) : start[i] + m \in 1 .. Len(w) /\ w[start[i] + m] = f[i][m]
  /\ \A k \in 1 .. Len(w) : \E i \in 1 .. n : k - start[i] \in 1 .. Len(f[i])

LEMMA FlatLoop ==
  ASSUME NEW n \in Nat \ {0}, NEW S, NEW f \in [1 .. n -> Seq(S)]
  PROVE  \E g : /\ g = [i \in 1 .. n |-> IF i = 1 THEN f[i] ELSE g[i - 1] \o f[i]]
                /\ FlattenSeq(f) = g[n]
<1> DEFINE Runs(h, k) == h = [i \in 1 .. k |-> IF i = 1 THEN f[i] ELSE h[i - 1] \o f[i]]
           Bad == {k \in Nat \ {0} : ~ \E h : Runs(h, k)}
           g == CHOOSE h : Runs(h, Len(f))
<1>1. Bad = {}
  <2> SUFFICES ASSUME Bad # {} PROVE FALSE
    OBVIOUS
  <2>1. PICK m \in Bad : \A x \in Bad : m <= x
    <3> HIDE DEF Runs
    <3> QED BY Smallest
  <2>2. m # 1
    <3>1. Runs([i \in 1 .. 1 |-> f[1]], 1)
      OBVIOUS
    <3> QED BY <3>1
  <2>3. PICK h : Runs(h, m - 1)
    <3> HIDE DEF Runs
    <3>1. m \in Nat \ {0}
      OBVIOUS
    <3>2. m - 1 \in Nat \ {0} /\ m - 1 \notin Bad
      <4> HIDE DEF Bad
      <4> QED BY <2>1, <2>2, <3>1
    <3> QED BY <3>2
  <2> DEFINE e == [i \in 1 .. m |-> IF i = m THEN h[m - 1] \o f[m] ELSE h[i]]
  <2>4. ASSUME NEW i \in 1 .. m PROVE e[i] = IF i = 1 THEN f[i] ELSE e[i - 1] \o f[i]
    <3>1. CASE i = m
      <4>1. m - 1 \in 1 .. m /\ m - 1 # m
        BY <2>2
      <4> QED BY <3>1, <2>2, <4>1
    <3>2. CASE i # m
      <4>1. i \in 1 .. m - 1 /\ (i # 1 => i - 1 \in 1 .. m - 1)
        BY <3>2
      <4>2. h[i] = IF i = 1 THEN f[i] ELSE h[i - 1] \o f[i]
        BY <2>3, <4>1
      <4> QED BY <3>2, <4>1, <4>2
    <3> QED BY <3>1, <3>2
  <2>5. e = [i \in 1 .. m |-> e[i]]
    OBVIOUS
  <2>6. Runs(e, m)
    <3> HIDE DEF e
    <3> QED BY <2>4, <2>5
  <2> QED BY <2>6
<1>2. Len(f) = n
  OBVIOUS
<1>3. \E h : Runs(h, Len(f))
  <2> HIDE DEF Runs
  <2>1. Len(f) \notin Bad
    BY <1>1
  <2> QED BY <2>1, <1>2
<1>4. FlattenSeq(f) = g[Len(f)]
  <2>1. Len(f) # 0
    BY <1>2
  <2> QED BY <2>1, Zenon DEF FlattenSeq
<1>5. Runs(g, Len(f))
  <2> HIDE DEF Runs
  <2> QED BY <1>3, Zenon
<1> HIDE DEF g
<1> QED BY <1>2, <1>4, <1>5

LEMMA PlacesAppend ==
  ASSUME NEW S, NEW k \in Nat, k >= 2, NEW f, NEW u \in Seq(S), NEW v \in Seq(S), v = f[k],
         NEW start \in [1 .. k - 1 -> Nat], Places1(f, k - 1, u, start)
  PROVE  \E next \in [1 .. k -> Nat] : Places1(f, k, u \o v, next)
<1>1. PICK w : w = u \o v
  OBVIOUS
<1>2. PICK a : a = Len(u)
  OBVIOUS
<1>3. PICK b : b = Len(v)
  OBVIOUS
<1>4. /\ a \in Nat /\ b \in Nat /\ Len(w) = a + b
      /\ \A i \in 1 .. a : w[i] = u[i]
      /\ \A i \in 1 .. b : w[a + i] = v[i]
  BY <1>1, <1>2, <1>3
<1> DEFINE next == [i \in 1 .. k |-> IF i = k THEN a ELSE start[i]]
<1>5. /\ next \in [1 .. k -> Nat] /\ next[k] = a /\ k \in 1 .. k
      /\ \A i \in 1 .. k - 1 : next[i] = start[i] /\ start[i] \in Nat
  <2>1. \A i \in 1 .. k : next[i] \in Nat
    <3>1. ASSUME NEW i \in 1 .. k PROVE next[i] \in Nat
      <4>1. CASE i = k
        BY <1>4, <4>1
      <4>2. CASE i # k
        <5>1. i \in 1 .. k - 1
          BY <4>2
        <5> QED BY <4>2, <5>1
      <4> QED BY <4>1, <4>2
    <3> QED BY <3>1
  <2>2. next \in [1 .. k -> Nat]
    BY <2>1
  <2>3. next[k] = a /\ k \in 1 .. k
    OBVIOUS
  <2>4. ASSUME NEW i \in 1 .. k - 1 PROVE next[i] = start[i] /\ start[i] \in Nat
    <3>1. i \in 1 .. k /\ i # k
      OBVIOUS
    <3> QED BY <3>1
  <2> HIDE DEF next
  <2> QED BY <2>2, <2>3, <2>4
<1>6. ASSUME NEW i \in 1 .. k, NEW m \in 1 .. Len(f[i])
      PROVE  next[i] + m \in 1 .. Len(w) /\ w[next[i] + m] = f[i][m]
  <2> HIDE DEF next
  <2>1. CASE i = k
    <3>1. m \in 1 .. b
      BY <1>3, <1>6, <2>1
    <3>2. a + m \in 1 .. a + b /\ w[a + m] = v[m]
      BY <1>4, <3>1
    <3> QED BY <1>4, <1>5, <2>1, <3>2
  <2>2. CASE i \in 1 .. k - 1
    <3>1. start[i] + m \in 1 .. a /\ u[start[i] + m] = f[i][m]
      BY <1>2, <1>6, <2>2 DEF Places1
    <3> QED BY <1>4, <1>5, <2>2, <3>1
  <2> QED BY <2>1, <2>2
<1>7. ASSUME NEW j \in 1 .. Len(w) PROVE \E i \in 1 .. k : j - next[i] \in 1 .. Len(f[i])
  <2> HIDE DEF next
  <2>1. CASE j \in 1 .. a
    <3>1. PICK i \in 1 .. k - 1 : j - start[i] \in 1 .. Len(f[i])
      BY <1>2, <2>1 DEF Places1
    <3> QED BY <1>5, <3>1
  <2>2. CASE j > a
    <3>1. j - a \in 1 .. b
      BY <1>4, <2>2
    <3> QED BY <1>3, <1>5, <3>1
  <2> QED BY <1>4, <2>1, <2>2
<1>8. Places1(f, k, w, next)
  <2> HIDE DEF next
  <2> QED BY <1>6, <1>7 DEF Places1
<1> HIDE DEF next
<1> QED BY <1>1, <1>5, <1>8

LEMMA FlatPlaces ==
  ASSUME NEW n \in Nat \ {0}, NEW S, NEW f \in [1 .. n -> Seq(S)]
  PROVE  /\ FlattenSeq(f) \in Seq(S)
         /\ \E start \in [1 .. n -> Nat] : Places1(f, n, FlattenSeq(f), start)
<1>1. PICK g : /\ g = [i \in 1 .. n |-> IF i = 1 THEN f[i] ELSE g[i - 1] \o f[i]]
               /\ FlattenSeq(f) = g[n]
  BY FlatLoop
<1>a. g[1] = f[1] /\ \A i \in 2 .. n : g[i] = g[i - 1] \o f[i]
  <2>1. ASSUME NEW i \in 1 .. n PROVE g[i] = IF i = 1 THEN f[i] ELSE g[i - 1] \o f[i]
    BY <1>1
  <2>2. 1 \in 1 .. n /\ \A i \in 2 .. n : i \in 1 .. n /\ i # 1
    OBVIOUS
  <2> QED BY <2>1, <2>2
<1> DEFINE Good(k) == g[k] \in Seq(S) /\ \E start \in [1 .. k -> Nat] : Places1(f, k, g[k], start)
           Bad == {k \in 1 .. n : ~Good(k)}
<1>2. Good(1)
  <2>1. Places1(f, 1, g[1], [i \in 1 .. 1 |-> 0])
    BY <1>a DEF Places1
  <2> QED BY <1>a, <2>1
<1>3. ASSUME NEW k \in 2 .. n, Good(k - 1) PROVE Good(k)
  <2>1. PICK start \in [1 .. k - 1 -> Nat] : Places1(f, k - 1, g[k - 1], start)
    BY <1>3
  <2>2. g[k - 1] \in Seq(S) /\ f[k] \in Seq(S) /\ g[k] = g[k - 1] \o f[k]
    <3>1. k \in 1 .. n
      OBVIOUS
    <3>2. g[k] = g[k - 1] \o f[k]
      BY <1>a
    <3> QED BY <1>3, <3>1, <3>2
  <2>3. \E next \in [1 .. k -> Nat] : Places1(f, k, g[k - 1] \o f[k], next)
    <3>1. k \in Nat /\ k >= 2
      OBVIOUS
    <3> QED BY <2>1, <2>2, <3>1, PlacesAppend, Zenon
  <2>4. g[k - 1] \o f[k] \in Seq(S)
    BY <2>2
  <2> QED BY <2>2, <2>3, <2>4
<1> HIDE DEF Good
<1>4. Bad = {}
  <2> SUFFICES ASSUME Bad # {} PROVE FALSE
    OBVIOUS
  <2>1. PICK m \in Bad : \A x \in Bad : m <= x
    <3>1. Bad \in SUBSET Nat
      OBVIOUS
    <3> QED BY <3>1, Smallest
  <2>2. m # 1 /\ m \in 2 .. n
    BY <1>2
  <2>3. Good(m - 1)
    BY <2>1, <2>2
  <2> QED BY <1>3, <2>2, <2>3
<1>5. Good(n)
  BY <1>4
<1> QED BY <1>5, <1>1 DEF Good

-----------------------------------------------------------------------------
(* What the steps of a function, and those they lead to, may do.            *)

IsSeq(q) == \E S : q \in Seq(S)

\* They are of the kinds dos and not among bad.
Obeys(q, dos, bad) ==
  \E S : q \in Seq(S) /\ \A s \in S : s.alt \in Seq(S) /\ s.do \in dos /\ <<s.do, s.r>> \notin bad

LEMMA ObeysHead ==
  ASSUME NEW q, NEW dos, NEW bad, Obeys(q, dos, bad), q # <<>>
  PROVE  /\ Head(q).do \in dos /\ <<Head(q).do, Head(q).r>> \notin bad
         /\ Obeys(Head(q).alt, dos, bad) /\ Obeys(Tail(q), dos, bad)
         /\ Obeys(<<Head(q)>>, dos, bad)
<1>1. PICK S : q \in Seq(S) /\ \A s \in S : s.alt \in Seq(S) /\ s.do \in dos /\ <<s.do, s.r>> \notin bad
  BY DEF Obeys
<1>2. Head(q) \in S /\ Tail(q) \in Seq(S) /\ <<Head(q)>> \in Seq(S)
  BY <1>1
<1> QED BY <1>1, <1>2 DEF Obeys

LEMMA ObeysBoth ==
  ASSUME NEW p, NEW q, NEW dos, NEW bad, Obeys(p, dos, bad), Obeys(q, dos, bad)
  PROVE  Obeys(p \o q, dos, bad)
<1>1. PICK S : p \in Seq(S) /\ \A s \in S : s.alt \in Seq(S) /\ s.do \in dos /\ <<s.do, s.r>> \notin bad
  BY DEF Obeys
<1>2. PICK T : q \in Seq(T) /\ \A s \in T : s.alt \in Seq(T) /\ s.do \in dos /\ <<s.do, s.r>> \notin bad
  BY DEF Obeys
<1>3. ASSUME NEW x, x \in Seq(S) \/ x \in Seq(T) PROVE x \in Seq(S \cup T)
  BY <1>3
<1>4. p \o q \in Seq(S \cup T)
  BY <1>1, <1>2, <1>3
<1>5. \A s \in S \cup T : s.alt \in Seq(S \cup T) /\ s.do \in dos /\ <<s.do, s.r>> \notin bad
  BY <1>1, <1>2, <1>3
<1> QED BY <1>4, <1>5 DEF Obeys

\* A sequence whose steps are fit and lead to what is fit.
LEMMA ObeysList ==
  ASSUME NEW T, NEW q \in Seq(T), NEW dos, NEW bad,
         \A t \in T : Obeys(t.alt, dos, bad) /\ t.do \in dos /\ <<t.do, t.r>> \notin bad
  PROVE  Obeys(q, dos, bad)
<1> DEFINE Fits(t, S) == t.alt \in Seq(S) /\ \A s \in S : s.alt \in Seq(S) /\ s.do \in dos /\ <<s.do, s.r>> \notin bad
           g == [t \in T |-> CHOOSE S : Fits(t, S)]
           U == T \cup UNION {g[t] : t \in T}
<1>1. ASSUME NEW t \in T PROVE Fits(t, g[t])
  <2>1. \E S : Fits(t, S)
    BY DEF Obeys
  <2>2. Fits(t, CHOOSE S : Fits(t, S))
    <3> HIDE DEF Fits
    <3> QED BY <2>1, Zenon
  <2> QED BY <2>2
<1>2. ASSUME NEW t \in T PROVE g[t] \subseteq U
  <2> HIDE DEF g
  <2> QED OBVIOUS
<1>3. T \subseteq U
  OBVIOUS
<1>4. ASSUME NEW u \in U PROVE u \in T \/ \E t \in T : u \in g[t]
  <2> HIDE DEF g
  <2> QED OBVIOUS
<1> HIDE DEF U, g
<1>5. \A A, x : A \subseteq U /\ x \in Seq(A) => x \in Seq(U)
  OBVIOUS
<1>6. ASSUME NEW s \in U PROVE s.alt \in Seq(U) /\ s.do \in dos /\ <<s.do, s.r>> \notin bad
  <2>1. CASE s \in T
    BY <1>1, <1>2, <1>5, <2>1
  <2>2. ASSUME NEW t \in T, s \in g[t] PROVE s.alt \in Seq(U) /\ s.do \in dos /\ <<s.do, s.r>> \notin bad
    BY <1>1, <1>2, <1>5, <2>2
  <2> QED BY <1>4, <2>1, <2>2
<1>7. q \in Seq(U)
  BY <1>3, <1>5
<1> QED BY <1>6, <1>7 DEF Obeys

LEMMA ObeysFlat ==
  ASSUME NEW n \in Nat \ {0}, NEW f, f = [i \in 1 .. n |-> f[i]], NEW dos, NEW bad,
         \A i \in 1 .. n : Obeys(f[i], dos, bad)
  PROVE  Obeys(FlattenSeq(f), dos, bad)
<1> DEFINE Fits(i, S) == f[i] \in Seq(S) /\ \A s \in S : s.alt \in Seq(S) /\ s.do \in dos /\ <<s.do, s.r>> \notin bad
           g == [i \in 1 .. n |-> CHOOSE S : Fits(i, S)]
           U == UNION {g[i] : i \in 1 .. n}
<1>1. ASSUME NEW i \in 1 .. n PROVE Fits(i, g[i])
  <2>1. \E S : Fits(i, S)
    BY DEF Obeys
  <2>2. Fits(i, CHOOSE S : Fits(i, S))
    <3> HIDE DEF Fits
    <3> QED BY <2>1, Zenon
  <2> QED BY <2>2
<1>2. ASSUME NEW i \in 1 .. n PROVE g[i] \subseteq U
  <2> HIDE DEF g
  <2> QED OBVIOUS
<1>3. ASSUME NEW u \in U PROVE \E i \in 1 .. n : u \in g[i]
  <2> HIDE DEF g
  <2> QED OBVIOUS
<1> HIDE DEF U, g
<1>4. \A A, x : A \subseteq U /\ x \in Seq(A) => x \in Seq(U)
  OBVIOUS
<1>5. ASSUME NEW s \in U PROVE s.alt \in Seq(U) /\ s.do \in dos /\ <<s.do, s.r>> \notin bad
  <2>1. PICK i \in 1 .. n : s \in g[i]
    BY <1>3
  <2> QED BY <1>1, <1>2, <1>4, <2>1
<1>6. f \in [1 .. n -> Seq(U)]
  <2>1. \A i \in 1 .. n : f[i] \in Seq(U)
    BY <1>1, <1>2, <1>4
  <2> QED BY <2>1
<1>7. FlattenSeq(f) \in Seq(U)
  BY <1>6, FlatPlaces
<1> QED BY <1>5, <1>7 DEF Obeys

LEMMA ObeysWeaker ==
  ASSUME NEW q, NEW dos, NEW bad, Obeys(q, dos, bad), NEW more, dos \subseteq more, NEW less, less \subseteq bad
  PROVE  Obeys(q, more, less)
<1>1. PICK S : q \in Seq(S) /\ \A s \in S : s.alt \in Seq(S) /\ s.do \in dos /\ <<s.do, s.r>> \notin bad
  BY DEF Obeys
<1> QED BY <1>1 DEF Obeys

-----------------------------------------------------------------------------
(* What a function gives back only after something else.                    *)

Calm == {"use", "put", "clear", "when", "fail"}
Losing(C) == {"put", "clear"} \X C
Keeps(s, C) == Obeys(<<s>>, Calm, Losing(C))
Guards(a) == {Drop(a), Put(a)}

\* A step that may lose one of C comes behind one that gives back a.
Guarded(q, a, C) ==
  \A j \in 1 .. Len(q) : Keeps(q[j], C) \/ \E i \in 1 .. j - 1 : q[i] \in Guards(a)

LEMMA ObeysEach ==
  ASSUME NEW q, NEW dos, NEW bad, Obeys(q, dos, bad)
  PROVE  /\ IsSeq(q) /\ Len(q) \in Nat
         /\ \A j \in 1 .. Len(q) : Obeys(<<q[j]>>, dos, bad)
<1>1. PICK S : q \in Seq(S) /\ \A s \in S : s.alt \in Seq(S) /\ s.do \in dos /\ <<s.do, s.r>> \notin bad
  BY DEF Obeys
<1>2. ASSUME NEW j \in 1 .. Len(q) PROVE Obeys(<<q[j]>>, dos, bad)
  <2>1. <<q[j]>> \in Seq(S)
    BY <1>1
  <2> QED BY <1>1, <2>1 DEF Obeys
<1> QED BY <1>1, <1>2 DEF IsSeq

LEMMA GuardedKeeps ==
  ASSUME NEW q, NEW a, NEW C, Obeys(q, Calm, Losing(C))
  PROVE  Guarded(q, a, C)
BY ObeysEach DEF Guarded, Keeps

\* Where the parts of two sequences lie in both together.
LEMMA BothPlaces ==
  ASSUME NEW p, NEW q, IsSeq(p), IsSeq(q)
  PROVE  /\ IsSeq(p \o q)
         /\ Len(p) \in Nat /\ Len(q) \in Nat /\ Len(p \o q) = Len(p) + Len(q)
         /\ \A j \in 1 .. Len(p) : (p \o q)[j] = p[j]
         /\ \A j \in 1 .. Len(q) : (p \o q)[Len(p) + j] = q[j]
<1>1. PICK S : p \in Seq(S)
  BY DEF IsSeq
<1>2. PICK T : q \in Seq(T)
  BY DEF IsSeq
<1>3. p \in Seq(S \cup T) /\ q \in Seq(S \cup T)
  BY <1>1, <1>2
<1>4. p \o q \in Seq(S \cup T)
  BY <1>3
<1> QED BY <1>3, <1>4 DEF IsSeq

Spread(f, n, w) ==
  \E start \in [1 .. n -> Nat] :
    /\ Places1(f, n, w, start)
    /\ \A k \in 1 .. Len(w) : \E i \in 1 .. n : \E m \in 1 .. Len(f[i]) : k = start[i] + m /\ w[k] = f[i][m]

LEMMA PartPlaces ==
  ASSUME NEW n \in Nat \ {0}, NEW f, f = [i \in 1 .. n |-> f[i]], \A i \in 1 .. n : IsSeq(f[i])
  PROVE  /\ IsSeq(FlattenSeq(f)) /\ Len(FlattenSeq(f)) \in Nat /\ \A i \in 1 .. n : Len(f[i]) \in Nat
         /\ Spread(f, n, FlattenSeq(f))
<1> DEFINE Fits(i, S) == f[i] \in Seq(S)
           g == [i \in 1 .. n |-> CHOOSE S : Fits(i, S)]
           U == UNION {g[i] : i \in 1 .. n}
<1>1. ASSUME NEW i \in 1 .. n PROVE f[i] \in Seq(g[i])
  <2>1. \E S : Fits(i, S)
    BY DEF IsSeq
  <2>2. Fits(i, CHOOSE S : Fits(i, S))
    <3> HIDE DEF Fits
    <3> QED BY <2>1, Zenon
  <2> QED BY <2>2
<1>2. ASSUME NEW i \in 1 .. n PROVE g[i] \subseteq U
  <2> HIDE DEF g
  <2> QED OBVIOUS
<1> HIDE DEF U, g
<1>3. ASSUME NEW i \in 1 .. n PROVE f[i] \in Seq(U) /\ Len(f[i]) \in Nat
  BY <1>1, <1>2
<1>4. f \in [1 .. n -> Seq(U)]
  BY <1>3
<1>5. PICK w : w = FlattenSeq(f)
  OBVIOUS
<1>6. w \in Seq(U) /\ \E start \in [1 .. n -> Nat] : Places1(f, n, w, start)
  BY <1>4, <1>5, FlatPlaces
<1>7. PICK start \in [1 .. n -> Nat] : Places1(f, n, w, start)
  BY <1>6
<1>8. ASSUME NEW k \in 1 .. Len(w)
      PROVE  \E i \in 1 .. n : \E m \in 1 .. Len(f[i]) : k = start[i] + m /\ w[k] = f[i][m]
  <2>1. PICK i \in 1 .. n : k - start[i] \in 1 .. Len(f[i])
    BY <1>7 DEF Places1
  <2>2. PICK b \in Nat : b = start[i]
    OBVIOUS
  <2>3. PICK m \in 1 .. Len(f[i]) : k = b + m
    <3>1. k \in Nat
      BY <1>8
    <3>2. k = b + (k - b) /\ k - b \in 1 .. Len(f[i])
      BY <2>1, <2>2, <3>1
    <3> QED BY <3>2
  <2> QED BY <1>7, <2>2, <2>3 DEF Places1
<1>9. IsSeq(w) /\ Len(w) \in Nat
  BY <1>6 DEF IsSeq
<1>10. Spread(f, n, w)
  BY <1>7, <1>8 DEF Spread
<1> QED BY <1>3, <1>5, <1>9, <1>10

LEMMA GuardedBoth ==
  ASSUME NEW p, NEW q, NEW a, NEW C, Obeys(p, Calm, {}), Obeys(q, Calm, {}), Guarded(p, a, C),
         Guarded(q, a, C) \/ \E i \in 1 .. Len(p) : p[i] \in Guards(a)
  PROVE  Guarded(p \o q, a, C)
<1>1. PICK w : w = p \o q
  OBVIOUS
<1>2. PICK m : m = Len(p)
  OBVIOUS
<1>3. PICK n : n = Len(q)
  OBVIOUS
<1>4. /\ m \in Nat /\ n \in Nat /\ Len(w) = m + n
      /\ \A j \in 1 .. m : w[j] = p[j]
      /\ \A j \in 1 .. n : w[m + j] = q[j]
  BY <1>1, <1>2, <1>3, ObeysEach, BothPlaces
<1>5. ASSUME NEW j \in 1 .. Len(w) PROVE Keeps(w[j], C) \/ \E i \in 1 .. j - 1 : w[i] \in Guards(a)
  <2>1. CASE j \in 1 .. m
    <3>1. Keeps(p[j], C) \/ \E i \in 1 .. j - 1 : p[i] \in Guards(a)
      BY <1>2, <2>1 DEF Guarded
    <3>2. \A i \in 1 .. j - 1 : w[i] = p[i]
      BY <1>4, <2>1
    <3> QED BY <1>4, <2>1, <3>1, <3>2
  <2>2. CASE j > m
    <3>1. PICK k \in 1 .. n : j = m + k
      <4>1. j - m \in 1 .. n /\ j = m + (j - m)
        BY <1>4, <2>2
      <4> QED BY <4>1
    <3>2. CASE \E i \in 1 .. Len(p) : p[i] \in Guards(a)
      <4>1. PICK i \in 1 .. m : p[i] \in Guards(a)
        BY <1>2, <3>2
      <4>2. i \in 1 .. j - 1 /\ w[i] = p[i]
        BY <1>4, <2>2
      <4> QED BY <4>1, <4>2
    <3>3. CASE Guarded(q, a, C)
      <4>1. Keeps(q[k], C) \/ \E i \in 1 .. k - 1 : q[i] \in Guards(a)
        BY <1>3, <3>3 DEF Guarded
      <4>2. w[j] = q[k]
        BY <1>4, <3>1
      <4>3. ASSUME NEW i \in 1 .. k - 1, q[i] \in Guards(a) PROVE \E h \in 1 .. j - 1 : w[h] \in Guards(a)
        <5>1. m + i \in 1 .. j - 1 /\ i \in 1 .. n
          BY <1>4, <3>1
        <5>2. w[m + i] = q[i]
          BY <1>4, <5>1
        <5> QED BY <4>3, <5>1, <5>2
      <4> QED BY <4>1, <4>2, <4>3
    <3> QED BY <3>2, <3>3
  <2> QED BY <1>4, <2>1, <2>2
<1>6. Guarded(w, a, C)
  BY <1>5 DEF Guarded
<1> QED BY <1>1, <1>6

LEMMA GuardedFlat ==
  ASSUME NEW n \in Nat \ {0}, NEW f, f = [i \in 1 .. n |-> f[i]], NEW a, NEW C,
         \A i \in 1 .. n : Obeys(f[i], Calm, {}) /\ Guarded(f[i], a, C)
  PROVE  Guarded(FlattenSeq(f), a, C)
<1>1. PICK w : w = FlattenSeq(f)
  OBVIOUS
<1>2. Spread(f, n, w) /\ \A i \in 1 .. n : Len(f[i]) \in Nat
  <2>1. \A i \in 1 .. n : IsSeq(f[i])
    BY ObeysEach
  <2> QED BY <1>1, <2>1, PartPlaces
<1>3. PICK start \in [1 .. n -> Nat] :
        /\ Places1(f, n, w, start)
        /\ \A k \in 1 .. Len(w) : \E i \in 1 .. n : \E m \in 1 .. Len(f[i]) : k = start[i] + m /\ w[k] = f[i][m]
  BY <1>2 DEF Spread
<1>4. ASSUME NEW k \in 1 .. Len(w) PROVE Keeps(w[k], C) \/ \E h \in 1 .. k - 1 : w[h] \in Guards(a)
  <2>1. PICK i \in 1 .. n : \E m \in 1 .. Len(f[i]) : k = start[i] + m /\ w[k] = f[i][m]
    BY <1>3
  <2>2. PICK b \in Nat : b = start[i]
    OBVIOUS
  <2>3. Len(f[i]) \in Nat
    BY <1>2
  <2>4. PICK m \in 1 .. Len(f[i]) : k = b + m /\ w[k] = f[i][m]
    BY <2>1, <2>2
  <2>5. w[k] = f[i][m]
    BY <2>4
  <2>6. Keeps(f[i][m], C) \/ \E h \in 1 .. m - 1 : f[i][h] \in Guards(a)
    BY DEF Guarded
  <2>7. ASSUME NEW h \in 1 .. m - 1, f[i][h] \in Guards(a) PROVE \E x \in 1 .. k - 1 : w[x] \in Guards(a)
    <3>1. h \in 1 .. Len(f[i]) /\ b + h <= k - 1
      BY <1>4, <2>3, <2>4
    <3>2. b + h \in 1 .. Len(w) /\ w[b + h] = f[i][h]
      BY <1>3, <2>2, <3>1 DEF Places1
    <3>3. b + h \in 1 .. k - 1
      BY <3>1, <3>2
    <3> QED BY <2>7, <3>2, <3>3
  <2> QED BY <2>5, <2>6, <2>7
<1>5. Guarded(w, a, C)
  BY <1>4 DEF Guarded
<1> QED BY <1>1, <1>5
LEMMA GuardedStep ==
  ASSUME NEW q, NEW a, NEW C, a \notin C, Obeys(q, Calm, {}), q # <<>>, Guarded(q, a, C)
  PROVE  /\ Keeps(Head(q), C)
         /\ Head(q) # Put(a) => Guarded(Head(q).alt \o Tail(q), a, C)
         /\ Head(q) \notin Guards(a) => Guarded(<<>> \o Tail(q), a, C)
<1>1. PICK S : q \in Seq(S)
  BY DEF Obeys
<1>2. /\ Head(q) = q[1] /\ Len(q) \in Nat \ {0} /\ Len(Tail(q)) = Len(q) - 1
      /\ \A j \in 1 .. Len(Tail(q)) : Tail(q)[j] = q[j + 1]
      /\ <<>> \o Tail(q) = Tail(q)
  BY <1>1
<1>3. Keeps(Head(q), C)
  BY <1>2 DEF Guarded
<1>4. Obeys(Head(q).alt, Calm, {}) /\ Obeys(Tail(q), Calm, {})
  BY ObeysHead
<1>5. ASSUME Head(q) \notin Guards(a) PROVE Guarded(Tail(q), a, C)
  <2>1. PICK n : n = Len(q)
    OBVIOUS
  <2>2. PICK t : t = Tail(q)
    OBVIOUS
  <2>3. n \in Nat \ {0} /\ Len(t) = n - 1 /\ \A j \in 1 .. n - 1 : t[j] = q[j + 1]
    BY <1>2, <2>1, <2>2
  <2>4. ASSUME NEW j \in 1 .. n - 1 PROVE Keeps(t[j], C) \/ \E i \in 1 .. j - 1 : t[i] \in Guards(a)
    <3>1. j + 1 \in 1 .. n /\ t[j] = q[j + 1]
      BY <2>3
    <3>2. Keeps(q[j + 1], C) \/ \E i \in 1 .. j : q[i] \in Guards(a)
      BY <2>1, <3>1 DEF Guarded
    <3>3. ASSUME NEW i \in 1 .. j, q[i] \in Guards(a) PROVE \E h \in 1 .. j - 1 : t[h] \in Guards(a)
      <4>1. i # 1
        BY <1>2, <1>5, <3>3
      <4>2. i - 1 \in 1 .. j - 1 /\ i - 1 \in 1 .. n - 1 /\ (i - 1) + 1 = i
        BY <2>3, <4>1
      <4>3. t[i - 1] = q[i]
        BY <2>3, <4>2
      <4> QED BY <3>3, <4>2, <4>3
    <3> QED BY <3>1, <3>2, <3>3
  <2> QED BY <2>2, <2>3, <2>4 DEF Guarded
<1>6. Guarded(Head(q).alt, a, C)
  <2>1. Obeys(<<Head(q)>>, Calm, Losing(C)) /\ <<Head(q)>> # <<>> /\ Head(<<Head(q)>>) = Head(q)
    BY <1>3 DEF Keeps
  <2>2. Obeys(Head(q).alt, Calm, Losing(C))
    <3>1. PICK r : r = <<Head(q)>>
      OBVIOUS
    <3> QED BY <2>1, <3>1, ObeysHead
  <2> QED BY <2>2, GuardedKeeps
<1>7. ASSUME Head(q) = Drop(a) PROVE Guarded(Head(q).alt \o Tail(q), a, C)
  <2>1. Head(q).alt = <<Put(a)>>
    BY <1>7 DEF Drop, When, Step
  <2>2. <<Put(a)>>[1] \in Guards(a) /\ 1 \in 1 .. Len(<<Put(a)>>)
    BY DEF Guards
  <2> QED BY <1>4, <1>6, <2>1, <2>2, GuardedBoth
<1>8. ASSUME Head(q) \notin Guards(a) PROVE Guarded(Head(q).alt \o Tail(q), a, C)
  BY <1>4, <1>5, <1>6, <1>8, GuardedBoth
<1> QED BY <1>2, <1>3, <1>5, <1>7, <1>8 DEF Guards

Has(q, a) == \E i \in 1 .. Len(q) : q[i] \in Guards(a)

LEMMA HasBoth ==
  ASSUME NEW p, NEW q, NEW a, IsSeq(p), IsSeq(q), Has(p, a) \/ Has(q, a)
  PROVE  Has(p \o q, a)
<1>1. PICK w : w = p \o q
  OBVIOUS
<1>2. PICK m : m = Len(p)
  OBVIOUS
<1>3. PICK n : n = Len(q)
  OBVIOUS
<1>4. /\ m \in Nat /\ n \in Nat /\ Len(w) = m + n
      /\ \A j \in 1 .. m : w[j] = p[j]
      /\ \A j \in 1 .. n : w[m + j] = q[j]
  BY <1>1, <1>2, <1>3, BothPlaces
<1>5. ASSUME NEW i \in 1 .. m, p[i] \in Guards(a) PROVE Has(w, a)
  BY <1>4, <1>5 DEF Has
<1>6. ASSUME NEW i \in 1 .. n, q[i] \in Guards(a) PROVE Has(w, a)
  <2>1. m + i \in 1 .. Len(w) /\ w[m + i] = q[i]
    BY <1>4
  <2> QED BY <1>6, <2>1 DEF Has
<1> QED BY <1>1, <1>2, <1>3, <1>5, <1>6 DEF Has

LEMMA HasFlat ==
  ASSUME NEW n \in Nat \ {0}, NEW f, f = [i \in 1 .. n |-> f[i]], \A i \in 1 .. n : IsSeq(f[i]),
         NEW a, NEW k \in 1 .. n, Has(f[k], a)
  PROVE  Has(FlattenSeq(f), a)
<1>1. PICK w : w = FlattenSeq(f)
  OBVIOUS
<1>2. PICK start \in [1 .. n -> Nat] : Places1(f, n, w, start)
  BY <1>1, PartPlaces DEF Spread
<1>3. PICK m \in 1 .. Len(f[k]) : f[k][m] \in Guards(a)
  BY DEF Has
<1> QED BY <1>1, <1>2, <1>3 DEF Places1, Has

-----------------------------------------------------------------------------
(* The way of a probe.                                                      *)

\* The last step of a function that gives up: the probe fails, or a NULL
\* pointer is used.
Ends == {Fail, Use(Null)}

\* A way back, on which nothing of C goes before the interrupt handler.
Abort(q, C) ==
  /\ Obeys(q, Calm, Losing({Null})) /\ q # <<>> /\ q[Len(q)] \in Ends
  /\ Guarded(q, Board("irq"), C)

\* What no driver takes by itself, and what no probe gives back on its way.
Barred == Engines \cup {Null}
Pages == {"ts page 1", "ts page 2", "desc page 1", "desc page 2"} \X (1 .. Units)
Buffers == {"sBuf"} \X (1 .. Units)
Dear == {Null, Board("bar"), Board("dma")} \cup Buffers \cup Pages

\* A step of a probe that has not failed; it takes the interrupt only when it
\* can fail.
MainStep(s, C) ==
  \/ s.do \in {"get", "must", "need"} /\ s.r \notin Barred /\ Abort(s.alt, C)
  \/ s.do = "set" /\ s.r \notin Barred \cup {Board("irq")}
  \/ s.do = "try" /\ s.r \notin Barred \cup {Board("irq")} /\ (s.alt = <<>> \/ \E r : s.alt = <<Use(r)>>)
  \/ s.do = "use"
  \/ s.do = "put" /\ s.r \notin Dear

Main(q, C) == IsSeq(q) /\ \A j \in 1 .. Len(q) : MainStep(q[j], C)

\* q does not take x, and takes c, and not x before it.
Spares(q, x) == \A j \in 1 .. Len(q) : q[j].do # "get" \/ q[j].r # x
Early(q, c, x) ==
  \E j \in 1 .. Len(q) : /\ q[j].do = "get" /\ q[j].r = c
                         /\ \A i \in 1 .. j - 1 : q[i].do # "get" \/ q[i].r # x

LEMMA MainBoth ==
  ASSUME NEW p, NEW q, NEW C, Main(p, C), Main(q, C)
  PROVE  Main(p \o q, C)
<1>1. PICK w : w = p \o q
  OBVIOUS
<1>2. PICK m : m = Len(p)
  OBVIOUS
<1>3. PICK n : n = Len(q)
  OBVIOUS
<1>4. /\ IsSeq(w) /\ m \in Nat /\ n \in Nat /\ Len(w) = m + n
      /\ \A j \in 1 .. m : w[j] = p[j]
      /\ \A j \in 1 .. n : w[m + j] = q[j]
  BY <1>1, <1>2, <1>3, BothPlaces DEF Main
<1>5. ASSUME NEW j \in 1 .. Len(w) PROVE MainStep(w[j], C)
  <2>1. CASE j \in 1 .. m
    BY <1>2, <1>4, <2>1 DEF Main
  <2>2. CASE j > m
    <3>1. PICK i \in 1 .. n : j = m + i
      <4>1. j - m \in 1 .. n /\ j = m + (j - m)
        BY <1>4, <2>2
      <4> QED BY <4>1
    <3> QED BY <1>3, <1>4, <3>1 DEF Main
  <2> QED BY <1>4, <2>1, <2>2
<1>6. Main(w, C)
  BY <1>4, <1>5 DEF Main
<1> QED BY <1>1, <1>6

LEMMA MainFlat ==
  ASSUME NEW n \in Nat \ {0}, NEW f, f = [i \in 1 .. n |-> f[i]], NEW C, \A i \in 1 .. n : Main(f[i], C)
  PROVE  Main(FlattenSeq(f), C)
<1>1. PICK w : w = FlattenSeq(f)
  OBVIOUS
<1>2. \A i \in 1 .. n : IsSeq(f[i])
  BY DEF Main
<1>3. IsSeq(w) /\ Spread(f, n, w)
  BY <1>1, <1>2, PartPlaces
<1>4. ASSUME NEW k \in 1 .. Len(w) PROVE MainStep(w[k], C)
  <2>1. PICK i \in 1 .. n : \E m \in 1 .. Len(f[i]) : w[k] = f[i][m]
    BY <1>3 DEF Spread
  <2> QED BY <2>1 DEF Main
<1>5. Main(w, C)
  BY <1>3, <1>4 DEF Main
<1> QED BY <1>1, <1>5

LEMMA MainList ==
  ASSUME NEW T, NEW q \in Seq(T), NEW C, \A s \in T : MainStep(s, C)
  PROVE  Main(q, C)
<1>1. \A j \in 1 .. Len(q) : q[j] \in T
  OBVIOUS
<1> QED BY <1>1 DEF Main, IsSeq

LEMMA SparesBoth ==
  ASSUME NEW p, NEW q, IsSeq(p), IsSeq(q), NEW x, Spares(p, x), Spares(q, x)
  PROVE  Spares(p \o q, x)
<1>1. PICK w : w = p \o q
  OBVIOUS
<1>2. PICK m : m = Len(p)
  OBVIOUS
<1>3. PICK n : n = Len(q)
  OBVIOUS
<1>4. /\ m \in Nat /\ n \in Nat /\ Len(w) = m + n
      /\ \A j \in 1 .. m : w[j] = p[j]
      /\ \A j \in 1 .. n : w[m + j] = q[j]
  BY <1>1, <1>2, <1>3, BothPlaces
<1>5. ASSUME NEW j \in 1 .. Len(w) PROVE w[j].do # "get" \/ w[j].r # x
  <2>1. CASE j \in 1 .. m
    BY <1>2, <1>4, <2>1 DEF Spares
  <2>2. CASE j > m
    <3>1. PICK i \in 1 .. n : j = m + i
      <4>1. j - m \in 1 .. n /\ j = m + (j - m)
        BY <1>4, <2>2
      <4> QED BY <4>1
    <3> QED BY <1>3, <1>4, <3>1 DEF Spares
  <2> QED BY <1>4, <2>1, <2>2
<1>6. Spares(w, x)
  BY <1>5 DEF Spares
<1> QED BY <1>1, <1>6

LEMMA SparesFlat ==
  ASSUME NEW n \in Nat \ {0}, NEW f, f = [i \in 1 .. n |-> f[i]], \A i \in 1 .. n : IsSeq(f[i]),
         NEW x, \A i \in 1 .. n : Spares(f[i], x)
  PROVE  Spares(FlattenSeq(f), x)
<1>1. PICK w : w = FlattenSeq(f)
  OBVIOUS
<1>2. Spread(f, n, w)
  BY <1>1, PartPlaces
<1>3. ASSUME NEW k \in 1 .. Len(w) PROVE w[k].do # "get" \/ w[k].r # x
  <2>1. PICK i \in 1 .. n : \E m \in 1 .. Len(f[i]) : w[k] = f[i][m]
    BY <1>2 DEF Spread
  <2> QED BY <2>1 DEF Spares
<1>4. Spares(w, x)
  BY <1>3 DEF Spares
<1> QED BY <1>1, <1>4

LEMMA EarlyBoth ==
  ASSUME NEW p, NEW q, IsSeq(p), IsSeq(q), NEW c, NEW x, Early(p, c, x) \/ (Spares(p, x) /\ Early(q, c, x))
  PROVE  Early(p \o q, c, x)
<1>1. PICK w : w = p \o q
  OBVIOUS
<1>2. PICK m : m = Len(p)
  OBVIOUS
<1>3. PICK n : n = Len(q)
  OBVIOUS
<1>4. /\ m \in Nat /\ n \in Nat /\ Len(w) = m + n
      /\ \A j \in 1 .. m : w[j] = p[j]
      /\ \A j \in 1 .. n : w[m + j] = q[j]
  BY <1>1, <1>2, <1>3, BothPlaces
<1>5. CASE Early(p, c, x)
  <2>1. PICK j \in 1 .. m : /\ p[j].do = "get" /\ p[j].r = c
                            /\ \A i \in 1 .. j - 1 : p[i].do # "get" \/ p[i].r # x
    BY <1>2, <1>5 DEF Early
  <2>2. j \in 1 .. Len(w) /\ w[j] = p[j] /\ \A i \in 1 .. j - 1 : w[i] = p[i]
    BY <1>4
  <2>3. Early(w, c, x)
    BY <2>1, <2>2 DEF Early
  <2> QED BY <1>1, <2>3
<1>6. CASE Spares(p, x) /\ Early(q, c, x)
  <2>1. PICK j \in 1 .. n : /\ q[j].do = "get" /\ q[j].r = c
                            /\ \A i \in 1 .. j - 1 : q[i].do # "get" \/ q[i].r # x
    BY <1>3, <1>6 DEF Early
  <2>2. m + j \in 1 .. Len(w) /\ w[m + j] = q[j]
    BY <1>4
  <2>3. ASSUME NEW i \in 1 .. m + j - 1 PROVE w[i].do # "get" \/ w[i].r # x
    <3>1. CASE i \in 1 .. m
      BY <1>2, <1>4, <1>6, <3>1 DEF Spares
    <3>2. CASE i > m
      <4>1. PICK k \in 1 .. j - 1 : i = m + k
        <5>1. i - m \in 1 .. j - 1 /\ i = m + (i - m)
          BY <1>4, <3>2
        <5> QED BY <5>1
      <4>2. k \in 1 .. n
        BY <1>4
      <4> QED BY <1>4, <2>1, <4>1, <4>2
    <3> QED BY <1>4, <3>1, <3>2
  <2>4. PICK k : k = m + j
    OBVIOUS
  <2>5. k \in 1 .. Len(w) /\ w[k].do = "get" /\ w[k].r = c
    BY <2>1, <2>2, <2>4
  <2>7. \A i \in 1 .. k - 1 : w[i].do # "get" \/ w[i].r # x
    BY <1>4, <2>3, <2>4
  <2>6. Early(w, c, x)
    BY <2>5, <2>7 DEF Early
  <2> QED BY <1>1, <2>6
<1> QED BY <1>5, <1>6

LEMMA EarlyFlat ==
  ASSUME NEW n \in Nat \ {0}, NEW f, f = [i \in 1 .. n |-> f[i]], \A i \in 1 .. n : IsSeq(f[i]),
         NEW c, NEW x, NEW k \in 1 .. n, Early(f[k], c, x), \A i \in 1 .. n : Spares(f[i], x)
  PROVE  Early(FlattenSeq(f), c, x)
<1>1. PICK w : w = FlattenSeq(f)
  OBVIOUS
<1>2. PICK start \in [1 .. n -> Nat] : Places1(f, n, w, start)
  BY <1>1, PartPlaces DEF Spread
<1>3. PICK m \in 1 .. Len(f[k]) : f[k][m].do = "get" /\ f[k][m].r = c
  BY DEF Early
<1>4. start[k] + m \in 1 .. Len(w) /\ w[start[k] + m] = f[k][m]
  BY <1>2, <1>3 DEF Places1
<1>5. Spares(w, x)
  BY <1>1, SparesFlat
<1>6. Len(w) \in Nat
  BY <1>1, PartPlaces
<1>7. PICK j : j = start[k] + m
  OBVIOUS
<1>8. /\ j \in 1 .. Len(w) /\ w[j].do = "get" /\ w[j].r = c
      /\ \A i \in 1 .. j - 1 : i \in 1 .. Len(w)
  BY <1>3, <1>4, <1>6, <1>7
<1>9. Early(w, c, x)
  BY <1>5, <1>8 DEF Early, Spares
<1> QED BY <1>1, <1>9

\* The step that is next, and what is ahead after it.
LEMMA MainAhead ==
  ASSUME NEW q, NEW C, Main(q, C), q # <<>>
  PROVE  /\ MainStep(Head(q), C)
         /\ Main(<<>> \o Tail(q), C) /\ \A r : Main(<<Use(r)>> \o Tail(q), C)
<1>1. PICK S : q \in Seq(S)
  BY DEF Main, IsSeq
<1>2. /\ Head(q) = q[1] /\ Len(q) \in Nat \ {0} /\ Len(Tail(q)) = Len(q) - 1
      /\ \A j \in 1 .. Len(Tail(q)) : j + 1 \in 1 .. Len(q) /\ Tail(q)[j] = q[j + 1]
      /\ <<>> \o Tail(q) = Tail(q) /\ Tail(q) \in Seq(S)
  BY <1>1
<1>3. MainStep(Head(q), C)
  BY <1>2 DEF Main
<1>4. Main(Tail(q), C)
  BY <1>2 DEF Main, IsSeq
<1>5. ASSUME NEW r PROVE Main(<<Use(r)>>, C)
  <2>1. PICK u : u = Use(r)
    OBVIOUS
  <2>2. u.do = "use"
    BY <2>1 DEF Use, Step
  <2>3. <<u>> \in Seq({u}) /\ \A s \in {u} : MainStep(s, C)
    BY <2>2 DEF MainStep
  <2>4. Main(<<u>>, C)
    <3>1. PICK l : l = <<u>>
      OBVIOUS
    <3>2. l \in Seq({u})
      BY <2>3, <3>1
    <3>3. Main(l, C)
      BY <2>3, <3>2, MainList
    <3> QED BY <3>1, <3>3
  <2> QED BY <2>1, <2>4
<1> QED BY <1>2, <1>3, <1>4, <1>5, MainBoth

LEMMA EarlyAhead ==
  ASSUME NEW q, IsSeq(q), NEW c, NEW x, Early(q, c, x), q # <<>>
  PROVE  /\ Head(q).do = "get" /\ Head(q).r = x => c = x
         /\ ~(Head(q).do = "get" /\ Head(q).r = c) =>
              Early(<<>> \o Tail(q), c, x) /\ \A r : Early(<<Use(r)>> \o Tail(q), c, x)
<1>1. PICK S : q \in Seq(S)
  BY DEF IsSeq
<1>2. /\ Head(q) = q[1] /\ Len(q) \in Nat \ {0} /\ Len(Tail(q)) = Len(q) - 1
      /\ \A j \in 1 .. Len(Tail(q)) : j + 1 \in 1 .. Len(q) /\ Tail(q)[j] = q[j + 1]
      /\ <<>> \o Tail(q) = Tail(q) /\ Tail(q) \in Seq(S)
  BY <1>1
<1>3. PICK j \in 1 .. Len(q) : /\ q[j].do = "get" /\ q[j].r = c
                               /\ \A i \in 1 .. j - 1 : q[i].do # "get" \/ q[i].r # x
  BY DEF Early
<1>4. Head(q).do = "get" /\ Head(q).r = x => c = x
  <2>1. CASE j = 1
    BY <1>2, <1>3, <2>1
  <2>2. CASE j # 1
    <3>1. 1 \in 1 .. j - 1
      BY <1>2, <2>2
    <3> QED BY <1>2, <1>3, <3>1
  <2> QED BY <2>1, <2>2
<1>5. ASSUME ~(Head(q).do = "get" /\ Head(q).r = c)
      PROVE  Early(Tail(q), c, x)
  <2>1. j # 1
    BY <1>2, <1>3, <1>5
  <2>2. PICK t : t = Tail(q)
    OBVIOUS
  <2>3. PICK k : k = j - 1
    OBVIOUS
  <2>4. k \in 1 .. Len(t) /\ t[k] = q[j] /\ \A i \in 1 .. k - 1 : i + 1 \in 1 .. j - 1 /\ t[i] = q[i + 1]
    <3>1. k \in 1 .. Len(t) /\ k + 1 = j /\ Len(t) \in Nat
      BY <1>2, <2>1, <2>2, <2>3
    <3>2. ASSUME NEW i \in 1 .. k - 1 PROVE i + 1 \in 1 .. j - 1 /\ t[i] = q[i + 1]
      BY <1>2, <2>2, <3>1
    <3> QED BY <1>2, <2>2, <3>1, <3>2
  <2>5. Early(t, c, x)
    BY <1>3, <2>4 DEF Early
  <2> QED BY <2>2, <2>5
<1>6. ASSUME NEW r PROVE IsSeq(<<Use(r)>>) /\ Spares(<<Use(r)>>, x)
  <2>1. PICK u : u = Use(r)
    OBVIOUS
  <2>2. u.do = "use"
    BY <2>1 DEF Use, Step
  <2>3. <<u>> \in Seq({u}) /\ Len(<<u>>) = 1 /\ <<u>>[1] = u
    OBVIOUS
  <2>4. IsSeq(<<u>>) /\ Spares(<<u>>, x)
    <3>1. PICK l : l = <<u>>
      OBVIOUS
    <3>2. \A k \in 1 .. Len(l) : l[k] = u
      BY <2>3, <3>1
    <3>3. Spares(l, x)
      BY <2>2, <3>2 DEF Spares
    <3> QED BY <2>3, <3>1, <3>3 DEF IsSeq
  <2> QED BY <2>1, <2>4
<1>7. IsSeq(Tail(q))
  BY <1>2 DEF IsSeq
<1> QED BY <1>2, <1>4, <1>5, <1>6, <1>7, EarlyBoth

-----------------------------------------------------------------------------
(* What the drivers give back.                                              *)

Fit(s, C) == Obeys(s.alt, Calm, Losing(C)) /\ s.do \in Calm /\ <<s.do, s.r>> \notin Losing(C)

LEMMA FitList ==
  ASSUME NEW T, NEW q \in Seq(T), NEW C, \A t \in T : Fit(t, C)
  PROVE  Obeys(q, Calm, Losing(C))
BY ObeysList DEF Fit

LEMMA FitOne ==
  ASSUME NEW s, NEW C, Fit(s, C)
  PROVE  Obeys(<<s>>, Calm, Losing(C))
<1>1. <<s>> \in Seq({s}) /\ \A t \in {s} : Fit(t, C)
  OBVIOUS
<1>2. PICK l : l = <<s>>
  OBVIOUS
<1>3. l \in Seq({s})
  BY <1>1, <1>2
<1>4. Obeys(l, Calm, Losing(C))
  BY <1>1, <1>3, FitList
<1> QED BY <1>2, <1>4

LEMMA NothingObeys ==
  ASSUME NEW C
  PROVE  Obeys(<<>>, Calm, Losing(C))
<1>1. <<>> \in Seq({}) /\ \A t \in {} : Fit(t, C)
  OBVIOUS
<1>2. PICK l : l = <<>>
  OBVIOUS
<1>3. l \in Seq({})
  BY <1>1, <1>2
<1>4. Obeys(l, Calm, Losing(C))
  BY <1>1, <1>3, FitList
<1> QED BY <1>2, <1>4

LEMMA Fits ==
  ASSUME NEW C, NEW r
  PROVE  /\ Fit(Use(r), C) /\ Fit(Fail, C)
         /\ r \notin C => Fit(Put(r), C) /\ Fit(Clear(r), C) /\ Fit(Drop(r), C)
         /\ \A alt : Obeys(alt, Calm, Losing(C)) => Fit(When(r, alt), C)
<1>1. Fit(Use(r), C) /\ Fit(Fail, C)
  <2>1. Use(r).alt = <<>> /\ Use(r).do = "use" /\ Fail.alt = <<>> /\ Fail.do = "fail"
    BY DEF Use, Fail, Step
  <2> QED BY <2>1, NothingObeys DEF Fit, Calm, Losing
<1>2. ASSUME r \notin C PROVE Fit(Put(r), C) /\ Fit(Clear(r), C)
  <2>1. /\ Put(r).alt = <<>> /\ Put(r).do = "put" /\ Put(r).r = r
        /\ Clear(r).alt = <<>> /\ Clear(r).do = "clear" /\ Clear(r).r = r
    BY DEF Put, Clear, Step
  <2> QED BY <1>2, <2>1, NothingObeys DEF Fit, Calm, Losing
<1>3. ASSUME NEW alt, Obeys(alt, Calm, Losing(C)) PROVE Fit(When(r, alt), C)
  <2>1. When(r, alt).alt = alt /\ When(r, alt).do = "when"
    BY DEF When, Step
  <2> QED BY <1>3, <2>1 DEF Fit, Calm, Losing
<1>4. ASSUME r \notin C PROVE Fit(Drop(r), C)
  BY <1>2, <1>3, <1>4, FitOne DEF Drop
<1> QED BY <1>1, <1>2, <1>3, <1>4

LEMMA UnregisterFeFits ==
  ASSUME NEW i, NEW C, C \subseteq Dear
  PROVE  Obeys(UnregisterFe(i), Calm, Losing(C))
<1> DEFINE T == {Drop(<<"frontend", i>>), Drop(<<"tuner", i>>), Drop(<<"demod", i>>), Put(<<"fe", i>>)}
<1>1. <<"frontend", i>> \notin C /\ <<"tuner", i>> \notin C /\ <<"demod", i>> \notin C /\ <<"fe", i>> \notin C
  BY DEF Null, Board, Dear, Buffers, Pages
<1>2. \A t \in T : Fit(t, C)
  BY <1>1, Fits
<1>3. UnregisterFe(i) \in Seq(T)
  BY DEF UnregisterFe
<1> HIDE DEF T
<1> QED BY <1>2, <1>3, FitList

LEMMA UnregisterAdapFits ==
  ASSUME NEW C, C \subseteq {Null, Board("dma")}
  PROVE  Obeys(UnregisterAdap, Calm, Losing(C))
<1> DEFINE adapter(i) ==
             <<When(<<"fe", i>>, UnregisterFe(i)), Drop(<<"dmxdev", i>>), Drop(<<"demux", i>>), Drop(<<"dvb", i>>)>>
           f == [i \in 1 .. Units |-> adapter(Units + 1 - i)]
           rest == <<Drop(Board("i2c")), Put(Board("regions")), Put(Board("drvdata")), Put(Board("pci")),
                     Put(Board("card"))>>
<1>1. ASSUME NEW i PROVE Obeys(adapter(i), Calm, Losing(C))
  <2> DEFINE T == {When(<<"fe", i>>, UnregisterFe(i)), Drop(<<"dmxdev", i>>), Drop(<<"demux", i>>), Drop(<<"dvb", i>>)}
  <2>1. <<"dmxdev", i>> \notin C /\ <<"demux", i>> \notin C /\ <<"dvb", i>> \notin C
    BY DEF Null, Board
  <2>2. \A t \in T : Fit(t, C)
    <3>1. C \subseteq Dear
      BY DEF Dear
    <3> QED BY <2>1, <3>1, Fits, UnregisterFeFits
  <2>3. adapter(i) \in Seq(T)
    OBVIOUS
  <2> HIDE DEF T, adapter
  <2> QED BY <2>2, <2>3, FitList
<1>2. Obeys(FlattenSeq(f), Calm, Losing(C))
  <2> HIDE DEF adapter
  <2>1. f = [i \in 1 .. Units |-> f[i]] /\ \A i \in 1 .. Units : Obeys(f[i], Calm, Losing(C))
    BY <1>1
  <2> HIDE DEF f
  <2> QED BY <2>1, StepsAssumption, ObeysFlat
<1>3. Obeys(rest, Calm, Losing(C))
  <2> DEFINE T == {Drop(Board("i2c")), Put(Board("regions")), Put(Board("drvdata")), Put(Board("pci")), Put(Board("card"))}
  <2>1. \A n \in {"i2c", "regions", "drvdata", "pci", "card"} : Board(n) \notin C
    BY DEF Null, Board
  <2>2. \A t \in T : Fit(t, C)
    BY <2>1, Fits
  <2>3. rest \in Seq(T)
    OBVIOUS
  <2> HIDE DEF T, rest
  <2> QED BY <2>2, <2>3, FitList
<1>4. UnregisterAdap = FlattenSeq(f) \o rest
  BY Zenon DEF UnregisterAdap, EachDown
<1> HIDE DEF f, rest
<1> QED BY <1>2, <1>3, <1>4, ObeysBoth

\* What the interrupt handler of a PX-Q3PE uses, beside the DMA buffer; and
\* the memory of the DMA engine of a PT3.
Watched == {Board("bar")} \cup Buffers
PagesOf(i) == {<<"ts page 1", i>>, <<"ts page 2", i>>, <<"desc page 1", i>>, <<"desc page 2", i>>}

\* The handler of a PX-Q3PE goes right after the DMA buffer.
Coupled(q) ==
  \A j \in 1 .. Len(q) :
    Keeps(q[j], {Board("dma")})
      \/ (q[j] \in Guards(Board("dma")) /\ j + 1 \in 1 .. Len(q) /\ q[j + 1] = Drop(Board("irq")))

LEMMA CoupledBoth ==
  ASSUME NEW p, NEW q, IsSeq(p), IsSeq(q), Coupled(p), Coupled(q)
  PROVE  Coupled(p \o q)
<1>1. PICK w : w = p \o q
  OBVIOUS
<1>2. PICK m : m = Len(p)
  OBVIOUS
<1>3. PICK n : n = Len(q)
  OBVIOUS
<1>4. /\ m \in Nat /\ n \in Nat /\ Len(w) = m + n
      /\ \A j \in 1 .. m : w[j] = p[j]
      /\ \A j \in 1 .. n : w[m + j] = q[j]
  BY <1>1, <1>2, <1>3, BothPlaces
<1>5. ASSUME NEW j \in 1 .. Len(w)
      PROVE  Keeps(w[j], {Board("dma")})
               \/ (w[j] \in Guards(Board("dma")) /\ j + 1 \in 1 .. Len(w) /\ w[j + 1] = Drop(Board("irq")))
  <2>1. CASE j \in 1 .. m
    <3>1. w[j] = p[j] /\ (j + 1 \in 1 .. m => j + 1 \in 1 .. Len(w) /\ w[j + 1] = p[j + 1])
      BY <1>4, <2>1
    <3>2. Keeps(p[j], {Board("dma")})
            \/ (p[j] \in Guards(Board("dma")) /\ j + 1 \in 1 .. m /\ p[j + 1] = Drop(Board("irq")))
      BY <1>2, <2>1 DEF Coupled
    <3> QED BY <3>1, <3>2
  <2>2. CASE j > m
    <3>1. PICK i \in 1 .. n : j = m + i
      <4>1. j - m \in 1 .. n /\ j = m + (j - m)
        BY <1>4, <2>2
      <4> QED BY <4>1
    <3>2. i + 1 \in 1 .. n => j + 1 = m + (i + 1) /\ j + 1 \in 1 .. Len(w)
      BY <1>4, <3>1
    <3>3. w[j] = q[i] /\ (i + 1 \in 1 .. n => w[j + 1] = q[i + 1])
      BY <1>4, <3>1, <3>2
    <3>4. Keeps(q[i], {Board("dma")})
            \/ (q[i] \in Guards(Board("dma")) /\ i + 1 \in 1 .. n /\ q[i + 1] = Drop(Board("irq")))
      BY <1>3 DEF Coupled
    <3> QED BY <3>2, <3>3, <3>4
  <2> QED BY <1>4, <2>1, <2>2
<1>6. Coupled(w)
  BY <1>5 DEF Coupled
<1> QED BY <1>1, <1>6

LEMMA CoupledAhead ==
  ASSUME NEW q, Obeys(q, Calm, {}), q # <<>>, Coupled(q)
  PROVE  /\ Coupled(<<>> \o Tail(q)) /\ Coupled(Head(q).alt \o Tail(q))
         /\ Keeps(Head(q), {Board("dma")})
              \/ (Head(q) \in Guards(Board("dma")) /\ Tail(q) # <<>> /\ Head(Tail(q)) = Drop(Board("irq")))
<1>1. PICK S : q \in Seq(S)
  BY DEF Obeys
<1>2. /\ Head(q) = q[1] /\ Len(q) \in Nat \ {0} /\ Len(Tail(q)) = Len(q) - 1 /\ 1 \in 1 .. Len(q)
      /\ \A j \in 1 .. Len(Tail(q)) : j + 1 \in 1 .. Len(q) /\ Tail(q)[j] = q[j + 1]
      /\ <<>> \o Tail(q) = Tail(q) /\ Tail(q) \in Seq(S)
      /\ 2 \in 1 .. Len(q) => Tail(q) # <<>> /\ Head(Tail(q)) = q[2]
  BY <1>1
<1>3. Keeps(Head(q), {Board("dma")})
        \/ (Head(q) \in Guards(Board("dma")) /\ Tail(q) # <<>> /\ Head(Tail(q)) = Drop(Board("irq")))
  <2>1. Keeps(q[1], {Board("dma")})
          \/ (q[1] \in Guards(Board("dma")) /\ 1 + 1 \in 1 .. Len(q) /\ q[1 + 1] = Drop(Board("irq")))
    BY <1>2 DEF Coupled
  <2>2. 1 + 1 = 2
    OBVIOUS
  <2> QED BY <1>2, <2>1, <2>2
<1>4. Coupled(Tail(q))
  <2>1. PICK t : t = Tail(q)
    OBVIOUS
  <2>2. ASSUME NEW j \in 1 .. Len(t)
        PROVE  Keeps(t[j], {Board("dma")})
                 \/ (t[j] \in Guards(Board("dma")) /\ j + 1 \in 1 .. Len(t) /\ t[j + 1] = Drop(Board("irq")))
    <3>1. PICK i : i = j + 1
      OBVIOUS
    <3>2. i \in 1 .. Len(q) /\ t[j] = q[i] /\ (i + 1 \in 1 .. Len(q) => i \in 1 .. Len(t))
      BY <1>2, <2>1, <3>1
    <3>3. i + 1 \in 1 .. Len(q) => t[i] = q[i + 1]
      BY <1>2, <2>1, <3>2
    <3>4. Keeps(q[i], {Board("dma")})
            \/ (q[i] \in Guards(Board("dma")) /\ i + 1 \in 1 .. Len(q) /\ q[i + 1] = Drop(Board("irq")))
      BY <3>2 DEF Coupled
    <3> QED BY <3>1, <3>2, <3>3, <3>4
  <2> QED BY <2>1, <2>2 DEF Coupled
<1>5. Coupled(Head(q).alt \o Tail(q))
  <2>1. CASE Keeps(Head(q), {Board("dma")})
    <3>1. Obeys(<<Head(q)>>, Calm, Losing({Board("dma")})) /\ <<Head(q)>> # <<>> /\ Head(<<Head(q)>>) = Head(q)
      BY <2>1 DEF Keeps
    <3>2. PICK r : r = <<Head(q)>>
      OBVIOUS
    <3>3. Obeys(Head(q).alt, Calm, Losing({Board("dma")}))
      BY <3>1, <3>2, ObeysHead
    <3>4. IsSeq(Head(q).alt) /\ Coupled(Head(q).alt)
      BY <3>3, ObeysEach DEF Coupled, Keeps
    <3> QED BY <1>2, <1>4, <3>4, CoupledBoth DEF IsSeq
  <2>2. CASE Head(q) = Put(Board("dma"))
    <3>1. Head(q).alt = <<>>
      BY <2>2 DEF Put, Step
    <3> QED BY <1>2, <1>4, <3>1
  <2>3. CASE Head(q) = Drop(Board("dma")) /\ Tail(q) # <<>> /\ Head(Tail(q)) = Drop(Board("irq"))
    <3>1. PICK t : t = Tail(q)
      OBVIOUS
    <3>2. PICK u : u = Put(Board("dma"))
      OBVIOUS
    <3>3. Head(q).alt = <<u>>
      BY <2>3, <3>2 DEF Drop, When, Step
    <3>4. PICK w : w = <<u>> \o t
      OBVIOUS
    <3>5. t \in Seq(S) /\ Len(t) \in Nat \ {0} /\ t[1] = Drop(Board("irq"))
      BY <1>2, <2>3, <3>1
    <3>6. t \in Seq(S \cup {u}) /\ <<u>> \in Seq(S \cup {u}) /\ Len(<<u>>) = 1 /\ <<u>>[1] = u
      BY <3>5
    <3>7. Len(w) = 1 + Len(t) /\ w[1] = u /\ \A j \in 1 .. Len(t) : w[1 + j] = t[j]
      BY <3>4, <3>5, <3>6
    <3>8. ASSUME NEW j \in 1 .. Len(w)
          PROVE  Keeps(w[j], {Board("dma")})
                   \/ (w[j] \in Guards(Board("dma")) /\ j + 1 \in 1 .. Len(w) /\ w[j + 1] = Drop(Board("irq")))
      <4>1. CASE j = 1
        <5>1. j + 1 \in 1 .. Len(w) /\ w[j + 1] = t[1]
          BY <3>5, <3>7, <4>1
        <5> QED BY <3>2, <3>5, <3>7, <4>1, <5>1 DEF Guards
      <4>2. CASE j # 1
        <5>1. PICK i : i = j - 1
          OBVIOUS
        <5>2. i \in 1 .. Len(t) /\ j = 1 + i /\ (i + 1 \in 1 .. Len(t) => j + 1 \in 1 .. Len(w) /\ j + 1 = 1 + (i + 1))
          BY <3>5, <3>7, <4>2, <5>1
        <5>3. w[j] = t[i] /\ (i + 1 \in 1 .. Len(t) => w[j + 1] = t[i + 1])
          BY <3>7, <5>2
        <5>4. Keeps(t[i], {Board("dma")})
                \/ (t[i] \in Guards(Board("dma")) /\ i + 1 \in 1 .. Len(t) /\ t[i + 1] = Drop(Board("irq")))
          BY <1>4, <3>1, <5>2 DEF Coupled
        <5> QED BY <5>2, <5>3, <5>4
      <4> QED BY <4>1, <4>2
    <3>9. Coupled(w)
      BY <3>8 DEF Coupled
    <3> QED BY <3>1, <3>3, <3>4, <3>9
  <2> QED BY <1>3, <2>1, <2>2, <2>3 DEF Guards
<1> QED BY <1>2, <1>3, <1>4, <1>5

\* A function that gives back a, and nothing of C before it.
Shut(q, a, C) == Obeys(q, Calm, Losing({Null})) /\ Guarded(q, a, C) /\ Has(q, a)

LEMMA CalmWeaker ==
  ASSUME NEW q, NEW C, Obeys(q, Calm, Losing(C))
  PROVE  /\ Obeys(q, Calm, {}) /\ IsSeq(q)
         /\ \A D : D \subseteq C => Obeys(q, Calm, Losing(D))
<1>1. Calm \subseteq Calm /\ {} \subseteq Losing(C) /\ \A D : D \subseteq C => Losing(D) \subseteq Losing(C)
  BY DEF Losing
<1> QED BY <1>1, ObeysWeaker, ObeysEach

LEMMA ShutFirst ==
  ASSUME NEW p, NEW q, NEW a, NEW C, NEW D, C \cup {Null} \subseteq D, Obeys(p, Calm, Losing(D)), Shut(q, a, C)
  PROVE  Shut(p \o q, a, C)
<1>1. /\ Obeys(p, Calm, {}) /\ IsSeq(p) /\ Obeys(p, Calm, Losing(C)) /\ Obeys(p, Calm, Losing({Null}))
      /\ Obeys(q, Calm, {}) /\ IsSeq(q) /\ Obeys(q, Calm, Losing({Null})) /\ Guarded(q, a, C) /\ Has(q, a)
  BY CalmWeaker DEF Shut
<1>2. Guarded(p, a, C)
  BY <1>1, GuardedKeeps
<1> QED BY <1>1, <1>2, ObeysBoth, GuardedBoth, HasBoth DEF Shut

LEMMA ShutRest ==
  ASSUME NEW p, NEW q, NEW a, NEW C, Shut(p, a, C), NEW D, Null \in D, Obeys(q, Calm, Losing(D))
  PROVE  Shut(p \o q, a, C)
<1>1. /\ Obeys(p, Calm, {}) /\ IsSeq(p) /\ Obeys(p, Calm, Losing({Null})) /\ Guarded(p, a, C) /\ Has(p, a)
      /\ Obeys(q, Calm, {}) /\ IsSeq(q) /\ Obeys(q, Calm, Losing({Null}))
  BY CalmWeaker DEF Shut
<1> QED BY <1>1, ObeysBoth, GuardedBoth, HasBoth DEF Shut, Has

\* The last of some steps gives back a, and nothing of C is given back before.
LEMMA ShutList ==
  ASSUME NEW T, NEW q \in Seq(T), NEW a, NEW C, \A t \in T : Fit(t, C \cup {Null}), q # <<>>, q[Len(q)] \in Guards(a)
  PROVE  Shut(q, a, C)
<1>1. Obeys(q, Calm, Losing(C \cup {Null}))
  BY FitList
<1>2. Obeys(q, Calm, Losing(C)) /\ Obeys(q, Calm, Losing({Null}))
  <2>1. C \subseteq C \cup {Null} /\ {Null} \subseteq C \cup {Null}
    OBVIOUS
  <2> QED BY <1>1, <2>1, CalmWeaker
<1>3. Len(q) \in 1 .. Len(q)
  OBVIOUS
<1> QED BY <1>2, <1>3, GuardedKeeps DEF Shut, Has

LEMMA PxqRemoveFits ==
  Shut(PxqRemove, Board("irq"), Watched) /\ Coupled(PxqRemove)
<1> DEFINE quiet(i) == <<When(<<"fe", i>>, <<Use(Board("bar"))>>)>>
           buffer(i) == <<Drop(<<"sBuf", i>>)>>
           f == [i \in 1 .. Units |-> quiet(i)]
           g == [i \in 1 .. Units |-> buffer(i)]
           A == FlattenSeq(f)
           B == <<Use(Board("bar")), Drop(Board("dma")), Drop(Board("irq"))>>
           D == FlattenSeq(g)
           E == <<Drop(Board("bar"))>>
<1>1. Obeys(A, Calm, Losing(Dear))
  <2>1. ASSUME NEW i PROVE Obeys(quiet(i), Calm, Losing(Dear))
    BY Fits, FitOne
  <2> HIDE DEF quiet
  <2>2. f = [i \in 1 .. Units |-> f[i]] /\ \A i \in 1 .. Units : Obeys(f[i], Calm, Losing(Dear))
    BY <2>1
  <2> HIDE DEF f
  <2> QED BY <2>2, StepsAssumption, ObeysFlat
<1>2. Obeys(D, Calm, Losing({Null, Board("dma")}))
  <2>1. ASSUME NEW i PROVE Obeys(buffer(i), Calm, Losing({Null, Board("dma")}))
    <3>1. <<"sBuf", i>> \notin {Null, Board("dma")}
      BY DEF Null, Board
    <3> QED BY <3>1, Fits, FitOne
  <2> HIDE DEF buffer
  <2>2. g = [i \in 1 .. Units |-> g[i]] /\ \A i \in 1 .. Units : Obeys(g[i], Calm, Losing({Null, Board("dma")}))
    BY <2>1
  <2> HIDE DEF g
  <2> QED BY <2>2, StepsAssumption, ObeysFlat
<1>3. Shut(B, Board("irq"), Watched)
  <2> DEFINE T == {Use(Board("bar")), Drop(Board("dma")), Drop(Board("irq"))}
  <2>1. Board("dma") \notin Watched \cup {Null} /\ Board("irq") \notin Watched \cup {Null}
    BY DEF Null, Board, Watched, Buffers
  <2>2. \A t \in T : Fit(t, Watched \cup {Null})
    BY <2>1, Fits
  <2>3. B \in Seq(T) /\ B # <<>> /\ B[Len(B)] = Drop(Board("irq"))
    OBVIOUS
  <2> HIDE DEF T, B
  <2> QED BY <2>2, <2>3, ShutList DEF Guards
<1>5. Coupled(B)
  <2>1. Len(B) = 3 /\ B[1] = Use(Board("bar")) /\ B[2] = Drop(Board("dma")) /\ B[3] = Drop(Board("irq"))
    OBVIOUS
  <2>2. Keeps(Use(Board("bar")), {Board("dma")}) /\ Keeps(Drop(Board("irq")), {Board("dma")})
    <3>1. Board("irq") \notin {Board("dma")}
      BY DEF Board
    <3> QED BY <3>1, Fits, FitOne DEF Keeps
  <2> HIDE DEF B
  <2>3. ASSUME NEW j \in 1 .. Len(B)
        PROVE  Keeps(B[j], {Board("dma")})
                 \/ (B[j] \in Guards(Board("dma")) /\ j + 1 \in 1 .. Len(B) /\ B[j + 1] = Drop(Board("irq")))
    <3>1. CASE j = 2
      <4>1. B[j] = Drop(Board("dma")) /\ j + 1 \in 1 .. Len(B) /\ B[j + 1] = Drop(Board("irq"))
        BY <2>1, <3>1
      <4> QED BY <4>1 DEF Guards
    <3>2. CASE j = 1 \/ j = 3
      BY <2>1, <2>2, <3>2
    <3> QED BY <2>1, <3>1, <3>2
  <2> QED BY <2>3 DEF Coupled
<1>6. Obeys(E, Calm, Losing({Null, Board("dma")}))
  <2>1. Board("bar") \notin {Null, Board("dma")}
    BY DEF Null, Board
  <2> QED BY <2>1, Fits, FitOne
<1>7. PxqRemove = A \o B \o D \o E \o UnregisterAdap
  BY Zenon DEF PxqRemove, Each
<1> HIDE DEF A, B, D, E, f, g
<1>8. Obeys(UnregisterAdap, Calm, Losing({Null, Board("dma")}))
  BY UnregisterAdapFits
<1> DEFINE F == UnregisterAdap
<1> HIDE DEF F
<1>9. Shut(A \o B \o D \o E \o F, Board("irq"), Watched)
  <2>1. /\ Watched \cup {Null} \subseteq Dear /\ Null \in {Null, Board("dma")}
    BY DEF Dear, Watched
  <2>2. Shut(A \o B, Board("irq"), Watched)
    BY <1>1, <1>3, <2>1, ShutFirst
  <2>3. Shut(A \o B \o D, Board("irq"), Watched)
    BY <1>2, <2>1, <2>2, ShutRest
  <2>4. Shut(A \o B \o D \o E, Board("irq"), Watched)
    BY <1>6, <2>1, <2>3, ShutRest
  <2> QED BY <1>8, <2>1, <2>4, ShutRest DEF F
<1>10. Coupled(A \o B \o D \o E \o F)
  <2>1. {Board("dma")} \subseteq Dear /\ {Board("dma")} \subseteq {Null, Board("dma")}
    BY DEF Dear
  <2>2. \A q : Obeys(q, Calm, Losing({Board("dma")})) => Coupled(q)
    BY ObeysEach DEF Coupled, Keeps
  <2>3. Coupled(A) /\ Coupled(D) /\ Coupled(E) /\ Coupled(F)
    BY <1>1, <1>2, <1>6, <1>8, <2>1, <2>2, CalmWeaker DEF F
  <2>4. IsSeq(A) /\ IsSeq(B) /\ IsSeq(D) /\ IsSeq(E) /\ IsSeq(F)
    BY <1>1, <1>2, <1>3, <1>6, <1>8, CalmWeaker DEF F, Shut
  <2> QED BY <1>5, <2>3, <2>4, CoupledBoth, BothPlaces
<1> QED BY <1>7, <1>9, <1>10 DEF F

LEMMA PxqRemoveCdevFits ==
  Shut(PxqRemoveCdev, Board("irq"), Watched \cup {Board("dma")})
<1> DEFINE node(i) == <<Use(<<"p->card", i>>), Clear(<<"p->card", i>>), Drop(<<"cdev", i>>), Drop(<<"node", i>>)>>
           ends1(i) == <<Drop(<<"tuner priv", i>>), Put(<<"tuner", i>>)>>
           ends2(i) == <<Drop(<<"demod priv", i>>), Put(<<"demod", i>>)>>
           chips(i) == <<When(<<"tuner", i>>, ends1(i)), When(<<"demod", i>>, ends2(i)), Drop(<<"sBuf", i>>)>>
           f == [i \in 1 .. Units |-> node(i)]
           g == [i \in 1 .. Units |-> chips(i)]
           C == Watched \cup {Board("dma")}
           A == <<When(Board("adap"), FlattenSeq(f)), Use(Board("bar")), Use(Board("adap")), Put(Board("numbers")),
                  Drop(Board("irq"))>>
           B == <<Drop(Board("dma")), When(Board("adap"), FlattenSeq(g)), Drop(Board("adap")),
                  Drop(Board("bar")), Drop(Board("i2c")), Drop(Board("slot")), Put(Board("card")),
                  Put(Board("regions")), Put(Board("drvdata")), Put(Board("pci"))>>
<1>1. PxqRemoveCdev = A \o B
  <2>1. PxqRemoveCdev =
          <<When(Board("adap"), FlattenSeq(f)), Use(Board("bar")), Use(Board("adap")), Put(Board("numbers")),
            Drop(Board("irq")), Drop(Board("dma")), When(Board("adap"), FlattenSeq(g)), Drop(Board("adap")),
            Drop(Board("bar")), Drop(Board("i2c")), Drop(Board("slot")), Put(Board("card")),
            Put(Board("regions")), Put(Board("drvdata")), Put(Board("pci"))>>
    BY Zenon DEF PxqRemoveCdev, Each
  <2> HIDE DEF f, g
  <2> QED BY <2>1
<1>2. Obeys(FlattenSeq(f), Calm, Losing(C \cup {Null}))
  <2>1. ASSUME NEW i PROVE Obeys(node(i), Calm, Losing(C \cup {Null}))
    <3> DEFINE T == {Use(<<"p->card", i>>), Clear(<<"p->card", i>>), Drop(<<"cdev", i>>), Drop(<<"node", i>>)}
    <3>1. \A n \in {"p->card", "cdev", "node"} : <<n, i>> \notin C \cup {Null}
      BY DEF Null, Board, Watched, Buffers
    <3>2. \A t \in T : Fit(t, C \cup {Null})
      BY <3>1, Fits
    <3>3. node(i) \in Seq(T)
      OBVIOUS
    <3> HIDE DEF T, node, C
    <3> QED BY <3>2, <3>3, FitList
  <2> HIDE DEF node, C
  <2>2. f = [i \in 1 .. Units |-> f[i]] /\ \A i \in 1 .. Units : Obeys(f[i], Calm, Losing(C \cup {Null}))
    BY <2>1
  <2> HIDE DEF f
  <2> QED BY <2>2, StepsAssumption, ObeysFlat
<1>3. Obeys(FlattenSeq(g), Calm, Losing({Null}))
  <2>1. ASSUME NEW i PROVE Obeys(chips(i), Calm, Losing({Null}))
    <3> DEFINE T == {When(<<"tuner", i>>, ends1(i)), When(<<"demod", i>>, ends2(i)), Drop(<<"sBuf", i>>)}
               T1 == {Drop(<<"tuner priv", i>>), Put(<<"tuner", i>>)}
               T2 == {Drop(<<"demod priv", i>>), Put(<<"demod", i>>)}
    <3>1. \A n \in {"tuner priv", "tuner", "demod priv", "demod", "sBuf"} : <<n, i>> \notin {Null}
      BY DEF Null
    <3>2. (\A t \in T1 : Fit(t, {Null})) /\ (\A t \in T2 : Fit(t, {Null}))
      BY <3>1, Fits
    <3>3. ends1(i) \in Seq(T1) /\ ends2(i) \in Seq(T2) /\ chips(i) \in Seq(T)
      OBVIOUS
    <3>4. Obeys(ends1(i), Calm, Losing({Null})) /\ Obeys(ends2(i), Calm, Losing({Null}))
      <4> HIDE DEF T1, T2, ends1, ends2
      <4> QED BY <3>2, <3>3, FitList
    <3>5. \A t \in T : Fit(t, {Null})
      <4> HIDE DEF ends1, ends2
      <4> QED BY <3>1, <3>4, Fits
    <3> HIDE DEF T, chips
    <3> QED BY <3>3, <3>5, FitList
  <2> HIDE DEF chips
  <2>2. g = [i \in 1 .. Units |-> g[i]] /\ \A i \in 1 .. Units : Obeys(g[i], Calm, Losing({Null}))
    BY <2>1
  <2> HIDE DEF g
  <2> QED BY <2>2, StepsAssumption, ObeysFlat
<1> HIDE DEF f, g
<1>4. Shut(A, Board("irq"), C)
  <2> DEFINE T == {When(Board("adap"), FlattenSeq(f)), Use(Board("bar")), Use(Board("adap")), Put(Board("numbers")),
                   Drop(Board("irq"))}
  <2>1. Board("numbers") \notin C \cup {Null} /\ Board("irq") \notin C \cup {Null}
    BY DEF Null, Board, Watched, Buffers
  <2> HIDE DEF C
  <2>2. \A t \in T : Fit(t, C \cup {Null})
    BY <1>2, <2>1, Fits
  <2>3. A \in Seq(T) /\ A # <<>> /\ A[Len(A)] = Drop(Board("irq"))
    OBVIOUS
  <2> HIDE DEF T, A
  <2> QED BY <2>2, <2>3, ShutList DEF Guards
<1>5. Obeys(B, Calm, Losing({Null}))
  <2> DEFINE T == {Drop(Board("dma")), When(Board("adap"), FlattenSeq(g)), Drop(Board("adap")),
                   Drop(Board("bar")), Drop(Board("i2c")), Drop(Board("slot")), Put(Board("card")),
                   Put(Board("regions")), Put(Board("drvdata")), Put(Board("pci"))}
  <2>1. \A n \in {"dma", "adap", "bar", "i2c", "slot", "card", "regions", "drvdata", "pci"} : Board(n) \notin {Null}
    BY DEF Null, Board
  <2>2. \A t \in T : Fit(t, {Null})
    BY <1>3, <2>1, Fits
  <2>3. B \in Seq(T)
    OBVIOUS
  <2> HIDE DEF T, B
  <2> QED BY <2>2, <2>3, FitList
<1> HIDE DEF A, B, C
<1>6. Null \in {Null}
  OBVIOUS
<1>7. Shut(A \o B, Board("irq"), C)
  BY <1>4, <1>5, <1>6, ShutRest
<1> QED BY <1>1, <1>7 DEF C
LEMMA ShutFlat ==
  ASSUME NEW n \in Nat \ {0}, NEW f, f = [k \in 1 .. n |-> f[k]], NEW a, NEW C,
         \A k \in 1 .. n : Obeys(f[k], Calm, Losing({Null})) /\ Guarded(f[k], a, C),
         NEW i \in 1 .. n, Has(f[i], a)
  PROVE  Shut(FlattenSeq(f), a, C)
<1>1. \A k \in 1 .. n : Obeys(f[k], Calm, {}) /\ IsSeq(f[k])
  BY CalmWeaker
<1>2. Obeys(FlattenSeq(f), Calm, Losing({Null}))
  BY ObeysFlat
<1>3. Guarded(FlattenSeq(f), a, C)
  BY <1>1, GuardedFlat
<1>4. Has(FlattenSeq(f), a)
  BY <1>1, HasFlat
<1> QED BY <1>2, <1>3, <1>4 DEF Shut

\* The names of what a PT3 adapter takes and gives back for its stream.
StreamNames == {"ts page 1", "ts page 2", "desc page 1", "desc page 2", "ts_info", "desc_info", "dma_base", "dma",
                "channel", "node", "cdev", "engine", "fe"}

LEMMA Pt3RemoveFits ==
  ASSUME NEW i \in 1 .. Units
  PROVE  Shut(Pt3Remove, <<"engine", i>>, PagesOf(i))
<1> DEFINE a == <<"engine", i>>
           C == PagesOf(i)
           begin(k) == <<Use(<<"dma_base", k>>), Drop(<<"engine", k>>)>>
           ts(k) == <<Drop(DmaPages(k)[3]), Drop(DmaPages(k)[4]), Put(<<"ts_info", k>>)>>
           desc(k) == <<Drop(DmaPages(k)[1]), Drop(DmaPages(k)[2]), Put(<<"desc_info", k>>)>>
           rest(k) == <<When(<<"ts_info", k>>, ts(k)), When(<<"desc_info", k>>, desc(k)),
                        When(<<"fe", k>>, <<Use(Board("bar_reg"))>>), Clear(<<"dma_base", k>>)>>
           adapter(k) == <<Use(<<"dma_base", k>>), Drop(<<"engine", k>>),
                           When(<<"ts_info", k>>, ts(k)), When(<<"desc_info", k>>, desc(k)),
                           When(<<"fe", k>>, <<Use(Board("bar_reg"))>>), Clear(<<"dma_base", k>>)>>
           f == [k \in 1 .. Units |-> adapter(k)]
           E == <<Use(Board("card")), Drop(Board("bar_reg")), Drop(Board("bar_mem"))>>
<1>1. ASSUME NEW k, NEW D, \A n \in StreamNames : <<n, k>> \notin D
      PROVE  Obeys(begin(k), Calm, Losing(D)) /\ Obeys(rest(k), Calm, Losing(D))
  <2> DEFINE T1 == {Drop(<<"ts page 1", k>>), Drop(<<"ts page 2", k>>), Put(<<"ts_info", k>>)}
             T2 == {Drop(<<"desc page 1", k>>), Drop(<<"desc page 2", k>>), Put(<<"desc_info", k>>)}
             T3 == {Use(<<"dma_base", k>>), Drop(<<"engine", k>>)}
             T4 == {When(<<"ts_info", k>>, ts(k)), When(<<"desc_info", k>>, desc(k)),
                    When(<<"fe", k>>, <<Use(Board("bar_reg"))>>), Clear(<<"dma_base", k>>)}
  <2>1. (\A t \in T1 : Fit(t, D)) /\ (\A t \in T2 : Fit(t, D)) /\ (\A t \in T3 : Fit(t, D))
    BY <1>1, Fits DEF StreamNames
  <2>2. /\ DmaPages(k)[1] = <<"desc page 1", k>> /\ DmaPages(k)[2] = <<"desc page 2", k>>
        /\ DmaPages(k)[3] = <<"ts page 1", k>> /\ DmaPages(k)[4] = <<"ts page 2", k>>
    BY DEF DmaPages
  <2>3. ts(k) \in Seq(T1) /\ desc(k) \in Seq(T2) /\ begin(k) \in Seq(T3) /\ rest(k) \in Seq(T4)
    <3>1. ts(k) = <<Drop(<<"ts page 1", k>>), Drop(<<"ts page 2", k>>), Put(<<"ts_info", k>>)>>
      BY <2>2
    <3>2. desc(k) = <<Drop(<<"desc page 1", k>>), Drop(<<"desc page 2", k>>), Put(<<"desc_info", k>>)>>
      BY <2>2
    <3>3. begin(k) \in Seq(T3)
      OBVIOUS
    <3> HIDE DEF ts, desc
    <3>4. rest(k) \in Seq(T4)
      OBVIOUS
    <3>5. <<Drop(<<"ts page 1", k>>), Drop(<<"ts page 2", k>>), Put(<<"ts_info", k>>)>> \in Seq(T1)
      OBVIOUS
    <3>6. <<Drop(<<"desc page 1", k>>), Drop(<<"desc page 2", k>>), Put(<<"desc_info", k>>)>> \in Seq(T2)
      OBVIOUS
    <3> QED BY <3>1, <3>2, <3>3, <3>4, <3>5, <3>6, Zenon
  <2>4. Obeys(ts(k), Calm, Losing(D)) /\ Obeys(desc(k), Calm, Losing(D)) /\ Obeys(begin(k), Calm, Losing(D))
    <3> HIDE DEF T1, T2, T3, ts, desc, begin
    <3> QED BY <2>1, <2>3, FitList
  <2>5. Obeys(<<Use(Board("bar_reg"))>>, Calm, Losing(D))
    BY Fits, FitOne
  <2>6. \A t \in T4 : Fit(t, D)
    <3> HIDE DEF ts, desc
    <3> QED BY <1>1, <2>4, <2>5, Fits DEF StreamNames
  <2>7. Obeys(rest(k), Calm, Losing(D))
    <3> HIDE DEF T4, rest
    <3> QED BY <2>3, <2>6, FitList
  <2> QED BY <2>4, <2>7
<1>2. \A k : adapter(k) = begin(k) \o rest(k)
  <2> HIDE DEF ts, desc
  <2> QED OBVIOUS
<1>3. ASSUME NEW k PROVE Obeys(begin(k), Calm, Losing({Null})) /\ Obeys(rest(k), Calm, Losing({Null}))
  <2>1. \A n \in StreamNames : <<n, k>> \notin {Null}
    BY DEF Null, StreamNames
  <2> HIDE DEF begin, rest
  <2> QED BY <1>1, <2>1
<1>4. ASSUME NEW k \in 1 .. Units PROVE Obeys(adapter(k), Calm, Losing({Null})) /\ Guarded(adapter(k), a, C)
  <2>1. CASE k = i
    <3>1. Shut(begin(k), a, C)
      <4> DEFINE T == {Use(<<"dma_base", k>>), Drop(<<"engine", k>>)}
      <4>1. <<"engine", k>> \notin C \cup {Null}
        BY DEF PagesOf, Null
      <4> HIDE DEF C
      <4>2. \A t \in T : Fit(t, C \cup {Null})
        BY <4>1, Fits
      <4>3. begin(k) \in Seq(T) /\ begin(k) # <<>> /\ begin(k)[Len(begin(k))] = Drop(<<"engine", k>>)
        OBVIOUS
      <4>4. begin(k)[Len(begin(k))] \in Guards(a)
        BY <2>1, <4>3 DEF Guards
      <4> HIDE DEF T, begin, a
      <4> QED BY <4>2, <4>3, <4>4, ShutList
    <3> HIDE DEF begin, rest, C, a
    <3>2. Null \in {Null}
      OBVIOUS
    <3>3. Shut(begin(k) \o rest(k), a, C)
      BY <1>3, <3>1, <3>2, ShutRest
    <3> HIDE DEF adapter
    <3> QED BY <1>2, <3>3 DEF Shut
  <2>2. CASE k # i
    <3>1. \A n \in StreamNames : <<n, k>> \notin C
      BY <2>2 DEF PagesOf
    <3> HIDE DEF begin, rest, C, a
    <3>2. Obeys(begin(k), Calm, Losing(C)) /\ Obeys(rest(k), Calm, Losing(C))
      BY <1>1, <3>1
    <3>3. /\ Obeys(begin(k) \o rest(k), Calm, Losing(C))
          /\ Obeys(begin(k) \o rest(k), Calm, Losing({Null}))
      BY <1>3, <3>2, ObeysBoth
    <3> HIDE DEF adapter
    <3> QED BY <1>2, <3>3, GuardedKeeps
  <2> QED BY <2>1, <2>2
<1>5. Has(adapter(i), a)
  <2>1. 2 \in 1 .. Len(adapter(i)) /\ adapter(i)[2] = Drop(a)
    <3> HIDE DEF ts, desc
    <3> QED OBVIOUS
  <2> HIDE DEF adapter, a
  <2> QED BY <2>1 DEF Has, Guards
<1>6. Obeys(E, Calm, Losing({Null}))
  <2> DEFINE T == {Use(Board("card")), Drop(Board("bar_reg")), Drop(Board("bar_mem"))}
  <2>1. Board("bar_reg") \notin {Null} /\ Board("bar_mem") \notin {Null}
    BY DEF Null, Board
  <2>2. \A t \in T : Fit(t, {Null})
    BY <2>1, Fits
  <2>3. E \in Seq(T)
    OBVIOUS
  <2> HIDE DEF T, E
  <2> QED BY <2>2, <2>3, FitList
<1>7. Pt3Remove = FlattenSeq(f) \o UnregisterAdap \o E
  BY Zenon DEF Pt3Remove, Each
<1> HIDE DEF E, a, C
<1>8. Shut(FlattenSeq(f), a, C)
  <2> HIDE DEF adapter
  <2>1. /\ f = [k \in 1 .. Units |-> f[k]]
        /\ \A k \in 1 .. Units : Obeys(f[k], Calm, Losing({Null})) /\ Guarded(f[k], a, C)
        /\ Has(f[i], a)
    BY <1>4, <1>5
  <2> HIDE DEF f
  <2> QED BY <2>1, StepsAssumption, ShutFlat
<1>9. Null \in {Null} /\ Obeys(UnregisterAdap, Calm, Losing({Null}))
  <2>1. {Null} \subseteq {Null, Board("dma")}
    OBVIOUS
  <2> QED BY <2>1, UnregisterAdapFits
<1> DEFINE F == UnregisterAdap
<1> HIDE DEF F, f
<1>10. Shut(FlattenSeq(f) \o F, a, C)
  BY <1>8, <1>9, ShutRest DEF F
<1>11. Shut(FlattenSeq(f) \o F \o E, a, C)
  BY <1>6, <1>9, <1>10, ShutRest
<1> QED BY <1>7, <1>11 DEF F, a, C

LEMMA FreePt3DmaFits ==
  ASSUME NEW k, NEW D, \A n \in StreamNames : <<n, k>> \notin D
  PROVE  Obeys(FreePt3Dma(k), Calm, Losing(D))
<1> DEFINE ts == FreePages(k, <<"ts page 1", "ts page 2">>)
           desc == FreePages(k, <<"desc page 1", "desc page 2">>)
           T1 == {Drop(<<"ts page 1", k>>), Drop(<<"ts page 2", k>>)}
           T2 == {Drop(<<"desc page 1", k>>), Drop(<<"desc page 2", k>>)}
           T3 == {When(<<"ts_info", k>>, ts \o <<Put(<<"ts_info", k>>)>>),
                  When(<<"desc_info", k>>, desc \o <<Put(<<"desc_info", k>>)>>), Put(<<"dma", k>>)}
<1>1. (\A t \in T1 : Fit(t, D)) /\ (\A t \in T2 : Fit(t, D))
  BY Fits DEF StreamNames
<1>2. ts \in Seq(T1) /\ desc \in Seq(T2)
  <2>1. PICK p : p = <<"ts page 1", "ts page 2">>
    OBVIOUS
  <2>2. PICK q : q = <<"desc page 1", "desc page 2">>
    OBVIOUS
  <2>3. /\ Len(p) = 2 /\ p[1] = "ts page 1" /\ p[2] = "ts page 2"
        /\ Len(q) = 2 /\ q[1] = "desc page 1" /\ q[2] = "desc page 2"
    BY <2>1, <2>2
  <2>4. ts = [j \in 1 .. 2 |-> Drop(<<p[j], k>>)] /\ desc = [j \in 1 .. 2 |-> Drop(<<q[j], k>>)]
    BY <2>1, <2>2, <2>3 DEF FreePages
  <2>5. \A j \in 1 .. 2 : Drop(<<p[j], k>>) \in T1 /\ Drop(<<q[j], k>>) \in T2
    <3>1. \A j \in 1 .. 2 : j = 1 \/ j = 2
      OBVIOUS
    <3> QED BY <2>3, <3>1
  <2> HIDE DEF T1, T2, ts, desc
  <2> QED BY <2>4, <2>5
<1>3. Obeys(ts, Calm, Losing(D)) /\ Obeys(desc, Calm, Losing(D))
  <2> HIDE DEF T1, T2, ts, desc
  <2> QED BY <1>1, <1>2, FitList
<1> HIDE DEF ts, desc
<1>4. Obeys(<<Put(<<"ts_info", k>>)>>, Calm, Losing(D)) /\ Obeys(<<Put(<<"desc_info", k>>)>>, Calm, Losing(D))
  BY Fits, FitOne DEF StreamNames
<1>5. \A t \in T3 : Fit(t, D)
  <2>1. Obeys(ts \o <<Put(<<"ts_info", k>>)>>, Calm, Losing(D)) /\ Obeys(desc \o <<Put(<<"desc_info", k>>)>>, Calm, Losing(D))
    BY <1>3, <1>4, ObeysBoth
  <2> QED BY <2>1, Fits DEF StreamNames
<1>6. FreePt3Dma(k) \in Seq(T3)
  BY DEF FreePt3Dma, ts, desc
<1> HIDE DEF T3
<1> QED BY <1>5, <1>6, FitList

LEMMA Pt3RemoveOneFits ==
  ASSUME NEW i \in 1 .. Units
  PROVE  Shut(Pt3RemoveOne, <<"engine", i>>, PagesOf(i))
<1> DEFINE a == <<"engine", i>>
           C == PagesOf(i)
           quiet(k) == <<Use(<<"channel", k>>), Drop(<<"engine", k>>), Use(<<"qm", k>>), Use(<<"mx", k>>)>>
           tc(k) == <<Use(Board("i2c")), Put(<<"tc_t", k>>)>>
           chips(k) == <<Drop(<<"tc_s", k>>), When(<<"tc_t", k>>, tc(k)), Drop(<<"qm", k>>), Drop(<<"mx", k>>)>>
           dma(k) == <<Drop(<<"cdev", k>>)>> \o FreePt3Dma(k) \o <<Put(<<"channel", k>>)>>
           channel(k) == <<When(<<"channel", k>>, dma(k)), Drop(<<"node", k>>)>>
           f == [k \in 1 .. Units |-> quiet(k)]
           g == [k \in 1 .. Units |-> chips(k)]
           h == [k \in 1 .. Units |-> channel(k)]
           E == <<Put(Board("i2c")), Put(Board("numbers")), Drop(Board("bar0")), Drop(Board("bar1")),
                  Put(Board("regions")), Put(Board("slot")), Put(Board("card")), Put(Board("pci")), Put(Board("drvdata"))>>
<1>1. ASSUME NEW k PROVE Obeys(quiet(k), Calm, Losing(C \cup {Null}))
  <2> DEFINE T == {Use(<<"channel", k>>), Drop(<<"engine", k>>), Use(<<"qm", k>>), Use(<<"mx", k>>)}
  <2>1. <<"engine", k>> \notin C \cup {Null}
    BY DEF PagesOf, Null
  <2>2. \A t \in T : Fit(t, C \cup {Null})
    <3> HIDE DEF C
    <3> QED BY <2>1, Fits
  <2>3. quiet(k) \in Seq(T)
    OBVIOUS
  <2> HIDE DEF T, quiet, C
  <2> QED BY <2>2, <2>3, FitList
<1>2. ASSUME NEW k PROVE Obeys(chips(k), Calm, Losing({Null}))
  <2> DEFINE T1 == {Use(Board("i2c")), Put(<<"tc_t", k>>)}
             T2 == {Drop(<<"tc_s", k>>), When(<<"tc_t", k>>, tc(k)), Drop(<<"qm", k>>), Drop(<<"mx", k>>)}
  <2>1. \A n \in {"tc_t", "tc_s", "qm", "mx"} : <<n, k>> \notin {Null}
    BY DEF Null
  <2>2. \A t \in T1 : Fit(t, {Null})
    BY <2>1, Fits
  <2>3. tc(k) \in Seq(T1) /\ chips(k) \in Seq(T2)
    OBVIOUS
  <2>4. Obeys(tc(k), Calm, Losing({Null}))
    <3> HIDE DEF T1, tc
    <3> QED BY <2>2, <2>3, FitList
  <2>5. \A t \in T2 : Fit(t, {Null})
    <3> HIDE DEF tc
    <3> QED BY <2>1, <2>4, Fits
  <2> HIDE DEF T2, chips
  <2> QED BY <2>3, <2>5, FitList
<1>3. ASSUME NEW k PROVE Obeys(channel(k), Calm, Losing({Null}))
  <2> DEFINE T == {When(<<"channel", k>>, dma(k)), Drop(<<"node", k>>)}
  <2>1. \A n \in StreamNames : <<n, k>> \notin {Null}
    BY DEF Null, StreamNames
  <2>2. Obeys(FreePt3Dma(k), Calm, Losing({Null}))
    BY <2>1, FreePt3DmaFits
  <2>3. Obeys(<<Drop(<<"cdev", k>>)>>, Calm, Losing({Null})) /\ Obeys(<<Put(<<"channel", k>>)>>, Calm, Losing({Null}))
    BY <2>1, Fits, FitOne DEF StreamNames
  <2>4. Obeys(dma(k), Calm, Losing({Null}))
    BY <2>2, <2>3, ObeysBoth
  <2> HIDE DEF dma
  <2>5. \A t \in T : Fit(t, {Null})
    BY <2>1, <2>4, Fits DEF StreamNames
  <2>6. channel(k) \in Seq(T)
    OBVIOUS
  <2> HIDE DEF T, channel
  <2> QED BY <2>5, <2>6, FitList
<1>4. Has(quiet(i), a)
  <2>1. 2 \in 1 .. Len(quiet(i)) /\ quiet(i)[2] = Drop(a)
    OBVIOUS
  <2> HIDE DEF quiet, a
  <2> QED BY <2>1 DEF Has, Guards
<1>5. Obeys(E, Calm, Losing({Null}))
  <2> DEFINE T == {Put(Board("i2c")), Put(Board("numbers")), Drop(Board("bar0")), Drop(Board("bar1")),
                  Put(Board("regions")), Put(Board("slot")), Put(Board("card")), Put(Board("pci")), Put(Board("drvdata"))}
  <2>1. \A n \in {"i2c", "numbers", "bar0", "bar1", "regions", "slot", "card", "pci", "drvdata"} : Board(n) \notin {Null}
    BY DEF Null, Board
  <2>2. \A t \in T : Fit(t, {Null})
    BY <2>1, Fits
  <2>3. E \in Seq(T)
    OBVIOUS
  <2> HIDE DEF T, E
  <2> QED BY <2>2, <2>3, FitList
<1>6. Pt3RemoveOne = FlattenSeq(f) \o FlattenSeq(g) \o FlattenSeq(h) \o E
  BY Zenon DEF Pt3RemoveOne, Each
<1> HIDE DEF E, a, C, quiet, chips, channel
<1>7. Shut(FlattenSeq(f), a, C)
  <2>1. C \subseteq C \cup {Null} /\ {Null} \subseteq C \cup {Null}
    OBVIOUS
  <2>2. /\ f = [k \in 1 .. Units |-> f[k]]
        /\ \A k \in 1 .. Units : Obeys(f[k], Calm, Losing({Null})) /\ Guarded(f[k], a, C)
        /\ Has(f[i], a)
    BY <1>1, <1>4, <2>1, CalmWeaker, GuardedKeeps
  <2> HIDE DEF f
  <2> QED BY <2>2, StepsAssumption, ShutFlat
<1>8. Obeys(FlattenSeq(g), Calm, Losing({Null})) /\ Obeys(FlattenSeq(h), Calm, Losing({Null}))
  <2>1. /\ g = [k \in 1 .. Units |-> g[k]] /\ \A k \in 1 .. Units : Obeys(g[k], Calm, Losing({Null}))
        /\ h = [k \in 1 .. Units |-> h[k]] /\ \A k \in 1 .. Units : Obeys(h[k], Calm, Losing({Null}))
    BY <1>2, <1>3
  <2> HIDE DEF g, h
  <2> QED BY <2>1, StepsAssumption, ObeysFlat
<1> HIDE DEF f, g, h
<1>9. Null \in {Null}
  OBVIOUS
<1>10. Shut(FlattenSeq(f) \o FlattenSeq(g), a, C)
  BY <1>7, <1>8, <1>9, ShutRest
<1>11. Shut(FlattenSeq(f) \o FlattenSeq(g) \o FlattenSeq(h), a, C)
  BY <1>8, <1>9, <1>10, ShutRest
<1>12. Shut(FlattenSeq(f) \o FlattenSeq(g) \o FlattenSeq(h) \o E, a, C)
  BY <1>5, <1>9, <1>11, ShutRest
<1> QED BY <1>6, <1>12 DEF a, C

-----------------------------------------------------------------------------
(* What the drivers take, and the ways back.                                *)

LEMMA AbortOne ==
  ASSUME NEW C
  PROVE  Abort(<<Fail>>, C) /\ Abort(<<Use(Null)>>, C)
<1>1. ASSUME NEW e \in Ends PROVE Abort(<<e>>, C)
  <2>1. \A D : Fit(e, D)
    BY <1>1, Fits DEF Ends
  <2>2. Obeys(<<e>>, Calm, Losing({Null})) /\ Obeys(<<e>>, Calm, Losing(C))
    BY <2>1, FitOne
  <2>3. <<e>> # <<>> /\ <<e>>[Len(<<e>>)] = e
    OBVIOUS
  <2> QED BY <1>1, <2>2, <2>3, GuardedKeeps DEF Abort
<1> QED BY <1>1 DEF Ends

LEMMA AbortAfter ==
  ASSUME NEW p, NEW q, NEW C, NEW D, C \cup {Null} \subseteq D, Obeys(p, Calm, Losing(D)), Abort(q, C)
  PROVE  Abort(p \o q, C)
<1>1. /\ Obeys(p, Calm, {}) /\ IsSeq(p) /\ Obeys(p, Calm, Losing(C)) /\ Obeys(p, Calm, Losing({Null}))
      /\ Obeys(q, Calm, {}) /\ IsSeq(q) /\ Obeys(q, Calm, Losing({Null})) /\ Guarded(q, Board("irq"), C)
      /\ q # <<>> /\ q[Len(q)] \in Ends
  BY CalmWeaker DEF Abort
<1>2. Guarded(p \o q, Board("irq"), C)
  BY <1>1, GuardedKeeps, GuardedBoth
<1>3. p \o q # <<>> /\ (p \o q)[Len(p \o q)] = q[Len(q)]
  <2>1. PICK S, T : p \in Seq(S) /\ q \in Seq(T)
    BY <1>1 DEF IsSeq
  <2>2. p \in Seq(S \cup T) /\ q \in Seq(S \cup T) /\ Len(q) \in 1 .. Len(q)
    BY <1>1, <2>1
  <2> QED BY <2>2
<1> QED BY <1>1, <1>2, <1>3, ObeysBoth DEF Abort

LEMMA AbortShut ==
  ASSUME NEW p, NEW q, NEW C, NEW D, C \subseteq D, Shut(p, Board("irq"), D), Abort(q, C)
  PROVE  Abort(p \o q, C)
<1>1. /\ Obeys(p, Calm, {}) /\ IsSeq(p) /\ Obeys(p, Calm, Losing({Null})) /\ Has(p, Board("irq"))
      /\ Obeys(q, Calm, {}) /\ IsSeq(q) /\ Obeys(q, Calm, Losing({Null}))
      /\ q # <<>> /\ q[Len(q)] \in Ends
  BY CalmWeaker DEF Abort, Shut
<1>2. Guarded(p, Board("irq"), C)
  <2>1. Losing(C) \subseteq Losing(D) /\ Calm \subseteq Calm
    BY DEF Losing
  <2> QED BY <2>1, ObeysWeaker DEF Shut, Guarded, Keeps
<1>3. Guarded(p \o q, Board("irq"), C)
  BY <1>1, <1>2, GuardedBoth DEF Has
<1>4. p \o q # <<>> /\ (p \o q)[Len(p \o q)] = q[Len(q)]
  <2>1. PICK S, T : p \in Seq(S) /\ q \in Seq(T)
    BY <1>1 DEF IsSeq
  <2>2. p \in Seq(S \cup T) /\ q \in Seq(S \cup T) /\ Len(q) \in 1 .. Len(q)
    BY <1>1, <2>1
  <2> QED BY <2>2
<1> QED BY <1>1, <1>3, <1>4, ObeysBoth DEF Abort

LEMMA Fields ==
  ASSUME NEW r, NEW alt
  PROVE  /\ Get(r, alt).do = "get" /\ Get(r, alt).r = r /\ Get(r, alt).alt = alt
         /\ Must(r, alt).do = "must" /\ Must(r, alt).r = r /\ Must(r, alt).alt = alt
         /\ Need(r, alt).do = "need" /\ Need(r, alt).r = r /\ Need(r, alt).alt = alt
         /\ Try(r, alt).do = "try" /\ Try(r, alt).r = r /\ Try(r, alt).alt = alt
         /\ Set(r).do = "set" /\ Set(r).r = r
         /\ Use(r).do = "use" /\ Use(r).r = r
         /\ Put(r).do = "put" /\ Put(r).r = r
BY DEF Get, Must, Need, Try, Set, Use, Put, Step

LEMMA MainSteps ==
  ASSUME NEW r, NEW alt, NEW C
  PROVE  /\ r \notin Barred /\ Abort(alt, C) =>
              MainStep(Get(r, alt), C) /\ MainStep(Must(r, alt), C) /\ MainStep(Need(r, alt), C)
         /\ r \notin Barred \cup {Board("irq")} =>
              /\ MainStep(Set(r), C) /\ MainStep(Try(r, <<>>), C)
              /\ \A x : MainStep(Try(r, <<Use(x)>>), C)
         /\ MainStep(Use(r), C)
         /\ r \notin Dear => MainStep(Put(r), C)
<1>1. ASSUME r \notin Barred, Abort(alt, C)
      PROVE  MainStep(Get(r, alt), C) /\ MainStep(Must(r, alt), C) /\ MainStep(Need(r, alt), C)
  BY <1>1, Fields DEF MainStep
<1>2. ASSUME r \notin Barred \cup {Board("irq")}
      PROVE  MainStep(Set(r), C) /\ MainStep(Try(r, <<>>), C)
  BY <1>2, Fields DEF MainStep
<1>3. ASSUME r \notin Barred \cup {Board("irq")}, NEW x PROVE MainStep(Try(r, <<Use(x)>>), C)
  <2>1. PICK u : u = <<Use(x)>>
    OBVIOUS
  <2>2. Try(r, u).do = "try" /\ Try(r, u).r = r /\ Try(r, u).alt = u
    BY Fields
  <2>3. MainStep(Try(r, u), C)
    BY <1>3, <2>1, <2>2 DEF MainStep
  <2> QED BY <2>1, <2>3
<1>4. MainStep(Use(r), C) /\ (r \notin Dear => MainStep(Put(r), C))
  BY Fields DEF MainStep
<1> QED BY <1>1, <1>2, <1>3, <1>4

LEMMA MainSpares ==
  ASSUME NEW q, NEW C, Main(q, C)
  PROVE  IsSeq(q) /\ Spares(q, Null)
<1>1. Null \in Barred
  BY DEF Barred
<1>2. ASSUME NEW s, MainStep(s, C), s.do = "get" PROVE s.r # Null
  BY <1>1, <1>2 DEF MainStep
<1> QED BY <1>2 DEF Main, Spares

\* Two parts of a probe, the one or the other of which takes c.
LEMMA MainJoin ==
  ASSUME NEW p, NEW q, NEW C, Main(p, C), Main(q, C)
  PROVE  /\ Main(p \o q, C)
         /\ \A c : Early(p, c, Null) \/ Early(q, c, Null) => Early(p \o q, c, Null)
         /\ \A c, x : Early(p, c, x) => Early(p \o q, c, x)
         /\ \A c, x : Spares(p, x) /\ Early(q, c, x) => Early(p \o q, c, x)
         /\ \A x : Spares(p, x) /\ Spares(q, x) => Spares(p \o q, x)
<1>1. IsSeq(p) /\ IsSeq(q) /\ Spares(p, Null)
  BY MainSpares
<1> QED BY <1>1, MainBoth, EarlyBoth, SparesBoth

LEMMA EarlyList ==
  ASSUME NEW T, NEW q \in Seq(T), NEW x, \A t \in T : t.do # "get" \/ t.r # x
  PROVE  /\ Spares(q, x)
         /\ \A j \in 1 .. Len(q) : \A c : q[j].do = "get" /\ q[j].r = c => Early(q, c, x)
<1>1. \A i \in 1 .. Len(q) : q[i] \in T
  OBVIOUS
<1>2. Spares(q, x)
  BY <1>1 DEF Spares
<1>3. ASSUME NEW j \in 1 .. Len(q), NEW c, q[j].do = "get", q[j].r = c PROVE Early(q, c, x)
  <2>1. \A i \in 1 .. j - 1 : i \in 1 .. Len(q)
    OBVIOUS
  <2> QED BY <1>1, <1>3, <2>1 DEF Early
<1> QED BY <1>2, <1>3

\* In a probe, a step that takes c.
LEMMA EarlyNull ==
  ASSUME NEW q, NEW C, Main(q, C), NEW j \in 1 .. Len(q), q[j].do = "get"
  PROVE  Early(q, q[j].r, Null)
<1>1. Spares(q, Null) /\ \A i \in 1 .. j - 1 : i \in 1 .. Len(q)
  <2>1. PICK S : q \in Seq(S)
    BY DEF Main, IsSeq
  <2> QED BY <2>1, MainSpares
<1> QED BY <1>1 DEF Spares, Early

\* A step of a probe that does not take the interrupt; such a part of a
\* probe; a part that takes c.
Plain(s, C) == MainStep(s, C) /\ (s.do # "get" \/ s.r # Board("irq"))
Way(q, C) == Main(q, C) /\ Spares(q, Board("irq"))
Takes(q, c) == \E j \in 1 .. Len(q) : q[j].do = "get" /\ q[j].r = c

LEMMA PlainSteps ==
  ASSUME NEW r, NEW alt, NEW C
  PROVE  /\ r \notin Barred \cup {Board("irq")} /\ Abort(alt, C) =>
              Plain(Get(r, alt), C) /\ Plain(Must(r, alt), C) /\ Plain(Need(r, alt), C)
         /\ r \notin Barred \cup {Board("irq")} =>
              /\ Plain(Set(r), C) /\ Plain(Try(r, <<>>), C)
              /\ \A x : Plain(Try(r, <<Use(x)>>), C)
         /\ Plain(Use(r), C)
         /\ r \notin Dear => Plain(Put(r), C)
<1>1. /\ Get(r, alt).r = r /\ Must(r, alt).do = "must" /\ Need(r, alt).do = "need" /\ Set(r).do = "set"
      /\ Use(r).do = "use" /\ Put(r).do = "put" /\ \A then : Try(r, then).do = "try"
  BY Fields
<1>2. /\ r \notin Barred /\ Abort(alt, C) => MainStep(Get(r, alt), C) /\ MainStep(Must(r, alt), C) /\ MainStep(Need(r, alt), C)
      /\ r \notin Barred \cup {Board("irq")} =>
              /\ MainStep(Set(r), C) /\ MainStep(Try(r, <<>>), C)
              /\ \A x : MainStep(Try(r, <<Use(x)>>), C)
      /\ MainStep(Use(r), C)
      /\ r \notin Dear => MainStep(Put(r), C)
  BY MainSteps
<1> QED BY <1>1, <1>2 DEF Plain

LEMMA WayList ==
  ASSUME NEW T, NEW q \in Seq(T), NEW C, \A s \in T : Plain(s, C)
  PROVE  /\ Way(q, C)
         /\ \A j \in 1 .. Len(q) : \A c, alt : q[j] = Get(c, alt) => Takes(q, c)
<1>1. Main(q, C)
  BY MainList DEF Plain
<1>2. Spares(q, Board("irq"))
  <2>1. \A t \in T : t.do # "get" \/ t.r # Board("irq")
    BY DEF Plain
  <2> QED BY <2>1, EarlyList
<1>3. ASSUME NEW j \in 1 .. Len(q), NEW c, NEW alt, q[j] = Get(c, alt) PROVE Takes(q, c)
  BY <1>3, Fields DEF Takes
<1> QED BY <1>1, <1>2, <1>3 DEF Way

LEMMA TakesBoth ==
  ASSUME NEW p, NEW q, IsSeq(p), IsSeq(q), NEW c, Takes(p, c) \/ Takes(q, c)
  PROVE  Takes(p \o q, c)
<1>1. PICK w : w = p \o q
  OBVIOUS
<1>2. PICK m : m = Len(p)
  OBVIOUS
<1>3. PICK n : n = Len(q)
  OBVIOUS
<1>4. /\ m \in Nat /\ n \in Nat /\ Len(w) = m + n
      /\ \A j \in 1 .. m : w[j] = p[j]
      /\ \A j \in 1 .. n : w[m + j] = q[j]
  BY <1>1, <1>2, <1>3, BothPlaces
<1>5. CASE Takes(p, c)
  <2>1. PICK j \in 1 .. m : p[j].do = "get" /\ p[j].r = c
    BY <1>2, <1>5 DEF Takes
  <2>2. j \in 1 .. Len(w) /\ w[j] = p[j]
    BY <1>4
  <2> QED BY <1>1, <2>1, <2>2 DEF Takes
<1>6. CASE Takes(q, c)
  <2>1. PICK j \in 1 .. n : q[j].do = "get" /\ q[j].r = c
    BY <1>3, <1>6 DEF Takes
  <2>2. m + j \in 1 .. Len(w) /\ w[m + j] = q[j]
    BY <1>4
  <2> QED BY <1>1, <2>1, <2>2 DEF Takes
<1> QED BY <1>5, <1>6

LEMMA TakesFlat ==
  ASSUME NEW n \in Nat \ {0}, NEW f, f = [i \in 1 .. n |-> f[i]], \A i \in 1 .. n : IsSeq(f[i]),
         NEW c, NEW k \in 1 .. n, Takes(f[k], c)
  PROVE  Takes(FlattenSeq(f), c)
<1>1. PICK w : w = FlattenSeq(f)
  OBVIOUS
<1>2. PICK start \in [1 .. n -> Nat] : Places1(f, n, w, start)
  BY <1>1, PartPlaces DEF Spread
<1>3. PICK m \in 1 .. Len(f[k]) : f[k][m].do = "get" /\ f[k][m].r = c
  BY DEF Takes
<1>4. start[k] + m \in 1 .. Len(w) /\ w[start[k] + m] = f[k][m]
  BY <1>2, <1>3 DEF Places1
<1> QED BY <1>1, <1>3, <1>4 DEF Takes

LEMMA WayBoth ==
  ASSUME NEW p, NEW q, NEW C, Way(p, C), Way(q, C)
  PROVE  /\ Way(p \o q, C) /\ IsSeq(p) /\ IsSeq(q)
         /\ \A c : Takes(p, c) \/ Takes(q, c) => Takes(p \o q, c)
<1>1. IsSeq(p) /\ IsSeq(q)
  BY DEF Way, Main
<1> QED BY <1>1, MainBoth, SparesBoth, TakesBoth DEF Way

LEMMA WayFlat ==
  ASSUME NEW n \in Nat \ {0}, NEW f, f = [i \in 1 .. n |-> f[i]], NEW C, \A i \in 1 .. n : Way(f[i], C)
  PROVE  /\ Way(FlattenSeq(f), C)
         /\ \A k \in 1 .. n : \A c : Takes(f[k], c) => Takes(FlattenSeq(f), c)
<1>1. \A i \in 1 .. n : Main(f[i], C) /\ IsSeq(f[i]) /\ Spares(f[i], Board("irq"))
  BY DEF Way, Main
<1>2. Main(FlattenSeq(f), C)
  BY <1>1, MainFlat
<1>3. Spares(FlattenSeq(f), Board("irq"))
  BY <1>1, SparesFlat
<1> QED BY <1>1, <1>2, <1>3, TakesFlat DEF Way

\* What a part takes that does not take the interrupt, it takes early.
LEMMA WayEarly ==
  ASSUME NEW q, NEW C, Way(q, C), NEW c, Takes(q, c)
  PROVE  Early(q, c, Board("irq"))
<1>1. PICK S : q \in Seq(S)
  BY DEF Way, Main, IsSeq
<1>2. PICK j \in 1 .. Len(q) : q[j].do = "get" /\ q[j].r = c
  BY DEF Takes
<1>3. \A i \in 1 .. j - 1 : i \in 1 .. Len(q)
  BY <1>1
<1> QED BY <1>2, <1>3 DEF Early, Way, Spares

\* In a probe, what is taken is taken early.
LEMMA MainEarly ==
  ASSUME NEW q, NEW C, Main(q, C), NEW c, Takes(q, c)
  PROVE  Early(q, c, Null)
<1>1. PICK j \in 1 .. Len(q) : q[j].do = "get" /\ q[j].r = c
  BY DEF Takes
<1> QED BY <1>1, EarlyNull

LEMMA PtxAllocWay ==
  ASSUME NEW C, C \subseteq Dear, NEW fail, Abort(fail, C)
  PROVE  Way(PtxAlloc(fail), C)
<1> DEFINE undo == <<Put(Board("card"))>> \o fail
           T == {Get(Board("card"), fail), Get(Board("pci"), undo), Must(Board("dma mask"), undo),
                 Get(Board("regions"), undo), Set(Board("drvdata"))}
<1>1. \A n \in {"card", "pci", "dma mask", "regions", "drvdata"} : Board(n) \notin Dear /\ Board(n) \notin Barred \cup {Board("irq")}
  BY DEF Board, Null, Dear, Barred, Engines, Buffers, Pages
<1>2. Abort(undo, C)
  <2>1. Obeys(<<Put(Board("card"))>>, Calm, Losing(Dear))
    BY <1>1, Fits, FitOne
  <2>2. C \cup {Null} \subseteq Dear
    BY DEF Dear
  <2> QED BY <2>1, <2>2, AbortAfter
<1>3. \A s \in T : Plain(s, C)
  <2> HIDE DEF undo
  <2> QED BY <1>1, <1>2, PlainSteps
<1>4. PtxAlloc(fail) \in Seq(T)
  BY DEF PtxAlloc
<1> HIDE DEF T
<1> QED BY <1>3, <1>4, WayList

LEMMA PtxRegisterWay ==
  ASSUME NEW C, C \subseteq Dear, NEW fail, Abort(fail, C), NEW bar
  PROVE  Way(PtxRegister(fail, bar), C)
<1> DEFINE undo(i) == UnregisterFe(i) \o <<Clear(<<"fe", i>>)>> \o fail
           front(i) == <<Get(<<"fe", i>>, fail)>> \o RegisterSubdev(<<"demod", i>>) \o RegisterSubdev(<<"tuner", i>>)
                       \o <<Need(<<"demod", i>>, undo(i)), Need(<<"tuner", i>>, undo(i)), Get(<<"frontend", i>>, undo(i))>>
           adapter(i) ==
             <<Get(<<"dvb", i>>, fail), Get(<<"demux", i>>, fail), Get(<<"dmxdev", i>>, fail)>>
             \o RegisterFe(i, fail) \o <<Use(bar)>>
           f == [i \in 1 .. Units |-> adapter(i)]
<1>1. ASSUME NEW i PROVE Way(adapter(i), C)
  <2> DEFINE T == {Get(<<"dvb", i>>, fail), Get(<<"demux", i>>, fail), Get(<<"dmxdev", i>>, fail),
                   Get(<<"fe", i>>, fail), Try(<<"demod", i>>, <<>>), Try(<<"tuner", i>>, <<>>),
                   Need(<<"demod", i>>, undo(i)), Need(<<"tuner", i>>, undo(i)), Get(<<"frontend", i>>, undo(i)),
                   Use(bar)}
  <2>1. \A n \in {"dvb", "demux", "dmxdev", "fe", "demod", "tuner", "frontend"} :
          <<n, i>> \notin Dear /\ <<n, i>> \notin Barred \cup {Board("irq")}
    BY DEF Board, Null, Dear, Barred, Engines, Buffers, Pages
  <2>2. Abort(undo(i), C)
    <3>1. Obeys(UnregisterFe(i), Calm, Losing(Dear)) /\ Obeys(<<Clear(<<"fe", i>>)>>, Calm, Losing(Dear))
      BY <2>1, UnregisterFeFits, Fits, FitOne
    <3>2. Obeys(UnregisterFe(i) \o <<Clear(<<"fe", i>>)>>, Calm, Losing(Dear))
      BY <3>1, ObeysBoth
    <3>3. C \cup {Null} \subseteq Dear
      BY DEF Dear
    <3> QED BY <3>2, <3>3, AbortAfter
  <2>3. RegisterFe(i, fail) = front(i)
    BY Zenon DEF RegisterFe
  <2> HIDE DEF undo
  <2>4. \A s \in T : Plain(s, C)
    BY <2>1, <2>2, PlainSteps
  <2>5. front(i) \in Seq(T)
    BY DEF RegisterSubdev
  <2> HIDE DEF front
  <2>6. <<Get(<<"dvb", i>>, fail), Get(<<"demux", i>>, fail), Get(<<"dmxdev", i>>, fail)>> \in Seq(T) /\ <<Use(bar)>> \in Seq(T)
    OBVIOUS
  <2>7. adapter(i) \in Seq(T)
    <3> HIDE DEF T
    <3> QED BY <2>3, <2>5, <2>6
  <2> HIDE DEF T, adapter
  <2> QED BY <2>4, <2>7, WayList
<1>2. PtxRegister(fail, bar) = FlattenSeq(f)
  BY Zenon DEF PtxRegister, Each
<1> HIDE DEF adapter
<1>3. f = [i \in 1 .. Units |-> f[i]] /\ \A i \in 1 .. Units : Way(f[i], C)
  BY <1>1
<1> HIDE DEF f
<1> QED BY <1>2, <1>3, StepsAssumption, WayFlat

LEMMA PairOf ==
  ASSUME NEW names, NEW units, NEW c \in names \X units
  PROVE  \E n \in names, u \in units : c = <<n, u>>
OBVIOUS

LEMMA InPages ==
  ASSUME NEW c \in Pages
  PROVE  \E n \in {"ts page 1", "ts page 2", "desc page 1", "desc page 2"}, i \in 1 .. Units : c = <<n, i>>
<1>1. PICK names : names = {"ts page 1", "ts page 2", "desc page 1", "desc page 2"}
  OBVIOUS
<1>2. PICK units : units = 1 .. Units
  OBVIOUS
<1>3. c \in names \X units
  BY <1>1, <1>2 DEF Pages
<1>4. PICK n \in names, u \in units : c = <<n, u>>
  BY <1>3, PairOf
<1> QED BY <1>1, <1>2, <1>4

LEMMA Pt3ProbeWay ==
  Way(Pt3Probe, {}) /\ \A c \in Pages : Takes(Pt3Probe, c)
<1> DEFINE abort == Pt3Remove \o <<Fail>>
           pages(i) == [k \in 1 .. 4 |-> Get(DmaPages(i)[k], abort)]
           infos(i) == <<Try(<<"ts_info", i>>, <<>>), Try(<<"desc_info", i>>, <<>>),
                         Need(<<"ts_info", i>>, abort), Need(<<"desc_info", i>>, abort)>>
           adapter(i) == <<Set(<<"dma_base", i>>)>> \o Pt3DmaCreate(i, abort)
           f == [i \in 1 .. Units |-> adapter(i)]
           A == PtxAlloc(<<Fail>>)
           B == <<Must(Board("config"), abort), Must(Board("revision"), abort),
                  Try(Board("bar_reg"), <<>>), Try(Board("bar_mem"), <<>>),
                  Need(Board("bar_reg"), abort), Need(Board("bar_mem"), abort),
                  Must(Board("fpga"), abort)>>
           D == FlattenSeq(f)
           E == <<Get(Board("i2c"), abort), Must(Board("flush"), abort)>>
           F == PtxRegister(abort, Board("bar_reg"))
           G == <<Must(Board("power"), abort)>>
<1>1. Abort(abort, {})
  <2>1. 1 \in 1 .. Units
    BY StepsAssumption
  <2>2. Obeys(Pt3Remove, Calm, Losing({Null}))
    BY <2>1, Pt3RemoveFits DEF Shut
  <2>3. {} \cup {Null} \subseteq {Null}
    OBVIOUS
  <2> QED BY <2>2, <2>3, AbortOne, AbortAfter
<1> HIDE DEF abort
<1>2. {} \subseteq Dear
  OBVIOUS
<1>3. Way(A, {}) /\ Way(F, {})
  BY <1>1, <1>2, AbortOne, PtxAllocWay, PtxRegisterWay
<1>4. ASSUME NEW i \in 1 .. Units
      PROVE  /\ Way(adapter(i), {})
             /\ \A n \in {"ts page 1", "ts page 2", "desc page 1", "desc page 2"} : Takes(adapter(i), <<n, i>>)
  <2> DEFINE T1 == {Get(<<"desc page 1", i>>, abort), Get(<<"desc page 2", i>>, abort),
                    Get(<<"ts page 1", i>>, abort), Get(<<"ts page 2", i>>, abort)}
             T2 == {Try(<<"ts_info", i>>, <<>>), Try(<<"desc_info", i>>, <<>>),
                    Need(<<"ts_info", i>>, abort), Need(<<"desc_info", i>>, abort)}
             T3 == {Set(<<"dma_base", i>>)}
  <2>1. \A n \in {"ts page 1", "ts page 2", "desc page 1", "desc page 2", "ts_info", "desc_info", "dma_base"} :
          <<n, i>> \notin Barred \cup {Board("irq")}
    BY DEF Board, Null, Barred, Engines
  <2>2. (\A s \in T1 : Plain(s, {})) /\ (\A s \in T2 : Plain(s, {})) /\ (\A s \in T3 : Plain(s, {}))
    BY <1>1, <2>1, PlainSteps
  <2>3. infos(i) \in Seq(T2) /\ <<Set(<<"dma_base", i>>)>> \in Seq(T3)
    OBVIOUS
  <2>4. /\ pages(i) \in Seq(T1) /\ Len(pages(i)) = 4
        /\ pages(i)[1] = Get(<<"desc page 1", i>>, abort) /\ pages(i)[2] = Get(<<"desc page 2", i>>, abort)
        /\ pages(i)[3] = Get(<<"ts page 1", i>>, abort) /\ pages(i)[4] = Get(<<"ts page 2", i>>, abort)
    <3>1. PICK p : p = DmaPages(i)
      OBVIOUS
    <3>2. /\ p[1] = <<"desc page 1", i>> /\ p[2] = <<"desc page 2", i>>
          /\ p[3] = <<"ts page 1", i>> /\ p[4] = <<"ts page 2", i>>
      BY <3>1 DEF DmaPages
    <3>3. pages(i) = [k \in 1 .. 4 |-> Get(p[k], abort)]
      BY <3>1
    <3>4. \A k \in 1 .. 4 : k = 1 \/ k = 2 \/ k = 3 \/ k = 4
      OBVIOUS
    <3>5. \A k \in 1 .. 4 : Get(p[k], abort) \in T1
      BY <3>2, <3>4
    <3> HIDE DEF T1, pages
    <3>6. /\ pages(i) \in [1 .. 4 -> T1]
          /\ \A k \in 1 .. 4 : pages(i)[k] = Get(p[k], abort)
      BY <3>3, <3>5
    <3>7. pages(i) \in Seq(T1) /\ Len(pages(i)) = 4
      BY <3>3, <3>5
    <3>8. 1 \in 1 .. 4 /\ 2 \in 1 .. 4 /\ 3 \in 1 .. 4 /\ 4 \in 1 .. 4
      OBVIOUS
    <3> QED BY <3>2, <3>6, <3>7, <3>8, Zenon
  <2> HIDE DEF T1, T2, T3, pages, infos
  <2>5. /\ Way(pages(i), {}) /\ Way(infos(i), {}) /\ Way(<<Set(<<"dma_base", i>>)>>, {})
    <3>1. PICK l : l = <<Set(<<"dma_base", i>>)>>
      OBVIOUS
    <3>2. Way(l, {})
      BY <2>2, <2>3, <3>1, WayList
    <3> QED BY <2>2, <2>3, <2>4, <3>1, <3>2, WayList
  <2>6. \A n \in {"ts page 1", "ts page 2", "desc page 1", "desc page 2"} : Takes(pages(i), <<n, i>>)
    <3>1. \A j \in 1 .. 4 : \A c, alt : pages(i)[j] = Get(c, alt) => Takes(pages(i), c)
      BY <2>2, <2>4, WayList
    <3>2. 1 \in 1 .. 4 /\ 2 \in 1 .. 4 /\ 3 \in 1 .. 4 /\ 4 \in 1 .. 4
      OBVIOUS
    <3> QED BY <2>4, <3>1, <3>2
  <2>7. Pt3DmaCreate(i, abort) = infos(i) \o pages(i)
    BY DEF Pt3DmaCreate, infos, pages
  <2>8. /\ Way(infos(i) \o pages(i), {})
        /\ \A n \in {"ts page 1", "ts page 2", "desc page 1", "desc page 2"} : Takes(infos(i) \o pages(i), <<n, i>>)
    BY <2>5, <2>6, WayBoth
  <2>9. PICK w : w = Pt3DmaCreate(i, abort)
    OBVIOUS
  <2>10. /\ Way(<<Set(<<"dma_base", i>>)>> \o w, {})
         /\ \A n \in {"ts page 1", "ts page 2", "desc page 1", "desc page 2"} :
              Takes(<<Set(<<"dma_base", i>>)>> \o w, <<n, i>>)
    BY <2>5, <2>7, <2>8, <2>9, WayBoth
  <2> QED BY <2>9, <2>10
<1> HIDE DEF adapter
<1>5. Way(D, {}) /\ \A c \in Pages : Takes(D, c)
  <2>1. f = [i \in 1 .. Units |-> f[i]] /\ \A i \in 1 .. Units : f[i] = adapter(i) /\ Way(f[i], {})
    BY <1>4
  <2> HIDE DEF f
  <2>2. Way(D, {}) /\ \A i \in 1 .. Units : \A c : Takes(f[i], c) => Takes(D, c)
    BY <2>1, StepsAssumption, WayFlat
  <2>3. ASSUME NEW c \in Pages PROVE Takes(D, c)
    <3>1. PICK n \in {"ts page 1", "ts page 2", "desc page 1", "desc page 2"}, i \in 1 .. Units : c = <<n, i>>
      BY InPages
    <3>3. i \in 1 .. Units /\ n \in {"ts page 1", "ts page 2", "desc page 1", "desc page 2"}
      BY <3>1
    <3>4. Takes(adapter(i), <<n, i>>) /\ f[i] = adapter(i)
      BY <1>4, <2>1, <3>3
    <3> QED BY <2>2, <3>1, <3>3, <3>4
  <2> QED BY <2>2, <2>3
<1>6. Way(B, {}) /\ Way(E, {}) /\ Way(G, {})
  <2> DEFINE T == {Must(Board("config"), abort), Must(Board("revision"), abort),
                   Try(Board("bar_reg"), <<>>), Try(Board("bar_mem"), <<>>),
                   Need(Board("bar_reg"), abort), Need(Board("bar_mem"), abort),
                   Must(Board("fpga"), abort), Get(Board("i2c"), abort), Must(Board("flush"), abort),
                   Must(Board("power"), abort)}
  <2>1. \A n \in {"config", "revision", "bar_reg", "bar_mem", "fpga", "i2c", "flush", "power"} :
          Board(n) \notin Barred \cup {Board("irq")}
    BY DEF Board, Null, Barred, Engines
  <2>2. \A s \in T : Plain(s, {})
    BY <1>1, <2>1, PlainSteps
  <2>3. B \in Seq(T) /\ E \in Seq(T) /\ G \in Seq(T)
    OBVIOUS
  <2> HIDE DEF T, B, E, G
  <2> QED BY <2>2, <2>3, WayList
<1>7. Pt3Probe = A \o B \o D \o E \o F \o G
  BY Zenon DEF Pt3Probe, Each, abort, adapter
<1> HIDE DEF A, B, D, E, F, G, f
<1>8. Way(A \o B \o D, {}) /\ \A c \in Pages : Takes(A \o B \o D, c)
  BY <1>3, <1>5, <1>6, WayBoth
<1>9. PICK w : w = A \o B \o D
  OBVIOUS
<1>10. Way(w \o E \o F \o G, {}) /\ \A c \in Pages : Takes(w \o E \o F \o G, c)
  BY <1>3, <1>6, <1>8, <1>9, WayBoth
<1> QED BY <1>7, <1>9, <1>10

\* A probe that takes what the handler uses before the handler, and the DMA
\* buffer.
Readies(q) ==
  /\ Main(q, Watched) /\ Early(q, Board("dma"), Null)
  /\ \A c \in Watched : Early(q, c, Board("irq"))

LEMMA ReadyParts ==
  ASSUME NEW p, NEW q, NEW r, Way(p, Watched), \A c \in Watched : Takes(p, c),
         Main(q, Watched), Takes(q, Board("dma")), Way(r, Watched)
  PROVE  Readies(p \o q \o r)
<1>1. PICK u : u = p \o q
  OBVIOUS
<1>2. \A c \in Watched : Early(p, c, Board("irq"))
  BY WayEarly
<1>3. Main(p, Watched) /\ Main(r, Watched)
  BY DEF Way
<1>4. Main(u, Watched) /\ Takes(u, Board("dma")) /\ \A c \in Watched : Early(u, c, Board("irq"))
  <2>1. IsSeq(p) /\ IsSeq(q)
    BY <1>3 DEF Main
  <2> QED BY <1>1, <1>2, <1>3, <2>1, MainJoin, TakesBoth
<1>5. Main(u \o r, Watched) /\ Takes(u \o r, Board("dma")) /\ \A c \in Watched : Early(u \o r, c, Board("irq"))
  <2>1. IsSeq(u) /\ IsSeq(r)
    BY <1>3, <1>4 DEF Main
  <2> QED BY <1>3, <1>4, <2>1, MainJoin, TakesBoth
<1>6. Early(u \o r, Board("dma"), Null)
  BY <1>5, MainEarly
<1> QED BY <1>1, <1>5, <1>6 DEF Readies

LEMMA PxqReady ==
  ASSUME NEW abort, Abort(abort, Watched)
  PROVE  LET q == <<Get(Board("irq"), abort), Get(Board("dma"), abort), Must(Board("hw_init"), abort)>>
         IN  Main(q, Watched) /\ Takes(q, Board("dma"))
<1> DEFINE q == <<Get(Board("irq"), abort), Get(Board("dma"), abort), Must(Board("hw_init"), abort)>>
           T == {Get(Board("irq"), abort), Get(Board("dma"), abort), Must(Board("hw_init"), abort)}
<1>1. \A n \in {"irq", "dma", "hw_init"} : Board(n) \notin Barred
  BY DEF Board, Null, Barred, Engines
<1>2. \A s \in T : MainStep(s, Watched)
  BY <1>1, MainSteps
<1>3. q \in Seq(T) /\ 2 \in 1 .. Len(q) /\ q[2] = Get(Board("dma"), abort)
  OBVIOUS
<1> HIDE DEF T, q
<1>4. Main(q, Watched)
  BY <1>2, <1>3, MainList
<1>5. Takes(q, Board("dma"))
  BY <1>3, Fields DEF Takes
<1> QED BY <1>4, <1>5 DEF q

LEMMA PxqProbeReadies == Readies(PxqProbe)
<1> DEFINE abort == PxqRemove \o <<Fail>>
           buffer(i) == <<Get(<<"sBuf", i>>, abort)>>
           f == [i \in 1 .. Units |-> buffer(i)]
           A == PtxAlloc(<<Use(Null)>>)
           B == <<Must(Board("config"), abort), Must(Board("master"), abort), Get(Board("bar"), abort),
                  Get(Board("i2c"), abort)>>
           D == FlattenSeq(f)
           Y == <<Get(Board("irq"), abort), Get(Board("dma"), abort), Must(Board("hw_init"), abort)>>
           Z == PtxRegister(abort, Board("bar"))
<1>1. Abort(abort, Watched)
  <2>1. Watched \subseteq Watched
    OBVIOUS
  <2> QED BY <2>1, PxqRemoveFits, AbortOne, AbortShut
<1> HIDE DEF abort
<1>2. Watched \subseteq Dear
  BY DEF Watched, Dear
<1>3. Way(A, Watched) /\ Way(Z, Watched)
  BY <1>1, <1>2, AbortOne, PtxAllocWay, PtxRegisterWay
<1>4. Way(B, Watched) /\ Takes(B, Board("bar"))
  <2> DEFINE T == {Must(Board("config"), abort), Must(Board("master"), abort), Get(Board("bar"), abort),
                   Get(Board("i2c"), abort)}
  <2>1. \A n \in {"config", "master", "bar", "i2c"} : Board(n) \notin Barred \cup {Board("irq")}
    BY DEF Board, Null, Barred, Engines
  <2>2. \A s \in T : Plain(s, Watched)
    BY <1>1, <2>1, PlainSteps
  <2>3. B \in Seq(T) /\ 3 \in 1 .. Len(B) /\ B[3] = Get(Board("bar"), abort)
    OBVIOUS
  <2> HIDE DEF T, B
  <2> QED BY <2>2, <2>3, WayList
<1>5. ASSUME NEW i \in 1 .. Units PROVE Way(buffer(i), Watched) /\ Takes(buffer(i), <<"sBuf", i>>)
  <2> DEFINE T == {Get(<<"sBuf", i>>, abort)}
  <2>1. <<"sBuf", i>> \notin Barred \cup {Board("irq")}
    BY DEF Board, Null, Barred, Engines
  <2>2. \A s \in T : Plain(s, Watched)
    BY <1>1, <2>1, PlainSteps
  <2>3. buffer(i) \in Seq(T) /\ 1 \in 1 .. Len(buffer(i)) /\ buffer(i)[1] = Get(<<"sBuf", i>>, abort)
    OBVIOUS
  <2> HIDE DEF T, buffer
  <2> QED BY <2>2, <2>3, WayList
<1>6. Way(D, Watched) /\ \A c \in Buffers : Takes(D, c)
  <2> HIDE DEF buffer
  <2>1. f = [i \in 1 .. Units |-> f[i]] /\ \A i \in 1 .. Units : f[i] = buffer(i) /\ Way(f[i], Watched)
    BY <1>5
  <2> HIDE DEF f
  <2>2. Way(D, Watched) /\ \A i \in 1 .. Units : \A c : Takes(f[i], c) => Takes(D, c)
    BY <2>1, StepsAssumption, WayFlat
  <2>3. ASSUME NEW c \in Buffers PROVE Takes(D, c)
    <3>1. PICK n \in {"sBuf"}, i \in 1 .. Units : c = <<n, i>>
      BY DEF Buffers
    <3> QED BY <1>5, <2>1, <2>2, <3>1
  <2> QED BY <2>2, <2>3
<1>7. Main(Y, Watched) /\ Takes(Y, Board("dma"))
  BY <1>1, PxqReady, Zenon
<1>8. PxqProbe = A \o B \o D \o Y \o Z
  BY Zenon DEF PxqProbe, Each, abort
<1> HIDE DEF A, B, D, Y, Z, f
<1>9. Way(A \o B \o D, Watched) /\ \A c \in Watched : Takes(A \o B \o D, c)
  <2>1. \A c \in Watched : c = Board("bar") \/ c \in Buffers
    BY DEF Watched
  <2>2. PICK u : u = A \o B
    OBVIOUS
  <2>3. Way(u, Watched) /\ Takes(u, Board("bar"))
    BY <1>3, <1>4, <2>2, WayBoth
  <2>4. Way(u \o D, Watched) /\ \A c : Takes(u, c) \/ Takes(D, c) => Takes(u \o D, c)
    BY <1>6, <2>3, WayBoth
  <2> QED BY <1>6, <2>1, <2>2, <2>3, <2>4
<1>10. PICK w : w = A \o B \o D
  OBVIOUS
<1>11. Readies(w \o Y \o Z)
  BY <1>3, <1>7, <1>9, <1>10, ReadyParts
<1> QED BY <1>8, <1>10, <1>11

LEMMA PxqProbeCdevReadies == Readies(PxqProbeCdev)
<1> DEFINE abort == PxqRemoveCdev \o <<Fail>>
           node(i) == <<Get(<<"sBuf", i>>, abort), Set(<<"p->card", i>>), Try(<<"cdev", i>>, <<>>),
                        Try(<<"node", i>>, <<>>)>>
           chips(i) == <<Get(<<"demod", i>>, abort), Try(<<"demod priv", i>>, <<>>), Get(<<"tuner", i>>, abort),
                         Try(<<"tuner priv", i>>, <<Use(<<"demod priv", i>>)>>)>>
           f == [i \in 1 .. Units |-> node(i)]
           g == [i \in 1 .. Units |-> chips(i)]
           A == <<Get(Board("card"), <<Fail>>), Get(Board("pci"), <<Fail>>), Must(Board("dma mask"), <<Fail>>),
                  Get(Board("regions"), <<Fail>>), Set(Board("drvdata")), Must(Board("master"), abort),
                  Get(Board("bar"), abort), Get(Board("numbers"), abort), Get(Board("i2c"), abort),
                  Must(Board("free slot"), abort), Set(Board("slot")), Get(Board("adap"), abort)>>
           D == FlattenSeq(f)
           Y == <<Get(Board("irq"), abort), Get(Board("dma"), abort), Must(Board("hw_init"), abort)>>
           Z == FlattenSeq(g)
<1>1. Abort(abort, Watched) /\ Abort(<<Fail>>, Watched)
  <2>1. Watched \subseteq Watched \cup {Board("dma")}
    OBVIOUS
  <2> QED BY <2>1, PxqRemoveCdevFits, AbortOne, AbortShut
<1> HIDE DEF abort
<1>2. Way(A, Watched) /\ Takes(A, Board("bar"))
  <2> DEFINE T == {Get(Board("card"), <<Fail>>), Get(Board("pci"), <<Fail>>), Must(Board("dma mask"), <<Fail>>),
                   Get(Board("regions"), <<Fail>>), Set(Board("drvdata")), Must(Board("master"), abort),
                   Get(Board("bar"), abort), Get(Board("numbers"), abort), Get(Board("i2c"), abort),
                   Must(Board("free slot"), abort), Set(Board("slot")), Get(Board("adap"), abort)}
  <2>1. \A n \in {"card", "pci", "dma mask", "regions", "drvdata", "master", "bar", "numbers", "i2c", "free slot",
                  "slot", "adap"} : Board(n) \notin Barred \cup {Board("irq")}
    BY DEF Board, Null, Barred, Engines
  <2>2. \A s \in T : Plain(s, Watched)
    <3>1. PICK e : e = <<Fail>>
      OBVIOUS
    <3> QED BY <1>1, <2>1, <3>1, PlainSteps
  <2>3. A \in Seq(T) /\ 7 \in 1 .. Len(A) /\ A[7] = Get(Board("bar"), abort)
    OBVIOUS
  <2> HIDE DEF T, A
  <2> QED BY <2>2, <2>3, WayList
<1>3. ASSUME NEW i \in 1 .. Units
      PROVE  Way(node(i), Watched) /\ Takes(node(i), <<"sBuf", i>>) /\ Way(chips(i), Watched)
  <2> DEFINE T == {Get(<<"sBuf", i>>, abort), Set(<<"p->card", i>>), Try(<<"cdev", i>>, <<>>),
                   Try(<<"node", i>>, <<>>)}
             U == {Get(<<"demod", i>>, abort), Try(<<"demod priv", i>>, <<>>), Get(<<"tuner", i>>, abort),
                   Try(<<"tuner priv", i>>, <<Use(<<"demod priv", i>>)>>)}
  <2>1. \A n \in {"sBuf", "p->card", "cdev", "node", "demod", "demod priv", "tuner", "tuner priv"} :
          <<n, i>> \notin Barred \cup {Board("irq")}
    BY DEF Board, Null, Barred, Engines
  <2>2. (\A s \in T : Plain(s, Watched)) /\ (\A s \in U : Plain(s, Watched))
    BY <1>1, <2>1, PlainSteps
  <2>3. node(i) \in Seq(T) /\ 1 \in 1 .. Len(node(i)) /\ node(i)[1] = Get(<<"sBuf", i>>, abort) /\ chips(i) \in Seq(U)
    OBVIOUS
  <2> HIDE DEF T, U, node, chips
  <2> QED BY <2>2, <2>3, WayList
<1>4. Way(D, Watched) /\ \A c \in Buffers : Takes(D, c)
  <2> HIDE DEF node
  <2>1. f = [i \in 1 .. Units |-> f[i]] /\ \A i \in 1 .. Units : f[i] = node(i) /\ Way(f[i], Watched)
    BY <1>3
  <2> HIDE DEF f
  <2>2. Way(D, Watched) /\ \A i \in 1 .. Units : \A c : Takes(f[i], c) => Takes(D, c)
    BY <2>1, StepsAssumption, WayFlat
  <2>3. ASSUME NEW c \in Buffers PROVE Takes(D, c)
    <3>1. PICK n \in {"sBuf"}, i \in 1 .. Units : c = <<n, i>>
      BY DEF Buffers
    <3> QED BY <1>3, <2>1, <2>2, <3>1
  <2> QED BY <2>2, <2>3
<1>5. Way(Z, Watched)
  <2> HIDE DEF chips
  <2>1. g = [i \in 1 .. Units |-> g[i]] /\ \A i \in 1 .. Units : Way(g[i], Watched)
    BY <1>3
  <2> HIDE DEF g
  <2> QED BY <2>1, StepsAssumption, WayFlat
<1>6. Main(Y, Watched) /\ Takes(Y, Board("dma"))
  BY <1>1, PxqReady, Zenon
<1>7. PxqProbeCdev = A \o D \o Y \o Z
  BY Zenon DEF PxqProbeCdev, Each, abort
<1> HIDE DEF A, D, Y, Z, f, g
<1>8. Way(A \o D, Watched) /\ \A c \in Watched : Takes(A \o D, c)
  <2>1. \A c \in Watched : c = Board("bar") \/ c \in Buffers
    BY DEF Watched
  <2>2. Way(A \o D, Watched) /\ \A c : Takes(A, c) \/ Takes(D, c) => Takes(A \o D, c)
    BY <1>2, <1>4, WayBoth
  <2> QED BY <1>2, <1>4, <2>1, <2>2
<1>9. PICK w : w = A \o D
  OBVIOUS
<1>10. Readies(w \o Y \o Z)
  BY <1>5, <1>6, <1>8, <1>9, ReadyParts
<1> QED BY <1>7, <1>9, <1>10

LEMMA BackAfter ==
  ASSUME NEW p, NEW q, Obeys(p, Calm, Losing({Null})), Abort(q, {})
  PROVE  Abort(p \o q, {})
<1>1. {} \cup {Null} \subseteq {Null}
  OBVIOUS
<1> QED BY <1>1, AbortAfter

LEMMA BackAfterPut ==
  ASSUME NEW r, r # Null, NEW q, Abort(q, {})
  PROVE  Abort(<<Put(r)>> \o q, {})
<1>1. Obeys(<<Put(r)>>, Calm, Losing({Null}))
  BY Fits, FitOne
<1> QED BY <1>1, BackAfter

\* The labels at the end of pt3_pci_init_one.
LEMMA Pt3InitErrs ==
  Abort(ErrPci, {}) /\ Abort(ErrReg, {}) /\ Abort(ErrFpga, {}) /\ Abort(ErrI2c, {}) /\ Abort(ErrDma, {})
<1>1. Abort(ErrPci, {})
  <2>1. Board("pci") \notin {Null}
    BY DEF Board, Null
  <2>2. Fit(Put(Board("pci")), {Null}) /\ Fit(Fail, {Null})
    BY <2>1, Fits
  <2>3. PICK u, e : u = Put(Board("pci")) /\ e = Fail
    OBVIOUS
  <2>4. ErrPci \in Seq({u, e}) /\ ErrPci # <<>> /\ ErrPci[Len(ErrPci)] = e
    BY <2>3 DEF ErrPci
  <2>5. Obeys(ErrPci, Calm, Losing({Null}))
    <3>1. \A t \in {u, e} : Fit(t, {Null})
      BY <2>2, <2>3
    <3> QED BY <2>4, <3>1, FitList
  <2>6. Guarded(ErrPci, Board("irq"), {})
    <3>1. {} \subseteq {Null}
      OBVIOUS
    <3> QED BY <2>5, <3>1, CalmWeaker, GuardedKeeps
  <2> QED BY <2>3, <2>4, <2>5, <2>6 DEF Abort, Ends
<1>2. Abort(ErrReg, {})
  <2>1. Board("regions") # Null
    BY DEF Board, Null
  <2> QED BY <1>1, <2>1, BackAfterPut DEF ErrReg
<1>3. Abort(ErrFpga, {})
  <2> DEFINE T == {Drop(Board("bar0")), Drop(Board("bar1")), Put(Board("card"))}
             q == <<Drop(Board("bar0")), Drop(Board("bar1")), Put(Board("card"))>>
  <2>1. \A n \in {"bar0", "bar1", "card"} : Board(n) \notin {Null}
    BY DEF Board, Null
  <2>2. \A t \in T : Fit(t, {Null})
    BY <2>1, Fits
  <2>3. q \in Seq(T)
    OBVIOUS
  <2>4. ErrFpga = q \o ErrReg
    BY DEF ErrFpga
  <2> HIDE DEF T, q
  <2>5. Obeys(q, Calm, Losing({Null}))
    BY <2>2, <2>3, FitList
  <2> QED BY <1>2, <2>4, <2>5, BackAfter
<1>4. Abort(ErrI2c, {})
  <2> DEFINE f == [i \in 1 .. Units |-> FreeTuner(i)]
  <2>1. ASSUME NEW i \in 1 .. Units PROVE Obeys(FreeTuner(i), Calm, Losing({Null}))
    <3> DEFINE T == {Drop(<<"tc_s", i>>), Drop(<<"qm", i>>), Drop(<<"tc_t", i>>), Drop(<<"mx", i>>)}
    <3>1. \A n \in {"tc_s", "qm", "tc_t", "mx"} : <<n, i>> \notin {Null}
      BY DEF Null
    <3>2. \A t \in T : Fit(t, {Null})
      BY <3>1, Fits
    <3>3. FreeTuner(i) \in Seq(T)
      BY DEF FreeTuner
    <3> HIDE DEF T
    <3> QED BY <3>2, <3>3, FitList
  <2>2. f = [i \in 1 .. Units |-> f[i]] /\ \A i \in 1 .. Units : Obeys(f[i], Calm, Losing({Null}))
    BY <2>1
  <2>3. ErrI2c = FlattenSeq(f) \o (<<Put(Board("i2c"))>> \o ErrFpga)
    <3>1. PICK p : p = FlattenSeq(f)
      OBVIOUS
    <3>2. ErrI2c = (p \o <<Put(Board("i2c"))>>) \o ErrFpga
      <4>1. ErrI2c = FlattenSeq(f) \o <<Put(Board("i2c"))>> \o ErrFpga
        BY Zenon DEF ErrI2c, Each
      <4> HIDE DEF f
      <4> QED BY <3>1, <4>1
    <3>3. IsSeq(p) /\ IsSeq(ErrFpga)
      <4> HIDE DEF f
      <4>1. Obeys(p, Calm, Losing({Null}))
        BY <2>2, <3>1, StepsAssumption, ObeysFlat
      <4> QED BY <1>3, <4>1, CalmWeaker DEF Abort
    <3>4. PICK S, R : p \in Seq(S) /\ ErrFpga \in Seq(R)
      BY <3>3 DEF IsSeq
    <3>5. PICK u : u = Put(Board("i2c"))
      OBVIOUS
    <3>6. PICK e : e = ErrFpga
      OBVIOUS
    <3>7. PICK W : W = S \cup R \cup {u}
      OBVIOUS
    <3>8. p \in Seq(W) /\ e \in Seq(W) /\ <<u>> \in Seq(W)
      BY <3>4, <3>6, <3>7
    <3>9. (p \o <<u>>) \o e = p \o (<<u>> \o e)
      BY <3>8
    <3> QED BY <3>1, <3>2, <3>5, <3>6, <3>9
  <2> HIDE DEF f
  <2>4. Obeys(FlattenSeq(f), Calm, Losing({Null}))
    BY <2>2, StepsAssumption, ObeysFlat
  <2>5. Abort(<<Put(Board("i2c"))>> \o ErrFpga, {})
    <3>1. Board("i2c") # Null
      BY DEF Board, Null
    <3> QED BY <1>3, <3>1, BackAfterPut
  <2> QED BY <2>3, <2>4, <2>5, BackAfter
<1>5. Abort(ErrDma, {})
  <2> DEFINE ends(i) == <<Put(<<"channel", i>>), Drop(<<"node", i>>)>>
             channel(i) == <<When(<<"channel", i>>, FreePt3Dma(i) \o ends(i))>>
             f == [i \in 1 .. Units |-> channel(i)]
  <2>1. ASSUME NEW i \in 1 .. Units PROVE Obeys(channel(i), Calm, Losing({Null}))
    <3> DEFINE T == {Put(<<"channel", i>>), Drop(<<"node", i>>)}
    <3>1. \A n \in StreamNames : <<n, i>> \notin {Null}
      BY DEF Null, StreamNames
    <3>2. \A t \in T : Fit(t, {Null})
      BY <3>1, Fits DEF StreamNames
    <3>3. ends(i) \in Seq(T)
      OBVIOUS
    <3>4. Obeys(ends(i), Calm, Losing({Null}))
      <4> HIDE DEF T, ends
      <4> QED BY <3>2, <3>3, FitList
    <3> HIDE DEF ends
    <3>5. Obeys(FreePt3Dma(i) \o ends(i), Calm, Losing({Null}))
      BY <3>1, <3>4, FreePt3DmaFits, ObeysBoth
    <3> QED BY <3>5, Fits, FitOne
  <2> HIDE DEF channel
  <2>2. f = [i \in 1 .. Units |-> f[i]] /\ \A i \in 1 .. Units : Obeys(f[i], Calm, Losing({Null}))
    BY <2>1
  <2>3. ErrDma = FlattenSeq(f) \o ErrI2c
    BY Zenon DEF ErrDma, Each, channel
  <2> HIDE DEF f
  <2>4. Obeys(FlattenSeq(f), Calm, Losing({Null}))
    BY <2>2, StepsAssumption, ObeysFlat
  <2> QED BY <1>4, <2>3, <2>4, BackAfter
<1> QED BY <1>1, <1>2, <1>3, <1>4, <1>5

LEMMA InitTunerWay ==
  ASSUME NEW i \in 1 .. Units, NEW fail, Abort(fail, {})
  PROVE  Way(InitTuner(i, fail), {})
<1> DEFINE freeBus == <<Put(<<"bus", i>>)>>
           undo == freeBus \o fail
           A == <<Use(<<"qm", i>>), Get(<<"bus", i>>, fail), Must(<<"reset run", i>>, undo)>>
           B == <<Get(<<"bus", i>>, fail), Must(<<"init run", i>>, undo)>>
           T == {Use(<<"qm", i>>), Get(<<"bus", i>>, fail), Must(<<"reset run", i>>, undo),
                 Must(<<"init run", i>>, undo), Put(<<"bus", i>>)}
<1>1. \A n \in {"qm", "bus", "reset run", "init run"} :
        <<n, i>> \notin Dear /\ <<n, i>> \notin Barred \cup {Board("irq")}
  BY DEF Board, Null, Dear, Barred, Engines, Buffers, Pages
<1>2. Abort(undo, {})
  <2>1. <<"bus", i>> # Null
    BY DEF Null
  <2> QED BY <2>1, BackAfterPut
<1>3. InitTuner(i, fail) = A \o freeBus \o B \o freeBus
  BY Zenon DEF InitTuner
<1> HIDE DEF undo
<1>4. \A s \in T : Plain(s, {})
  BY <1>1, <1>2, PlainSteps
<1>5. A \in Seq(T) /\ B \in Seq(T) /\ freeBus \in Seq(T)
  OBVIOUS
<1> HIDE DEF T, A, B, freeBus
<1>6. A \o freeBus \o B \o freeBus \in Seq(T)
  BY <1>5
<1> QED BY <1>3, <1>4, <1>6, WayList

LEMMA InitAllTunerWay ==
  ASSUME NEW fail, Abort(fail, {})
  PROVE  Way(InitAllTuner(fail), {})
<1> DEFINE freeBus == <<Put(Board("bus"))>>
           undo == freeBus \o fail
           chips(i) == <<Use(<<"tc_s", i>>), Use(<<"tc_t", i>>)>>
           unit(i) == InitTuner(i, undo)
           channel(i) == <<Use(<<"qm", i>>), Must(<<"satellite", i>>, undo),
                           Use(<<"mx", i>>), Must(<<"terrestrial", i>>, undo)>>
           f == [i \in 1 .. Units |-> chips(i)]
           g == [i \in 1 .. Units |-> unit(i)]
           h == [i \in 1 .. Units |-> channel(i)]
           A == <<Get(Board("bus"), fail), Must(Board("clean"), undo)>>
           B == FlattenSeq(f)
           D == <<Must(Board("powers"), undo)>>
           E == FlattenSeq(g)
           F == <<Must(Board("amplifier"), undo)>>
           G == FlattenSeq(h)
<1>1. Abort(undo, {})
  <2>1. Board("bus") # Null
    BY DEF Board, Null
  <2> QED BY <2>1, BackAfterPut
<1>2. InitAllTuner(fail) = A \o B \o D \o E \o F \o G \o freeBus
  BY Zenon DEF InitAllTuner, Each
<1> HIDE DEF undo
<1>3. Way(A, {}) /\ Way(D, {}) /\ Way(F, {}) /\ Way(freeBus, {})
  <2> DEFINE T == {Get(Board("bus"), fail), Must(Board("clean"), undo), Must(Board("powers"), undo),
                   Must(Board("amplifier"), undo), Put(Board("bus"))}
  <2>1. \A n \in {"bus", "clean", "powers", "amplifier"} :
          Board(n) \notin Dear /\ Board(n) \notin Barred \cup {Board("irq")}
    BY DEF Board, Null, Dear, Barred, Engines, Buffers, Pages
  <2>2. \A s \in T : Plain(s, {})
    BY <1>1, <2>1, PlainSteps
  <2>3. A \in Seq(T) /\ D \in Seq(T) /\ F \in Seq(T) /\ freeBus \in Seq(T)
    OBVIOUS
  <2> HIDE DEF T, A, D, F, freeBus
  <2> QED BY <2>2, <2>3, WayList
<1>4. ASSUME NEW i \in 1 .. Units PROVE Way(chips(i), {}) /\ Way(unit(i), {}) /\ Way(channel(i), {})
  <2> DEFINE T == {Use(<<"tc_s", i>>), Use(<<"tc_t", i>>), Use(<<"qm", i>>), Must(<<"satellite", i>>, undo),
                   Use(<<"mx", i>>), Must(<<"terrestrial", i>>, undo)}
  <2>1. \A n \in {"satellite", "terrestrial"} : <<n, i>> \notin Barred \cup {Board("irq")}
    BY DEF Board, Null, Barred, Engines
  <2>2. \A s \in T : Plain(s, {})
    BY <1>1, <2>1, PlainSteps
  <2>3. chips(i) \in Seq(T) /\ channel(i) \in Seq(T)
    OBVIOUS
  <2>4. Way(unit(i), {})
    BY <1>1, InitTunerWay
  <2> HIDE DEF T, chips, channel, unit
  <2> QED BY <2>2, <2>3, <2>4, WayList
<1>5. Way(B, {}) /\ Way(E, {}) /\ Way(G, {})
  <2> HIDE DEF chips, unit, channel
  <2>1. /\ f = [i \in 1 .. Units |-> f[i]] /\ \A i \in 1 .. Units : Way(f[i], {})
        /\ g = [i \in 1 .. Units |-> g[i]] /\ \A i \in 1 .. Units : Way(g[i], {})
        /\ h = [i \in 1 .. Units |-> h[i]] /\ \A i \in 1 .. Units : Way(h[i], {})
    BY <1>4
  <2> HIDE DEF f, g, h
  <2> QED BY <2>1, StepsAssumption, WayFlat
<1> HIDE DEF A, B, D, E, F, G, f, g, h, freeBus
<1>6. Way(A \o B \o D, {})
  BY <1>3, <1>5, WayBoth
<1>7. PICK w : w = A \o B \o D
  OBVIOUS
<1>8. Way(w \o E \o F \o G \o freeBus, {})
  BY <1>3, <1>5, <1>6, <1>7, WayBoth
<1> QED BY <1>2, <1>7, <1>8

LEMMA Pt3AddChannelWay ==
  ASSUME NEW i \in 1 .. Units
  PROVE  /\ Way(Pt3AddChannel(i), {})
         /\ \A n \in {"ts page 1", "ts page 2", "desc page 1", "desc page 2"} : Takes(Pt3AddChannel(i), <<n, i>>)
<1> DEFINE back == <<Put(<<"new channel", i>>), Clear(<<"dma", i>>)>>
           fail == back \o ErrDma
           undo == FreePt3Dma(i) \o fail
           A == <<Try(<<"cdev", i>>, <<>>), Get(<<"new channel", i>>, ErrDma)>>
           B == <<Get(<<"dma", i>>, fail), Get(<<"ts_info", i>>, undo),
                  Get(<<"ts page 1", i>>, undo), Get(<<"ts page 2", i>>, undo),
                  Get(<<"desc_info", i>>, undo),
                  Get(<<"desc page 1", i>>, undo), Get(<<"desc page 2", i>>, undo)>>
           D == <<Put(<<"new channel", i>>), Set(<<"channel", i>>), Try(<<"node", i>>, <<>>)>>
<1>1. Pt3AddChannel(i) = A \o B \o D
  <2>1. CreatePt3Dma(i, fail) = B
    BY Zenon DEF CreatePt3Dma
  <2>2. Pt3AddChannel(i) = A \o CreatePt3Dma(i, fail) \o D
    BY Zenon DEF Pt3AddChannel
  <2> HIDE DEF A, B, D, fail, undo
  <2> QED BY <2>1, <2>2
<1>2. Abort(ErrDma, {})
  BY Pt3InitErrs
<1>3. Abort(fail, {})
  <2> DEFINE T == {Put(<<"new channel", i>>), Clear(<<"dma", i>>)}
  <2>1. <<"new channel", i>> \notin {Null} /\ <<"dma", i>> \notin {Null}
    BY DEF Null
  <2>2. \A t \in T : Fit(t, {Null})
    BY <2>1, Fits
  <2>3. back \in Seq(T)
    OBVIOUS
  <2> HIDE DEF T, back
  <2>4. Obeys(back, Calm, Losing({Null}))
    BY <2>2, <2>3, FitList
  <2> QED BY <1>2, <2>4, BackAfter
<1> HIDE DEF fail
<1>4. Abort(undo, {})
  <2>1. \A n \in StreamNames : <<n, i>> \notin {Null}
    BY DEF Null, StreamNames
  <2>2. Obeys(FreePt3Dma(i), Calm, Losing({Null}))
    BY <2>1, FreePt3DmaFits
  <2> QED BY <1>3, <2>2, BackAfter
<1> HIDE DEF undo
<1>5. Way(A, {}) /\ Way(D, {})
  <2> DEFINE T == {Try(<<"cdev", i>>, <<>>), Get(<<"new channel", i>>, ErrDma),
                   Put(<<"new channel", i>>), Set(<<"channel", i>>), Try(<<"node", i>>, <<>>)}
  <2>1. \A n \in {"cdev", "new channel", "channel", "node"} :
          <<n, i>> \notin Dear /\ <<n, i>> \notin Barred \cup {Board("irq")}
    BY DEF Board, Null, Dear, Barred, Engines, Buffers, Pages
  <2>2. \A s \in T : Plain(s, {})
    BY <1>2, <2>1, PlainSteps
  <2>3. A \in Seq(T) /\ D \in Seq(T)
    OBVIOUS
  <2> HIDE DEF T, A, D
  <2> QED BY <2>2, <2>3, WayList
<1>6. Way(B, {}) /\ \A n \in {"ts page 1", "ts page 2", "desc page 1", "desc page 2"} : Takes(B, <<n, i>>)
  <2> DEFINE T == {Get(<<"dma", i>>, fail), Get(<<"ts_info", i>>, undo),
                   Get(<<"ts page 1", i>>, undo), Get(<<"ts page 2", i>>, undo),
                   Get(<<"desc_info", i>>, undo),
                   Get(<<"desc page 1", i>>, undo), Get(<<"desc page 2", i>>, undo)}
  <2>1. \A n \in {"dma", "ts_info", "ts page 1", "ts page 2", "desc_info", "desc page 1", "desc page 2"} :
          <<n, i>> \notin Barred \cup {Board("irq")}
    BY DEF Board, Null, Barred, Engines
  <2>2. \A s \in T : Plain(s, {})
    BY <1>3, <1>4, <2>1, PlainSteps
  <2>3. /\ B \in Seq(T) /\ 3 \in 1 .. Len(B) /\ 4 \in 1 .. Len(B) /\ 6 \in 1 .. Len(B) /\ 7 \in 1 .. Len(B)
        /\ B[3] = Get(<<"ts page 1", i>>, undo) /\ B[4] = Get(<<"ts page 2", i>>, undo)
        /\ B[6] = Get(<<"desc page 1", i>>, undo) /\ B[7] = Get(<<"desc page 2", i>>, undo)
    OBVIOUS
  <2> HIDE DEF T, B
  <2>4. Way(B, {}) /\ \A j \in 1 .. Len(B) : \A c, alt : B[j] = Get(c, alt) => Takes(B, c)
    BY <2>2, <2>3, WayList
  <2> QED BY <2>3, <2>4
<1> HIDE DEF A, B, D
<1>7. PICK u : u = A \o B
  OBVIOUS
<1>8. Way(u, {}) /\ \A n \in {"ts page 1", "ts page 2", "desc page 1", "desc page 2"} : Takes(u, <<n, i>>)
  BY <1>5, <1>6, <1>7, WayBoth
<1>9. Way(u \o D, {}) /\ \A n \in {"ts page 1", "ts page 2", "desc page 1", "desc page 2"} : Takes(u \o D, <<n, i>>)
  BY <1>5, <1>8, WayBoth
<1> QED BY <1>1, <1>7, <1>9

LEMMA Pt3InitOneWay ==
  Way(Pt3InitOne, {}) /\ \A c \in Pages : Takes(Pt3InitOne, c)
<1> DEFINE f == [i \in 1 .. Units |-> CreateTuner(i)]
           g == [i \in 1 .. Units |-> Pt3AddChannel(i)]
           A == <<Get(Board("pci"), <<Fail>>), Get(Board("regions"), ErrPci), Must(Board("save"), ErrReg),
                  Must(Board("revision"), ErrReg), Get(Board("card"), ErrReg), Get(Board("bar0"), ErrFpga),
                  Get(Board("bar1"), ErrFpga), Must(Board("dma mask"), ErrFpga), Must(Board("fpga"), ErrFpga),
                  Get(Board("i2c"), ErrFpga)>>
           B == FlattenSeq(f)
           D == InitAllTuner(ErrI2c)
           E == <<Set(Board("slot")), Get(Board("numbers"), ErrI2c)>>
           F == FlattenSeq(g)
           G == <<Set(Board("drvdata"))>>
<1>1. Abort(<<Fail>>, {}) /\ Abort(ErrPci, {}) /\ Abort(ErrReg, {}) /\ Abort(ErrFpga, {}) /\ Abort(ErrI2c, {})
  BY Pt3InitErrs, AbortOne
<1>2. Way(A, {}) /\ Way(E, {}) /\ Way(G, {})
  <2>1. PICK e : e = <<Fail>>
    OBVIOUS
  <2> DEFINE T == {Get(Board("pci"), e), Get(Board("regions"), ErrPci), Must(Board("save"), ErrReg),
                   Must(Board("revision"), ErrReg), Get(Board("card"), ErrReg), Get(Board("bar0"), ErrFpga),
                   Get(Board("bar1"), ErrFpga), Must(Board("dma mask"), ErrFpga), Must(Board("fpga"), ErrFpga),
                   Get(Board("i2c"), ErrFpga), Set(Board("slot")), Get(Board("numbers"), ErrI2c),
                   Set(Board("drvdata"))}
  <2>2. \A n \in {"pci", "regions", "save", "revision", "card", "bar0", "bar1", "dma mask", "fpga", "i2c", "slot",
                  "numbers", "drvdata"} : Board(n) \notin Barred \cup {Board("irq")}
    BY DEF Board, Null, Barred, Engines
  <2>3. \A s \in T : Plain(s, {})
    BY <1>1, <2>1, <2>2, PlainSteps
  <2>4. A \in Seq(T) /\ E \in Seq(T) /\ G \in Seq(T)
    BY <2>1
  <2> HIDE DEF T, A, E, G
  <2> QED BY <2>3, <2>4, WayList
<1>3. Way(B, {})
  <2>1. ASSUME NEW i \in 1 .. Units PROVE Way(CreateTuner(i), {})
    <3> DEFINE T == {Try(<<"tc_s", i>>, <<>>), Try(<<"qm", i>>, <<>>), Try(<<"tc_t", i>>, <<>>), Try(<<"mx", i>>, <<>>)}
    <3>1. \A n \in {"tc_s", "qm", "tc_t", "mx"} : <<n, i>> \notin Barred \cup {Board("irq")}
      BY DEF Board, Null, Barred, Engines
    <3>2. \A s \in T : Plain(s, {})
      BY <3>1, PlainSteps
    <3>3. CreateTuner(i) \in Seq(T)
      BY DEF CreateTuner
    <3> HIDE DEF T
    <3> QED BY <3>2, <3>3, WayList
  <2>2. f = [i \in 1 .. Units |-> f[i]] /\ \A i \in 1 .. Units : Way(f[i], {})
    BY <2>1
  <2> HIDE DEF f
  <2> QED BY <2>2, StepsAssumption, WayFlat
<1>4. Way(D, {})
  BY <1>1, InitAllTunerWay
<1>5. Way(F, {}) /\ \A c \in Pages : Takes(F, c)
  <2>1. g = [i \in 1 .. Units |-> g[i]] /\ \A i \in 1 .. Units : g[i] = Pt3AddChannel(i) /\ Way(g[i], {})
    BY Pt3AddChannelWay
  <2> HIDE DEF g
  <2>2. Way(F, {}) /\ \A i \in 1 .. Units : \A c : Takes(g[i], c) => Takes(F, c)
    BY <2>1, StepsAssumption, WayFlat
  <2>3. ASSUME NEW c \in Pages PROVE Takes(F, c)
    <3>1. PICK n \in {"ts page 1", "ts page 2", "desc page 1", "desc page 2"}, i \in 1 .. Units : c = <<n, i>>
      BY InPages
    <3>2. i \in 1 .. Units /\ n \in {"ts page 1", "ts page 2", "desc page 1", "desc page 2"}
      BY <3>1
    <3>3. Takes(Pt3AddChannel(i), <<n, i>>)
      BY <3>2, Pt3AddChannelWay
    <3> QED BY <2>1, <2>2, <3>1, <3>2, <3>3
  <2> QED BY <2>2, <2>3
<1>6. Pt3InitOne = A \o B \o D \o E \o F \o G
  BY Zenon DEF Pt3InitOne, Each
<1> HIDE DEF A, B, D, E, F, G, f, g
<1>7. PICK w : w = A \o B \o D \o E
  OBVIOUS
<1>8. Way(w, {})
  BY <1>2, <1>3, <1>4, <1>7, WayBoth
<1>9. Way(w \o F \o G, {}) /\ \A c \in Pages : Takes(w \o F \o G, c)
  <2>1. PICK u : u = w \o F
    OBVIOUS
  <2>2. Way(u, {}) /\ \A c \in Pages : Takes(u, c)
    BY <1>5, <1>8, <2>1, WayBoth
  <2>3. Way(u \o G, {}) /\ \A c \in Pages : Takes(u \o G, c)
    BY <1>2, <2>2, WayBoth
  <2> QED BY <2>1, <2>3
<1> QED BY <1>6, <1>7, <1>9

-----------------------------------------------------------------------------
(* The em28xx devices, which have no interrupt and no engine.               *)

Deeds == {"get", "set", "try", "must", "need", "use", "put", "clear", "when", "fail"}
Mute == Engines \cup {Board("irq")}
Tame(q) == Obeys(q, Deeds, {"get", "set", "try"} \X Mute)
Mild(s) == Tame(s.alt) /\ s.do \in Deeds /\ s.r \notin Mute

LEMMA TameList ==
  ASSUME NEW T, NEW q \in Seq(T), \A t \in T : Mild(t)
  PROVE  Tame(q)
<1>1. \A t \in T : <<t.do, t.r>> \notin {"get", "set", "try"} \X Mute
  BY DEF Mild
<1> QED BY <1>1, ObeysList DEF Mild, Tame

LEMMA TameNone == Tame(<<>>)
<1>1. PICK q : q = <<>>
  OBVIOUS
<1>2. q \in Seq({}) /\ \A t \in {} : Mild(t)
  BY <1>1
<1>3. Tame(q)
  BY <1>2, TameList
<1> QED BY <1>1, <1>3

LEMMA TameOne ==
  ASSUME NEW s, Mild(s)
  PROVE  Tame(<<s>>)
<1>1. PICK l : l = <<s>>
  OBVIOUS
<1>2. l \in Seq({s}) /\ \A t \in {s} : Mild(t)
  BY <1>1
<1>3. Tame(l)
  BY <1>2, TameList
<1> QED BY <1>1, <1>3

LEMMA TameBoth ==
  ASSUME NEW p, NEW q, Tame(p), Tame(q)
  PROVE  Tame(p \o q)
BY ObeysBoth DEF Tame

LEMMA MildSteps ==
  ASSUME NEW n, n # "irq", NEW alt, Tame(alt)
  PROVE  /\ Mild(Get(Board(n), alt)) /\ Mild(Must(Board(n), alt)) /\ Mild(Need(Board(n), alt))
         /\ Mild(Try(Board(n), alt)) /\ Mild(When(Board(n), alt))
         /\ Mild(Set(Board(n))) /\ Mild(Use(Board(n))) /\ Mild(Put(Board(n))) /\ Mild(Clear(Board(n)))
         /\ Mild(Drop(Board(n))) /\ Mild(Fail)
<1>1. Board(n) \notin Mute /\ <<"probe", 0>> \notin Mute
  BY DEF Mute, Engines, Board
<1>2. ASSUME NEW x, Tame(x), NEW do \in Deeds, NEW r, r \notin Mute PROVE Mild(Step(do, r, x))
  BY <1>2 DEF Mild, Step
<1>3. ASSUME NEW x, Tame(x), NEW do \in Deeds PROVE Mild(Step(do, Board(n), x)) /\ Mild(Step(do, <<"probe", 0>>, x))
  BY <1>1, <1>2, <1>3
<1>4. /\ "get" \in Deeds /\ "must" \in Deeds /\ "need" \in Deeds /\ "try" \in Deeds /\ "when" \in Deeds
      /\ "set" \in Deeds /\ "use" \in Deeds /\ "put" \in Deeds /\ "clear" \in Deeds /\ "fail" \in Deeds
  BY DEF Deeds
<1>5. Mild(Put(Board(n)))
  BY <1>3, <1>4, TameNone DEF Put
<1>6. Tame(<<Put(Board(n))>>)
  BY <1>5, TameOne
<1>7. Mild(Drop(Board(n)))
  BY <1>3, <1>4, <1>6 DEF Drop, When
<1> QED BY <1>3, <1>4, <1>5, <1>7, TameNone DEF Get, Must, Need, Try, When, Set, Use, Clear, Fail

AllTame(f) == \A m \in DOMAIN f : Tame(f[m])

LEMMA TameFor ==
  ASSUME NEW models, NEW q, Tame(q)
  PROVE  AllTame(For(models, q))
BY DEF AllTame, For

LEMMA TameEither ==
  ASSUME NEW f, NEW g, AllTame(f), AllTame(g)
  PROVE  AllTame(f ++ g)
BY DEF AllTame, ++

\* The names of em28xx.
LEMMA Em28xxNames ==
  ASSUME NEW alt, Tame(alt)
  PROVE  \A r \in {dev, dvb, fe0, tuner, clientDemod, clientTuner} :
           /\ Mild(Get(r, alt)) /\ Mild(Must(r, alt)) /\ Mild(Need(r, alt)) /\ Mild(Try(r, alt)) /\ Mild(When(r, alt))
           /\ Mild(Set(r)) /\ Mild(Use(r)) /\ Mild(Put(r)) /\ Mild(Clear(r)) /\ Mild(Drop(r)) /\ Mild(Fail)
<1>1. ASSUME NEW n \in {"dev", "dvb", "fe0", "tuner", "i2c_client_demod", "i2c_client_tuner"}
      PROVE  /\ Mild(Get(Board(n), alt)) /\ Mild(Must(Board(n), alt)) /\ Mild(Need(Board(n), alt))
             /\ Mild(Try(Board(n), alt)) /\ Mild(When(Board(n), alt))
             /\ Mild(Set(Board(n))) /\ Mild(Use(Board(n))) /\ Mild(Put(Board(n))) /\ Mild(Clear(Board(n)))
             /\ Mild(Drop(Board(n))) /\ Mild(Fail)
  BY MildSteps
<1> QED BY <1>1 DEF dev, dvb, fe0, tuner, clientDemod, clientTuner

LEMMA TameWays == Tame(OutFree) /\ Tame(Detach) /\ Tame(DetachAndOut)
<1>1. Tame(OutFree)
  <2> DEFINE T == {Put(dvb), Clear(dvb)}
  <2>1. \A t \in T : Mild(t)
    BY TameNone, Em28xxNames
  <2>2. OutFree \in Seq(T)
    BY DEF OutFree
  <2> HIDE DEF T
  <2> QED BY <2>1, <2>2, TameList
<1>2. Tame(Detach)
  <2> DEFINE T == {Drop(tuner), Put(fe0)}
  <2>1. \A t \in T : Mild(t)
    BY TameNone, Em28xxNames
  <2>2. Detach \in Seq(T)
    BY DEF Detach
  <2> HIDE DEF T
  <2> QED BY <2>1, <2>2, TameList
<1> QED BY <1>1, <1>2, TameBoth DEF DetachAndOut

LEMMA TameClient ==
  ASSUME NEW client \in {clientDemod, clientTuner}, NEW undo, Tame(undo)
  PROVE  Tame(Client(client, undo))
<1> DEFINE more == <<Put(client)>> \o undo
           T == {Get(client, undo), Must(Board("driver bound"), undo), Must(Board("module"), more)}
<1>1. Tame(more)
  <2>1. Mild(Put(client))
    BY TameNone, Em28xxNames
  <2> QED BY <2>1, TameOne, TameBoth
<1> HIDE DEF more
<1>2. \A t \in T : Mild(t)
  BY <1>1, Em28xxNames, MildSteps
<1>3. Client(client, undo) \in Seq(T)
  BY DEF Client, more
<1> HIDE DEF T
<1> QED BY <1>2, <1>3, TameList

LEMMA TameFrontends ==
  /\ Tame(JustFrontend) /\ Tame(Xc3028) /\ Tame(TunerIgnored) /\ Tame(TunerLeaks) /\ Tame(TunerDetached)
  /\ Tame(TunerClient) /\ Tame(TunerClientSec) /\ Tame(ClientPair) /\ Tame(PxBcud) /\ Tame(Unsupported)
<1> DEFINE a == <<Try(tuner, <<>>)>>
           T == {Get(fe0, OutFree), Try(fe0, <<>>), Need(fe0, OutFree), Get(tuner, DetachAndOut), Try(fe0, a),
                 Get(tuner, OutFree)}
<1>1. Tame(a)
  BY TameNone, Em28xxNames, TameOne
<1> HIDE DEF a
<1>2. \A t \in T : Mild(t)
  BY <1>1, TameNone, TameWays, Em28xxNames
<1>3. /\ JustFrontend \in Seq(T) /\ Xc3028 \in Seq(T) /\ TunerIgnored \in Seq(T) /\ TunerLeaks \in Seq(T)
      /\ TunerDetached \in Seq(T) /\ Unsupported \in Seq(T) /\ <<Get(fe0, OutFree)>> \in Seq(T)
  BY DEF JustFrontend, Xc3028, TunerIgnored, TunerLeaks, TunerDetached, Unsupported, a
<1> HIDE DEF T
<1>4. /\ Tame(JustFrontend) /\ Tame(Xc3028) /\ Tame(TunerIgnored) /\ Tame(TunerLeaks)
      /\ Tame(TunerDetached) /\ Tame(Unsupported)
  BY <1>2, <1>3, TameList
<1>5. Tame(<<Get(fe0, OutFree)>>)
  BY <1>4 DEF JustFrontend
<1>6. clientTuner \in {clientDemod, clientTuner} /\ clientDemod \in {clientDemod, clientTuner}
  OBVIOUS
<1>7. Tame(TunerClient)
  BY <1>5, <1>6, TameWays, TameClient, TameBoth DEF TunerClient
<1>8. Tame(<<Put(clientTuner)>> \o DetachAndOut) /\ Tame(<<Put(clientDemod)>> \o OutFree)
  <2>1. Mild(Put(clientTuner)) /\ Mild(Put(clientDemod))
    BY TameNone, Em28xxNames
  <2>2. Tame(<<Put(clientTuner)>>) /\ Tame(<<Put(clientDemod)>>)
    BY <2>1, TameOne
  <2> QED BY <2>2, TameWays, TameBoth
<1>9. Tame(TunerClientSec)
  <2>1. Mild(Must(Board("a8293"), <<Put(clientTuner)>> \o DetachAndOut))
    BY <1>8, MildSteps
  <2>2. Tame(<<Must(Board("a8293"), <<Put(clientTuner)>> \o DetachAndOut)>>)
    BY <2>1, TameOne
  <2> QED BY <1>7, <2>2, TameBoth DEF TunerClientSec
<1>10. Tame(ClientPair)
  <2>1. Tame(Client(clientDemod, OutFree)) /\ Tame(Client(clientTuner, <<Put(clientDemod)>> \o OutFree))
    BY <1>6, <1>8, TameWays, TameClient
  <2> QED BY <2>1, TameBoth DEF ClientPair
<1> QED BY <1>4, <1>7, <1>9, <1>10, TameWays DEF PxBcud

LEMMA TameBoards == \A board \in DOMAIN BoardInit : Tame(BoardInit[board])
<1>1. AllTame(Boards1)
  BY TameFrontends, TameFor, TameEither, Zenon DEF Boards1
<1>2. AllTame(Boards2)
  BY TameFrontends, TameFor, TameEither, Zenon DEF Boards2
<1>3. AllTame(Boards3)
  BY TameFrontends, TameFor, TameEither, Zenon DEF Boards3
<1>4. AllTame(Boards4)
  BY TameFrontends, TameFor, TameEither, Zenon DEF Boards4
<1>5. AllTame(BoardInit)
  BY <1>1, <1>2, <1>3, <1>4, TameEither DEF BoardInit
<1> QED BY <1>5 DEF AllTame

LEMMA TamePut ==
  ASSUME NEW n, n # "irq", NEW q, Tame(q)
  PROVE  Tame(<<Put(Board(n))>> \o q)
<1>1. Mild(Put(Board(n)))
  BY TameNone, MildSteps
<1> QED BY <1>1, TameOne, TameBoth

LEMMA TameRegister == Tame(RegisterDvb) /\ Tame(UnregisterDvb)
<1>1. Tame(FailFrontend0)
  <2> DEFINE T == {When(fe0, Detach), Put(Board("adapter"))}
             q == <<When(fe0, Detach), Put(Board("adapter"))>>
  <2>1. \A t \in T : Mild(t)
    BY TameNone, TameWays, Em28xxNames, MildSteps
  <2>2. q \in Seq(T)
    OBVIOUS
  <2>3. FailFrontend0 = q \o OutFree
    BY DEF FailFrontend0
  <2> HIDE DEF T, q
  <2>4. Tame(q)
    BY <2>1, <2>2, TameList
  <2> QED BY <2>3, <2>4, TameWays, TameBoth
<1>2. Tame(FailDmx) /\ Tame(FailDmxdev) /\ Tame(FailFeHw) /\ Tame(FailFeMem) /\ Tame(FailFeConn)
  <2>1. Tame(FailDmx)
    BY <1>1, TamePut DEF FailDmx
  <2>2. Tame(FailDmxdev)
    BY <2>1, TamePut DEF FailDmxdev
  <2>3. Tame(FailFeHw)
    BY <2>2, TamePut DEF FailFeHw
  <2>4. Tame(FailFeMem)
    BY <2>3, TamePut DEF FailFeMem
  <2>5. Tame(FailFeConn)
    BY <2>4, TamePut DEF FailFeConn
  <2> QED BY <2>1, <2>2, <2>3, <2>4, <2>5
<1>3. Tame(RegisterDvb)
  <2> DEFINE T ==
        {Get(Board("adapter"), OutFree), Get(Board("frontend0"), FailFrontend0), Get(Board("demux"), FailDmx),
         Get(Board("dmxdev"), FailDmxdev), Get(Board("fe_hw"), FailFeHw), Get(Board("fe_mem"), FailFeMem),
         Must(Board("connect"), FailFeConn), Set(Board("net"))}
  <2>1. \A t \in T : Mild(t)
    BY <1>1, <1>2, TameNone, TameWays, MildSteps
  <2>2. RegisterDvb \in Seq(T)
    BY DEF RegisterDvb
  <2> HIDE DEF T
  <2> QED BY <2>1, <2>2, TameList
<1>4. Tame(UnregisterDvb)
  <2> DEFINE T ==
        {Put(Board("net")), Put(Board("fe_mem")), Put(Board("fe_hw")), Put(Board("dmxdev")), Put(Board("demux")),
         Put(Board("frontend0")), When(fe0, Detach), Put(Board("adapter"))}
  <2>1. \A t \in T : Mild(t)
    BY TameNone, TameWays, Em28xxNames, MildSteps
  <2>2. UnregisterDvb \in Seq(T)
    BY DEF UnregisterDvb
  <2> HIDE DEF T
  <2> QED BY <2>1, <2>2, TameList
<1> QED BY <1>3, <1>4

LEMMA TameDvb ==
  /\ \A board \in DOMAIN BoardInit : Tame(DvbInit(board))
  /\ Tame(DvbFini)
<1>1. ASSUME NEW board \in DOMAIN BoardInit PROVE Tame(DvbInit(board))
  <2> DEFINE first == <<Get(dvb, <<>>), Get(Board("urbs"), OutFree)>>
             test == IF BoardInit[board] = ClientPair THEN <<>> ELSE <<Need(fe0, OutFree)>>
             then == test \o RegisterDvb \o <<Set(Board("dvb ref"))>>
             T == {Get(dvb, <<>>), Get(Board("urbs"), OutFree)}
  <2>1. Tame(first)
    <3>1. \A t \in T : Mild(t)
      BY TameNone, TameWays, Em28xxNames, MildSteps
    <3>2. first \in Seq(T)
      OBVIOUS
    <3> HIDE DEF T, first
    <3> QED BY <3>1, <3>2, TameList
  <2>2. Tame(test)
    <3>1. Tame(<<Need(fe0, OutFree)>>)
      BY TameWays, Em28xxNames, TameOne
    <3> QED BY <3>1, TameNone
  <2>3. Tame(then)
    <3>1. Tame(<<Set(Board("dvb ref"))>>)
      BY TameNone, MildSteps, TameOne
    <3> HIDE DEF test
    <3> QED BY <2>2, <3>1, TameRegister, TameBoth
  <2>4. Tame(<<When(dvb, then)>>)
    <3> HIDE DEF then
    <3> QED BY <2>3, Em28xxNames, TameOne
  <2>5. DvbInit(board) = first \o BoardInit[board] \o <<When(dvb, then)>>
    BY DEF DvbInit
  <2> HIDE DEF first, then
  <2> QED BY <2>1, <2>4, <2>5, TameBoards, TameBoth
<1>2. Tame(DvbFini)
  <2> DEFINE first == <<Put(Board("urbs")), Drop(clientTuner), Drop(clientDemod)>>
             last == <<Put(dvb), Put(Board("dvb ref"))>>
             T == {Put(Board("urbs")), Drop(clientTuner), Drop(clientDemod), Put(dvb), Put(Board("dvb ref"))}
             then == first \o UnregisterDvb \o last
  <2>1. \A t \in T : Mild(t)
    BY TameNone, Em28xxNames, MildSteps
  <2>2. first \in Seq(T) /\ last \in Seq(T)
    OBVIOUS
  <2>3. DvbFini = <<When(dvb, then)>>
    BY DEF DvbFini
  <2> HIDE DEF T, first, last
  <2>4. Tame(then)
    <3>1. Tame(first) /\ Tame(last)
      BY <2>1, <2>2, TameList
    <3> QED BY <3>1, TameRegister, TameBoth
  <2> HIDE DEF then
  <2> QED BY <2>3, <2>4, Em28xxNames, TameOne
<1> QED BY <1>1, <1>2

LEMMA TameUsb ==
  /\ \A board \in DOMAIN BoardInit : Tame(UsbProbe(board))
  /\ Tame(AudioProbe) /\ Tame(Disconnect)
<1>1. Tame(ErrNoSlot)
  <2> DEFINE T == {Put(Board("udev")), Fail}
  <2>1. \A t \in T : Mild(t)
    BY TameNone, MildSteps
  <2>2. ErrNoSlot \in Seq(T)
    BY DEF ErrNoSlot
  <2> HIDE DEF T
  <2> QED BY <2>1, <2>2, TameList
<1>2. Tame(Err)
  BY <1>1, TamePut DEF Err
<1>3. Tame(<<Put(dev)>> \o Err)
  <2>1. Mild(Put(dev))
    BY TameNone, Em28xxNames
  <2> QED BY <1>2, <2>1, TameOne, TameBoth
<1>4. Tame(ErrFree)
  <2> DEFINE T == {Put(Board("alt sizes")), Put(dev)}
             q == <<Put(Board("alt sizes")), Put(dev)>>
  <2>1. \A t \in T : Mild(t)
    BY TameNone, MildSteps, Em28xxNames
  <2>2. q \in Seq(T)
    OBVIOUS
  <2>3. ErrFree = q \o Err
    BY DEF ErrFree
  <2> HIDE DEF T, q
  <2>4. Tame(q)
    BY <2>1, <2>2, TameList
  <2> QED BY <1>2, <2>3, <2>4, TameBoth
<1>5. Tame(InitDev(ErrFree))
  <2> DEFINE undo == <<Put(Board("i2c bus 0"))>> \o ErrFree
             T == {Must(Board("i2c speed"), ErrFree), Get(Board("i2c bus 0"), ErrFree), Get(Board("i2c bus 1"), undo)}
  <2>1. Tame(undo)
    BY <1>4, TamePut
  <2> HIDE DEF undo
  <2>2. \A t \in T : Mild(t)
    BY <1>4, <2>1, MildSteps
  <2>3. InitDev(ErrFree) \in Seq(T)
    BY DEF InitDev, undo
  <2> HIDE DEF T
  <2> QED BY <2>2, <2>3, TameList
<1> DEFINE back == <<Put(dev)>> \o Err
           first == <<Set(Board("udev")), Get(Board("devused"), ErrNoSlot), Must(Board("class"), Err), Get(dev, Err),
                      Get(Board("alt sizes"), back), Must(Board("endpoints"), ErrFree), Must(Board("speed"), ErrFree)>>
           T == {Set(Board("udev")), Get(Board("devused"), ErrNoSlot), Must(Board("class"), Err), Get(dev, Err),
                 Get(Board("alt sizes"), back), Must(Board("endpoints"), ErrFree), Must(Board("speed"), ErrFree),
                 Must(Board("audio"), ErrFree)}
<1>6. Tame(back)
  BY <1>3
<1>7. \A board : UsbProbe(board) = first \o InitDev(ErrFree) \o DvbInit(board)
  BY Zenon DEF UsbProbe
<1> HIDE DEF back
<1>8. \A t \in T : Mild(t)
  BY <1>1, <1>2, <1>4, <1>6, TameNone, MildSteps, Em28xxNames
<1>9. first \in Seq(T)
  OBVIOUS
<1>10. AudioProbe \in Seq(T)
  BY DEF AudioProbe, back
<1> HIDE DEF T, first
<1>11. Tame(first) /\ Tame(AudioProbe)
  BY <1>8, <1>9, <1>10, TameList
<1>12. \A board \in DOMAIN BoardInit : Tame(UsbProbe(board))
  BY <1>5, <1>7, <1>11, TameDvb, TameBoth
<1>13. Tame(Disconnect)
  <2> DEFINE U == {Drop(Board("i2c bus 1")), Drop(Board("i2c bus 0")), Put(Board("udev")), Put(Board("devused")),
                   Put(Board("alt sizes")), Put(dev)}
             last == <<Put(Board("alt sizes")), Put(dev)>>
  <2>1. \A t \in U : Mild(t)
    BY TameNone, MildSteps, Em28xxNames
  <2>2. ReleaseResources \in Seq(U) /\ last \in Seq(U)
    BY DEF ReleaseResources
  <2>3. Disconnect = DvbFini \o ReleaseResources \o last
    BY Zenon DEF Disconnect
  <2> HIDE DEF U, last
  <2>4. Tame(ReleaseResources) /\ Tame(last)
    BY <2>1, <2>2, TameList
  <2> QED BY <2>3, <2>4, TameDvb, TameBoth
<1> QED BY <1>11, <1>12, <1>13

-----------------------------------------------------------------------------
(* What a step does.                                                        *)

Steps == Take \/ TakeFails \/ Works \/ Test \/ Touch \/ Crash \/ GiveBack \/ Forget \/ ProbeFails
Barrier(a, C) == a \in held => C \subseteq held /\ Guarded(ahead, a, C)

LEMMA StepFacts ==
  ASSUME Steps
  PROVE  ahead # <<>> /\ phase \in {"probe", "remove"} /\ drv' = drv /\ failures \subseteq failures'
BY DEF Steps, Take, TakeFails, Works, Test, Touch, Crash, GiveBack, Forget, ProbeFails, Running, Go, GoTo

LEMMA TameStep ==
  ASSUME Steps, Tame(ahead), held \intersect Mute = {}
  PROVE  Tame(ahead') /\ held' \intersect Mute = {}
<1>1. /\ Tame(now.alt) /\ Tame(Tail(ahead))
      /\ now.do \in {"get", "set", "try"} => now.r \notin Mute
  <2>1. PICK bad : bad = {"get", "set", "try"} \X Mute
    OBVIOUS
  <2>2. Obeys(ahead, Deeds, bad)
    BY <2>1 DEF Tame
  <2>3. /\ <<Head(ahead).do, Head(ahead).r>> \notin bad
        /\ Obeys(Head(ahead).alt, Deeds, bad) /\ Obeys(Tail(ahead), Deeds, bad)
    BY <2>2, StepFacts, ObeysHead
  <2>4. Tame(Head(ahead).alt) /\ Tame(Tail(ahead))
    BY <2>1, <2>3 DEF Tame
  <2> QED BY <2>1, <2>3, <2>4 DEF now
<1>2. Tame(<<>> \o Tail(ahead)) /\ Tame(now.alt \o Tail(ahead)) /\ Tame(<<>>)
  BY <1>1, TameNone, TameBoth
<1> QED BY <1>1, <1>2
        DEF Steps, Take, TakeFails, Works, Test, Touch, Crash, GiveBack, Forget, ProbeFails, Go, GoTo

\* A driver on its way out.
LEMMA CalmHead ==
  ASSUME Steps, Obeys(ahead, Calm, Losing({Null}))
  PROVE  /\ now.do \in Calm /\ (now.do \in {"put", "clear"} => now.r # Null)
         /\ Obeys(<<>> \o Tail(ahead), Calm, Losing({Null})) /\ Obeys(now.alt \o Tail(ahead), Calm, Losing({Null}))
         /\ Obeys(<<>>, Calm, Losing({Null}))
         /\ Test \/ Touch \/ Crash \/ GiveBack \/ Forget \/ ProbeFails
         /\ Test => now.do = "when"
<1>1. /\ Head(ahead).do \in Calm /\ <<Head(ahead).do, Head(ahead).r>> \notin Losing({Null})
      /\ Obeys(Head(ahead).alt, Calm, Losing({Null})) /\ Obeys(Tail(ahead), Calm, Losing({Null}))
  BY StepFacts, ObeysHead
<1>2. Obeys(<<>>, Calm, Losing({Null}))
  BY NothingObeys
<1>3. /\ Obeys(<<>> \o Tail(ahead), Calm, Losing({Null})) /\ Obeys(Head(ahead).alt \o Tail(ahead), Calm, Losing({Null}))
  BY <1>1, <1>2, ObeysBoth
<1>4. now.do \in Calm /\ (now.do \in {"put", "clear"} => now.r # Null)
  BY <1>1 DEF now, Losing
<1>5. Test \/ Touch \/ Crash \/ GiveBack \/ Forget \/ ProbeFails
  BY <1>4 DEF Steps, Take, TakeFails, Works, Calm
<1>6. Test => now.do = "when"
  BY <1>4 DEF Test, Calm
<1> QED BY <1>2, <1>3, <1>4, <1>5, <1>6 DEF now

LEMMA CalmStep ==
  ASSUME Steps, Obeys(ahead, Calm, Losing({Null})), Null \notin held \cup gone
  PROVE  /\ Obeys(ahead', Calm, Losing({Null})) /\ Null \notin held' \cup gone'
         /\ held' \subseteq held /\ failures' = failures
         /\ phase' = phase \/ (phase' \in {"crashed", "failed"} /\ held' = held /\ now.do \in {"use", "fail"})
<1>1. /\ now.do \in {"put", "clear"} => now.r # Null
      /\ Obeys(<<>> \o Tail(ahead), Calm, Losing({Null})) /\ Obeys(now.alt \o Tail(ahead), Calm, Losing({Null}))
      /\ Obeys(<<>>, Calm, Losing({Null}))
      /\ Test => now.do = "when"
  BY CalmHead
<1>2. CASE Test
  BY <1>1, <1>2 DEF Test, Go
<1>3. CASE Touch \/ Crash \/ ProbeFails
  BY <1>1, <1>3 DEF Touch, Crash, ProbeFails, Go
<1>4. CASE GiveBack \/ Forget
  BY <1>1, <1>4 DEF GiveBack, Forget, Go
<1> QED BY <1>2, <1>3, <1>4, CalmHead

LEMMA BarrierStep ==
  ASSUME Steps, Obeys(ahead, Calm, Losing({Null})), NEW a, NEW C, a \notin C, Barrier(a, C)
  PROVE  Barrier(a, C)'
<1> SUFFICES ASSUME a \in held' PROVE C \subseteq held' /\ Guarded(ahead', a, C)
  BY DEF Barrier
<1>1. a \in held
  BY CalmHead DEF Test, Touch, Crash, GiveBack, Forget, ProbeFails
<1>2. C \subseteq held /\ Guarded(ahead, a, C)
  BY <1>1 DEF Barrier
<1>3. /\ Keeps(Head(ahead), C)
      /\ Head(ahead) # Put(a) => Guarded(Head(ahead).alt \o Tail(ahead), a, C)
      /\ Head(ahead) \notin Guards(a) => Guarded(<<>> \o Tail(ahead), a, C)
  <2>1. Obeys(ahead, Calm, {})
    BY CalmWeaker
  <2> QED BY <1>2, <2>1, StepFacts, GuardedStep
<1>4. <<Head(ahead).do, Head(ahead).r>> \notin Losing(C)
  <2>1. PICK l : l = <<Head(ahead)>>
    OBVIOUS
  <2>2. l # <<>> /\ Head(l) = Head(ahead)
    BY <2>1
  <2> QED BY <1>3, <2>1, <2>2, ObeysHead DEF Keeps
<1>5. Guarded(<<>>, a, C)
  BY DEF Guarded
<1>6. /\ Put(a).do = "put" /\ Drop(a).do = "when" /\ Put(a).r = a /\ Drop(a).r = a
  BY DEF Put, Drop, When, Step
<1>7. CASE Test
  <2>1. now.do = "when"
    BY <1>7, CalmHead
  <2>2. CASE now.r \in held \cup gone
    BY <1>2, <1>3, <1>6, <1>7, <2>1, <2>2 DEF Test, Go, now
  <2>3. CASE now.r \notin held \cup gone
    <3>1. Head(ahead) \notin Guards(a)
      BY <1>1, <1>6, <2>1, <2>3 DEF now, Guards
    <3> QED BY <1>2, <1>3, <1>7, <2>1, <2>3, <3>1 DEF Test, Go, now
  <2> QED BY <2>2, <2>3
<1>8. CASE Touch
  <2>1. Head(ahead) \notin Guards(a)
    BY <1>6, <1>8 DEF Touch, now, Guards
  <2> QED BY <1>2, <1>3, <1>8, <2>1 DEF Touch, Go
<1>9. CASE Crash \/ ProbeFails
  BY <1>2, <1>5, <1>9 DEF Crash, ProbeFails
<1>10. CASE GiveBack
  <2>1. now.r # a
    BY <1>10 DEF GiveBack
  <2>2. Head(ahead) \notin Guards(a)
    BY <1>6, <1>10, <2>1 DEF GiveBack, now, Guards
  <2>3. now.r \notin C
    BY <1>4, <1>10 DEF GiveBack, now, Losing
  <2> QED BY <1>2, <1>3, <1>10, <2>2, <2>3 DEF GiveBack, Go
<1>11. CASE Forget
  <2>1. Head(ahead) \notin Guards(a)
    BY <1>6, <1>11 DEF Forget, now, Guards
  <2>2. now.r \notin C
    BY <1>4, <1>11 DEF Forget, now, Losing
  <2> QED BY <1>2, <1>3, <1>11, <2>1, <2>2 DEF Forget, Go
<1> QED BY <1>7, <1>8, <1>9, <1>10, <1>11, CalmHead

\* On a way back the last step ends the probe.
Back(q) == Obeys(q, Calm, Losing({Null})) /\ q # <<>> /\ q[Len(q)] \in Ends

LEMMA LastStays ==
  ASSUME NEW q, IsSeq(q), q # <<>>, Tail(q) # <<>>, NEW p, IsSeq(p)
  PROVE  p \o Tail(q) # <<>> /\ (p \o Tail(q))[Len(p \o Tail(q))] = q[Len(q)]
<1>1. PICK S : q \in Seq(S)
  BY DEF IsSeq
<1>2. PICK R : p \in Seq(R)
  BY DEF IsSeq
<1>3. PICK t : t = Tail(q)
  OBVIOUS
<1>4. PICK m : m = Len(p)
  OBVIOUS
<1>5. PICK n : n = Len(t)
  OBVIOUS
<1>6. t \in Seq(S) /\ n \in Nat \ {0} /\ Len(q) = n + 1 /\ t[n] = q[n + 1] /\ m \in Nat
  BY <1>1, <1>2, <1>3, <1>4, <1>5
<1>7. PICK w : w = p \o t
  OBVIOUS
<1>8. p \in Seq(R \cup S) /\ t \in Seq(R \cup S)
  BY <1>2, <1>6
<1>9. w \in Seq(R \cup S) /\ Len(w) = m + n /\ w[m + n] = t[n]
  BY <1>4, <1>5, <1>6, <1>7, <1>8
<1>10. w # <<>>
  BY <1>6, <1>9
<1> QED BY <1>3, <1>6, <1>7, <1>9, <1>10

LEMMA BackStep ==
  ASSUME Steps, Back(ahead), Null \notin held \cup gone
  PROVE  phase' \in {"crashed", "failed"} \/ (phase' = phase /\ Back(ahead'))
<1>1. Obeys(ahead, Calm, Losing({Null})) /\ ahead # <<>> /\ ahead[Len(ahead)] \in Ends
  BY DEF Back
<1>2. CASE Crash \/ ProbeFails
  BY <1>2 DEF Crash, ProbeFails
<1>3. CASE ~(Crash \/ ProbeFails)
  <2>1. Test \/ Touch \/ GiveBack \/ Forget
    BY <1>1, <1>3, CalmHead
  <2>2. IsSeq(ahead) /\ IsSeq(<<>>) /\ IsSeq(now.alt)
    <3>1. Obeys(Head(ahead).alt, Calm, Losing({Null}))
      BY <1>1, ObeysHead
    <3> QED BY <1>1, <3>1, NothingObeys, CalmWeaker DEF now
  <2>3. phase' = phase /\ (ahead' = <<>> \o Tail(ahead) \/ ahead' = now.alt \o Tail(ahead))
    <3>1. Test => now.do = "when"
      BY <1>1, CalmHead
    <3> QED BY <2>1, <3>1 DEF Test, Touch, GiveBack, Forget, Go
  <2>4. Tail(ahead) # <<>>
    <3> SUFFICES ASSUME Tail(ahead) = <<>> PROVE FALSE
      OBVIOUS
    <3>1. PICK S : ahead \in Seq(S)
      BY <2>2 DEF IsSeq
    <3>2. Len(ahead) = 1 /\ Head(ahead) = ahead[1]
      <4>1. Len(Tail(ahead)) = Len(ahead) - 1 /\ Len(ahead) \in Nat /\ Head(ahead) = ahead[1]
        BY <1>1, <3>1
      <4>2. Len(Tail(ahead)) = 0
        <5>1. Len(<<>>) = 0
          OBVIOUS
        <5>2. PICK n : n = Len(<<>>)
          OBVIOUS
        <5>3. Len(Tail(ahead)) = n
          BY <5>2, Zenon
        <5> QED BY <5>1, <5>2, <5>3
      <4> QED BY <4>1, <4>2
    <3>3. now \in Ends
      BY <1>1, <3>2 DEF now
    <3>4. Fail.do = "fail" /\ Use(Null).do = "use" /\ Use(Null).r = Null
      BY DEF Fail, Use, Step
    <3>5. (now.do = "use" /\ now.r = Null) \/ now.do = "fail"
      BY <3>3, <3>4 DEF Ends
    <3>6. ~Test
      BY <1>1, <3>5, CalmHead
    <3> QED BY <2>1, <3>5, <3>6 DEF Touch, GiveBack, Forget
  <2>5. ahead' # <<>> /\ ahead'[Len(ahead')] \in Ends
    BY <1>1, <2>2, <2>3, <2>4, LastStays
  <2>6. Obeys(ahead', Calm, Losing({Null}))
    BY <1>1, <2>3, CalmHead
  <2> QED BY <2>3, <2>5, <2>6 DEF Back
<1> QED BY <1>2, <1>3

\* The handler of a PX-Q3PE outlives the DMA buffer by one step at most.
HandlerNext == ahead # <<>> /\ Head(ahead) \in Guards(Board("irq"))
OneBehind == Board("irq") \in held => Board("dma") \in held \/ HandlerNext

LEMMA CoupledStep ==
  ASSUME Steps, Obeys(ahead, Calm, Losing({Null})), Coupled(ahead), OneBehind
  PROVE  Coupled(ahead') /\ OneBehind' /\ (phase' # phase => (Board("irq") \in held' => Board("dma") \in held'))
<1> DEFINE irq == Board("irq")
           dma == Board("dma")
<1>1. /\ Coupled(<<>> \o Tail(ahead)) /\ Coupled(now.alt \o Tail(ahead))
      /\ Keeps(now, {dma}) \/ (now \in Guards(dma) /\ Tail(ahead) # <<>> /\ Head(Tail(ahead)) = Drop(irq))
  <2>1. Obeys(ahead, Calm, {})
    BY CalmWeaker
  <2> QED BY <2>1, StepFacts, CoupledAhead DEF now
<1>2. Coupled(<<>>)
  BY DEF Coupled
<1>3. Test => now.do = "when"
  BY CalmHead
<1>4. Coupled(ahead')
  BY <1>1, <1>2, <1>3, CalmHead DEF Test, Touch, Crash, GiveBack, Forget, ProbeFails, Go
<1>5. Keeps(now, {dma}) => ~(now.do \in {"put", "clear"} /\ now.r = dma)
  <2>1. PICK l : l = <<now>>
    OBVIOUS
  <2>2. l # <<>> /\ Head(l) = now
    BY <2>1
  <2>3. Keeps(now, {dma}) => <<now.do, now.r>> \notin Losing({dma})
    BY <2>1, <2>2, ObeysHead DEF Keeps
  <2> QED BY <2>3 DEF Losing
<1>6. /\ irq # dma
      /\ \A r : Put(r).do = "put" /\ Put(r).r = r /\ Drop(r).do = "when" /\ Drop(r).r = r /\ Drop(r).alt = <<Put(r)>>
  BY DEF Board, Put, Drop, When, Step
<1>7. ASSUME irq \in held', dma \notin held' PROVE phase' = phase /\ HandlerNext'
  <2>1. irq \in held
    BY <1>7, CalmHead DEF Test, Touch, Crash, GiveBack, Forget, ProbeFails
  <2>2. IsSeq(Tail(ahead)) /\ ahead # <<>>
    <3>1. Obeys(Tail(ahead), Calm, Losing({Null}))
      BY StepFacts, ObeysHead
    <3> QED BY <3>1, CalmWeaker, StepFacts
  <2>3. CASE dma \in held
    <3>1. (GiveBack \/ Forget) /\ now.r = dma
      BY <1>7, <2>3, CalmHead DEF Test, Touch, Crash, GiveBack, Forget, ProbeFails
    <3>2. now \in Guards(dma) /\ Tail(ahead) # <<>> /\ Head(Tail(ahead)) = Drop(irq)
      BY <1>1, <1>5, <3>1 DEF GiveBack, Forget
    <3>3. ahead' = Tail(ahead) /\ phase' = phase
      <4>1. PICK R : Tail(ahead) \in Seq(R)
        BY <2>2 DEF IsSeq
      <4>2. <<>> \o Tail(ahead) = Tail(ahead)
        BY <4>1
      <4> QED BY <3>1, <4>2 DEF GiveBack, Forget, Go
    <3> QED BY <3>2, <3>3 DEF HandlerNext, Guards
  <2>4. CASE dma \notin held
    <3>1. now \in Guards(irq)
      BY <2>1, <2>4 DEF OneBehind, HandlerNext, now
    <3>2. now.r = irq /\ now.do \in {"put", "when"}
      BY <1>6, <3>1 DEF Guards
    <3>3. ~GiveBack
      BY <1>7, <3>2 DEF GiveBack
    <3>4. Test
      BY <3>2, <3>3, CalmHead DEF Touch, Crash, Forget, ProbeFails
    <3>5. now = Drop(irq)
      BY <1>3, <1>6, <3>1, <3>4 DEF Guards
    <3>6. ahead' = <<Put(irq)>> \o Tail(ahead) /\ phase' = phase
      BY <1>3, <1>6, <2>1, <3>4, <3>5 DEF Test, Go
    <3>7. ahead' # <<>> /\ Head(ahead') = Put(irq)
      <4>1. PICK R : Tail(ahead) \in Seq(R)
        BY <2>2 DEF IsSeq
      <4>2. PICK u : u = Put(irq)
        OBVIOUS
      <4>3. PICK t : t = Tail(ahead)
        OBVIOUS
      <4>4. <<u>> \in Seq(R \cup {u}) /\ t \in Seq(R \cup {u})
        BY <4>1, <4>3
      <4>5. <<u>> \o t # <<>> /\ Head(<<u>> \o t) = u
        BY <4>4
      <4> QED BY <3>6, <4>2, <4>3, <4>5
    <3> QED BY <3>6, <3>7 DEF HandlerNext, Guards
  <2> QED BY <2>3, <2>4
<1> QED BY <1>4, <1>7 DEF OneBehind

LEMMA SparesAhead ==
  ASSUME NEW q, IsSeq(q), NEW x, Spares(q, x), q # <<>>
  PROVE  /\ Head(q).do # "get" \/ Head(q).r # x
         /\ Spares(<<>> \o Tail(q), x) /\ \A r : Spares(<<Use(r)>> \o Tail(q), x)
<1>1. PICK S : q \in Seq(S)
  BY DEF IsSeq
<1>2. /\ Head(q) = q[1] /\ 1 \in 1 .. Len(q) /\ <<>> \o Tail(q) = Tail(q) /\ Tail(q) \in Seq(S)
      /\ \A j \in 1 .. Len(Tail(q)) : j + 1 \in 1 .. Len(q) /\ Tail(q)[j] = q[j + 1]
  BY <1>1
<1>3. Head(q).do # "get" \/ Head(q).r # x
  BY <1>2 DEF Spares
<1>4. Spares(Tail(q), x) /\ IsSeq(Tail(q))
  BY <1>2 DEF Spares, IsSeq
<1>5. ASSUME NEW r PROVE Spares(<<Use(r)>>, x) /\ IsSeq(<<Use(r)>>)
  <2>1. PICK u : u = Use(r)
    OBVIOUS
  <2>2. u.do = "use"
    BY <2>1 DEF Use, Step
  <2>3. PICK l : l = <<u>>
    OBVIOUS
  <2>4. l \in Seq({u})
    BY <2>3
  <2>5. Spares(l, x)
    <3>1. \A t \in {u} : t.do # "get" \/ t.r # x
      BY <2>2
    <3> QED BY <2>4, <3>1, EarlyList
  <2> QED BY <2>1, <2>3, <2>4, <2>5 DEF IsSeq
<1> QED BY <1>2, <1>3, <1>4, <1>5, SparesBoth

\* A probe that goes on: what is dear is kept, or still ahead; the interrupt
\* is not taken before what comes before it.
Onwards(C) ==
  /\ phase' = phase /\ Main(ahead', C)
  /\ held' \intersect Barred \subseteq held /\ held \intersect Dear \subseteq held'
  /\ \A x : \A c \in Dear : c \in held \/ Early(ahead, c, x) => c \in held' \/ Early(ahead', c, x)
  /\ Board("irq") \in held' => Board("irq") \in held \/ \A c : Early(ahead, c, Board("irq")) => c = Board("irq")
  /\ Spares(ahead, Board("irq")) => Spares(ahead', Board("irq")) /\ (Board("irq") \in held' => Board("irq") \in held)

LEMMA MainTaken ==
  ASSUME Steps, NEW C, Main(ahead, C), Null \notin held \cup gone
  PROVE  /\ Null \notin held' \cup gone'
         /\ \/ phase' = "crashed" /\ held' = held
            \/ phase' = phase /\ held' = held /\ Abort(ahead', C)
            \/ Onwards(C)
<1> DEFINE irq == Board("irq")
           s == Head(ahead)
<1>1. /\ MainStep(s, C)
      /\ Main(<<>> \o Tail(ahead), C) /\ \A r : Main(<<Use(r)>> \o Tail(ahead), C)
  BY StepFacts, MainAhead
<1>2. IsSeq(ahead) /\ ahead # <<>>
  BY StepFacts DEF Main
<1>3. \A c, x : Early(ahead, c, x) =>
        /\ s.do = "get" /\ s.r = x => c = x
        /\ ~(s.do = "get" /\ s.r = c) =>
              Early(<<>> \o Tail(ahead), c, x) /\ \A r : Early(<<Use(r)>> \o Tail(ahead), c, x)
  BY <1>2, EarlyAhead
<1>4. Spares(ahead, irq) =>
        /\ s.do # "get" \/ s.r # irq
        /\ Spares(<<>> \o Tail(ahead), irq) /\ \A r : Spares(<<Use(r)>> \o Tail(ahead), irq)
  BY <1>2, SparesAhead
<1>5. Null \in Barred /\ Null \in Dear
  BY DEF Barred, Dear
<1>6. CASE TakeFails /\ now.do # "try"
  <2>1. now.do \in {"get", "must"} /\ phase' = phase /\ held' = held /\ gone' = gone /\ ahead' = s.alt
    BY <1>6 DEF TakeFails, GoTo, now
  <2>2. Abort(s.alt, C)
    BY <1>1, <2>1 DEF MainStep, now
  <2> QED BY <2>1, <2>2
<1>7. CASE Crash
  BY <1>7 DEF Crash
<1>8. CASE Test /\ ahead' = s.alt /\ phase' = phase /\ now.do = "need"
  <2>1. Abort(s.alt, C)
    BY <1>1, <1>8 DEF MainStep, now
  <2> QED BY <1>8, <2>1 DEF Test
<1>9. ASSUME phase' = phase, held' = held, gone' = gone, ahead' = <<>> \o Tail(ahead), s.do # "get" PROVE Onwards(C)
  BY <1>1, <1>3, <1>4, <1>9 DEF Onwards
<1>10. CASE (TakeFails /\ now.do = "try") \/ Works \/ Touch
  <2>1. phase' = phase /\ held' = held /\ gone' = gone /\ ahead' = <<>> \o Tail(ahead) /\ s.do # "get"
    BY <1>10 DEF TakeFails, Works, Touch, Go, now
  <2> QED BY <1>9, <2>1
<1>11. CASE Test /\ ~(ahead' = s.alt /\ phase' = phase /\ now.do = "need")
  <2>1. now.do = "need"
    BY <1>1, <1>11 DEF Test, MainStep, now
  <2>2. phase' = phase /\ held' = held /\ gone' = gone /\ ahead' = <<>> \o Tail(ahead) /\ s.do # "get"
    BY <1>11, <2>1 DEF Test, Go, GoTo, now
  <2> QED BY <1>9, <2>2
<1>12. CASE GiveBack
  <2>1. s.do = "put" /\ s.r \notin Dear
    BY <1>1, <1>12 DEF GiveBack, MainStep, now
  <2>2. /\ phase' = phase /\ ahead' = <<>> \o Tail(ahead)
        /\ held' = held \ {s.r} /\ gone' = gone \cup {s.r}
    BY <1>12 DEF GiveBack, Go, now
  <2>3. \A x : \A c \in Dear : c \in held \/ Early(ahead, c, x) => c \in held' \/ Early(ahead', c, x)
    BY <1>3, <2>1, <2>2
  <2>4. Onwards(C)
    BY <1>1, <1>4, <2>1, <2>2, <2>3 DEF Onwards
  <2> QED BY <1>5, <2>1, <2>2, <2>4
<1>13. CASE Take
  <2>1. /\ phase' = phase /\ held' = held \cup {s.r} /\ gone' = gone \ {s.r}
        /\ s.do \in {"get", "set", "try"}
        /\ ahead' = (IF s.do = "try" THEN s.alt ELSE <<>>) \o Tail(ahead)
    BY <1>13 DEF Take, Go, now
  <2>2. s.r \notin Barred /\ (s.do # "get" => s.r # irq)
    BY <1>1, <2>1 DEF MainStep
  <2>3. ahead' = <<>> \o Tail(ahead) \/ \E r : ahead' = <<Use(r)>> \o Tail(ahead)
    <3>1. CASE s.do = "try"
      <4>1. s.alt = <<>> \/ \E r : s.alt = <<Use(r)>>
        BY <1>1, <3>1 DEF MainStep
      <4> QED BY <2>1, <3>1, <4>1
    <3>2. CASE s.do # "try"
      BY <2>1, <3>2
    <3> QED BY <3>1, <3>2
  <2>4. Main(ahead', C)
    BY <1>1, <2>3
  <2>5. \A x : \A c \in Dear : c \in held \/ Early(ahead, c, x) => c \in held' \/ Early(ahead', c, x)
    <3>1. ASSUME NEW x, NEW c, Early(ahead, c, x), c # s.r PROVE Early(ahead', c, x)
      BY <1>3, <2>3, <3>1
    <3> QED BY <2>1, <3>1
  <2>6. irq \in held' => irq \in held \/ \A c : Early(ahead, c, irq) => c = irq
    BY <1>3, <2>1, <2>2
  <2>7. Spares(ahead, irq) => Spares(ahead', irq) /\ (irq \in held' => irq \in held)
    BY <1>4, <2>1, <2>2, <2>3
  <2>8. held' \intersect Barred \subseteq held
    BY <2>1, <2>2
  <2>9. Onwards(C)
    BY <2>1, <2>4, <2>5, <2>6, <2>7, <2>8 DEF Onwards
  <2> QED BY <1>5, <2>1, <2>2, <2>9
<1>14. ~Forget /\ ~ProbeFails
  BY <1>1 DEF Forget, ProbeFails, MainStep, now
<1>15. Works \/ Touch \/ Test \/ TakeFails => gone' = gone
  BY DEF Works, Touch, Test, TakeFails
<1>16. Crash => gone' = gone /\ held' = held
  BY DEF Crash
<1>17. Works \/ Touch \/ Test \/ TakeFails => held' = held
  BY DEF Works, Touch, Test, TakeFails
<1> QED BY <1>6, <1>7, <1>8, <1>10, <1>11, <1>12, <1>13, <1>14, <1>15, <1>16, <1>17 DEF Steps

-----------------------------------------------------------------------------
(* What the interrupt and the engines use is there.                         *)

Pt3s == {"pt3_pci", "pt3_dtv"}
Pxqs == {"pxq3pe_pci", "pxq3pe_dtv"}
EarlyStart == Board("started early") \in failures
Streaming == Engines \intersect held # {}

\* A PT3 has no interrupt handler; its engines go before their pages.
Pt3Inv ==
  /\ Board("irq") \notin held
  /\ phase = "probe" =>
       /\ ~Streaming
       /\ Back(ahead) \/ (Way(ahead, {}) /\ \A c \in Pages : c \in held \/ Early(ahead, c, Null))
  /\ phase = "live" => Pages \subseteq held
  /\ phase = "remove" => Obeys(ahead, Calm, Losing({Null}))
  /\ \A i \in 1 .. Units :
       /\ <<"engine", i>> \in held => PagesOf(i) \subseteq held
       /\ phase = "remove" => Barrier(<<"engine", i>>, PagesOf(i))

\* The handler of a PX-Q3PE comes after what it uses and goes before it.
PxqProbing ==
  \/ Back(ahead) /\ Barrier(Board("irq"), Watched)
  \/ /\ Main(ahead, Watched)
     /\ \A c \in Watched : c \in held \/ Early(ahead, c, Board("irq"))
     /\ Board("dma") \in held \/ Early(ahead, Board("dma"), Null)
PxqRemoving ==
  /\ Obeys(ahead, Calm, Losing({Null}))
  /\ drv = "pxq3pe_dtv" => Barrier(Board("irq"), Watched \cup {Board("dma")})
  /\ drv = "pxq3pe_pci" => Barrier(Board("irq"), Watched) /\ Coupled(ahead) /\ OneBehind
PxqInv ==
  /\ Board("irq") \in held => Watched \subseteq held
  /\ phase = "probe" => PxqProbing /\ (Streaming => EarlyStart)
  /\ phase = "live" => Board("dma") \in held
  /\ phase = "remove" => PxqRemoving
  /\ Board("irq") \in held /\ Streaming /\ ~EarlyStart =>
       Board("dma") \in held \/ (drv = "pxq3pe_pci" /\ phase = "remove")

DlInv ==
  /\ drv \in Drivers /\ phase \in Phases
  /\ drv \in Pt3s \cup Pxqs => Null \notin held \cup gone
  /\ drv \notin Pt3s \cup Pxqs => Tame(ahead) /\ held \intersect Mute = {}
  /\ drv \in Pt3s => Pt3Inv
  /\ drv \in Pxqs => PxqInv

LEMMA DlInvInit == DlInit => DlInv
<1> SUFFICES ASSUME DlInit PROVE DlInv
  OBVIOUS
<1>1. drv \in Drivers /\ phase = "probe" /\ ahead = ProbeOf(drv) /\ held = {} /\ gone = {}
  BY DEF DlInit
<1>2. drv \in Drivers /\ phase \in Phases /\ Null \notin held \cup gone /\ ~Streaming
  BY <1>1 DEF Phases, Streaming
<1>3. ASSUME drv \notin Pt3s \cup Pxqs PROVE Tame(ahead) /\ held \intersect Mute = {}
  <2>1. CASE drv = "audio"
    <3>1. ahead = AudioProbe
      BY <1>1, <2>1 DEF ProbeOf
    <3> QED BY <1>1, <3>1, TameUsb
  <2>2. CASE drv # "audio"
    <3>1. drv \in DOMAIN BoardInit
      BY <1>1, <1>3, <2>2 DEF Drivers, Em28xxBoards, Pt3s, Pxqs
    <3>2. ahead = UsbProbe(drv)
      BY <1>1, <1>3, <2>2 DEF ProbeOf, Pt3s, Pxqs
    <3> QED BY <1>1, <3>1, <3>2, TameUsb
  <2> QED BY <2>1, <2>2
<1>4. ASSUME drv \in Pt3s PROVE Pt3Inv
  <2>1. Way(ahead, {}) /\ \A c \in Pages : Takes(ahead, c)
    <3>1. ahead = Pt3Probe \/ ahead = Pt3InitOne
      BY <1>1, <1>4 DEF Pt3s, ProbeOf
    <3> QED BY <3>1, Pt3ProbeWay, Pt3InitOneWay
  <2>2. \A c \in Pages : Early(ahead, c, Null)
    BY <2>1, MainEarly DEF Way
  <2> QED BY <1>1, <1>2, <2>1, <2>2 DEF Pt3Inv
<1>5. ASSUME drv \in Pxqs PROVE PxqInv
  <2>1. Readies(ahead)
    <3>1. ahead = PxqProbe \/ ahead = PxqProbeCdev
      BY <1>1, <1>5 DEF Pxqs, ProbeOf
    <3> QED BY <3>1, PxqProbeReadies, PxqProbeCdevReadies
  <2>2. PxqProbing
    BY <2>1 DEF Readies, PxqProbing
  <2> QED BY <1>1, <1>2, <2>2 DEF PxqInv
<1> QED BY <1>2, <1>3, <1>4, <1>5 DEF DlInv

LEMMA StepsGuards ==
  /\ Board("irq") # Null /\ Board("dma") # Null /\ Board("irq") # Board("dma")
  /\ Board("irq") \notin Watched /\ Board("irq") \notin Engines /\ Board("irq") \notin Watched \cup {Board("dma")}
  /\ Watched \subseteq Dear /\ Board("dma") \in Dear /\ Pages \subseteq Dear /\ Engines \subseteq Barred
  /\ \A i \in 1 .. Units : <<"engine", i>> \notin PagesOf(i) /\ <<"engine", i>> # Null /\ <<"engine", i>> \in Engines
<1>1. Board("irq") # Null /\ Board("dma") # Null /\ Board("irq") # Board("dma")
  BY DEF Board, Null
<1>2. Board("irq") \notin Watched /\ Board("irq") \notin Engines
  BY DEF Board, Watched, Buffers, Engines
<1>3. Watched \subseteq Dear /\ Board("dma") \in Dear /\ Pages \subseteq Dear /\ Engines \subseteq Barred
  BY DEF Watched, Dear, Barred
<1>4. \A i \in 1 .. Units : <<"engine", i>> \notin PagesOf(i) /\ <<"engine", i>> # Null /\ <<"engine", i>> \in Engines
  BY DEF PagesOf, Null, Engines
<1> QED BY <1>1, <1>2, <1>3, <1>4

LEMMA Pt3Steps ==
  ASSUME Steps, DlInv, drv \in Pt3s
  PROVE  Pt3Inv' /\ phase' \in Phases /\ Null \notin held' \cup gone'
<1>1. Pt3Inv /\ Null \notin held \cup gone /\ phase \in {"probe", "remove"} /\ {"crashed", "failed", "probe", "remove"} \subseteq Phases
  BY StepFacts DEF DlInv, Phases
<1>2. ASSUME held' \subseteq held, Board("irq") \notin held, phase' \in {"crashed", "failed"}, held' = held PROVE Pt3Inv'
  <2>1. \A i \in 1 .. Units : <<"engine", i>> \in held' => PagesOf(i) \subseteq held'
    BY <1>1, <1>2 DEF Pt3Inv
  <2> QED BY <1>2, <2>1 DEF Pt3Inv
<1>3. CASE phase = "probe" /\ Back(ahead)
  <2>1. Obeys(ahead, Calm, Losing({Null}))
    BY <1>3 DEF Back
  <2>2. /\ Null \notin held' \cup gone' /\ held' \subseteq held
        /\ phase' = phase \/ (phase' \in {"crashed", "failed"} /\ held' = held)
    BY <1>1, <2>1, CalmStep
  <2>3. phase' \in {"crashed", "failed"} \/ (phase' = phase /\ Back(ahead'))
    BY <1>1, <1>3, BackStep
  <2>4. CASE phase' = "probe" /\ Back(ahead')
    <3>1. ~Streaming' /\ Board("irq") \notin held'
      BY <1>1, <1>3, <2>2 DEF Pt3Inv, Streaming
    <3>2. \A i \in 1 .. Units : <<"engine", i>> \notin held'
      BY <3>1, StepsGuards DEF Streaming
    <3> QED BY <1>1, <2>2, <2>4, <3>1, <3>2 DEF Pt3Inv
  <2>5. CASE phase' \in {"crashed", "failed"}
    BY <1>1, <1>2, <1>3, <2>2, <2>5 DEF Pt3Inv
  <2> QED BY <1>3, <2>3, <2>4, <2>5
<1>4. CASE phase = "probe" /\ ~Back(ahead)
  <2>1. Way(ahead, {}) /\ (\A c \in Pages : c \in held \/ Early(ahead, c, Null)) /\ ~Streaming /\ Board("irq") \notin held
    BY <1>1, <1>4 DEF Pt3Inv
  <2>2. Main(ahead, {}) /\ Spares(ahead, Board("irq"))
    BY <2>1 DEF Way
  <2>3. /\ Null \notin held' \cup gone'
        /\ \/ phase' = "crashed" /\ held' = held
           \/ phase' = phase /\ held' = held /\ Abort(ahead', {})
           \/ Onwards({})
    BY <1>1, <2>2, MainTaken
  <2>4. CASE phase' = "crashed" /\ held' = held
    BY <1>1, <1>2, <2>1, <2>3, <2>4
  <2>5. ASSUME phase' = phase, held' \intersect Barred \subseteq held, Board("irq") \notin held',
               Back(ahead') \/ (Way(ahead', {}) /\ \A c \in Pages : c \in held' \/ Early(ahead', c, Null))
        PROVE  Pt3Inv'
    <3>1. ~Streaming'
      BY <2>1, <2>5, StepsGuards DEF Streaming
    <3>2. \A i \in 1 .. Units : <<"engine", i>> \notin held'
      BY <3>1, StepsGuards DEF Streaming
    <3> QED BY <1>4, <2>5, <3>1, <3>2 DEF Pt3Inv
  <2>6. CASE phase' = phase /\ held' = held /\ Abort(ahead', {})
    <3>1. Back(ahead')
      BY <2>6 DEF Abort, Back
    <3> QED BY <1>1, <1>4, <2>1, <2>3, <2>5, <2>6, <3>1
  <2>7. CASE Onwards({})
    <3>1. /\ phase' = phase /\ Main(ahead', {}) /\ held' \intersect Barred \subseteq held
          /\ Spares(ahead', Board("irq")) /\ Board("irq") \notin held'
      BY <2>1, <2>2, <2>7 DEF Onwards
    <3>2. \A c \in Pages : c \in held' \/ Early(ahead', c, Null)
      BY <2>1, <2>7, StepsGuards DEF Onwards
    <3>3. Way(ahead', {})
      BY <3>1 DEF Way
    <3> QED BY <1>1, <1>4, <2>3, <2>5, <3>1, <3>2, <3>3
  <2> QED BY <2>3, <2>4, <2>6, <2>7
<1>5. CASE phase = "remove"
  <2>1. Obeys(ahead, Calm, Losing({Null})) /\ Board("irq") \notin held
    BY <1>1, <1>5 DEF Pt3Inv
  <2>2. /\ Null \notin held' \cup gone' /\ held' \subseteq held /\ Obeys(ahead', Calm, Losing({Null}))
        /\ phase' = phase \/ (phase' \in {"crashed", "failed"} /\ held' = held)
    BY <1>1, <2>1, CalmStep
  <2>3. CASE phase' = phase
    <3>1. ASSUME NEW i \in 1 .. Units
          PROVE  /\ Barrier(<<"engine", i>>, PagesOf(i))'
                 /\ <<"engine", i>> \in held' => PagesOf(i) \subseteq held'
      <4>1. Barrier(<<"engine", i>>, PagesOf(i))
        BY <1>1, <1>5 DEF Pt3Inv
      <4>2. <<"engine", i>> \notin PagesOf(i)
        BY StepsGuards
      <4>3. Barrier(<<"engine", i>>, PagesOf(i))'
        BY <2>1, <4>1, <4>2, BarrierStep
      <4> QED BY <4>3 DEF Barrier
    <3> QED BY <1>1, <1>5, <2>1, <2>2, <2>3, <3>1 DEF Pt3Inv
  <2>4. CASE phase' # phase
    BY <1>1, <1>2, <2>1, <2>2, <2>4
  <2> QED BY <1>1, <2>2, <2>3, <2>4
<1> QED BY <1>1, <1>3, <1>4, <1>5

LEMMA PxqSteps ==
  ASSUME Steps, DlInv, drv \in Pxqs
  PROVE  PxqInv' /\ phase' \in Phases /\ Null \notin held' \cup gone'
<1> DEFINE irq == Board("irq")
           dma == Board("dma")
<1>1. /\ PxqInv /\ Null \notin held \cup gone /\ phase \in {"probe", "remove"}
      /\ {"crashed", "failed", "probe", "remove"} \subseteq Phases
      /\ drv' = drv /\ failures \subseteq failures'
  BY StepFacts DEF DlInv, Phases
<1>2. EarlyStart => EarlyStart'
  BY <1>1 DEF EarlyStart
<1>3. ASSUME phase' = "probe", PxqProbing', held' \intersect Barred \subseteq held, phase = "probe",
             irq \in held' => Watched \subseteq held'
      PROVE  PxqInv'
  <2>1. Streaming' => Streaming
    BY <1>3, StepsGuards DEF Streaming
  <2>2. Streaming' => EarlyStart'
    BY <1>1, <1>2, <1>3, <2>1 DEF PxqInv
  <2> QED BY <1>3, <2>2 DEF PxqInv
<1>4. ASSUME phase' \in {"crashed", "failed"}, held' = held,
             irq \in held /\ Streaming /\ ~EarlyStart => dma \in held
      PROVE  PxqInv'
  <2>1. Streaming' => Streaming
    BY <1>4 DEF Streaming
  <2> QED BY <1>1, <1>2, <1>4, <2>1 DEF PxqInv
<1>5. CASE phase = "probe" /\ Back(ahead) /\ Barrier(irq, Watched)
  <2>1. Obeys(ahead, Calm, Losing({Null}))
    BY <1>5 DEF Back
  <2>2. /\ Null \notin held' \cup gone' /\ held' \subseteq held
        /\ phase' = phase \/ (phase' \in {"crashed", "failed"} /\ held' = held)
    BY <1>1, <2>1, CalmStep
  <2>3. phase' \in {"crashed", "failed"} \/ (phase' = phase /\ Back(ahead'))
    BY <1>1, <1>5, BackStep
  <2>4. Barrier(irq, Watched)'
    BY <1>5, <2>1, StepsGuards, BarrierStep
  <2>5. CASE phase' = "probe" /\ Back(ahead')
    <3>1. PxqProbing' /\ (irq \in held' => Watched \subseteq held')
      BY <2>4, <2>5 DEF PxqProbing, Barrier
    <3> QED BY <1>1, <1>3, <1>5, <2>2, <2>5, <3>1
  <2>6. CASE phase' \in {"crashed", "failed"}
    <3>1. held' = held
      BY <1>5, <2>2, <2>6
    <3>2. Streaming => EarlyStart
      BY <1>1, <1>5 DEF PxqInv
    <3> QED BY <1>1, <1>4, <2>2, <2>6, <3>1, <3>2
  <2> QED BY <1>5, <2>3, <2>5, <2>6
<1>6. CASE phase = "probe" /\ ~(Back(ahead) /\ Barrier(irq, Watched))
  <2>1. /\ Main(ahead, Watched)
        /\ \A c \in Watched : c \in held \/ Early(ahead, c, irq)
        /\ dma \in held \/ Early(ahead, dma, Null)
        /\ irq \in held => Watched \subseteq held
        /\ Streaming => EarlyStart
    BY <1>1, <1>6 DEF PxqInv, PxqProbing
  <2>2. /\ Null \notin held' \cup gone'
        /\ \/ phase' = "crashed" /\ held' = held
           \/ phase' = phase /\ held' = held /\ Abort(ahead', Watched)
           \/ Onwards(Watched)
    BY <1>1, <2>1, MainTaken
  <2>3. CASE phase' = "crashed" /\ held' = held
    BY <1>1, <1>4, <2>1, <2>2, <2>3
  <2>4. CASE phase' = phase /\ held' = held /\ Abort(ahead', Watched)
    <3>1. Back(ahead') /\ Barrier(irq, Watched)'
      BY <2>1, <2>4 DEF Abort, Back, Barrier
    <3>2. PxqProbing'
      BY <3>1 DEF PxqProbing
    <3> QED BY <1>1, <1>3, <1>6, <2>1, <2>2, <2>4, <3>2
  <2>5. CASE Onwards(Watched)
    <3>1. phase' = phase /\ Main(ahead', Watched) /\ held' \intersect Barred \subseteq held /\ held \intersect Dear \subseteq held'
      BY <2>5 DEF Onwards
    <3>2. \A c \in Watched : c \in held' \/ Early(ahead', c, irq)
      BY <2>1, <2>5, StepsGuards DEF Onwards
    <3>3. dma \in held' \/ Early(ahead', dma, Null)
      BY <2>1, <2>5, StepsGuards DEF Onwards
    <3>4. irq \in held' => Watched \subseteq held'
      <4>1. ASSUME irq \in held', irq \notin held PROVE Watched \subseteq held
        <5>1. \A c : Early(ahead, c, irq) => c = irq
          BY <2>5, <4>1 DEF Onwards
        <5> QED BY <2>1, <5>1, StepsGuards
      <4>2. irq \in held' => Watched \subseteq held
        BY <2>1, <4>1
      <4> QED BY <3>1, <4>2, StepsGuards
    <3>5. PxqProbing'
      BY <3>1, <3>2, <3>3 DEF PxqProbing
    <3> QED BY <1>1, <1>3, <1>6, <2>2, <3>1, <3>4, <3>5
  <2> QED BY <2>2, <2>3, <2>4, <2>5
<1>7. CASE phase = "remove"
  <2>1. /\ Obeys(ahead, Calm, Losing({Null}))
        /\ drv = "pxq3pe_dtv" => Barrier(irq, Watched \cup {dma})
        /\ drv = "pxq3pe_pci" => Barrier(irq, Watched) /\ Coupled(ahead) /\ OneBehind
    BY <1>1, <1>7 DEF PxqInv, PxqRemoving
  <2>2. /\ Null \notin held' \cup gone' /\ held' \subseteq held /\ Obeys(ahead', Calm, Losing({Null}))
        /\ phase' = phase \/ (phase' \in {"crashed", "failed"} /\ held' = held)
    BY <1>1, <2>1, CalmStep
  <2>3. drv = "pxq3pe_dtv" => Barrier(irq, Watched \cup {dma})'
    BY <2>1, StepsGuards, BarrierStep
  <2>4. drv = "pxq3pe_pci" => Barrier(irq, Watched)'
    BY <2>1, StepsGuards, BarrierStep
  <2>5. drv = "pxq3pe_pci" =>
          Coupled(ahead') /\ OneBehind' /\ (phase' # phase => (irq \in held' => dma \in held'))
    BY <2>1, CoupledStep
  <2>6. drv = "pxq3pe_dtv" \/ drv = "pxq3pe_pci"
    BY DEF Pxqs
  <2>7. CASE phase' = phase
    <3>1. PxqRemoving'
      BY <1>1, <2>2, <2>3, <2>4, <2>5 DEF PxqRemoving
    <3>2. irq \in held' => Watched \subseteq held'
      BY <2>3, <2>4, <2>6 DEF Barrier
    <3>3. irq \in held' => dma \in held' \/ drv' = "pxq3pe_pci"
      BY <1>1, <2>3, <2>6 DEF Barrier
    <3> QED BY <1>1, <1>7, <2>2, <2>7, <3>1, <3>2, <3>3 DEF PxqInv
  <2>8. CASE phase' # phase
    <3>1. phase' \in {"crashed", "failed"} /\ held' = held
      BY <2>2, <2>8
    <3>2. irq \in held => dma \in held
      BY <2>3, <2>5, <2>6, <2>8, <3>1 DEF Barrier
    <3> QED BY <1>1, <1>4, <2>2, <3>1, <3>2
  <2> QED BY <2>7, <2>8
<1> QED BY <1>1, <1>5, <1>6, <1>7

LEMMA TameSteps ==
  ASSUME Steps, DlInv, drv \notin Pt3s \cup Pxqs
  PROVE  Tame(ahead') /\ held' \intersect Mute = {} /\ phase' \in Phases
<1>1. Tame(ahead) /\ held \intersect Mute = {} /\ phase \in Phases /\ {"crashed", "failed"} \subseteq Phases
  BY DEF DlInv, Phases
<1>2. phase' \in Phases
  BY <1>1 DEF Steps, Take, TakeFails, Works, Test, Touch, Crash, GiveBack, Forget, ProbeFails, Go, GoTo
<1> QED BY <1>1, <1>2, TameStep

\* A step of what is ahead keeps the invariant.
LEMMA StepsKeep ==
  ASSUME Steps, DlInv
  PROVE  DlInv'
<1>1. drv' = drv /\ drv \in Drivers
  BY StepFacts DEF DlInv
<1>2. CASE drv \in Pt3s
  <2>1. drv \notin Pxqs
    BY <1>2 DEF Pt3s, Pxqs
  <2> QED BY <1>1, <1>2, <2>1, Pt3Steps DEF DlInv
<1>3. CASE drv \in Pxqs
  <2>1. drv \notin Pt3s
    BY <1>3 DEF Pt3s, Pxqs
  <2> QED BY <1>1, <1>3, <2>1, PxqSteps DEF DlInv
<1>4. CASE drv \notin Pt3s \cup Pxqs
  BY <1>1, <1>4, TameSteps DEF DlInv
<1> QED BY <1>2, <1>3, <1>4

\* With nothing ahead a probe has taken what it was to take.
LEMMA NothingAhead ==
  ASSUME ahead = <<>>
  PROVE  ~Back(ahead) /\ ~HandlerNext /\ \A c, x : ~Early(ahead, c, x)
<1>1. Len(ahead) = 0
  BY ahead = <<>>
<1>2. \A c, x : ~Early(ahead, c, x)
  BY <1>1 DEF Early
<1> QED BY <1>2 DEF Back, HandlerNext

LEMMA ProbeEndsKeeps ==
  ASSUME ProbeEnds, DlInv
  PROVE  DlInv'
<1>1. /\ phase = "probe" /\ ahead = <<>> /\ phase' = "live" /\ ahead' = ahead /\ drv' = drv
      /\ held' = held /\ gone' = gone /\ failures' = failures
  BY DEF ProbeEnds
<1>2. ~Back(ahead) /\ \A c, x : ~Early(ahead, c, x)
  BY <1>1, NothingAhead
<1>3. ASSUME drv \in Pt3s PROVE Pt3Inv'
  <2>1. Pt3Inv
    BY <1>3 DEF DlInv
  <2>2. Pages \subseteq held
    BY <1>1, <1>2, <2>1 DEF Pt3Inv
  <2> QED BY <1>1, <2>1, <2>2 DEF Pt3Inv
<1>4. ASSUME drv \in Pxqs PROVE PxqInv'
  <2>1. PxqInv
    BY <1>4 DEF DlInv
  <2>2. Board("dma") \in held
    BY <1>1, <1>2, <2>1 DEF PxqInv, PxqProbing
  <2> QED BY <1>1, <2>1, <2>2 DEF PxqInv
<1> QED BY <1>1, <1>3, <1>4 DEF DlInv, Phases

LEMMA PagesOfIn == \A i \in 1 .. Units : PagesOf(i) \subseteq Pages
<1>1. ASSUME NEW i \in 1 .. Units PROVE PagesOf(i) \subseteq Pages
  <2>1. \A x \in {"ts page 1", "ts page 2", "desc page 1", "desc page 2"} : <<x, i>> \in Pages
    BY DEF Pages
  <2> QED BY <2>1 DEF PagesOf
<1> QED BY <1>1

LEMMA RemoveBeginsKeeps ==
  ASSUME RemoveBegins, DlInv
  PROVE  DlInv'
<1>1. /\ phase = "live" /\ phase' = "remove" /\ ahead' = RemoveOf(drv) /\ drv' = drv
      /\ held' = held /\ gone' = gone /\ failures' = failures
  BY DEF RemoveBegins
<1>2. ASSUME drv \in Pt3s PROVE Pt3Inv'
  <2>1. Pt3Inv /\ Pages \subseteq held
    BY <1>1, <1>2 DEF DlInv, Pt3Inv
  <2>2. ahead' = Pt3Remove \/ ahead' = Pt3RemoveOne
    BY <1>1, <1>2 DEF Pt3s, RemoveOf
  <2>3. \A i \in 1 .. Units : Shut(ahead', <<"engine", i>>, PagesOf(i))
    BY <2>2, Pt3RemoveFits, Pt3RemoveOneFits
  <2>4. Obeys(ahead', Calm, Losing({Null}))
    <3>1. 1 \in 1 .. Units
      BY StepsAssumption
    <3> QED BY <2>3, <3>1 DEF Shut
  <2>5. \A i \in 1 .. Units : PagesOf(i) \subseteq Pages
    BY PagesOfIn
  <2>6. \A i \in 1 .. Units : Barrier(<<"engine", i>>, PagesOf(i))'
    BY <1>1, <2>1, <2>3, <2>5 DEF Barrier, Shut
  <2> QED BY <1>1, <2>1, <2>4, <2>5, <2>6 DEF Pt3Inv
<1>3. ASSUME drv \in Pxqs PROVE PxqInv'
  <2>1. PxqInv /\ Board("dma") \in held /\ (Board("irq") \in held => Watched \subseteq held)
    BY <1>1, <1>3 DEF DlInv, PxqInv
  <2>2. CASE drv = "pxq3pe_pci"
    <3>1. Shut(ahead', Board("irq"), Watched) /\ Coupled(ahead')
      BY <1>1, <2>2, PxqRemoveFits DEF RemoveOf
    <3>2. Barrier(Board("irq"), Watched)' /\ OneBehind'
      BY <1>1, <2>1, <3>1 DEF Barrier, Shut, OneBehind
    <3>3. PxqRemoving'
      BY <1>1, <2>2, <3>1, <3>2 DEF PxqRemoving, Shut
    <3> QED BY <1>1, <2>1, <3>3 DEF PxqInv
  <2>3. CASE drv = "pxq3pe_dtv"
    <3>1. Shut(ahead', Board("irq"), Watched \cup {Board("dma")})
      BY <1>1, <2>3, PxqRemoveCdevFits DEF RemoveOf
    <3>2. Barrier(Board("irq"), Watched \cup {Board("dma")})'
      BY <1>1, <2>1, <3>1 DEF Barrier, Shut
    <3>3. PxqRemoving'
      BY <1>1, <2>3, <3>1, <3>2 DEF PxqRemoving, Shut
    <3> QED BY <1>1, <2>1, <3>3 DEF PxqInv
  <2> QED BY <1>3, <2>2, <2>3 DEF Pxqs
<1>4. ASSUME drv \notin Pt3s \cup Pxqs PROVE Tame(ahead')
  <2>1. RemoveOf(drv) = Disconnect
    BY <1>4 DEF RemoveOf, Pt3s, Pxqs
  <2> QED BY <1>1, <2>1, TameUsb
<1> QED BY <1>1, <1>2, <1>3, <1>4 DEF DlInv, Phases

LEMMA RemoveEndsKeeps ==
  ASSUME RemoveEnds, DlInv
  PROVE  DlInv'
<1>1. /\ phase = "remove" /\ ahead = <<>> /\ phase' = "gone" /\ ahead' = ahead /\ drv' = drv
      /\ held' = held /\ gone' = gone /\ failures' = failures
  BY DEF RemoveEnds
<1>2. ASSUME drv \in Pt3s PROVE Pt3Inv'
  BY <1>1, <1>2 DEF DlInv, Pt3Inv
<1>3. ASSUME drv \in Pxqs PROVE PxqInv'
  <2>1. PxqInv /\ PxqRemoving
    BY <1>1, <1>3 DEF DlInv, PxqInv
  <2>2. Board("irq") \in held => Board("dma") \in held
    <3>1. ~HandlerNext
      BY <1>1, NothingAhead
    <3> QED BY <1>3, <2>1, <3>1 DEF Pxqs, PxqRemoving, Barrier, OneBehind
  <2> QED BY <1>1, <2>1, <2>2 DEF PxqInv
<1> QED BY <1>1, <1>2, <1>3 DEF DlInv, Phases

LEMMA StreamStartsKeeps ==
  ASSUME NEW i \in 1 .. Units, StreamStarts(i), DlInv
  PROVE  DlInv'
<1>1. /\ drv' = drv /\ phase' = phase /\ ahead' = ahead /\ gone' = gone
      /\ held' = held \union {<<"engine", i>>}
      /\ drv \in Pt3s \cup Pxqs
      /\ phase = "live" \/ (phase = "probe" /\ drv = "pxq3pe_dtv")
  BY DEF StreamStarts, Pt3s, Pxqs
<1>2. failures \subseteq failures' /\ (phase = "live" \/ EarlyStart')
  BY DEF StreamStarts, EarlyStart
<1>3. <<"engine", i>> # Null /\ <<"engine", i>> # Board("irq")
  BY DEF Null, Board
<1>4. Null \notin held' \cup gone' /\ (Board("irq") \in held' => Board("irq") \in held)
  BY <1>1, <1>3 DEF DlInv
<1>5. ASSUME drv \in Pt3s PROVE Pt3Inv'
  <2>1. Pt3Inv /\ phase = "live"
    BY <1>1, <1>5 DEF DlInv, Pt3s
  <2>2. Pages \subseteq held' /\ \A k \in 1 .. Units : PagesOf(k) \subseteq Pages
    <3>1. Pages \subseteq held
      BY <2>1 DEF Pt3Inv
    <3>2. ASSUME NEW k \in 1 .. Units, NEW x \in Pages PROVE x # <<"engine", k>>
      <4>1. PICK n \in {"ts page 1", "ts page 2", "desc page 1", "desc page 2"}, m \in 1 .. Units : x = <<n, m>>
        BY InPages
      <4> QED BY <4>1
    <3> QED BY <1>1, <3>1, <3>2, PagesOfIn
  <2> QED BY <1>1, <1>4, <2>1, <2>2 DEF Pt3Inv
<1>6. ASSUME drv \in Pxqs PROVE PxqInv'
  <2>1. PxqInv
    BY <1>6 DEF DlInv
  <2>2. CASE phase = "live"
    <3>1. Board("dma") \in held'
      BY <1>1, <2>1, <2>2 DEF PxqInv
    <3> QED BY <1>1, <1>4, <2>1, <2>2, <3>1 DEF PxqInv
  <2>3. CASE phase = "probe" /\ EarlyStart'
    <3>1. PxqProbing
      BY <2>1, <2>3 DEF PxqInv
    <3>2. PxqProbing'
      BY <1>1, <1>4, <3>1 DEF PxqProbing, Barrier
    <3> QED BY <1>1, <1>4, <2>1, <2>3, <3>2 DEF PxqInv
  <2> QED BY <1>1, <1>2, <2>2, <2>3
<1> QED BY <1>1, <1>4, <1>5, <1>6 DEF DlInv

LEMMA StreamEndsKeeps ==
  ASSUME NEW i \in 1 .. Units, StreamEnds(i), DlInv
  PROVE  DlInv'
<1>1. /\ drv' = drv /\ phase' = phase /\ ahead' = ahead /\ gone' = gone /\ phase = "live"
      /\ held' = held \ {<<"engine", i>>} /\ drv \notin Pxqs
  BY DEF StreamEnds, IsPxq, Pxqs
<1>2. ASSUME drv \in Pt3s PROVE Pt3Inv'
  <2>1. Pt3Inv /\ Pages \subseteq held
    BY <1>1, <1>2 DEF DlInv, Pt3Inv
  <2>2. Pages \subseteq held' /\ \A k \in 1 .. Units : PagesOf(k) \subseteq Pages
    <3>1. Pages \subseteq held
      BY <2>1 DEF Pt3Inv
    <3>2. ASSUME NEW k \in 1 .. Units, NEW x \in Pages PROVE x # <<"engine", k>>
      <4>1. PICK n \in {"ts page 1", "ts page 2", "desc page 1", "desc page 2"}, m \in 1 .. Units : x = <<n, m>>
        BY InPages
      <4> QED BY <4>1
    <3> QED BY <1>1, <3>1, <3>2, PagesOfIn
  <2> QED BY <1>1, <2>1, <2>2 DEF Pt3Inv
<1> QED BY <1>1, <1>2 DEF DlInv

LEMMA DlInvNext == DlInv /\ [DlNext]_dlVars => DlInv'
<1> SUFFICES ASSUME DlInv, [DlNext]_dlVars PROVE DlInv'
  OBVIOUS
<1>1. CASE Steps
  BY <1>1, StepsKeep
<1>2. CASE ProbeEnds
  BY <1>2, ProbeEndsKeeps
<1>3. CASE RemoveBegins
  BY <1>3, RemoveBeginsKeeps
<1>4. CASE RemoveEnds
  BY <1>4, RemoveEndsKeeps
<1>5. CASE \E i \in 1 .. Units : StreamStarts(i) \/ StreamEnds(i)
  BY <1>5, StreamStartsKeeps, StreamEndsKeeps
<1>6. CASE UNCHANGED dlVars
  BY <1>6 DEF dlVars, DlInv, Pt3Inv, PxqInv, PxqProbing, PxqRemoving, Barrier, OneBehind, HandlerNext, Streaming,
              EarlyStart
<1> QED BY <1>1, <1>2, <1>3, <1>4, <1>5, <1>6 DEF DlNext, Steps

\* What the invariant is for.
LEMMA DlInvStreams == DlInv => StreamSafe
<1> SUFFICES ASSUME DlInv PROVE StreamSafe
  OBVIOUS
<1>1. CASE drv \in Pt3s
  <2>1. Board("irq") \notin held /\ \A i \in 1 .. Units : <<"engine", i>> \in held => PagesOf(i) \subseteq held
    BY <1>1 DEF DlInv, Pt3Inv
  <2>2. \A i \in 1 .. Units : EngineMemory(i) = PagesOf(i)
    BY <1>1 DEF EngineMemory, PagesOf, Pt3s
  <2> QED BY <2>1, <2>2 DEF StreamSafe
<1>2. CASE drv \in Pxqs
  <2>1. IsPxq /\ \A i : EngineMemory(i) = {Board("dma")}
    BY <1>2 DEF Pxqs, IsPxq, EngineMemory
  <2>2. PxqInv
    BY <1>2 DEF DlInv
  <2>3. ASSUME Board("irq") \in held
        PROVE  /\ Board("bar") \in held /\ \A i \in 1 .. Units : <<"sBuf", i>> \in held
               /\ \/ Board("dma") \in held \/ Engines \intersect held = {}
                  \/ drv = "pxq3pe_pci" /\ phase = "remove"
                  \/ Board("started early") \in failures
    BY <2>2, <2>3 DEF PxqInv, Watched, Buffers, Streaming, EarlyStart
  <2>4. phase # "live" \/ Board("dma") \in held
    BY <2>2 DEF PxqInv
  <2> QED BY <2>1, <2>3, <2>4 DEF StreamSafe
<1>3. CASE drv \notin Pt3s \cup Pxqs
  <2>1. held \intersect Mute = {}
    BY <1>3 DEF DlInv
  <2>2. Board("irq") \notin held /\ \A i \in 1 .. Units : <<"engine", i>> \notin held
    BY <2>1 DEF Mute, Engines
  <2> QED BY <2>2 DEF StreamSafe
<1> QED BY <1>1, <1>2, <1>3

\* For any number of adapters, whatever step of a probe fails and whenever
\* streams start and boards are removed: what the interrupt handler and the
\* DMA engines of the PT3 and PX-Q3PE drivers use is there as long as they run,
\* but for the cases StreamSafe names.
THEOREM StreamSafeHolds == DlSpec => []StreamSafe
<1>1. DlInit => DlInv
  BY DlInvInit
<1>2. DlInv /\ [DlNext]_dlVars => DlInv'
  BY DlInvNext
<1>3. DlInv => StreamSafe
  BY DlInvStreams
<1> QED BY <1>1, <1>2, <1>3, PTL DEF DlSpec
=============================================================================
