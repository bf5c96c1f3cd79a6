--------------------------- MODULE RecorderProofs ---------------------------
(***************************************************************************)
(* Theorems about recpt1, for a queue of any size and any retry limit,     *)
(* with every fault and any number of messages: the types, the agreement   *)
(* of the queue's four fields, that the queue is a FIFO, that main learns  *)
(* when reader_func is gone, that no buffer is lost on the way from the    *)
(* tuner to the file, and what a recording that has ended may lack.        *)
(***************************************************************************)
EXTENDS Recorder, SequenceTheorems, TLAPS

-----------------------------------------------------------------------------
(* The queue, whoever uses it: create_queue, Put and Take keep the counters *)
(* and the positions in agreement, and they are the initial state, Add and  *)
(* Remove of a bounded FIFO queue.                                          *)

QInv == QTypeOK /\ QConsistent

(* The items of a ring b of n slots: k of them, from position o on.        *)
Ring(n, b, o, k) == [i \in 1 .. k |-> b[(o + i - 1) % n]]

(* The slots with d in the one that follows the last item.                 *)
Filled(n, b, o, k, d) == [b EXCEPT ![(o + k) % n] = d]

-----------------------------------------------------------------------------
(* Positions modulo the size.  A position and a number of items add up to  *)
(* less than twice the size, so that one subtraction is all it takes.      *)

(* A slot is its own position. *)
LEMMA Low ==
  ASSUME NEW n \in Nat \ {0}, NEW x \in 0 .. n - 1
  PROVE  x % n = x
  OBVIOUS

(* Past the end, the ring begins again. *)
LEMMA High ==
  ASSUME NEW n \in Nat \ {0}, NEW x \in n .. 2 * n - 1
  PROVE  x % n = x - n
  OBVIOUS

(* Every position is a slot. *)
LEMMA Wrap ==
  ASSUME NEW n \in Nat \ {0}, NEW x \in 0 .. 2 * n - 1
  PROVE  x % n \in 0 .. n - 1
  OBVIOUS

(* Two positions less than Size apart are different slots. *)
LEMMA WrapDistinct ==
  ASSUME NEW n \in Nat \ {0}, NEW x \in 0 .. 2 * n - 1, NEW y \in 0 .. 2 * n - 1,
         x < y, y < x + n
  PROVE  x % n # y % n
<1>1. CASE x < n /\ y < n
  <2>1. x \in 0 .. n - 1 /\ y \in 0 .. n - 1
    BY <1>1
  <2>2. x % n = x
    BY <2>1, Low
  <2>3. y % n = y
    BY <2>1, Low
  <2> QED
    BY <2>2, <2>3
<1>2. CASE x < n /\ y >= n
  <2>1. x \in 0 .. n - 1 /\ y \in n .. 2 * n - 1
    BY <1>2
  <2>2. x % n = x
    BY <2>1, Low
  <2>3. y % n = y - n
    BY <2>1, High
  <2> QED
    BY <2>2, <2>3
<1>3. CASE x >= n
  <2>1. x \in n .. 2 * n - 1 /\ y \in n .. 2 * n - 1
    BY <1>3
  <2>2. x % n = x - n
    BY <2>1, High
  <2>3. y % n = y - n
    BY <2>1, High
  <2> QED
    BY <2>2, <2>3
<1> QED
  BY <1>1, <1>2, <1>3

(* The oldest item moves up by one: the k-th after it is the (k+1)-st now. *)
LEMMA StepOne ==
  ASSUME NEW n \in Nat \ {0}, NEW o \in 0 .. n - 1, NEW k \in 0 .. n - 1
  PROVE  (((o + 1) % n) + k) % n = (o + k + 1) % n
<1>1. CASE o + 1 < n
  <2>1. o + 1 \in 0 .. n - 1
    BY <1>1
  <2>2. (o + 1) % n = o + 1
    BY <2>1, Low
  <2> QED
    BY <2>2
<1>2. CASE o + 1 = n
  <2>1. n \in n .. 2 * n - 1
    OBVIOUS
  <2>2. (o + 1) % n = 0
    <3>1. n % n = n - n
      BY <2>1, High
    <3> QED
      BY <1>2, <3>1
  <2>3. o + k + 1 \in n .. 2 * n - 1 /\ o + k + 1 - n = k
    BY <1>2
  <2>4. (o + k + 1) % n = k
    BY <2>3, High
  <2>5. k % n = k
    BY Low
  <2> QED
    BY <2>2, <2>4, <2>5
<1> QED
  BY <1>1, <1>2

(* The next free slot moves up by one. *)
LEMMA StepTwo ==
  ASSUME NEW n \in Nat \ {0}, NEW o \in 0 .. n - 1, NEW k \in 0 .. n - 1
  PROVE  (((o + k) % n) + 1) % n = (o + k + 1) % n
<1>1. CASE o + k < n
  <2>1. o + k \in 0 .. n - 1
    BY <1>1
  <2>2. (o + k) % n = o + k
    BY <2>1, Low
  <2> QED
    BY <2>2
<1>2. CASE o + k >= n
  <2>1. o + k \in n .. 2 * n - 1
    BY <1>2
  <2>2. (o + k) % n = o + k - n
    BY <2>1, High
  <2>3. (o + k + 1) % n = o + k + 1 - n
    <3>1. o + k + 1 \in n .. 2 * n - 1
      BY <1>2
    <3> QED
      BY <3>1, High
  <2>4. o + k - n + 1 \in 0 .. n - 1 /\ o + k - n + 1 = o + k + 1 - n
    BY <2>1
  <2>5. (o + k - n + 1) % n = o + k - n + 1
    BY <2>4, Low
  <2> QED
    BY <2>2, <2>3, <2>4, <2>5
<1> QED
  BY <1>1, <1>2

-----------------------------------------------------------------------------
(* The counters and the positions.                                         *)

(* create_queue makes a queue in good order. *)
LEMMA CreateQInv == create_queue => QInv
<1> SUFFICES ASSUME create_queue PROVE QInv
  OBVIOUS
<1>1. QTypeOK
  BY SizeAssumption DEF create_queue, QTypeOK, Slot, Item
<1>2. QConsistent
  <2>1. 0 \in 0 .. Size - 1 /\ 0 + 0 = 0
    BY SizeAssumption
  <2>2. 0 % Size = 0
    BY <2>1, SizeAssumption, Low
  <2> QED
    BY <2>1, <2>2, SizeAssumption DEF create_queue, QConsistent
<1> QED
  BY <1>1, <1>2 DEF QInv

(* The critical section of enqueue keeps it so. *)
LEMMA PutQInv ==
  ASSUME QInv, NEW data \in Item, Put(data)
  PROVE  QInv'
<1> USE SizeAssumption DEF Slot
<1>1. in + 1 \in 0 .. 2 * Size - 1
  BY DEF QInv, QTypeOK
<1>2. (in + 1) % Size \in Slot
  BY <1>1, Wrap
<1>3. QTypeOK'
  BY <1>2 DEF QInv, QTypeOK, QConsistent, Put
<1>4. out \in 0 .. Size - 1 /\ num_used \in 0 .. Size - 1
  BY DEF QInv, QTypeOK, QConsistent, Put
<1>5. (((out + num_used) % Size) + 1) % Size = (out + num_used + 1) % Size
  BY <1>4, StepTwo
<1>6. out + num_used + 1 = out + (num_used + 1)
  BY <1>4
<1>7. QConsistent'
  BY <1>4, <1>5, <1>6 DEF QInv, QTypeOK, QConsistent, Put
<1> QED
  BY <1>3, <1>7 DEF QInv

(* So does the critical section of dequeue. *)
LEMMA TakeQInv ==
  ASSUME QInv, Take
  PROVE  QInv'
<1> USE SizeAssumption DEF Slot
<1>1. out + 1 \in 0 .. 2 * Size - 1
  BY DEF QInv, QTypeOK
<1>2. (out + 1) % Size \in Slot
  BY <1>1, Wrap
<1>3. QTypeOK'
  BY <1>2 DEF QInv, QTypeOK, QConsistent, Take
<1>4. out \in 0 .. Size - 1 /\ num_used - 1 \in 0 .. Size - 1 /\ num_used \in Nat
  BY DEF QInv, QTypeOK, QConsistent, Take
<1>5. (((out + 1) % Size) + (num_used - 1)) % Size = (out + (num_used - 1) + 1) % Size
  BY <1>4, StepOne
<1>6. out + (num_used - 1) + 1 = out + num_used
  BY <1>4
<1>7. QConsistent'
  BY <1>4, <1>5, <1>6 DEF QInv, QTypeOK, QConsistent, Take
<1> QED
  BY <1>3, <1>7 DEF QInv

(* So does a step that leaves the fields alone. *)
LEMMA IdleQInv == QInv /\ UNCHANGED qvars => QInv'
  BY DEF QInv, QTypeOK, QConsistent, qvars

(* What dequeue returns was enqueued. *)
LEMMA OldestInItem == QInv => Oldest \in Item
  BY DEF QInv, QTypeOK, Oldest

-----------------------------------------------------------------------------
(* The items, as a sequence.                                               *)

(* A function on 1 .. k is a sequence of length k. *)
LEMMA LenOfFunction ==
  ASSUME NEW S, NEW k \in Nat, NEW c \in [1 .. k -> S]
  PROVE  c \in Seq(S) /\ Len(c) = k
<1>1. c \in Seq(S)
  OBVIOUS
<1>2. Len(c) \in Nat /\ DOMAIN c = 1 .. Len(c)
  BY <1>1
<1>3. DOMAIN c = 1 .. k
  OBVIOUS
<1>4. 1 .. k = 1 .. Len(c)
  BY <1>2, <1>3
<1>5. k = Len(c)
  BY <1>2, <1>4
<1> QED
  BY <1>1, <1>5

(* The items of a ring are a sequence. *)
LEMMA RingSeq ==
  ASSUME NEW n \in Nat \ {0}, NEW b \in [0 .. n - 1 -> Item],
         NEW o \in 0 .. n - 1, NEW k \in 0 .. n
  PROVE  Ring(n, b, o, k) \in Seq(Item) /\ Len(Ring(n, b, o, k)) = k
<1>1. ASSUME NEW i \in 1 .. k
      PROVE  b[(o + i - 1) % n] \in Item
  <2>1. o + i - 1 \in 0 .. 2 * n - 1
    OBVIOUS
  <2>2. (o + i - 1) % n \in 0 .. n - 1
    BY <2>1, Wrap
  <2> QED
    BY <2>2
<1>2. k \in Nat
  OBVIOUS
<1>3. Ring(n, b, o, k) \in [1 .. k -> Item]
  BY <1>1 DEF Ring
<1> QED
  BY <1>2, <1>3, LenOfFunction

(* Filling the slot after the last item appends to them: no slot that      *)
(* holds an item is written.                                               *)
LEMMA RingAppend ==
  ASSUME NEW n \in Nat \ {0}, NEW b \in [0 .. n - 1 -> Item],
         NEW o \in 0 .. n - 1, NEW k \in 0 .. n - 1, NEW d \in Item
  PROVE  Ring(n, Filled(n, b, o, k, d), o, k + 1) = Append(Ring(n, b, o, k), d)
<1> DEFINE w == [b EXCEPT ![(o + k) % n] = d]
           r == Ring(n, b, o, k)
           t == Ring(n, w, o, k + 1)
<1>1. o + k \in 0 .. 2 * n - 1 /\ (o + k) % n \in 0 .. n - 1
  <2>1. o + k \in 0 .. 2 * n - 1
    OBVIOUS
  <2> QED
    BY <2>1, Wrap
<1>2. w \in [0 .. n - 1 -> Item]
  OBVIOUS
<1>3. r \in Seq(Item) /\ Len(r) = k
  <2>1. k \in 0 .. n
    OBVIOUS
  <2> QED
    BY <2>1, RingSeq
<1>4. t \in Seq(Item) /\ Len(t) = k + 1
  <2>1. k + 1 \in 0 .. n
    OBVIOUS
  <2> HIDE DEF w
  <2> QED
    BY <1>2, <2>1, RingSeq
<1>5. /\ Append(r, d) \in Seq(Item) /\ Len(Append(r, d)) = k + 1
      /\ Append(r, d)[k + 1] = d
      /\ \A i \in 1 .. k : Append(r, d)[i] = r[i]
  <2> HIDE DEF r
  <2> QED
    BY <1>3
<1>6. t[k + 1] = d
  <2>1. t[k + 1] = w[(o + (k + 1) - 1) % n]
    BY DEF Ring
  <2>2. o + (k + 1) - 1 = o + k
    OBVIOUS
  <2>3. w[(o + k) % n] = d
    BY <1>1
  <2> HIDE DEF w, t
  <2> QED
    BY <2>1, <2>2, <2>3
<1>7. ASSUME NEW i \in 1 .. k
      PROVE  t[i] = r[i]
  <2>1. i \in 1 .. k + 1
    OBVIOUS
  <2>2. t[i] = w[(o + i - 1) % n] /\ r[i] = b[(o + i - 1) % n]
    BY <2>1 DEF Ring
  <2>3. /\ o + i - 1 \in 0 .. 2 * n - 1
        /\ o + i - 1 < o + k
        /\ o + k < o + i - 1 + n
    OBVIOUS
  <2>4. (o + i - 1) % n # (o + k) % n
    BY <1>1, <2>3, WrapDistinct
  <2>5. (o + i - 1) % n \in 0 .. n - 1
    BY <2>3, Wrap
  <2>6. w[(o + i - 1) % n] = b[(o + i - 1) % n]
    BY <2>4, <2>5
  <2> HIDE DEF w, t, r
  <2> QED
    BY <2>2, <2>6
<1>8. \A i \in 1 .. Len(t) : t[i] = Append(r, d)[i]
  <2> SUFFICES ASSUME NEW i \in 1 .. k + 1
               PROVE  t[i] = Append(r, d)[i]
    BY <1>4
  <2>1. i = k + 1 \/ i \in 1 .. k
    OBVIOUS
  <2> HIDE DEF w, t, r
  <2> QED
    BY <2>1, <1>5, <1>6, <1>7
<1> HIDE DEF w, t, r
<1>9. t = Append(r, d)
  BY <1>4, <1>5, <1>8, SeqEqual
<1> QED
  BY <1>9 DEF w, t, r, Filled

(* Moving up by one position drops the first of them. *)
LEMMA RingTail ==
  ASSUME NEW n \in Nat \ {0}, NEW b \in [0 .. n - 1 -> Item],
         NEW o \in 0 .. n - 1, NEW k \in 1 .. n
  PROVE  /\ Ring(n, b, o, k) # <<>>
         /\ Ring(n, b, o, k)[1] = b[o]
         /\ Ring(n, b, (o + 1) % n, k - 1) = Tail(Ring(n, b, o, k))
<1> DEFINE r == Ring(n, b, o, k)
           t == Ring(n, b, (o + 1) % n, k - 1)
<1>1. r \in Seq(Item) /\ Len(r) = k /\ k \in Nat \ {0}
  <2>1. k \in Nat \ {0}
    OBVIOUS
  <2>2. k \in 0 .. n
    OBVIOUS
  <2>3. r \in Seq(Item) /\ Len(r) = k
    BY <2>2, RingSeq
  <2> QED
    BY <2>1, <2>3
<1>2. (o + 1) % n \in 0 .. n - 1
  <2>1. o + 1 \in 0 .. 2 * n - 1
    OBVIOUS
  <2> QED
    BY <2>1, Wrap
<1>3. t \in Seq(Item) /\ Len(t) = k - 1
  <2> DEFINE p == (o + 1) % n
             j == k - 1
  <2>1. p \in 0 .. n - 1
    BY <1>2
  <2>2. j \in 0 .. n
    OBVIOUS
  <2> HIDE DEF p, j
  <2>3. Ring(n, b, p, j) \in Seq(Item) /\ Len(Ring(n, b, p, j)) = j
    BY <2>1, <2>2, RingSeq
  <2> QED
    BY <2>3 DEF p, j
<1>4. r # <<>>
  <2> HIDE DEF r
  <2> QED
    BY <1>1, EmptySeq
<1>5. r[1] = b[o]
  <2>1. r[1] = b[(o + 1 - 1) % n]
    BY DEF Ring
  <2>2. o + 1 - 1 = o /\ o % n = o
    BY Low
  <2> HIDE DEF r
  <2> QED
    BY <2>1, <2>2
<1>6. /\ Tail(r) \in Seq(Item)
      /\ Len(Tail(r)) = k - 1
      /\ \A i \in 1 .. k - 1 : Tail(r)[i] = r[i + 1]
  <2> HIDE DEF r
  <2> QED
    BY <1>1, <1>4, HeadTailProperties
<1>7. ASSUME NEW i \in 1 .. k - 1
      PROVE  t[i] = r[i + 1]
  <2>1. t[i] = b[(((o + 1) % n) + i - 1) % n]
    BY DEF Ring
  <2>2. i + 1 \in 1 .. k /\ i - 1 \in 0 .. n - 1
    OBVIOUS
  <2>3. r[i + 1] = b[(o + (i + 1) - 1) % n]
    BY <2>2 DEF Ring
  <2>4. (((o + 1) % n) + (i - 1)) % n = (o + (i - 1) + 1) % n
    BY <2>2, StepOne
  <2>5. /\ ((o + 1) % n) + (i - 1) = ((o + 1) % n) + i - 1
        /\ o + (i - 1) + 1 = o + (i + 1) - 1
    BY <1>2
  <2> HIDE DEF r, t
  <2> QED
    BY <2>1, <2>3, <2>4, <2>5
<1> HIDE DEF r, t
<1>8. t = Tail(r)
  BY <1>3, <1>6, <1>7, SeqEqual
<1> QED
  BY <1>4, <1>5, <1>8 DEF r, t

-----------------------------------------------------------------------------
(* The queue of RecQueue is a FIFO.                                        *)

(* Contents is the ring seen so. *)
LEMMA ContentsSeq ==
  ASSUME QInv
  PROVE  /\ Contents = Ring(Size, buffer, out, num_used)
         /\ Contents \in Seq(Item)
         /\ Len(Contents) = num_used
<1>1. Contents = Ring(Size, buffer, out, num_used)
  BY DEF Contents, Ring
<1>2. /\ buffer \in [0 .. Size - 1 -> Item]
      /\ out \in 0 .. Size - 1
      /\ num_used \in 0 .. Size
  BY DEF QInv, QTypeOK, Slot
<1> QED
  BY <1>1, <1>2, SizeAssumption, RingSeq

(* create_queue makes an empty queue. *)
LEMMA CreateIsEmpty == create_queue => Queue!Init
<1> SUFFICES ASSUME create_queue PROVE Queue!Init
  OBVIOUS
<1>1. Contents \in Seq(Item) /\ Len(Contents) = 0
  BY CreateQInv, ContentsSeq DEF create_queue
<1>2. Contents = <<>>
  BY <1>1, EmptySeq
<1> QED
  BY <1>2 DEF Queue!Init

(* Put appends, and only where there is room. *)
LEMMA PutAppends ==
  ASSUME QInv, NEW data \in Item, Put(data)
  PROVE  Queue!Add(data)
<1>1. /\ buffer \in [0 .. Size - 1 -> Item]
      /\ out \in 0 .. Size - 1
      /\ num_used \in 0 .. Size - 1
  BY SizeAssumption DEF QInv, QTypeOK, QConsistent, Put, Slot
<1>2. Contents' = Ring(Size, Filled(Size, buffer, out, num_used, data), out, num_used + 1)
  BY DEF Contents, Ring, Filled, Put, QInv, QConsistent
<1>3. Ring(Size, Filled(Size, buffer, out, num_used, data), out, num_used + 1)
      = Append(Ring(Size, buffer, out, num_used), data)
  BY <1>1, SizeAssumption, RingAppend
<1>4. Contents' = Append(Contents, data)
  BY <1>2, <1>3, ContentsSeq
<1>5. Len(Contents) < Size
  BY <1>1, SizeAssumption, ContentsSeq
<1> QED
  BY <1>4, <1>5 DEF Queue!Add

(* Take removes the oldest item, and only that. *)
LEMMA TakeRemoves ==
  ASSUME QInv, Take
  PROVE  /\ Queue!Remove
         /\ Oldest = Contents[1]
<1>1. /\ buffer \in [0 .. Size - 1 -> Item]
      /\ out \in 0 .. Size - 1
      /\ num_used \in 1 .. Size
  BY SizeAssumption DEF QInv, QTypeOK, QConsistent, Take, Slot
<1>2. Contents' = Ring(Size, buffer, (out + 1) % Size, num_used - 1)
  BY DEF Contents, Ring, Take
<1>3. /\ Ring(Size, buffer, out, num_used) # <<>>
      /\ Ring(Size, buffer, out, num_used)[1] = buffer[out]
      /\ Ring(Size, buffer, (out + 1) % Size, num_used - 1)
           = Tail(Ring(Size, buffer, out, num_used))
  BY <1>1, SizeAssumption, RingTail
<1>4. /\ Contents # <<>>
      /\ Contents[1] = buffer[out]
      /\ Contents' = Tail(Contents)
  BY <1>2, <1>3, ContentsSeq
<1> QED
  BY <1>4 DEF Queue!Remove, Oldest

(* A step that leaves the fields alone leaves the contents alone. *)
LEMMA IdleContents == UNCHANGED qvars => UNCHANGED Contents
  BY DEF qvars, Contents

-----------------------------------------------------------------------------
(* The threads.                                                            *)

(* reader_func decodes what dequeue returned, after the test for NULL.     *)
InHand == reader = "process" => rbuf # NULL

Inv == TypeOK /\ QConsistent /\ InHand

(* The queue changes by the two critical sections only, and what main      *)
(* passes to enqueue is mbuf.                                              *)
LEMMA QueueSteps ==
  ASSUME [Next]_vars
  PROVE  \/ main \in {"enqueue", "enqwait"} /\ Put(mbuf)
         \/ Take
         \/ UNCHANGED qvars
<1> USE DEF vars
<1>1. CASE Enqueue
  BY <1>1 DEF Enqueue
<1>2. CASE EnqWake
  BY <1>2 DEF EnqWake
<1>3. CASE Dequeue
  BY <1>3 DEF Dequeue, GotItem
<1>4. CASE DeqWake
  BY <1>4 DEF DeqWake, GotItem
<1>5. CASE MainStep /\ ~Enqueue /\ ~EnqWake
  BY <1>5 DEF MainStep, MainStart, MainTop, MainRead, ReadBuffer, MainReadNothing, MainCheck,
              MainStop, MainDrain, MainDrainNothing, MainDrainMalloc, MainEnd, MainRmid,
              MainKill, MainJoin, MainClose
<1>6. CASE ReaderStep /\ ~Dequeue /\ ~DeqWake
  BY <1>6 DEF ReaderStep, Process, LoopCheck, Flush
<1>7. CASE Stream \/ Tick \/ SigExternal \/ SigStep \/ Terminated \/ UNCHANGED vars
  BY <1>7 DEF Stream, Tick, SigExternal, SigStep, SigWait, CleanupStop, CleanupExit, Terminated
<1>8. CASE IpcStep
  BY <1>8 DEF IpcStep, IpcReceive, IpcRemoved, IpcStop, IpcRemainder, IpcReopen, IpcTune,
              IpcSetChannel, IpcRestart, IpcTime
<1> QED
  BY <1>1, <1>2, <1>3, <1>4, <1>5, <1>6, <1>7, <1>8 DEF Next

(* So a step keeps the queue in good order. *)
LEMMA StepQInv ==
  ASSUME Inv, [Next]_vars
  PROVE  QInv'
<1>1. QInv /\ mbuf \in Item
  BY DEF Inv, TypeOK, QInv
<1> QED
  BY <1>1, QueueSteps, PutQInv, TakeQInv, IdleQInv

-----------------------------------------------------------------------------
(* Initially. *)
LEMMA InitInv == Init => Inv
<1> SUFFICES ASSUME Init PROVE Inv
  OBVIOUS
<1>1. QTypeOK /\ QConsistent
  BY CreateQInv DEF Init, QInv
<1>2. <<>> \in Seq(BufNo)
  BY EmptySeq
<1>3. FlagsOK
  BY Zenon DEF Init, FlagsOK
<1>4. TypeOK
  BY <1>1, <1>2, <1>3, RetryAssumption, EnvAssumption, ReadAssumption
     DEF Init, TypeOK, MainAt, ReaderAt, SigAt, IpcAt, Quits, Item
<1> QED
  BY <1>1, <1>4 DEF Inv, InHand, Init

(* The flags stay flags. *)
LEMMA StepFlags ==
  ASSUME FlagsOK, [Next]_vars
  PROVE  FlagsOK'
<1> USE DEF FlagsOK, vars, mvars, rvars, svars, ivars, tvars, hvars, xvars
<1>1. CASE Stream
  BY <1>1, Zenon DEF Stream
<1>2. CASE Tick
  BY <1>2, Zenon DEF Tick
<1>3. CASE MainStart
  BY <1>3, Zenon DEF MainStart, StartRec
<1>4. CASE MainTop
  BY <1>4, Zenon DEF MainTop, SetExit
<1>5. CASE MainRead
  BY <1>5, Zenon DEF MainRead, ReadBuffer
<1>6. CASE MainReadNothing
  BY <1>6, Zenon DEF MainReadNothing
<1>7. CASE Enqueue
  BY <1>7, Zenon DEF Enqueue
<1>8. CASE EnqWake
  BY <1>8, Zenon DEF EnqWake, SetExit
<1>9. CASE MainCheck
  BY <1>9, Zenon DEF MainCheck
<1>10. CASE MainStop
  BY <1>10, Zenon DEF MainStop, StopRec
<1>11. CASE MainDrain
  BY <1>11, Zenon DEF MainDrain, ReadBuffer
<1>12. CASE MainDrainNothing
  BY <1>12, Zenon DEF MainDrainNothing
<1>13. CASE MainDrainMalloc
  BY <1>13, Zenon DEF MainDrainMalloc, SetExit
<1>14. CASE MainEnd
  BY <1>14, Zenon DEF MainEnd, SetExit
<1>15. CASE MainRmid
  BY <1>15, Zenon DEF MainRmid
<1>16. CASE MainKill
  BY <1>16, Zenon DEF MainKill
<1>17. CASE MainJoin
  BY <1>17, Zenon DEF MainJoin
<1>18. CASE MainClose
  BY <1>18, Zenon DEF MainClose, CloseTuner
<1>19. CASE Dequeue
  BY <1>19, Zenon DEF Dequeue, GotItem
<1>20. CASE DeqWake
  BY <1>20, Zenon DEF DeqWake, SetExit, GotItem
<1>21. CASE Process
  BY <1>21, Zenon DEF Process
<1>22. CASE LoopCheck
  BY <1>22, Zenon DEF LoopCheck
<1>23. CASE Flush
  BY <1>23, Zenon DEF Flush
<1>24. CASE SigExternal
  BY <1>24, Zenon DEF SigExternal
<1>25. CASE SigWait
  BY <1>25, Zenon DEF SigWait
<1>26. CASE CleanupStop
  BY <1>26, Zenon DEF CleanupStop, StopRec
<1>27. CASE CleanupExit
  BY <1>27, Zenon DEF CleanupExit, SetExit
<1>28. CASE IpcReceive
  BY <1>28, Zenon DEF IpcReceive
<1>29. CASE IpcRemoved
  BY <1>29, Zenon DEF IpcRemoved
<1>30. CASE IpcStop
  BY <1>30, Zenon DEF IpcStop, StopRec
<1>31. CASE IpcRemainder
  BY <1>31, Zenon DEF IpcRemainder
<1>32. CASE IpcReopen
  BY <1>32, Zenon DEF IpcReopen, CloseTuner
<1>33. CASE IpcTune
  BY <1>33, Zenon DEF IpcTune
<1>34. CASE IpcSetChannel
  BY <1>34, Zenon DEF IpcSetChannel
<1>35. CASE IpcRestart
  BY <1>35, Zenon DEF IpcRestart, StartRec
<1>36. CASE IpcTime
  BY <1>36, Zenon DEF IpcTime, SetExit, TotalIsOver, TotalIsSet, Extended
<1>37. CASE Terminated \/ UNCHANGED vars
  BY <1>37, Zenon DEF Terminated
<1> QED
  BY <1>1, <1>2, <1>3, <1>4, <1>5, <1>6, <1>7, <1>8, <1>9, <1>10, <1>11, <1>12, <1>13, <1>14, <1>15, <1>16, <1>17, <1>18, <1>19, <1>20, <1>21, <1>22, <1>23, <1>24, <1>25, <1>26, <1>27, <1>28, <1>29, <1>30, <1>31, <1>32, <1>33, <1>34, <1>35, <1>36, <1>37
     DEF Next, MainStep, ReaderStep, SigStep, IpcStep

(* A step keeps the types and the invariant: one case per action.          *)
LEMMA StepInv ==
  ASSUME Inv, [Next]_vars
  PROVE  Inv'
<1> USE RetryAssumption, EnvAssumption, ReadAssumption
    DEF Inv, TypeOK, InHand, MainAt, ReaderAt, SigAt, IpcAt, Quits, Item, BufNo,
        vars, mvars, rvars, svars, ivars, tvars, hvars, xvars, Reader, Sig, Ipc
<1>0. QTypeOK' /\ QConsistent' /\ FlagsOK'
  BY StepQInv, StepFlags DEF QInv
<1>q. Oldest \in Item
  BY OldestInItem DEF QInv
<1>1. CASE Stream
  BY <1>0, <1>q, <1>1 DEF Stream
<1>2. CASE Tick
  BY <1>0, <1>q, <1>2 DEF Tick
<1>3. CASE MainStart
  BY <1>0, <1>q, <1>3 DEF MainStart, StartRec
<1>4. CASE MainTop
  BY <1>0, <1>q, <1>4 DEF MainTop, SetExit
<1>5. CASE MainRead
  BY <1>0, <1>q, <1>5 DEF MainRead, ReadBuffer
<1>6. CASE MainReadNothing
  BY <1>0, <1>q, <1>6 DEF MainReadNothing
<1>7. CASE Enqueue
  BY <1>0, <1>q, <1>7 DEF Enqueue
<1>8. CASE EnqWake
  <2>1. mretry' \in 0 .. MaxRetry
    BY <1>8 DEF EnqWake, SetExit
  <2>2. dropped' \subseteq BufNo
    <3>1. {mbuf} \ {NULL} \subseteq BufNo
      OBVIOUS
    <3>2. dropped' \in {dropped, dropped \cup ({mbuf} \ {NULL})}
      BY <1>8 DEF EnqWake
    <3> QED
      BY <3>1, <3>2
  <2>3. main' \in MainAt /\ mbuf' \in Item
    BY <1>8 DEF EnqWake
  <2>4. cause' \in {"none", "time", "retry", "malloc", "signal", "ipc"}
    BY <1>8 DEF EnqWake, SetExit
  <2> QED
    BY <1>0, <1>8, <2>1, <2>2, <2>3, <2>4 DEF EnqWake
<1>9. CASE MainCheck
  BY <1>0, <1>q, <1>9 DEF MainCheck
<1>10. CASE MainStop
  BY <1>0, <1>q, <1>10 DEF MainStop, StopRec
<1>11. CASE MainDrain
  BY <1>0, <1>q, <1>11 DEF MainDrain, ReadBuffer
<1>12. CASE MainDrainNothing
  BY <1>0, <1>q, <1>12 DEF MainDrainNothing
<1>13. CASE MainDrainMalloc
  BY <1>0, <1>q, <1>13 DEF MainDrainMalloc, SetExit
<1>14. CASE MainEnd
  BY <1>0, <1>q, <1>14 DEF MainEnd, SetExit
<1>15. CASE MainRmid
  BY <1>0, <1>q, <1>15 DEF MainRmid
<1>16. CASE MainKill
  BY <1>0, <1>q, <1>16 DEF MainKill
<1>17. CASE MainJoin
  BY <1>0, <1>q, <1>17 DEF MainJoin
<1>18. CASE MainClose
  BY <1>0, <1>q, <1>18 DEF MainClose, CloseTuner
<1>19. CASE Dequeue
  BY <1>0, <1>q, <1>19 DEF Dequeue, GotItem
<1>20. CASE DeqWake
  BY <1>0, <1>q, <1>20 DEF DeqWake, SetExit, GotItem
<1>21. CASE Process
  <2>1. rbuf \in BufNo
    BY <1>21 DEF Process
  <2>2. Append(written, rbuf) \in Seq(BufNo) /\ Append(failed, rbuf) \in Seq(BufNo)
    <3> HIDE DEF BufNo
    <3> QED
      BY <2>1
  <2>3. /\ written' \in {written, Append(written, rbuf)}
        /\ failed' \in {failed, Append(failed, rbuf)}
    BY <1>21 DEF Process
  <2>4. written' \in Seq(BufNo) /\ failed' \in Seq(BufNo)
    <3> HIDE DEF BufNo
    <3> QED
      BY <2>2, <2>3
  <2>5. pending' \subseteq {"SIGINT", "SIGUSR1", "SIGUSR2"}
    BY <1>21 DEF Process
  <2> QED
    BY <1>0, <1>21, <2>4, <2>5 DEF Process
<1>22. CASE LoopCheck
  BY <1>0, <1>q, <1>22 DEF LoopCheck
<1>23. CASE Flush
  <2>1. pending' \subseteq {"SIGINT", "SIGUSR1", "SIGUSR2"}
    BY <1>23 DEF Flush
  <2> QED
    BY <1>0, <1>23, <2>1 DEF Flush
<1>24. CASE SigExternal
  BY <1>0, <1>q, <1>24 DEF SigExternal
<1>25. CASE SigWait
  BY <1>0, <1>q, <1>25 DEF SigWait
<1>26. CASE CleanupStop
  BY <1>0, <1>q, <1>26 DEF CleanupStop, StopRec
<1>27. CASE CleanupExit
  BY <1>0, <1>q, <1>27 DEF CleanupExit, SetExit
<1>28. CASE IpcReceive
  BY <1>0, <1>q, <1>28 DEF IpcReceive
<1>29. CASE IpcRemoved
  BY <1>0, <1>q, <1>29 DEF IpcRemoved
<1>30. CASE IpcStop
  BY <1>0, <1>q, <1>30 DEF IpcStop, StopRec
<1>31. CASE IpcRemainder
  BY <1>0, <1>q, <1>31 DEF IpcRemainder
<1>32. CASE IpcReopen
  BY <1>0, <1>q, <1>32 DEF IpcReopen, CloseTuner
<1>33. CASE IpcTune
  BY <1>0, <1>q, <1>33 DEF IpcTune
<1>34. CASE IpcSetChannel
  BY <1>0, <1>q, <1>34 DEF IpcSetChannel
<1>35. CASE IpcRestart
  BY <1>0, <1>q, <1>35 DEF IpcRestart, StartRec
<1>36. CASE IpcTime
  <2>1. ipc' \in IpcAt /\ cause' \in {"none", "time", "retry", "malloc", "signal", "ipc"}
    BY <1>36 DEF IpcTime, SetExit, TotalIsOver, TotalIsSet, Extended
  <2> QED
    BY <1>0, <1>36, <2>1 DEF IpcTime
<1>37. CASE Terminated \/ UNCHANGED vars
  <2>1. UNCHANGED vars
    BY <1>37 DEF Terminated
  <2> QED
    BY <1>0, <2>1
<1> QED
  BY <1>1, <1>2, <1>3, <1>4, <1>5, <1>6, <1>7, <1>8, <1>9, <1>10, <1>11, <1>12, <1>13, <1>14, <1>15, <1>16, <1>17, <1>18, <1>19, <1>20, <1>21, <1>22, <1>23, <1>24, <1>25, <1>26, <1>27, <1>28, <1>29, <1>30, <1>31, <1>32, <1>33, <1>34, <1>35, <1>36, <1>37
     DEF Next, MainStep, ReaderStep, SigStep, IpcStep

-----------------------------------------------------------------------------
(* reader_func and f_exit.                                                 *)

(* Whoever looks will see f_exit, or sig is about to set it.               *)
Noticed == f_exit \/ sig \in {"stop", "exit"} \/ (sig = "sigwait" /\ pending # {})

(* Why ReaderGoneIsNoticed holds: a failed write leaves a signal; sig ends *)
(* by setting f_exit; and the NULL that ends reader_func is handed over,   *)
(* from main through the queue, only when f_exit is set.                   *)
ReaderInv ==
  /\ sig = "done" => f_exit
  /\ reader \in {"flush", "done"} => Noticed
  /\ failed # <<>> => Noticed
  /\ main \in {"enqueue", "enqwait"} /\ mbuf = NULL => f_exit
  /\ \A i \in 1 .. num_used : Contents[i] = NULL => f_exit

(* f_exit is never taken back. *)
LEMMA ExitStays ==
  ASSUME f_exit, [Next]_vars
  PROVE  f_exit'
<1> USE DEF vars, xvars, SetExit
<1>1. CASE MainTop
  BY <1>1 DEF MainTop
<1>2. CASE EnqWake
  BY <1>2 DEF EnqWake
<1>3. CASE MainDrainMalloc
  BY <1>3 DEF MainDrainMalloc
<1>4. CASE MainEnd
  BY <1>4 DEF MainEnd
<1>5. CASE DeqWake
  BY <1>5 DEF DeqWake, GotItem
<1>6. CASE CleanupExit
  BY <1>6 DEF CleanupExit
<1>7. CASE IpcTime
  BY <1>7 DEF IpcTime, TotalIsOver, TotalIsSet, Extended
<1>8. CASE Stream \/ Tick \/ SigExternal \/ SigWait \/ CleanupStop \/ Terminated \/ UNCHANGED vars
  BY <1>8 DEF Stream, Tick, SigExternal, SigWait, CleanupStop, StopRec, Terminated
<1>9. CASE \/ MainStart \/ MainRead \/ MainReadNothing \/ Enqueue \/ MainCheck \/ MainStop
           \/ MainDrain \/ MainDrainNothing \/ MainRmid \/ MainKill \/ MainJoin \/ MainClose
  BY <1>9 DEF MainStart, StartRec, MainRead, ReadBuffer, MainReadNothing, Enqueue, MainCheck,
              MainStop, StopRec, MainDrain, MainDrainNothing, MainRmid, MainKill, MainJoin,
              MainClose, CloseTuner
<1>10. CASE Dequeue \/ Process \/ LoopCheck \/ Flush
  BY <1>10 DEF Dequeue, GotItem, Process, LoopCheck, Flush
<1>11. CASE IpcStep /\ ~IpcTime
  BY <1>11 DEF IpcStep, IpcReceive, IpcRemoved, IpcStop, StopRec, IpcRemainder, IpcReopen,
               CloseTuner, IpcTune, IpcSetChannel, IpcRestart, StartRec
<1> QED
  BY <1>1, <1>2, <1>3, <1>4, <1>5, <1>6, <1>7, <1>8, <1>9, <1>10, <1>11
     DEF Next, MainStep, ReaderStep, SigStep

(* Nor is the notice. *)
LEMMA NoticedStays ==
  ASSUME Noticed, [Next]_vars
  PROVE  Noticed'
<1> USE DEF Noticed, vars, svars
<1>1. CASE f_exit
  BY <1>1, ExitStays
<1>2. CASE SigExternal \/ MainKill \/ Process \/ Flush
  BY <1>2, ExitStays DEF SigExternal, MainKill, Process, Flush
<1>3. CASE SigStep
  BY <1>3 DEF SigStep, SigWait, CleanupStop, CleanupExit, SetExit
<1>4. CASE UNCHANGED svars
  BY <1>1, <1>4
<1>5. CASE Stream \/ Tick \/ Terminated \/ UNCHANGED vars
  BY <1>4, <1>5 DEF Stream, Tick, Terminated
<1>6. CASE MainStep /\ ~MainKill
  BY <1>4, <1>6
     DEF MainStep, MainStart, MainTop, MainRead, ReadBuffer, MainReadNothing, Enqueue, EnqWake,
         MainCheck, MainStop, MainDrain, MainDrainNothing, MainDrainMalloc, MainEnd, MainRmid,
         MainJoin, MainClose
<1>7. CASE ReaderStep /\ ~Process /\ ~Flush
  BY <1>4, <1>7 DEF ReaderStep, Dequeue, DeqWake, LoopCheck
<1>8. CASE IpcStep
  BY <1>4, <1>8 DEF IpcStep, IpcReceive, IpcRemoved, IpcStop, IpcRemainder, IpcReopen, IpcTune,
                    IpcSetChannel, IpcRestart, IpcTime
<1> QED
  BY <1>2, <1>3, <1>5, <1>6, <1>7, <1>8 DEF Next

(* A NULL in the queue was put there by main, with f_exit set. *)
LEMMA StepNulls ==
  ASSUME Inv, ReaderInv, [Next]_vars
  PROVE  (\A i \in 1 .. num_used : Contents[i] = NULL => f_exit)'
<1> SUFFICES ASSUME NEW i \in 1 .. num_used', Contents'[i] = NULL
             PROVE  f_exit'
  OBVIOUS
<1>0. QInv /\ mbuf \in Item /\ num_used \in Nat
  BY DEF Inv, TypeOK, QInv, QTypeOK
<1>1. Contents \in Seq(Item) /\ Len(Contents) = num_used
  BY <1>0, ContentsSeq
<1>2. CASE main \in {"enqueue", "enqwait"} /\ Put(mbuf)
  <2>1. Contents' = Append(Contents, mbuf) /\ num_used' = num_used + 1
    BY <1>0, <1>2, PutAppends DEF Queue!Add, Put
  <2>2. CASE i = num_used + 1
    <3>1. Contents'[i] = mbuf
      BY <1>0, <1>1, <2>1, <2>2
    <3> QED
      BY <1>2, <3>1, ExitStays DEF ReaderInv
  <2>3. CASE i \in 1 .. num_used
    <3>1. Contents'[i] = Contents[i]
      BY <1>0, <1>1, <2>1, <2>3
    <3> QED
      BY <2>3, <3>1, ExitStays DEF ReaderInv
  <2>4. i = num_used + 1 \/ i \in 1 .. num_used
    BY <1>0, <2>1
  <2> QED
    BY <2>2, <2>3, <2>4
<1>3. CASE Take
  <2>1. Contents' = Tail(Contents) /\ Contents # <<>> /\ num_used' = num_used - 1
    BY <1>0, <1>3, TakeRemoves DEF Queue!Remove, Take
  <2>2. i \in 1 .. Len(Tail(Contents)) /\ i + 1 \in 1 .. num_used
    BY <1>0, <1>1, <2>1
  <2>3. Contents'[i] = Contents[i + 1]
    BY <1>1, <2>1, <2>2, HeadTailProperties
  <2> QED
    BY <2>2, <2>3, ExitStays DEF ReaderInv
<1>4. CASE UNCHANGED qvars
  BY <1>4, IdleContents, ExitStays DEF ReaderInv, qvars
<1> QED
  BY <1>2, <1>3, <1>4, QueueSteps

(* sig ends by setting f_exit. *)
LEMMA StepSig ==
  ASSUME sig = "done" => f_exit, [Next]_vars
  PROVE  (sig = "done" => f_exit)'
<1>1. CASE f_exit
  BY <1>1, ExitStays
<1>2. CASE SigWait \/ CleanupStop \/ CleanupExit
  BY <1>2 DEF SigWait, CleanupStop, CleanupExit, SetExit
<1>3. ASSUME ~SigWait, ~CleanupStop, ~CleanupExit
      PROVE  UNCHANGED sig
  <2> USE DEF vars, svars
  <2>1. CASE Stream \/ Tick \/ SigExternal \/ Terminated \/ UNCHANGED vars
    BY <2>1 DEF Stream, Tick, SigExternal, Terminated
  <2>2. CASE MainStep
    BY <2>2
       DEF MainStep, MainStart, MainTop, MainRead, ReadBuffer, MainReadNothing, Enqueue, EnqWake,
           MainCheck, MainStop, MainDrain, MainDrainNothing, MainDrainMalloc, MainEnd, MainRmid,
           MainKill, MainJoin, MainClose
  <2>3. CASE ReaderStep
    BY <2>3 DEF ReaderStep, Dequeue, DeqWake, Process, LoopCheck, Flush
  <2>4. CASE IpcStep
    BY <2>4 DEF IpcStep, IpcReceive, IpcRemoved, IpcStop, IpcRemainder, IpcReopen, IpcTune,
                IpcSetChannel, IpcRestart, IpcTime
  <2> QED
    BY <1>3, <2>1, <2>2, <2>3, <2>4 DEF Next, SigStep
<1> QED
  BY <1>1, <1>2, <1>3

(* reader_func goes to its end only when somebody has been told. *)
LEMMA StepReader ==
  ASSUME Inv, ReaderInv, [Next]_vars
  PROVE  /\ (reader \in {"flush", "done"} => Noticed)'
         /\ (failed # <<>> => Noticed)'
<1>1. CASE Noticed
  BY <1>1, NoticedStays
<1>2. ASSUME ~Noticed
      PROVE  ~f_exit /\ failed = <<>> /\ sig = "sigwait" /\ reader \notin {"flush", "done"}
  BY <1>2 DEF Noticed, ReaderInv, Inv, TypeOK, SigAt
<1>3. ASSUME Take
      PROVE  Oldest = NULL => f_exit
  <2>1. Oldest = Contents[1] /\ 1 \in 1 .. num_used
    BY <1>3, TakeRemoves DEF Inv, TypeOK, QInv, QTypeOK, Take
  <2> QED
    BY <2>1 DEF ReaderInv
<1>4. CASE Dequeue
  BY <1>1, <1>2, <1>3, <1>4 DEF Dequeue, GotItem
<1>5. CASE DeqWake
  <2>1. CASE f_exit'
    BY <2>1 DEF Noticed
  <2>2. CASE ~f_exit'
    BY <1>1, <1>2, <1>3, <1>5, <2>2 DEF DeqWake, GotItem
  <2> QED
    BY <2>1, <2>2
<1>6. CASE Process
  <2>1. reader' = "check" /\ (failed' = failed \/ (pending' # {} /\ sig' = sig))
    BY <1>6 DEF Process
  <2> QED
    BY <1>1, <1>2, <2>1 DEF Noticed
<1>7. CASE LoopCheck
  BY <1>1, <1>2, <1>7 DEF LoopCheck, hvars
<1>8. CASE Flush
  BY <1>1, <1>2, <1>8 DEF Flush, Reader
<1>9. ASSUME ~ReaderStep
      PROVE  UNCHANGED <<reader, failed>>
  <2> USE DEF vars, rvars, hvars
  <2>1. CASE Stream \/ Tick \/ SigExternal \/ SigStep \/ Terminated \/ UNCHANGED vars
    BY <2>1 DEF Stream, Tick, SigExternal, SigStep, SigWait, CleanupStop, CleanupExit, Terminated
  <2>2. CASE MainStep
    BY <2>2
       DEF MainStep, MainStart, MainTop, MainRead, ReadBuffer, MainReadNothing, Enqueue, EnqWake,
           MainCheck, MainStop, MainDrain, MainDrainNothing, MainDrainMalloc, MainEnd, MainRmid,
           MainKill, MainJoin, MainClose
  <2>3. CASE IpcStep
    BY <2>3 DEF IpcStep, IpcReceive, IpcRemoved, IpcStop, IpcRemainder, IpcReopen, IpcTune,
                IpcSetChannel, IpcRestart, IpcTime
  <2> QED
    BY <1>9, <2>1, <2>2, <2>3 DEF Next
<1> QED
  BY <1>1, <1>2, <1>4, <1>5, <1>6, <1>7, <1>8, <1>9 DEF ReaderStep

(* main passes NULL to enqueue at its end only, when f_exit is set. *)
LEMMA StepMain ==
  ASSUME Inv, ReaderInv, [Next]_vars
  PROVE  (main \in {"enqueue", "enqwait"} /\ mbuf = NULL => f_exit)'
<1> USE DEF vars, mvars
<1>1. CASE f_exit
  BY <1>1, ExitStays
<1>2. CASE MainRead \/ MainDrain
  <2>1. nread + 1 # NULL
    BY ReadAssumption DEF Inv, TypeOK
  <2> QED
    BY <1>2, <2>1 DEF MainRead, MainDrain, ReadBuffer
<1>3. CASE MainEnd
  BY <1>3 DEF MainEnd, SetExit
<1>4. CASE Enqueue \/ EnqWake
  BY <1>1, <1>4 DEF Enqueue, EnqWake, Inv, TypeOK, ReaderInv
<1>5. CASE \/ MainStart \/ MainTop \/ MainReadNothing \/ MainCheck \/ MainStop
           \/ MainDrainNothing \/ MainDrainMalloc \/ MainRmid \/ MainKill \/ MainJoin
           \/ MainClose
  BY <1>5 DEF MainStart, MainTop, MainReadNothing, MainCheck, MainStop, MainDrainNothing,
              MainDrainMalloc, MainRmid, MainKill, MainJoin, MainClose
<1>6. ASSUME ~MainStep
      PROVE  UNCHANGED <<main, mbuf>>
  <2>1. CASE Stream \/ Tick \/ SigExternal \/ SigStep \/ Terminated \/ UNCHANGED vars
    BY <2>1 DEF Stream, Tick, SigExternal, SigStep, SigWait, CleanupStop, CleanupExit, Terminated
  <2>2. CASE ReaderStep
    BY <2>2 DEF ReaderStep, Dequeue, DeqWake, Process, LoopCheck, Flush
  <2>3. CASE IpcStep
    BY <2>3 DEF IpcStep, IpcReceive, IpcRemoved, IpcStop, IpcRemainder, IpcReopen, IpcTune,
                IpcSetChannel, IpcRestart, IpcTime
  <2> QED
    BY <1>6, <2>1, <2>2, <2>3 DEF Next
<1>7. main \in {"enqueue", "enqwait"} /\ mbuf = NULL => f_exit
  BY DEF ReaderInv
<1> QED
  BY <1>1, <1>2, <1>3, <1>4, <1>5, <1>6, <1>7 DEF MainStep

(* So all of it goes on. *)
LEMMA ReaderInvNext == Inv /\ ReaderInv /\ [Next]_vars => ReaderInv'
<1> SUFFICES ASSUME Inv, ReaderInv, [Next]_vars
             PROVE  ReaderInv'
  OBVIOUS
<1>1. (sig = "done" => f_exit)'
  BY StepSig DEF ReaderInv
<1> QED
  BY <1>1, StepReader, StepMain, StepNulls DEF ReaderInv


-----------------------------------------------------------------------------
(* The way of the buffers, as a sequence.                                  *)

(* Enqueue appends to the items what main held. *)
LEMMA PutOnTheWay ==
  ASSUME NEW S, NEW a \in Seq(S), NEW c \in Seq(S), NEW x \in S
  PROVE  (a \o Append(c, x)) \o <<>> = (a \o c) \o <<x>>
<1>1. Append(c, x) = c \o <<x>> /\ <<x>> \in Seq(S)
  BY AppendIsConcat
<1>2. a \o (c \o <<x>>) = (a \o c) \o <<x>>
  BY <1>1, ConcatAssociative
<1>3. (a \o c) \o <<x>> \in Seq(S)
  BY <1>1, ConcatProperties
<1> QED
  BY <1>1, <1>2, <1>3, ConcatEmptySeq

(* Dequeue hands the oldest item to reader. *)
LEMMA TakeOffTheWay ==
  ASSUME NEW S, NEW a \in Seq(S), NEW c \in Seq(S), c # <<>>
  PROVE  (a \o <<c[1]>>) \o Tail(c) = (a \o <<>>) \o c
<1>1. Tail(c) \in Seq(S) /\ c[1] \in S
  BY HeadTailProperties
<1>2. <<c[1]>> \in Seq(S)
  BY <1>1
<1>3. <<c[1]>> \o Tail(c) = c
  <2>1. /\ Len(<<c[1]>>) = 1 /\ <<c[1]>>[1] = c[1]
        /\ Len(c) \in Nat \ {0}
        /\ Len(Tail(c)) = Len(c) - 1
        /\ \A i \in 1 .. Len(Tail(c)) : Tail(c)[i] = c[i + 1]
    BY HeadTailProperties, EmptySeq, <1>2
  <2>2. /\ <<c[1]>> \o Tail(c) \in Seq(S)
        /\ Len(<<c[1]>> \o Tail(c)) = Len(c)
        /\ \A i \in 1 .. Len(c) :
             (<<c[1]>> \o Tail(c))[i] = IF i <= 1 THEN <<c[1]>>[i] ELSE Tail(c)[i - 1]
    BY <1>1, <1>2, <2>1, ConcatProperties
  <2>3. ASSUME NEW i \in 1 .. Len(c)
        PROVE  (<<c[1]>> \o Tail(c))[i] = c[i]
    <3>1. CASE i = 1
      BY <2>1, <2>2, <3>1
    <3>2. CASE i # 1
      <4>1. i - 1 \in 1 .. Len(Tail(c)) /\ (i - 1) + 1 = i /\ ~(i <= 1)
        BY <2>1, <3>2
      <4> QED
        BY <2>1, <2>2, <4>1
    <3> QED
      BY <3>1, <3>2
  <2> QED
    BY <2>2, <2>3, SeqEqual
<1>4. (a \o <<c[1]>>) \o Tail(c) = a \o (<<c[1]>> \o Tail(c))
  BY <1>1, <1>2, ConcatAssociative
<1> QED
  BY <1>3, <1>4, ConcatEmptySeq

(* reader writes what it holds, or fails to. *)
LEMMA WriteOnTheWay ==
  ASSUME NEW S, NEW a \in Seq(S), NEW x \in S
  PROVE  /\ (Append(a, x) \o <<>>) \o <<>> = (a \o <<>>) \o <<x>>
         /\ (a \o Append(<<>>, x)) \o <<>> = (a \o <<>>) \o <<x>>
<1>1. Append(a, x) = a \o <<x>> /\ <<x>> \in Seq(S) /\ Append(<<>>, x) = <<x>>
  BY AppendIsConcat
<1>2. a \o <<x>> \in Seq(S)
  BY <1>1, ConcatProperties
<1> QED
  BY <1>1, <1>2, ConcatEmptySeq

(* The parts of the way are sequences of items. *)
LEMMA WayParts ==
  ASSUME Inv
  PROVE  /\ written \in Seq(Item) /\ failed \in Seq(Item) /\ Contents \in Seq(Item)
         /\ Hand(rbuf) \in Seq(Item) /\ Hand(mbuf) \in Seq(Item)
         /\ written \o failed \in Seq(Item)
         /\ (written \o failed) \o Hand(rbuf) \in Seq(Item)
         /\ ((written \o failed) \o Hand(rbuf)) \o Contents \in Seq(Item)
         /\ Way \in Seq(Item)
<1>1. written \in Seq(BufNo) /\ failed \in Seq(BufNo) /\ rbuf \in Item /\ mbuf \in Item
  BY DEF Inv, TypeOK
<1>2. written \in Seq(Item) /\ failed \in Seq(Item)
  BY <1>1, SeqMonotonic DEF Item
<1>3. Contents \in Seq(Item)
  BY ContentsSeq DEF Inv, TypeOK, QInv
<1>4. \A p \in Item : Hand(p) \in Seq(Item)
  BY DEF Hand
<1>5. Hand(rbuf) \in Seq(Item) /\ Hand(mbuf) \in Seq(Item)
  BY <1>1, <1>4
<1>6. \A s, t \in Seq(Item) : s \o t \in Seq(Item)
  BY ConcatProperties
<1> QED
  BY <1>2, <1>3, <1>5, <1>6 DEF Way

-----------------------------------------------------------------------------
(* What the steps do to a way that holds its buffers.                      *)

(* Holds, place by place. *)
Ordered(w, n, d) ==
  /\ \A i \in 1 .. Len(w) : w[i] # NULL => w[i] \in 1 .. n /\ w[i] \notin d
  /\ \A k \in 1 .. n : k \notin d => \E i \in 1 .. Len(w) : w[i] = k
  /\ \A i, j \in 1 .. Len(w) : i < j => w[i] # NULL /\ (w[j] # NULL => w[i] < w[j])

LEMMA HoldsIsOrdered ==
  ASSUME NEW w \in Seq(Item), NEW n \in Nat, NEW d
  PROVE  Holds(w, n, d) <=> Ordered(w, n, d)
<1>1. DOMAIN w = 1 .. Len(w)
  BY LenProperties
<1>2. NULL \notin 1 .. n
  BY ReadAssumption
<1>3. (\A i \in 1 .. Len(w) : w[i] # NULL => w[i] \in 1 .. n /\ w[i] \notin d)
      /\ (\A k \in 1 .. n : k \notin d => \E i \in 1 .. Len(w) : w[i] = k)
      <=> {w[i] : i \in DOMAIN w} \ {NULL} = (1 .. n) \ d
  <2> DEFINE D == 1 .. Len(w)
             N == 1 .. n
  <2>1. DOMAIN w = D /\ NULL \notin N
    BY <1>1, <1>2
  <2> HIDE DEF D, N
  <2>2. (\A i \in D : w[i] # NULL => w[i] \in N /\ w[i] \notin d)
        /\ (\A k \in N : k \notin d => \E i \in D : w[i] = k)
        <=> {w[i] : i \in DOMAIN w} \ {NULL} = N \ d
    BY <2>1
  <2> QED
    BY <2>2 DEF D, N
<1> QED
  BY <1>1, <1>3, Zenon DEF Holds, Ordered

NoNull(w) == \A i \in 1 .. Len(w) : w[i] # NULL

(* A place of the way appended to. *)
LEMMA AppendPlaces ==
  ASSUME NEW w \in Seq(Item), NEW x \in Item
  PROVE  /\ Append(w, x) \in Seq(Item) /\ Len(w) \in Nat /\ Len(Append(w, x)) = Len(w) + 1
         /\ Append(w, x)[Len(w) + 1] = x
         /\ \A i \in 1 .. Len(w) : Append(w, x)[i] = w[i] /\ i \in 1 .. Len(w) + 1 /\ i < Len(w) + 1
         /\ \A i \in 1 .. Len(w) + 1 : i \in 1 .. Len(w) \/ i = Len(w) + 1
         /\ Len(w) + 1 \in 1 .. Len(w) + 1
         /\ \A i, j \in 1 .. Len(w) + 1 : i < j => i \in 1 .. Len(w)
  OBVIOUS

(* main has read a buffer. *)
LEMMA ReadKeeps ==
  ASSUME NEW w \in Seq(Item), NEW n \in Nat, n + 1 \in BufNo, NEW d \in SUBSET (1 .. n),
         Ordered(w, n, d), NoNull(w)
  PROVE  Ordered(Append(w, n + 1), n + 1, d)
<1> DEFINE v == Append(w, n + 1)
           l == Len(w)
<1>1. n + 1 \in Item /\ n + 1 # NULL
  BY ReadAssumption DEF Item, BufNo
<1>2. /\ l \in Nat /\ Len(v) = l + 1 /\ v[l + 1] = n + 1
      /\ \A i \in 1 .. l : v[i] = w[i] /\ i \in 1 .. l + 1 /\ i < l + 1
      /\ \A i \in 1 .. l + 1 : i \in 1 .. l \/ i = l + 1
      /\ l + 1 \in 1 .. l + 1
      /\ \A i, j \in 1 .. l + 1 : i < j => i \in 1 .. l
  BY <1>1, AppendPlaces
<1>3. /\ \A i \in 1 .. l : w[i] # NULL /\ w[i] \in 1 .. n /\ w[i] \notin d
      /\ \A k \in 1 .. n : k \notin d => \E i \in 1 .. l : w[i] = k
      /\ \A i, j \in 1 .. l : i < j => w[i] < w[j]
  BY DEF Ordered, NoNull
<1> HIDE DEF v, l
<1>4. \A i \in 1 .. l + 1 : v[i] # NULL => v[i] \in 1 .. n + 1 /\ v[i] \notin d
  <2> SUFFICES ASSUME NEW i \in 1 .. l + 1
               PROVE  v[i] \in 1 .. n + 1 /\ v[i] \notin d
    OBVIOUS
  <2>1. CASE i \in 1 .. l
    <3>1. v[i] \in 1 .. n /\ v[i] \notin d
      BY <1>2, <1>3, <2>1
    <3> QED
      BY <3>1
  <2>2. CASE i = l + 1
    <3>1. v[i] = n + 1 /\ n + 1 \in 1 .. n + 1 /\ n + 1 \notin d
      BY <1>2, <2>2
    <3> QED
      BY <3>1
  <2> QED
    BY <1>2, <2>1, <2>2
<1>5. \A k \in 1 .. n + 1 : k \notin d => \E i \in 1 .. l + 1 : v[i] = k
  <2> SUFFICES ASSUME NEW k \in 1 .. n + 1, k \notin d
               PROVE  \E i \in 1 .. l + 1 : v[i] = k
    OBVIOUS
  <2>1. CASE k = n + 1
    BY <1>2, <2>1
  <2>2. CASE k \in 1 .. n
    <3>1. PICK i \in 1 .. l : w[i] = k
      BY <1>3, <2>2
    <3> QED
      BY <1>2, <3>1
  <2> QED
    BY <2>1, <2>2
<1>6. \A i, j \in 1 .. l + 1 : i < j => v[i] # NULL /\ (v[j] # NULL => v[i] < v[j])
  <2> SUFFICES ASSUME NEW i \in 1 .. l + 1, NEW j \in 1 .. l + 1, i < j
               PROVE  v[i] # NULL /\ v[i] < v[j]
    OBVIOUS
  <2>1. i \in 1 .. l /\ v[i] = w[i] /\ w[i] # NULL /\ w[i] \in 1 .. n
    BY <1>2, <1>3
  <2>2. CASE j \in 1 .. l
    BY <1>2, <1>3, <2>1, <2>2
  <2>3. CASE j = l + 1
    BY <1>2, <2>1, <2>3
  <2> QED
    BY <1>2, <2>2, <2>3
<1> QED
  BY <1>2, <1>4, <1>5, <1>6 DEF Ordered, v

(* The NULL at the end. *)
LEMMA NullKeeps ==
  ASSUME NEW w \in Seq(Item), NEW n \in Nat, NEW d, Ordered(w, n, d), NoNull(w)
  PROVE  Ordered(Append(w, NULL), n, d)
<1> DEFINE v == Append(w, NULL)
           l == Len(w)
<1>1. NULL \in Item
  BY DEF Item
<1>2. /\ l \in Nat /\ Len(v) = l + 1 /\ v[l + 1] = NULL
      /\ \A i \in 1 .. l : v[i] = w[i] /\ i \in 1 .. l + 1 /\ i < l + 1
      /\ \A i \in 1 .. l + 1 : i \in 1 .. l \/ i = l + 1
      /\ l + 1 \in 1 .. l + 1
      /\ \A i, j \in 1 .. l + 1 : i < j => i \in 1 .. l
  BY <1>1, AppendPlaces
<1>3. /\ \A i \in 1 .. l : w[i] # NULL /\ w[i] \in 1 .. n /\ w[i] \notin d
      /\ \A k \in 1 .. n : k \notin d => \E i \in 1 .. l : w[i] = k
      /\ \A i, j \in 1 .. l : i < j => w[i] < w[j]
  BY DEF Ordered, NoNull
<1> HIDE DEF v, l
<1>4. \A i \in 1 .. l + 1 : v[i] # NULL => v[i] \in 1 .. n /\ v[i] \notin d
  BY <1>2, <1>3
<1>5. \A k \in 1 .. n : k \notin d => \E i \in 1 .. l + 1 : v[i] = k
  BY <1>2, <1>3
<1>6. \A i, j \in 1 .. l + 1 : i < j => v[i] # NULL /\ (v[j] # NULL => v[i] < v[j])
  BY <1>2, <1>3
<1> QED
  BY <1>2, <1>4, <1>5, <1>6 DEF Ordered, v

(* The last buffer is given up. *)
LEMMA DropKeeps ==
  ASSUME NEW w \in Seq(Item), NEW n \in Nat, n \in BufNo, NEW d,
         Ordered(Append(w, n), n, d)
  PROVE  Ordered(w, n, d \cup {n})
<1> DEFINE v == Append(w, n)
           l == Len(w)
<1>1. n \in Item /\ n # NULL
  BY ReadAssumption DEF Item, BufNo
<1>2. /\ l \in Nat /\ Len(v) = l + 1 /\ v[l + 1] = n
      /\ \A i \in 1 .. l : v[i] = w[i] /\ i \in 1 .. l + 1 /\ i < l + 1
      /\ \A i \in 1 .. l + 1 : i \in 1 .. l \/ i = l + 1
      /\ l + 1 \in 1 .. l + 1
      /\ \A i, j \in 1 .. l + 1 : i < j => i \in 1 .. l
  BY <1>1, AppendPlaces
<1>3. /\ \A i \in 1 .. l + 1 : v[i] # NULL => v[i] \in 1 .. n /\ v[i] \notin d
      /\ \A k \in 1 .. n : k \notin d => \E i \in 1 .. l + 1 : v[i] = k
      /\ \A i, j \in 1 .. l + 1 : i < j => v[i] # NULL /\ (v[j] # NULL => v[i] < v[j])
  BY <1>2 DEF Ordered
<1> HIDE DEF v, l
<1>4. \A i \in 1 .. l : w[i] # NULL => w[i] \in 1 .. n /\ w[i] \notin d \cup {n}
  <2> SUFFICES ASSUME NEW i \in 1 .. l, w[i] # NULL
               PROVE  w[i] \in 1 .. n /\ w[i] \notin d /\ w[i] # n
    OBVIOUS
  <2>1. v[i] < v[l + 1] /\ v[i] \in 1 .. n /\ v[i] \notin d
    BY <1>1, <1>2, <1>3
  <2> QED
    BY <1>2, <2>1
<1>5. \A k \in 1 .. n : k \notin d \cup {n} => \E i \in 1 .. l : w[i] = k
  <2> SUFFICES ASSUME NEW k \in 1 .. n, k \notin d, k # n
               PROVE  \E i \in 1 .. l : w[i] = k
    OBVIOUS
  <2>1. PICK i \in 1 .. l + 1 : v[i] = k
    BY <1>3
  <2> QED
    BY <1>2, <2>1
<1>6. \A i, j \in 1 .. l : i < j => w[i] # NULL /\ (w[j] # NULL => w[i] < w[j])
  BY <1>2, <1>3
<1> QED
  BY <1>4, <1>5, <1>6 DEF Ordered, l

(* The NULL is taken. *)
LEMMA NullTaken ==
  ASSUME NEW w \in Seq(Item), NEW n \in Nat, NEW d, Ordered(Append(w, NULL), n, d)
  PROVE  Ordered(w, n, d) /\ NoNull(w)
<1> DEFINE v == Append(w, NULL)
           l == Len(w)
<1>1. NULL \in Item /\ \A k \in 1 .. n : k # NULL
  BY ReadAssumption DEF Item
<1>2. /\ l \in Nat /\ Len(v) = l + 1 /\ v[l + 1] = NULL
      /\ \A i \in 1 .. l : v[i] = w[i] /\ i \in 1 .. l + 1 /\ i < l + 1
      /\ \A i \in 1 .. l + 1 : i \in 1 .. l \/ i = l + 1
      /\ l + 1 \in 1 .. l + 1
      /\ \A i, j \in 1 .. l + 1 : i < j => i \in 1 .. l
  BY <1>1, AppendPlaces
<1>3. /\ \A i \in 1 .. l + 1 : v[i] # NULL => v[i] \in 1 .. n /\ v[i] \notin d
      /\ \A k \in 1 .. n : k \notin d => \E i \in 1 .. l + 1 : v[i] = k
      /\ \A i, j \in 1 .. l + 1 : i < j => v[i] # NULL /\ (v[j] # NULL => v[i] < v[j])
  BY <1>2 DEF Ordered
<1> HIDE DEF v, l
<1>4. \A i \in 1 .. l : w[i] # NULL
  BY <1>2, <1>3
<1>5. \A i \in 1 .. l : w[i] # NULL => w[i] \in 1 .. n /\ w[i] \notin d
  BY <1>2, <1>3
<1>6. \A k \in 1 .. n : k \notin d => \E i \in 1 .. l : w[i] = k
  <2> SUFFICES ASSUME NEW k \in 1 .. n, k \notin d
               PROVE  \E i \in 1 .. l : w[i] = k
    OBVIOUS
  <2>1. PICK i \in 1 .. l + 1 : v[i] = k
    BY <1>3
  <2> QED
    BY <1>1, <1>2, <2>1
<1>7. \A i, j \in 1 .. l : i < j => w[i] # NULL /\ (w[j] # NULL => w[i] < w[j])
  BY <1>2, <1>3
<1> QED
  BY <1>4, <1>5, <1>6, <1>7 DEF Ordered, NoNull, l

-----------------------------------------------------------------------------
(* Where the threads are.                                                  *)

AtEnqueue == main \in {"enqueue", "enqwait"}

(* main reads no more, and has left what it had to leave in the queue.     *)
Left == {"rmid", "kill", "joinR", "joinS", "joinI", "close", "done", "aborted"}

(* main holds a buffer while it is in enqueue, the last one it read; with  *)
(* nothing in its hands it passes the NULL.  reader_func is gone when main *)
(* has joined it.                                                          *)
MainInv ==
  /\ mbuf # NULL => AtEnqueue /\ mbuf = nread /\ mret # "rmid"
  /\ AtEnqueue /\ mbuf = NULL => mret = "rmid"
  /\ AtEnqueue /\ mret = "drain" => stopping
  /\ main = "drain" => stopping
  /\ main \in {"joinS", "joinI", "close", "done"} => reader = "done"

(* Nothing is given up before f_exit is set, nor when the time being over  *)
(* has set it; and after one buffer is given up main reads no other,       *)
(* unless it reads the remaining data.                                     *)
ExitInv ==
  /\ dropped \subseteq 1 .. nread
  /\ ~f_exit => dropped = {} /\ cause = "none"
  /\ cause = "time" => dropped = {} /\ (main \in Left \/ (AtEnqueue /\ mret = "rmid"))
  /\ dropped # {} /\ ~stopping
       => dropped = {nread} /\ main \in {"check", "top", "stop"} \cup Left

(* reader holds a buffer while it processes it; after a failed write it    *)
(* takes no other.                                                         *)
HandInv ==
  /\ rbuf # NULL <=> reader = "process"
  /\ reader \in {"dequeue", "deqwait", "process"} => failed = <<>>

(* A step of main and of its hands. *)
LEMMA MainInvNext ==
  ASSUME Inv, MainInv, [Next]_vars
  PROVE  MainInv'
<1> USE DEF MainInv, AtEnqueue, vars, mvars, rvars, svars, ivars, tvars, hvars, xvars, Reader, Sig, Ipc
<1>0. /\ main \in MainAt /\ nread \in Nat /\ nread + 1 # NULL
      /\ mret \in {"check", "drain", "rmid"}
  BY ReadAssumption DEF Inv, TypeOK
<1>1. CASE Stream
  BY <1>0, <1>1 DEF Stream
<1>2. CASE Tick
  BY <1>0, <1>2 DEF Tick
<1>3. CASE MainStart
  BY <1>0, <1>3 DEF MainStart, StartRec
<1>4. CASE MainTop
  BY <1>0, <1>4 DEF MainTop, SetExit
<1>5. CASE MainRead
  BY <1>0, <1>5 DEF MainRead, ReadBuffer
<1>6. CASE MainReadNothing
  BY <1>0, <1>6 DEF MainReadNothing
<1>7. CASE Enqueue
  BY <1>0, <1>7 DEF Enqueue
<1>8. CASE EnqWake
  BY <1>0, <1>8 DEF EnqWake, SetExit
<1>9. CASE MainCheck
  BY <1>0, <1>9 DEF MainCheck
<1>10. CASE MainStop
  BY <1>0, <1>10 DEF MainStop, StopRec
<1>11. CASE MainDrain
  BY <1>0, <1>11 DEF MainDrain, ReadBuffer
<1>12. CASE MainDrainNothing
  BY <1>0, <1>12 DEF MainDrainNothing
<1>13. CASE MainDrainMalloc
  BY <1>0, <1>13 DEF MainDrainMalloc, SetExit
<1>14. CASE MainEnd
  BY <1>0, <1>14 DEF MainEnd, SetExit
<1>15. CASE MainRmid
  BY <1>0, <1>15 DEF MainRmid
<1>16. CASE MainKill
  BY <1>0, <1>16 DEF MainKill
<1>17. CASE MainJoin
  BY <1>0, <1>17 DEF MainJoin
<1>18. CASE MainClose
  BY <1>0, <1>18 DEF MainClose, CloseTuner
<1>19. CASE Dequeue
  BY <1>0, <1>19 DEF Dequeue, GotItem
<1>20. CASE DeqWake
  BY <1>0, <1>20 DEF DeqWake, SetExit, GotItem
<1>21. CASE Process
  BY <1>0, <1>21 DEF Process
<1>22. CASE LoopCheck
  BY <1>0, <1>22 DEF LoopCheck
<1>23. CASE Flush
  BY <1>0, <1>23 DEF Flush
<1>24. CASE SigExternal
  BY <1>0, <1>24 DEF SigExternal
<1>25. CASE SigWait
  BY <1>0, <1>25 DEF SigWait
<1>26. CASE CleanupStop
  BY <1>0, <1>26 DEF CleanupStop, StopRec
<1>27. CASE CleanupExit
  BY <1>0, <1>27 DEF CleanupExit, SetExit
<1>28. CASE IpcReceive
  BY <1>0, <1>28 DEF IpcReceive
<1>29. CASE IpcRemoved
  BY <1>0, <1>29 DEF IpcRemoved
<1>30. CASE IpcStop
  BY <1>0, <1>30 DEF IpcStop, StopRec
<1>31. CASE IpcRemainder
  BY <1>0, <1>31 DEF IpcRemainder
<1>32. CASE IpcReopen
  BY <1>0, <1>32 DEF IpcReopen, CloseTuner
<1>33. CASE IpcTune
  BY <1>0, <1>33 DEF IpcTune
<1>34. CASE IpcSetChannel
  BY <1>0, <1>34 DEF IpcSetChannel
<1>35. CASE IpcRestart
  BY <1>0, <1>35 DEF IpcRestart, StartRec
<1>36. CASE IpcTime
  BY <1>0, <1>36 DEF IpcTime, SetExit, TotalIsOver, TotalIsSet, Extended
<1>37. CASE Terminated \/ UNCHANGED vars
  BY <1>0, <1>37 DEF Terminated
<1> QED
  BY <1>1, <1>2, <1>3, <1>4, <1>5, <1>6, <1>7, <1>8, <1>9, <1>10, <1>11, <1>12, <1>13, <1>14, <1>15, <1>16, <1>17, <1>18, <1>19, <1>20, <1>21, <1>22, <1>23, <1>24, <1>25, <1>26, <1>27, <1>28, <1>29, <1>30, <1>31, <1>32, <1>33, <1>34, <1>35, <1>36, <1>37
     DEF Next, MainStep, ReaderStep, SigStep, IpcStep

(* A step of reader and of its hands. *)
LEMMA HandInvNext ==
  ASSUME Inv, HandInv, [Next]_vars
  PROVE  HandInv'
<1> USE DEF HandInv, vars, mvars, rvars, svars, ivars, tvars, hvars, xvars, Reader, Sig, Ipc
<1>1. CASE Stream
  BY <1>1 DEF Stream
<1>2. CASE Tick
  BY <1>2 DEF Tick
<1>3. CASE MainStart
  BY <1>3 DEF MainStart, StartRec
<1>4. CASE MainTop
  BY <1>4 DEF MainTop, SetExit
<1>5. CASE MainRead
  BY <1>5 DEF MainRead, ReadBuffer
<1>6. CASE MainReadNothing
  BY <1>6 DEF MainReadNothing
<1>7. CASE Enqueue
  BY <1>7 DEF Enqueue
<1>8. CASE EnqWake
  BY <1>8 DEF EnqWake, SetExit
<1>9. CASE MainCheck
  BY <1>9 DEF MainCheck
<1>10. CASE MainStop
  BY <1>10 DEF MainStop, StopRec
<1>11. CASE MainDrain
  BY <1>11 DEF MainDrain, ReadBuffer
<1>12. CASE MainDrainNothing
  BY <1>12 DEF MainDrainNothing
<1>13. CASE MainDrainMalloc
  BY <1>13 DEF MainDrainMalloc, SetExit
<1>14. CASE MainEnd
  BY <1>14 DEF MainEnd, SetExit
<1>15. CASE MainRmid
  BY <1>15 DEF MainRmid
<1>16. CASE MainKill
  BY <1>16 DEF MainKill
<1>17. CASE MainJoin
  BY <1>17 DEF MainJoin
<1>18. CASE MainClose
  BY <1>18 DEF MainClose, CloseTuner
<1>19. CASE Dequeue
  BY <1>19 DEF Dequeue, GotItem
<1>20. CASE DeqWake
  BY <1>20 DEF DeqWake, SetExit, GotItem
<1>21. CASE Process
  BY <1>21 DEF Process
<1>22. CASE LoopCheck
  BY <1>22 DEF LoopCheck
<1>23. CASE Flush
  BY <1>23 DEF Flush
<1>24. CASE SigExternal
  BY <1>24 DEF SigExternal
<1>25. CASE SigWait
  BY <1>25 DEF SigWait
<1>26. CASE CleanupStop
  BY <1>26 DEF CleanupStop, StopRec
<1>27. CASE CleanupExit
  BY <1>27 DEF CleanupExit, SetExit
<1>28. CASE IpcReceive
  BY <1>28 DEF IpcReceive
<1>29. CASE IpcRemoved
  BY <1>29 DEF IpcRemoved
<1>30. CASE IpcStop
  BY <1>30 DEF IpcStop, StopRec
<1>31. CASE IpcRemainder
  BY <1>31 DEF IpcRemainder
<1>32. CASE IpcReopen
  BY <1>32 DEF IpcReopen, CloseTuner
<1>33. CASE IpcTune
  BY <1>33 DEF IpcTune
<1>34. CASE IpcSetChannel
  BY <1>34 DEF IpcSetChannel
<1>35. CASE IpcRestart
  BY <1>35 DEF IpcRestart, StartRec
<1>36. CASE IpcTime
  BY <1>36 DEF IpcTime, SetExit, TotalIsOver, TotalIsSet, Extended
<1>37. CASE Terminated \/ UNCHANGED vars
  BY <1>37 DEF Terminated
<1> QED
  BY <1>1, <1>2, <1>3, <1>4, <1>5, <1>6, <1>7, <1>8, <1>9, <1>10, <1>11, <1>12, <1>13, <1>14, <1>15, <1>16, <1>17, <1>18, <1>19, <1>20, <1>21, <1>22, <1>23, <1>24, <1>25, <1>26, <1>27, <1>28, <1>29, <1>30, <1>31, <1>32, <1>33, <1>34, <1>35, <1>36, <1>37
     DEF Next, MainStep, ReaderStep, SigStep, IpcStep

(* A step and what is given up. *)
LEMMA ExitInvNext ==
  ASSUME Inv, MainInv, ExitInv, [Next]_vars
  PROVE  ExitInv'
<1> USE DEF ExitInv, AtEnqueue, Left, vars, mvars, rvars, svars, ivars, tvars, hvars, xvars, Reader, Sig, Ipc
<1>0. /\ main \in MainAt /\ nread \in Nat /\ f_exit \in BOOLEAN
      /\ mbuf # NULL => AtEnqueue /\ mbuf = nread /\ mret # "rmid" /\ nread \in 1 .. nread
      /\ AtEnqueue /\ mbuf = NULL => mret = "rmid"
      /\ AtEnqueue /\ mret = "drain" => stopping
      /\ main = "drain" => stopping
      /\ mret \in {"check", "drain", "rmid"}
  BY DEF Inv, TypeOK, FlagsOK, MainInv, Item, BufNo
<1>1. CASE Stream
  BY <1>0, <1>1 DEF Stream
<1>2. CASE Tick
  BY <1>0, <1>2 DEF Tick
<1>3. CASE MainStart
  BY <1>0, <1>3 DEF MainStart, StartRec
<1>4. CASE MainTop
  BY <1>0, <1>4 DEF MainTop, SetExit
<1>5. CASE MainRead
  BY <1>0, <1>5 DEF MainRead, ReadBuffer
<1>6. CASE MainReadNothing
  BY <1>0, <1>6 DEF MainReadNothing
<1>7. CASE Enqueue
  BY <1>0, <1>7 DEF Enqueue
<1>8. CASE EnqWake
  BY <1>0, <1>8 DEF EnqWake, SetExit
<1>9. CASE MainCheck
  BY <1>0, <1>9 DEF MainCheck
<1>10. CASE MainStop
  BY <1>0, <1>10 DEF MainStop, StopRec
<1>11. CASE MainDrain
  BY <1>0, <1>11 DEF MainDrain, ReadBuffer
<1>12. CASE MainDrainNothing
  BY <1>0, <1>12 DEF MainDrainNothing
<1>13. CASE MainDrainMalloc
  BY <1>0, <1>13 DEF MainDrainMalloc, SetExit
<1>14. CASE MainEnd
  BY <1>0, <1>14 DEF MainEnd, SetExit
<1>15. CASE MainRmid
  BY <1>0, <1>15 DEF MainRmid
<1>16. CASE MainKill
  BY <1>0, <1>16 DEF MainKill
<1>17. CASE MainJoin
  BY <1>0, <1>17 DEF MainJoin
<1>18. CASE MainClose
  BY <1>0, <1>18 DEF MainClose, CloseTuner
<1>19. CASE Dequeue
  BY <1>0, <1>19 DEF Dequeue, GotItem
<1>20. CASE DeqWake
  BY <1>0, <1>20 DEF DeqWake, SetExit, GotItem
<1>21. CASE Process
  BY <1>0, <1>21 DEF Process
<1>22. CASE LoopCheck
  BY <1>0, <1>22 DEF LoopCheck
<1>23. CASE Flush
  BY <1>0, <1>23 DEF Flush
<1>24. CASE SigExternal
  BY <1>0, <1>24 DEF SigExternal
<1>25. CASE SigWait
  BY <1>0, <1>25 DEF SigWait
<1>26. CASE CleanupStop
  BY <1>0, <1>26 DEF CleanupStop, StopRec
<1>27. CASE CleanupExit
  BY <1>0, <1>27 DEF CleanupExit, SetExit
<1>28. CASE IpcReceive
  BY <1>0, <1>28 DEF IpcReceive
<1>29. CASE IpcRemoved
  BY <1>0, <1>29 DEF IpcRemoved
<1>30. CASE IpcStop
  BY <1>0, <1>30 DEF IpcStop, StopRec
<1>31. CASE IpcRemainder
  BY <1>0, <1>31 DEF IpcRemainder
<1>32. CASE IpcReopen
  BY <1>0, <1>32 DEF IpcReopen, CloseTuner
<1>33. CASE IpcTune
  BY <1>0, <1>33 DEF IpcTune
<1>34. CASE IpcSetChannel
  BY <1>0, <1>34 DEF IpcSetChannel
<1>35. CASE IpcRestart
  BY <1>0, <1>35 DEF IpcRestart, StartRec
<1>36. CASE IpcTime
  <2>1. UNCHANGED <<main, mret, dropped, nread, stopping>>
    BY <1>36 DEF IpcTime
  <2>2. UNCHANGED <<f_exit, cause>> \/ (f_exit' /\ cause' = IF f_exit THEN cause ELSE "ipc")
    BY <1>36 DEF IpcTime, SetExit, TotalIsOver, TotalIsSet, Extended
  <2> QED
    BY <1>0, <2>1, <2>2
<1>37. CASE Terminated \/ UNCHANGED vars
  BY <1>0, <1>37 DEF Terminated
<1> QED
  BY <1>1, <1>2, <1>3, <1>4, <1>5, <1>6, <1>7, <1>8, <1>9, <1>10, <1>11, <1>12, <1>13, <1>14, <1>15, <1>16, <1>17, <1>18, <1>19, <1>20, <1>21, <1>22, <1>23, <1>24, <1>25, <1>26, <1>27, <1>28, <1>29, <1>30, <1>31, <1>32, <1>33, <1>34, <1>35, <1>36, <1>37
     DEF Next, MainStep, ReaderStep, SigStep, IpcStep

-----------------------------------------------------------------------------
(* What the steps do to the way.                                           *)

(* enqueue: a buffer stays on the way, the NULL comes to its end. *)
LEMMA PutWay ==
  ASSUME Inv, Put(mbuf), mbuf' = NULL, UNCHANGED <<written, failed, rbuf>>
  PROVE  /\ mbuf # NULL => Way' = Way
         /\ mbuf = NULL => Way' = Append(Way, NULL)
<1> DEFINE a == (written \o failed) \o Hand(rbuf)
<1>1. /\ a \in Seq(Item) /\ Contents \in Seq(Item) /\ mbuf \in Item
      /\ a \o Contents \in Seq(Item)
  BY WayParts DEF Inv, TypeOK
<1>2. Contents' = Append(Contents, mbuf)
  BY PutAppends, <1>1 DEF Inv, TypeOK, QInv, Queue!Add
<1>3. Way' = (a \o Contents') \o <<>>
  BY DEF Way, Hand
<1>4. Way = (a \o Contents) \o Hand(mbuf)
  BY DEF Way
<1> HIDE DEF a
<1>5. Way' = (a \o Contents) \o <<mbuf>>
  BY <1>1, <1>2, <1>3, PutOnTheWay
<1>6. CASE mbuf # NULL
  BY <1>4, <1>5, <1>6 DEF Hand
<1>7. CASE mbuf = NULL
  <2>1. Way = a \o Contents
    BY <1>1, <1>4, <1>7, ConcatEmptySeq DEF Hand
  <2>2. Append(a \o Contents, NULL) = (a \o Contents) \o <<NULL>>
    BY <1>1, <1>7, AppendIsConcat
  <2> QED
    BY <1>5, <1>7, <2>1, <2>2
<1> QED
  BY <1>6, <1>7

(* read: the next buffer comes to its end. *)
LEMMA ReadWay ==
  ASSUME Inv, mbuf = NULL, nread + 1 \in BufNo, mbuf' = nread + 1,
         UNCHANGED <<qvars, written, failed, rbuf>>
  PROVE  Way' = Append(Way, nread + 1)
<1> DEFINE a == ((written \o failed) \o Hand(rbuf)) \o Contents
<1>1. a \in Seq(Item) /\ nread + 1 \in Item /\ nread + 1 # NULL
  BY WayParts, ReadAssumption DEF Item, BufNo
<1>2. Way = a \o <<>>
  BY DEF Way, Hand
<1>3. Way' = a \o <<nread + 1>>
  BY IdleContents, <1>1 DEF Way, Hand
<1> HIDE DEF a
<1> QED
  BY <1>1, <1>2, <1>3, ConcatEmptySeq, AppendIsConcat

(* enqueue gives up: the last buffer leaves the way. *)
LEMMA DropWay ==
  ASSUME Inv, mbuf # NULL, mbuf' = NULL, UNCHANGED <<qvars, written, failed, rbuf>>
  PROVE  Way = Append(Way', mbuf) /\ Way' \in Seq(Item)
<1> DEFINE a == ((written \o failed) \o Hand(rbuf)) \o Contents
<1>1. a \in Seq(Item) /\ mbuf \in Item
  BY WayParts DEF Inv, TypeOK
<1>2. Way' = a \o <<>>
  BY IdleContents DEF Way, Hand
<1>3. Way = a \o <<mbuf>>
  BY DEF Way, Hand
<1> HIDE DEF a
<1> QED
  BY <1>1, <1>2, <1>3, ConcatEmptySeq, AppendIsConcat

(* dequeue: a buffer stays on the way; the NULL was the last of all.       *)
LEMMA TakeWay ==
  ASSUME Inv, Ordered(Way, nread, dropped), rbuf = NULL, Take,
         rbuf' = Oldest, UNCHANGED <<written, failed, mbuf>>
  PROVE  /\ Oldest # NULL => Way' = Way
         /\ Oldest = NULL => /\ Way = Append(Way', NULL) /\ Way' \in Seq(Item)
                             /\ Way' = written \o failed
                             /\ Contents' = <<>> /\ mbuf = NULL
<1> DEFINE a == written \o failed
           m == Hand(mbuf)
           c == Contents
<1>1. a \in Seq(Item) /\ c \in Seq(Item) /\ m \in Seq(Item) /\ mbuf \in Item
  BY WayParts DEF Inv, TypeOK
<1>2. c # <<>> /\ Contents' = Tail(c) /\ Oldest = c[1]
  BY TakeRemoves DEF Inv, TypeOK, QInv, Queue!Remove
<1>3. Way = ((a \o <<>>) \o c) \o m
  BY DEF Way, Hand
<1>4. Way' = ((a \o Hand(Oldest)) \o Tail(c)) \o m
  BY <1>2 DEF Way
<1>n. mbuf = NULL <=> m = <<>>
  BY DEF Hand
<1> HIDE DEF a, m, c
<1>5. CASE Oldest # NULL
  <2>1. Hand(Oldest) = <<c[1]>>
    BY <1>2, <1>5 DEF Hand
  <2>2. (a \o <<c[1]>>) \o Tail(c) = (a \o <<>>) \o c
    BY <1>1, <1>2, TakeOffTheWay
  <2> QED
    BY <1>3, <1>4, <1>5, <2>1, <2>2
<1>6. CASE Oldest = NULL
  <2>1. /\ Len(a) \in Nat /\ Len(c) \in Nat \ {0} /\ Len(m) \in Nat
        /\ a \o <<>> = a
        /\ a \o c \in Seq(Item) /\ Len(a \o c) = Len(a) + Len(c)
        /\ \A i \in 1 .. Len(a) + Len(c) :
             (a \o c)[i] = IF i <= Len(a) THEN a[i] ELSE c[i - Len(a)]
    BY <1>1, <1>2, EmptySeq, ConcatProperties, ConcatEmptySeq
  <2>2. /\ Way = (a \o c) \o m
        /\ Len(Way) = Len(a \o c) + Len(m)
        /\ \A i \in 1 .. Len(a \o c) + Len(m) :
             Way[i] = IF i <= Len(a \o c) THEN (a \o c)[i] ELSE m[i - Len(a \o c)]
    BY <1>1, <1>3, <2>1, ConcatProperties
  <2>3. Way[Len(a) + 1] = NULL
    <3>1. /\ Len(a) + 1 \in 1 .. Len(a) + Len(c) /\ ~(Len(a) + 1 <= Len(a))
          /\ (Len(a) + 1) - Len(a) = 1
          /\ Len(a) + 1 \in 1 .. Len(a \o c) + Len(m) /\ Len(a) + 1 <= Len(a \o c)
      BY <2>1
    <3>2. (a \o c)[Len(a) + 1] = c[1]
      BY <2>1, <3>1
    <3>3. Way[Len(a) + 1] = (a \o c)[Len(a) + 1]
      BY <2>2, <3>1
    <3> QED
      BY <1>2, <1>6, <3>2, <3>3
  <2>4. Len(Way) = Len(a) + 1
    <3>1. Len(Way) = Len(a) + Len(c) + Len(m) /\ Len(Way) \in Nat /\ Len(Way) >= Len(a) + 1
      BY <2>1, <2>2
    <3>2. ASSUME Len(Way) > Len(a) + 1
          PROVE  FALSE
      <4>1. Len(a) + 1 \in 1 .. Len(Way) /\ Len(a) + 2 \in 1 .. Len(Way) /\ Len(a) + 1 < Len(a) + 2
        BY <2>1, <3>1, <3>2
      <4> QED
        BY <2>3, <4>1 DEF Ordered
    <3> QED
      BY <2>1, <3>1, <3>2
  <2>5. Len(c) = 1 /\ Len(m) = 0
    <3>1. Len(a) + 1 = Len(a) + Len(c) + Len(m)
      BY <2>1, <2>2, <2>4
    <3>2. Len(a) \in Nat /\ Len(c) \in Nat \ {0} /\ Len(m) \in Nat
      BY <2>1
    <3>3. \A x, y, z \in Nat : y # 0 /\ x + 1 = x + y + z => y = 1 /\ z = 0
      OBVIOUS
    <3>4. Len(c) \in Nat /\ Len(c) # 0
      BY <3>2
    <3> QED
      BY <3>1, <3>2, <3>3, <3>4, Zenon
  <2>6. m = <<>>
    BY <1>1, <2>5, EmptySeq
  <2>7. Tail(c) = <<>>
    <3>1. Tail(c) \in Seq(Item) /\ Len(Tail(c)) = 0
      BY <1>1, <1>2, <2>5, HeadTailProperties
    <3> QED
      BY <3>1, EmptySeq
  <2>8. <<NULL>> \in Seq(Item) /\ NULL \in Item
    BY DEF Item
  <2>9. c = <<NULL>>
    <3>1. Len(<<NULL>>) = 1 /\ <<NULL>>[1] = NULL
      OBVIOUS
    <3>2. \A i \in 1 .. Len(c) : i = 1
      BY <2>5
    <3>3. \A i \in 1 .. Len(c) : c[i] = <<NULL>>[i]
      BY <1>2, <1>6, <3>1, <3>2
    <3> QED
      BY <1>1, <2>5, <2>8, <3>1, <3>3, SeqEqual
  <2>10. Way' = a
    BY <1>1, <1>4, <1>6, <2>1, <2>6, <2>7 DEF Hand
  <2>11. Way = a \o <<NULL>>
    BY <2>1, <2>2, <2>6, <2>9, ConcatEmptySeq
  <2>12. Append(a, NULL) = a \o <<NULL>>
    BY <1>1, <2>8, AppendIsConcat
  <2> QED
    BY <1>1, <1>2, <1>6, <1>n, <2>6, <2>7, <2>10, <2>11, <2>12 DEF a
<1> QED
  BY <1>5, <1>6

(* Writing, and failing to, leave the buffer on the way. *)
LEMMA ProcessWay ==
  ASSUME Inv, HandInv, Process
  PROVE  Way' = Way
<1>1. /\ written \in Seq(Item) /\ rbuf \in Item /\ failed = <<>> /\ rbuf # NULL
      /\ rbuf' = NULL /\ mbuf' = mbuf /\ Contents' = Contents
      /\ \/ written' = Append(written, rbuf) /\ failed' = failed
         \/ written' = written /\ failed' = Append(failed, rbuf)
  BY WayParts, IdleContents DEF Inv, TypeOK, HandInv, Process, mvars, Reader
<1>2. Hand(rbuf) = <<rbuf>> /\ Hand(rbuf)' = <<>> /\ Hand(mbuf)' = Hand(mbuf)
  BY <1>1 DEF Hand
<1>3. (written' \o failed') \o Hand(rbuf)' = (written \o failed) \o Hand(rbuf)
  BY <1>1, <1>2, WriteOnTheWay
<1> QED
  BY <1>1, <1>2, <1>3 DEF Way

(* No other step moves anything on the way. *)
LEMMA OtherWay ==
  ASSUME Inv, MainInv, [Next]_vars,
         ~Enqueue, ~EnqWake, ~MainRead, ~MainDrain, ~Dequeue, ~DeqWake, ~Process
  PROVE  UNCHANGED <<qvars, written, failed, rbuf, mbuf, nread, dropped>>
<1> USE DEF vars, mvars, rvars, hvars
<1>1. CASE MainEnd
  BY <1>1 DEF MainEnd, MainInv, AtEnqueue
<1>2. CASE Stream \/ Tick \/ SigExternal \/ SigStep \/ Terminated \/ UNCHANGED vars
  BY <1>2 DEF Stream, Tick, SigExternal, SigStep, SigWait, CleanupStop, CleanupExit, Terminated
<1>3. CASE MainStep
  BY <1>1, <1>3
     DEF MainStep, MainStart, MainTop, MainReadNothing, MainCheck, MainStop, MainDrainNothing,
         MainDrainMalloc, MainRmid, MainKill, MainJoin, MainClose
<1>4. CASE ReaderStep
  BY <1>4 DEF ReaderStep, LoopCheck, Flush
<1>5. CASE IpcStep
  BY <1>5 DEF IpcStep, IpcReceive, IpcRemoved, IpcStop, IpcRemainder, IpcReopen, IpcTune,
              IpcSetChannel, IpcRestart, IpcTime
<1> QED
  BY <1>2, <1>3, <1>4, <1>5 DEF Next

(* main never comes back from where it reads no more. *)
LEMMA LeftStays ==
  ASSUME main \in Left, [Next]_vars
  PROVE  main' \in Left
<1> USE DEF vars, mvars, Left
<1>1. CASE MainStep
  BY <1>1
     DEF MainStep, MainStart, MainTop, MainRead, ReadBuffer, MainReadNothing, Enqueue, EnqWake,
         MainCheck, MainStop, MainDrain, MainDrainNothing, MainDrainMalloc, MainEnd, MainRmid,
         MainKill, MainJoin, MainClose
<1>2. CASE Stream \/ Tick \/ SigExternal \/ SigStep \/ Terminated \/ UNCHANGED vars
  BY <1>2 DEF Stream, Tick, SigExternal, SigStep, SigWait, CleanupStop, CleanupExit, Terminated
<1>3. CASE ReaderStep
  BY <1>3 DEF ReaderStep, Dequeue, DeqWake, Process, LoopCheck, Flush
<1>4. CASE IpcStep
  BY <1>4 DEF IpcStep, IpcReceive, IpcRemoved, IpcStop, IpcRemainder, IpcReopen, IpcTune,
              IpcSetChannel, IpcRestart, IpcTime
<1> QED
  BY <1>1, <1>2, <1>3, <1>4 DEF Next

(* Nor from reading the remaining data to an ordinary end. *)
LEMMA StoppingStays ==
  ASSUME stopping, [Next]_vars
  PROVE  stopping'
<1> USE DEF vars, hvars
<1>1. CASE MainStep
  BY <1>1
     DEF MainStep, MainStart, MainTop, MainRead, ReadBuffer, MainReadNothing, Enqueue, EnqWake,
         MainCheck, MainStop, MainDrain, MainDrainNothing, MainDrainMalloc, MainEnd, MainRmid,
         MainKill, MainJoin, MainClose
<1>2. CASE Stream \/ Tick \/ SigExternal \/ SigStep \/ Terminated \/ UNCHANGED vars
  BY <1>2 DEF Stream, Tick, SigExternal, SigStep, SigWait, CleanupStop, CleanupExit, Terminated
<1>3. CASE ReaderStep
  BY <1>3 DEF ReaderStep, Dequeue, DeqWake, Process, LoopCheck, Flush
<1>4. CASE IpcStep
  BY <1>4 DEF IpcStep, IpcReceive, IpcRemoved, IpcStop, IpcRemainder, IpcReopen, IpcTune,
              IpcSetChannel, IpcRestart, IpcTime
<1> QED
  BY <1>1, <1>2, <1>3, <1>4 DEF Next

(* A step leaves the way alone, or appends what was read or the NULL, or   *)
(* takes the last buffer or the NULL away.                                 *)
WayIdle == Way' = Way /\ UNCHANGED <<nread, dropped>>
WayRead ==
  /\ main \in {"read", "drain"} /\ mbuf = NULL /\ nread + 1 \in BufNo
  /\ Way' = Append(Way, nread + 1) /\ nread' = nread + 1
  /\ main' = "enqueue" /\ UNCHANGED <<dropped, stopping, written, reader>>
WayEnd ==
  /\ AtEnqueue /\ mbuf = NULL
  /\ Way' = Append(Way, NULL) /\ main' = "rmid" /\ UNCHANGED <<nread, dropped, stopping>>
WayDrop ==
  /\ AtEnqueue /\ nread \in BufNo
  /\ Way' \in Seq(Item) /\ Way = Append(Way', nread)
  /\ dropped' = dropped \cup {nread} /\ UNCHANGED <<nread, stopping>>
WayTaken ==
  /\ Way' \in Seq(Item) /\ Way = Append(Way', NULL)
  /\ UNCHANGED <<nread, dropped, stopping, main>>

LEMMA WaySteps ==
  ASSUME Inv, MainInv, HandInv, Ordered(Way, nread, dropped), [Next]_vars
  PROVE  WayIdle \/ WayRead \/ WayEnd \/ WayDrop \/ WayTaken
<1> USE DEF mvars, rvars, hvars
<1>0. mbuf # NULL => mbuf = nread /\ nread \in BufNo
  BY DEF Inv, TypeOK, MainInv, Item
<1>1. CASE Enqueue
  <2>1. CASE Put(mbuf) /\ mbuf' = NULL /\ main' = mret
    <3>1. UNCHANGED <<written, failed, rbuf>>
      BY <1>1 DEF Enqueue
    <3>2. UNCHANGED <<nread, dropped, stopping>> /\ AtEnqueue
      BY <1>1 DEF Enqueue, AtEnqueue
    <3>3. mbuf = NULL => main' = "rmid"
      BY <2>1, <3>2 DEF MainInv
    <3> QED
      BY <2>1, <3>1, <3>2, <3>3, PutWay DEF WayIdle, WayEnd
  <2>2. CASE UNCHANGED <<qvars, mbuf>>
    <3>1. UNCHANGED <<Contents, written, failed, rbuf, mbuf, nread, dropped>>
      BY <1>1, <2>2, IdleContents DEF Enqueue
    <3> QED
      BY <3>1 DEF WayIdle, Way, Hand
  <2> QED
    BY <1>1, <2>1, <2>2 DEF Enqueue
<1>2. CASE EnqWake
  <2>0. UNCHANGED <<nread, stopping, written, failed, rbuf>> /\ AtEnqueue
    BY <1>2 DEF EnqWake, AtEnqueue
  <2>1. CASE UNCHANGED <<qvars, mbuf, dropped>>
    <3>1. UNCHANGED <<Contents, written, failed, rbuf, mbuf>>
      BY <2>0, <2>1, IdleContents
    <3> QED
      BY <2>0, <2>1, <3>1 DEF WayIdle, Way, Hand
  <2>2. CASE Put(mbuf) /\ mbuf' = NULL /\ main' = mret /\ UNCHANGED dropped
    <3>1. mbuf = NULL => main' = "rmid"
      BY <2>0, <2>2 DEF MainInv
    <3> QED
      BY <2>0, <2>2, <3>1, PutWay DEF WayIdle, WayEnd
  <2>3. CASE mbuf' = NULL /\ main' = mret /\ dropped' = dropped \cup ({mbuf} \ {NULL}) /\ UNCHANGED qvars
    <3>1. CASE mbuf = NULL
      <4>1. UNCHANGED <<Contents, written, failed, rbuf, mbuf, dropped>>
        BY <2>0, <2>3, <3>1, IdleContents
      <4> QED
        BY <2>0, <4>1 DEF WayIdle, Way, Hand
    <3>2. CASE mbuf # NULL
      <4>1. Way = Append(Way', mbuf) /\ Way' \in Seq(Item)
        BY <2>0, <2>3, <3>2, DropWay
      <4>2. dropped' = dropped \cup {mbuf}
        BY <2>3, <3>2
      <4> QED
        BY <1>0, <2>0, <3>2, <4>1, <4>2 DEF WayDrop
    <3> QED
      BY <3>1, <3>2
  <2>4. \/ UNCHANGED <<qvars, mbuf, dropped>>
        \/ Put(mbuf) /\ mbuf' = NULL /\ main' = mret /\ UNCHANGED dropped
        \/ mbuf' = NULL /\ main' = mret /\ dropped' = dropped \cup ({mbuf} \ {NULL}) /\ UNCHANGED qvars
    BY <1>2 DEF EnqWake
  <2> QED
    BY <2>1, <2>2, <2>3, <2>4
<1>3. CASE MainRead \/ MainDrain
  <2>1. /\ main \in {"read", "drain"} /\ nread' = nread + 1 /\ mbuf' = nread + 1 /\ main' = "enqueue"
        /\ UNCHANGED <<qvars, written, failed, rbuf, dropped, stopping, reader>>
    BY <1>3 DEF MainRead, MainDrain, ReadBuffer
  <2>2. mbuf = NULL
    BY <2>1 DEF MainInv, AtEnqueue
  <2>3. nread + 1 \in BufNo
    <3>1. nread \in Nat /\ ring \in Nat /\ nread + ring <= MaxRead /\ MaxRead \in Nat
      BY EnvAssumption, ReadAssumption DEF Inv, TypeOK
    <3>2. ring > 0
      BY <1>3 DEF MainRead, MainDrain, ReadBuffer
    <3> QED
      BY <3>1, <3>2 DEF BufNo
  <2> QED
    BY <2>1, <2>2, <2>3, ReadWay DEF WayRead
<1>4. CASE Dequeue \/ DeqWake
  <2>1. rbuf = NULL /\ UNCHANGED <<nread, dropped, stopping, main, written, failed, mbuf>>
    BY <1>4 DEF Dequeue, DeqWake, HandInv, Reader
  <2>2. CASE GotItem
    BY <2>1, <2>2, TakeWay DEF GotItem, WayIdle, WayTaken
  <2>3. CASE UNCHANGED <<qvars, rbuf>>
    <3>1. UNCHANGED <<Contents, written, failed, rbuf, mbuf>>
      BY <2>1, <2>3, IdleContents
    <3> QED
      BY <2>1, <3>1 DEF WayIdle, Way, Hand
  <2> QED
    BY <1>4, <2>2, <2>3 DEF Dequeue, DeqWake
<1>5. CASE Process
  BY <1>5, ProcessWay DEF WayIdle, Process
<1>6. CASE UNCHANGED <<qvars, written, failed, rbuf, mbuf, nread, dropped>>
  <2>1. UNCHANGED <<Contents, written, failed, rbuf, mbuf, nread, dropped>>
    BY <1>6, IdleContents
  <2> QED
    BY <2>1 DEF WayIdle, Way, Hand
<1> QED
  BY <1>1, <1>2, <1>3, <1>4, <1>5, <1>6, OtherWay

-----------------------------------------------------------------------------
(* The order.                                                              *)

(* As long as nothing was given up, or what was given up was the last,     *)
(* each place of the way holds the buffer of its number.                   *)
Exact(w) == \A i \in 1 .. Len(w) : w[i] # NULL => w[i] = i

FlowInv ==
  /\ Ordered(Way, nread, dropped)
  /\ ~NoNull(Way) => main \in Left
  /\ dropped = {} \/ ~stopping => Exact(Way)

(* So a way that holds everything is as long as what was read. *)
LEMMA ExactLen ==
  ASSUME NEW w \in Seq(Item), NEW n \in Nat, Ordered(w, n, {}), NoNull(w), Exact(w)
  PROVE  Len(w) = n
<1>1. Len(w) \in Nat
  BY LenProperties
<1>2. ASSUME n > Len(w)
      PROVE  FALSE
  <2>1. n \in 1 .. n
    BY <1>1, <1>2
  <2>2. PICK i \in 1 .. Len(w) : w[i] = n
    BY <2>1 DEF Ordered
  <2>3. w[i] = i
    BY DEF NoNull, Exact
  <2> QED
    BY <1>1, <1>2, <2>2, <2>3
<1>3. ASSUME Len(w) > n
      PROVE  FALSE
  <2>1. Len(w) \in 1 .. Len(w)
    BY <1>1, <1>3
  <2>2. w[Len(w)] = Len(w) /\ w[Len(w)] \in 1 .. n
    BY <2>1 DEF NoNull, Exact, Ordered
  <2> QED
    BY <1>3, <2>2
<1> QED
  BY <1>1, <1>2, <1>3

(* A step keeps the order. *)
LEMMA FlowInvNext ==
  ASSUME Inv, MainInv, ExitInv, HandInv, FlowInv, [Next]_vars
  PROVE  FlowInv'
<1>0. /\ Way \in Seq(Item) /\ nread \in Nat /\ dropped \in SUBSET (1 .. nread)
      /\ Ordered(Way, nread, dropped)
  BY WayParts DEF Inv, TypeOK, ExitInv, FlowInv
<1>s. stopping \in BOOLEAN /\ stopping' \in BOOLEAN
  BY StepFlags DEF Inv, TypeOK, FlagsOK
<1>1. CASE WayIdle
  BY <1>0, <1>s, <1>1, LeftStays, StoppingStays DEF FlowInv, WayIdle
<1>2. CASE WayRead
  <2>1. NoNull(Way)
    BY <1>2 DEF FlowInv, WayRead, Left
  <2>2. Ordered(Way, nread, dropped)' /\ UNCHANGED <<dropped, stopping>>
    BY <1>0, <1>2, <2>1, ReadKeeps DEF WayRead
  <2>3. nread + 1 \in Item /\ nread + 1 # NULL
    BY <1>2, ReadAssumption DEF WayRead, Item, BufNo
  <2>4. NoNull(Way')
    <3>1. Len(Way') = Len(Way) + 1 /\ Way'[Len(Way) + 1] = nread + 1
          /\ \A i \in 1 .. Len(Way) : Way'[i] = Way[i]
          /\ \A j \in 1 .. Len(Way) + 1 : j \in 1 .. Len(Way) \/ j = Len(Way) + 1
      BY <1>0, <1>2, <2>3, AppendPlaces DEF WayRead
    <3> QED
      BY <2>1, <2>3, <3>1 DEF NoNull
  <2>5. dropped = {} \/ ~stopping => Exact(Way')
    <3> SUFFICES ASSUME dropped = {} \/ ~stopping PROVE Exact(Way')
      OBVIOUS
    <3>1. dropped = {}
      BY <1>2 DEF WayRead, MainInv, ExitInv, Left
    <3>2. Len(Way) = nread
      BY <1>0, <2>1, <3>1, ExactLen DEF FlowInv
    <3>3. Len(Way') = Len(Way) + 1 /\ Way'[Len(Way) + 1] = nread + 1
          /\ \A i \in 1 .. Len(Way) : Way'[i] = Way[i]
          /\ \A j \in 1 .. Len(Way) + 1 : j \in 1 .. Len(Way) \/ j = Len(Way) + 1
      BY <1>0, <1>2, <2>3, AppendPlaces DEF WayRead
    <3>4. \A i \in 1 .. Len(Way) : Way[i] = i
      BY <2>1, <3>1 DEF FlowInv, Exact, NoNull
    <3> QED
      BY <3>2, <3>3, <3>4 DEF Exact
  <2> QED
    BY <2>2, <2>4, <2>5 DEF FlowInv
<1>3. CASE WayEnd
  <2>1. NoNull(Way)
    BY <1>3 DEF FlowInv, WayEnd, Left, AtEnqueue
  <2>2. Ordered(Way', nread, dropped)
    BY <1>0, <1>3, <2>1, NullKeeps DEF WayEnd
  <2>3. Exact(Way) => Exact(Way')
    <3>1. Len(Way') = Len(Way) + 1 /\ Way'[Len(Way) + 1] = NULL
          /\ \A i \in 1 .. Len(Way) : Way'[i] = Way[i]
          /\ \A j \in 1 .. Len(Way) + 1 : j \in 1 .. Len(Way) \/ j = Len(Way) + 1
      BY <1>0, <1>3, AppendPlaces DEF WayEnd, Item
    <3> QED
      BY <3>1 DEF Exact
  <2> QED
    BY <1>3, <2>2, <2>3 DEF FlowInv, WayEnd, Left
<1>4. ASSUME NEW x \in Item, Way' \in Seq(Item), Way = Append(Way', x)
      PROVE  /\ NoNull(Way) => NoNull(Way')
             /\ Exact(Way) => Exact(Way')
  <2> DEFINE v == Way'
  <2>1. Len(Way) = Len(v) + 1 /\ \A i \in 1 .. Len(v) : Way[i] = v[i] /\ i \in 1 .. Len(v) + 1
    BY <1>4, AppendPlaces
  <2> HIDE DEF v
  <2>2. (NoNull(Way) => NoNull(v)) /\ (Exact(Way) => Exact(v))
    BY <2>1 DEF NoNull, Exact
  <2> QED
    BY <2>2 DEF v
<1>5. CASE WayDrop
  <2>1. nread \in Item
    BY <1>5 DEF WayDrop, Item
  <2>2. NoNull(Way')
    BY <1>4, <1>5, <2>1 DEF FlowInv, WayDrop, Left, AtEnqueue
  <2>3. Ordered(Way', nread, dropped \cup {nread})
    BY <1>0, <1>5, DropKeeps DEF WayDrop
  <2>4. dropped' # {} /\ stopping' = stopping
    BY <1>5 DEF WayDrop
  <2>5. ~stopping => Exact(Way')
    BY <1>4, <1>5, <2>1 DEF FlowInv, WayDrop
  <2> QED
    BY <1>5, <2>2, <2>3, <2>4, <2>5 DEF FlowInv, WayDrop
<1>6. CASE WayTaken
  <2>1. Ordered(Way', nread, dropped) /\ NoNull(Way')
    BY <1>0, <1>6, NullTaken DEF WayTaken
  <2>2. Exact(Way) => Exact(Way')
    BY <1>4, <1>6 DEF WayTaken, Item
  <2> QED
    BY <1>6, <2>1, <2>2 DEF FlowInv, WayTaken
<1> QED
  BY <1>0, <1>1, <1>2, <1>3, <1>5, <1>6, WaySteps

-----------------------------------------------------------------------------
(* What is left when reader_func has gone.                                 *)

(* reader_func has seen its end, with nothing left behind that it saw.     *)
Gone == (reader = "flush" \/ (reader = "done" /\ quit # "late")) /\ failed = <<>>

(* Then main goes on for one buffer at most, unless it reads the remaining *)
(* data; and if it was the time being over that set f_exit, for none.      *)
GoneInv ==
  Gone =>
    /\ f_exit
    /\ cause = "time" => \A i \in 1 .. num_used : Contents[i] = NULL
    /\ ~stopping => nread <= Len(written) + 1 /\ (main = "read" => nread = Len(written))

(* Only the last buffer read can be missing. *)
LEMMA ExactLost ==
  ASSUME NEW w \in Seq(Item), NEW n \in Nat, NEW d \in SUBSET {n},
         Ordered(w, n, d), NoNull(w), Exact(w)
  PROVE  n <= Len(w) + 1
<1>1. Len(w) \in Nat
  BY LenProperties
<1> SUFFICES ASSUME n > Len(w) + 1
             PROVE  FALSE
  BY <1>1
<1>2. n - 1 \in 1 .. n /\ n - 1 \notin d
  BY <1>1
<1>3. PICK i \in 1 .. Len(w) : w[i] = n - 1
  BY <1>2 DEF Ordered
<1>4. w[i] = i
  BY <1>2, <1>3, ReadAssumption DEF NoNull, Exact
<1> QED
  BY <1>1, <1>3, <1>4

(* What is in the file is no NULL. *)
LEMMA FileHasNoNull ==
  ASSUME Inv
  PROVE  NoNull(written) /\ written \in Seq(Item) /\ Len(written) \in Nat
<1>1. written \in Seq(BufNo) /\ NULL \notin BufNo
  BY ReadAssumption DEF Inv, TypeOK, BufNo
<1>2. \A i \in 1 .. Len(written) : written[i] \in BufNo
  BY <1>1, ElementOfSeq
<1> QED
  BY <1>1, <1>2, WayParts, LenProperties DEF NoNull

(* Unless main reads the remaining data, what was given up is the last     *)
(* buffer, if any.                                                         *)
LEMMA LostIsLast ==
  ASSUME ExitInv, ~stopping
  PROVE  dropped \in SUBSET {nread}
  BY DEF ExitInv

(* With nothing in the queue nor in its hands, reader leaves at most what  *)
(* main has in its own.                                                    *)
LEMMA IdleEnds ==
  ASSUME Inv, MainInv, ExitInv, FlowInv, num_used = 0, failed = <<>>, rbuf = NULL, ~stopping
  PROVE  nread <= Len(written) + 1 /\ (main = "read" => nread = Len(written))
<1>1. /\ written \in Seq(Item) /\ NoNull(written) /\ Len(written) \in Nat
      /\ nread \in Nat /\ mbuf \in Item
  BY FileHasNoNull DEF Inv, TypeOK
<1>2. Contents = <<>>
  <2>1. Contents \in Seq(Item) /\ Len(Contents) = 0
    BY ContentsSeq DEF Inv, TypeOK, QInv
  <2> QED
    BY <2>1, EmptySeq
<1>3. Way = written \o Hand(mbuf)
  BY <1>1, <1>2, ConcatEmptySeq DEF Way, Hand
<1>4. Exact(Way) /\ Ordered(Way, nread, dropped) /\ dropped \in SUBSET {nread}
  BY LostIsLast DEF FlowInv
<1>5. CASE mbuf = NULL
  <2>1. Way = written
    BY <1>1, <1>3, <1>5, ConcatEmptySeq DEF Hand
  <2>2. nread <= Len(written) + 1
    BY <1>1, <1>4, <2>1, ExactLost
  <2>3. ASSUME main = "read" PROVE nread = Len(written)
    <3>1. dropped = {}
      BY <2>3 DEF ExitInv, Left
    <3> QED
      BY <1>1, <1>4, <2>1, <3>1, ExactLen
  <2> QED
    BY <2>2, <2>3
<1>6. CASE mbuf # NULL
  <2>1. main # "read" /\ dropped = {}
    BY <1>6 DEF MainInv, ExitInv, AtEnqueue, Left
  <2>2. Way = Append(written, mbuf)
    BY <1>1, <1>3, <1>6, AppendIsConcat DEF Hand
  <2>3. Way \in Seq(Item) /\ Len(Way) = Len(written) + 1 /\ NoNull(Way)
    <3>1. /\ Append(written, mbuf) \in Seq(Item)
          /\ Len(Append(written, mbuf)) = Len(written) + 1
          /\ Append(written, mbuf)[Len(written) + 1] = mbuf
          /\ \A i \in 1 .. Len(written) : Append(written, mbuf)[i] = written[i]
          /\ \A i \in 1 .. Len(written) + 1 : i \in 1 .. Len(written) \/ i = Len(written) + 1
      BY <1>1, AppendPlaces
    <3> QED
      BY <1>1, <1>6, <2>2, <3>1 DEF NoNull
  <2>4. Len(Way) = nread
    BY <1>1, <1>4, <2>1, <2>3, ExactLen
  <2> QED
    BY <1>1, <2>1, <2>3, <2>4
<1> QED
  BY <1>5, <1>6

(* With the NULL in its hands it leaves nothing but what was given up. *)
LEMMA NullEnds ==
  ASSUME Inv, MainInv, ExitInv, FlowInv, ReaderInv, failed = <<>>, rbuf = NULL,
         GotItem, Oldest = NULL, UNCHANGED <<written, failed, mbuf>>
  PROVE  /\ f_exit /\ num_used' = 0
         /\ ~stopping => nread <= Len(written) + 1 /\ main # "read"
<1>1. /\ written \in Seq(Item) /\ NoNull(written) /\ Len(written) \in Nat
      /\ nread \in Nat
  BY FileHasNoNull DEF Inv, TypeOK
<1>2. Oldest = Contents[1] /\ 1 \in 1 .. num_used
  BY TakeRemoves DEF GotItem, Inv, TypeOK, QInv, QTypeOK, Take
<1>3. /\ Way = Append(Way', NULL) /\ Way' \in Seq(Item)
      /\ Way' = written \o failed /\ Contents' = <<>>
  BY TakeWay DEF GotItem, FlowInv
<1>4. Way' = written
  BY <1>1, <1>3, ConcatEmptySeq
<1>5. num_used' = 0
  <2>1. QInv' /\ num_used' \in Nat
    BY TakeQInv DEF GotItem, Inv, TypeOK, QInv, QTypeOK
  <2>2. Len(Contents') = num_used'
    BY <2>1, ContentsSeq DEF QInv, QTypeOK, QConsistent, Slot, Contents
  <2> QED
    BY <1>3, <2>2
<1>6. f_exit
  BY <1>2 DEF ReaderInv
<1>7. Ordered(written, nread, dropped)
  BY <1>1, <1>3, <1>4, NullTaken DEF FlowInv
<1>8. ASSUME ~stopping
      PROVE  nread <= Len(written) + 1
  <2>1. Exact(Append(written, NULL))
    BY <1>3, <1>4, <1>8 DEF FlowInv
  <2>2. Len(Append(written, NULL)) = Len(written) + 1
        /\ \A i \in 1 .. Len(written) : Append(written, NULL)[i] = written[i] /\ i \in 1 .. Len(written) + 1
    BY <1>1, AppendPlaces DEF Item
  <2>3. Exact(written)
    BY <2>1, <2>2 DEF Exact
  <2> QED
    BY <1>1, <1>7, <1>8, <2>3, LostIsLast, ExactLost
<1>9. main # "read"
  <2>1. ~NoNull(Way)
    <3>1. /\ Len(Append(written, NULL)) = Len(written) + 1
          /\ Append(written, NULL)[Len(written) + 1] = NULL
          /\ Len(written) + 1 \in 1 .. Len(written) + 1
      BY <1>1, AppendPlaces DEF Item
    <3> QED
      BY <1>3, <1>4, <3>1 DEF NoNull
  <2> QED
    BY <2>1 DEF FlowInv, Left
<1> QED
  BY <1>5, <1>6, <1>8, <1>9

(* f_exit set, nothing sets it again, and main begins no other read. *)
LEMMA AfterExit ==
  ASSUME Inv, f_exit, [Next]_vars
  PROVE  cause' = cause /\ (main' = "read" => main = "read")
<1> USE DEF vars, mvars, xvars, SetExit
<1>0. mret \in {"check", "drain", "rmid"}
  BY DEF Inv, TypeOK
<1>1. CASE MainStep
  BY <1>0, <1>1
     DEF MainStep, MainStart, MainTop, MainRead, ReadBuffer, MainReadNothing, Enqueue, EnqWake,
         MainCheck, MainStop, MainDrain, MainDrainNothing, MainDrainMalloc, MainEnd, MainRmid,
         MainKill, MainJoin, MainClose
<1>2. CASE Stream \/ Tick \/ SigExternal \/ SigStep \/ Terminated \/ UNCHANGED vars
  BY <1>2 DEF Stream, Tick, SigExternal, SigStep, SigWait, CleanupStop, CleanupExit, Terminated
<1>3. CASE ReaderStep
  BY <1>3 DEF ReaderStep, Dequeue, DeqWake, Process, LoopCheck, Flush
<1>4. CASE IpcStep
  BY <1>4 DEF IpcStep, IpcReceive, IpcRemoved, IpcStop, IpcRemainder, IpcReopen, IpcTune,
              IpcSetChannel, IpcRestart, IpcTime, TotalIsOver, TotalIsSet, Extended
<1> QED
  BY <1>1, <1>2, <1>3, <1>4 DEF Next

(* reader goes there from an empty queue or with the NULL. *)
LEMMA GoneBegins ==
  ASSUME Inv, MainInv, ExitInv, HandInv, FlowInv, ReaderInv, ~Gone, [Next]_vars
  PROVE  GoneInv'
<1> SUFFICES ASSUME Gone'
             PROVE  /\ f_exit' /\ num_used' = 0
                    /\ ~stopping' => /\ nread' <= Len(written') + 1
                                     /\ main' = "read" => nread' = Len(written')
  BY DEF GoneInv
<1> USE DEF mvars, rvars, hvars
<1>0. num_used \in Nat /\ (failed = <<>> /\ reader \notin {"process"} => rbuf = NULL)
  BY DEF Inv, TypeOK, QTypeOK, HandInv
<1>1. CASE Dequeue
  <2>1. /\ reader = "dequeue" /\ failed = <<>> /\ rbuf = NULL
        /\ UNCHANGED <<f_exit, stopping, nread, written, failed, mbuf, main>>
    BY <1>1 DEF Dequeue, HandInv, Reader, xvars
  <2>2. GotItem /\ Oldest = NULL
    BY <1>1, <2>1 DEF Dequeue, GotItem, Gone
  <2>3. /\ f_exit /\ num_used' = 0
        /\ ~stopping => nread <= Len(written) + 1 /\ main # "read"
    BY <2>1, <2>2, NullEnds
  <2> QED
    BY <2>1, <2>3
<1>2. CASE DeqWake
  <2>1. /\ reader = "deqwait" /\ failed = <<>> /\ rbuf = NULL
        /\ UNCHANGED <<stopping, nread, written, failed, mbuf, main>>
    BY <1>2 DEF DeqWake, HandInv, Reader
  <2>2. CASE GotItem /\ ~f_exit'
    <3>1. Oldest = NULL
      BY <1>2, <2>1, <2>2 DEF DeqWake, GotItem, Gone
    <3>2. f_exit
      BY <2>1, <2>2, <3>1, NullEnds
    <3> QED
      BY <2>2, <3>2, ExitStays
  <2>3. CASE f_exit' /\ quit' = (IF num_used = 0 THEN "idle" ELSE "late") /\ UNCHANGED qvars
    <3>1. num_used = 0 /\ num_used' = 0
      BY <1>2, <2>1, <2>3 DEF Gone, DeqWake, qvars
    <3>2. ~stopping => nread <= Len(written) + 1 /\ (main = "read" => nread = Len(written))
      BY <2>1, <3>1, IdleEnds
    <3> QED
      BY <2>1, <2>3, <3>1, <3>2
  <2>4. \/ GotItem /\ ~f_exit'
        \/ f_exit' /\ quit' = (IF num_used = 0 THEN "idle" ELSE "late") /\ UNCHANGED qvars
    BY <1>2, <2>1 DEF DeqWake, Gone
  <2> QED
    BY <2>2, <2>3, <2>4
<1>3. CASE LoopCheck
  <2>1. /\ reader = "check" /\ failed = <<>> /\ rbuf = NULL
        /\ UNCHANGED <<f_exit, num_used, stopping, nread, written, failed, mbuf, main>>
    BY <1>0, <1>3 DEF LoopCheck, Reader, xvars, qvars, Gone, HandInv
  <2>2. f_exit /\ num_used = 0
    BY <1>3, <2>1 DEF LoopCheck, Gone
  <2>3. ~stopping => nread <= Len(written) + 1 /\ (main = "read" => nread = Len(written))
    BY <2>1, <2>2, IdleEnds
  <2> QED
    BY <2>1, <2>2, <2>3
<1>4. ASSUME ~Dequeue, ~DeqWake, ~LoopCheck
      PROVE  FALSE
  <2>1. CASE Process \/ Flush
    BY <2>1 DEF Process, Flush, Gone, Reader
  <2>2. ASSUME UNCHANGED <<reader, quit, failed>>
        PROVE  FALSE
    BY <2>2 DEF Gone
  <2>3. CASE MainStep
    BY <2>2, <2>3
       DEF MainStep, MainStart, MainTop, MainRead, ReadBuffer, MainReadNothing, Enqueue, EnqWake,
           MainCheck, MainStop, MainDrain, MainDrainNothing, MainDrainMalloc, MainEnd, MainRmid,
           MainKill, MainJoin, MainClose
  <2>4. CASE Stream \/ Tick \/ SigExternal \/ SigStep \/ Terminated \/ UNCHANGED vars
    BY <2>2, <2>4 DEF Stream, Tick, SigExternal, SigStep, SigWait, CleanupStop, CleanupExit,
                      Terminated, vars
  <2>5. CASE IpcStep
    BY <2>2, <2>5 DEF IpcStep, IpcReceive, IpcRemoved, IpcStop, IpcRemainder, IpcReopen, IpcTune,
                      IpcSetChannel, IpcRestart, IpcTime
  <2> QED
    BY <1>4, <2>1, <2>3, <2>4, <2>5 DEF Next, ReaderStep
<1> QED
  BY <1>1, <1>2, <1>3, <1>4

(* Gone, it leaves main to itself. *)
LEMMA GoneGoesOn ==
  ASSUME Inv, MainInv, ExitInv, HandInv, FlowInv, GoneInv, Gone, [Next]_vars
  PROVE  GoneInv'
<1>0. /\ num_used \in Nat /\ QInv /\ mbuf \in Item
      /\ stopping \in BOOLEAN /\ stopping' \in BOOLEAN
  BY StepFlags DEF Inv, TypeOK, QInv, QTypeOK, FlagsOK
<1>1. f_exit /\ f_exit' /\ cause' = cause
  BY ExitStays, AfterExit DEF GoneInv
<1>2. written' = written
  <2> USE DEF vars, mvars, rvars, hvars, Gone
  <2>1. CASE ReaderStep
    BY <2>1 DEF ReaderStep, Dequeue, DeqWake, Process, LoopCheck, Flush, Reader
  <2>2. CASE MainStep
    BY <2>2
       DEF MainStep, MainStart, MainTop, MainRead, ReadBuffer, MainReadNothing, Enqueue, EnqWake,
           MainCheck, MainStop, MainDrain, MainDrainNothing, MainDrainMalloc, MainEnd, MainRmid,
           MainKill, MainJoin, MainClose
  <2>3. CASE Stream \/ Tick \/ SigExternal \/ SigStep \/ Terminated \/ UNCHANGED vars
    BY <2>3 DEF Stream, Tick, SigExternal, SigStep, SigWait, CleanupStop, CleanupExit, Terminated
  <2>4. CASE IpcStep
    BY <2>4 DEF IpcStep, IpcReceive, IpcRemoved, IpcStop, IpcRemainder, IpcReopen, IpcTune,
                IpcSetChannel, IpcRestart, IpcTime
  <2> QED
    BY <2>1, <2>2, <2>3, <2>4 DEF Next
<1>3. ASSUME cause = "time", NEW i \in 1 .. num_used'
      PROVE  Contents'[i] = NULL
  <2>0. \A j \in 1 .. num_used : Contents[j] = NULL
    BY <1>3 DEF GoneInv
  <2>1. Contents \in Seq(Item) /\ Len(Contents) = num_used
    BY <1>0, ContentsSeq
  <2>2. CASE main \in {"enqueue", "enqwait"} /\ Put(mbuf)
    <3>1. mbuf = NULL
      BY <1>3, <2>2 DEF ExitInv, MainInv, AtEnqueue, Left
    <3>2. Contents' = Append(Contents, mbuf) /\ num_used' = num_used + 1
      BY <1>0, <2>2, PutAppends DEF Queue!Add, Put
    <3>3. i = num_used + 1 \/ i \in 1 .. num_used
      BY <1>0, <3>2
    <3> QED
      BY <1>0, <2>0, <2>1, <3>1, <3>2, <3>3, AppendPlaces
  <2>3. CASE Take
    <3>1. Contents' = Tail(Contents) /\ Contents # <<>> /\ num_used' = num_used - 1
      BY <1>0, <2>3, TakeRemoves DEF Queue!Remove, Take
    <3>2. i \in 1 .. Len(Tail(Contents)) /\ i + 1 \in 1 .. num_used
      BY <1>0, <2>1, <3>1, HeadTailProperties
    <3>3. Contents'[i] = Contents[i + 1]
      BY <2>1, <3>1, <3>2, HeadTailProperties
    <3> QED
      BY <2>0, <3>2, <3>3
  <2>4. CASE UNCHANGED qvars
    BY <2>0, <2>4, IdleContents DEF qvars
  <2> QED
    BY <2>2, <2>3, <2>4, QueueSteps
<1>4. ASSUME ~stopping'
      PROVE  nread' <= Len(written) + 1 /\ (main' = "read" => nread' = Len(written))
  <2>1. ~stopping
    BY <1>4, StoppingStays
  <2>2. nread <= Len(written) + 1 /\ (main = "read" => nread = Len(written))
    BY <2>1 DEF GoneInv
  <2>3. main' = "read" => main = "read"
    BY <1>1, AfterExit
  <2>4. CASE nread' = nread
    BY <2>2, <2>3, <2>4
  <2>5. CASE WayRead
    <3>1. main = "read" /\ nread' = nread + 1 /\ main' # "read"
      BY <2>1, <2>5 DEF WayRead, MainInv
    <3> QED
      BY <2>2, <3>1, FileHasNoNull
  <2>6. nread' = nread \/ WayRead
    BY WaySteps DEF FlowInv, WayIdle, WayEnd, WayDrop, WayTaken
  <2> QED
    BY <2>4, <2>5, <2>6
<1> QED
  BY <1>1, <1>2, <1>3, <1>4 DEF GoneInv

-----------------------------------------------------------------------------
(* All of it together. *)
RecInv == Inv /\ ReaderInv /\ MainInv /\ ExitInv /\ HandInv /\ FlowInv /\ GoneInv

LEMMA RecInvInit == Init => RecInv
<1> SUFFICES ASSUME Init PROVE RecInv
  OBVIOUS
<1>1. Inv
  BY InitInv
<1>2. ReaderInv
  BY DEF Init, ReaderInv, Noticed, create_queue
<1>3. MainInv /\ ExitInv /\ HandInv /\ GoneInv
  BY DEF Init, MainInv, ExitInv, HandInv, GoneInv, Gone, AtEnqueue
<1>4. Way = <<>>
  <2>1. Contents \in Seq(Item) /\ Len(Contents) = 0
    BY CreateQInv, ContentsSeq DEF Init, create_queue
  <2>2. Contents = <<>> /\ <<>> \in Seq(Item)
    BY <2>1, EmptySeq
  <2> QED
    BY <2>2, ConcatEmptySeq DEF Init, Way, Hand
<1>5. FlowInv
  <2>1. Len(Way) = 0 /\ nread = 0
    BY <1>4 DEF Init
  <2> QED
    BY <2>1 DEF FlowInv, Ordered, NoNull, Exact
<1> QED
  BY <1>1, <1>2, <1>3, <1>5 DEF RecInv

LEMMA RecInvNext == RecInv /\ [Next]_vars => RecInv'
<1> SUFFICES ASSUME RecInv, [Next]_vars PROVE RecInv'
  OBVIOUS
<1>1. Inv /\ ReaderInv /\ MainInv /\ ExitInv /\ HandInv /\ FlowInv /\ GoneInv
  BY DEF RecInv
<1>2. Inv' /\ MainInv' /\ ExitInv' /\ HandInv' /\ FlowInv'
  BY <1>1, StepInv, MainInvNext, ExitInvNext, HandInvNext, FlowInvNext
<1>3. ReaderInv'
  BY <1>1, ReaderInvNext
<1>4. GoneInv'
  BY <1>1, GoneBegins, GoneGoesOn
<1> QED
  BY <1>2, <1>3, <1>4 DEF RecInv

LEMMA AlwaysRecInv == Spec => []RecInv
  BY RecInvInit, RecInvNext, PTL DEF Spec

(* main is done when it has joined reader_func, whose hands are empty. *)
LEMMA DoneIsGone ==
  ASSUME RecInv, main = "done", failed = <<>>, quit # "late"
  PROVE  Gone /\ rbuf = NULL /\ mbuf = NULL
  BY DEF RecInv, MainInv, HandInv, Gone, AtEnqueue

-----------------------------------------------------------------------------
(* The theorems.                                                           *)

(* Every variable keeps its type: the positions of the queue are slots,    *)
(* its counters count no more than Size, and only buffers that were read   *)
(* are queued, written or given up.                                        *)
THEOREM TypeCorrect == Spec => []TypeOK
<1>1. Inv /\ [Next]_vars => Inv'
  BY StepInv
<1>2. Inv => TypeOK
  BY DEF Inv
<1> QED
  BY InitInv, <1>1, <1>2, PTL DEF Spec

(* The counters and the positions of the queue agree whatever the threads  *)
(* do: enqueue, dequeue, reader_func and mq_recv may test either counter.  *)
THEOREM CountersAgree == Spec => []QConsistent
<1>1. Inv /\ [Next]_vars => Inv'
  BY StepInv
<1>2. Inv => QConsistent
  BY DEF Inv
<1> QED
  BY InitInv, <1>1, <1>2, PTL DEF Spec

(* The queue of recpt1 is a bounded FIFO: each step of the recorder is an  *)
(* Add, a Remove or no step of the abstract queue.                         *)
THEOREM RecorderQueueIsFifo == Spec => QueueIsFifo
<1>1. Init => Queue!Init
  BY CreateIsEmpty DEF Init
<1>2. Inv /\ [Next]_vars => [Queue!Next]_Contents
  <2> SUFFICES ASSUME Inv, [Next]_vars
               PROVE  [Queue!Next]_Contents
    OBVIOUS
  <2>1. QInv /\ mbuf \in Item
    BY DEF Inv, TypeOK, QInv
  <2>2. CASE Put(mbuf)
    BY <2>1, <2>2, PutAppends DEF Queue!Next
  <2>3. CASE Take
    BY <2>1, <2>3, TakeRemoves DEF Queue!Next
  <2>4. CASE UNCHANGED qvars
    BY <2>4, IdleContents
  <2> QED
    BY <2>2, <2>3, <2>4, QueueSteps
<1>3. Inv /\ [Next]_vars => Inv'
  BY StepInv
<1> QED
  BY InitInv, <1>1, <1>2, <1>3, PTL DEF Spec, QueueIsFifo, Queue!Spec

(* When reader_func is gone, f_exit is set or a signal that will set it is *)
(* on its way, however reader_func ended: by the NULL in the queue, by a   *)
(* queue that stayed empty, by f_exit or by a failed write.                *)
THEOREM ReaderGone == Spec => []ReaderGoneIsNoticed
<1>1. Init => ReaderInv
  BY DEF Init, ReaderInv, Noticed, create_queue
<1>2. Inv /\ ReaderInv /\ [Next]_vars => ReaderInv'
  BY ReaderInvNext
<1>3. Inv /\ [Next]_vars => Inv'
  BY StepInv
<1>4. ReaderInv => ReaderGoneIsNoticed
  BY DEF ReaderInv, Noticed, ReaderGoneIsNoticed
<1> QED
  BY InitInv, <1>1, <1>2, <1>3, <1>4, PTL DEF Spec

(* The buffers main has read and enqueue has not given up are in the file, *)
(* in a failed write, in reader's hands, in the queue or in main's, in the *)
(* order of reading, and the NULL that ends reader_func is behind them:    *)
(* for any queue, whatever the four threads do and whatever fails.         *)
THEOREM NothingLostOnTheWay == Spec => []InOrder
<1>1. RecInv => InOrder
  <2> SUFFICES ASSUME RecInv PROVE InOrder
    OBVIOUS
  <2>1. Way \in Seq(Item) /\ nread \in Nat /\ Ordered(Way, nread, dropped)
    BY WayParts DEF RecInv, Inv, TypeOK, FlowInv
  <2> QED
    BY <2>1, HoldsIsOrdered DEF InOrder
<1> QED
  BY <1>1, AlwaysRecInv, PTL

(* A recording that ended because its time was over is complete, the       *)
(* remaining data included, unless a write failed, reader_func woke late   *)
(* or the last buffer was written twice.                                   *)
THEOREM TimeUpIsComplete == Spec => []CompleteOnTimeUp
<1>1. RecInv => CompleteOnTimeUp
  <2> SUFFICES ASSUME RecInv, main = "done", cause = "time", failed = <<>>, quit # "late"
               PROVE  written = [i \in 1 .. nread |-> i]
    BY DEF CompleteOnTimeUp
  <2>1. /\ Gone /\ rbuf = NULL /\ mbuf = NULL /\ dropped = {}
        /\ \A i \in 1 .. num_used : Contents[i] = NULL
    BY DoneIsGone DEF RecInv, GoneInv, ExitInv
  <2>2. /\ written \in Seq(Item) /\ NoNull(written) /\ Len(written) \in Nat /\ nread \in Nat
        /\ Contents \in Seq(Item) /\ Len(Contents) = num_used /\ num_used \in Nat
    BY FileHasNoNull, ContentsSeq DEF RecInv, Inv, TypeOK, QInv, QTypeOK
  <2>3. Way = written \o Contents
    <3>1. written \o Contents \in Seq(Item)
      BY <2>2, ConcatProperties
    <3> QED
      BY <2>1, <2>2, <3>1, ConcatEmptySeq DEF Way, Hand
  <2>4. /\ Way \in Seq(Item) /\ Len(Way) = Len(written) + num_used
        /\ \A i \in 1 .. Len(written) + num_used :
             Way[i] = IF i <= Len(written) THEN written[i] ELSE Contents[i - Len(written)]
    BY <2>2, <2>3, ConcatProperties
  <2>5. \A i \in 1 .. Len(written) : i \in 1 .. Len(Way) /\ Way[i] = written[i]
    BY <2>2, <2>4
  <2>6. \A i \in 1 .. Len(Way) : i \in 1 .. Len(written) \/ Way[i] = NULL
    <3> SUFFICES ASSUME NEW i \in 1 .. Len(Way), i \notin 1 .. Len(written)
                 PROVE  Way[i] = NULL
      OBVIOUS
    <3>1. i - Len(written) \in 1 .. num_used /\ ~(i <= Len(written)) /\ i \in 1 .. Len(written) + num_used
      BY <2>2, <2>4
    <3> QED
      BY <2>1, <2>4, <3>1
  <2>7. Ordered(Way, nread, {}) /\ Exact(Way)
    BY <2>1 DEF RecInv, FlowInv
  <2>8. Ordered(written, nread, {}) /\ Exact(written)
    <3>1. \A i \in 1 .. Len(written) : written[i] \in 1 .. nread /\ written[i] = i
      BY <2>2, <2>5, <2>7 DEF Ordered, Exact, NoNull
    <3>2. \A k \in 1 .. nread : \E i \in 1 .. Len(written) : written[i] = k
      <4> SUFFICES ASSUME NEW k \in 1 .. nread
                   PROVE  \E i \in 1 .. Len(written) : written[i] = k
        OBVIOUS
      <4>1. PICK i \in 1 .. Len(Way) : Way[i] = k
        BY <2>7 DEF Ordered
      <4> QED
        BY <2>5, <2>6, <4>1, ReadAssumption
    <3>3. \A i, j \in 1 .. Len(written) : i < j => written[i] # NULL /\ written[i] < written[j]
      BY <2>2, <3>1 DEF NoNull
    <3> QED
      BY <3>1, <3>2, <3>3 DEF Ordered, Exact
  <2>9. Len(written) = nread
    BY <2>2, <2>8, ExactLen
  <2>10. \A i \in 1 .. nread : written[i] = i
    BY <2>2, <2>8, <2>9 DEF Exact, NoNull
  <2>11. written = [i \in 1 .. Len(written) |-> written[i]]
    BY <2>2
  <2> QED
    BY <2>9, <2>10, <2>11
<1> QED
  BY <1>1, AlwaysRecInv, PTL

(* However f_exit was set, a recording that did not come to read the       *)
(* remaining data lacks at most the last buffer that was read, unless a    *)
(* write failed or reader_func woke late.                                  *)
THEOREM OneLostAtMost == Spec => []AtMostOneLost
<1>1. RecInv => AtMostOneLost
  <2> SUFFICES ASSUME RecInv, main = "done", ~stopping, failed = <<>>, quit # "late"
               PROVE  nread - Len(written) <= 1
    BY DEF AtMostOneLost
  <2>1. nread <= Len(written) + 1
    BY DoneIsGone DEF RecInv, GoneInv
  <2>2. Len(written) \in Nat /\ nread \in Nat
    BY FileHasNoNull DEF RecInv, Inv, TypeOK
  <2> QED
    BY <2>1, <2>2
<1> QED
  BY <1>1, AlwaysRecInv, PTL

=============================================================================
