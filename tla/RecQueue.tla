------------------------------ MODULE RecQueue ------------------------------
(***************************************************************************)
(* QUEUE_T, the ring of buffer pointers between the thread of recpt1 that  *)
(* reads the tuner and the thread that writes the recording                *)
(* (apps/cdev/recpt1/recpt1.h:20-30, recpt1.c:129-253).                    *)
(*                                                                         *)
(* Put and Take are the two critical sections, from the point where the    *)
(* wait loop has found room (an item) to the unlock.  p_queue->mutex is    *)
(* held over the whole of each, and nothing else writes these fields, so   *)
(* each is one step.  The wait loops, which give the mutex up and which    *)
(* the flag f_exit ends, belong to the threads: see Recorder.              *)
(***************************************************************************)
EXTENDS Naturals, Sequences

CONSTANTS
  Size,    (* p_queue->size; main() passes MAX_QUEUE, 8192               *)
  MaxRead, (* how many buffers a session reads (bounds a model, no more) *)
  NULL     (* the null pointer, which main queues to mark the end        *)

ASSUME SizeAssumption == Size \in Nat \ {0}
ASSUME ReadAssumption == MaxRead \in Nat /\ NULL \notin Nat

(* A BUFSZ is named by its number in the order of reading.                 *)
BufNo == 1 .. MaxRead

(* What is queued: BUFSZ pointers.                                         *)
Item == BufNo \cup {NULL}

VARIABLES
  in,         (* index of the next slot to fill                          *)
  out,        (* index of the next slot to empty                         *)
  num_avail,  (* free slots: 0 when the queue is full                    *)
  num_used,   (* filled slots: 0 when the queue is empty                 *)
  buffer      (* the slots                                               *)

qvars == <<in, out, num_avail, num_used, buffer>>

Slot == 0 .. Size - 1

(* calloc leaves both positions at the first slot.                         *)
create_queue ==
  /\ in = 0
  /\ out = 0
  /\ num_avail = Size
  /\ num_used = 0
  /\ buffer = [i \in Slot |-> NULL]

-----------------------------------------------------------------------------
\* Plausible slips in enqueue and dequeue, against which the properties are measured.

\* The position is not wrapped.
PutNoWrap(data) ==
  /\ num_avail # 0
  /\ buffer' = [buffer EXCEPT ![in] = data]
  /\ in' = in + 1
  /\ num_avail' = num_avail - 1
  /\ num_used' = num_used + 1
  /\ UNCHANGED out

\* One of the two counters is forgotten.
PutUncounted(data) ==
  /\ num_avail # 0
  /\ buffer' = [buffer EXCEPT ![in] = data]
  /\ in' = (in + 1) % Size
  /\ num_used' = num_used + 1
  /\ UNCHANGED <<out, num_avail>>

\* The position stops at the last slot.
TakeNoWrap ==
  /\ num_used # 0
  /\ out' = IF out + 1 = Size THEN out ELSE out + 1
  /\ num_avail' = num_avail + 1
  /\ num_used' = num_used - 1
  /\ UNCHANGED <<in, buffer>>

-----------------------------------------------------------------------------
(* enqueue, once there is room. *)
Put(data) ==
  /\ num_avail # 0
  /\ buffer' = [buffer EXCEPT ![in] = data]
  /\ in' = (in + 1) % Size
  /\ num_avail' = num_avail - 1
  /\ num_used' = num_used + 1
  /\ UNCHANGED out

(* The item dequeue returns. *)
Oldest == buffer[out]

(* dequeue, once there is an item. *)
Take ==
  /\ num_used # 0
  /\ out' = (out + 1) % Size
  /\ num_avail' = num_avail + 1
  /\ num_used' = num_used - 1
  /\ UNCHANGED <<in, buffer>>

-----------------------------------------------------------------------------
QTypeOK ==
  /\ in \in Slot
  /\ out \in Slot
  /\ num_avail \in 0 .. Size
  /\ num_used \in 0 .. Size
  /\ buffer \in [Slot -> Item]

(* The two counters and the two positions are four records of one fact,    *)
(* how many items the ring holds and where.  enqueue tests one counter,    *)
(* dequeue, reader_func and mq_recv the other, and the positions are never *)
(* compared: they must agree in every state.                               *)
QConsistent ==
  /\ num_avail + num_used = Size
  /\ in = (out + num_used) % Size

(* The queued items, oldest first. *)
Contents == [i \in 1 .. num_used |-> buffer[(out + i - 1) % Size]]

(* The ring is a bounded FIFO queue. *)
Queue == INSTANCE Fifo WITH Items <- Item, Capacity <- Size, q <- Contents

QueueIsFifo == Queue!Spec

=============================================================================
