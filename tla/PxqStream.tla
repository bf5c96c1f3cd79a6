----------------------------- MODULE PxqStream -----------------------------
(***************************************************************************)
(* The stream buffer of one adapter of the PX-Q3PE drivers: the interrupt  *)
(* handler collects packets in tBuf and puts them into the ring sBuf; the  *)
(* character device (pxq3pe_dtv.c) empties the ring in read(), the DVB     *)
(* driver (pxq3pe_pci.c) in a kernel thread that decodes it in place; both *)
(* reset the ring when a recording starts.  The handler takes no lock, so  *)
(* every load and store of the shared fields is a step.                    *)
(*                                                                         *)
(* Lengths are in packets.  A packet is its number in the order received.  *)
(***************************************************************************)
EXTENDS Integers, Sequences, FiniteSets

CONSTANTS
  TLen,      \* packets of a transfer, PKT_BUFLEN / 188 = 312
  SLen,      \* packets of the ring, 100 << 9
  RLen,      \* packets of a read
  Word,      \* the counter wraps here, 2^32 bytes in the code
  MaxPkt,    \* bound: packets received
  MaxStart   \* bound: starts

ASSUME PxqStreamAssumption ==
  /\ TLen \in Nat \ {0} /\ SLen \in Nat /\ RLen \in Nat \ {0}
  /\ TLen <= SLen /\ RLen <= SLen /\ Word > 2 * SLen /\ Word \in Nat
  /\ MaxPkt \in Nat /\ MaxStart \in Nat

VARIABLES
  driver,     \* "cdev" or "dvb"
  tBuf,       \* packets collected by the handler
  sBuf,       \* the ring: packet number and how often it was decoded
  sBufStart, sBufStop, sBufByteCnt,
  irq,        \* the handler: what it does next, its load of the counter
  rdr,        \* read() or the thread
  starts,     \* what is left of the start in progress
  \* history, read by properties and bounds only
  got,        \* packets received
  begun,      \* starts made
  base,       \* packets received when the ring was last reset
  want,       \* the packet the reader should get next
  gap,        \* it got another one
  old,        \* packets it got that are older than base
  twice,      \* it got one that was not decoded exactly once
  outside,    \* it copied from outside the ring
  over,       \* the handler copied or counted when the ring had no room
  reset,      \* a start met the handler or the reader at work
  lost        \* an update of the counter was overwritten

fields == <<sBufStart, sBufStop, sBufByteCnt>>
verdict == <<want, gap, old, twice, outside>>
psVars == <<driver, tBuf, sBuf, fields, irq, rdr, starts, got, begun, base,
            verdict, over, reset, lost>>

Slots == 0 .. SLen - 1
Lesser(a, b) == IF a <= b THEN a ELSE b
NoReader == [at |-> "idle", sz |-> 0, from |-> 0, cnt |-> 0]
NoIrq == [at |-> "idle", cnt |-> 0]

PsInit ==
  /\ driver \in {"cdev", "dvb"}
  /\ tBuf = <<>>
  /\ sBuf = [i \in Slots |-> [n |-> 0, dec |-> 0]]
  /\ sBufStart = 0 /\ sBufStop = 0 /\ sBufByteCnt = 0
  /\ irq = NoIrq /\ rdr = NoReader /\ starts = <<>>
  /\ got = 0 /\ begun = 0 /\ base = 0 /\ want = 1
  /\ gap = FALSE /\ old = 0 /\ twice = FALSE /\ outside = FALSE
  /\ over = FALSE /\ reset = FALSE /\ lost = FALSE

-----------------------------------------------------------------------------
(* pxq3pe_irq and its pxq3pe_dma_put_stream.                               *)

Receive ==
  /\ irq.at = "idle" /\ got < MaxPkt
  /\ got' = got + 1
  /\ tBuf' = Append(tBuf, got + 1)
  /\ irq' = [irq EXCEPT !.at = IF Len(tBuf) + 1 >= TLen THEN "copy" ELSE "idle"]
  /\ reset' = (reset \/ starts # <<>>)
  /\ UNCHANGED <<driver, sBuf, fields, rdr, starts, begun, base, verdict,
                 over, lost>>

\* Mutant: the second memcpy starts again at the beginning of tBuf.
SourceAgain(i) == IF i >= sBufStop THEN i - sBufStop
                  ELSE IF i < TLen - (SLen - sBufStop) THEN i ELSE TLen

\* The two memcpy: what does not fit at the end goes to the beginning; the
\* packet of tBuf for slot i, from 0, none from TLen on.
Source(i) == IF i >= sBufStop THEN i - sBufStop ELSE SLen - sBufStop + i

CopyIn ==
  /\ irq.at = "copy"
  /\ sBuf' = [i \in Slots |-> IF Source(i) < TLen
                              THEN [n |-> tBuf[Source(i) + 1], dec |-> 0]
                              ELSE sBuf[i]]
  /\ irq' = [irq EXCEPT !.at = "stop"]
  /\ over' = (over \/ sBufByteCnt + TLen > SLen)    \* tested only later
  /\ UNCHANGED <<driver, tBuf, fields, rdr, starts, got, begun, base, verdict,
                 reset, lost>>

\* Mutant: the position does not wrap.
PastEnd(pos, n) == pos + n

Past(pos, n) == (pos + n) % SLen

MoveStop ==
  /\ irq.at = "stop"
  /\ sBufStop' = Past(sBufStop, TLen)
  /\ irq' = [irq EXCEPT !.at = "count"]
  /\ UNCHANGED <<driver, tBuf, sBuf, sBufStart, sBufByteCnt, rdr, starts, got,
                 begun, base, verdict, over, reset, lost>>

\* Mutant: a ring without room for the transfer is not recognised as full.
HasSlot == sBufByteCnt < SLen

HasRoom == SLen >= (sBufByteCnt + TLen) % Word /\ sBufByteCnt # SLen

\* Room: the counter is loaded to be increased.
CountIn ==
  /\ irq.at = "count" /\ HasRoom
  /\ irq' = [at |-> "add", cnt |-> sBufByteCnt]
  /\ UNCHANGED <<driver, tBuf, sBuf, fields, rdr, starts, got, begun, base,
                 verdict, over, reset, lost>>

\* No room: the oldest packets are given up.
CountFull ==
  /\ irq.at = "count" /\ ~HasRoom
  /\ sBufStart' = sBufStop
  /\ over' = TRUE
  /\ irq' = [at |-> "full", cnt |-> sBufByteCnt]
  /\ UNCHANGED <<driver, tBuf, sBuf, sBufStop, sBufByteCnt, rdr, starts, got,
                 begun, base, verdict, reset, lost>>

\* The counter is stored; tBufIdx = 0 ends the handling of the transfer.
StoreIn ==
  /\ irq.at \in {"add", "full"}
  /\ sBufByteCnt' = IF irq.at = "full" THEN SLen ELSE (irq.cnt + TLen) % Word
  /\ lost' = (lost \/ (irq.at = "add" /\ irq.cnt # sBufByteCnt))
  /\ tBuf' = <<>>
  /\ irq' = NoIrq
  /\ UNCHANGED <<driver, sBuf, sBufStart, sBufStop, rdr, starts, got, begun,
                 base, verdict, over, reset>>

-----------------------------------------------------------------------------
(* pxq3pe_dma_start / pxq3pe_dma: three stores, under no lock.             *)

\* Mutant: the position at which the handler writes is forgotten.
TwoFields == <<"count", "start">>

RingFields == <<"count", "stop", "start">>

Start ==
  /\ starts = <<>> /\ begun < MaxStart
  /\ starts' = RingFields
  /\ begun' = begun + 1
  /\ over' = FALSE /\ lost' = FALSE /\ gap' = FALSE /\ outside' = FALSE
  /\ twice' = FALSE /\ old' = 0
  /\ reset' = (irq.at # "idle" \/ rdr.at # "idle")
  /\ UNCHANGED <<driver, tBuf, sBuf, fields, irq, rdr, got, base, want>>

ResetField ==
  /\ starts # <<>>
  /\ CASE Head(starts) = "count" -> sBufByteCnt' = 0 /\ UNCHANGED <<sBufStop, sBufStart>>
       [] Head(starts) = "stop" -> sBufStop' = 0 /\ UNCHANGED <<sBufByteCnt, sBufStart>>
       [] Head(starts) = "start" -> sBufStart' = 0 /\ UNCHANGED <<sBufByteCnt, sBufStop>>
  /\ starts' = Tail(starts)
  /\ reset' = (reset \/ irq.at # "idle" \/ rdr.at # "idle")
  /\ base' = got
  /\ want' = got - Len(tBuf) + 1     \* tBuf is not emptied
  /\ UNCHANGED <<driver, tBuf, sBuf, irq, rdr, got, begun, gap, old, twice,
                 outside, over, lost>>

-----------------------------------------------------------------------------
(* pxq3pe_read: the room to the end of the ring is computed and the        *)
(* counter tested before the mutex is taken.                               *)

ReadBegin ==
  /\ driver = "cdev" /\ rdr.at = "idle"
  /\ sBufByteCnt >= RLen                      \* else nothing is read
  /\ rdr' = [NoReader EXCEPT !.at = "copy", !.sz = SLen - sBufStart]
  /\ reset' = (reset \/ starts # <<>>)
  /\ UNCHANGED <<driver, tBuf, sBuf, fields, irq, starts, got, begun, base,
                 verdict, over, lost>>

\* What the reader is handed: the packets at a sequence of slots; outside the
\* ring there is none.
Hand(slots, times) ==
  LET inside == \A k \in DOMAIN slots : slots[k] \in Slots
      packet(k) == sBuf[slots[k]]
  IN /\ outside' = (outside \/ ~inside)
     /\ gap' = (gap \/ ~inside \/ \E k \in DOMAIN slots : packet(k).n # want + k - 1)
     /\ twice' = (twice \/ ~inside \/ \E k \in DOMAIN slots : packet(k).dec + times # 1)
     /\ want' = IF inside THEN packet(Len(slots)).n + 1 ELSE want
     /\ old' = IF inside
               THEN Lesser(TLen, old + Cardinality({k \in DOMAIN slots : packet(k).n <= base}))
               ELSE old

\* Mutant: the wrap is forgotten.
ReadSlotsStraight(start, sz) == [k \in 1 .. RLen |-> start + k - 1]

ReadSlots(start, sz) ==
  [k \in 1 .. RLen |-> IF RLen <= sz \/ k <= sz THEN start + k - 1 ELSE k - 1 - sz]

\* The copy, decoded afterwards in the caller's buffer.
ReadCopy ==
  /\ driver = "cdev" /\ rdr.at = "copy"
  /\ Hand(ReadSlots(sBufStart, rdr.sz), 1)
  /\ rdr' = [rdr EXCEPT !.at = "move", !.sz = RLen]
  /\ UNCHANGED <<driver, tBuf, sBuf, fields, irq, starts, got, begun, base,
                 over, reset, lost>>

-----------------------------------------------------------------------------
(* pxq3pe_thread.                                                          *)

ThreadBegin ==
  /\ driver = "dvb" /\ rdr.at = "idle"
  /\ sBufByteCnt # 0                          \* else it sleeps
  /\ rdr' = [NoReader EXCEPT !.at = "decode", !.from = sBufStart,
                             !.sz = Lesser(SLen - sBufStart, sBufByteCnt)]
  /\ reset' = (reset \/ starts # <<>>)
  /\ UNCHANGED <<driver, tBuf, sBuf, fields, irq, starts, got, begun, base,
                 verdict, over, lost>>

Decode ==
  /\ driver = "dvb" /\ rdr.at = "decode"
  /\ sBuf' = [i \in Slots |-> IF i \in rdr.from .. rdr.from + rdr.sz - 1
                              THEN [sBuf[i] EXCEPT !.dec = Lesser(2, @ + 1)]
                              ELSE sBuf[i]]
  /\ rdr' = [rdr EXCEPT !.at = "filter"]
  /\ UNCHANGED <<driver, tBuf, fields, irq, starts, got, begun, base, verdict,
                 over, reset, lost>>

\* dvb_dmx_swfilter.
Filter ==
  /\ driver = "dvb" /\ rdr.at = "filter"
  /\ Hand([k \in 1 .. rdr.sz |-> rdr.from + k - 1], 0)
  /\ rdr' = [rdr EXCEPT !.at = "move"]
  /\ UNCHANGED <<driver, tBuf, sBuf, fields, irq, starts, got, begun, base,
                 over, reset, lost>>

\* Both drivers: the start moves, the counter is decreased.
MoveStart ==
  /\ rdr.at = "move"
  /\ sBufStart' = Past(sBufStart, rdr.sz)
  /\ rdr' = [rdr EXCEPT !.at = "load"]
  /\ UNCHANGED <<driver, tBuf, sBuf, sBufStop, sBufByteCnt, irq, starts, got,
                 begun, base, verdict, over, reset, lost>>

LoadOut ==
  /\ rdr.at = "load"
  /\ rdr' = [rdr EXCEPT !.at = "store", !.cnt = sBufByteCnt]
  /\ UNCHANGED <<driver, tBuf, sBuf, fields, irq, starts, got, begun, base,
                 verdict, over, reset, lost>>

StoreOut ==
  /\ rdr.at = "store"
  /\ sBufByteCnt' = (rdr.cnt + Word - rdr.sz) % Word
  /\ lost' = (lost \/ rdr.cnt # sBufByteCnt)
  /\ rdr' = NoReader
  /\ UNCHANGED <<driver, tBuf, sBuf, sBufStart, sBufStop, irq, starts, got,
                 begun, base, verdict, over, reset>>

PsNext ==
  \/ Receive \/ CopyIn \/ MoveStop \/ CountIn \/ CountFull \/ StoreIn
  \/ Start \/ ResetField
  \/ ReadBegin \/ ReadCopy \/ ThreadBegin \/ Decode \/ Filter
  \/ MoveStart \/ LoadOut \/ StoreOut

PsSpec == PsInit /\ [][PsNext]_psVars
-----------------------------------------------------------------------------
PsTypeOK ==
  /\ driver \in {"cdev", "dvb"}
  /\ tBuf \in Seq(1 .. MaxPkt) /\ Len(tBuf) <= TLen
  /\ sBufStart \in Slots /\ sBufStop \in Slots /\ sBufByteCnt \in 0 .. Word - 1
  /\ rdr.sz \in 0 .. SLen

(* As long as the handler met no ring without room, no start came          *)
(* between two steps of the handler or the reader, and no update of        *)
(* sBufByteCnt was overwritten by the other side, the reader gets every    *)
(* packet once, in order, across the wraps of both positions, and decoded  *)
(* exactly once.  pxq3pe_dma_put_stream, pxq3pe_read, pxq3pe_thread.       *)
RingInOrder == ~over /\ ~reset /\ ~lost => ~gap /\ ~twice

(* Whatever the other side does to the counter, a copy stays inside the    *)
(* ring unless the handler moved sBufStart or a start cleared it under the *)
(* reader: the room to the end, computed before the lock, is then stale.   *)
InsideRing == ~over /\ ~reset => ~outside

(* The counter exceeds the ring, and in the end wraps, only after a start  *)
(* between the reader's test of it and its subtraction; the next start     *)
(* clears it.                                                              *)
CounterFits == ~reset /\ starts # RingFields => sBufByteCnt <= SLen

(* A start leaves at most one unfinished transfer of the channel received  *)
(* before it in what is read: tBufIdx is not reset.                        *)
OldIsBounded == ~over /\ ~reset /\ ~lost => old < TLen
=============================================================================
