------------------------------ MODULE PxqCard ------------------------------
(***************************************************************************)
(* A PX-Q3PE board under the character-device driver pxq3pe_dtv.c: open    *)
(* and release with the switching of the LNB, START_REC and STOP_REC with  *)
(* the DMA of the port, and the interrupt handler that takes the buffers   *)
(* of two ports with two channels each.  The DVB driver pxq3pe_pci.c holds *)
(* the same handler and the same DMA functions.                            *)
(*                                                                         *)
(* Adapters 0 .. PerPort - 1 are on port 1, the others on port 0.  The     *)
(* board is modelled as the driver uses it: a channel that was started     *)
(* fills its buffer, sets its bit in PXQ3PE_INT_STAT and waits to be       *)
(* started again.                                                          *)
(***************************************************************************)
EXTENDS Integers, Sequences, FiniteSets

CONSTANTS
  PerPort,    \* adapters of a port, 4 in the code
  Procs,      \* recording processes
  MaxSession  \* bound: opens

ASSUME PxqCardAssumption == PerPort \in Nat \ {0} /\ MaxSession \in Nat

adapn == 2 * PerPort
Adaps == 0 .. adapn - 1
Ports == {0, 1}
Chans == {0, 1}
Port(a) == 1 - a \div PerPort
SamePort(a, b) == a \div PerPort = b \div PerPort
IsSat(a) == a % 2 = 1      \* SYS_ISDBS

VARIABLES
  ON,         \* adap[].ON
  lnb,        \* card->lnb
  pin,        \* the pin that powers the LNB
  dmaON,      \* card->dma.ON[port]
  chan,       \* chan[port][ch]: "off", "filling", "full"
  stat,       \* bits set in PXQ3PE_INT_STAT, as pairs <<port, ch>>
  handler,    \* the interrupt handler
  proc,       \* the recording processes: the adapter, the file, the call
  \* history, read by properties and bounds only
  sessions,
  overlap,    \* two opens or releases were in progress at once
  unheard,    \* a write to the pin has failed
  collided,   \* the handler read more than one bit
  early       \* a buffer was handled before its port was marked ON

board == <<chan, stat, handler>>
caught == <<sessions, overlap, unheard, collided, early>>
pcVars == <<ON, lnb, pin, dmaON, board, proc, caught>>

\* at: the next step of its call; open: it holds the file; streaming:
\* START_REC without STOP_REC.
Closed == [at |-> "idle", a |-> 0, open |-> FALSE, streaming |-> FALSE,
           lnb |-> FALSE, todo |-> <<>>]
NoIrqHere == [at |-> "idle", port |-> 0, ch |-> 0]

\* The end of pxq3pe_probe: card->lnb = true; tc90522_lnb(card).
PcInit ==
  /\ ON = [a \in Adaps |-> FALSE]
  /\ lnb = FALSE /\ pin = FALSE
  /\ dmaON = [p \in Ports |-> FALSE]
  /\ chan = [p \in Ports |-> [c \in Chans |-> "off"]]
  /\ stat = {} /\ handler = NoIrqHere
  /\ proc = [u \in Procs |-> Closed]
  /\ sessions = 0 /\ overlap = FALSE /\ unheard = FALSE
  /\ collided = FALSE /\ early = FALSE

Busy == \E u \in Procs : proc[u].at \in {"take", "lnb", "write", "mark"}

-----------------------------------------------------------------------------
(* pxq3pe_open and pxq3pe_release; tc90522_lnb at their end.               *)

\* The device is not in use.  No lock is held from here to OpenTake.
OpenTest(u, a) ==
  /\ proc[u] = Closed /\ sessions < MaxSession
  /\ ~ON[a]                                    \* else -EIO
  /\ proc' = [proc EXCEPT ![u].at = "take", ![u].a = a]
  /\ sessions' = sessions + 1
  /\ overlap' = (overlap \/ Busy)
  /\ UNCHANGED <<ON, lnb, pin, dmaON, board, unheard, collided, early>>

OpenTake(u) ==
  /\ proc[u].at = "take"
  /\ ON' = [ON EXCEPT ![proc[u].a] = TRUE]
  /\ proc' = [proc EXCEPT ![u].at = "lnb", ![u].open = TRUE]
  /\ UNCHANGED <<lnb, pin, dmaON, board, caught>>

\* A recorder may also be killed: release comes without STOP_REC, and leaves
\* the DMA of the port on.
Release(u) ==
  /\ proc[u].at = "idle" /\ proc[u].open
  /\ ON' = [ON EXCEPT ![proc[u].a] = FALSE]
  /\ overlap' = (overlap \/ Busy)
  /\ proc' = [proc EXCEPT ![u] = [Closed EXCEPT !.at = "lnb", !.a = proc[u].a]]
  /\ UNCHANGED <<lnb, pin, dmaON, board, sessions, unheard, collided, early>>

\* Mutant: any adapter counts, whichever broadcast it receives.
AnyAdapter == \E b \in Adaps : ON[b]

SatInUse == \E b \in Adaps : IsSat(b) /\ ON[b]

CallEnd(u) == IF proc[u].open THEN [proc[u] EXCEPT !.at = "idle"] ELSE Closed

LnbLook(u) ==
  /\ proc[u].at = "lnb"
  /\ proc' = [proc EXCEPT ![u].lnb = SatInUse, ![u].at = "write"]
  /\ UNCHANGED <<ON, lnb, pin, dmaON, board, caught>>

LnbAsItIs(u) ==
  /\ proc[u].at = "write" /\ lnb = proc[u].lnb
  /\ proc' = [proc EXCEPT ![u] = CallEnd(u)]
  /\ UNCHANGED <<ON, lnb, pin, dmaON, board, caught>>

\* pxq3pe_w_gpio2, a read and a write over I2C: its result is not looked at.
LnbWrite(u) ==
  /\ proc[u].at = "write" /\ lnb # proc[u].lnb
  /\ \/ pin' = proc[u].lnb /\ UNCHANGED unheard
     \/ unheard' = TRUE /\ UNCHANGED pin
  /\ proc' = [proc EXCEPT ![u].at = "mark"]
  /\ UNCHANGED <<ON, lnb, dmaON, board, sessions, overlap, collided, early>>

LnbMark(u) ==
  /\ proc[u].at = "mark"
  /\ lnb' = proc[u].lnb
  /\ proc' = [proc EXCEPT ![u] = CallEnd(u)]
  /\ UNCHANGED <<ON, pin, dmaON, board, caught>>

-----------------------------------------------------------------------------
(* pxq3pe_dma_start and pxq3pe_dma_stop.  The ring is in PxqStream.        *)

StartSteps == << <<"enable">>, <<"ch", 0>>, <<"ch", 1>>, <<"on">> >>

\* Nothing more is done when the port runs already.
StartRec(u) ==
  /\ proc[u].at = "idle" /\ proc[u].open /\ ~proc[u].streaming
  /\ proc' = [proc EXCEPT ![u].streaming = TRUE, ![u].at = "dma",
                ![u].todo = IF dmaON[Port(proc[u].a)] THEN <<>> ELSE StartSteps]
  /\ UNCHANGED <<ON, lnb, pin, dmaON, board, caught>>

StartStep(u) ==
  /\ proc[u].at = "dma" /\ proc[u].todo # <<>>
  /\ LET what == Head(proc[u].todo)
         p == Port(proc[u].a)
     IN /\ chan' = IF what[1] = "ch" THEN [chan EXCEPT ![p][what[2]] = "filling"]
                   ELSE chan
        /\ dmaON' = IF what[1] = "on" THEN [dmaON EXCEPT ![p] = TRUE] ELSE dmaON
        \* The interrupt cannot be enabled: false, which the ioctl ignores.
        /\ \/ proc' = [proc EXCEPT ![u].todo = Tail(@)]
           \/ what[1] = "enable" /\ proc' = [proc EXCEPT ![u].todo = <<>>]
  /\ UNCHANGED <<ON, lnb, pin, stat, handler, caught>>

StartEnd(u) ==
  /\ proc[u].at = "dma" /\ proc[u].todo = <<>>
  /\ proc' = [proc EXCEPT ![u].at = "idle"]
  /\ UNCHANGED <<ON, lnb, pin, dmaON, board, caught>>

\* Mutant: the port is stopped without a look at the other adapters.
NobodyElse(a) == dmaON[Port(a)]

\* The loop returns at the first adapter of the port that is not a itself,
\* whether that one records or not.
MayStop(a) == \A i \in Adaps : dmaON[Port(a)] /\ ~(i # a /\ SamePort(i, a))

StopRec(u) ==
  /\ proc[u].at = "idle" /\ proc[u].open /\ proc[u].streaming
  /\ proc' = [proc EXCEPT ![u].streaming = FALSE]
  /\ dmaON' = IF MayStop(proc[u].a)
              THEN [dmaON EXCEPT ![Port(proc[u].a)] = FALSE] ELSE dmaON
  /\ UNCHANGED <<ON, lnb, pin, board, caught>>

-----------------------------------------------------------------------------
(* The board, and pxq3pe_irq.                                              *)

Fill(p, c) ==
  /\ chan[p][c] = "filling"
  /\ chan' = [chan EXCEPT ![p][c] = "full"]
  /\ stat' = stat \union {<<p, c>>}
  /\ UNCHANGED <<ON, lnb, pin, dmaON, handler, proc, caught>>

\* Mutant: the mask of the ports is used for the channels.
ChByPort(bits) == IF \E c \in Chans : <<0, c>> \in bits THEN 0 ELSE 1

\* ch = stat & 0b0101 ? 0 : 1; port = stat & 0b0011 ? 0 : 1.
ChOf(bits) == IF \E p \in Ports : <<p, 0>> \in bits THEN 0 ELSE 1
PortOf(bits) == IF \E c \in Chans : <<0, c>> \in bits THEN 0 ELSE 1

\* All bits are read and cleared, one buffer is looked at.
IrqBegin ==
  /\ handler.at = "idle" /\ stat # {}
  /\ handler' = [at |-> "take", port |-> PortOf(stat), ch |-> ChOf(stat)]
  /\ stat' = {}
  /\ collided' = (collided \/ Cardinality(stat) > 1)
  /\ UNCHANGED <<ON, lnb, pin, dmaON, chan, proc, sessions, overlap, unheard,
                 early>>

\* The packets go to their adapters, and the channel is started again.
IrqEnd ==
  /\ handler.at = "take"
  /\ chan' = IF dmaON[handler.port]
             THEN [chan EXCEPT ![handler.port][handler.ch] = "filling"] ELSE chan
  /\ early' = (early \/ ~dmaON[handler.port])
  /\ handler' = NoIrqHere
  /\ UNCHANGED <<ON, lnb, pin, dmaON, stat, proc, sessions, overlap, unheard,
                 collided>>

PcNext ==
  \/ \E u \in Procs : \/ \E a \in Adaps : OpenTest(u, a)
                      \/ OpenTake(u) \/ Release(u)
                      \/ LnbLook(u) \/ LnbAsItIs(u) \/ LnbWrite(u) \/ LnbMark(u)
                      \/ StartRec(u) \/ StartStep(u) \/ StartEnd(u) \/ StopRec(u)
  \/ \E p \in Ports, c \in Chans : Fill(p, c)
  \/ IrqBegin \/ IrqEnd

PcSpec == PcInit /\ [][PcNext]_pcVars
-----------------------------------------------------------------------------
(* While no two opens or releases overlap, no adapter is held by two       *)
(* processes and the LNB is supplied exactly as long as one holds a        *)
(* satellite adapter; the pin too, unless a write to it has failed: the    *)
(* driver marks it as done and does not write again.                       *)
LnbFollowsUse ==
  ~overlap /\ ~Busy =>
    /\ \A u, v \in Procs : u # v /\ proc[u].open /\ proc[v].open
                         => proc[u].a # proc[v].a
    /\ lnb <=> \E u \in Procs : proc[u].open /\ IsSat(proc[u].a)
    /\ unheard \/ pin = lnb

(* Each buffer of a port that is on is being filled, or its bit is set, or *)
(* the handler holds it: no channel is forgotten.  Except when the handler *)
(* reads two bits at once, it clears both and starts one channel again, or *)
(* when a buffer is full before dma_start has marked the port.             *)
NoChannelStalls ==
  ~collided /\ ~early =>
    \A p \in Ports, c \in Chans :
      dmaON[p] => \/ chan[p][c] = "filling"
                  \/ <<p, c>> \in stat
                  \/ handler.at = "take" /\ handler.port = p /\ handler.ch = c

(* No STOP_REC takes the stream from another recording on the same port.   *)
OthersKeepStream ==
  [][\A u \in Procs :
       dmaON[Port(proc[u].a)] /\ proc[u].streaming /\ proc'[u].streaming
         => dmaON'[Port(proc[u].a)]]_pcVars
=============================================================================
