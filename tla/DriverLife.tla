----------------------------- MODULE DriverLife ----------------------------
(***************************************************************************)
(* The drivers of the repository from probe to remove: any step that can   *)
(* fail fails, once or several times, the driver goes where its code goes, *)
(* and what it has taken, used and given back is counted.  Between probe   *)
(* and remove recorders start streams; the drivers are removed when no     *)
(* file is open.                                                           *)
(*                                                                         *)
(* A NULL pointer used ends the behaviour; memory used or given back after *)
(* it was given back is noted, and the driver goes on.                     *)
(***************************************************************************)
EXTENDS PtxLife, CdevLife, Em28xxLife, TLC, FiniteSets

Em28xxBoards == DOMAIN BoardInit
Drivers == {"pt3_pci", "pxq3pe_pci", "pt3_dtv", "pxq3pe_dtv", "audio"} \union Em28xxBoards

ProbeOf(d) ==
  CASE d = "pt3_pci" -> Pt3Probe
    [] d = "pxq3pe_pci" -> PxqProbe
    [] d = "pt3_dtv" -> Pt3InitOne
    [] d = "pxq3pe_dtv" -> PxqProbeCdev
    [] d = "audio" -> AudioProbe
    [] OTHER -> UsbProbe(d)
RemoveOf(d) ==
  CASE d = "pt3_pci" -> Pt3Remove
    [] d = "pxq3pe_pci" -> PxqRemove
    [] d = "pt3_dtv" -> Pt3RemoveOne
    [] d = "pxq3pe_dtv" -> PxqRemoveCdev
    [] OTHER -> Disconnect

VARIABLES
  drv,      \* the driver
  phase,    \* "probe", "live", "remove", "failed", "gone", "crashed"
  ahead,    \* the steps ahead
  held,     \* what the driver has
  gone,     \* what it has given back and still points to
  wrong,    \* uses and releases of what was given back, as pairs
  failures  \* the steps that have failed

dlVars == <<drv, phase, ahead, held, gone, wrong, failures>>

Phases == {"probe", "live", "remove", "failed", "gone", "crashed"}
Running == phase \in {"probe", "remove"} /\ ahead # <<>>
now == Head(ahead)

DlInit ==
  /\ drv \in Drivers /\ phase = "probe" /\ ahead = ProbeOf(drv)
  /\ held = {} /\ gone = {} /\ wrong = {} /\ failures = {}

Go(next) == ahead' = next \o Tail(ahead) /\ UNCHANGED <<drv, phase>>
GoTo(next) == ahead' = next /\ UNCHANGED <<drv, phase>>

Take == /\ Running /\ now.do \in {"get", "set", "try"}
        /\ held' = held \union {now.r} /\ gone' = gone \ {now.r}
        /\ Go(IF now.do = "try" THEN now.alt ELSE <<>>)
        /\ UNCHANGED <<wrong, failures>>

\* An allocation, a registration, a transfer or a test fails.
TakeFails == /\ Running /\ now.do \in {"get", "must", "try"}
             /\ failures' = failures \union {now.r}
             /\ IF now.do = "try" THEN Go(<<>>) ELSE GoTo(now.alt)
             /\ UNCHANGED <<held, gone, wrong>>

Works == /\ Running /\ now.do = "must"
         /\ Go(<<>>) /\ UNCHANGED <<held, gone, wrong, failures>>

\* A pointer that dangles is not NULL.
Test == /\ Running /\ now.do \in {"need", "when"}
        /\ IF now.do = "when"
           THEN Go(IF now.r \in held \union gone THEN now.alt ELSE <<>>)
           ELSE IF now.r \in held THEN Go(<<>>) ELSE GoTo(now.alt)
        /\ UNCHANGED <<held, gone, wrong, failures>>

Touch == /\ Running /\ now.do = "use"
         /\ now.r \in held \union gone
         /\ wrong' = IF now.r \in held THEN wrong ELSE wrong \union {<<"used", now.r>>}
         /\ Go(<<>>) /\ UNCHANGED <<held, gone, failures>>

Crash == /\ Running /\ now.do = "use" /\ now.r \notin held \union gone
         /\ phase' = "crashed" /\ ahead' = <<>>
         /\ UNCHANGED <<drv, held, gone, wrong, failures>>

GiveBack == /\ Running /\ now.do = "put"
            /\ held' = held \ {now.r} /\ gone' = gone \union {now.r}
            /\ wrong' = IF now.r \in held THEN wrong ELSE wrong \union {<<"released", now.r>>}
            /\ Go(<<>>) /\ UNCHANGED failures

Forget == /\ Running /\ now.do = "clear"
          /\ held' = held \ {now.r} /\ gone' = gone \ {now.r}
          /\ Go(<<>>) /\ UNCHANGED <<wrong, failures>>

ProbeFails == /\ Running /\ now.do = "fail"
              /\ phase' = "failed" /\ ahead' = <<>>
              /\ UNCHANGED <<drv, held, gone, wrong, failures>>

ProbeEnds == /\ phase = "probe" /\ ahead = <<>>
             /\ phase' = "live" /\ UNCHANGED <<drv, ahead, held, gone, wrong, failures>>

RemoveBegins == /\ phase = "live"
                /\ phase' = "remove" /\ ahead' = RemoveOf(drv)
                /\ UNCHANGED <<drv, held, gone, wrong, failures>>

RemoveEnds == /\ phase = "remove" /\ ahead = <<>>
              /\ phase' = "gone" /\ UNCHANGED <<drv, ahead, held, gone, wrong, failures>>

\* The memory the DMA engine of an adapter writes to.
EngineMemory(i) ==
  IF drv \in {"pxq3pe_pci", "pxq3pe_dtv"} THEN {Board("dma")}
  ELSE {<<"ts page 1", i>>, <<"ts page 2", i>>, <<"desc page 1", i>>, <<"desc page 2", i>>}
IsPxq == drv \in {"pxq3pe_pci", "pxq3pe_dtv"}

\* A recorder starts a stream: in pt3_dtv through a channel's device, in
\* pxq3pe_dtv as soon as the device is there, which is before the probe is
\* over.  Its end stops the engine, but not that of a PX-Q3PE.
StreamStarts(i) ==
  /\ drv \in {"pt3_pci", "pxq3pe_pci", "pt3_dtv", "pxq3pe_dtv"}
  /\ \/ phase = "live"
     \/ drv = "pxq3pe_dtv" /\ phase = "probe" /\ {<<"cdev", i>>, Board("bar")} \subseteq held
  /\ <<"engine", i>> \notin held
  /\ held' = held \union {<<"engine", i>>}
  /\ failures' = IF phase = "live" THEN failures ELSE failures \union {Board("started early")}
  /\ UNCHANGED <<drv, phase, ahead, gone, wrong>>

StreamEnds(i) ==
  /\ phase = "live" /\ <<"engine", i>> \in held /\ ~IsPxq
  /\ held' = held \ {<<"engine", i>>}
  /\ UNCHANGED <<drv, phase, ahead, gone, wrong, failures>>

\* A driver may be taken off its board while streams run.
DlNext ==
  \/ Take \/ TakeFails \/ Works \/ Test \/ Touch \/ Crash \/ GiveBack \/ Forget
  \/ ProbeFails \/ ProbeEnds \/ RemoveBegins \/ RemoveEnds
  \/ \E i \in 1 .. Units : StreamStarts(i) \/ StreamEnds(i)

DlSpec == DlInit /\ [][DlNext]_dlVars

-----------------------------------------------------------------------------
Engines == {<<"engine", i>> : i \in 1 .. Units}
OfAdapters(names) == names \X (1 .. Units)
OfBoard(names) == names \X {0}

\* The failures that do harm: a leak, a use of freed memory, or a crash.
Harmful ==
  CASE drv = "pxq3pe_pci" ->
         OfBoard({"card", "pci", "dma mask", "regions", "config", "master", "bar"})
    [] drv = "pxq3pe_dtv" ->
         OfBoard({"pci", "dma mask", "regions", "master", "bar", "numbers", "i2c", "free slot", "adap"})
         \union OfAdapters({"sBuf", "demod priv"})
    [] drv = "pt3_dtv" ->
         OfBoard({"numbers"})
         \union OfAdapters({"tc_s", "qm", "tc_t", "mx", "new channel", "dma", "ts_info", "desc_info",
                            "ts page 1", "ts page 2", "desc page 1", "desc page 2"})
    [] drv = "pt3_pci" ->
         OfBoard({"dma mask", "regions", "config", "revision", "bar_reg", "bar_mem", "fpga", "i2c", "flush", "power"})
         \union OfAdapters({"ts_info", "desc_info", "ts page 1", "ts page 2", "desc page 1", "desc page 2", "dvb",
                            "demux", "dmxdev", "fe", "demod", "tuner", "frontend"})
    [] OTHER -> {}

Clean == phase # "crashed" /\ wrong = {} /\ held \subseteq Engines

\* A probe that fails gives back what it has taken, touches nothing it does
\* not have and leaves the machine running, whatever fails and however much:
\* but for the failures of Harmful, and each of those does harm.
CleanAbort ==
  phase \in {"failed", "crashed"} =>
    /\ ~Clean => failures \intersect Harmful # {}
    /\ Cardinality(failures) = 1 /\ failures \subseteq Harmful => ~Clean

\* What a failure of the DVB extension leaves behind, and which failures.
DvbLeft == OfBoard({"urbs", "fe0", "tuner", "i2c_client_demod", "i2c_client_tuner"})
DvbFailures ==
  DvbLeft \union OfBoard({"driver bound", "module", "a8293", "adapter", "frontend0", "demux", "dmxdev", "fe_hw",
                         "fe_mem", "connect"})
NeverDvb == {"EM28178_PLEX_PX_BCUD", "other"}

\* A removed driver has given back everything, nothing twice, and used
\* nothing afterwards.  An em28xx device whose DVB extension failed keeps the
\* transfer buffers and what the board's code has forgotten; pt3_remove reads
\* the card it has freed.
CleanRemove ==
  phase = "gone" =>
    /\ wrong \subseteq IF drv = "pt3_pci" THEN {<<"used", Board("card")>>} ELSE {}
    /\ held \subseteq Engines \union
         IF drv \in Em28xxBoards /\ (drv \in NeverDvb \/ failures \intersect DvbFailures # {})
         THEN DvbLeft ELSE {}

\* What the interrupt handler and the DMA engine use is there as long as
\* they run.  Two cases are the code's: an engine of a PX-Q3PE is never
\* stopped, so it outlives its memory once the board is given up, and
\* pxq3pe_pci.c frees the memory before the handler.  In pxq3pe_dtv.c a
\* stream can also be started before there is memory for it.
StreamSafe ==
  /\ Board("irq") \in held =>
       /\ Board("bar") \in held
       /\ \A i \in 1 .. Units : <<"engine", i>> \in held => <<"sBuf", i>> \in held
       /\ \/ Board("dma") \in held \/ Engines \intersect held = {}
          \/ drv = "pxq3pe_pci" /\ phase = "remove"
          \/ Board("started early") \in failures
  /\ \A i \in 1 .. Units : <<"engine", i>> \in held =>
       EngineMemory(i) \subseteq held \/ (IsPxq /\ (phase # "live" \/ Board("started early") \in failures))
=============================================================================
