------------------------------ MODULE PtxLife ------------------------------
(***************************************************************************)
(* Probe and remove of the DVB drivers pt3_pci.c and pxq3pe_pci.c, and of  *)
(* ptx_common.c, through which both take and give back the board, the      *)
(* adapters and the frontends.                                             *)
(***************************************************************************)
EXTENDS DriverSteps

(* ptx_common.c *)

\* pci_set_drvdata is the last step: an earlier failure frees the card, and
\* the remover finds no card and does nothing; the device stays enabled.
PtxAlloc(fail) ==
  <<Get(Board("card"), fail),
    Get(Board("pci"), <<Put(Board("card"))>> \o fail),
    Must(Board("dma mask"), <<Put(Board("card"))>> \o fail),
    Get(Board("regions"), <<Put(Board("card"))>> \o fail),
    Set(Board("drvdata"))>>

\* A chip whose module, client or driver is missing leaves NULL in the
\* frontend's demodulator_priv or tuner_priv.
RegisterSubdev(r) == <<Try(r, <<>>)>>

\* Mutant: the frontend is freed, the two I2C clients are forgotten.
UnregisterFeOnly(i) == <<Drop(<<"frontend", i>>), Put(<<"fe", i>>)>>

UnregisterFe(i) ==
  <<Drop(<<"frontend", i>>), Drop(<<"tuner", i>>), Drop(<<"demod", i>>), Put(<<"fe", i>>)>>

RegisterFe(i, fail) ==
  LET undo == UnregisterFe(i) \o <<Clear(<<"fe", i>>)>> \o fail
  IN  <<Get(<<"fe", i>>, fail)>> \o RegisterSubdev(<<"demod", i>>) \o RegisterSubdev(<<"tuner", i>>)
      \o <<Need(<<"demod", i>>, undo), Need(<<"tuner", i>>, undo), Get(<<"frontend", i>>, undo)>>

\* ptx_sleep at the end of an adapter switches the LNB: through the registers.
PtxRegister(fail, bar) ==
  LET adapter(i) ==
        <<Get(<<"dvb", i>>, fail), Get(<<"demux", i>>, fail), Get(<<"dmxdev", i>>, fail)>>
        \o RegisterFe(i, fail) \o <<Use(bar)>>
  IN  Each(adapter)

UnregisterAdap ==
  LET adapter(i) ==
        <<When(<<"fe", i>>, UnregisterFe(i)), Drop(<<"dmxdev", i>>), Drop(<<"demux", i>>),
          Drop(<<"dvb", i>>)>>
  IN  EachDown(adapter)
      \o <<Drop(Board("i2c")), Put(Board("regions")), Put(Board("drvdata")), Put(Board("pci")),
           Put(Board("card"))>>

-----------------------------------------------------------------------------
(* pt3_pci.c *)

\* Two of the pages stand for all of them.
DmaPages(i) == <<<<"desc page 1", i>>, <<"desc page 2", i>>, <<"ts page 1", i>>, <<"ts page 2", i>>>>

Pt3DmaCreate(i, fail) ==
  <<Try(<<"ts_info", i>>, <<>>), Try(<<"desc_info", i>>, <<>>),
    Need(<<"ts_info", i>>, fail), Need(<<"desc_info", i>>, fail)>>
  \o [k \in 1 .. 4 |-> Get(DmaPages(i)[k], fail)]

\* pt3_dma_run(adap, false) writes through dma_base.  The last two lines of
\* the function read c, which lies in the card.
Pt3Remove ==
  LET page(i, k) == Drop(DmaPages(i)[k])
      adapter(i) ==
        <<Use(<<"dma_base", i>>), Drop(<<"engine", i>>),
          When(<<"ts_info", i>>, <<page(i, 3), page(i, 4), Put(<<"ts_info", i>>)>>),
          When(<<"desc_info", i>>, <<page(i, 1), page(i, 2), Put(<<"desc_info", i>>)>>),
          When(<<"fe", i>>, <<Use(Board("bar_reg"))>>), Clear(<<"dma_base", i>>)>>
  IN  Each(adapter) \o UnregisterAdap
      \o <<Use(Board("card")), Drop(Board("bar_reg")), Drop(Board("bar_mem"))>>

Pt3Probe ==
  LET abort == Pt3Remove \o <<Fail>>
      adapter(i) == <<Set(<<"dma_base", i>>)>> \o Pt3DmaCreate(i, abort)
  IN  PtxAlloc(<<Fail>>)
      \o <<Must(Board("config"), abort), Must(Board("revision"), abort),
           Try(Board("bar_reg"), <<>>), Try(Board("bar_mem"), <<>>),
           Need(Board("bar_reg"), abort), Need(Board("bar_mem"), abort),
           Must(Board("fpga"), abort)>>
      \o Each(adapter)
      \o <<Get(Board("i2c"), abort), Must(Board("flush"), abort)>>
      \o PtxRegister(abort, Board("bar_reg"))
      \o <<Must(Board("power"), abort)>>

-----------------------------------------------------------------------------
(* pxq3pe_pci.c *)

\* pxq3pe_dma(adap, false) leaves the engine on.
PxqRemove ==
  LET quiet(i) == <<When(<<"fe", i>>, <<Use(Board("bar"))>>)>>
      buffer(i) == <<Drop(<<"sBuf", i>>)>>
  IN  Each(quiet)
      \o <<Use(Board("bar")), Drop(Board("dma")), Drop(Board("irq"))>>
      \o Each(buffer) \o <<Drop(Board("bar"))>> \o UnregisterAdap

\* c = card->priv comes before the test of card.
PxqProbe ==
  LET abort == PxqRemove \o <<Fail>>
      buffer(i) == <<Get(<<"sBuf", i>>, abort)>>
  IN  PtxAlloc(<<Use(Null)>>)
      \o <<Must(Board("config"), abort), Must(Board("master"), abort), Get(Board("bar"), abort),
           Get(Board("i2c"), abort)>>
      \o Each(buffer)
      \o <<Get(Board("irq"), abort), Get(Board("dma"), abort), Must(Board("hw_init"), abort)>>
      \o PtxRegister(abort, Board("bar"))
=============================================================================
