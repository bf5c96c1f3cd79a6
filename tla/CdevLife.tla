------------------------------ MODULE CdevLife -----------------------------
(***************************************************************************)
(* Probe and remove of the character-device drivers pt3_dtv.c and          *)
(* pxq3pe_dtv.c.                                                           *)
(***************************************************************************)
EXTENDS DriverSteps

(* pt3_dtv.c *)

\* create_pt3_dma and free_pt3_dma; a page is freed when its size is set,
\* which is before it is allocated.  Two pages stand for all of a kind.
FreePages(i, pages) == [k \in 1 .. Len(pages) |-> Drop(<<pages[k], i>>)]

FreePt3Dma(i) ==
  <<When(<<"ts_info", i>>, FreePages(i, <<"ts page 1", "ts page 2">>) \o <<Put(<<"ts_info", i>>)>>),
    When(<<"desc_info", i>>, FreePages(i, <<"desc page 1", "desc page 2">>) \o <<Put(<<"desc_info", i>>)>>),
    Put(<<"dma", i>>)>>

CreatePt3Dma(i, fail) ==
  LET undo == FreePt3Dma(i) \o fail
  IN  <<Get(<<"dma", i>>, fail), Get(<<"ts_info", i>>, undo),
        Get(<<"ts page 1", i>>, undo), Get(<<"ts page 2", i>>, undo),
        Get(<<"desc_info", i>>, undo),
        Get(<<"desc page 1", i>>, undo), Get(<<"desc page 2", i>>, undo)>>

\* create_pt3_tc, create_pt3_qm, create_pt3_mx of a tuner: nobody looks at
\* what they return before init_all_tuner goes through it.
CreateTuner(i) == <<Try(<<"tc_s", i>>, <<>>), Try(<<"qm", i>>, <<>>), Try(<<"tc_t", i>>, <<>>), Try(<<"mx", i>>, <<>>)>>
FreeTuner(i) == <<Drop(<<"tc_s", i>>), Drop(<<"qm", i>>), Drop(<<"tc_t", i>>), Drop(<<"mx", i>>)>>

\* init_tuner: two programs, each on a bus of its own.
InitTuner(i, fail) ==
  LET freeBus == <<Put(<<"bus", i>>)>>
  IN  <<Use(<<"qm", i>>), Get(<<"bus", i>>, fail), Must(<<"reset run", i>>, freeBus \o fail)>> \o freeBus
      \o <<Get(<<"bus", i>>, fail), Must(<<"init run", i>>, freeBus \o fail)>> \o freeBus

\* The ten tries of init_tuner and what they leave are one step here.
InitAllTuner(fail) ==
  LET freeBus == <<Put(Board("bus"))>>
      chips(i) == <<Use(<<"tc_s", i>>), Use(<<"tc_t", i>>)>>
      tuner(i) == InitTuner(i, freeBus \o fail)
      channel(i) == <<Use(<<"qm", i>>), Must(<<"satellite", i>>, freeBus \o fail),
                      Use(<<"mx", i>>), Must(<<"terrestrial", i>>, freeBus \o fail)>>
  IN  <<Get(Board("bus"), fail), Must(Board("clean"), freeBus \o fail)>>
      \o Each(chips) \o <<Must(Board("powers"), freeBus \o fail)>> \o Each(tuner)
      \o <<Must(Board("amplifier"), freeBus \o fail)>> \o Each(channel) \o freeBus

\* The labels at the end of pt3_pci_init_one.  None of them takes back the
\* entry of device[], the numbers or a cdev.
ErrPci == <<Put(Board("pci")), Fail>>
ErrReg == <<Put(Board("regions"))>> \o ErrPci
ErrFpga == <<Drop(Board("bar0")), Drop(Board("bar1")), Put(Board("card"))>> \o ErrReg
ErrI2c == Each(FreeTuner) \o <<Put(Board("i2c"))>> \o ErrFpga
ErrDma ==
  LET channel(i) == <<When(<<"channel", i>>, FreePt3Dma(i) \o <<Put(<<"channel", i>>), Drop(<<"node", i>>)>>)>>
  IN  Each(channel) \o ErrI2c

\* The channel becomes visible to open when it is complete.
Pt3AddChannel(i) ==
  <<Try(<<"cdev", i>>, <<>>), Get(<<"new channel", i>>, ErrDma)>>
  \o CreatePt3Dma(i, <<Put(<<"new channel", i>>), Clear(<<"dma", i>>)>> \o ErrDma)
  \o <<Put(<<"new channel", i>>), Set(<<"channel", i>>), Try(<<"node", i>>, <<>>)>>

Pt3InitOne ==
  <<Get(Board("pci"), <<Fail>>), Get(Board("regions"), ErrPci), Must(Board("save"), ErrReg),
    Must(Board("revision"), ErrReg), Get(Board("card"), ErrReg), Get(Board("bar0"), ErrFpga),
    Get(Board("bar1"), ErrFpga), Must(Board("dma mask"), ErrFpga), Must(Board("fpga"), ErrFpga),
    Get(Board("i2c"), ErrFpga)>>
  \o Each(CreateTuner) \o InitAllTuner(ErrI2c)
  \o <<Set(Board("slot")), Get(Board("numbers"), ErrI2c)>>
  \o Each(Pt3AddChannel) \o <<Set(Board("drvdata"))>>

Pt3RemoveOne ==
  LET quiet(i) == <<Use(<<"channel", i>>), Drop(<<"engine", i>>), Use(<<"qm", i>>), Use(<<"mx", i>>)>>
      tuner(i) == <<Drop(<<"tc_s", i>>), When(<<"tc_t", i>>, <<Use(Board("i2c")), Put(<<"tc_t", i>>)>>),
                    Drop(<<"qm", i>>), Drop(<<"mx", i>>)>>
      channel(i) == <<When(<<"channel", i>>, <<Drop(<<"cdev", i>>)>> \o FreePt3Dma(i) \o <<Put(<<"channel", i>>)>>),
                      Drop(<<"node", i>>)>>
  IN  Each(quiet) \o Each(tuner) \o Each(channel)
      \o <<Put(Board("i2c")), Put(Board("numbers")), Drop(Board("bar0")), Drop(Board("bar1")),
           Put(Board("regions")), Put(Board("slot")), Put(Board("card")), Put(Board("pci")), Put(Board("drvdata"))>>

-----------------------------------------------------------------------------
(* pxq3pe_dtv.c *)

\* Mutant: the DMA buffer goes before the interrupt handler.
PxqRemoveDmaFirst ==
  LET node(i) == <<Use(<<"p->card", i>>), Clear(<<"p->card", i>>), Drop(<<"cdev", i>>), Drop(<<"node", i>>)>>
      chips(i) == <<When(<<"tuner", i>>, <<Drop(<<"tuner priv", i>>), Put(<<"tuner", i>>)>>),
                    When(<<"demod", i>>, <<Drop(<<"demod priv", i>>), Put(<<"demod", i>>)>>),
                    Drop(<<"sBuf", i>>)>>
  IN  <<When(Board("adap"), Each(node)), Use(Board("bar")), Use(Board("adap")), Put(Board("numbers")),
        Drop(Board("dma")), Drop(Board("irq")), When(Board("adap"), Each(chips)), Drop(Board("adap")),
        Drop(Board("bar")), Drop(Board("i2c")), Drop(Board("slot")), Put(Board("card")),
        Put(Board("regions")), Put(Board("drvdata")), Put(Board("pci"))>>

\* pxq3pe_dma_stop goes through p->card and leaves the engine on.  tc90522_lnb
\* goes over all adapters.
PxqRemoveCdev ==
  LET node(i) == <<Use(<<"p->card", i>>), Clear(<<"p->card", i>>), Drop(<<"cdev", i>>), Drop(<<"node", i>>)>>
      chips(i) == <<When(<<"tuner", i>>, <<Drop(<<"tuner priv", i>>), Put(<<"tuner", i>>)>>),
                    When(<<"demod", i>>, <<Drop(<<"demod priv", i>>), Put(<<"demod", i>>)>>),
                    Drop(<<"sBuf", i>>)>>
  IN  <<When(Board("adap"), Each(node)), Use(Board("bar")), Use(Board("adap")), Put(Board("numbers")),
        Drop(Board("irq")), Drop(Board("dma")), When(Board("adap"), Each(chips)), Drop(Board("adap")),
        Drop(Board("bar")), Drop(Board("i2c")), Drop(Board("slot")), Put(Board("card")),
        Put(Board("regions")), Put(Board("drvdata")), Put(Board("pci"))>>

\* Before drvdata is set the remover returns at once.
PxqProbeCdev ==
  LET abort == PxqRemoveCdev \o <<Fail>>
      node(i) == <<Get(<<"sBuf", i>>, abort), Set(<<"p->card", i>>), Try(<<"cdev", i>>, <<>>),
                   Try(<<"node", i>>, <<>>)>>
      chips(i) == <<Get(<<"demod", i>>, abort), Try(<<"demod priv", i>>, <<>>), Get(<<"tuner", i>>, abort),
                    Try(<<"tuner priv", i>>, <<Use(<<"demod priv", i>>)>>)>>
  IN  <<Get(Board("card"), <<Fail>>), Get(Board("pci"), <<Fail>>), Must(Board("dma mask"), <<Fail>>),
        Get(Board("regions"), <<Fail>>), Set(Board("drvdata")), Must(Board("master"), abort),
        Get(Board("bar"), abort), Get(Board("numbers"), abort), Get(Board("i2c"), abort),
        Must(Board("free slot"), abort), Set(Board("slot")), Get(Board("adap"), abort)>>
      \o Each(node)
      \o <<Get(Board("irq"), abort), Get(Board("dma"), abort), Must(Board("hw_init"), abort)>>
      \o Each(chips)
=============================================================================
