---------------------------- MODULE MCAdapters -----------------------------
(* What the drivers do around a stream, side by side.  A behaviour is one   *)
(* of the life of a driver (DriverLife), of the table of the boards         *)
(* (CardTable), of the identification of an em28xx board (Em28xxBoards), of *)
(* the channel numbers (Channels), of a tune (Tuning), of the power of the  *)
(* LNB (LnbSwitch), of the feeds of a PT3 or PX-Q3PE adapter (PtxFeeds) or  *)
(* of those of an em28xx device (Em28xxFeeds); the other modules stay at    *)
(* one initial state.                                                       *)
EXTENDS DriverLife, CardTable, Em28xxBoards, Channels, Tuning, LnbSwitch, AllFeeds

VARIABLE part

SlotsOfDef == (1 :> {0, 1}) @@ (2 :> {0})

\* One initial state of each part for the behaviours of the others.
DlIdle == DlInit /\ drv = "audio"
CtIdle == CtInit /\ owner = "pt3_dtv"
EbIdle == EbInit /\ dev28.eeprom = NoHash /\ dev28.i2c = NoHash /\ dev28.sensor = "none"
ChIdle == ChInit /\ chan = [band |-> "T", num |-> 1]
TuIdle == TuInit /\ kind = "qm"
PfIdle == PfInit /\ card = "pt3"

Init ==
  /\ part \in {"driver", "table", "board", "channel", "tune", "lnb", "feed", "em28xx"}
  /\ IF part = "driver" THEN DlInit ELSE DlIdle
  /\ IF part = "table" THEN CtInit ELSE CtIdle
  /\ IF part = "board" THEN EbInit ELSE EbIdle
  /\ IF part = "channel" THEN ChInit ELSE ChIdle
  /\ IF part = "tune" THEN TuInit ELSE TuIdle
  /\ IF part = "feed" THEN PfInit ELSE PfIdle
  /\ LsInit /\ EfInit

Others(vars) == UNCHANGED <<vars, part>>
DriverStep == /\ part = "driver" /\ DlNext
              /\ Others(<<ctVars, ebVars, chVars, tuVars, lsVars, pfVars, efVars>>)
TableStep == /\ part = "table" /\ CtNext
             /\ Others(<<dlVars, ebVars, chVars, tuVars, lsVars, pfVars, efVars>>)
BoardStep == /\ part = "board" /\ EbNext
             /\ Others(<<dlVars, ctVars, chVars, tuVars, lsVars, pfVars, efVars>>)
ChannelStep == /\ part = "channel" /\ ChNext
               /\ Others(<<dlVars, ctVars, ebVars, tuVars, lsVars, pfVars, efVars>>)
TuneStep == /\ part = "tune" /\ TuNext
            /\ Others(<<dlVars, ctVars, ebVars, chVars, lsVars, pfVars, efVars>>)
LnbStep == /\ part = "lnb" /\ LsNext
           /\ Others(<<dlVars, ctVars, ebVars, chVars, tuVars, pfVars, efVars>>)
FeedStep == /\ part = "feed" /\ PfNext
            /\ Others(<<dlVars, ctVars, ebVars, chVars, tuVars, lsVars, efVars>>)
UsbFeedStep == /\ part = "em28xx" /\ EfNext
               /\ Others(<<dlVars, ctVars, ebVars, chVars, tuVars, lsVars, pfVars>>)
Next ==
  \/ DriverStep \/ TableStep \/ BoardStep \/ ChannelStep
  \/ TuneStep \/ LnbStep \/ FeedStep \/ UsbFeedStep
Spec == Init /\ [][Next]_<<dlVars, ctVars, ebVars, chVars, tuVars, lsVars, pfVars, efVars, part>>

\* Every channel's name and number ends at the frequency it is sent on
\* (ChannelsAgree, looked at where the channels are).
EveryChannelAgrees == part = "channel" => ChannelsAgree
=============================================================================
