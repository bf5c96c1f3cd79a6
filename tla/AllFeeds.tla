------------------------------ MODULE AllFeeds ------------------------------
(* The feeds of the demultiplexer and the stream behind them, in the drivers *)
(* of the PCI boards and in em28xx.                                          *)
EXTENDS PtxFeeds, Em28xxFeeds

\* Feeds and streams agree, in the drivers of the PCI boards and in em28xx.
FeedsStream == PtxFeedsStream /\ Em28xxFeedsStream
=============================================================================
