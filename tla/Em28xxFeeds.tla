----------------------------- MODULE Em28xxFeeds ----------------------------
(* em28xx-dvb: the demultiplexer's feeds share one stream over USB, counted  *)
(* in nfeeds under dvb->lock.                                                *)
EXTENDS Integers, FiniteSets

CONSTANTS
  Feeds       \* feeds programs may start
ASSUME Em28xxFeedsAssumption == IsFiniteSet(Feeds)

VARIABLES
  nfeeds,     \* dvb->nfeeds
  streaming,  \* URBs are submitted
  on,         \* the feeds whose start the core was told succeeded
  stuck      \* a start has failed
efVars == <<nfeeds, streaming, on, stuck>>

EfInit == nfeeds = 0 /\ streaming = FALSE /\ on = {} /\ stuck = FALSE

\* em28xx_start_feed, the first feed: the stream starts, or fails, and the
\* count stays.
StartFirst(f) ==
  /\ f \notin on /\ nfeeds = 0
  /\ nfeeds' = 1
  /\ \/ streaming' = TRUE /\ on' = on \cup {f} /\ UNCHANGED stuck
     \/ stuck' = TRUE /\ UNCHANGED <<streaming, on>>
\* Another feed: only counted.
StartMore(f) ==
  /\ f \notin on /\ nfeeds > 0
  /\ nfeeds' = nfeeds + 1 /\ on' = on \cup {f}
  /\ UNCHANGED <<streaming, stuck>>
\* A bug: the stream ends with the first feed that ends.
EmStopAlways(f) ==
  /\ f \in on
  /\ nfeeds' = nfeeds - 1 /\ on' = on \ {f}
  /\ streaming' = FALSE
  /\ UNCHANGED stuck
\* em28xx_stop_feed.
EmStopFeed(f) ==
  /\ f \in on
  /\ nfeeds' = nfeeds - 1 /\ on' = on \ {f}
  /\ streaming' = (streaming /\ nfeeds' # 0)
  /\ UNCHANGED stuck

EfNext == \E f \in Feeds : StartFirst(f) \/ StartMore(f) \/ EmStopFeed(f)
EfSpec == EfInit /\ [][EfNext]_efVars

\* The stream runs exactly while a feed is on.  Once a start has failed, no
\* feed will ever get a stream, though every later start succeeds.
Em28xxFeedsStream == IF ~stuck THEN streaming <=> on # {} ELSE ~streaming
=============================================================================
