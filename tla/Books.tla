------------------------------- MODULE Books -------------------------------
(***************************************************************************)
(* The order books of a market gateway: DepthBook is Binance's, OkexBook   *)
(* is OKEX's.  A gateway serves one exchange (main.cpp), so that a         *)
(* behavior is one of either module.                                       *)
(***************************************************************************)
EXTENDS Integers

CONSTANTS
  MaxDepth, Bids, Asks, Volumes, MaxId, MaxDepthSubs, SnapshotFails,
  Prices, OSymbols, OVolumes, HalfInt, Epoch, MaxBatch, MaxOChanges, MaxOSubs

VARIABLES
  changes, emitted, stream, connected, subscribed, last, book, snap, published, failed,
  obook, otime, ochanges, osends, owire, oasked, oentered, olast, odepth, opublished, owhole

ofBinance == <<changes, emitted, stream, connected, subscribed, last, book, snap, published,
               failed>>
ofOkex == <<obook, otime, ochanges, osends, owire, oasked, oentered, olast, odepth, opublished,
            owhole>>

D == INSTANCE DepthBook
O == INSTANCE OkexBook WITH
  Symbols <- OSymbols, Volumes <- OVolumes, MaxChanges <- MaxOChanges, MaxSubs <- MaxOSubs,
  book <- obook, time <- otime, changes <- ochanges, sends <- osends, wire <- owire,
  asked <- oasked, entered <- oentered, last <- olast, depth <- odepth,
  published <- opublished, whole <- owhole

ASSUME DepthHolds == D!DepthAssumption
ASSUME OkexHolds == O!OkexBookAssumption

(* The books handed on are true: see PublishedIsTrue of either module      *)
(* (OnWsDepth, GetDepthSnapShot; OKMGApi::OnRtnDepth).                     *)
PublishedIsTrue == D!PublishedIsTrue
OkexIsTrue == O!PublishedIsTrue

(* What reaches a gateway gets into its book: see D!GetsIntoBook           *)
(* (OnWsDepth).                                                            *)
GetsIntoBook == D!GetsIntoBook

(* What the code does not do: see these properties of either module        *)
(* (OKMGApi::OnRtnDepth; GetDepthSnapShot, OnWsDepth).                     *)
OkexAlwaysTrue == O!AlwaysTrue
AlwaysGetsIntoBook == D!AlwaysGetsIntoBook
BestAreTold == D!BestAreTold
NoEmptyLevels == D!NoEmptyLevels
OneSnapShotAtATime == D!OneSnapShotAtATime
=============================================================================
