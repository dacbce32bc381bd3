-------------------------- MODULE MCMarketGateway --------------------------
(* Instances of MarketGateway for TLC. *)
EXTENDS MarketGateway

CONSTANTS st1, st2, tick, depth, kline, stream

=============================================================================
