---------------------------- MODULE MCDepthBook ----------------------------
(* Instances of DepthBook and OkexBook for TLC. *)
EXTENDS Books

CONSTANTS s1, s2

VARIABLE serves   \* the exchange of the gateway

MCInit == D!Init /\ O!Init /\ serves \in {"okex", "binance"}

MCNext ==
  \/ serves = "binance" /\ D!Next /\ UNCHANGED <<serves, ofOkex>>
  \/ serves = "okex" /\ O!Next /\ UNCHANGED <<serves, ofBinance>>

Binance(A) == serves = "binance" /\ A

(* The fairness of DepthBook. *)
MCSpec ==
  /\ MCInit /\ [][MCNext]_<<ofBinance, serves, ofOkex>>
  /\ WF_ofBinance(Binance(D!FirstSnapShot)) /\ WF_ofBinance(Binance(D!OnWsDepth))
  /\ \A t \in D!Threads : WF_ofBinance(Binance(D!SnapShotStep(t)))

(* Every variable of DepthBook has its type. *)
TypeOK == D!TypeOK
=============================================================================
