----------------------------- MODULE MCStrategy -----------------------------
(***************************************************************************)
(* Instances of Strategy and Balances for TLC.  A behavior is one of       *)
(* either module, the other's variables staying as they are: the first is  *)
(* about a strategy's requests, the second about the funds it knows of.    *)
(***************************************************************************)
EXTENDS Strategy, Balances

CONSTANTS s1, s2

VARIABLE models   \* which module the behavior is of

(* One symbol, btc_usdt, and orders of it. *)
MCListed == <<"btc", "usdt">>
MCFunds == [c \in {"btc", "usdt"} |-> IF c = "btc" THEN 0 ELSE 2]
Buy(n, c) == [id |-> n, pays |-> "usdt", cost |-> c, gets |-> "btc", gain |-> 1]
Sell(n) == [id |-> n, pays |-> "btc", cost |-> 1, gets |-> "usdt", gain |-> 1]
MCOrders == {Buy(1, 1), Buy(2, 2)}
MCOldOrders == {Sell(0)}

ASSUME BalancesAssumption

MCInit == Init /\ FundsInit /\ models \in {"requests", "funds"}

MCNext ==
  \/ models = "requests" /\ Next /\ UNCHANGED <<models, funds>>
  \/ models = "funds" /\ FundsNext /\ UNCHANGED <<models, vars>>

Requests(A) == models = "requests" /\ A

(* The fairness of Strategy. *)
MCSpec ==
  /\ MCInit /\ [][MCNext]_<<vars, models, funds>>
  /\ WF_vars(Requests(Start)) /\ WF_vars(Requests(Waits))
  /\ WF_vars(Requests(DataThread)) /\ WF_vars(Requests(Answers))
  /\ \A s \in Sources : WF_vars(Requests(LogsIn(s)))
=============================================================================
