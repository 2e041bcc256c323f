---------------------------- MODULE MCPublicData ----------------------------
(* Constants of the run of PublicData: narrow fields, and transactions at    *)
(* both ends of each.                                                        *)
EXTENDS PublicData

MCFroms   == {0, 1}
MCAmounts == {0, 1, 15, 16}

\* significands of up to 15 and exponents of up to 1: 16, 160 and 1500 have none, and 100
\* only with a significand that ends in a zero
MCTotals == {15, 16, 150, 160, 100, 1500}

MCOrders ==
  {[id |-> id, pos |-> pos, token |-> pos, sell |-> sell, buy |-> 20,
    side |-> IF id = 3 THEN "sell" ELSE "buy",
    filledSell |-> 15, filledBuy |-> filled] :
     id \in {0, 3}, pos \in {0, 1}, sell \in MCTotals, filled \in {2, 20}}

MCMakers == {o \in MCOrders : o.id = 3 /\ o.pos = 1 /\ o.sell \in {15, 150, 100}}
MCTakers == {o \in MCOrders : o.id = 0 /\ o.pos = 0}

MCTxs ==
  {[type |-> "nop"]}
  \cup [type : {"key"}, from : MCFroms, sign : {0, 1}, ay : {0, 5, 15}]
  \cup {tx \in [type : {"deposit", "transfer", "withdraw"}, from : MCFroms, to : MCFroms,
                token : {0, 1}, amount : MCAmounts] :
          tx.from = tx.to \/ tx.type = "transfer"}
  \cup {tx \in [type : {"trade"}, from : MCFroms, to : MCFroms, order1 : MCMakers,
                order2 : MCTakers] : tx.from # tx.to}

=============================================================================
