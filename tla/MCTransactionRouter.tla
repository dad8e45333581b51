-------------------------- MODULE MCTransactionRouter --------------------------
(***************************************************************************)
(* A small instance of TransactionRouter for TLC: two workers, one         *)
(* merchant, three PSPs.  A reload disables psp a and brings in psp c, or  *)
(* drops c, which can leave with an open circuit and come back.            *)
(***************************************************************************)
EXTENDS TransactionRouter, TLC

CONSTANTS w1, w2, shop, a, b, c, card, usd

Route(psp, max, fee, priority) ==
  [ psp |-> psp, enabled |-> TRUE, methods |-> {card}, currencies |-> {usd},
    min |-> 1, max |-> max, fee |-> fee, percent |-> 1, priority |-> priority ]

MCWorkers == {w1, w2}
MCSymmetry == Permutations(MCWorkers)   \* every property treats workers alike
MCMerchants == {shop}
MCRouteTables ==
  { << Route(a, 1, 1, -1), Route(b, 9, 2, 0) >>,
    << Route(b, 9, 2, 0), Route(c, 9, 1, 12),
       [Route(a, 1, 1, -1) EXCEPT !.enabled = FALSE] >> }
\* Both of psp b's amounts, of which a accepts only the smaller.
MCTransactions ==
  [merchant : {shop}, method : {card}, currency : {usd}, amount : {1, 5}]

Weights(latency, cost) == [latency |-> latency, cost |-> cost]
MCNoWeights == Weights(0, 0)
MCDefaultWeights == Weights(3, 3)
MCNoPreferences == [preferred |-> {}, blocked |-> {}, weights |-> MCNoWeights]
MCPreferences ==
  { MCNoPreferences,
    [preferred |-> {b}, blocked |-> {c}, weights |-> Weights(1, 8)] }
===============================================================================
