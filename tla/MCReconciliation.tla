-------------------------- MODULE MCReconciliation --------------------------
(***************************************************************************)
(* Instances of Reconciliation for TLC.                                    *)
(***************************************************************************)
EXTENDS Reconciliation, TLC

Plan(kind1, word1, kind2, word2) ==
  (1 :> [kind |-> kind1, word |-> word1]) @@ (2 :> [kind |-> kind2, word |-> word2])

(* Two payouts of one table, the older with a word the code does not know; *)
(* a payout and a deposit; two conversions, of which the younger cannot be *)
(* asked about.                                                            *)
MCPlans ==
  {Plan("usdcPayout", "ON_HOLD", "wisePayout", "bounced_back"),
   Plan("usdcPayout", "EXPIRED", "deposit", "SUCCESS"),
   Plan("eurConversion", "COMPLETED", "usdcConversion", "COMPLETED")}
=============================================================================
