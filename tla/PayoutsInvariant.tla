-------------------------- MODULE PayoutsInvariant --------------------------
(***************************************************************************)
(* The inductive invariant of Payouts: the properties of that module,      *)
(* strengthened with what its tasks know between two of their steps.       *)
(***************************************************************************)
EXTENDS Payouts

(* A confirm call past its transaction owns the payout it made.            *)
Owns(h) == handler[h].pc \in {"submit", "record", "announce", "reverse",
                              "announceReversal"}

(* The provider payout of quote q has once been in this status.            *)
Reported(q, status) == \E i \in DOMAIN provider[q] : provider[q][i] = status

(* Until its reservation a quote has left no trace in the rows, and the    *)
(* provider knows only payouts that exist.                                 *)
NothingBeforeReserve ==
  \A q \in Quotes :
    ~ Exists(q) => /\ ~ payout[q].hasRef /\ ~ payout[q].reversed
                   /\ txn[q] = [debit |-> "NONE", reversal |-> "NONE"]
                   /\ provider[q] = <<>>

(* What a busy confirm call works on is there: nobody has submitted the    *)
(* payout of a call about to do it, and nobody has settled the payout of a *)
(* call that has not recorded its reference.                               *)
CallInv(h) ==
  LET q == handler[h].quote
  IN  /\ handler[h].pc # "idle" => q \in Quotes /\ handler[h].key \in Keys
      /\ Owns(h) => Exists(q)
      /\ handler[h].pc = "submit" => provider[q] = <<>>
      /\ handler[h].pc = "record" => provider[q] # <<>>
      /\ handler[h].pc \in {"submit", "record"} =>
           payout[q].status = "PENDING" /\ ~ payout[q].hasRef

(* ... and belongs to that call alone.                                     *)
CallsOwnTheirPayout ==
  /\ \A h \in Handlers : CallInv(h)
  /\ \A g, h \in Handlers :
       Owns(g) /\ Owns(h) /\ handler[g].quote = handler[h].quote => g = h

(* A provider payout is processing only at first.                          *)
ProcessingFirst ==
  \A q \in Quotes : \A i \in DOMAIN provider[q] :
    provider[q][i] = "processing" => i = 1

(* What a settler claims or has seen, and what a webhook says, the         *)
(* provider has once reported.                                             *)
ClaimsReported ==
  /\ \A q \in Quotes : payout[q].hasRef => provider[q] # <<>>
  /\ \A q \in Quotes, status \in Outcomes :
       <<q, status>> \in webhooks => Reported(q, status)
  /\ \A s \in Settlers :
       LET q == settler[s].quote
       IN  /\ settler[s].pc # "idle" => q \in Quotes
           /\ settler[s].pc = "ask" => provider[q] # <<>>
           /\ settler[s].pc \in {"query", "apply", "announce"} =>
                Reported(q, settler[s].claim)
           /\ settler[s].pc \in {"idle", "ask", "query"} =>
                settler[s].seen = "unknown"
           /\ settler[s].seen # "unknown" => Reported(q, settler[s].seen)

(* The part of the invariant that speaks of the rows and the provider.     *)
RowsInv ==
  /\ LedgerExplainsBalance
  /\ NothingPostedTwice
  /\ RowsMatchLedger
  /\ DebitTransactionFollows
  /\ FeeNeedsCompletion
  /\ NothingBeforeReserve
  /\ ProcessingFirst

PayoutsInv == TypeOK /\ RowsInv /\ CallsOwnTheirPayout /\ ClaimsReported

-----------------------------------------------------------------------------
(* Announcements                                                           *)

Reversals == {"payout.failed", "payout.refunded"}

ReversalTold(q) == \E i \in DOMAIN announced[q] : announced[q][i] \in Reversals

(* A confirm call, or a settler, is about to tell of a reversal.           *)
CallTells(h, q) ==
  handler[h].pc = "announceReversal" /\ handler[h].quote = q
SettlerTells(s, q) ==
  settler[s].pc = "announce" /\ settler[s].quote = q /\ ~ ShowsCompletion(s)

(* Only a reversed payout is told of, or about to be, and what one task is *)
(* about to tell nobody has told and no other task is about to tell.       *)
ToldInv ==
  \A q \in Quotes :
    /\ ReversalTold(q) => payout[q].reversed
    /\ \A h \in Handlers : CallTells(h, q) => payout[q].reversed /\ ~ ReversalTold(q)
    /\ \A s \in Settlers : SettlerTells(s, q) => payout[q].reversed /\ ~ ReversalTold(q)
    /\ \A h \in Handlers, s \in Settlers : ~ (CallTells(h, q) /\ SettlerTells(s, q))
    /\ \A s, t \in Settlers : SettlerTells(s, q) /\ SettlerTells(t, q) => s = t
    /\ \A i, j \in DOMAIN announced[q] :
         announced[q][i] \in Reversals /\ announced[q][j] \in Reversals => i = j

-----------------------------------------------------------------------------
(* Overdrafts                                                              *)

(* No two confirm calls are between the check of one wallet's balance and  *)
(* its debit, as a lock on the wallet row would have it.                   *)
ChecksApart ==
  \A g, h \in Handlers :
    /\ handler[g].pc = "reserve" /\ handler[h].pc = "reserve"
    /\ WalletOf[handler[g].quote] = WalletOf[handler[h].quote]
    => g = h

(* The check of the balance still holds when the debit is made.            *)
DebitsCovered ==
  \A h \in Handlers : handler[h].pc = "reserve" =>
    balance[WalletOf[handler[h].quote]] >= TotalDebit[handler[h].quote]

=============================================================================
