--------------------- MODULE WalletConversionsInvariant ---------------------
(***************************************************************************)
(* The inductive invariant of WalletConversions: the properties of that    *)
(* module, strengthened with what its tasks know between two of their      *)
(* steps.                                                                  *)
(***************************************************************************)
EXTENDS WalletConversions

(* The provider's side of conversion q has once been in this status.       *)
Reported(q, status) == \E i \in DOMAIN provider[q] : provider[q][i] = status

(* Until its reservation a quote has left no trace in the rows, and the    *)
(* provider knows only conversions that exist.                             *)
NothingBeforeReserve ==
  \A q \in Quotes :
    /\ ~ Exists(q) => /\ ~ conversion[q].hasRef /\ ~ conversion[q].reversed
                      /\ txn[q] = "NONE" /\ provider[q] = <<>>
    /\ conversion[q].hasRef => provider[q] # <<>>

(* The provider's side is processing only at first.                        *)
ProcessingFirst ==
  \A q \in Quotes : \A i \in DOMAIN provider[q] :
    provider[q][i] = "processing" => i = 1

(* A webhook says what the provider has reported, and only a EUR leg has   *)
(* an event of failure.                                                    *)
WebhooksReported ==
  \A q \in Quotes :
    /\ <<q, "completed">> \in webhooks => Reported(q, "completed")
    /\ <<q, "failed">> \in webhooks => leg[q] = "EUR"
    /\ \A status \in Outcomes : <<q, status>> \in webhooks => provider[q] # <<>>

(* Nobody but its confirm call can find a EUR leg without a reference, so  *)
(* such a leg is neither settled nor about to be.                          *)
UnreferencedIsUnsettled ==
  \A q \in Quotes :
    leg[q] = "EUR" /\ ~ conversion[q].hasRef =>
      /\ ~ Posted(Source(q, "funding"))
      /\ \A t \in Tasks : ~ /\ task[t].quote = q
                            /\ task[t].pc \in {"settle", "settleWrite", "ask"}

(* A call between its reservation and the provider's answer recorded.      *)
Submitting(t) == task[t].pc \in {"submit", "answer"}

(* What a task works on is there, and what it has found out still holds.   *)
TaskInv(t) ==
  LET q == task[t].quote
  IN  /\ task[t].pc # "idle" => q \in Quotes
      /\ task[t].pc \in {"readQuote", "readWallet", "reserve"} => task[t].key \in Keys
      /\ task[t].pc \notin {"idle", "readQuote", "readWallet", "reserve"} => Exists(q)
      /\ task[t].pc = "submit" => provider[q] = <<>>
      /\ task[t].pc \in {"answer", "ask"} => provider[q] # <<>>
      /\ task[t].pc \in {"settle", "settleWrite"} => Reported(q, "completed")
      /\ task[t].pc = "ask" => leg[q] = "EUR"
      /\ Submitting(t) => /\ ~ conversion[q].reversed
                          /\ leg[q] = "EUR" => ~ conversion[q].hasRef

(* A task that submits a conversion, announces that, or reverses it.       *)
Handles(t) ==
  task[t].pc \in {"submit", "answer", "dispatch", "reverse", "reverseWrite"}

(* While a call submits its conversion nobody else submits, dispatches or  *)
(* reverses it; a settlement of a USDC leg may overtake it.                *)
SubmittedAlone ==
  \A s, t \in Tasks :
    Submitting(s) /\ Handles(t) /\ task[s].quote = task[t].quote => s = t

TasksInv == (\A t \in Tasks : TaskInv(t)) /\ SubmittedAlone

(* The part of the invariant that speaks of the rows and the provider.     *)
RowsInv ==
  /\ LedgerExplainsBalance
  /\ RowsMatchLedger
  /\ FundedAfterCompletion
  /\ NothingBeforeReserve
  /\ ProcessingFirst
  /\ WebhooksReported

ConversionsInv == TypeOK /\ RowsInv /\ UnreferencedIsUnsettled /\ TasksInv

-----------------------------------------------------------------------------
(* Double credits                                                          *)

(* No two settlements of one conversion are between their read and their   *)
(* write, and COMPLETED is overwritten by no reversal and no late answer.  *)
SettlesApart ==
  /\ \A s, t \in Tasks :
       /\ task[s].pc = "settleWrite" /\ task[t].pc = "settleWrite"
       /\ task[s].quote = task[t].quote
       => s = t
  /\ \A q \in Quotes :
       Posted(Source(q, "funding")) => conversion[q].status = "COMPLETED"

(* What a settlement read still holds when it writes.                      *)
SettlesOnce ==
  \A t \in Tasks : task[t].pc = "settleWrite" =>
    ~ Posted(Source(task[t].quote, "funding"))

=============================================================================
