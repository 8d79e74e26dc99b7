------------------------- MODULE DepositsInvariant --------------------------
(***************************************************************************)
(* The inductive invariant of Deposits: the properties of that module,     *)
(* strengthened with what its tasks know between two of their steps.       *)
(***************************************************************************)
EXTENDS Deposits

(* The payin of deposit d has once been in this status.                    *)
Reported(d, status) == \E i \in DOMAIN provider[d] : provider[d][i] = status

(* The transaction row stands for the ledger entry; a credited deposit is  *)
(* settled, although a late PAYIN_FAILED may have overwritten COMPLETED,   *)
(* and a row, an event or a credit has a payin behind it.                  *)
RowsAgree ==
  \A d \in Deposits :
    /\ d \in funded <=> Posted(Source(d, "funding"))
    /\ d \in funded => deposit[d] \in Terminal /\ Reported(d, "completed")
    /\ deposit[d] = "COMPLETED" => d \in funded
    /\ d \in earned => d \in funded
    /\ deposit[d] # "NONE" => provider[d] # <<>>
    /\ \A e \in Events : <<d, e>> \in sent => provider[d] # <<>>

(* What a task has found out and still relies on: a payin to ask about, a  *)
(* completion before a credit, and an event that has been logged.          *)
TaskInv(t) ==
  LET d == task[t].deposit
      e == task[t].event
  IN  /\ task[t].pc # "idle" => d \in Deposits
      /\ task[t].pc \in {"insert", "ask", "markFailed", "verify", "readFailure",
                         "writeFailure"} => provider[d] # <<>>
      /\ task[t].pc \in {"readCredit", "credit"} => Reported(d, "completed")
      /\ task[t].pc \in {"readFailure", "writeFailure", "announceFailed"} =>
           e = "PAYIN_FAILED"
      /\ e # None => d \in Deposits /\ log[d][e] # "NONE"

(* One task serves an event: the unique index of its log row let one in.   *)
OneTaskPerEvent ==
  \A t, u \in Tasks :
    /\ task[t].event # None
    /\ task[t].event = task[u].event /\ task[t].deposit = task[u].deposit
    => t = u

TasksInv == (\A t \in Tasks : TaskInv(t)) /\ OneTaskPerEvent

-----------------------------------------------------------------------------
(* Announcements                                                           *)

Told(d, event) == \E i \in DOMAIN announced[d] : announced[d][i] = event

AtAnnounceCompleted(t, d) ==
  task[t].pc = "announceCompleted" /\ task[t].deposit = d

(* Only what one credit brought about is told, by the task that made it;   *)
(* and a failure is told by the one task of its event, as its last step.   *)
ToldInv ==
  /\ AnnouncedOnce
  /\ \A d \in Deposits :
      /\ Told(d, "deposit.completed") => d \in funded
      /\ \A t \in Tasks : AtAnnounceCompleted(t, d) =>
           d \in funded /\ ~ Told(d, "deposit.completed")
      /\ \A t, u \in Tasks :
           AtAnnounceCompleted(t, d) /\ AtAnnounceCompleted(u, d) => t = u
      /\ Told(d, "deposit.failed") =>
           /\ log[d]["PAYIN_FAILED"] # "NONE"
           /\ \A t \in Tasks :
                ~ (task[t].deposit = d /\ task[t].event = "PAYIN_FAILED")

(* The inductive invariant: the book is explained and holds nothing twice, *)
(* the rows agree with it, processed events have had their effect, and     *)
(* tasks do not repeat each other's work.                                  *)
DepositsInv ==
  /\ TypeOK
  /\ LedgerExplainsBalance /\ NothingPostedTwice
  /\ RowsAgree
  /\ ProcessedMeansApplied
  /\ TasksInv
  /\ ToldInv

=============================================================================
