----------------------------- MODULE WalletBook -----------------------------
(***************************************************************************)
(* The wallets and their ledger, the state every money flow of Reepay      *)
(* writes: Wallet.balance and the LedgerEntry rows of that wallet.         *)
(*                                                                         *)
(* A flow moves money with two statements of one database transaction: a   *)
(* relative update of the wallet row ({increment} or {decrement}), whose   *)
(* result is the new balance, then the insert of a ledger entry that       *)
(* carries that result as balanceAfter.  The row lock taken by the update  *)
(* is held until the commit, so the pair is one atomic step.               *)
(*                                                                         *)
(* Amounts are whole units (the code's decimals have a fixed scale), and a *)
(* balance is an integer without a lower bound: the schema has no CHECK.   *)
(***************************************************************************)
EXTENDS Integers, Sequences

CONSTANTS
  Wallets,   \* the (customer, currency) wallets
  Opening    \* their balances before the first modelled posting

ASSUME WalletAssumption == Opening \in [Wallets -> Int]

VARIABLES
  balance,   \* Wallet.balance
  ledger     \* the LedgerEntry rows of each wallet, oldest first

bookVars == <<balance, ledger>>

EntryTypes == {"DEBIT", "CREDIT"}

(* Faulty: every entry is linked to the order's first transaction.         *)
FirstTransaction(order, purpose) == [order |-> order, purpose |-> "debit"]

(* The transaction a ledger entry belongs to: its order and its purpose.   *)
Source(order, purpose) == [order |-> order, purpose |-> purpose]

Entries(orders, purposes) ==
  [type : EntryTypes, amount : Nat, balanceAfter : Int,
   source : [order : orders, purpose : purposes]]

(* The balance once an entry is applied to it.                             *)
Applied(before, type, amount) ==
  IF type = "DEBIT" THEN before - amount ELSE before + amount

BookInit ==
  /\ balance = Opening
  /\ ledger = [w \in Wallets |-> <<>>]

(* Faulty: balanceAfter is the balance read before the update.             *)
PostStaleBalance(w, type, amount, source) ==
  /\ balance' = [balance EXCEPT ![w] = Applied(@, type, amount)]
  /\ ledger' = [ledger EXCEPT ![w] = Append(@,
       [type |-> type, amount |-> amount, balanceAfter |-> balance[w],
        source |-> source])]

Post(w, type, amount, source) ==
  /\ balance' = [balance EXCEPT ![w] = Applied(@, type, amount)]
  /\ ledger' = [ledger EXCEPT ![w] = Append(@,
       [type |-> type, amount |-> amount,
        balanceAfter |-> Applied(balance[w], type, amount),
        source |-> source])]

-----------------------------------------------------------------------------

(* The balance a reader of the ledger alone would give wallet w after its  *)
(* first n entries.                                                        *)
BalanceAt(w, n) == IF n = 0 THEN Opening[w] ELSE ledger[w][n].balanceAfter

Posted(source) ==
  \E w \in Wallets : \E i \in DOMAIN ledger[w] : ledger[w][i].source = source

(* The ledger explains the balance: each entry's balanceAfter is the one   *)
(* before it plus or minus its amount, and the last one is the wallet's    *)
(* balance, whatever flows interleave on the wallet.                       *)
LedgerExplainsBalance ==
  \A w \in Wallets :
    /\ balance[w] = BalanceAt(w, Len(ledger[w]))
    /\ \A i \in 1..Len(ledger[w]) :
         BalanceAt(w, i) =
           Applied(BalanceAt(w, i - 1), ledger[w][i].type, ledger[w][i].amount)

(* No movement of money is entered twice: two entries, in any wallets, are *)
(* never made for the same purpose of the same order.                      *)
NothingPostedTwice ==
  \A v, w \in Wallets : \A i \in DOMAIN ledger[v], j \in DOMAIN ledger[w] :
    ledger[v][i].source = ledger[w][j].source => v = w /\ i = j

=============================================================================
