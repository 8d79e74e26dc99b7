-------------------------- MODULE WalletBookProofs --------------------------
(***************************************************************************)
(* What one posting does to the book, whatever flow makes it: lemmas the   *)
(* proofs of the money flows share.                                        *)
(***************************************************************************)
EXTENDS WalletBook, TLAPS

(* The book before a posting is well typed; E are the flow's entries.      *)
BookType(E) == balance \in [Wallets -> Int] /\ ledger \in [Wallets -> Seq(E)]

(* What a posting does: one wallet changes, and its ledger has one more    *)
(* entry, the rest as before.                                              *)
Appended(w, type, amount, source) ==
  /\ \A v \in Wallets \ {w} : ledger'[v] = ledger[v] /\ balance'[v] = balance[v]
  /\ balance'[w] = Applied(balance[w], type, amount)
  /\ Len(ledger'[w]) = Len(ledger[w]) + 1
  /\ \A i \in 1..Len(ledger[w]) : ledger'[w][i] = ledger[w][i]
  /\ ledger'[w][Len(ledger[w]) + 1] =
       [type |-> type, amount |-> amount,
        balanceAfter |-> Applied(balance[w], type, amount), source |-> source]
  /\ \A v \in Wallets : /\ Len(ledger[v]) \in Nat
                        /\ DOMAIN ledger[v] = 1..Len(ledger[v])
                        /\ DOMAIN ledger'[v] = 1..Len(ledger'[v])

(* A posting (an update of the wallet row and the insert of an entry) does *)
(* just that.                                                              *)
LEMMA PostAppends ==
  ASSUME NEW E, BookType(E), NEW w \in Wallets, NEW type, NEW amount,
         NEW source, Post(w, type, amount, source)
  PROVE  Appended(w, type, amount, source)
BY DEF BookType, Post, Appended

(* Without a posting the book says what it said.                           *)
LEMMA BookFrame ==
  ASSUME UNCHANGED bookVars
  PROVE  /\ LedgerExplainsBalance => LedgerExplainsBalance'
         /\ NothingPostedTwice => NothingPostedTwice'
         /\ \A s : Posted(s)' <=> Posted(s)
BY DEF bookVars, LedgerExplainsBalance, BalanceAt, NothingPostedTwice, Posted

(* A posting keeps the book well typed.                                    *)
LEMMA PostTypes ==
  ASSUME NEW orders, NEW purposes, BookType(Entries(orders, purposes)),
         NEW w \in Wallets, NEW type \in EntryTypes, NEW amount \in Nat,
         NEW o \in orders, NEW p \in purposes,
         Post(w, type, amount, Source(o, p))
  PROVE  BookType(Entries(orders, purposes))'
<1>1. Applied(balance[w], type, amount) \in Int
  BY DEF BookType, Applied
<1>2. [type |-> type, amount |-> amount,
       balanceAfter |-> Applied(balance[w], type, amount),
       source |-> Source(o, p)] \in Entries(orders, purposes)
  BY <1>1 DEF Entries, Source
<1>3. balance' \in [Wallets -> Int]
  BY <1>1 DEF BookType, Post
<1>4. ledger' \in [Wallets -> Seq(Entries(orders, purposes))]
  BY <1>2 DEF BookType, Post
<1> QED
  BY <1>3, <1>4 DEF BookType

(* A posting enters its own source, and removes none.                      *)
LEMMA PostPosts ==
  ASSUME NEW E, BookType(E), NEW w \in Wallets, NEW type, NEW amount,
         NEW source, Post(w, type, amount, source), NEW s
  PROVE  Posted(s)' <=> Posted(s) \/ s = source
<1>a. Appended(w, type, amount, source)
  BY PostAppends
<1>1. ASSUME Posted(s)'
      PROVE  Posted(s) \/ s = source
  <2>1. PICK v \in Wallets : \E i \in DOMAIN ledger'[v] : ledger'[v][i].source = s
    BY <1>1 DEF Posted
  <2>2. PICK i \in DOMAIN ledger'[v] : ledger'[v][i].source = s
    BY <2>1
  <2>3. CASE v # w
    BY <2>2, <2>3, <1>a DEF Appended, Posted
  <2>4. CASE v = w /\ i = Len(ledger[w]) + 1
    BY <2>2, <2>4, <1>a DEF Appended
  <2>5. CASE v = w /\ i # Len(ledger[w]) + 1
    <3>1. i \in 1..Len(ledger[w])
      BY <2>5, <1>a DEF Appended
    <3> QED
      BY <2>2, <2>5, <3>1, <1>a DEF Appended, Posted
  <2> QED
    BY <2>3, <2>4, <2>5
<1>2. ASSUME Posted(s)
      PROVE  Posted(s)'
  <2>1. PICK v \in Wallets : \E i \in DOMAIN ledger[v] : ledger[v][i].source = s
    BY <1>2 DEF Posted
  <2>2. PICK i \in DOMAIN ledger[v] : ledger[v][i].source = s
    BY <2>1
  <2>3. i \in DOMAIN ledger'[v] /\ ledger'[v][i] = ledger[v][i]
    BY <2>2, <1>a DEF Appended
  <2> QED
    BY <2>2, <2>3 DEF Posted
<1>3. ASSUME s = source
      PROVE  Posted(s)'
  <2>1. Len(ledger[w]) + 1 \in DOMAIN ledger'[w]
    BY <1>a DEF Appended
  <2> QED
    BY <1>3, <2>1, <1>a DEF Appended, Posted
<1> QED
  BY <1>1, <1>2, <1>3

(* A posting keeps the balance explained by the ledger.                    *)
LEMMA PostExplains ==
  ASSUME NEW E, BookType(E), LedgerExplainsBalance,
         NEW w \in Wallets, NEW type, NEW amount, NEW source,
         Post(w, type, amount, source)
  PROVE  LedgerExplainsBalance'
<1>a. Appended(w, type, amount, source)
  BY PostAppends
<1>1. \A v \in Wallets \ {w} : \A n \in 0..Len(ledger[v]) :
        BalanceAt(v, n)' = BalanceAt(v, n)
  BY <1>a DEF Appended, BalanceAt
<1>2. \A n \in 0..Len(ledger[w]) : BalanceAt(w, n)' = BalanceAt(w, n)
  BY <1>a DEF Appended, BalanceAt
<1>3. BalanceAt(w, Len(ledger[w]))' = Applied(balance[w], type, amount)
  <2>1. Len(ledger'[w]) # 0 /\ Len(ledger'[w]) = Len(ledger[w]) + 1
    BY <1>a DEF Appended
  <2>2. ledger'[w][Len(ledger'[w])].balanceAfter =
          Applied(balance[w], type, amount)
    BY <2>1, <1>a DEF Appended
  <2> QED
    BY <2>1, <2>2 DEF BalanceAt
<1>4. BalanceAt(w, Len(ledger[w])) = balance[w]
  BY DEF LedgerExplainsBalance
<1>5. ASSUME NEW v \in Wallets \ {w}
      PROVE  /\ balance'[v] = BalanceAt(v, Len(ledger[v]))'
             /\ \A i \in 1..Len(ledger'[v]) :
                  BalanceAt(v, i)' =
                    Applied(BalanceAt(v, i - 1)', ledger'[v][i].type,
                            ledger'[v][i].amount)
  <2>1. ledger'[v] = ledger[v] /\ balance'[v] = balance[v] /\ Len(ledger[v]) \in Nat
    BY <1>a DEF Appended
  <2> QED
    BY <1>1, <2>1 DEF LedgerExplainsBalance, BalanceAt
<1>6. balance'[w] = BalanceAt(w, Len(ledger[w]))'
  BY <1>3, <1>a DEF Appended, BalanceAt
<1>7. ASSUME NEW i \in 1..Len(ledger'[w])
      PROVE  BalanceAt(w, i)' =
               Applied(BalanceAt(w, i - 1)', ledger'[w][i].type,
                       ledger'[w][i].amount)
  <2>1. CASE i = Len(ledger[w]) + 1
    <3>1. BalanceAt(w, i - 1)' = balance[w]
      BY <1>2, <1>4, <2>1
    <3>2. ledger'[w][i].type = type /\ ledger'[w][i].amount = amount
      BY <2>1, <1>a DEF Appended
    <3>3. i = Len(ledger'[w])
      BY <2>1, <1>a DEF Appended
    <3> QED
      BY <1>3, <3>1, <3>2, <3>3
  <2>2. CASE i # Len(ledger[w]) + 1
    <3>1. i \in 1..Len(ledger[w]) /\ i - 1 \in 0..Len(ledger[w])
      BY <2>2, <1>a DEF Appended
    <3>2. BalanceAt(w, i) =
            Applied(BalanceAt(w, i - 1), ledger[w][i].type, ledger[w][i].amount)
      BY <3>1 DEF LedgerExplainsBalance
    <3>3. ledger'[w][i] = ledger[w][i]
      BY <3>1, <1>a DEF Appended
    <3> QED
      BY <1>2, <3>1, <3>2, <3>3
  <2> QED
    BY <2>1, <2>2
<1> QED
  BY <1>5, <1>6, <1>7 DEF LedgerExplainsBalance

(* A posting whose source is new leaves nothing posted twice.              *)
LEMMA PostOnce ==
  ASSUME NEW E, BookType(E), NothingPostedTwice,
         NEW w \in Wallets, NEW type, NEW amount, NEW source,
         ~ Posted(source), Post(w, type, amount, source)
  PROVE  NothingPostedTwice'
<1>a. Appended(w, type, amount, source)
  BY PostAppends
<1>1. SUFFICES ASSUME NEW u \in Wallets, NEW v \in Wallets,
                      NEW i \in DOMAIN ledger'[u], NEW j \in DOMAIN ledger'[v],
                      ledger'[u][i].source = ledger'[v][j].source
               PROVE  u = v /\ i = j
  BY DEF NothingPostedTwice
<1> DEFINE New(x, n) == x = w /\ n = Len(ledger[w]) + 1
<1>2. ASSUME NEW x \in Wallets, NEW n \in DOMAIN ledger'[x], ~ New(x, n)
      PROVE  n \in DOMAIN ledger[x] /\ ledger'[x][n] = ledger[x][n]
  <2>1. CASE x # w
    BY <2>1, <1>a DEF Appended
  <2>2. CASE x = w
    <3>1. n \in 1..Len(ledger[w])
      BY <1>2, <2>2, <1>a DEF Appended
    <3> QED
      BY <2>2, <3>1, <1>a DEF Appended
  <2> QED
    BY <2>1, <2>2
<1>3. ASSUME NEW x \in Wallets, NEW n \in DOMAIN ledger'[x], New(x, n)
      PROVE  ledger'[x][n].source = source
  BY <1>3, <1>a DEF Appended
<1>4. CASE ~ New(u, i) /\ ~ New(v, j)
  BY <1>1, <1>2, <1>4 DEF NothingPostedTwice
<1>5. CASE New(u, i) /\ ~ New(v, j)
  BY <1>1, <1>2, <1>3, <1>5 DEF Posted
<1>6. CASE ~ New(u, i) /\ New(v, j)
  BY <1>1, <1>2, <1>3, <1>6 DEF Posted
<1>7. CASE New(u, i) /\ New(v, j)
  BY <1>7
<1> QED
  BY <1>4, <1>5, <1>6, <1>7

=============================================================================
