----------------------------- MODULE BooksProofs -----------------------------
(***************************************************************************)
(* What is proved of the kept book, for any days, exercises, bank lines,    *)
(* bills and bounds: statement and rows agree, the live entries are those   *)
(* of the facts, an invoice is not given up twice, filed months keep their  *)
(* losses, the VAT made due stays within the bill and is exact once it is   *)
(* paid, and between openings a closed book does not move.                  *)
(***************************************************************************)
EXTENDS Books, SumLemmas

Kinds == {"absent", "free", "settled", "invoice", "expense"}
Matches == [kind : Kinds, ref : Nat]

SalesRows ==
    /\ invoices \in [InvoiceIds -> InvoiceRows \cup {None}]
    /\ payments \in [PaymentIds -> PaymentRows \cup {None}]
    /\ losses \in [LossIds -> LossRows \cup {None}]
    /\ moved = [p \in PaymentIds |-> moved[p]]
PurchaseRows ==
    /\ expenses \in [ExpenseIds -> ExpenseRows \cup {None, Deleted}]
    /\ assets = [e \in ExpenseIds |-> assets[e]]
    /\ booked = [e \in ExpenseIds |-> booked[e]]
Rows == matched \in [Lines -> Matches] /\ SalesRows /\ PurchaseRows /\ opened \in 0..2

LEMMA ConstantFacts ==
    /\ Days \subseteq Nat /\ None \notin Nat /\ None \notin Lines
    /\ LineOn \in [Lines -> Days] /\ LineAmount \in [Lines -> Int]
    /\ InvoiceIds \subseteq Nat /\ PaymentIds \subseteq Nat /\ LossIds \subseteq Nat
    /\ ExpenseIds \subseteq Nat
    /\ None \notin InvoiceRows /\ None \notin PaymentRows /\ None \notin LossRows
    /\ None \notin ExpenseRows /\ Deleted \notin ExpenseRows /\ Deleted # None
BY ExercisesAssumption, SalesAssumption, PurchasesAssumption
   DEF InvoiceIds, PaymentIds, LossIds, ExpenseIds

LEMMA MatchIsMatch ==
    ASSUME NEW kind \in Kinds, NEW ref \in Nat
    PROVE  Match(kind, ref) \in Matches
BY DEF Match, Matches

LEMMA FreeLine == Free \in Matches /\ Absent \in Matches
BY MatchIsMatch DEF Kinds, Free, Absent

----------------------------------------------------------------------------
(* Rows stay rows.                                                          *)

LEMMA RowsInit == Init => Rows
<1>1. ASSUME Init PROVE SalesRows
  <2>1. payments \in [PaymentIds -> PaymentRows \cup {None}]
        /\ invoices \in [InvoiceIds -> InvoiceRows \cup {None}]
    <3>1. ASSUME NEW b \in Bills, NEW a \in Amounts, NEW d \in Days
          PROVE  /\ 1 \in InvoiceIds => Payment(1, a, d, None) \in PaymentRows
                 /\ Invoice(b, d, FALSE, None) \in InvoiceRows
      BY SalesAssumption DEF Payment, PaymentRows, Invoice, InvoiceRows
    <3>2. CASE NoSales
      BY <3>2 DEF NoSales
    <3>3. CASE \E b \in Bills, a \in Amounts, d \in Days : OlderSales(b, a, d)
      <4>1. PICK b \in Bills, a \in Amounts, d \in Days : OlderSales(b, a, d)
        BY <3>3
      <4>2. 1 \in InvoiceIds
        BY <4>1, SalesAssumption DEF OlderSales, InvoiceIds
      <4> QED
        BY <3>1, <4>1, <4>2 DEF OlderSales
    <3> QED
      BY <1>1, <3>2, <3>3 DEF Init
  <2> QED
    BY <1>1, <2>1 DEF Init, SalesRows
<1>2. ASSUME Init PROVE PurchaseRows
  <2>1. expenses \in [ExpenseIds -> ExpenseRows \cup {None, Deleted}]
    <3>1. ASSUME NEW a \in Prices, NEW d \in Days
          PROVE  Expense(a, d, "associate", None) \in ExpenseRows
      BY PurchasesAssumption DEF Expense, ExpenseRows, Payers
    <3> QED
      BY <1>2, <3>1 DEF Init, NoPurchases, OlderPurchases
  <2> QED
    BY <1>2, <2>1 DEF Init, PurchaseRows
<1> QED
  BY <1>1, <1>2, FreeLine DEF Init, Rows

LEMMA ExercisesRows == Rows /\ ExercisesNext /\ UNCHANGED <<salesVars, purchaseVars>> => Rows'
<1> SUFFICES ASSUME Rows, ExercisesNext, UNCHANGED <<salesVars, purchaseVars>> PROVE Rows'
  OBVIOUS
<1>1. SalesRows' /\ PurchaseRows'
  BY DEF Rows, SalesRows, PurchaseRows, salesVars, purchaseVars
<1>2. matched' \in [Lines -> Matches] /\ opened' \in 0..2
  <2>1. ASSUME NEW l \in Lines
        PROVE  /\ Match("settled", 0) \in Matches /\ Free \in Matches
    BY MatchIsMatch, FreeLine DEF Kinds
  <2> QED
    BY <2>1 DEF Rows, ExercisesNext, CloseFiscalYear, ApproveFiscalYear, DeleteFiscalYear,
                ImportBankTransactions, SettleBankTransaction, UnsettleBankTransaction
<1> QED
  BY <1>1, <1>2 DEF Rows

LEMMA IssueRows ==
    ASSUME Rows, NEW i \in InvoiceIds, NEW invoice \in InvoiceRows, Issue(i, invoice)
    PROVE  SalesRows' /\ matched' = matched /\ opened' \in 0..2
BY DEF Rows, SalesRows, Issue

LEMMA InvoiceIsRow ==
    ASSUME NEW d \in Days, NEW credits \in InvoiceIds \cup {None}, NEW imported \in BOOLEAN,
           NEW bill, bill.ttc \in Int, bill.vat \in Int
    PROVE  /\ Invoice(bill, d, imported, credits) \in InvoiceRows
           /\ Invoice(bill, d, imported, credits).credits = credits
           /\ Invoice(bill, d, imported, credits).imported = imported
           /\ Invoice(bill, d, imported, credits).on = d
BY DEF Invoice, InvoiceRows

LEMMA PaymentIsRow ==
    ASSUME NEW i \in InvoiceIds, NEW amount \in Int, NEW d \in Days, NEW line \in Lines \cup {None}
    PROVE  /\ Payment(i, amount, d, line) \in PaymentRows
           /\ Payment(i, amount, d, line).invoice = i /\ Payment(i, amount, d, line).amount = amount
           /\ Payment(i, amount, d, line).on = d /\ Payment(i, amount, d, line).line = line
           /\ ~Payment(i, amount, d, line).voided
BY DEF Payment, PaymentRows

LEMMA CreditIsRow ==
    ASSUME Rows, NEW of \in Written(invoices), NEW d \in Days
    PROVE  /\ of \in InvoiceIds /\ invoices[of] \in InvoiceRows
           /\ Invoice(Negated(invoices[of]), d, FALSE, of) \in InvoiceRows
           /\ Invoice(Negated(invoices[of]), d, FALSE, of).credits = of
<1>1. of \in InvoiceIds /\ invoices[of] \in InvoiceRows
  BY DEF Rows, SalesRows, Written
<1>2. Negated(invoices[of]).ttc \in Int /\ Negated(invoices[of]).vat \in Int
  BY <1>1 DEF Negated, InvoiceRows
<1> QED
  BY <1>1, <1>2 DEF Invoice, InvoiceRows

LEMMA SyncCollectionRows ==
    ASSUME Rows, NEW p \in PaymentIds, SyncCollection(p)
    PROVE  /\ moved' = [q \in PaymentIds |-> moved'[q]]
           /\ \A q \in PaymentIds : moved'[q] # moved[q] => q = p /\ ~Closed(payments'[p].on)
<1>1. moved' = [moved EXCEPT ![p] = DesiredCollection(payments', moved, p)]
  BY DEF SyncCollection, Synced
<1>2. moved' # moved => ~Closed(payments'[p].on)
  BY DEF SyncCollection
<1> QED
  BY <1>1, <1>2 DEF Rows, SalesRows

----------------------------------------------------------------------------
(* An opening goes through receipts in an order that exists, and what it    *)
(* writes is what the receipts before the last one left, with the last one  *)
(* written after them.                                                      *)

LEMMA LatestIsIn ==
    ASSUME Rows, NEW S, S \subseteq LivePayments, IsFiniteSet(S), S # {}
    PROVE  Latest(S) \in S
<1> DEFINE IsLatest(p, s) == p \in s /\ \A q \in s \ {p} : ByDay(q, p)
           bad == {s \in SUBSET S : s # {} /\ ~\E p \in s : IsLatest(p, s)}
<1>1. ASSUME bad # {} PROVE FALSE
  <2>1. PICK s \in bad : \A t \in bad : t \subseteq s => t = s
    <3>1. bad \subseteq SUBSET S
      OBVIOUS
    <3> HIDE DEF bad
    <3> QED BY <1>1, <3>1, SmallestSubset
  <2>2. s \in bad
    BY <2>1
  <2>3. PICK x : x \in s
    BY <2>2
  <2>4. s \ {x} # {}
    <3>1. ~IsLatest(x, s)
      BY <2>2, <2>3
    <3> QED
      BY <2>3, <3>1
  <2>5. s \ {x} \notin bad
    BY <2>1, <2>3
  <2>6. PICK y \in s \ {x} : IsLatest(y, s \ {x})
    BY <2>2, <2>4, <2>5
  <2>7. \A p \in S : p \in Nat /\ payments[p].on \in Nat
    BY ConstantFacts DEF LivePayments, Written, Rows, SalesRows, PaymentRows
  <2>8. s \subseteq S
    BY <2>2
  <2>9. CASE ByDay(x, y)
    <3>1. IsLatest(y, s)
      BY <2>3, <2>6, <2>9
    <3> QED
      BY <2>2, <2>6, <3>1
  <2>10. CASE ~ByDay(x, y)
    <3>1. ByDay(y, x)
      BY <2>3, <2>6, <2>7, <2>8, <2>10 DEF ByDay
    <3>2. ASSUME NEW q \in s \ {x} PROVE ByDay(q, x)
      <4>1. q = y \/ ByDay(q, y)
        BY <2>6, <3>2
      <4> QED
        BY <2>3, <2>6, <2>7, <2>8, <3>1, <4>1 DEF ByDay
    <3> QED
      BY <2>2, <2>3, <3>2
  <2> QED
    BY <2>9, <2>10
<1>2. \E p \in S : IsLatest(p, S)
  <2>1. S \notin bad
    BY <1>1
  <2> QED
    BY <2>1
<1> QED
  BY <1>2 DEF Latest

(* What the receipts of each subset of S leave, written in their order.     *)
Walks(S, h) ==
    h = [s \in SUBSET S |-> IF s = {} THEN moved
                            ELSE Synced(payments, h[s \ {Latest(s)}], Latest(s))]

LEMMA ResyncedIs == ASSUME NEW S PROVE Resynced(S) = (CHOOSE h : Walks(S, h))[S]
BY DEF Resynced, MapThenFoldSet, Walks

LEMMA WalksUnique ==
    ASSUME Rows, NEW S, S \subseteq LivePayments, IsFiniteSet(S),
           NEW T \in SUBSET S, NEW U \in SUBSET S,
           NEW h, NEW k, Walks(T, h), Walks(U, k)
    PROVE  \A s \in SUBSET (T \cap U) : h[s] = k[s]
<1> DEFINE bad == {s \in SUBSET (T \cap U) : h[s] # k[s]}
<1> SUFFICES ASSUME bad # {} PROVE FALSE
  OBVIOUS
<1>1. bad \subseteq SUBSET S
  OBVIOUS
<1>2. PICK s \in bad : \A t \in bad : t \subseteq s => t = s
  <2> HIDE DEF bad
  <2> QED BY <1>1, SmallestSubset
<1> DEFINE p == Latest(s)
           r == s \ {p}
<1>3. s \in SUBSET T /\ s \in SUBSET U /\ h[s] # k[s] /\ s \in SUBSET S
  BY <1>2
<1>4. h[s] = IF s = {} THEN moved ELSE Synced(payments, h[r], p)
  BY <1>3 DEF Walks
<1>5. k[s] = IF s = {} THEN moved ELSE Synced(payments, k[r], p)
  BY <1>3 DEF Walks
<1>6. s # {}
  BY <1>3, <1>4, <1>5
<1>7. p \in s
  <2>1. s \subseteq LivePayments /\ IsFiniteSet(s)
    BY <1>3, FS_Subset
  <2> QED
    BY <1>6, <2>1, LatestIsIn
<1>8. r \in SUBSET (T \cap U) /\ r # s /\ r \subseteq s
  BY <1>3, <1>7
<1>9. h[r] = k[r]
  <2>1. r \notin bad
    BY <1>2, <1>8
  <2> QED
    BY <1>8, <2>1
<1> QED
  BY <1>3, <1>4, <1>5, <1>6, <1>9

LEMMA WalksExists ==
    ASSUME Rows, NEW S, S \subseteq LivePayments, IsFiniteSet(S)
    PROVE  \E h : Walks(S, h)
<1> DEFINE bad == {s \in SUBSET S : ~\E h : Walks(s, h)}
<1> SUFFICES ASSUME bad # {} PROVE FALSE
  OBVIOUS
<1>1. PICK s \in bad : \A t \in bad : t \subseteq s => t = s
  <2>1. bad \subseteq SUBSET S
    OBVIOUS
  <2> HIDE DEF bad
  <2> QED BY <2>1, SmallestSubset
<1>2. s \in SUBSET S /\ ~\E h : Walks(s, h)
  BY <1>1
<1> DEFINE below(t) == CHOOSE h : Walks(t, h)
           rest(t) == t \ {Latest(t)}
           part(t) == IF t = {} THEN moved
                      ELSE Synced(payments, below(rest(t))[rest(t)], Latest(t))
           whole == [t \in SUBSET s |-> part(t)]
<1>3. \A t \in SUBSET s : t # s => Walks(t, below(t))
  BY <1>1, <1>2
<1>4. ASSUME NEW t \in SUBSET s, t # {}
      PROVE  rest(t) \in SUBSET s /\ rest(t) # s /\ rest(t) \in SUBSET t
  <2>1. t \subseteq LivePayments /\ IsFiniteSet(t)
    BY <1>2, FS_Subset
  <2>2. Latest(t) \in t
    BY <1>4, <2>1, LatestIsIn
  <2> QED
    BY <2>2
<1>5. ASSUME NEW t \in SUBSET s, t # s
      PROVE  below(t)[t] = part(t)
  <2>1. Walks(t, below(t))
    BY <1>3, <1>5
  <2> HIDE DEF below
  <2>2. CASE t = {}
    BY <2>1, <2>2 DEF Walks
  <2>3. CASE t # {}
    <3> DEFINE u == rest(t)
    <3>1. u \in SUBSET s /\ u # s /\ u \in SUBSET t
      BY <1>4, <2>3
    <3>2. Walks(u, below(u))
      BY <1>3, <3>1
    <3>3. below(t)[u] = below(u)[u]
      <4> DEFINE h == below(t)
                 k == below(u)
      <4>1. Walks(t, h) /\ Walks(u, k) /\ u \in SUBSET (t \cap u)
        BY <2>1, <3>1, <3>2
      <4>2. t \in SUBSET S /\ u \in SUBSET S
        BY <1>2, <3>1
      <4> HIDE DEF h, k, u
      <4>3. h[u] = k[u]
        BY <4>1, <4>2, WalksUnique
      <4> QED BY <4>3 DEF h, k
    <3>4. below(t)[t] = Synced(payments, below(t)[u], Latest(t))
      BY <2>1, <2>3 DEF Walks
    <3> QED BY <2>3, <3>3, <3>4
  <2> QED BY <2>2, <2>3
<1>6. ASSUME NEW t \in SUBSET s
      PROVE  part(t) = IF t = {} THEN moved ELSE Synced(payments, whole[rest(t)], Latest(t))
  <2>1. CASE t # {}
    <3>1. whole[rest(t)] = below(rest(t))[rest(t)]
      <4> DEFINE u == rest(t)
      <4>1. u \in SUBSET s /\ u # s
        BY <1>4, <2>1
      <4> HIDE DEF u, below, part
      <4>2. below(u)[u] = part(u)
        BY <1>5, <4>1
      <4>3. whole[u] = part(u)
        BY <4>1
      <4> QED BY <4>2, <4>3 DEF u
    <3> HIDE DEF whole, below, rest
    <3> QED BY <2>1, <3>1
  <2> QED BY <2>1
<1>7. Walks(s, whole)
  <2> HIDE DEF part
  <2> SUFFICES ASSUME NEW t \in SUBSET s
               PROVE  part(t) = IF t = {} THEN moved
                                ELSE Synced(payments, whole[t \ {Latest(t)}], Latest(t))
    <3>1. whole = [t \in SUBSET s |->
                     IF t = {} THEN moved
                     ELSE Synced(payments, whole[t \ {Latest(t)}], Latest(t))]
      OBVIOUS
    <3> QED BY <3>1 DEF Walks
  <2> QED BY <1>6
<1> QED
  BY <1>2, <1>7

(* A walk through the receipts S, its end and its steps.                    *)
LEMMA Walk ==
    ASSUME Rows, NEW S, S \subseteq LivePayments, IsFiniteSet(S)
    PROVE  \E h : /\ h[S] = Resynced(S) /\ h[{}] = moved
                  /\ \A s \in SUBSET S : s # {} =>
                       /\ Latest(s) \in s
                       /\ h[s] = Synced(payments, h[s \ {Latest(s)}], Latest(s))
<1> DEFINE h == CHOOSE h : Walks(S, h)
<1>1. Walks(S, h)
  BY WalksExists
<1>2. h[S] = Resynced(S)
  BY ResyncedIs
<1> HIDE DEF h
<1>3. h[{}] = moved
  BY <1>1 DEF Walks
<1>4. ASSUME NEW s \in SUBSET S, s # {}
      PROVE  Latest(s) \in s /\ h[s] = Synced(payments, h[s \ {Latest(s)}], Latest(s))
  <2>1. s \subseteq LivePayments /\ IsFiniteSet(s)
    BY FS_Subset
  <2> QED
    BY <1>1, <1>4, <2>1, LatestIsIn DEF Walks
<1> QED
  BY <1>2, <1>3, <1>4

LEMMA LiveIsFinite == Rows => LivePayments \subseteq PaymentIds /\ IsFiniteSet(LivePayments)
<1> SUFFICES ASSUME Rows PROVE LivePayments \subseteq PaymentIds /\ IsFiniteSet(LivePayments)
  OBVIOUS
<1>1. LivePayments \subseteq PaymentIds
  BY DEF LivePayments, Written, Rows, SalesRows
<1>2. IsFiniteSet(PaymentIds)
  BY FS_Interval, SalesAssumption DEF PaymentIds
<1> QED
  BY <1>1, <1>2, FS_Subset

LEMMA ResyncedRows ==
    ASSUME Rows
    PROVE  \E last : Resynced(LivePayments) = [p \in PaymentIds |-> last[p]]
<1>1. LivePayments \subseteq PaymentIds /\ IsFiniteSet(LivePayments)
  BY LiveIsFinite
<1>2. PICK h : /\ h[LivePayments] = Resynced(LivePayments) /\ h[{}] = moved
               /\ \A s \in SUBSET LivePayments : s # {} =>
                    /\ Latest(s) \in s
                    /\ h[s] = Synced(payments, h[s \ {Latest(s)}], Latest(s))
  BY <1>1, Walk
<1> DEFINE bad == {s \in SUBSET LivePayments : h[s] # [p \in PaymentIds |-> h[s][p]]}
<1>3. ASSUME bad # {} PROVE FALSE
  <2>1. PICK s \in bad : \A t \in bad : t \subseteq s => t = s
    <3>1. bad \subseteq SUBSET LivePayments
      OBVIOUS
    <3> HIDE DEF bad
    <3> QED BY <1>1, <1>3, <3>1, SmallestSubset
  <2>2. s \in SUBSET LivePayments /\ h[s] # [p \in PaymentIds |-> h[s][p]]
    BY <2>1
  <2>3. s # {}
    BY <1>2, <2>2 DEF Rows, SalesRows
  <2> DEFINE r == s \ {Latest(s)}
  <2>4. Latest(s) \in s /\ h[s] = Synced(payments, h[r], Latest(s))
    BY <1>2, <2>2, <2>3
  <2>5. r \in SUBSET LivePayments /\ r \subseteq s /\ r # s
    BY <2>2, <2>4
  <2>6. h[r] = [p \in PaymentIds |-> h[r][p]]
    BY <2>1, <2>5
  <2> HIDE DEF r
  <2>7. h[s] = [h[r] EXCEPT ![Latest(s)] = DesiredCollection(payments, h[r], Latest(s))]
    BY <2>4 DEF Synced
  <2> QED
    BY <2>2, <2>6, <2>7
<1>4. LivePayments \notin bad
  BY <1>3
<1> QED
  BY <1>2, <1>4

----------------------------------------------------------------------------
(* Every step of Sales, told by what it does to the rows of invoices and    *)
(* losses.                                                                  *)
LEMMA SalesSteps ==
    ASSUME Rows, SalesNext
    PROVE  \/ \E i \in InvoiceIds, invoice \in InvoiceRows :
                /\ Issue(i, invoice)
                /\ invoice.credits # None =>
                     /\ invoice.credits \in Written(invoices)
                     /\ invoice.imported \/ ActiveLosses(invoice.credits) = {}
           \/ \E w \in LossIds, i \in InvoiceIds, d \in Days : WriteOffReceivable(w, i, d)
           \/ \E w \in LossIds, d \in Days : RetractWriteOff(w, d)
           \/ \E m \in Months : MarkDutyFiled(m) \/ RetractDutyFiled(m)
           \/ \E p \in PaymentIds, i \in InvoiceIds, a \in Amounts, d \in Days :
                RecordPayment(p, i, a, d)
           \/ \E p \in PaymentIds, i \in InvoiceIds, l \in Lines : ReconcileTransaction(l, p, i)
           \/ \E p \in PaymentIds : VoidPayment(p)
           \/ BackfillServiceBookings
<1>1. ASSUME NEW i \in InvoiceIds, NEW d \in Days, NEW b \in Bills,
             EmitInvoice(i, b, d) \/ ImportIssuedInvoice(i, b, d)
      PROVE  \E invoice \in InvoiceRows : Issue(i, invoice) /\ invoice.credits = None
  <2>1. ASSUME NEW imported \in BOOLEAN
        PROVE  /\ Invoice(b, d, imported, None) \in InvoiceRows
               /\ Invoice(b, d, imported, None).credits = None
    BY SalesAssumption DEF Invoice, InvoiceRows
  <2> QED
    BY <1>1, <2>1 DEF EmitInvoice, ImportIssuedInvoice
<1>2. ASSUME NEW i \in InvoiceIds, NEW d \in Days, NEW of \in InvoiceIds, NEW b \in ForeignCredits,
             ImportCreditNote(i, b, d, of)
      PROVE  \E invoice \in InvoiceRows :
               Issue(i, invoice) /\ invoice.imported /\ invoice.credits \in Written(invoices)
  <2>1. Invoice(b, d, TRUE, of) \in InvoiceRows /\ Invoice(b, d, TRUE, of).imported
        /\ Invoice(b, d, TRUE, of).credits = of
    BY SalesAssumption DEF Invoice, InvoiceRows
  <2> QED
    BY <1>2, <2>1 DEF ImportCreditNote
<1>3. ASSUME NEW i \in InvoiceIds, NEW d \in Days, NEW of \in InvoiceIds, IssueCreditNote(i, d, of)
      PROVE  \E invoice \in InvoiceRows :
               /\ Issue(i, invoice) /\ invoice.credits \in Written(invoices)
               /\ ActiveLosses(invoice.credits) = {}
  <2>1. of \in Written(invoices) /\ ActiveLosses(of) = {}
        /\ Issue(i, Invoice(Negated(invoices[of]), d, FALSE, of))
    BY <1>3 DEF IssueCreditNote
  <2> QED
    BY <2>1, CreditIsRow
<1> QED
  BY <1>1, <1>2, <1>3 DEF SalesNext

LEMMA SalesNextRows == Rows /\ SalesNext /\ UNCHANGED purchaseVars => Rows'
<1> SUFFICES ASSUME Rows, SalesNext, UNCHANGED purchaseVars PROVE Rows'
  OBVIOUS
<1>1. PurchaseRows'
  BY DEF Rows, PurchaseRows, purchaseVars
<1>2. SalesRows' /\ matched' \in [Lines -> Matches] /\ opened' \in 0..2
  <2>1. ASSUME NEW i \in InvoiceIds, NEW invoice \in InvoiceRows, Issue(i, invoice)
        PROVE  SalesRows' /\ matched' \in [Lines -> Matches] /\ opened' \in 0..2
    BY <2>1, IssueRows DEF Rows
  <2>2. ASSUME NEW w \in LossIds, NEW i \in InvoiceIds, NEW d \in Days, WriteOffReceivable(w, i, d)
        PROVE  SalesRows' /\ matched' = matched /\ opened' = opened
    BY <2>2 DEF Rows, SalesRows, WriteOffReceivable, LossRows
  <2>3. ASSUME NEW w \in LossIds, NEW d \in Days, RetractWriteOff(w, d)
        PROVE  SalesRows' /\ matched' = matched /\ opened' = opened
    <3>1. losses[w] \in LossRows
      BY <2>3 DEF Rows, SalesRows, RetractWriteOff, Written
    <3>2. [losses[w] EXCEPT !.retracted = d] \in LossRows
      BY <3>1 DEF LossRows
    <3> QED
      BY <2>3, <3>2 DEF Rows, SalesRows, RetractWriteOff
  <2>4. ASSUME NEW m \in Months, MarkDutyFiled(m) \/ RetractDutyFiled(m)
        PROVE  SalesRows' /\ matched' = matched /\ opened' = opened
    BY <2>4 DEF Rows, SalesRows, MarkDutyFiled, RetractDutyFiled
  <2>5. ASSUME NEW p \in PaymentIds, NEW i \in InvoiceIds, NEW a \in Amounts, NEW d \in Days,
               RecordPayment(p, i, a, d)
        PROVE  SalesRows' /\ matched' = matched /\ opened' = opened
    <3>1. Payment(i, a, d, None) \in PaymentRows
      BY PaymentIsRow, SalesAssumption
    <3> QED
      BY <2>5, <3>1, SyncCollectionRows DEF Rows, SalesRows, RecordPayment
  <2>6. ASSUME NEW p \in PaymentIds, NEW i \in InvoiceIds, NEW l \in Lines,
               ReconcileTransaction(l, p, i)
        PROVE  SalesRows' /\ matched' \in [Lines -> Matches] /\ opened' = opened
    <3>1. Payment(i, LineAmount[l], LineOn[l], l) \in PaymentRows
      BY PaymentIsRow, ConstantFacts, ZenonT(60)
    <3>2. Match("invoice", i) \in Matches
      BY MatchIsMatch, ConstantFacts DEF Kinds
    <3> QED
      BY <2>6, <3>1, <3>2, SyncCollectionRows DEF Rows, SalesRows, ReconcileTransaction
  <2>7. ASSUME NEW p \in PaymentIds, VoidPayment(p)
        PROVE  SalesRows' /\ matched' \in [Lines -> Matches] /\ opened' = opened
    <3>1. payments[p] \in PaymentRows
      BY <2>7 DEF Rows, SalesRows, VoidPayment, Written
    <3>2. [payments[p] EXCEPT !.voided = TRUE] \in PaymentRows
      BY <3>1 DEF PaymentRows
    <3>3. payments' \in [PaymentIds -> PaymentRows \cup {None}]
      BY <2>7, <3>2 DEF Rows, SalesRows, VoidPayment
    <3>4. matched' \in [Lines -> Matches]
      BY <2>7, <3>1, FreeLine DEF Rows, VoidPayment, PaymentRows
    <3> QED
      BY <2>7, <3>3, <3>4, SyncCollectionRows DEF Rows, SalesRows, VoidPayment
  <2>8. ASSUME BackfillServiceBookings
        PROVE  SalesRows' /\ matched' = matched /\ opened' \in 0..2
    <3>1. moved' = Resynced(LivePayments)
      BY <2>8 DEF BackfillServiceBookings
    <3>2. \E last : Resynced(LivePayments) = [p \in PaymentIds |-> last[p]]
      BY ResyncedRows
    <3>3. moved' = [p \in PaymentIds |-> moved'[p]]
      BY <3>1, <3>2
    <3> QED
      BY <2>8, <3>3 DEF Rows, SalesRows, BackfillServiceBookings
  <2> QED
    BY <2>1, <2>2, <2>3, <2>4, <2>5, <2>6, <2>7, <2>8, SalesSteps DEF Rows
<1> QED
  BY <1>1, <1>2 DEF Rows

LEMMA SyncExpenseRows ==
    ASSUME Rows, NEW e \in ExpenseIds, SyncExpensePayment(e)
    PROVE  /\ booked' = [f \in ExpenseIds |-> booked'[f]]
           /\ booked'[e] = Desired(expenses', matched', assets', e)
           /\ \A f \in ExpenseIds : booked'[f] # booked[f] =>
                /\ f = e
                /\ \A entry \in {booked[f], booked'[f]} \ {None} : ~Closed(entry.on)
BY DEF SyncExpensePayment, Rows, PurchaseRows

LEMMA ExpenseIsRow ==
    ASSUME NEW a \in Nat, NEW d \in Days, NEW by \in Payers, NEW r \in Receipts \cup {None}
    PROVE  /\ Expense(a, d, by, r) \in ExpenseRows /\ Expense(a, d, by, r).amount = a
           /\ Expense(a, d, by, r).on = d /\ Expense(a, d, by, r).by = by
BY DEF Expense, ExpenseRows

LEMMA PurchasesNextRows == Rows /\ PurchasesNext /\ UNCHANGED salesVars => Rows'
<1> SUFFICES ASSUME Rows, PurchasesNext, UNCHANGED salesVars PROVE Rows'
  OBVIOUS
<1>1. SalesRows'
  BY DEF Rows, SalesRows, salesVars
<1>2. PurchaseRows' /\ matched' \in [Lines -> Matches] /\ opened' \in 0..2
  <2> USE DEF Rows, PurchaseRows
  <2>1. ASSUME NEW e \in ExpenseIds, NEW d \in Days, NEW r \in Receipts \cup {None},
               NEW a \in Prices, NEW by \in Payers,
               RecordExpense(e, a, d, by, r) \/ UpdateExpense(e, a, d, by, r)
        PROVE  PurchaseRows' /\ matched' = matched /\ opened' = opened
    <3>1. Expense(a, d, by, r) \in ExpenseRows
      BY ExpenseIsRow, PurchasesAssumption
    <3> QED
      BY <2>1, <3>1, SyncExpenseRows DEF RecordExpense, UpdateExpense
  <2>2. ASSUME NEW e \in ExpenseIds, NEW d \in Days, NEW r \in Receipts \cup {None},
               NEW l \in Lines, RecordPaidExpense(e, l, d, r)
        PROVE  PurchaseRows' /\ matched' \in [Lines -> Matches] /\ opened' = opened
    <3>1. -LineAmount[l] \in Nat
      <4>1. LineAmount[l] < 0 /\ LineAmount[l] \in Int
        BY <2>2, ConstantFacts DEF RecordPaidExpense, Matchable
      <4> QED
        BY <4>1
    <3>2. Expense(-LineAmount[l], d, "company", r) \in ExpenseRows
      BY <3>1, ExpenseIsRow DEF Payers
    <3>3. Match("expense", e) \in Matches
      BY MatchIsMatch, ConstantFacts DEF Kinds
    <3> QED
      BY <2>2, <3>2, <3>3, SyncExpenseRows DEF RecordPaidExpense
  <2>3. ASSUME NEW e \in ExpenseIds, NEW l \in Lines, ReconcileExpense(l, e)
        PROVE  PurchaseRows' /\ matched' \in [Lines -> Matches] /\ opened' = opened
    <3>1. Match("expense", e) \in Matches
      BY MatchIsMatch, ConstantFacts DEF Kinds
    <3> QED
      BY <2>3, <3>1, SyncExpenseRows DEF ReconcileExpense
  <2>4. ASSUME NEW e \in ExpenseIds, NEW r \in Receipts, AttachReceipt(e, r)
        PROVE  PurchaseRows' /\ matched' = matched /\ opened' = opened
    <3>1. expenses[e] \in ExpenseRows
      BY <2>4 DEF AttachReceipt, Kept
    <3>2. [expenses[e] EXCEPT !.receipt = r] \in ExpenseRows
      BY <3>1 DEF ExpenseRows
    <3> QED
      BY <2>4, <3>2, SyncExpenseRows DEF AttachReceipt
  <2>5. ASSUME NEW e \in ExpenseIds, DeleteExpense(e)
        PROVE  PurchaseRows' /\ matched' \in [Lines -> Matches] /\ opened' = opened
    BY <2>5, FreeLine, SyncExpenseRows DEF DeleteExpense
  <2>6. ASSUME NEW e \in ExpenseIds, NEW d \in Days, AddFixedAsset(e, d)
        PROVE  PurchaseRows' /\ matched' = matched /\ opened' = opened
    BY <2>6, SyncExpenseRows DEF AddFixedAsset
  <2>7. ASSUME NEW e \in ExpenseIds, DeleteFixedAsset(e)
        PROVE  PurchaseRows' /\ matched' = matched /\ opened' = opened
    BY <2>7, SyncExpenseRows DEF DeleteFixedAsset
  <2>8. ASSUME BackfillExpensePayments
        PROVE  PurchaseRows' /\ matched' = matched /\ opened' \in 0..2
    BY <2>8 DEF BackfillExpensePayments
  <2> QED
    BY <2>1, <2>2, <2>3, <2>4, <2>5, <2>6, <2>7, <2>8, ZenonT(60) DEF PurchasesNext
<1> QED
  BY <1>1, <1>2 DEF Rows

LEMMA DeleteLineRows ==
    ASSUME Rows, NEW l \in Lines, DeleteBankTransaction(l)
    PROVE  Rows'
BY FreeLine
   DEF Rows, SalesRows, PurchaseRows, DeleteBankTransaction, salesVars, purchaseVars

LEMMA UnreconcileRows ==
    ASSUME Rows, NEW l \in Lines, UnreconcileTransaction(l)
    PROVE  Rows'
<1>1. payments' \in [PaymentIds -> PaymentRows \cup {None}]
  <2>1. ASSUME NEW p \in PaymentsFrom(l)
        PROVE  [payments[p] EXCEPT !.voided = TRUE] \in PaymentRows
    <3>1. payments[p] \in PaymentRows
      BY DEF PaymentsFrom, LivePayments, Written, Rows, SalesRows
    <3> QED
      BY <3>1 DEF PaymentRows
  <2> QED
    BY <2>1 DEF Rows, SalesRows, UnreconcileTransaction
<1>2. moved' = [p \in PaymentIds |-> moved'[p]]
  <2>1. PaymentsFrom(l) \subseteq PaymentIds
    BY DEF PaymentsFrom, LivePayments, Written, Rows, SalesRows
  <2> QED
    BY <2>1, SyncCollectionRows DEF Rows, SalesRows, UnreconcileTransaction
<1>3. booked' = [e \in ExpenseIds |-> booked'[e]]
  <2>1. ASSUME SyncExpensePayment(matched[l].ref)
        PROVE  booked' = [e \in ExpenseIds |-> booked'[e]]
    BY <2>1 DEF SyncExpensePayment, Rows, PurchaseRows
  <2> QED
    BY <2>1 DEF Rows, PurchaseRows, UnreconcileTransaction
<1> QED
  BY <1>1, <1>2, <1>3, FreeLine DEF Rows, SalesRows, PurchaseRows, UnreconcileTransaction

(* Every row is of its type, whatever the bounds.                           *)
LEMMA RowsStep == Rows /\ [Next]_vars => Rows'
<1> SUFFICES ASSUME Rows, [Next]_vars PROVE Rows'
  OBVIOUS
<1>1. CASE UNCHANGED vars
  BY <1>1 DEF vars, salesVars, purchaseVars, Rows, SalesRows, PurchaseRows
<1>2. CASE Next
  BY <1>2, ExercisesRows, SalesNextRows, PurchasesNextRows, DeleteLineRows, UnreconcileRows
     DEF Next
<1> QED
  BY <1>1, <1>2

LEMMA RowsInvariant == Spec => []Rows
BY RowsInit, RowsStep, PTL DEF Spec

----------------------------------------------------------------------------
(* Losses.                                                                  *)

LEMMA InvoicesAndLosses ==
    ASSUME Rows, Next
    PROVE  \/ UNCHANGED <<invoices, losses>>
           \/ \E i \in InvoiceIds, invoice \in InvoiceRows :
                /\ Issue(i, invoice)
                /\ invoice.credits # None =>
                     invoice.imported \/ ActiveLosses(invoice.credits) = {}
           \/ \E w \in LossIds, i \in InvoiceIds, d \in Days : WriteOffReceivable(w, i, d)
           \/ \E w \in LossIds, d \in Days : RetractWriteOff(w, d)
<1>1. SalesNext \/ UNCHANGED <<invoices, losses>>
  BY DEF Next, salesVars, UnreconcileTransaction, DeleteBankTransaction
<1> QED
  BY <1>1, SalesSteps DEF MarkDutyFiled, RetractDutyFiled, RecordPayment, ReconcileTransaction,
     VoidPayment, BackfillServiceBookings

(* A loss of a filed month neither appears nor is retracted.                *)
THEOREM FiledMonths == Spec => FiledMonthsKeepLosses
<1> DEFINE Stays == \A w \in LossIds : losses'[w] # losses[w] => MonthOf[losses'[w].on] \notin filed
<1>1. Rows /\ [Next]_vars => [Stays]_vars
  <2> SUFFICES ASSUME Rows, Next PROVE Stays
    OBVIOUS
  <2>3. ASSUME NEW i \in InvoiceIds, NEW invoice \in InvoiceRows, Issue(i, invoice)
        PROVE  Stays
    BY <2>3 DEF Issue
  <2>1. ASSUME NEW w \in LossIds, NEW i \in InvoiceIds, NEW d \in Days, WriteOffReceivable(w, i, d)
        PROVE  Stays
    BY <2>1 DEF WriteOffReceivable, Rows, SalesRows
  <2>2. ASSUME NEW w \in LossIds, NEW d \in Days, RetractWriteOff(w, d)
        PROVE  Stays
    <3>1. losses[w] \in LossRows
      BY <2>2 DEF RetractWriteOff, Written, Rows, SalesRows
    <3>2. [losses[w] EXCEPT !.retracted = d].on = losses[w].on
      BY <3>1 DEF LossRows
    <3> QED
      BY <2>2, <3>2 DEF RetractWriteOff, Rows, SalesRows
  <2> QED
    BY <2>1, <2>2, <2>3, InvoicesAndLosses
<1> QED
  BY <1>1, RowsInvariant, PTL DEF Spec, FiledMonthsKeepLosses

LossInv ==
    /\ \A w \in Written(losses) : losses[w].invoice \in Written(invoices)
    /\ LossOrCredit

LEMMA LossStep == Rows /\ LossInv /\ [Next]_vars => LossInv'
<1> SUFFICES ASSUME Rows, LossInv, [Next]_vars PROVE LossInv'
  OBVIOUS
<1> USE ConstantFacts DEF Rows, SalesRows, LossInv
<1>1. CASE UNCHANGED <<invoices, losses>>
  BY <1>1 DEF LossOrCredit, Written, ActiveLosses, CreditsOf
<1>2. ASSUME NEW i \in InvoiceIds, NEW invoice \in InvoiceRows, Issue(i, invoice),
             invoice.credits # None => invoice.imported \/ ActiveLosses(invoice.credits) = {}
      PROVE  LossInv'
  <2>1. /\ i \notin Written(invoices) /\ losses' = losses /\ invoice # None
        /\ invoices' = [invoices EXCEPT ![i] = invoice]
    BY <1>2 DEF Issue, Fresh, Written
  <2>2. Written(losses') = Written(losses) /\ Written(invoices') = Written(invoices) \cup {i}
    BY <2>1 DEF Written
  <2>3. \A j : ActiveLosses(j)' = ActiveLosses(j)
    BY <2>1 DEF ActiveLosses, Written
  <2>4. ASSUME NEW j \in Written(invoices'), ActiveLosses(j) # {}, NEW c \in CreditsOf(j)'
        PROVE  invoices'[c].imported
    <3>1. j \in Written(invoices) /\ j # None /\ j # i
      BY <2>1, <2>4 DEF ActiveLosses, Written
    <3>2. CASE c = i
      BY <1>2, <2>1, <2>4, <3>1, <3>2 DEF CreditsOf
    <3>3. CASE c # i
      BY <2>1, <2>2, <2>4, <3>1, <3>3 DEF CreditsOf, LossOrCredit, Written
    <3> QED
      BY <3>2, <3>3
  <2> QED
    BY <2>1, <2>2, <2>3, <2>4 DEF LossOrCredit
<1>3. ASSUME NEW w \in LossIds, NEW i \in InvoiceIds, NEW d \in Days, WriteOffReceivable(w, i, d)
      PROVE  LossInv'
  <2> DEFINE loss == [invoice |-> i, on |-> d, retracted |-> None]
  <2>1. /\ i \in Written(invoices) /\ CreditsOf(i) = {} /\ invoices' = invoices
        /\ losses[w] = None /\ losses' = [losses EXCEPT ![w] = loss] /\ loss.invoice = i
    BY <1>3 DEF WriteOffReceivable, HasCreditNote, Fresh
  <2>2. \A v \in Written(losses') : v = w \/ (v \in Written(losses) /\ losses'[v] = losses[v])
    BY <2>1 DEF Written
  <2>3. \A v \in Written(losses') : losses'[v].invoice \in Written(invoices')
    BY <2>1, <2>2 DEF Written
  <2>4. ASSUME NEW j \in Written(invoices'), j # i, ActiveLosses(j)' # {}
        PROVE  ActiveLosses(j) # {}
    <3>1. PICK v \in Written(losses') : losses'[v].invoice = j /\ losses'[v].retracted = None
      BY <2>4 DEF ActiveLosses
    <3>2. losses'[w] = loss
      BY <2>1
    <3>3. v # w
      BY <2>1, <2>4, <3>1, <3>2
    <3>4. v \in ActiveLosses(j)
      BY <2>2, <3>1, <3>3 DEF ActiveLosses
    <3> QED
      BY <3>4
  <2>5. Written(invoices') = Written(invoices) /\ \A j : CreditsOf(j)' = CreditsOf(j)
    BY <2>1 DEF CreditsOf, Written
  <2> QED
    BY <2>1, <2>3, <2>4, <2>5 DEF LossOrCredit
<1>4. ASSUME NEW w \in LossIds, NEW d \in Days, RetractWriteOff(w, d)
      PROVE  LossInv'
  <2>1. /\ invoices' = invoices /\ losses[w] \in LossRows
        /\ losses' = [losses EXCEPT ![w] = [losses[w] EXCEPT !.retracted = d]]
    BY <1>4 DEF RetractWriteOff, Written
  <2>2. \A v \in Written(losses') :
          /\ v \in Written(losses) /\ losses'[v].invoice = losses[v].invoice
          /\ losses'[v].retracted = None => losses[v].retracted = None
    BY <2>1 DEF Written, LossRows
  <2>3. \A j : ActiveLosses(j)' \subseteq ActiveLosses(j)
    BY <2>2 DEF ActiveLosses
  <2>4. Written(invoices') = Written(invoices) /\ \A j : CreditsOf(j)' = CreditsOf(j)
    BY <2>1 DEF CreditsOf, Written
  <2> QED
    BY <2>1, <2>2, <2>3, <2>4 DEF LossOrCredit
<1>5. CASE UNCHANGED vars
  BY <1>1, <1>5 DEF vars, salesVars
<1> QED
  BY <1>1, <1>2, <1>3, <1>4, <1>5, InvoicesAndLosses

(* A loss in force and a credit note made here never bear on one invoice.   *)
THEOREM NotGivenUpTwice == Spec => []LossOrCredit
<1>1. Init => LossInv
  BY DEF Init, LossInv, LossOrCredit, Written, ActiveLosses
<1>2. LossInv => LossOrCredit
  BY DEF LossInv
<1> QED
  BY <1>1, <1>2, LossStep, RowsInvariant, PTL DEF Spec

----------------------------------------------------------------------------
(* The statement.                                                           *)

PaymentSide(l) ==
    /\ matched[l].kind # "invoice" => PaymentsFrom(l) = {}
    /\ matched[l].kind = "invoice" => \E p \in LivePayments :
         /\ PaymentsFrom(l) = {p}
         /\ payments[p].invoice = matched[l].ref
         /\ payments[p].amount = LineAmount[l] /\ payments[p].on = LineOn[l]
ExpenseSide(l) ==
    matched[l].kind = "expense" =>
      /\ matched[l].ref \in Kept
      /\ expenses[matched[l].ref].by = "company"
      /\ expenses[matched[l].ref].amount = -LineAmount[l]
      /\ LinesOf(matched, matched[l].ref) = {l}

LEMMA StatementSides == StatementAgrees <=> \A l \in Lines : PaymentSide(l) /\ ExpenseSide(l)
BY DEF StatementAgrees, PaymentSide, ExpenseSide

LEMMA PaymentSideKept ==
    ASSUME NEW l \in Lines, PaymentSide(l), PaymentsFrom(l)' = PaymentsFrom(l),
           \A p \in PaymentsFrom(l) : payments'[p] = payments[p],
           matched'[l] = matched[l] \/ (matched[l].kind # "invoice" /\ matched'[l].kind # "invoice")
    PROVE  PaymentSide(l)'
<1>1. CASE matched'[l] # matched[l] \/ matched[l].kind # "invoice"
  BY <1>1 DEF PaymentSide
<1>2. CASE matched'[l] = matched[l] /\ matched[l].kind = "invoice"
  <2>1. PICK p \in LivePayments :
          /\ PaymentsFrom(l) = {p} /\ payments[p].invoice = matched[l].ref
          /\ payments[p].amount = LineAmount[l] /\ payments[p].on = LineOn[l]
    BY <1>2 DEF PaymentSide
  <2>2. p \in PaymentsFrom(l)' /\ payments'[p] = payments[p]
    BY <2>1
  <2>3. p \in LivePayments'
    BY <2>2 DEF PaymentsFrom
  <2> QED
    BY <1>2, <2>1, <2>2, <2>3 DEF PaymentSide
<1> QED
  BY <1>1, <1>2

LEMMA ExpenseSideKept ==
    ASSUME NEW l \in Lines, ExpenseSide(l),
           \A k \in Lines : matched'[k] = matched[k] \/ matched'[k].kind # "expense",
           \A e \in Kept : LinesOf(matched, e) # {} /\ LinesOf(matched', e) # {} =>
             /\ e \in Kept' /\ expenses'[e].by = expenses[e].by
             /\ expenses'[e].amount = expenses[e].amount
    PROVE  ExpenseSide(l)'
<1> SUFFICES ASSUME matched'[l].kind = "expense" PROVE ExpenseSide(l)'
  BY DEF ExpenseSide
<1> DEFINE e == matched[l].ref
<1>1. matched'[l] = matched[l] /\ matched[l].kind = "expense" /\ matched'[l].ref = e
  OBVIOUS
<1>2. /\ e \in Kept /\ expenses[e].by = "company" /\ expenses[e].amount = -LineAmount[l]
      /\ LinesOf(matched, e) = {l}
  BY <1>1 DEF ExpenseSide
<1>3. LinesOf(matched', e) = {l}
  BY <1>1, <1>2 DEF LinesOf, Match
<1> QED
  BY <1>1, <1>2, <1>3 DEF ExpenseSide

(* A step that leaves payments, expenses and matches with them.             *)
LEMMA StatementUntouched ==
    ASSUME StatementAgrees, payments' = payments, expenses' = expenses,
           \A l \in Lines : matched'[l] = matched[l] \/
             (matched[l].kind # "invoice" /\ matched'[l].kind \notin {"invoice", "expense"})
    PROVE  StatementAgrees'
<1>1. ASSUME NEW l \in Lines PROVE PaymentSide(l)'
  <2>1. PaymentsFrom(l)' = PaymentsFrom(l)
    BY DEF PaymentsFrom, LivePayments, Written
  <2> QED
    BY <2>1, StatementSides, PaymentSideKept
<1>2. ASSUME NEW l \in Lines PROVE ExpenseSide(l)'
  <2>1. Kept' = Kept
    BY DEF Kept
  <2> QED
    BY <2>1, StatementSides, ExpenseSideKept
<1> QED
  BY <1>1, <1>2, StatementSides DEF StatementAgrees, PaymentSide, ExpenseSide

(* The expenses of a step of Sales, or of one that undoes a match.          *)
LEMMA ExpenseSidesKept ==
    ASSUME StatementAgrees, expenses' = expenses,
           \A k \in Lines : matched'[k] = matched[k] \/ matched'[k].kind # "expense"
    PROVE  \A l \in Lines : ExpenseSide(l)'
<1>1. Kept' = Kept
  BY DEF Kept
<1> QED
  BY <1>1, StatementSides, ExpenseSideKept

LEMMA StatementExercises ==
    Rows /\ StatementAgrees /\ ExercisesNext /\ UNCHANGED <<salesVars, purchaseVars>>
      => StatementAgrees'
<1> SUFFICES ASSUME Rows, StatementAgrees, ExercisesNext, UNCHANGED <<salesVars, purchaseVars>>
             PROVE  StatementAgrees'
  OBVIOUS
<1>1. ASSUME UNCHANGED matched PROVE StatementAgrees'
  BY <1>1, StatementUntouched DEF salesVars, purchaseVars
<1>2. ASSUME NEW l \in Lines, NEW m \in {Free, Match("settled", 0)},
             matched[l].kind \in {"absent", "free", "settled"}, matched' = [matched EXCEPT ![l] = m]
      PROVE  StatementAgrees'
  <2>1. m.kind \notin {"invoice", "expense"}
    BY DEF Free, Match
  <2>2. \A k \in Lines : matched'[k] = matched[k] \/
             (matched[k].kind # "invoice" /\ matched'[k].kind \notin {"invoice", "expense"})
    BY <1>2, <2>1 DEF Rows
  <2> QED
    BY <2>2, StatementUntouched DEF salesVars, purchaseVars
<1>3. Absent.kind = "absent" /\ Free.kind = "free"
  BY DEF Absent, Free, Match
<1> QED
  BY <1>1, <1>2, <1>3 DEF ExercisesNext, CloseFiscalYear, ApproveFiscalYear, DeleteFiscalYear,
     ImportBankTransactions, SettleBankTransaction, UnsettleBankTransaction

LEMMA StatementSales ==
    Rows /\ StatementAgrees /\ SalesNext /\ UNCHANGED purchaseVars => StatementAgrees'
<1> SUFFICES ASSUME Rows, StatementAgrees, SalesNext, UNCHANGED purchaseVars
             PROVE  StatementAgrees'
  OBVIOUS
<1>1. ASSUME UNCHANGED <<matched, payments>> PROVE StatementAgrees'
  BY <1>1, StatementUntouched DEF purchaseVars
<1>2. ASSUME NEW p \in PaymentIds, NEW i \in InvoiceIds, NEW a \in Amounts, NEW d \in Days,
             RecordPayment(p, i, a, d)
      PROVE  StatementAgrees'
  <2> DEFINE new == Payment(i, a, d, None)
  <2>1. /\ payments[p] = None /\ payments' = [payments EXCEPT ![p] = new] /\ matched' = matched
        /\ new.line = None
    BY <1>2, PaymentIsRow, SalesAssumption DEF RecordPayment, Fresh
  <2>2. /\ \A q \in PaymentIds \ {p} : payments'[q] = payments[q]
        /\ payments'[p] = new /\ DOMAIN payments' = PaymentIds /\ DOMAIN payments = PaymentIds
    BY <2>1 DEF Rows, SalesRows
  <2>3. ASSUME NEW l \in Lines PROVE PaymentSide(l)'
    <3>1. p \notin PaymentsFrom(l) /\ p \notin PaymentsFrom(l)'
      BY <2>1, <2>2, ConstantFacts DEF PaymentsFrom, LivePayments, Written
    <3>2. PaymentsFrom(l)' = PaymentsFrom(l)
      BY <2>2, <3>1 DEF PaymentsFrom, LivePayments, Written
    <3>3. \A q \in PaymentsFrom(l) : payments'[q] = payments[q]
      BY <2>2, <3>1 DEF PaymentsFrom, LivePayments, Written
    <3> QED
      BY <2>1, <3>2, <3>3, StatementSides, PaymentSideKept
  <2>4. \A l \in Lines : ExpenseSide(l)'
    BY <2>1, ExpenseSidesKept DEF purchaseVars
  <2> QED
    BY <2>3, <2>4 DEF StatementAgrees, PaymentSide, ExpenseSide
<1>3. ASSUME NEW p \in PaymentIds, NEW i \in InvoiceIds, NEW m \in Lines,
             ReconcileTransaction(m, p, i)
      PROVE  StatementAgrees'
  <2> DEFINE new == Payment(i, LineAmount[m], LineOn[m], m)
  <2>1. /\ payments[p] = None /\ payments' = [payments EXCEPT ![p] = new]
        /\ matched[m] = Free /\ matched' = [matched EXCEPT ![m] = Match("invoice", i)]
    BY <1>3 DEF ReconcileTransaction, Fresh
  <2>2. /\ new.invoice = i /\ new.amount = LineAmount[m] /\ new.on = LineOn[m] /\ new.line = m
        /\ ~new.voided /\ new # None
    <3>1. LineAmount[m] \in Int /\ LineOn[m] \in Days /\ None \notin PaymentRows
      BY ConstantFacts
    <3> QED
      BY <3>1, PaymentIsRow
  <2>3. /\ \A q \in PaymentIds \ {p} : payments'[q] = payments[q]
        /\ payments'[p] = new /\ DOMAIN payments' = PaymentIds /\ DOMAIN payments = PaymentIds
    BY <2>1 DEF Rows, SalesRows
  <2>4. /\ matched'[m].kind = "invoice" /\ matched'[m].ref = i /\ matched[m].kind # "invoice"
        /\ \A l \in Lines \ {m} : matched'[l] = matched[l]
    BY <2>1 DEF Rows, Match, Free
  <2>5. PaymentSide(m)'
    <3>1. PaymentsFrom(m) = {}
      BY <2>4, StatementSides DEF PaymentSide
    <3>2. PaymentsFrom(m)' = {p} /\ p \in LivePayments'
      BY <2>2, <2>3, <3>1 DEF PaymentsFrom, LivePayments, Written
    <3> QED
      BY <2>2, <2>3, <2>4, <3>2 DEF PaymentSide
  <2>6. ASSUME NEW l \in Lines, l # m PROVE PaymentSide(l)'
    <3>1. p \notin PaymentsFrom(l) /\ p \notin PaymentsFrom(l)'
      BY <2>1, <2>2, <2>3, <2>6 DEF PaymentsFrom, LivePayments, Written
    <3>2. PaymentsFrom(l)' = PaymentsFrom(l)
      BY <2>3, <3>1 DEF PaymentsFrom, LivePayments, Written
    <3>3. \A q \in PaymentsFrom(l) : payments'[q] = payments[q]
      BY <2>3, <3>1 DEF PaymentsFrom, LivePayments, Written
    <3> QED
      BY <2>4, <2>6, <3>2, <3>3, StatementSides, PaymentSideKept
  <2>7. \A l \in Lines : ExpenseSide(l)'
    BY <2>4, ExpenseSidesKept DEF purchaseVars
  <2> QED
    BY <2>5, <2>6, <2>7 DEF StatementAgrees, PaymentSide, ExpenseSide
<1>4. ASSUME NEW p \in PaymentIds, VoidPayment(p)
      PROVE  StatementAgrees'
  <2>1. /\ payments[p] \in PaymentRows /\ p \in LivePayments
        /\ payments' = [payments EXCEPT ![p] = [payments[p] EXCEPT !.voided = TRUE]]
        /\ matched' = IF payments[p].line = None THEN matched
                      ELSE [matched EXCEPT ![payments[p].line] = Free]
    BY <1>4 DEF VoidPayment, Rows, SalesRows, Written, LivePayments
  <2>2. /\ \A q \in PaymentIds \ {p} : payments'[q] = payments[q]
        /\ payments'[p].voided /\ DOMAIN payments' = PaymentIds /\ DOMAIN payments = PaymentIds
    BY <2>1 DEF Rows, SalesRows, PaymentRows
  <2>3. ASSUME NEW l \in Lines
        PROVE  /\ matched'[l] = IF payments[p].line = l THEN Free ELSE matched[l]
               /\ PaymentsFrom(l)' = PaymentsFrom(l) \ {p}
               /\ p \in PaymentsFrom(l) <=> payments[p].line = l
    BY <2>1, <2>2, ConstantFacts DEF Rows, PaymentsFrom, LivePayments, Written, PaymentRows
  <2>4. ASSUME NEW l \in Lines PROVE PaymentSide(l)'
    <3>1. CASE payments[p].line = l
      <4>1. p \in PaymentsFrom(l)
        BY <2>3, <3>1
      <4>2. PaymentsFrom(l) = {p}
        BY <4>1, StatementSides DEF PaymentSide
      <4> QED
        BY <2>3, <3>1, <4>2 DEF PaymentSide, Free, Match
    <3>2. CASE payments[p].line # l
      <4>1. PaymentsFrom(l)' = PaymentsFrom(l) /\ matched'[l] = matched[l]
            /\ p \notin PaymentsFrom(l)
        BY <2>3, <3>2
      <4>2. \A q \in PaymentsFrom(l) : payments'[q] = payments[q]
        BY <2>2, <4>1 DEF PaymentsFrom, LivePayments, Written
      <4> QED
        BY <4>1, <4>2, StatementSides, PaymentSideKept
    <3> QED
      BY <3>1, <3>2
  <2>5. \A l \in Lines : ExpenseSide(l)'
    BY <2>3, ExpenseSidesKept DEF purchaseVars, Free, Match
  <2> QED
    BY <2>4, <2>5 DEF StatementAgrees, PaymentSide, ExpenseSide
<1> QED
  BY <1>1, <1>2, <1>3, <1>4, SalesSteps DEF Issue, WriteOffReceivable, RetractWriteOff,
     MarkDutyFiled, RetractDutyFiled, BackfillServiceBookings

(* A step of Purchases that matches nothing: rows in use keep their payer   *)
(* and amount, a row in no use is written, or matches are undone.           *)
LEMMA StatementExpenses ==
    ASSUME Rows, StatementAgrees, payments' = payments,
           \A k \in Lines : matched'[k] = matched[k] \/
             (matched[k].kind = "expense" /\ matched'[k] = Free),
           \A e \in Kept : LinesOf(matched, e) # {} /\ LinesOf(matched', e) # {} =>
             /\ e \in Kept' /\ expenses'[e].by = expenses[e].by
             /\ expenses'[e].amount = expenses[e].amount
    PROVE  StatementAgrees'
<1>1. \A k \in Lines : Free.kind = "free"
  BY DEF Free, Match
<1>2. ASSUME NEW l \in Lines PROVE PaymentSide(l)'
  <2>1. PaymentsFrom(l)' = PaymentsFrom(l)
    BY DEF PaymentsFrom, LivePayments, Written
  <2> QED
    BY <1>1, <2>1, StatementSides, PaymentSideKept
<1>3. ASSUME NEW l \in Lines PROVE ExpenseSide(l)'
  BY <1>1, StatementSides, ExpenseSideKept
<1> QED
  BY <1>2, <1>3 DEF StatementAgrees, PaymentSide, ExpenseSide

(* A line is matched with an expense that no line was matched with.         *)
LEMMA StatementMatch ==
    ASSUME Rows, StatementAgrees, payments' = payments,
           NEW m \in Lines, NEW e \in ExpenseIds,
           matched[m] = Free, matched' = [matched EXCEPT ![m] = Match("expense", e)],
           LinesOf(matched, e) = {},
           \A f \in ExpenseIds \ {e} : expenses'[f] = expenses[f],
           e \in Kept', expenses'[e].by = "company", expenses'[e].amount = -LineAmount[m]
    PROVE  StatementAgrees'
<1>1. /\ \A l \in Lines \ {m} : matched'[l] = matched[l]
      /\ matched'[m] = Match("expense", e)
      /\ matched'[m].kind = "expense" /\ matched'[m].ref = e /\ matched[m].kind = "free"
  BY DEF Rows, Free, Match
<1>2. ASSUME NEW l \in Lines PROVE PaymentSide(l)'
  <2>1. PaymentsFrom(l)' = PaymentsFrom(l)
    BY DEF PaymentsFrom, LivePayments, Written
  <2> QED
    BY <1>1, <2>1, StatementSides, PaymentSideKept
<1>3. ExpenseSide(m)'
  <2>1. LinesOf(matched', e) = {m}
    BY <1>1 DEF LinesOf
  <2> QED
    BY <1>1, <2>1 DEF ExpenseSide
<1>4. ASSUME NEW l \in Lines, l # m PROVE ExpenseSide(l)'
  <2> SUFFICES ASSUME matched'[l].kind = "expense" PROVE ExpenseSide(l)'
    BY DEF ExpenseSide
  <2> DEFINE f == matched[l].ref
  <2>1. matched'[l] = matched[l] /\ matched[l].kind = "expense" /\ matched'[l].ref = f
    BY <1>1, <1>4
  <2>2. /\ f \in Kept /\ expenses[f].by = "company" /\ expenses[f].amount = -LineAmount[l]
        /\ LinesOf(matched, f) = {l}
    BY <2>1, StatementSides DEF ExpenseSide
  <2>3. f # e
    BY <2>2
  <2>4. f \in Kept' /\ expenses'[f] = expenses[f]
    BY <2>2, <2>3 DEF Kept
  <2>5. Match("expense", e) # Match("expense", f)
    BY <2>3 DEF Match
  <2>6. LinesOf(matched', f) = {l}
    BY <1>1, <1>4, <2>2, <2>5 DEF LinesOf
  <2> QED
    BY <2>1, <2>2, <2>4, <2>6 DEF ExpenseSide
<1> QED
  BY <1>2, <1>3, <1>4 DEF StatementAgrees, PaymentSide, ExpenseSide

LEMMA StatementPurchases ==
    Rows /\ StatementAgrees /\ PurchasesNext /\ UNCHANGED salesVars => StatementAgrees'
<1> SUFFICES ASSUME Rows, StatementAgrees, PurchasesNext, UNCHANGED salesVars
             PROVE  StatementAgrees'
  OBVIOUS
<1>1. payments' = payments
  BY DEF salesVars
<1>2. ASSUME UNCHANGED <<matched, expenses>> PROVE StatementAgrees'
  BY <1>1, <1>2, StatementUntouched
<1>3. ASSUME NEW e \in ExpenseIds, matched' = matched, NEW new,
             expenses' = [expenses EXCEPT ![e] = new],
             e \in Kept /\ LinesOf(matched, e) # {} =>
               /\ new \in ExpenseRows /\ new.by = expenses[e].by
               /\ new.amount = expenses[e].amount
      PROVE  StatementAgrees'
  <2>1. ASSUME NEW f \in Kept, LinesOf(matched, f) # {}
        PROVE  /\ f \in Kept' /\ expenses'[f].by = expenses[f].by
               /\ expenses'[f].amount = expenses[f].amount
    BY <1>3, <2>1, ConstantFacts DEF Kept, Rows, PurchaseRows
  <2> QED
    BY <1>1, <1>3, <2>1, StatementExpenses
<1>4. ASSUME NEW e \in ExpenseIds, NEW a \in Prices, NEW d \in Days, NEW by \in Payers,
             NEW r \in Receipts \cup {None},
             RecordExpense(e, a, d, by, r) \/ UpdateExpense(e, a, d, by, r)
      PROVE  StatementAgrees'
  <2> DEFINE new == Expense(a, d, by, r)
  <2>1. new \in ExpenseRows /\ new.by = by /\ new.amount = a
    BY ExpenseIsRow, PurchasesAssumption
  <2>2. matched' = matched /\ expenses' = [expenses EXCEPT ![e] = new]
    BY <1>4 DEF RecordExpense, UpdateExpense
  <2>3. e \in Kept /\ LinesOf(matched, e) # {} =>
          by = expenses[e].by /\ a = expenses[e].amount
    <3> SUFFICES ASSUME e \in Kept, LinesOf(matched, e) # {}
                 PROVE  by = expenses[e].by /\ a = expenses[e].amount
      OBVIOUS
    <3>1. UpdateExpense(e, a, d, by, r)
      BY <1>4 DEF RecordExpense, Unused, Kept
    <3>2. PICK l \in Lines : matched[l] = Match("expense", e)
      BY DEF LinesOf
    <3>3. matched[l].kind = "expense" /\ matched[l].ref = e
      BY <3>2 DEF Match
    <3>4. expenses[e].by = "company"
      BY <3>3, StatementSides DEF ExpenseSide
    <3> QED
      BY <3>1, <3>4 DEF UpdateExpense
  <2> QED
    BY <1>3, <2>1, <2>2, <2>3
<1>5. ASSUME NEW e \in ExpenseIds, NEW r \in Receipts, AttachReceipt(e, r)
      PROVE  StatementAgrees'
  <2>1. expenses[e] \in ExpenseRows
    BY <1>5 DEF AttachReceipt, Kept, Rows, PurchaseRows
  <2> DEFINE new == [expenses[e] EXCEPT !.receipt = r]
  <2>2. new \in ExpenseRows /\ new.by = expenses[e].by /\ new.amount = expenses[e].amount
    BY <2>1 DEF ExpenseRows
  <2>3. matched' = matched /\ expenses' = [expenses EXCEPT ![e] = new]
    BY <1>5 DEF AttachReceipt
  <2> QED
    BY <1>3, <2>2, <2>3
<1>6. ASSUME NEW e \in ExpenseIds, NEW d \in Days, NEW r \in Receipts \cup {None},
             NEW l \in Lines, RecordPaidExpense(e, l, d, r)
      PROVE  StatementAgrees'
  <2> DEFINE new == Expense(-LineAmount[l], d, "company", r)
  <2>1. -LineAmount[l] \in Nat
    <3>1. LineAmount[l] < 0 /\ LineAmount[l] \in Int
      BY <1>6, ConstantFacts DEF RecordPaidExpense, Matchable
    <3> QED
      BY <3>1
  <2>2. new \in ExpenseRows /\ new.by = "company" /\ new.amount = -LineAmount[l]
    BY <2>1, ExpenseIsRow DEF Payers
  <2>3. /\ e \notin Kept /\ expenses' = [expenses EXCEPT ![e] = new]
        /\ matched[l] = Free /\ matched' = [matched EXCEPT ![l] = Match("expense", e)]
    BY <1>6 DEF RecordPaidExpense, Matchable, Unused, Kept
  <2>4. LinesOf(matched, e) = {}
    BY <2>3, StatementSides DEF LinesOf, Match, ExpenseSide
  <2>5. expenses'[e] = new /\ e \in Kept' /\ \A f \in ExpenseIds \ {e} : expenses'[f] = expenses[f]
    BY <2>2, <2>3, ConstantFacts DEF Kept, Rows, PurchaseRows
  <2> QED
    BY <1>1, <2>2, <2>3, <2>4, <2>5, StatementMatch
<1>7. ASSUME NEW e \in ExpenseIds, NEW l \in Lines, ReconcileExpense(l, e)
      PROVE  StatementAgrees'
  <2>1. /\ e \in Kept /\ expenses[e].by = "company" /\ expenses' = expenses
        /\ LinesOf(matched, e) = {} /\ matched[l] = Free
        /\ matched' = [matched EXCEPT ![l] = Match("expense", e)]
        /\ -LineAmount[l] = expenses[e].amount
    BY <1>7 DEF ReconcileExpense, Matchable
  <2>2. e \in Kept'
    BY <2>1 DEF Kept
  <2> QED
    BY <1>1, <2>1, <2>2, StatementMatch
<1>8. ASSUME NEW e \in ExpenseIds, DeleteExpense(e)
      PROVE  StatementAgrees'
  <2>1. /\ expenses' = [expenses EXCEPT ![e] = Deleted]
        /\ matched' = [l \in Lines |-> IF l \in LinesOf(matched, e) THEN Free ELSE matched[l]]
    BY <1>8 DEF DeleteExpense
  <2>2. \A k \in Lines : matched'[k] = matched[k] \/
             (matched[k].kind = "expense" /\ matched'[k] = Free)
    BY <2>1 DEF LinesOf, Match
  <2>3. LinesOf(matched', e) = {}
    BY <2>1 DEF LinesOf, Free, Match
  <2>4. \A f \in Kept \ {e} : f \in Kept' /\ expenses'[f] = expenses[f]
    BY <2>1 DEF Kept
  <2> QED
    BY <1>1, <2>2, <2>3, <2>4, StatementExpenses
<1> QED
  BY <1>2, <1>4, <1>5, <1>6, <1>7, <1>8
     DEF PurchasesNext, AddFixedAsset, DeleteFixedAsset, BackfillExpensePayments

LEMMA StatementUnreconcile ==
    ASSUME Rows, StatementAgrees, NEW m \in Lines, UnreconcileTransaction(m)
    PROVE  StatementAgrees'
<1>1. /\ matched' = [matched EXCEPT ![m] = Free] /\ expenses' = expenses
      /\ payments' = [p \in PaymentIds |-> IF p \in PaymentsFrom(m)
                        THEN [payments[p] EXCEPT !.voided = TRUE] ELSE payments[p]]
  BY DEF UnreconcileTransaction
<1>2. ASSUME NEW l \in Lines
      PROVE matched'[l] = IF l = m THEN Free ELSE matched[l]
  BY <1>1 DEF Rows
<1>3. /\ \A p \in PaymentIds \ PaymentsFrom(m) : payments'[p] = payments[p]
      /\ \A p \in PaymentsFrom(m) : payments'[p].voided
      /\ DOMAIN payments' = PaymentIds /\ DOMAIN payments = PaymentIds
  BY <1>1 DEF PaymentsFrom, LivePayments, Written, Rows, SalesRows, PaymentRows
<1>4. PaymentSide(m)'
  <2>1. PaymentsFrom(m)' = {}
    BY <1>3 DEF PaymentsFrom, LivePayments, Written
  <2> QED
    BY <1>2, <2>1 DEF PaymentSide, Free, Match
<1>5. ASSUME NEW l \in Lines, l # m PROVE PaymentSide(l)'
  <2>1. \A p \in PaymentsFrom(l) : p \notin PaymentsFrom(m) /\ p \in PaymentIds
    BY <1>3, <1>5 DEF PaymentsFrom, LivePayments, Written
  <2>2. PaymentsFrom(l)' = PaymentsFrom(l)
    BY <1>3, <2>1 DEF PaymentsFrom, LivePayments, Written
  <2> QED
    BY <1>2, <1>3, <1>5, <2>1, <2>2, StatementSides, PaymentSideKept
<1>6. \A l \in Lines : ExpenseSide(l)'
  BY <1>1, <1>2, ExpenseSidesKept DEF Free, Match
<1> QED
  BY <1>4, <1>5, <1>6 DEF StatementAgrees, PaymentSide, ExpenseSide

(* At most one live payment comes from a line, and it is the line's match.  *)
THEOREM StatementCorrect == Spec => []StatementAgrees
<1>1. Init => StatementAgrees
  <2>1. ASSUME Init, NEW l \in Lines
        PROVE  /\ matched[l].kind = "absent"
               /\ \A p \in Written(payments) : payments[p].line = None
    <3>1. matched[l] = Absent
      BY <2>1 DEF Init
    <3>2. CASE NoSales
      BY <3>1, <3>2 DEF NoSales, Written, Absent, Match
    <3>3. ASSUME NEW b \in Bills, NEW a \in Amounts, NEW d \in Days, OlderSales(b, a, d)
          PROVE  \A p \in Written(payments) : payments[p].line = None
      BY <3>3 DEF OlderSales, Written, Payment
    <3> QED
      BY <2>1, <3>1, <3>2, <3>3 DEF Init, Absent, Match
  <2> QED
    BY <2>1, ConstantFacts DEF StatementAgrees, PaymentsFrom, LivePayments
<1>2. Rows /\ StatementAgrees /\ [Next]_vars => StatementAgrees'
  <2> SUFFICES ASSUME Rows, StatementAgrees, [Next]_vars PROVE StatementAgrees'
    OBVIOUS
  <2>1. ASSUME NEW l \in Lines, DeleteBankTransaction(l) PROVE StatementAgrees'
    <3>1. /\ matched[l].kind = "free" /\ matched' = [matched EXCEPT ![l] = Absent]
          /\ Absent.kind = "absent" /\ UNCHANGED <<payments, expenses>>
      BY <2>1 DEF DeleteBankTransaction, Free, Absent, Match, salesVars, purchaseVars
    <3>2. \A k \in Lines : matched'[k] = matched[k] \/
             (matched[k].kind # "invoice" /\ matched'[k].kind \notin {"invoice", "expense"})
      BY <3>1 DEF Rows
    <3> QED
      BY <3>1, <3>2, StatementUntouched
  <2>2. CASE UNCHANGED vars
    BY <2>2, StatementUntouched DEF vars, salesVars, purchaseVars
  <2> QED
    BY <2>1, <2>2, StatementExercises, StatementSales, StatementPurchases, StatementUnreconcile
       DEF Next
<1> QED
  BY <1>1, <1>2, RowsInvariant, PTL DEF Spec

----------------------------------------------------------------------------
(* The live entries of sales and expenses.                                  *)

LEMMA DesiredSame ==
    ASSUME NEW e \in ExpenseIds, expenses'[e] = expenses[e], assets'[e] = assets[e],
           LinesOf(matched', e) = LinesOf(matched, e)
    PROVE  Desired(expenses', matched', assets', e) = Desired(expenses, matched, assets, e)
BY DEF Desired

BookInv ==
    /\ opened # 2 => sold \subseteq Written(invoices)
    /\ opened = 2 => SalesBooked
    /\ opened = 0 => \A e \in ExpenseIds : booked[e] = None
    /\ opened # 0 => ExpensesBooked

LEMMA ExpensesStayBooked ==
    ASSUME ExpensesBooked, booked' = booked,
           \A e \in ExpenseIds : /\ expenses'[e] = expenses[e] /\ assets'[e] = assets[e]
                                 /\ LinesOf(matched', e) = LinesOf(matched, e)
    PROVE  ExpensesBooked'
BY DesiredSame DEF ExpensesBooked

LEMMA ExpenseSynced ==
    ASSUME Rows, ExpensesBooked, NEW e \in ExpenseIds, SyncExpensePayment(e),
           \A f \in ExpenseIds \ {e} :
             /\ expenses'[f] = expenses[f] /\ assets'[f] = assets[f]
             /\ LinesOf(matched', f) = LinesOf(matched, f)
    PROVE  ExpensesBooked'
<1>1. booked'[e] = Desired(expenses', matched', assets', e)
  BY SyncExpenseRows
<1>2. \A f \in ExpenseIds \ {e} : booked'[f] = booked[f]
  BY DEF SyncExpensePayment, Rows, PurchaseRows
<1> QED
  BY <1>1, <1>2, DesiredSame DEF ExpensesBooked

(* Matches that are not with an expense, before nor after.                  *)
LEMMA LinesKept ==
    ASSUME NEW e, \A l \in Lines : matched'[l] = matched[l] \/
             (matched[l].kind # "expense" /\ matched'[l].kind # "expense")
    PROVE  LinesOf(matched', e) = LinesOf(matched, e)
BY DEF LinesOf, Match

LEMMA MatchedElsewhere ==
    ASSUME Rows, NEW l \in Lines, NEW e, NEW f, f # e,
           matched[l] = Free \/ (matched[l].kind = "expense" /\ matched[l].ref = e),
           NEW m, m = Free \/ m = Match("expense", e), matched' = [matched EXCEPT ![l] = m]
    PROVE  LinesOf(matched', f) = LinesOf(matched, f)
<1>1. \A k \in Lines \ {l} : matched'[k] = matched[k]
  BY DEF Rows
<1>2. matched'[l] # Match("expense", f) /\ matched[l] # Match("expense", f)
  BY DEF Rows, Match, Free
<1> QED
  BY <1>1, <1>2 DEF LinesOf

LEMMA BookExercises ==
    Rows /\ BookInv /\ ExercisesNext /\ UNCHANGED <<salesVars, purchaseVars>> => BookInv'
<1> SUFFICES ASSUME Rows, BookInv, ExercisesNext, UNCHANGED <<salesVars, purchaseVars>>
             PROVE  BookInv'
  OBVIOUS
<1>1. \A l \in Lines : matched'[l] = matched[l] \/
             (matched[l].kind # "expense" /\ matched'[l].kind # "expense")
  <2>1. ASSUME NEW l \in Lines, NEW m \in {Free, Match("settled", 0)},
               matched[l].kind # "expense", matched' = [matched EXCEPT ![l] = m]
        PROVE  \A k \in Lines : matched'[k] = matched[k] \/
                 (matched[k].kind # "expense" /\ matched'[k].kind # "expense")
    BY <2>1 DEF Rows, Free, Match
  <2>2. Absent.kind = "absent" /\ Free.kind = "free"
    BY DEF Absent, Free, Match
  <2> QED
    BY <2>1, <2>2 DEF ExercisesNext, CloseFiscalYear, ApproveFiscalYear, DeleteFiscalYear,
       ImportBankTransactions, SettleBankTransaction, UnsettleBankTransaction
<1>2. opened' = opened
  BY DEF ExercisesNext, CloseFiscalYear, ApproveFiscalYear, DeleteFiscalYear,
     ImportBankTransactions, SettleBankTransaction, UnsettleBankTransaction
<1>3. UNCHANGED <<invoices, sold, expenses, assets, booked>>
  BY DEF salesVars, purchaseVars
<1>4. ExpensesBooked => ExpensesBooked'
  BY <1>1, <1>3, LinesKept, ExpensesStayBooked
<1> QED
  BY <1>2, <1>3, <1>4 DEF BookInv, SalesBooked, Written

LEMMA BookSales ==
    Rows /\ StatementAgrees /\ BookInv /\ SalesNext /\ UNCHANGED purchaseVars => BookInv'
<1> SUFFICES ASSUME Rows, StatementAgrees, BookInv, SalesNext, UNCHANGED purchaseVars
             PROVE  BookInv'
  OBVIOUS
<1>1. UNCHANGED <<expenses, assets, booked>>
  BY DEF purchaseVars
<1>2. ASSUME UNCHANGED <<invoices, sold, opened>>,
             \A l \in Lines : matched'[l] = matched[l] \/
               (matched[l].kind # "expense" /\ matched'[l].kind # "expense")
      PROVE  BookInv'
  <2>1. ExpensesBooked => ExpensesBooked'
    BY <1>1, <1>2, LinesKept, ExpensesStayBooked
  <2> QED
    BY <1>1, <1>2, <2>1 DEF BookInv, SalesBooked, Written
<1>3. ASSUME NEW i \in InvoiceIds, NEW invoice \in InvoiceRows, Issue(i, invoice)
      PROVE  BookInv'
  <2>1. /\ opened = 2 /\ opened' = 2 /\ matched' = matched /\ sold' = sold \cup {i}
        /\ invoices' = [invoices EXCEPT ![i] = invoice] /\ invoice # None
    BY <1>3, ConstantFacts DEF Issue
  <2>2. Written(invoices') = Written(invoices) \cup {i}
    BY <2>1 DEF Written, Rows, SalesRows
  <2>3. ExpensesBooked'
    BY <1>1, <2>1, ExpensesStayBooked DEF BookInv
  <2>4. SalesBooked'
    BY <2>1, <2>2 DEF BookInv, SalesBooked
  <2> QED
    BY <2>1, <2>3, <2>4 DEF BookInv
<1>4. ASSUME NEW p \in PaymentIds, NEW i \in InvoiceIds, NEW l \in Lines,
             ReconcileTransaction(l, p, i)
      PROVE  BookInv'
  BY <1>2, <1>4 DEF ReconcileTransaction, Rows, Free, Match
<1>5. ASSUME NEW p \in PaymentIds, VoidPayment(p)
      PROVE  BookInv'
  <2>1. p \in LivePayments /\ payments[p] \in PaymentRows /\ UNCHANGED <<invoices, sold, opened>>
        /\ matched' = IF payments[p].line = None THEN matched
                      ELSE [matched EXCEPT ![payments[p].line] = Free]
    BY <1>5 DEF VoidPayment, LivePayments, Written, Rows, SalesRows
  <2>2. ASSUME payments[p].line # None PROVE matched[payments[p].line].kind = "invoice"
    <3>1. payments[p].line \in Lines /\ p \in PaymentsFrom(payments[p].line)
      BY <2>1, <2>2 DEF PaymentRows, PaymentsFrom
    <3> QED
      BY <3>1 DEF StatementAgrees
  <2>3. \A l \in Lines : matched'[l] = matched[l] \/
               (matched[l].kind # "expense" /\ matched'[l].kind # "expense")
    BY <2>1, <2>2 DEF Rows, Free, Match
  <2> QED
    BY <1>2, <2>1, <2>3
<1>6. ASSUME BackfillServiceBookings PROVE BookInv'
  <2>1. /\ opened \in {1, 2} /\ opened' = 2 /\ matched' = matched /\ invoices' = invoices
        /\ sold' = sold \cup Written(invoices)
    BY <1>6 DEF BackfillServiceBookings, Rows
  <2>2. ExpensesBooked'
    BY <1>1, <2>1, ExpensesStayBooked DEF BookInv
  <2>3. SalesBooked'
    BY <2>1 DEF BookInv, SalesBooked, Written
  <2> QED
    BY <2>1, <2>2, <2>3 DEF BookInv
<1> QED
  BY <1>2, <1>3, <1>4, <1>5, <1>6, SalesSteps DEF WriteOffReceivable, RetractWriteOff,
     MarkDutyFiled, RetractDutyFiled, RecordPayment

LEMMA BookPurchases ==
    Rows /\ BookInv /\ PurchasesNext /\ UNCHANGED salesVars => BookInv'
<1> SUFFICES ASSUME Rows, BookInv, PurchasesNext, UNCHANGED salesVars PROVE BookInv'
  OBVIOUS
<1>1. UNCHANGED <<invoices, sold>>
  BY DEF salesVars
<1>2. ASSUME NEW e \in ExpenseIds, SyncExpensePayment(e), opened = 2, opened' = 2,
             \A f \in ExpenseIds \ {e} :
               /\ expenses'[f] = expenses[f] /\ assets'[f] = assets[f]
               /\ LinesOf(matched', f) = LinesOf(matched, f)
      PROVE  BookInv'
  <2>1. ExpensesBooked'
    BY <1>2, ExpenseSynced DEF BookInv
  <2> QED
    BY <1>1, <1>2, <2>1 DEF BookInv, SalesBooked, Written
<1>3. ASSUME NEW e \in ExpenseIds, SyncExpensePayment(e), opened = 2, opened' = 2,
             matched' = matched, assets' = assets,
             expenses' = expenses \/ \E new : expenses' = [expenses EXCEPT ![e] = new]
      PROVE  BookInv'
  BY <1>2, <1>3 DEF Rows, PurchaseRows
<1>4. ASSUME NEW e \in ExpenseIds, DeleteFixedAsset(e) \/ \E d \in Days : AddFixedAsset(e, d)
      PROVE  BookInv'
  BY <1>2, <1>4 DEF AddFixedAsset, DeleteFixedAsset, Rows, PurchaseRows
<1>5. ASSUME NEW e \in ExpenseIds, NEW l \in Lines,
             \/ ReconcileExpense(l, e)
             \/ \E d \in Days, r \in Receipts \cup {None} : RecordPaidExpense(e, l, d, r)
      PROVE  BookInv'
  <2>1. matched[l] = Free /\ matched' = [matched EXCEPT ![l] = Match("expense", e)]
    BY <1>5 DEF RecordPaidExpense, ReconcileExpense, Matchable
  <2>2. \A f \in ExpenseIds \ {e} : LinesOf(matched', f) = LinesOf(matched, f)
    BY <2>1, MatchedElsewhere
  <2>3. /\ SyncExpensePayment(e) /\ opened = 2 /\ opened' = 2 /\ assets' = assets
        /\ expenses' = expenses \/ \E new : expenses' = [expenses EXCEPT ![e] = new]
    BY <1>5 DEF RecordPaidExpense, ReconcileExpense
  <2> QED
    BY <1>2, <2>2, <2>3 DEF Rows, PurchaseRows
<1>6. ASSUME NEW e \in ExpenseIds, DeleteExpense(e)
      PROVE  BookInv'
  <2>1. /\ SyncExpensePayment(e) /\ opened = 2 /\ opened' = 2 /\ assets' = assets
        /\ expenses' = [expenses EXCEPT ![e] = Deleted]
        /\ matched' = [l \in Lines |-> IF l \in LinesOf(matched, e) THEN Free ELSE matched[l]]
    BY <1>6 DEF DeleteExpense
  <2>2. ASSUME NEW f \in ExpenseIds, f # e PROVE LinesOf(matched', f) = LinesOf(matched, f)
    BY <2>1, <2>2 DEF LinesOf, Match, Free
  <2> QED
    BY <1>2, <2>1, <2>2 DEF Rows, PurchaseRows
<1>7. ASSUME BackfillExpensePayments PROVE BookInv'
  <2>1. /\ UNCHANGED <<expenses, assets, matched>> /\ opened' # 0
        /\ opened' = 2 => opened = 2
    BY <1>7 DEF BackfillExpensePayments, Rows
  <2>2. ASSUME NEW e \in ExpenseIds
        PROVE  booked'[e] = Desired(expenses', matched', assets', e)
    <3>1. booked'[e] = IF Desired(expenses, matched, assets, e) = None THEN booked[e]
                       ELSE Desired(expenses, matched, assets, e)
      BY <1>7 DEF BackfillExpensePayments
    <3>2. Desired(expenses, matched, assets, e) = None => booked[e] = None
      BY DEF BookInv, ExpensesBooked
    <3>3. Desired(expenses', matched', assets', e) = Desired(expenses, matched, assets, e)
      BY <2>1, DesiredSame
    <3> QED
      BY <3>1, <3>2, <3>3
  <2> QED
    BY <1>1, <2>1, <2>2 DEF BookInv, ExpensesBooked, SalesBooked, Written
<1>8. ASSUME NEW e \in ExpenseIds, NEW a \in Prices, NEW d \in Days, NEW by \in Payers,
             NEW r \in Receipts \cup {None},
             RecordExpense(e, a, d, by, r) \/ UpdateExpense(e, a, d, by, r)
      PROVE  BookInv'
  BY <1>3, <1>8 DEF RecordExpense, UpdateExpense
<1>9. ASSUME NEW e \in ExpenseIds, NEW r \in Receipts, AttachReceipt(e, r) PROVE BookInv'
  BY <1>3, <1>9 DEF AttachReceipt
<1> QED
  BY <1>4, <1>5, <1>6, <1>7, <1>8, <1>9 DEF PurchasesNext

LEMMA BookUnreconcile ==
    ASSUME Rows, StatementAgrees, BookInv, NEW l \in Lines, UnreconcileTransaction(l)
    PROVE  BookInv'
<1>1. /\ opened = 2 /\ opened' = 2 /\ UNCHANGED <<invoices, sold, expenses, assets>>
      /\ matched' = [matched EXCEPT ![l] = Free]
  BY DEF UnreconcileTransaction
<1>2. ExpensesBooked'
  <2> ExpensesBooked
    BY <1>1 DEF BookInv
  <2>1. CASE matched[l].kind = "expense"
    <3> DEFINE e == matched[l].ref
    <3>1. e \in ExpenseIds /\ SyncExpensePayment(e)
      BY <2>1 DEF UnreconcileTransaction, StatementAgrees, Kept
    <3>2. \A f \in ExpenseIds \ {e} : LinesOf(matched', f) = LinesOf(matched, f)
      BY <1>1, <2>1, MatchedElsewhere
    <3> QED
      BY <1>1, <3>1, <3>2, ExpenseSynced
  <2>2. CASE matched[l].kind # "expense"
    <3>1. \A k \in Lines : matched'[k] = matched[k] \/
             (matched[k].kind # "expense" /\ matched'[k].kind # "expense")
      BY <1>1, <2>2 DEF Rows, Free, Match
    <3>2. booked' = booked
      BY <2>2 DEF UnreconcileTransaction
    <3>3. \A e \in ExpenseIds : LinesOf(matched', e) = LinesOf(matched, e)
      BY <3>1, LinesKept
    <3> QED
      BY <1>1, <3>2, <3>3, ExpensesStayBooked
  <2> QED
    BY <2>1, <2>2
<1> QED
  BY <1>1, <1>2 DEF BookInv, SalesBooked, Written

(* Once the vault has been opened, every invoice has its live sale entry,   *)
(* and every expense the live entry of its payment, as it now is.           *)
LEMMA SalesAndExpensesBooked == Spec => [](opened = 2 => SalesBooked /\ ExpensesBooked)
<1>1. Init => BookInv
  <2> SUFFICES ASSUME Init PROVE BookInv
    OBVIOUS
  <2>1. \A e \in ExpenseIds : booked[e] = None
    BY DEF Init
  <2>2. sold = {} /\ opened \in {0, 2}
    BY DEF Init
  <2>3. ASSUME opened = 2 PROVE SalesBooked /\ ExpensesBooked
    <3>1. NoSales /\ NoPurchases
      BY <2>3 DEF Init
    <3>2. \A e \in ExpenseIds : Desired(expenses, matched, assets, e) = None
      BY <3>1 DEF NoPurchases, Desired
    <3> QED
      BY <2>1, <2>2, <3>1, <3>2 DEF SalesBooked, ExpensesBooked, NoSales, Written
  <2> QED
    BY <2>1, <2>2, <2>3 DEF BookInv
<1>2. Rows /\ StatementAgrees /\ BookInv /\ [Next]_vars => BookInv'
  <2> SUFFICES ASSUME Rows, StatementAgrees, BookInv, [Next]_vars PROVE BookInv'
    OBVIOUS
  <2>1. ASSUME UNCHANGED <<invoices, sold, opened, expenses, assets, booked>>,
               \A l \in Lines : matched'[l] = matched[l] \/
                 (matched[l].kind # "expense" /\ matched'[l].kind # "expense")
        PROVE  BookInv'
    <3>1. ExpensesBooked => ExpensesBooked'
      BY <2>1, LinesKept, ExpensesStayBooked
    <3> QED
      BY <2>1, <3>1 DEF BookInv, SalesBooked, Written
  <2>2. ASSUME NEW l \in Lines, DeleteBankTransaction(l) PROVE BookInv'
    BY <2>1, <2>2 DEF DeleteBankTransaction, salesVars, purchaseVars, Rows, Absent, Free, Match
  <2>3. CASE UNCHANGED vars
    BY <2>1, <2>3 DEF vars, salesVars, purchaseVars
  <2> QED
    BY <2>2, <2>3, BookExercises, BookSales, BookPurchases, BookUnreconcile DEF Next
<1>3. BookInv => (opened = 2 => SalesBooked /\ ExpensesBooked)
  BY DEF BookInv
<1> QED
  BY <1>1, <1>2, <1>3, RowsInvariant, StatementCorrect, PTL DEF Spec

----------------------------------------------------------------------------
(* Amounts.                                                                 *)

(* What a receipt moves is within what is pending, and all of it when it    *)
(* settles.                                                                 *)
LEMMA TransferWithin ==
    ASSUME NEW pending \in Int, NEW collected \in Int, collected > 0, NEW due \in Int
    PROVE  /\ VatTransferred(pending, collected, due) \in Nat
           /\ pending <= 0 => VatTransferred(pending, collected, due) = 0
           /\ pending > 0 => VatTransferred(pending, collected, due) <= pending
           /\ pending > 0 /\ due > 0 /\ collected >= due
                => VatTransferred(pending, collected, due) = pending
<1>1. CASE pending > 0 /\ due > 0 /\ collected < due
  <2> DEFINE q == (pending * collected) \div due
  <2>1. pending * collected \in Nat
    BY <1>1
  <2>2. q \in Int /\ q >= 0 /\ q * due <= pending * collected
    BY <1>1, <2>1
  <2>3. VatTransferred(pending, collected, due) = q
    BY <1>1 DEF VatTransferred
  <2> HIDE DEF q
  <2>4. pending * collected <= pending * due
    BY <1>1
  <2>5. q * due <= pending * due
    BY <1>1, <2>1, <2>2, <2>4
  <2>6. q <= pending
    BY <1>1, <2>2, <2>5
  <2> QED
    BY <1>1, <2>2, <2>3, <2>6
<1>2. CASE ~(pending > 0 /\ due > 0 /\ collected < due)
  BY <1>2 DEF VatTransferred
<1> QED
  BY <1>1, <1>2

(* The sums of the model, an element at a time.                             *)
LEMMA CollectedWith ==
    ASSUME NEW pays, NEW S, IsFiniteSet(S), NEW p \in S, \A q \in S : pays[q].amount \in Int
    PROVE  /\ Collected(pays, S) = pays[p].amount + Collected(pays, S \ {p})
           /\ Collected(pays, S) \in Int /\ Collected(pays, S \ {p}) \in Int
<1> DEFINE g == [q \in S |-> pays[q].amount]
           f == [q \in S \ {p} |-> pays[q].amount]
<1>1. (\A q \in S : g[q] \in Int) /\ (\A q \in S \ {p} : g[q] \in Int /\ f[q] = g[q])
      /\ g[p] = pays[p].amount
  OBVIOUS
<1>2. Collected(pays, S) = SumFunctionOnSet(g, S)
      /\ Collected(pays, S \ {p}) = SumFunctionOnSet(f, S \ {p})
  BY DEF Collected
<1>3. IsFiniteSet(S \ {p})
  BY FS_Subset
<1> HIDE DEF f, g
<1>4. SumFunctionOnSet(g, S) = g[p] + SumFunctionOnSet(g, S \ {p})
  BY <1>1, SumOfOne
<1>5. SumFunctionOnSet(f, S \ {p}) = SumFunctionOnSet(g, S \ {p})
  BY <1>1, <1>3, SumOfSame
<1>6. SumFunctionOnSet(g, S) \in Int /\ SumFunctionOnSet(g, S \ {p}) \in Int
  BY <1>1, <1>3, SumIsInt
<1> QED
  BY <1>1, <1>2, <1>4, <1>5, <1>6

LEMMA CollectedSame ==
    ASSUME NEW pays, NEW pays2, NEW S, IsFiniteSet(S),
           \A q \in S : pays2[q].amount = pays[q].amount
    PROVE  Collected(pays2, S) = Collected(pays, S)
<1> DEFINE g == [q \in S |-> pays[q].amount]
           f == [q \in S |-> pays2[q].amount]
<1>1. \A q \in S : f[q] = g[q]
  OBVIOUS
<1>2. Collected(pays, S) = SumFunctionOnSet(g, S) /\ Collected(pays2, S) = SumFunctionOnSet(f, S)
  BY DEF Collected
<1> HIDE DEF f, g
<1> QED
  BY <1>1, <1>2, SumOfSame

VatOrNone == [PaymentIds -> Nat \cup {None}]

LEMMA MovedIsNat ==
    ASSUME NEW mv \in VatOrNone, NEW p \in PaymentIds
    PROVE  MovedOrZero(mv, p) \in Nat /\ (mv[p] # None => MovedOrZero(mv, p) = mv[p])
BY DEF VatOrNone, MovedOrZero

LEMMA MadeDueWith ==
    ASSUME NEW mv \in VatOrNone, NEW S \in SUBSET PaymentIds, IsFiniteSet(S), NEW p \in S
    PROVE  /\ MadeDue(mv, S) = MovedOrZero(mv, p) + MadeDue(mv, S \ {p})
           /\ MadeDue(mv, S) \in Nat /\ MadeDue(mv, S \ {p}) \in Nat
<1> DEFINE g == [q \in S |-> MovedOrZero(mv, q)]
           f == [q \in S \ {p} |-> MovedOrZero(mv, q)]
<1>1. (\A q \in S : g[q] \in Nat /\ g[q] \in Int)
      /\ (\A q \in S \ {p} : f[q] \in Nat /\ f[q] = g[q])
      /\ g[p] = MovedOrZero(mv, p)
  BY MovedIsNat
<1>2. MadeDue(mv, S) = SumFunctionOnSet(g, S)
      /\ MadeDue(mv, S \ {p}) = SumFunctionOnSet(f, S \ {p})
  BY DEF MadeDue
<1>3. IsFiniteSet(S \ {p})
  BY FS_Subset
<1> HIDE DEF f, g
<1> QED
  BY <1>1, <1>2, <1>3, SumOfOne, SumOfSame, SumIsNat

LEMMA MadeDueIsNat ==
    ASSUME NEW mv \in VatOrNone, NEW S \in SUBSET PaymentIds, IsFiniteSet(S)
    PROVE  MadeDue(mv, S) \in Nat
<1> DEFINE g == [q \in S |-> MovedOrZero(mv, q)]
<1>1. \A q \in S : g[q] \in Nat
  BY MovedIsNat
<1>2. MadeDue(mv, S) = SumFunctionOnSet(g, S)
  BY DEF MadeDue
<1> HIDE DEF g
<1> QED
  BY <1>1, <1>2, SumIsNat

LEMMA MadeDueSame ==
    ASSUME NEW mv, NEW mv2, NEW S, IsFiniteSet(S), \A q \in S : mv2[q] = mv[q]
    PROVE  MadeDue(mv2, S) = MadeDue(mv, S)
<1> DEFINE g == [q \in S |-> MovedOrZero(mv, q)]
           f == [q \in S |-> MovedOrZero(mv2, q)]
<1>1. \A q \in S : f[q] = g[q]
  BY DEF MovedOrZero
<1>2. MadeDue(mv, S) = SumFunctionOnSet(g, S) /\ MadeDue(mv2, S) = SumFunctionOnSet(f, S)
  BY DEF MadeDue
<1> HIDE DEF f, g
<1> QED
  BY <1>1, <1>2, SumOfSame

(* Credit notes that add no VAT take some, if anything.                     *)
LEMMA CreditsAre ==
    ASSUME Rows, NEW C, C \subseteq Written(invoices)
    PROVE  /\ CreditedVat(C) \in Int /\ CreditedTtc(C) \in Int
           /\ (\A c \in C : invoices[c].vat <= 0) => CreditedVat(C) <= 0
           /\ C = {} => CreditedVat(C) = 0 /\ CreditedTtc(C) = 0
<1> DEFINE g == [c \in C |-> invoices[c].vat]
           f == [c \in C |-> invoices[c].ttc]
           zero == [c \in C |-> 0]
<1>1. IsFiniteSet(C)
  <2>1. C \subseteq InvoiceIds
    BY DEF Written, Rows, SalesRows
  <2>2. IsFiniteSet(InvoiceIds)
    BY FS_Interval, SalesAssumption DEF InvoiceIds
  <2> QED
    BY <2>1, <2>2, FS_Subset
<1>2. \A c \in C : invoices[c].vat \in Int /\ invoices[c].ttc \in Int
  BY DEF Written, Rows, SalesRows, InvoiceRows
<1>3. CreditedVat(C) = SumFunctionOnSet(g, C) /\ CreditedTtc(C) = SumFunctionOnSet(f, C)
  BY DEF CreditedVat, CreditedTtc
<1>4. \A c \in C : g[c] \in Int /\ f[c] \in Int /\ zero[c] \in Int /\ zero[c] = 0
                     /\ g[c] = invoices[c].vat
  BY <1>2
<1> HIDE DEF f, g, zero
<1>5. SumFunctionOnSet(zero, C) = 0
  BY <1>1, <1>4, SumOfZeros
<1>6. (\A c \in C : g[c] <= zero[c]) => SumFunctionOnSet(g, C) <= SumFunctionOnSet(zero, C)
  BY <1>1, <1>4, SumOfLess
<1> QED
  BY <1>1, <1>3, <1>4, <1>5, <1>6, SumIsInt, SumOfNone

----------------------------------------------------------------------------
(* What writing one receipt does to what its invoice makes due.             *)

ReceiptsAre(pays) ==
    /\ DOMAIN pays = PaymentIds
    /\ \A p \in Written(pays) :
         /\ pays[p] \in PaymentRows /\ pays[p].amount > 0
         /\ pays[p].invoice \in Written(invoices)
IsLive(pays, p) == p \in Written(pays) /\ ~pays[p].voided
PlainBill(i) == invoices[i].vat >= 0 /\ \A c \in CreditsOf(i) : invoices[c].vat <= 0
Within(mv, pays, i) == MadeDue(mv, LivePaymentsOf(pays, i)) <= invoices[i].vat
Exact(mv, pays, i) == MadeDue(mv, LivePaymentsOf(pays, i)) = invoices[i].vat
Settled(pays, i) ==
    Paid(pays, i) = invoices[i].ttc /\ invoices[i].vat >= 0 /\ ~HasCreditNote(i)

LEMMA LivePaymentsAre ==
    ASSUME NEW pays, ReceiptsAre(pays), NEW i
    PROVE  /\ LivePaymentsOf(pays, i) \in SUBSET PaymentIds
           /\ IsFiniteSet(LivePaymentsOf(pays, i))
           /\ \A q \in LivePaymentsOf(pays, i) : pays[q].amount \in Int /\ pays[q].amount > 0
<1>1. LivePaymentsOf(pays, i) \in SUBSET PaymentIds
  BY DEF LivePaymentsOf, Written, ReceiptsAre
<1>2. IsFiniteSet(PaymentIds)
  BY FS_Interval, SalesAssumption DEF PaymentIds
<1>3. \A q \in LivePaymentsOf(pays, i) : pays[q].amount \in Int /\ pays[q].amount > 0
  BY DEF LivePaymentsOf, ReceiptsAre, PaymentRows
<1> QED
  BY <1>1, <1>2, <1>3, FS_Subset

LEMMA SyncLive ==
    ASSUME Rows, NEW pays, ReceiptsAre(pays), NEW mv \in VatOrNone,
           NEW p, IsLive(pays, p), NEW i, i = pays[p].invoice,
           NEW mv2, mv2 = Synced(pays, mv, p)
    PROVE  /\ mv2 \in VatOrNone /\ mv2[p] # None
           /\ \A q \in PaymentIds \ {p} : mv2[q] = mv[q]
           /\ PlainBill(i) /\ Within(mv, pays, i) => Within(mv2, pays, i)
           /\ Settled(pays, i) /\ Within(mv, pays, i) => Exact(mv2, pays, i)
           /\ \A j : j # i =>
                MadeDue(mv2, LivePaymentsOf(pays, j)) = MadeDue(mv, LivePaymentsOf(pays, j))
<1> DEFINE L == LivePaymentsOf(pays, i)
           others == L \ {p}
           credits == {c \in CreditsOf(i) : invoices[c].on <= pays[p].on}
           pending == invoices[i].vat + CreditedVat(credits) - MadeDue(mv, others)
           due == invoices[i].ttc + CreditedTtc(credits) - Collected(pays, others)
           desired == VatTransferred(pending, pays[p].amount, due)
<1>1. /\ p \in PaymentIds /\ p \in L /\ i \in Written(invoices)
      /\ pays[p].amount \in Int /\ pays[p].amount > 0
  BY DEF IsLive, Written, ReceiptsAre, LivePaymentsOf, PaymentRows
<1>2. /\ L \in SUBSET PaymentIds /\ IsFiniteSet(L)
      /\ \A q \in L : pays[q].amount \in Int /\ pays[q].amount > 0
  BY LivePaymentsAre
<1>3. invoices[i].vat \in Int /\ invoices[i].ttc \in Int
  BY <1>1 DEF Written, Rows, SalesRows, InvoiceRows
<1>4. credits \subseteq Written(invoices) /\ credits \subseteq CreditsOf(i)
  BY DEF CreditsOf
<1>5. mv2 = [mv EXCEPT ![p] = desired]
  BY DEF Synced, DesiredCollection, IsLive
<1> HIDE DEF L, credits
<1>6. /\ CreditedVat(credits) \in Int /\ CreditedTtc(credits) \in Int
      /\ (\A c \in credits : invoices[c].vat <= 0) => CreditedVat(credits) <= 0
      /\ credits = {} => CreditedVat(credits) = 0 /\ CreditedTtc(credits) = 0
  BY <1>4, CreditsAre
<1>7. /\ Collected(pays, L) = pays[p].amount + Collected(pays, others)
      /\ Collected(pays, L) \in Int /\ Collected(pays, others) \in Int
  BY <1>1, <1>2, CollectedWith
<1>8. /\ MadeDue(mv, L) = MovedOrZero(mv, p) + MadeDue(mv, others)
      /\ MadeDue(mv, others) \in Nat /\ MovedOrZero(mv, p) \in Nat
  BY <1>1, <1>2, MadeDueWith, MovedIsNat
<1>9. pending \in Int /\ due \in Int
  BY <1>3, <1>6, <1>7, <1>8
<1>10. /\ desired \in Nat
       /\ pending <= 0 => desired = 0
       /\ pending > 0 => desired <= pending
       /\ pending > 0 /\ due > 0 /\ pays[p].amount >= due => desired = pending
  <2> HIDE DEF pending, due
  <2> QED BY <1>1, <1>9, TransferWithin, ZenonT(60)
<1> HIDE DEF desired
<1>11. /\ mv2 \in VatOrNone /\ mv2[p] = desired /\ desired # None
       /\ \A q \in PaymentIds \ {p} : mv2[q] = mv[q]
  BY <1>1, <1>5, <1>10, ConstantFacts DEF VatOrNone
<1>12. MadeDue(mv2, L) = desired + MadeDue(mv, others)
  <2>1. MadeDue(mv2, L) = MovedOrZero(mv2, p) + MadeDue(mv2, others)
    BY <1>1, <1>2, <1>11, MadeDueWith
  <2>2. MovedOrZero(mv2, p) = desired
    BY <1>11 DEF MovedOrZero
  <2>3. IsFiniteSet(others) /\ \A q \in others : mv2[q] = mv[q]
    BY <1>2, <1>11, FS_Subset
  <2>4. MadeDue(mv2, others) = MadeDue(mv, others)
    <3> HIDE DEF others
    <3> QED BY <2>3, MadeDueSame
  <2> QED
    BY <2>1, <2>2, <2>4
<1> HIDE DEF others
<1>13. ASSUME PlainBill(i), MadeDue(mv, L) <= invoices[i].vat
       PROVE  MadeDue(mv2, L) <= invoices[i].vat
  <2>1. CreditedVat(credits) <= 0
    BY <1>4, <1>6, <1>13 DEF PlainBill
  <2> QED
    BY <1>3, <1>6, <1>8, <1>10, <1>12, <1>13, <2>1
<1>14. ASSUME Settled(pays, i), MadeDue(mv, L) <= invoices[i].vat
       PROVE  MadeDue(mv2, L) = invoices[i].vat
  <2>1. CreditedVat(credits) = 0 /\ CreditedTtc(credits) = 0
    BY <1>4, <1>6, <1>14 DEF Settled, HasCreditNote
  <2>2. Collected(pays, L) = invoices[i].ttc
    BY <1>14 DEF Settled, Paid, L
  <2>3. due = pays[p].amount /\ pending = invoices[i].vat - MadeDue(mv, others)
    BY <1>1, <1>3, <1>7, <1>8, <2>1, <2>2
  <2>4. pending >= 0
    BY <1>3, <1>8, <1>14, <2>3
  <2> QED
    BY <1>1, <1>3, <1>8, <1>9, <1>10, <1>12, <2>3, <2>4
<1>15. ASSUME NEW j, j # i
       PROVE  MadeDue(mv2, LivePaymentsOf(pays, j)) = MadeDue(mv, LivePaymentsOf(pays, j))
  <2>1. p \notin LivePaymentsOf(pays, j)
    BY <1>15 DEF LivePaymentsOf
  <2>2. IsFiniteSet(LivePaymentsOf(pays, j)) /\ LivePaymentsOf(pays, j) \in SUBSET PaymentIds
    BY LivePaymentsAre
  <2>3. \A q \in LivePaymentsOf(pays, j) : mv2[q] = mv[q]
    BY <1>11, <2>1, <2>2
  <2> QED
    BY <2>2, <2>3, MadeDueSame
<1> QED
  BY <1>11, <1>13, <1>14, <1>15 DEF L, Within, Exact

----------------------------------------------------------------------------
(* The receipts, step by step.                                              *)

Sound(mv, pays) ==
    /\ ReceiptsAre(pays) /\ mv \in VatOrNone
    /\ \A p \in PaymentIds : mv[p] # None => IsLive(pays, p)
    /\ \A i \in Written(invoices) : PlainBill(i) => Within(mv, pays, i)
AllWritten(mv, pays) == \A p \in PaymentIds : IsLive(pays, p) => mv[p] # None
NotOverpaid(pays, i) == Paid(pays, i) <= invoices[i].ttc
ExactAt(mv, pays, i) ==
    Settled(pays, i) /\ LivePaymentsOf(pays, i) # {} => Exact(mv, pays, i)

DueInv ==
    /\ Sound(moved, payments)
    /\ \A i \in Written(invoices) \ overpaid : NotOverpaid(payments, i)
    /\ opened = 2 =>
         /\ AllWritten(moved, payments)
         /\ \A i \in Written(invoices) \ overpaid : ExactAt(moved, payments, i)

LEMMA SettledIsPlain ==
    ASSUME Rows, NEW pays, NEW i \in Written(invoices), Settled(pays, i)
    PROVE  PlainBill(i)
BY DEF Settled, PlainBill, HasCreditNote

LEMMA PaidIsInt ==
    ASSUME Rows, NEW pays, ReceiptsAre(pays), NEW i \in Written(invoices)
    PROVE  Paid(pays, i) \in Int /\ invoices[i].ttc \in Int /\ invoices[i].vat \in Int
<1> DEFINE L == LivePaymentsOf(pays, i)
           g == [q \in L |-> pays[q].amount]
<1>1. IsFiniteSet(L) /\ \A q \in L : pays[q].amount \in Int
  BY LivePaymentsAre
<1>2. \A q \in L : g[q] \in Int
  BY <1>1
<1>3. Paid(pays, i) = SumFunctionOnSet(g, L)
  BY DEF Paid, Collected
<1>4. SumFunctionOnSet(g, L) \in Int
  <2> HIDE DEF g, L
  <2> QED BY <1>1, <1>2, SumIsInt
<1> QED
  BY <1>3, <1>4 DEF Written, Rows, SalesRows, InvoiceRows

(* What a step on the payments of unchanged invoices has to show.           *)
LEMMA DueAfter ==
    ASSUME Rows, Rows', invoices' = invoices, overpaid \subseteq overpaid',
           \A i \in Written(invoices') : Paid(payments', i) > invoices'[i].ttc => i \in overpaid',
           Sound(moved', payments'),
           opened' = 2 =>
             /\ AllWritten(moved', payments')
             /\ \A i \in Written(invoices) \ overpaid : ExactAt(moved', payments', i)
    PROVE  DueInv'
<1>1. Sound(moved, payments)'
  BY DEF Sound, ReceiptsAre, IsLive, PlainBill, CreditsOf, Within, Written
<1>2. ASSUME NEW i \in Written(invoices') \ overpaid'
      PROVE  NotOverpaid(payments, i)'
  <2>1. Paid(payments', i) \in Int /\ invoices'[i].ttc \in Int
    BY PaidIsInt DEF Sound, Written
  <2> QED
    BY <1>2, <2>1 DEF NotOverpaid
<1>3. AllWritten(moved', payments') => AllWritten(moved, payments)'
  BY DEF AllWritten, IsLive
<1>4. ASSUME NEW i, ExactAt(moved', payments', i)
      PROVE  ExactAt(moved, payments, i)'
  BY <1>4 DEF ExactAt, Settled, Exact, HasCreditNote, CreditsOf, Written
<1>5. Written(invoices') \ overpaid' \subseteq Written(invoices) \ overpaid
  BY DEF Written
<1> QED
  BY <1>1, <1>2, <1>3, <1>4, <1>5 DEF DueInv

LEMMA DueUntouched ==
    ASSUME Rows, Rows', DueInv, UNCHANGED <<invoices, payments, moved>>,
           opened' = 2 => opened = 2, overpaid \subseteq overpaid',
           \A i \in Written(invoices') : Paid(payments', i) > invoices'[i].ttc => i \in overpaid'
    PROVE  DueInv'
BY DueAfter DEF DueInv

(* A new invoice has no receipt, and may only credit another one.           *)
LEMMA DueIssue ==
    ASSUME Rows, Rows', DueInv, NEW n \in InvoiceIds, NEW invoice \in InvoiceRows,
           Issue(n, invoice), overpaid \subseteq overpaid',
           \A i \in Written(invoices') : Paid(payments', i) > invoices'[i].ttc => i \in overpaid'
    PROVE  DueInv'
<1>1. /\ n \notin Written(invoices) /\ invoice # None /\ opened = 2
      /\ invoices' = [invoices EXCEPT ![n] = invoice]
      /\ UNCHANGED <<payments, moved, opened>>
  BY ConstantFacts DEF Issue, Fresh, Written
<1>2. /\ Written(invoices') = Written(invoices) \cup {n}
      /\ \A i \in Written(invoices) : invoices'[i] = invoices[i]
  BY <1>1 DEF Written, Rows, SalesRows
<1>3. ReceiptsAre(payments) /\ moved \in VatOrNone
  BY DEF DueInv, Sound
<1>4. ReceiptsAre(payments)'
  BY <1>1, <1>2, <1>3 DEF ReceiptsAre, Written
<1>5. LivePaymentsOf(payments, n) = {}
  BY <1>1, <1>3 DEF LivePaymentsOf, ReceiptsAre
<1>6. \A i \in Written(invoices) : CreditsOf(i) \subseteq CreditsOf(i)'
  BY <1>2 DEF CreditsOf
<1>7. ASSUME NEW i \in Written(invoices')
      PROVE  PlainBill(i)' => Within(moved, payments, i)'
  <2>1. CASE i = n
    <3>1. MadeDue(moved, {}) = 0
      BY SumOfNone DEF MadeDue
    <3>2. invoices'[n].vat \in Int
      BY <1>2 DEF Written, Rows, SalesRows, InvoiceRows
    <3> QED
      BY <1>1, <1>5, <2>1, <3>1, <3>2 DEF PlainBill, Within
  <2>2. CASE i # n
    <3>1. i \in Written(invoices) /\ invoices'[i] = invoices[i]
      BY <1>2, <2>2
    <3>2. PlainBill(i)' => PlainBill(i)
      <4>1. \A c \in CreditsOf(i) : invoices'[c] = invoices[c]
        BY <1>2 DEF CreditsOf
      <4> QED
        BY <1>6, <3>1, <4>1 DEF PlainBill
    <3> QED
      BY <1>1, <3>1, <3>2 DEF DueInv, Sound, Within
  <2> QED
    BY <2>1, <2>2
<1>8. Sound(moved, payments)'
  <2>1. \A p \in PaymentIds : IsLive(payments, p)' <=> IsLive(payments, p)
    BY <1>1 DEF IsLive
  <2> QED
    BY <1>1, <1>3, <1>4, <1>7, <2>1 DEF Sound, DueInv
<1>9. ASSUME NEW i \in Written(invoices') \ overpaid'
      PROVE  NotOverpaid(payments, i)'
  <2>1. Paid(payments', i) \in Int /\ invoices'[i].ttc \in Int
    <3>1. CASE i = n
      <4>1. Paid(payments, n) = 0
        BY <1>5, SumOfNone DEF Paid, Collected
      <4>2. invoices'[n].ttc \in Int
        BY <1>1 DEF Rows, SalesRows, InvoiceRows
      <4> QED
        BY <1>1, <3>1, <4>1, <4>2
    <3>2. CASE i # n
      <4>1. i \in Written(invoices) /\ invoices'[i] = invoices[i]
        BY <1>2, <1>9, <3>2
      <4> QED
        BY <1>1, <1>3, <4>1, PaidIsInt
    <3> QED
      BY <3>1, <3>2
  <2> QED
    BY <1>9, <2>1 DEF NotOverpaid
<1>10. AllWritten(moved, payments)'
  <2>1. \A p \in PaymentIds : IsLive(payments, p)' <=> IsLive(payments, p)
    BY <1>1 DEF IsLive
  <2> QED
    BY <1>1, <2>1 DEF AllWritten, DueInv
<1>11. ASSUME NEW i \in Written(invoices') \ overpaid'
       PROVE  ExactAt(moved, payments, i)'
  <2>1. CASE i = n
    BY <1>1, <1>5, <2>1 DEF ExactAt
  <2>2. CASE i # n
    <3>1. i \in Written(invoices) \ overpaid /\ invoices'[i] = invoices[i]
      BY <1>2, <1>11, <2>2
    <3>2. Settled(payments, i)' => Settled(payments, i)
      BY <1>1, <1>6, <3>1 DEF Settled, HasCreditNote
    <3> QED
      BY <1>1, <3>1, <3>2 DEF ExactAt, Exact, DueInv
  <2> QED
    BY <2>1, <2>2
<1> QED
  BY <1>8, <1>9, <1>10, <1>11 DEF DueInv

(* A new receipt sees the others as they are written.                       *)
LEMMA DueNewReceipt ==
    ASSUME Rows, Rows', DueInv, NEW p \in PaymentIds, NEW new \in PaymentRows,
           payments[p] = None, payments' = [payments EXCEPT ![p] = new],
           new.amount > 0, ~new.voided, new.invoice \in Written(invoices),
           moved' = Synced(payments', moved, p), opened = 2, opened' = 2,
           invoices' = invoices, overpaid \subseteq overpaid',
           \A i \in Written(invoices') : Paid(payments', i) > invoices'[i].ttc => i \in overpaid'
    PROVE  DueInv'
<1> DEFINE b == new.invoice
<1>1. /\ Sound(moved, payments) /\ AllWritten(moved, payments) /\ new # None
      /\ ReceiptsAre(payments) /\ moved \in VatOrNone
      /\ \A i \in Written(invoices) \ overpaid : ExactAt(moved, payments, i)
  BY ConstantFacts DEF DueInv, Sound
<1>2. /\ Written(payments') = Written(payments) \cup {p} /\ payments'[p] = new
      /\ p \notin Written(payments) /\ \A q \in Written(payments) : payments'[q] = payments[q]
      /\ DOMAIN payments' = PaymentIds
  BY <1>1 DEF Written, Rows, SalesRows
<1>3. ReceiptsAre(payments') /\ IsLive(payments', p)
  BY <1>1, <1>2 DEF ReceiptsAre, IsLive
<1>4. \A q \in PaymentIds \ {p} : IsLive(payments', q) <=> IsLive(payments, q)
  BY <1>2 DEF IsLive
<1>5. /\ LivePaymentsOf(payments', b) = LivePaymentsOf(payments, b) \cup {p}
      /\ p \notin LivePaymentsOf(payments, b)
      /\ \A i : i # b => LivePaymentsOf(payments', i) = LivePaymentsOf(payments, i)
  BY <1>2 DEF LivePaymentsOf
<1>6. moved[p] = None
  BY <1>1, <1>2 DEF Sound, IsLive
<1>7. \A i \in Written(invoices) : PlainBill(i) => Within(moved, payments', i)
  <2>1. MadeDue(moved, LivePaymentsOf(payments', b)) = MadeDue(moved, LivePaymentsOf(payments, b))
    <3> DEFINE T == LivePaymentsOf(payments', b)
    <3>1. T \in SUBSET PaymentIds /\ IsFiniteSet(T) /\ p \in T
          /\ T \ {p} = LivePaymentsOf(payments, b)
      BY <1>3, <1>5, LivePaymentsAre
    <3> HIDE DEF T
    <3>2. MadeDue(moved, T) = MovedOrZero(moved, p) + MadeDue(moved, T \ {p})
          /\ MadeDue(moved, T \ {p}) \in Nat
      BY <1>1, <3>1, MadeDueWith
    <3>3. MovedOrZero(moved, p) = 0
      BY <1>6 DEF MovedOrZero
    <3>4. MadeDue(moved, T) = MadeDue(moved, T \ {p})
      BY <3>2, <3>3
    <3> QED
      BY <3>1, <3>4 DEF T
  <2> QED
    BY <1>1, <1>5, <2>1 DEF Sound, Within
<1>8. /\ moved' \in VatOrNone /\ moved'[p] # None
      /\ \A q \in PaymentIds \ {p} : moved'[q] = moved[q]
      /\ PlainBill(b) /\ Within(moved, payments', b) => Within(moved', payments', b)
      /\ Settled(payments', b) /\ Within(moved, payments', b) => Exact(moved', payments', b)
      /\ \A i : i # b => MadeDue(moved', LivePaymentsOf(payments', i))
                           = MadeDue(moved, LivePaymentsOf(payments', i))
  <2>1. payments'[p].invoice = b
    BY <1>2
  <2> DEFINE pays == payments'
             mv2 == moved'
  <2>2. /\ ReceiptsAre(pays) /\ moved \in VatOrNone /\ IsLive(pays, p) /\ b = pays[p].invoice
        /\ mv2 = Synced(pays, moved, p)
    BY <1>1, <1>3, <2>1
  <2> HIDE DEF b, pays, mv2
  <2>3. /\ mv2 \in VatOrNone /\ mv2[p] # None
        /\ \A q \in PaymentIds \ {p} : mv2[q] = moved[q]
        /\ PlainBill(b) /\ Within(moved, pays, b) => Within(mv2, pays, b)
        /\ Settled(pays, b) /\ Within(moved, pays, b) => Exact(mv2, pays, b)
        /\ \A j : j # b =>
             MadeDue(mv2, LivePaymentsOf(pays, j)) = MadeDue(moved, LivePaymentsOf(pays, j))
    BY <2>2, SyncLive
  <2> QED
    BY <2>3 DEF pays, mv2
<1>9. Sound(moved', payments')
  <2>1. ASSUME NEW i \in Written(invoices), PlainBill(i)
        PROVE  Within(moved', payments', i)
    BY <1>7, <1>8, <2>1 DEF Within
  <2> QED
    BY <1>1, <1>3, <1>4, <1>8, <2>1 DEF Sound
<1>10. AllWritten(moved', payments')
  BY <1>1, <1>4, <1>8 DEF AllWritten
<1>11. ASSUME NEW i \in Written(invoices) \ overpaid
       PROVE  ExactAt(moved', payments', i)
  <2>1. CASE i = b
    <3>1. Settled(payments', b) => Within(moved, payments', b)
      BY <1>7, <1>11, <2>1, SettledIsPlain
    <3> QED
      BY <1>8, <2>1, <3>1 DEF ExactAt
  <2>2. CASE i # b
    <3> DEFINE L == LivePaymentsOf(payments, i)
    <3>1. IsFiniteSet(L) /\ \A q \in L : q \in Written(payments)
      BY <1>1, LivePaymentsAre DEF LivePaymentsOf
    <3>2. LivePaymentsOf(payments', i) = L
      BY <1>5, <2>2
    <3>3. \A q \in L : payments'[q].amount = payments[q].amount
      BY <1>2, <3>1
    <3> HIDE DEF L
    <3>4. Collected(payments', L) = Collected(payments, L)
      BY <3>1, <3>3, CollectedSame, ZenonT(60)
    <3>5. Paid(payments', i) = Paid(payments, i)
      BY <3>2, <3>4 DEF Paid, L
    <3>6. MadeDue(moved', L) = MadeDue(moved, L)
      BY <1>8, <2>2, <3>2
    <3> QED
      BY <1>1, <1>11, <3>2, <3>5, <3>6 DEF ExactAt, Settled, Exact, L
  <2> QED
    BY <2>1, <2>2
<1> QED
  BY <1>9, <1>10, <1>11, DueAfter

(* A receipt that is voided takes away what it moved; the invoice is then   *)
(* no longer paid, unless it was overpaid.                                  *)
LEMMA DueVoid ==
    ASSUME Rows, Rows', DueInv, NEW p \in PaymentIds, IsLive(payments, p),
           payments'[p] = [payments[p] EXCEPT !.voided = TRUE], DOMAIN payments' = PaymentIds,
           \A q \in PaymentIds \ {p} : payments'[q] = payments[q],
           moved' = Synced(payments', moved, p), opened = 2, opened' = 2,
           invoices' = invoices, overpaid \subseteq overpaid',
           \A i \in Written(invoices') : Paid(payments', i) > invoices'[i].ttc => i \in overpaid'
    PROVE  DueInv'
<1> DEFINE b == payments[p].invoice
           L == LivePaymentsOf(payments, b)
<1>1. /\ Sound(moved, payments) /\ AllWritten(moved, payments)
      /\ ReceiptsAre(payments) /\ moved \in VatOrNone
      /\ \A i \in Written(invoices) \ overpaid : ExactAt(moved, payments, i)
  BY DEF DueInv, Sound
<1>2. /\ payments[p] \in PaymentRows /\ payments[p] # None
      /\ payments'[p] \in PaymentRows /\ payments'[p] # None /\ payments'[p].voided
      /\ payments'[p].amount = payments[p].amount /\ payments'[p].invoice = b
  <2>1. payments[p] \in PaymentRows
    BY <1>1 DEF ReceiptsAre, IsLive
  <2>2. [payments[p] EXCEPT !.voided = TRUE] \in PaymentRows
        /\ [payments[p] EXCEPT !.voided = TRUE].voided
        /\ [payments[p] EXCEPT !.voided = TRUE].amount = payments[p].amount
        /\ [payments[p] EXCEPT !.voided = TRUE].invoice = payments[p].invoice
    BY <2>1 DEF PaymentRows
  <2> QED
    BY <2>1, <2>2, ConstantFacts
<1>3. Written(payments') = Written(payments) /\ DOMAIN payments = PaymentIds
  BY <1>2 DEF Written, Rows, SalesRows
<1>4. \A q \in Written(payments) : payments'[q].amount = payments[q].amount
  BY <1>2, <1>3 DEF Written
<1>5. ReceiptsAre(payments')
  BY <1>1, <1>2, <1>3 DEF ReceiptsAre, Written
<1>6. /\ p \in L /\ LivePaymentsOf(payments', b) = L \ {p}
      /\ \A i : i # b => LivePaymentsOf(payments', i) = LivePaymentsOf(payments, i)
  BY <1>2, <1>3, ZenonT(60) DEF LivePaymentsOf, IsLive, Written
<1>7. /\ moved' \in VatOrNone /\ moved'[p] = None
      /\ \A q \in PaymentIds \ {p} : moved'[q] = moved[q]
  <2>1. moved' = [moved EXCEPT ![p] = None]
    BY <1>2 DEF Synced, DesiredCollection
  <2> QED
    BY <1>1, <2>1 DEF VatOrNone
<1>8. \A q \in PaymentIds : IsLive(payments', q) <=> IsLive(payments, q) /\ q # p
  BY <1>2, <1>3 DEF IsLive, Written
<1>9. /\ L \in SUBSET PaymentIds /\ IsFiniteSet(L) /\ IsFiniteSet(L \ {p})
      /\ \A q \in L : payments[q].amount \in Int /\ payments[q].amount > 0
      /\ L \subseteq Written(payments)
  <2>1. L \subseteq Written(payments)
    BY DEF LivePaymentsOf
  <2> QED
    BY <1>1, <2>1, LivePaymentsAre, FS_Subset
<1>10. b \in Written(invoices)
  BY <1>1, <1>3, <1>6, <1>9 DEF ReceiptsAre
<1>11. ASSUME NEW i, i # b
       PROVE  /\ MadeDue(moved', LivePaymentsOf(payments', i))
                   = MadeDue(moved, LivePaymentsOf(payments, i))
              /\ Paid(payments', i) = Paid(payments, i)
  <2> DEFINE K == LivePaymentsOf(payments, i)
  <2>1. IsFiniteSet(K) /\ K \in SUBSET PaymentIds
    BY <1>1, LivePaymentsAre
  <2>2. p \notin K /\ K \subseteq Written(payments)
    BY <1>11 DEF LivePaymentsOf
  <2>3. LivePaymentsOf(payments', i) = K
    BY <1>6, <1>11
  <2>4. (\A q \in K : moved'[q] = moved[q]) /\ \A q \in K : payments'[q].amount = payments[q].amount
    BY <1>4, <1>7, <2>1, <2>2
  <2> HIDE DEF K
  <2>5. MadeDue(moved', K) = MadeDue(moved, K)
    BY <2>1, <2>4, MadeDueSame
  <2>6. Collected(payments', K) = Collected(payments, K)
    BY <2>1, <2>4, CollectedSame
  <2> QED
    BY <2>3, <2>5, <2>6 DEF Paid, K
<1> HIDE DEF b, L
<1>12. MadeDue(moved', L \ {p}) <= MadeDue(moved, L)
  <2>1. /\ MadeDue(moved, L) = MovedOrZero(moved, p) + MadeDue(moved, L \ {p})
        /\ MadeDue(moved, L \ {p}) \in Nat /\ MovedOrZero(moved, p) \in Nat
    BY <1>1, <1>6, <1>9, MadeDueWith, MovedIsNat
  <2>2. \A q \in L \ {p} : moved'[q] = moved[q]
    BY <1>7, <1>9
  <2> DEFINE K == L \ {p}
  <2>3. MadeDue(moved', K) = MadeDue(moved, K)
    <3> HIDE DEF K
    <3>1. IsFiniteSet(K) /\ \A q \in K : moved'[q] = moved[q]
      BY <1>9, <2>2 DEF K
    <3> QED BY <3>1, MadeDueSame
  <2> QED
    BY <2>1, <2>3
<1>13. Paid(payments, b) > Paid(payments', b) /\ Paid(payments', b) \in Int
  <2>1. /\ Collected(payments, L) = payments[p].amount + Collected(payments, L \ {p})
        /\ Collected(payments, L \ {p}) \in Int
    BY <1>6, <1>9, CollectedWith
  <2> DEFINE K == L \ {p}
  <2>2. \A q \in K : payments'[q].amount = payments[q].amount
    BY <1>4, <1>9
  <2>3. Collected(payments', K) = Collected(payments, K)
    <3> HIDE DEF K
    <3>1. IsFiniteSet(K)
      BY <1>9 DEF K
    <3> QED BY <2>2, <3>1, CollectedSame
  <2>4. Paid(payments', b) = Collected(payments', K) /\ Paid(payments, b) = Collected(payments, L)
    BY <1>6 DEF Paid, L
  <2> QED
    BY <1>6, <1>9, <2>1, <2>3, <2>4
<1>14. Sound(moved', payments')
  <2>1. ASSUME NEW i \in Written(invoices), PlainBill(i)
        PROVE  Within(moved', payments', i)
    <3>1. Within(moved, payments, i)
      BY <1>1, <2>1 DEF Sound
    <3>2. CASE i = b
      <4>1. MadeDue(moved', L \ {p}) \in Nat /\ MadeDue(moved, L) \in Nat
        BY <1>1, <1>5, <1>6, <1>7, <1>9, MadeDueIsNat, LivePaymentsAre
      <4>2. invoices[b].vat \in Int
        BY <1>10 DEF Written, Rows, SalesRows, InvoiceRows
      <4>3. MadeDue(moved, L) <= invoices[b].vat
        BY <3>1, <3>2 DEF Within, L
      <4>4. MadeDue(moved', L \ {p}) <= invoices[b].vat
        BY <1>12, <4>1, <4>2, <4>3
      <4> QED
        BY <1>6, <3>2, <4>4 DEF Within
    <3>3. CASE i # b
      BY <1>11, <3>1, <3>3 DEF Within
    <3> QED
      BY <3>2, <3>3
  <2> QED
    BY <1>1, <1>5, <1>7, <1>8, <2>1 DEF Sound
<1>15. AllWritten(moved', payments')
  BY <1>1, <1>7, <1>8 DEF AllWritten
<1>16. ASSUME NEW i \in Written(invoices) \ overpaid
       PROVE  ExactAt(moved', payments', i)
  <2>1. CASE i = b
    <3>1. NotOverpaid(payments, b)
      BY <1>16, <2>1 DEF DueInv
    <3>2. Paid(payments, b) \in Int /\ invoices[b].ttc \in Int
      BY <1>1, <1>10, PaidIsInt
    <3>3. ~Settled(payments', b)
      BY <1>13, <3>1, <3>2 DEF NotOverpaid, Settled
    <3> QED
      BY <2>1, <3>3 DEF ExactAt
  <2>2. CASE i # b
    BY <1>1, <1>6, <1>11, <1>16, <2>2 DEF ExactAt, Settled, Exact
  <2> QED
    BY <2>1, <2>2
<1> QED
  BY <1>14, <1>15, <1>16, DueAfter

(* An opening makes every live receipt written, and what a paid invoice     *)
(* makes due exact, by the last of its receipts.                            *)
LEMMA DueOpening ==
    ASSUME Rows, Rows', DueInv, BackfillServiceBookings, overpaid \subseteq overpaid',
           \A i \in Written(invoices') : Paid(payments', i) > invoices'[i].ttc => i \in overpaid'
    PROVE  DueInv'
<1>1. /\ LivePayments \subseteq PaymentIds /\ IsFiniteSet(LivePayments)
      /\ Sound(moved, payments) /\ ReceiptsAre(payments)
  BY LiveIsFinite DEF DueInv, Sound
<1>2. PICK h : /\ h[LivePayments] = Resynced(LivePayments) /\ h[{}] = moved
               /\ \A s \in SUBSET LivePayments : s # {} =>
                    /\ Latest(s) \in s
                    /\ h[s] = Synced(payments, h[s \ {Latest(s)}], Latest(s))
  BY <1>1, Walk
<1> DEFINE Walked(mv, s) ==
             /\ Sound(mv, payments)
             /\ \A p \in s : mv[p] # None
             /\ \A i \in Written(invoices) :
                  Settled(payments, i) /\ LivePaymentsOf(payments, i) \cap s # {}
                    => Exact(mv, payments, i)
           bad == {s \in SUBSET LivePayments : ~Walked(h[s], s)}
<1>3. ASSUME bad # {} PROVE FALSE
  <2>1. PICK s \in bad : \A t \in bad : t \subseteq s => t = s
    <3>1. bad \subseteq SUBSET LivePayments
      OBVIOUS
    <3> HIDE DEF bad
    <3> QED BY <1>1, <1>3, <3>1, SmallestSubset
  <2>2. s \in SUBSET LivePayments /\ ~Walked(h[s], s)
    BY <2>1
  <2>3. s # {}
    BY <1>1, <1>2, <2>2
  <2> DEFINE p == Latest(s)
             r == s \ {p}
             i == payments[p].invoice
             mv == h[r]
             mv2 == h[s]
  <2>4. p \in s /\ mv2 = Synced(payments, mv, p)
    BY <1>2, <2>2, <2>3
  <2>5. r \in SUBSET LivePayments /\ r \subseteq s /\ r # s /\ s = r \cup {p}
    BY <2>2, <2>4
  <2>6. Walked(mv, r)
    BY <2>1, <2>5
  <2>7. IsLive(payments, p) /\ p \in LivePaymentsOf(payments, i) /\ i \in Written(invoices)
    BY <1>1, <2>2, <2>4 DEF IsLive, LivePayments, LivePaymentsOf, ReceiptsAre
  <2>8. Sound(mv, payments) /\ mv \in VatOrNone /\ p \in PaymentIds /\ r \subseteq PaymentIds
    BY <1>1, <2>2, <2>4, <2>5, <2>6 DEF Sound
  <2>9. ~Walked(mv2, s)
    BY <2>2
  <2> HIDE DEF p, r, mv, mv2, i
  <2>10. i = payments[p].invoice
    BY DEF i
  <2>11. /\ mv2 \in VatOrNone /\ mv2[p] # None
         /\ \A q \in PaymentIds \ {p} : mv2[q] = mv[q]
         /\ PlainBill(i) /\ Within(mv, payments, i) => Within(mv2, payments, i)
         /\ Settled(payments, i) /\ Within(mv, payments, i) => Exact(mv2, payments, i)
         /\ \A j : j # i =>
              MadeDue(mv2, LivePaymentsOf(payments, j)) = MadeDue(mv, LivePaymentsOf(payments, j))
    BY <1>1, <2>4, <2>7, <2>8, <2>10, SyncLive
  <2>12. Sound(mv2, payments)
    <3>1. ASSUME NEW j \in Written(invoices), PlainBill(j)
          PROVE  Within(mv2, payments, j)
      BY <2>8, <2>11, <3>1 DEF Sound, Within
    <3> QED
      BY <1>1, <2>7, <2>8, <2>11, <3>1 DEF Sound
  <2>13. \A q \in s : mv2[q] # None
    BY <2>5, <2>6, <2>8, <2>11
  <2>14. ASSUME NEW j \in Written(invoices), Settled(payments, j),
                LivePaymentsOf(payments, j) \cap s # {}
         PROVE  Exact(mv2, payments, j)
    <3>1. CASE j = i
      <4>1. Within(mv, payments, i)
        BY <2>8, <2>14, <3>1, SettledIsPlain DEF Sound
      <4> QED
        BY <2>11, <2>14, <3>1, <4>1
    <3>2. CASE j # i
      <4>1. p \notin LivePaymentsOf(payments, j)
        BY <2>10, <3>2 DEF LivePaymentsOf
      <4>2. LivePaymentsOf(payments, j) \cap r # {}
        BY <2>5, <2>14, <4>1
      <4>3. Exact(mv, payments, j)
        BY <2>6, <2>14, <4>2
      <4> QED
        BY <2>11, <3>2, <4>3 DEF Exact
    <3> QED
      BY <3>1, <3>2
  <2> QED
    BY <2>9, <2>12, <2>13, <2>14
<1>4. Walked(h[LivePayments], LivePayments)
  <2>1. LivePayments \notin bad
    BY <1>3
  <2> QED
    BY <2>1
<1>5. /\ moved' = h[LivePayments] /\ UNCHANGED <<invoices, payments>>
  BY <1>2 DEF BackfillServiceBookings
<1>6. Sound(moved', payments')
  BY <1>4, <1>5
<1>7. AllWritten(moved', payments')
  BY <1>4, <1>5 DEF AllWritten, IsLive, LivePayments
<1>8. ASSUME NEW i \in Written(invoices) PROVE ExactAt(moved', payments', i)
  <2>1. LivePaymentsOf(payments, i) \subseteq LivePayments
    BY DEF LivePaymentsOf, LivePayments
  <2> QED
    BY <1>4, <1>5, <2>1 DEF ExactAt
<1> QED
  BY <1>5, <1>6, <1>7, <1>8, DueAfter

(* Every step keeps the receipts right.                                     *)
LEMMA DueStep ==
    Rows /\ StatementAgrees /\ DueInv /\ [Next]_vars => DueInv'
<1> SUFFICES ASSUME Rows, StatementAgrees, DueInv, [Next]_vars PROVE DueInv'
  OBVIOUS
<1>1. Rows'
  BY RowsStep
<1>2. CASE UNCHANGED vars
  <2>1. UNCHANGED <<invoices, payments, moved, opened, overpaid>>
    BY <1>2 DEF vars, salesVars
  <2>2. Sound(moved', payments') /\ Written(invoices') = Written(invoices)
    BY <2>1 DEF DueInv, Written
  <2> QED
    BY <2>1, <2>2 DEF DueInv, Sound, ReceiptsAre, IsLive, PlainBill, CreditsOf, Within,
       NotOverpaid, AllWritten, ExactAt, Settled, HasCreditNote, Exact, Written
<1>3. CASE Next
  <2>1. /\ overpaid \subseteq overpaid'
        /\ \A i \in Written(invoices') : Paid(payments', i) > invoices'[i].ttc => i \in overpaid'
    BY <1>3 DEF Next
  <2>2. ASSUME UNCHANGED <<invoices, payments, moved>>, opened' = 2 => opened = 2
        PROVE  DueInv'
    BY <1>1, <2>1, <2>2, DueUntouched
  <2>3. ASSUME ExercisesNext, UNCHANGED <<salesVars, purchaseVars>> PROVE DueInv'
    BY <2>2, <2>3 DEF ExercisesNext, CloseFiscalYear, ApproveFiscalYear, DeleteFiscalYear,
       ImportBankTransactions, SettleBankTransaction, UnsettleBankTransaction, salesVars
  <2>4. ASSUME PurchasesNext, UNCHANGED salesVars PROVE DueInv'
    <3>1. opened' = 2 => opened = 2
      BY <2>4 DEF PurchasesNext, RecordExpense, UpdateExpense, RecordPaidExpense,
         ReconcileExpense, AttachReceipt, AddFixedAsset, DeleteFixedAsset, DeleteExpense,
         BackfillExpensePayments, Rows
    <3> QED
      BY <2>2, <2>4, <3>1 DEF salesVars
  <2>5. ASSUME SalesNext, UNCHANGED purchaseVars PROVE DueInv'
    <3>1. ASSUME NEW i \in InvoiceIds, NEW invoice \in InvoiceRows, Issue(i, invoice)
          PROVE  DueInv'
      BY <1>1, <2>1, <3>1, DueIssue
    <3>2. ASSUME NEW p \in PaymentIds, NEW i \in InvoiceIds, NEW a \in Amounts, NEW d \in Days,
                 RecordPayment(p, i, a, d)
          PROVE  DueInv'
      <4> DEFINE new == Payment(i, a, d, None)
      <4>1. new \in PaymentRows /\ new.amount = a /\ a > 0 /\ ~new.voided /\ new.invoice = i
        BY PaymentIsRow, SalesAssumption
      <4> HIDE DEF new
      <4>2. /\ payments[p] = None /\ i \in Written(invoices)
            /\ payments' = [payments EXCEPT ![p] = new] /\ moved' = Synced(payments', moved, p)
            /\ opened = 2 /\ opened' = 2 /\ invoices' = invoices
        BY <3>2 DEF RecordPayment, Fresh, SyncCollection, new
      <4> QED
        BY <1>1, <2>1, <4>1, <4>2, DueNewReceipt
    <3>3. ASSUME NEW p \in PaymentIds, NEW i \in InvoiceIds, NEW l \in Lines,
                 ReconcileTransaction(l, p, i)
          PROVE  DueInv'
      <4> DEFINE new == Payment(i, LineAmount[l], LineOn[l], l)
      <4>1. LineAmount[l] \in Int /\ LineOn[l] \in Days
        BY ConstantFacts
      <4>2. new \in PaymentRows /\ new.amount = LineAmount[l] /\ ~new.voided /\ new.invoice = i
        BY <4>1, PaymentIsRow
      <4> HIDE DEF new
      <4>3. /\ payments[p] = None /\ i \in Written(invoices) /\ LineAmount[l] > 0
            /\ payments' = [payments EXCEPT ![p] = new] /\ moved' = Synced(payments', moved, p)
            /\ opened = 2 /\ opened' = 2 /\ invoices' = invoices
        BY <3>3 DEF ReconcileTransaction, Fresh, SyncCollection, new
      <4> QED
        BY <1>1, <2>1, <4>2, <4>3, DueNewReceipt
    <3>4. ASSUME NEW p \in PaymentIds, VoidPayment(p)
          PROVE  DueInv'
      <4>1. /\ IsLive(payments, p) /\ opened = 2 /\ opened' = 2 /\ invoices' = invoices
            /\ payments' = [payments EXCEPT ![p].voided = TRUE]
            /\ moved' = Synced(payments', moved, p)
        BY <3>4 DEF VoidPayment, IsLive, SyncCollection
      <4>2. /\ payments'[p] = [payments[p] EXCEPT !.voided = TRUE] /\ DOMAIN payments' = PaymentIds
            /\ \A q \in PaymentIds \ {p} : payments'[q] = payments[q]
        BY <4>1 DEF Rows, SalesRows
      <4> QED
        BY <1>1, <2>1, <4>1, <4>2, DueVoid
    <3>5. ASSUME BackfillServiceBookings PROVE DueInv'
      BY <1>1, <2>1, <3>5, DueOpening
    <3> QED
      BY <2>2, <2>5, <3>1, <3>2, <3>3, <3>4, <3>5, SalesSteps
         DEF WriteOffReceivable, RetractWriteOff, MarkDutyFiled, RetractDutyFiled
  <2>6. ASSUME NEW l \in Lines, UnreconcileTransaction(l) PROVE DueInv'
    <3>1. /\ opened = 2 /\ opened' = 2 /\ invoices' = invoices
          /\ payments' = [p \in PaymentIds |->
                            IF p \in PaymentsFrom(l) THEN [payments[p] EXCEPT !.voided = TRUE]
                            ELSE payments[p]]
      BY <2>6 DEF UnreconcileTransaction
    <3>2. CASE PaymentsFrom(l) = {}
      <4>1. payments' = payments /\ moved' = moved
        BY <2>6, <3>1, <3>2 DEF UnreconcileTransaction, Rows, SalesRows
      <4> QED
        BY <2>2, <3>1, <4>1
    <3>3. CASE PaymentsFrom(l) # {}
      <4>1. PICK p \in LivePayments : PaymentsFrom(l) = {p}
        BY <3>3 DEF StatementAgrees
      <4>2. p \in PaymentIds /\ IsLive(payments, p)
        BY DEF LivePayments, IsLive, Written, Rows, SalesRows
      <4>3. moved' = Synced(payments', moved, p)
        BY <2>6, <4>1 DEF UnreconcileTransaction, SyncCollection
      <4>4. /\ payments'[p] = [payments[p] EXCEPT !.voided = TRUE] /\ DOMAIN payments' = PaymentIds
            /\ \A q \in PaymentIds \ {p} : payments'[q] = payments[q]
        BY <3>1, <4>1, <4>2
      <4> QED
        BY <1>1, <2>1, <3>1, <4>2, <4>3, <4>4, DueVoid
    <3> QED
      BY <3>2, <3>3
  <2>7. ASSUME NEW l \in Lines, DeleteBankTransaction(l) PROVE DueInv'
    BY <2>2, <2>7 DEF DeleteBankTransaction, salesVars
  <2> QED
    BY <1>3, <2>3, <2>4, <2>5, <2>6, <2>7 DEF Next
<1> QED
  BY <1>2, <1>3

(* A new vault has no receipt; an older one has at most one, not written    *)
(* yet, within its invoice.                                                 *)
LEMMA DueInit == Init => DueInv
<1> SUFFICES ASSUME Init PROVE DueInv
  OBVIOUS
<1>1. Rows /\ moved = [p \in PaymentIds |-> None] /\ overpaid = {}
  BY RowsInit DEF Init
<1>2. moved \in VatOrNone /\ \A p \in PaymentIds : moved[p] = None
  BY <1>1 DEF VatOrNone
<1>3. ASSUME ReceiptsAre(payments),
             \A i \in Written(invoices) : Paid(payments, i) <= invoices[i].ttc,
             opened = 2 => Written(payments) = {}
      PROVE  DueInv
  <2>1. ASSUME NEW S \in SUBSET PaymentIds, IsFiniteSet(S) PROVE MadeDue(moved, S) = 0
    <3> DEFINE g == [q \in S |-> MovedOrZero(moved, q)]
    <3>1. \A q \in S : g[q] = 0
      BY <1>2 DEF MovedOrZero
    <3>2. MadeDue(moved, S) = SumFunctionOnSet(g, S)
      BY DEF MadeDue
    <3> HIDE DEF g
    <3> QED
      BY <2>1, <3>1, <3>2, SumOfZeros
  <2>2. ASSUME NEW i \in Written(invoices), PlainBill(i) PROVE Within(moved, payments, i)
    <3>1. MadeDue(moved, LivePaymentsOf(payments, i)) = 0
      BY <1>3, <2>1, LivePaymentsAre
    <3> QED
      BY <2>2, <3>1 DEF PlainBill, Within
  <2>3. Sound(moved, payments)
    BY <1>2, <1>3, <2>2 DEF Sound
  <2>4. opened = 2 => AllWritten(moved, payments)
    BY <1>3 DEF AllWritten, IsLive
  <2>5. opened = 2 => \A i \in Written(invoices) : ExactAt(moved, payments, i)
    BY <1>3 DEF ExactAt, LivePaymentsOf
  <2> QED
    BY <1>3, <2>3, <2>4, <2>5 DEF DueInv, NotOverpaid
<1>4. CASE NoSales
  <2>1. Written(payments) = {} /\ Written(invoices) = {} /\ DOMAIN payments = PaymentIds
    BY <1>4 DEF NoSales, Written
  <2> QED
    BY <1>3, <2>1 DEF ReceiptsAre
<1>5. ASSUME NEW b \in Bills, NEW a \in Amounts, NEW d \in Days, a <= b.ttc, OlderSales(b, a, d),
             opened = 0
      PROVE  DueInv
  <2> DEFINE invoice == Invoice(b, d, FALSE, None)
             receipt == Payment(1, a, d, None)
  <2>1. 1 \in InvoiceIds /\ 1 \in PaymentIds
    BY <1>5, SalesAssumption DEF OlderSales, InvoiceIds, PaymentIds
  <2>2. /\ invoice.ttc = b.ttc /\ b.ttc \in Int /\ invoice # None
        /\ receipt \in PaymentRows /\ receipt.amount = a /\ a > 0 /\ a \in Int
        /\ receipt.invoice = 1 /\ ~receipt.voided /\ receipt # None
    <3>1. invoice.ttc = b.ttc /\ b.ttc \in Int /\ b.vat \in Int
      BY SalesAssumption DEF Invoice
    <3>2. invoice \in InvoiceRows
      BY <3>1, InvoiceIsRow
    <3>3. a > 0 /\ a \in Int
      BY SalesAssumption
    <3>4. /\ receipt \in PaymentRows /\ receipt.amount = a
          /\ receipt.invoice = 1 /\ ~receipt.voided
      BY <2>1, <3>3, PaymentIsRow
    <3> HIDE DEF invoice, receipt
    <3>5. invoice # None /\ receipt # None
      BY <3>2, <3>4, ConstantFacts
    <3> QED
      BY <3>1, <3>3, <3>4, <3>5
  <2>3. /\ invoices = [i \in InvoiceIds |-> IF i = 1 THEN invoice ELSE None]
        /\ payments = [p \in PaymentIds |-> IF p = 1 THEN receipt ELSE None]
    BY <1>5 DEF OlderSales
  <2> HIDE DEF invoice, receipt
  <2>4. /\ Written(invoices) = {1} /\ Written(payments) = {1} /\ DOMAIN payments = PaymentIds
        /\ invoices[1] = invoice /\ payments[1] = receipt
    BY <2>1, <2>2, <2>3 DEF Written
  <2>5. ReceiptsAre(payments)
    BY <2>2, <2>4 DEF ReceiptsAre
  <2>6. Paid(payments, 1) = a
    <3>1. LivePaymentsOf(payments, 1) = {1}
      BY <2>2, <2>4 DEF LivePaymentsOf
    <3>2. /\ Collected(payments, {1}) = payments[1].amount + Collected(payments, {1} \ {1})
          /\ Collected(payments, {1} \ {1}) \in Int
      <4>1. IsFiniteSet({1}) /\ \A q \in {1} : payments[q].amount \in Int
        BY <2>2, <2>4, FS_Singleton
      <4> QED
        BY <4>1, CollectedWith
    <3>3. Collected(payments, {1} \ {1}) = 0
      <4>1. {1} \ {1} = {}
        OBVIOUS
      <4> QED
        BY <4>1, SumOfNone DEF Collected
    <3>4. Collected(payments, {1}) = a
      BY <2>2, <2>4, <3>2, <3>3
    <3> QED
      BY <3>1, <3>4 DEF Paid
  <2> QED
    BY <1>3, <1>5, <2>2, <2>4, <2>5, <2>6
<1> QED
  BY <1>4, <1>5 DEF Init

LEMMA DueInvariant == Spec => []DueInv
BY DueInit, DueStep, RowsInvariant, StatementCorrect, PTL DEF Spec

(* Once the vault has been opened, the live entries are those of the facts: *)
(* every invoice, every payment that is not voided, every expense that is   *)
(* paid, as it now is.                                                      *)
THEOREM BookIsFaithful == Spec => []BookAgrees
<1>1. Rows /\ DueInv /\ (opened = 2 => SalesBooked /\ ExpensesBooked) => BookAgrees
  <2>1. ASSUME Rows, DueInv, opened = 2 PROVE ReceiptsBooked
    <3>1. \A p \in PaymentIds : IsLive(payments, p) <=> p \in LivePayments
      BY DEF IsLive, LivePayments
    <3> QED
      BY <2>1, <3>1 DEF ReceiptsBooked, DueInv, Sound, AllWritten
  <2> QED
    BY <2>1 DEF BookAgrees
<1> QED
  BY <1>1, SalesAndExpensesBooked, DueInvariant, RowsInvariant, PTL

(* The receipts of an invoice never make more VAT due than it carries,      *)
(* unless a credit note on it adds some.                                    *)
THEOREM NeverMoreThanTheBill == Spec => []DueWithinBill
<1>1. DueInv => DueWithinBill
  BY DEF DueInv, Sound, DueWithinBill, PlainBill, Within
<1> QED
  BY <1>1, DueInvariant, PTL

(* All the VAT of an invoice is due once it is paid, to the cent, whatever  *)
(* the order its payments came and were voided in.                          *)
THEOREM PaidIsDue == Spec => []PaidMeansDue
<1>1. DueInv => PaidMeansDue
  BY DEF DueInv, PaidMeansDue, ExactAt, Settled, Exact
<1> QED
  BY <1>1, DueInvariant, PTL

----------------------------------------------------------------------------
(* A closed book.                                                           *)

SalesStill ==
    /\ \A i \in InvoiceIds : (i \in sold) # (i \in sold') => ~Closed(invoices'[i].on)
    /\ \A p \in PaymentIds : moved[p] # moved'[p] => ~Closed(payments'[p].on)
ExpensesStill ==
    \A e \in ExpenseIds : booked[e] # booked'[e] =>
      \A entry \in {booked[e], booked'[e]} \ {None} : ~Closed(entry.on)
TaxesStill == \A y \in closed \cap closed' : y \in taxed <=> y \in taxed'

LEMMA SalesSyncStill ==
    ASSUME Rows, NEW p \in PaymentIds, SyncCollection(p), sold' = sold
    PROVE  SalesStill
BY SyncCollectionRows DEF SalesStill

LEMMA SalesKeepStill == Rows /\ SalesNext => BackfillServiceBookings \/ SalesStill
<1> SUFFICES ASSUME Rows, SalesNext, ~BackfillServiceBookings PROVE SalesStill
  OBVIOUS
<1>1. ASSUME NEW i \in InvoiceIds, NEW invoice \in InvoiceRows, Issue(i, invoice)
      PROVE  SalesStill
  <2>1. /\ sold' = sold \cup {i} /\ moved' = moved /\ invoices'[i] = invoice
        /\ ~Closed(invoice.on)
    BY <1>1 DEF Issue, Rows, SalesRows
  <2> QED
    BY <2>1 DEF SalesStill
<1>2. ASSUME UNCHANGED <<sold, moved>> PROVE SalesStill
  BY <1>2 DEF SalesStill
<1> QED
  BY <1>1, <1>2, SalesSteps, SalesSyncStill DEF WriteOffReceivable, RetractWriteOff, MarkDutyFiled,
     RetractDutyFiled, RecordPayment, ReconcileTransaction, VoidPayment

LEMMA PurchasesKeepStill == Rows /\ PurchasesNext => BackfillExpensePayments \/ ExpensesStill
<1>1. ASSUME Rows, NEW e \in ExpenseIds, SyncExpensePayment(e) PROVE ExpensesStill
  BY <1>1, SyncExpenseRows DEF ExpensesStill
<1> QED
  BY <1>1 DEF PurchasesNext, RecordExpense, UpdateExpense, RecordPaidExpense, ReconcileExpense,
     AttachReceipt, AddFixedAsset, DeleteFixedAsset, DeleteExpense

LEMMA ExercisesKeepStill == ExercisesNext => TaxesStill
<1> SUFFICES ASSUME ExercisesNext PROVE TaxesStill
  OBVIOUS
<1>1. ASSUME NEW y \in Periods, NEW tax \in Taxes, CloseFiscalYear(y, tax) PROVE TaxesStill
  <2>1. y \notin closed
    <3>1. y.first \in Nat /\ y.last \in Nat /\ y.first <= y.last
      BY ExercisesAssumption DEF IsPeriod
    <3>2. Overlap(y, y)
      BY <3>1 DEF Overlap
    <3> QED
      BY <1>1, <3>2 DEF CloseFiscalYear
  <2> QED
    BY <1>1, <2>1 DEF CloseFiscalYear, TaxesStill
<1>2. ASSUME NEW y \in Periods, ApproveFiscalYear(y) \/ DeleteFiscalYear(y) PROVE TaxesStill
  BY <1>2 DEF ApproveFiscalYear, DeleteFiscalYear, TaxesStill
<1>3. ASSUME UNCHANGED exerciseVars PROVE TaxesStill
  BY <1>3 DEF exerciseVars, TaxesStill
<1> QED
  BY <1>1, <1>2, <1>3 DEF ExercisesNext, ImportBankTransactions, SettleBankTransaction,
     UnsettleBankTransaction

LEMMA UnreconcileKeepsStill ==
    ASSUME Rows, NEW l \in Lines, UnreconcileTransaction(l)
    PROVE  SalesStill /\ ExpensesStill
<1>1. SalesStill
  <2>1. PaymentsFrom(l) \subseteq PaymentIds /\ sold' = sold
    BY DEF UnreconcileTransaction, PaymentsFrom, LivePayments, Written, Rows, SalesRows
  <2>2. CASE moved' = moved
    BY <2>1, <2>2 DEF SalesStill
  <2>3. CASE \E p \in PaymentsFrom(l) : SyncCollection(p)
    BY <2>1, <2>3, SalesSyncStill
  <2> QED
    BY <2>2, <2>3 DEF UnreconcileTransaction
<1>2. ExpensesStill
  <2>1. ASSUME SyncExpensePayment(matched[l].ref) PROVE ExpensesStill
    BY <2>1 DEF SyncExpensePayment, ExpensesStill, Rows, PurchaseRows
  <2>2. ASSUME booked' = booked PROVE ExpensesStill
    BY <2>2 DEF ExpensesStill
  <2> QED
    BY <2>1, <2>2 DEF UnreconcileTransaction
<1> QED
  BY <1>1, <1>2

(* Between two openings, the entries dated in closed exercises stay.        *)
THEOREM ClosedBooks == Spec => ClosedBooksStayStill
<1>1. ASSUME Rows, Next PROVE ClosedBookStill
  <2>1. ASSUME UNCHANGED <<sold, moved>> PROVE SalesStill
    BY <2>1 DEF SalesStill
  <2>2. ASSUME UNCHANGED booked PROVE ExpensesStill
    BY <2>2 DEF ExpensesStill
  <2>3. ASSUME UNCHANGED exerciseVars PROVE TaxesStill
    BY <2>3 DEF exerciseVars, TaxesStill
  <2>4. ASSUME ExercisesNext, UNCHANGED <<salesVars, purchaseVars>>
        PROVE  SalesStill /\ ExpensesStill /\ TaxesStill
    BY <2>1, <2>2, <2>4, ExercisesKeepStill DEF salesVars, purchaseVars
  <2>5. ASSUME SalesNext, UNCHANGED purchaseVars
        PROVE  (BackfillServiceBookings \/ SalesStill) /\ ExpensesStill /\ TaxesStill
    <3>1. UNCHANGED exerciseVars
      BY <1>1, <2>5, SalesSteps DEF Issue, WriteOffReceivable, RetractWriteOff, MarkDutyFiled,
         RetractDutyFiled, RecordPayment, ReconcileTransaction, VoidPayment,
         BackfillServiceBookings
    <3> QED
      BY <1>1, <2>2, <2>3, <2>5, <3>1, SalesKeepStill DEF purchaseVars
  <2>6. ASSUME PurchasesNext, UNCHANGED salesVars
        PROVE  SalesStill /\ (BackfillExpensePayments \/ ExpensesStill) /\ TaxesStill
    <3>1. UNCHANGED exerciseVars
      BY <2>6 DEF PurchasesNext, RecordExpense, UpdateExpense, RecordPaidExpense,
         ReconcileExpense, AttachReceipt, AddFixedAsset, DeleteFixedAsset, DeleteExpense,
         BackfillExpensePayments
    <3> QED
      BY <1>1, <2>1, <2>3, <2>6, <3>1, PurchasesKeepStill DEF salesVars
  <2>7. ASSUME NEW l \in Lines, UnreconcileTransaction(l) \/ DeleteBankTransaction(l)
        PROVE  SalesStill /\ ExpensesStill /\ TaxesStill
    <3>1. CASE UnreconcileTransaction(l)
      BY <1>1, <2>3, <3>1, UnreconcileKeepsStill DEF UnreconcileTransaction
    <3>2. CASE DeleteBankTransaction(l)
      BY <2>1, <2>2, <2>3, <3>2 DEF DeleteBankTransaction, salesVars, purchaseVars
    <3> QED
      BY <2>7, <3>1, <3>2
  <2>8. /\ BackfillServiceBookings \/ SalesStill
        /\ BackfillExpensePayments \/ ExpensesStill
        /\ TaxesStill
    BY <1>1, <2>4, <2>5, <2>6, <2>7 DEF Next
  <2> QED
    BY <2>8 DEF ClosedBookStill, SalesStill, ExpensesStill, TaxesStill
<1>2. Rows /\ [Next]_vars => [ClosedBookStill]_vars
  BY <1>1
<1> QED
  BY <1>2, RowsInvariant, PTL DEF Spec, ClosedBooksStayStill
=============================================================================
