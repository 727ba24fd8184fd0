--------------------------- MODULE TopUpsProofs ---------------------------
(***************************************************************************)
(* Proofs about TopUps, for any orders, shops, payments, administrators    *)
(* and concurrent webhook requests.                                        *)
(***************************************************************************)
EXTENDS TopUps, TLAPS

-----------------------------------------------------------------------------
(* The inductive invariant.                                                *)

\* The ledger and the submissions agree: a payment was posted once if a row
\* is CREDITED for it, and not at all otherwise.
Counted ==
  \A p \in Payments :
    /\ (\E r \in Rows : IsCredited(r) /\ row[r].payment = p) => credits[p] = 1
    /\ (\A r \in Rows : IsCredited(r) => row[r].payment # p) => credits[p] = 0

\* What the rows hold: a settlement's row is for its own order's checkout, a
\* row that waits is for a large payment at the bank.
RowsHold ==
  /\ \A o \in Orders :
       IsCredited(SettledRow(o)) => row[SettledRow(o)].payment = GatewayPayment(o)
  /\ \A r \in Rows : row[r].status = "MATCHED" => row[r].payment \in Banks
  /\ \A r \in Rows : IsCredited(r) => row[r].payment \in Payments

\* A request that was told of a payment was told the truth, and it lasts.
AnswersHold ==
  \A h \in Hooks :
    hook[h].at = "answered" /\ hook[h].answer = "paid" => gateway[hook[h].order] = "paid"

\* The gateway knows nothing of an order that has not been made.
Unmade == \A o \in Orders : ~Exists(o) => gateway[o] = "none"

Settled ==
  TypeOK /\ Unmade /\ Counted /\ RowsHold /\ PaidIsBacked /\ AnswersHold /\ NothingForNothing

-----------------------------------------------------------------------------
(* Names.                                                                  *)

\* The rows of the gateway and of the desk have names of their own.
LEMMA RowNames ==
  /\ \A o \in Orders : SettledRow(o) \in Rows /\ SettledRow(o) # NoRow
  /\ \A n \in 1..MaxRows : DeskRow(n) \in Rows /\ DeskRow(n) # NoRow
  /\ \A r \in DeskRows : r \in Rows /\ r # NoRow
  /\ \A n \in 1..MaxRows, o \in Orders : DeskRow(n) # SettledRow(o)
  /\ \A r \in DeskRows, o \in Orders : r # SettledRow(o)
  /\ \A o1, o2 \in Orders : SettledRow(o1) = SettledRow(o2) => o1 = o2
BY DEF SettledRow, DeskRow, DeskRows, Rows, NoRow

\* Payments and order references do not meet.
LEMMA PaymentNames ==
  /\ \A o \in Orders : GatewayPayment(o) \in Payments /\ GatewayPayment(o) \notin Banks
  /\ Banks \subseteq Payments
  /\ \A o1, o2 \in Orders : GatewayPayment(o1) = GatewayPayment(o2) => o1 = o2
  /\ \A o, q \in Orders : Reference(o) # GatewayPayment(q)
  /\ \A o \in Orders : Reference(o) \notin Payments
  /\ \A o1, o2 \in Orders : Reference(o1) = Reference(o2) => o1 = o2
BY NamesAreApart DEF GatewayPayment, Payments, Reference

\* A handler at rest has no request.
LEMMA IdleIs ==
  /\ Idle.at = "idle"
  /\ Idle \notin Requests
BY DEF Idle, Requests

\* The empty rows are rows.
LEMMA Blank ==
  /\ NoOrder \in OrderRows
  /\ NoDeposit \in Deposits
BY DEF NoOrder, OrderRows, NoDeposit, Deposits, OrderStatus, Methods, Quotes

\* The shop a printed reference resolves to is the shop of its order.
LEMMA ReferenceResolves ==
  ASSUME NEW o \in Orders, Exists(o)
  PROVE  MerchantForReference(Reference(o)) = order[o].shop
<1>1. (CHOOSE x \in Orders : Reference(o) = Reference(x)) = o
  BY PaymentNames
<1> QED
  BY <1>1 DEF MerchantForReference

\* A reference names a shop or none.
LEMMA ShopOfReference ==
  ASSUME TypeOK, NEW q \in Quotes
  PROVE  MerchantForReference(q) \in Shops \cup {NoShop}
<1>1. CASE \E o \in Orders : q = Reference(o) /\ Exists(o)
  <2>1. PICK o \in Orders : q = Reference(o) /\ Exists(o)
    BY <1>1
  <2>2. MerchantForReference(q) = order[o].shop
    BY <2>1, ReferenceResolves
  <2> QED
    BY <2>2 DEF TypeOK, OrderRows
<1>2. CASE ~\E o \in Orders : q = Reference(o) /\ Exists(o)
  BY <1>2 DEF MerchantForReference
<1> QED
  BY <1>1, <1>2

\* Orders stay orders when they are marked paid.
LEMMA MarkPaidTyped ==
  ASSUME TypeOK, NEW reference, NEW r \in Rows
  PROVE  MarkPaid(reference, r) \in [Orders -> OrderRows]
BY DEF MarkPaid, TypeOK, OrderRows, OrderStatus

\* Orders stay orders when one is cancelled.
LEMMA CancelledTyped ==
  ASSUME TypeOK, NEW o \in Orders
  PROVE  Cancelled(o) \in [Orders -> OrderRows]
BY DEF Cancelled, TypeOK, OrderRows, OrderStatus

-----------------------------------------------------------------------------
(* Type correctness.                                                       *)

\* The first state is well typed.
LEMMA InitTyped == Init => TypeOK
BY Blank, ConstantsAssumption DEF Init, TypeOK, Checkout

\* A request ends.
LEMMA ReplyTyped ==
  ASSUME TypeOK, NEW h \in Hooks, NEW b \in BOOLEAN, Reply(h, b)
  PROVE  hook' \in [Hooks -> {Idle} \cup Requests] /\ owed' \subseteq Orders \X Outcomes
BY DEF Reply, TypeOK

\* Every step keeps the types.
LEMMA NextTyped == TypeOK /\ [Next]_vars => TypeOK'
<1> SUFFICES ASSUME TypeOK, [Next]_vars PROVE TypeOK'
  OBVIOUS
<1>1. ASSUME NEW o \in Orders, NEW s \in Shops, OrderBankDeposit(o, s) PROVE TypeOK'
  <2>1. Opened(s, "BANK_COUNTER") \in OrderRows
    BY DEF Opened, OrderRows, OrderStatus, Methods
  <2> QED BY <1>1, <2>1 DEF OrderBankDeposit, TypeOK
<1>2. ASSUME NEW o \in Orders, NEW s \in Shops, StartChapaDeposit(o, s) PROVE TypeOK'
  <2>1. Opened(s, "CHAPA") \in OrderRows
    BY DEF Opened, OrderRows, OrderStatus, Methods
  <2> QED BY <1>2, <2>1 DEF StartChapaDeposit, TypeOK, Checkout
<1>3. ASSUME NEW o \in Orders, NEW s \in Shops, CancelBankDeposit(o, s) PROVE TypeOK'
  BY <1>3, CancelledTyped DEF CancelBankDeposit, TypeOK
<1>4. ASSUME NEW o \in Orders, ChapaStarted(o) PROVE TypeOK'
  BY <1>4 DEF ChapaStarted, TypeOK, Checkout
<1>5. ASSUME NEW o \in Orders, ChapaUnavailable(o) PROVE TypeOK'
  BY <1>5, CancelledTyped DEF ChapaUnavailable, TypeOK, Checkout
<1>6. ASSUME NEW o \in Orders, WindowPasses(o) PROVE TypeOK'
  BY <1>6 DEF WindowPasses, TypeOK, OrderRows
<1>7. ASSUME NEW o \in Orders, NEW e \in Outcomes, Outcome(o, e) PROVE TypeOK'
  BY <1>7 DEF Outcome, TypeOK, Checkout
<1>8. ASSUME NEW h \in Hooks, NEW o \in Orders, Verified(h, o) PROVE TypeOK'
  <2>1. hook[h] \in Requests
    BY <1>8, IdleIs DEF Verified, TypeOK
  <2>2. [hook[h] EXCEPT !.at = "answered", !.answer = gateway[o]] \in Requests
    BY <2>1 DEF Requests, TypeOK
  <2>3. hook' = [hook EXCEPT ![h] = [hook[h] EXCEPT !.at = "answered", !.answer = gateway[o]]]
    BY <1>8, <2>1 DEF Verified, TypeOK
  <2> QED BY <1>8, <2>2, <2>3 DEF Verified, TypeOK
<1>9. ASSUME NEW h \in Hooks, NEW o \in Orders, NEW e \in Outcomes, ReceiveWebhook(h, o, e)
      PROVE TypeOK'
  <2>1. [at |-> "asking", order |-> o, event |-> e, saw |-> order[o].status, answer |-> "none"]
          \in Requests
    BY DEF Requests, TypeOK, OrderRows, Checkout
  <2> QED BY <1>9, <2>1 DEF ReceiveWebhook, TypeOK
<1>10. ASSUME NEW h \in Hooks, Unreachable(h) PROVE TypeOK'
  BY <1>10, ReplyTyped DEF Unreachable, TypeOK
<1>11. ASSUME NEW h \in Hooks, RefuseChapa(h) PROVE TypeOK'
  BY <1>11, ReplyTyped DEF RefuseChapa, TypeOK
<1>12. ASSUME NEW h \in Hooks, LoseClaim(h) PROVE TypeOK'
  BY <1>12, ReplyTyped DEF LoseClaim, TypeOK
<1>13. ASSUME NEW h \in Hooks, SettlementThrows(h) PROVE TypeOK'
  BY <1>13, ReplyTyped DEF SettlementThrows, TypeOK
<1>14. ASSUME NEW h \in Hooks, SettleChapaDeposit(h) PROVE TypeOK'
  <2> DEFINE o == hook[h].order
  <2>1. o \in Orders
    BY <1>14, IdleIs DEF SettleChapaDeposit, TypeOK, Requests
  <2>2. [status |-> "CREDITED", payment |-> GatewayPayment(o), quoted |-> Reference(o),
         shop |-> order[o].shop, by |-> NoAdmin, approver |-> NoAdmin] \in Deposits
    BY <2>1, PaymentNames DEF Deposits, Quotes, TypeOK, OrderRows
  <2>3. row' \in [Rows -> Deposits]
    BY <1>14, <2>1, <2>2, RowNames DEF SettleChapaDeposit, TypeOK
  <2>4. order' \in [Orders -> OrderRows]
    BY <1>14, <2>1, RowNames DEF SettleChapaDeposit, TypeOK, OrderRows, OrderStatus
  <2>5. credits' \in [Payments -> Nat]
    BY <1>14, <2>1, PaymentNames DEF SettleChapaDeposit, TypeOK
  <2> QED BY <1>14, <2>3, <2>4, <2>5, ReplyTyped DEF SettleChapaDeposit, TypeOK
<1>15. ASSUME NEW n \in 1..MaxRows, NEW a \in Admins, NEW p \in Payments, NEW q \in Quotes,
              NEW found \in BOOLEAN, RecordDeposit(n, a, p, q, found)
       PROVE TypeOK'
  <2> DEFINE status == StatusAfterVerification(p, q, found)
             new == IF status \in {"MATCHED", "CREDITED"}
                    THEN [status |-> status, payment |-> p, quoted |-> q,
                          shop |-> MerchantForReference(q), by |-> a, approver |-> NoAdmin]
                    ELSE [NoDeposit EXCEPT !.status = "REFUSED"]
  <2>1. new \in Deposits
    BY ShopOfReference, Blank DEF Deposits
  <2>2. row' \in [Rows -> Deposits]
    BY <1>15, <2>1, RowNames DEF RecordDeposit, TypeOK
  <2>3. order' \in [Orders -> OrderRows]
    BY <1>15, MarkPaidTyped, RowNames DEF RecordDeposit, TypeOK
  <2>4. credits' \in [Payments -> Nat]
    BY <1>15 DEF RecordDeposit, TypeOK
  <2> QED BY <1>15, <2>2, <2>3, <2>4 DEF RecordDeposit, TypeOK
<1>16. ASSUME NEW r \in DeskRows, NEW a \in Admins, ApproveDeposit(r, a) PROVE TypeOK'
  <2>1. row' \in [Rows -> Deposits]
    <3>1. r \in Rows /\ row[r] \in Deposits
      BY RowNames DEF TypeOK
    <3>2. [row[r] EXCEPT !.status = "CREDITED", !.approver = a] \in Deposits
      BY <3>1 DEF Deposits
    <3>3. row' = [row EXCEPT ![r] = [row[r] EXCEPT !.status = "CREDITED", !.approver = a]]
      BY <1>16, <3>1 DEF ApproveDeposit, TypeOK
    <3> QED BY <3>2, <3>3 DEF TypeOK
  <2>2. order' \in [Orders -> OrderRows]
    BY <1>16, MarkPaidTyped, RowNames DEF ApproveDeposit
  <2>3. credits' \in [Payments -> Nat]
    <3> DEFINE p == row[r].payment
    <3>1. CASE p \in Payments
      <4>1. credits[p] + 1 \in Nat
        BY <3>1 DEF TypeOK
      <4>2. credits' = [credits EXCEPT ![p] = credits[p] + 1]
        BY <1>16 DEF ApproveDeposit
      <4> QED BY <4>1, <4>2 DEF TypeOK
    <3>2. CASE p \notin Payments
      <4>1. credits' = credits
        BY <1>16, <3>2 DEF ApproveDeposit, TypeOK
      <4> QED BY <4>1 DEF TypeOK
    <3> QED BY <3>1, <3>2
  <2> QED BY <1>16, <2>1, <2>2, <2>3 DEF ApproveDeposit, TypeOK
<1>17. ASSUME Crash PROVE TypeOK'
  BY <1>17, ConstantsAssumption DEF Crash, TypeOK, Checkout
<1>18. ASSUME UNCHANGED vars PROVE TypeOK'
  BY <1>18 DEF vars, TypeOK
<1> QED
  BY <1>1, <1>2, <1>3, <1>4, <1>5, <1>6, <1>7, <1>8, <1>9, <1>10, <1>11, <1>12, <1>13, <1>14,
     <1>15, <1>16, <1>17, <1>18 DEF Next

\* Every variable keeps its type, for every value of the constants.
THEOREM TypeCorrect == Spec => []TypeOK
<1>1. Init => TypeOK
  BY InitTyped
<1>2. TypeOK /\ [Next]_vars => TypeOK'
  BY NextTyped
<1> QED
  BY <1>1, <1>2, PTL DEF Spec

-----------------------------------------------------------------------------
(* What most steps leave alone.                                            *)

\* Neither the ledger nor a submission changes, and no order becomes PAID,
\* stops being it, or changes the shop of an answer.
Quiet ==
  /\ row' = row
  /\ credits' = credits
  /\ \A o \in Orders :
       /\ order'[o].paidBy = order[o].paidBy
       /\ order'[o].status = "PAID" <=> order[o].status = "PAID"
       /\ order[o].paidBy # NoRow => order'[o].shop = order[o].shop

\* The gateway does not forget a payment, and an order is not unmade.
Keeps ==
  \A o \in Orders : /\ gateway[o] = "paid" => gateway'[o] = "paid"
                    /\ Exists(o) => Exists(o)'
                    /\ gateway[o] = "none" => gateway'[o] = "none" \/ Exists(o)'

\* A cancellation pays nothing and loses nothing that was paid.
LEMMA CancelledKeeps ==
  ASSUME TypeOK, NEW o \in Orders, order' = Cancelled(o)
  PROVE  \A x \in Orders : /\ order'[x].paidBy = order[x].paidBy
                           /\ order'[x].shop = order[x].shop
                           /\ order'[x].status = "PAID" <=> order[x].status = "PAID"
                           /\ Exists(x) => Exists(x)'
BY DEF Cancelled, TypeOK, OrderRows, Exists

\* Marking paid touches only the open order of that reference.
LEMMA MarkPaidKeeps ==
  ASSUME TypeOK, NEW reference, NEW r, order' = MarkPaid(reference, r)
  PROVE  \A x \in Orders : /\ order'[x].shop = order[x].shop
                           /\ Exists(x) => Exists(x)'
                           /\ \/ order'[x] = order[x]
                              \/ /\ reference = Reference(x)
                                 /\ order[x].status = "OPEN"
                                 /\ order'[x].status = "PAID"
                                 /\ order'[x].paidBy = r
BY DEF MarkPaid, TypeOK, OrderRows, Exists

\* No step makes the gateway forget a payment, or unmakes an order.
LEMMA NextKeeps ==
  ASSUME TypeOK, Unmade, [Next]_vars PROVE Keeps
<1>1. ASSUME NEW o \in Orders, NEW s \in Shops, OrderBankDeposit(o, s) PROVE Keeps
  BY <1>1 DEF OrderBankDeposit, Keeps, TypeOK, Opened, Exists
<1>2. ASSUME NEW o \in Orders, NEW s \in Shops, StartChapaDeposit(o, s) PROVE Keeps
  BY <1>2 DEF StartChapaDeposit, Keeps, TypeOK, Opened, Exists, Unmade, IsNext
<1>3. ASSUME NEW o \in Orders, NEW s \in Shops, CancelBankDeposit(o, s) PROVE Keeps
  BY <1>3, CancelledKeeps DEF CancelBankDeposit, Keeps
<1>4. ASSUME NEW o \in Orders, ChapaStarted(o) PROVE Keeps
  BY <1>4 DEF ChapaStarted, Keeps, TypeOK, Exists
<1>5. ASSUME NEW o \in Orders, ChapaUnavailable(o) PROVE Keeps
  BY <1>5, CancelledKeeps DEF ChapaUnavailable, Keeps, TypeOK
<1>6. ASSUME NEW o \in Orders, WindowPasses(o) PROVE Keeps
  BY <1>6 DEF WindowPasses, Keeps, TypeOK, OrderRows, Exists
<1>7. ASSUME NEW o \in Orders, NEW e \in Outcomes, Outcome(o, e) PROVE Keeps
  BY <1>7 DEF Outcome, Keeps, TypeOK, Exists
<1>8. ASSUME UNCHANGED <<order, gateway>> PROVE Keeps
  BY <1>8 DEF Keeps, Exists
<1>9. ASSUME NEW h \in Hooks, SettleChapaDeposit(h) PROVE Keeps
  BY <1>9 DEF SettleChapaDeposit, Keeps, TypeOK, OrderRows, Exists
<1>10. ASSUME NEW n \in 1..MaxRows, NEW a \in Admins, NEW p \in Payments, NEW q \in Quotes,
              NEW found \in BOOLEAN, RecordDeposit(n, a, p, q, found)
       PROVE Keeps
  BY <1>10, MarkPaidKeeps DEF RecordDeposit, Keeps, Exists
<1>11. ASSUME NEW r \in DeskRows, NEW a \in Admins, ApproveDeposit(r, a) PROVE Keeps
  BY <1>11, MarkPaidKeeps DEF ApproveDeposit, Keeps
<1>12. ASSUME Crash PROVE Keeps
  BY <1>12 DEF Crash, Keeps, TypeOK, Exists
<1>13. ASSUME NEW h \in Hooks,
              \/ \E o \in Orders : Verified(h, o) \/ \E e \in Outcomes : ReceiveWebhook(h, o, e)
              \/ Unreachable(h) \/ RefuseChapa(h) \/ LoseClaim(h) \/ SettlementThrows(h)
       PROVE  UNCHANGED <<order, gateway>>
  BY <1>13 DEF Verified, ReceiveWebhook, Unreachable, RefuseChapa, LoseClaim, SettlementThrows
<1>14. CASE UNCHANGED vars
  BY <1>14, <1>8 DEF vars
<1> QED
  BY <1>1, <1>2, <1>3, <1>4, <1>5, <1>6, <1>7, <1>8, <1>9, <1>10, <1>11, <1>12, <1>13, <1>14 DEF Next

\* Every step leaves the gateway without orders that were not made.
LEMMA NextUnmade ==
  ASSUME TypeOK, Unmade, [Next]_vars PROVE Unmade'
<1>1. Keeps
  BY NextKeeps
<1>2. TypeOK'
  BY NextTyped
<1> QED
  BY <1>1 DEF Keeps, Unmade

\* A step that is quiet and forgets nothing keeps the books.
LEMMA QuietKeeps ==
  ASSUME Settled, Quiet, Keeps
  PROVE  Counted' /\ RowsHold' /\ PaidIsBacked' /\ NothingForNothing'
<1>1. Counted' /\ RowsHold'
  BY DEF Settled, Quiet, Counted, RowsHold, IsCredited
<1>2. PaidIsBacked'
  BY DEF Settled, Quiet, PaidIsBacked
<1>3. NothingForNothing'
  BY DEF Settled, Quiet, Keeps, NothingForNothing
<1> QED
  BY <1>1, <1>2, <1>3

-----------------------------------------------------------------------------
(* The three steps that credit.                                            *)

Loud ==
  \/ \E h \in Hooks : SettleChapaDeposit(h)
  \/ \E n \in 1..MaxRows, a \in Admins, p \in Payments, q \in Quotes, found \in BOOLEAN :
       RecordDeposit(n, a, p, q, found)
  \/ \E r \in DeskRows, a \in Admins : ApproveDeposit(r, a)

\* A step that is not one of the three that credit leaves rows and credits alone.
LEMMA NextQuiet ==
  ASSUME Settled, [Next]_vars PROVE Quiet \/ Loud
<1> USE DEF Settled
<1>1. ASSUME NEW o \in Orders, NEW s \in Shops, NEW m, order' = [order EXCEPT ![o] = Opened(s, m)],
             IsNext(o), UNCHANGED <<row, credits>>
      PROVE Quiet
  <2>1. order[o].status = "NONE"
    BY <1>1 DEF IsNext, Exists
  <2>2. order[o].paidBy = NoRow
    BY <2>1 DEF PaidIsBacked
  <2> QED BY <1>1, <2>1, <2>2 DEF Quiet, TypeOK, Opened
<1>2. ASSUME NEW o \in Orders, NEW s \in Shops, OrderBankDeposit(o, s) PROVE Quiet
  BY <1>1, <1>2 DEF OrderBankDeposit
<1>3. ASSUME NEW o \in Orders, NEW s \in Shops, StartChapaDeposit(o, s) PROVE Quiet
  BY <1>1, <1>3 DEF StartChapaDeposit
<1>4. ASSUME NEW o \in Orders, NEW s \in Shops, CancelBankDeposit(o, s) PROVE Quiet
  BY <1>4, CancelledKeeps DEF CancelBankDeposit, Quiet
<1>5. ASSUME NEW o \in Orders, ChapaUnavailable(o) PROVE Quiet
  BY <1>5, CancelledKeeps DEF ChapaUnavailable, Quiet
<1>6. ASSUME NEW o \in Orders, WindowPasses(o) PROVE Quiet
  BY <1>6 DEF WindowPasses, Quiet, TypeOK, OrderRows
<1>7. ASSUME UNCHANGED <<order, row, credits>> PROVE Quiet
  BY <1>7 DEF Quiet
<1>8. ASSUME NEW o \in Orders, ChapaStarted(o) \/ \E e \in Outcomes : Outcome(o, e) PROVE Quiet
  BY <1>7, <1>8 DEF ChapaStarted, Outcome
<1>9. ASSUME NEW h \in Hooks,
             \/ \E o \in Orders : Verified(h, o) \/ \E e \in Outcomes : ReceiveWebhook(h, o, e)
             \/ Unreachable(h) \/ RefuseChapa(h) \/ LoseClaim(h) \/ SettlementThrows(h)
      PROVE  Quiet
  BY <1>7, <1>9 DEF Verified, ReceiveWebhook, Unreachable, RefuseChapa, LoseClaim, SettlementThrows
<1>10. CASE Crash \/ UNCHANGED vars
  BY <1>7, <1>10 DEF Crash, vars
<1> QED
  BY <1>2, <1>3, <1>4, <1>5, <1>6, <1>8, <1>9, <1>10 DEF Next, Loud

\* A row that was not CREDITED becomes so for a payment no row was CREDITED
\* for, and the payment is posted: the ledger and the rows still agree.
LEMMA CreditCounts ==
  ASSUME TypeOK, Counted, NEW r \in Rows, NEW p \in Payments,
         IndexAllows(p), ~IsCredited(r),
         row'[r].status = "CREDITED", row'[r].payment = p,
         \A x \in Rows : x # r => row'[x] = row[x],
         credits' = [credits EXCEPT ![p] = @ + 1]
  PROVE  Counted'
<1>1. credits[p] = 0
  BY DEF Counted, IndexAllows
<1>2. credits'[p] = 1
  BY <1>1 DEF TypeOK
<1>3. \A x \in Payments : x # p => credits'[x] = credits[x]
  BY DEF TypeOK
<1>4. ASSUME NEW x \in Payments, x # p
      PROVE  \A q \in Rows : (IsCredited(q) /\ row[q].payment = x)
                               <=> (IsCredited(q)' /\ row'[q].payment = x)
  BY <1>4 DEF IsCredited
<1>5. IsCredited(r)'
  BY DEF IsCredited
<1> QED
  BY <1>2, <1>3, <1>4, <1>5 DEF Counted

\* The gateway's credit.
LEMMA SettleKeeps ==
  ASSUME Settled, Keeps, NEW h \in Hooks, SettleChapaDeposit(h)
  PROVE  Counted' /\ RowsHold' /\ PaidIsBacked' /\ NothingForNothing'
<1> DEFINE o == hook[h].order
           p == GatewayPayment(o)
           r == SettledRow(o)
<1>1. o \in Orders /\ p \in Payments /\ r \in Rows /\ r # NoRow
  BY IdleIs, PaymentNames, RowNames DEF SettleChapaDeposit, Settled, TypeOK, Requests
<1>2. ~IsCredited(r)
  BY <1>1 DEF Settled, RowsHold, SettleChapaDeposit, IndexAllows
<1>3. /\ row'[r].status = "CREDITED" /\ row'[r].payment = p /\ row'[r].shop = order[o].shop
      /\ \A x \in Rows : x # r => row'[x] = row[x]
      /\ credits' = [credits EXCEPT ![p] = @ + 1]
  BY <1>1 DEF SettleChapaDeposit, Settled, TypeOK
<1>4. Counted'
  BY <1>1, <1>2, <1>3, CreditCounts DEF SettleChapaDeposit, Settled
<1>5. RowsHold'
  BY <1>1, <1>3, RowNames DEF Settled, RowsHold, IsCredited
<1>6. /\ order'[o].status = "PAID" /\ order'[o].paidBy = r /\ order'[o].shop = order[o].shop
      /\ \A x \in Orders : x # o => order'[x] = order[x]
  BY <1>1 DEF SettleChapaDeposit, Settled, TypeOK, OrderRows
<1>7. credits'[p] = 1
  BY <1>1, <1>3, <1>4 DEF Counted, IsCredited
<1>8. PaidIsBacked'
  <2>1. ASSUME NEW x \in Orders, x # o, order[x].paidBy # NoRow
        PROVE  /\ row'[order[x].paidBy] = row[order[x].paidBy]
               /\ credits'[row[order[x].paidBy].payment] = 1
    <3> DEFINE y == order[x].paidBy
    <3>1. IsCredited(y) /\ credits[row[y].payment] = 1 /\ y \in Rows
      BY <2>1 DEF Settled, PaidIsBacked, IsCredited, TypeOK, OrderRows
    <3>2. y # r /\ row[y].payment # p /\ row[y].payment \in Payments
      BY <3>1, <1>2 DEF SettleChapaDeposit, IndexAllows, Settled, RowsHold
    <3> QED BY <3>1, <3>2, <1>1, <1>3 DEF Settled, TypeOK
  <2>2. ASSUME NEW x \in Orders, x # o
        PROVE /\ order'[x].status = "PAID" <=> order'[x].paidBy # NoRow
              /\ order'[x].paidBy # NoRow => /\ row'[order'[x].paidBy].status = "CREDITED"
                                            /\ row'[order'[x].paidBy].shop = order'[x].shop
                                            /\ credits'[row'[order'[x].paidBy].payment] = 1
    BY <2>1, <2>2, <1>6 DEF Settled, PaidIsBacked
  <2> QED BY <2>2, <1>1, <1>3, <1>6, <1>7 DEF PaidIsBacked
<1>9. gateway'[o] = "paid"
  BY <1>1 DEF SettleChapaDeposit, DecidesToCredit, Settled, AnswersHold
<1>10. NothingForNothing'
  <2>1. ASSUME NEW x \in Orders, x # o PROVE credits'[GatewayPayment(x)] = credits[GatewayPayment(x)]
    BY <1>1, <1>3, <2>1, PaymentNames DEF Settled, TypeOK
  <2> QED BY <1>9, <2>1 DEF NothingForNothing, Settled, Keeps
<1> QED
  BY <1>4, <1>5, <1>8, <1>10

\* The desk credits p by its row r, and marks an order that reference names.
LEMMA DeskKeeps ==
  ASSUME Settled, Keeps, NEW r \in DeskRows, NEW p \in Payments, NEW reference,
         IndexAllows(p), ~IsCredited(r),
         row'[r].status = "CREDITED", row'[r].payment = p,
         \A x \in Rows : x # r => row'[x] = row[x],
         credits' = [credits EXCEPT ![p] = @ + 1],
         order' = MarkPaid(reference, r),
         \A o \in Orders : Reference(o) = reference /\ Exists(o) => row'[r].shop = order[o].shop,
         \A o \in Orders : p = GatewayPayment(o) => gateway[o] = "paid"
  PROVE  Counted' /\ RowsHold' /\ PaidIsBacked' /\ NothingForNothing'
<1>1. r \in Rows /\ r # NoRow /\ \A o \in Orders : r # SettledRow(o)
  BY RowNames
<1>2. Counted'
  BY <1>1, CreditCounts DEF Settled
<1>3. RowsHold'
  BY <1>1, RowNames DEF Settled, RowsHold, IsCredited
<1>4. credits'[p] = 1
  BY <1>1, <1>2 DEF Counted, IsCredited
<1>5. ASSUME NEW x \in Orders, order[x].paidBy # NoRow
      PROVE  /\ row'[order[x].paidBy] = row[order[x].paidBy]
             /\ credits'[row[order[x].paidBy].payment] = 1
  <2> DEFINE y == order[x].paidBy
  <2>1. IsCredited(y) /\ credits[row[y].payment] = 1 /\ y \in Rows
    BY <1>5 DEF Settled, PaidIsBacked, IsCredited, TypeOK, OrderRows
  <2>2. y # r /\ row[y].payment # p /\ row[y].payment \in Payments
    BY <2>1 DEF IndexAllows, Settled, RowsHold
  <2> QED BY <2>1, <2>2 DEF Settled, TypeOK
<1>6. PaidIsBacked'
  <2>1. ASSUME NEW x \in Orders
        PROVE /\ order'[x].status = "PAID" <=> order'[x].paidBy # NoRow
              /\ order'[x].paidBy # NoRow => /\ row'[order'[x].paidBy].status = "CREDITED"
                                            /\ row'[order'[x].paidBy].shop = order'[x].shop
                                            /\ credits'[row'[order'[x].paidBy].payment] = 1
    <3>1. CASE order'[x] = order[x]
      BY <3>1, <1>5 DEF Settled, PaidIsBacked
    <3>2. CASE /\ reference = Reference(x)
               /\ order[x].status = "OPEN"
               /\ order'[x].status = "PAID"
               /\ order'[x].paidBy = r
      <4>1. order'[x].shop = order[x].shop
        BY MarkPaidKeeps DEF Settled
      <4> QED BY <3>2, <4>1, <1>1, <1>4 DEF Exists
    <3> QED BY <3>1, <3>2, MarkPaidKeeps DEF Settled
  <2> QED BY <2>1 DEF PaidIsBacked
<1>7. NothingForNothing'
  BY <1>4, PaymentNames DEF Settled, NothingForNothing, Keeps, TypeOK
<1> QED
  BY <1>2, <1>3, <1>6, <1>7

\* The desk's credit, or a row that waits for a second administrator.
LEMMA RecordKeeps ==
  ASSUME Settled, Keeps, NEW n \in 1..MaxRows, NEW a \in Admins, NEW p \in Payments,
         NEW q \in Quotes, NEW found \in BOOLEAN, RecordDeposit(n, a, p, q, found)
  PROVE  Counted' /\ RowsHold' /\ PaidIsBacked' /\ NothingForNothing'
<1> DEFINE r == DeskRow(n)
           status == StatusAfterVerification(p, q, found)
<1>1. r \in DeskRows /\ r \in Rows /\ row[r].status = "NONE" /\ \A o \in Orders : r # SettledRow(o)
  BY RowNames DEF RecordDeposit, NextRow, DeskRows
<1>2. \A x \in Rows : x # r => row'[x] = row[x]
  BY <1>1 DEF RecordDeposit, Settled, TypeOK
<1>3. CASE status = "CREDITED"
  <2>1. IndexAllows(p) /\ found
    BY <1>3 DEF StatusAfterVerification
  <2>2. /\ row'[r].status = "CREDITED" /\ row'[r].payment = p
        /\ row'[r].shop = MerchantForReference(q)
    BY <1>1, <1>3 DEF RecordDeposit, Settled, TypeOK
  <2>3. credits' = [credits EXCEPT ![p] = @ + 1] /\ order' = MarkPaid(q, r)
    BY <1>3 DEF RecordDeposit
  <2>4. \A o \in Orders : p = GatewayPayment(o) => gateway[o] = "paid"
    BY <2>1, PaymentNames DEF RecordDeposit, Arrived
  <2>5. \A o \in Orders : Reference(o) = q /\ Exists(o) => row'[r].shop = order[o].shop
    BY <2>2, ReferenceResolves
  <2>6. ~IsCredited(r)
    BY <1>1 DEF IsCredited
  <2> QED BY <1>1, <1>2, <2>1, <2>2, <2>3, <2>4, <2>5, <2>6, DeskKeeps
<1>4. CASE status # "CREDITED"
  <2>1. UNCHANGED <<credits, order>>
    BY <1>4 DEF RecordDeposit
  <2>2. /\ row'[r].status # "CREDITED"
        /\ row'[r].status = "MATCHED" => p \in Large /\ row'[r].payment = p
    <3>1. CASE status = "MATCHED"
      BY <3>1, <1>1 DEF RecordDeposit, Settled, TypeOK, StatusAfterVerification
    <3>2. CASE status # "MATCHED"
      BY <3>2, <1>4, <1>1 DEF RecordDeposit, Settled, TypeOK, NoDeposit
    <3> QED BY <3>1, <3>2
  <2>3. \A x \in Rows : /\ IsCredited(x)' <=> IsCredited(x)
                        /\ IsCredited(x) => row'[x] = row[x]
    BY <1>1, <1>2, <2>2 DEF IsCredited
  <2>4. Counted'
    BY <2>1, <2>3 DEF Settled, Counted
  <2>5. RowsHold'
    BY <1>1, <1>2, <2>2, <2>3, ConstantsAssumption, RowNames DEF Settled, RowsHold
  <2>6. PaidIsBacked'
    <3>1. ASSUME NEW x \in Orders, order[x].paidBy # NoRow
          PROVE  row'[order[x].paidBy] = row[order[x].paidBy]
      BY <3>1, <2>3 DEF Settled, PaidIsBacked, TypeOK, OrderRows, IsCredited
    <3> QED BY <3>1, <2>1 DEF Settled, PaidIsBacked
  <2>7. NothingForNothing'
    BY <2>1 DEF RecordDeposit, Settled, NothingForNothing
  <2> QED BY <2>4, <2>5, <2>6, <2>7
<1> QED
  BY <1>3, <1>4

\* The second administrator's credit.
LEMMA ApproveKeeps ==
  ASSUME Settled, Keeps, NEW r \in DeskRows, NEW a \in Admins, ApproveDeposit(r, a)
  PROVE  Counted' /\ RowsHold' /\ PaidIsBacked' /\ NothingForNothing'
<1> DEFINE p == row[r].payment
<1>1. r \in Rows /\ ~IsCredited(r)
  BY RowNames DEF ApproveDeposit, IsCredited
<1>2. p \in Banks /\ p \in Payments
  BY <1>1, PaymentNames DEF ApproveDeposit, Settled, RowsHold
<1>3. /\ row'[r].status = "CREDITED" /\ row'[r].payment = p
      /\ \A x \in Rows : x # r => row'[x] = row[x]
  BY <1>1 DEF ApproveDeposit, Settled, TypeOK, Deposits
<1>4. \A o \in Orders : Reference(o) # p /\ p # GatewayPayment(o)
  BY <1>2, PaymentNames
<1>5. IndexAllows(p) /\ credits' = [credits EXCEPT ![p] = @ + 1] /\ order' = MarkPaid(p, r)
  BY DEF ApproveDeposit
<1> QED
  BY <1>1, <1>2, <1>3, <1>4, <1>5, DeskKeeps

-----------------------------------------------------------------------------
(* Requests, and the theorems.                                             *)

\* Every step keeps what requests were told.
LEMMA NextAnswersHold ==
  ASSUME TypeOK, AnswersHold, Keeps, [Next]_vars PROVE AnswersHold'
<1>1. ASSUME UNCHANGED hook PROVE AnswersHold'
  <2>1. \A h \in Hooks : hook[h].at = "answered" => hook[h].order \in Orders
    BY IdleIs DEF TypeOK, Requests
  <2> QED BY <1>1, <2>1 DEF AnswersHold, Keeps
<1>2. ASSUME NEW h \in Hooks, UNCHANGED gateway, NEW new,
             hook' = [hook EXCEPT ![h] = new],
             new.at = "answered" /\ new.answer = "paid" => gateway[new.order] = "paid"
      PROVE  AnswersHold'
  BY <1>2 DEF AnswersHold, TypeOK
<1>3. ASSUME NEW h \in Hooks, NEW o \in Orders, Verified(h, o) PROVE AnswersHold'
  <2> DEFINE new == [hook[h] EXCEPT !.at = "answered", !.answer = gateway[o]]
  <2>1. hook[h] \in Requests
    BY <1>3, IdleIs DEF Verified, TypeOK
  <2>2. new.order = o /\ new.answer = gateway[o]
    BY <1>3, <2>1 DEF Verified, Requests
  <2>3. hook' = [hook EXCEPT ![h] = new]
    BY <1>3, <2>1 DEF Verified, TypeOK
  <2> HIDE DEF new
  <2> QED BY <1>2, <1>3, <2>2, <2>3 DEF Verified
<1>4. ASSUME NEW h \in Hooks, NEW o \in Orders, NEW e \in Outcomes, ReceiveWebhook(h, o, e)
      PROVE AnswersHold'
  BY <1>2, <1>4 DEF ReceiveWebhook
<1>5. ASSUME NEW h \in Hooks, NEW b, Reply(h, b), UNCHANGED gateway PROVE AnswersHold'
  BY <1>2, <1>5 DEF Reply, Idle
<1>6. ASSUME NEW h \in Hooks,
             \/ Unreachable(h) \/ RefuseChapa(h) \/ LoseClaim(h)
             \/ SettleChapaDeposit(h) \/ SettlementThrows(h)
      PROVE  AnswersHold'
  BY <1>5, <1>6 DEF Unreachable, RefuseChapa, LoseClaim, SettleChapaDeposit, SettlementThrows
<1>7. CASE Crash
  BY <1>7 DEF Crash, AnswersHold, Idle
<1>8. ASSUME \/ \E o \in Orders, s \in Shops :
                  OrderBankDeposit(o, s) \/ StartChapaDeposit(o, s) \/ CancelBankDeposit(o, s)
             \/ \E o \in Orders : ChapaStarted(o) \/ ChapaUnavailable(o) \/ WindowPasses(o)
             \/ \E o \in Orders, e \in Outcomes : Outcome(o, e)
      PROVE  UNCHANGED hook
  BY <1>8 DEF OrderBankDeposit, StartChapaDeposit, CancelBankDeposit, ChapaStarted,
              ChapaUnavailable, WindowPasses, Outcome
<1>9. ASSUME \/ \E n \in 1..MaxRows, a \in Admins, p \in Payments, q \in Quotes, found \in BOOLEAN :
                  RecordDeposit(n, a, p, q, found)
             \/ \E r \in DeskRows, a \in Admins : ApproveDeposit(r, a)
             \/ UNCHANGED vars
      PROVE  UNCHANGED hook
  BY <1>9 DEF RecordDeposit, ApproveDeposit, vars
<1> QED
  BY <1>1, <1>3, <1>4, <1>6, <1>7, <1>8, <1>9 DEF Next

\* The invariant holds at first.
LEMMA InitSettled == Init => Settled
<1> SUFFICES ASSUME Init PROVE Settled
  OBVIOUS
<1>1. TypeOK
  BY InitTyped
<1>2. Unmade /\ Counted /\ AnswersHold /\ NothingForNothing
  BY PaymentNames DEF Init, Unmade, Counted, IsCredited, NoDeposit, AnswersHold, Idle, NothingForNothing
<1>3. RowsHold /\ PaidIsBacked
  BY RowNames DEF Init, RowsHold, IsCredited, NoDeposit, PaidIsBacked, NoOrder
<1> QED
  BY <1>1, <1>2, <1>3 DEF Settled

\* Every step keeps the invariant.
LEMMA NextSettled == Settled /\ [Next]_vars => Settled'
<1> SUFFICES ASSUME Settled, [Next]_vars PROVE Settled'
  OBVIOUS
<1>1. TypeOK' /\ Unmade' /\ Keeps
  BY NextTyped, NextUnmade, NextKeeps DEF Settled
<1>2. AnswersHold'
  BY <1>1, NextAnswersHold DEF Settled
<1>3. Counted' /\ RowsHold' /\ PaidIsBacked' /\ NothingForNothing'
  <2>1. CASE Quiet
    BY <1>1, <2>1, QuietKeeps
  <2>2. CASE Loud
    BY <1>1, <2>2, SettleKeeps, RecordKeeps, ApproveKeeps DEF Loud
  <2> QED BY <2>1, <2>2, NextQuiet
<1> QED
  BY <1>1, <1>2, <1>3 DEF Settled

\* Counts that follow the rows are at most one.
LEMMA SettledOnce == Settled => CreditedOnce
<1> SUFFICES ASSUME Settled, NEW p \in Payments PROVE credits[p] <= 1
  BY DEF CreditedOnce
<1>1. credits[p] = 0 \/ credits[p] = 1
  BY DEF Settled, Counted
<1> QED
  BY <1>1

\* The invariant always holds.
LEMMA AlwaysSettled == Spec => []Settled
<1>1. Init => Settled
  BY InitSettled
<1>2. Settled /\ [Next]_vars => Settled'
  BY NextSettled
<1> QED
  BY <1>1, <1>2, PTL DEF Spec

\* One real payment is credited at most once, whatever two deliveries of its
\* webhook, the desk and the approver do to each other.
THEOREM NobodyIsCreditedTwice == Spec => []CreditedOnce
BY AlwaysSettled, SettledOnce, PTL

\* An order reads PAID exactly when a credited submission for its shop and a
\* posting stand behind it.
THEOREM PaidOrdersAreBacked == Spec => []PaidIsBacked
<1>1. Settled => PaidIsBacked
  BY DEF Settled
<1> QED
  BY <1>1, AlwaysSettled, PTL

\* What is credited for a checkout was paid at the gateway, in full.
THEOREM CheckoutsArePaid == Spec => []NothingForNothing
<1>1. Settled => NothingForNothing
  BY DEF Settled
<1> QED
  BY <1>1, AlwaysSettled, PTL

\* The submission that answered an order stays its answer.
THEOREM AnswersStay == Spec => AnswerIsFinal
<1>1. ASSUME Settled, [Next]_vars, NEW o \in Orders, order[o].paidBy # NoRow
      PROVE  order'[o].paidBy = order[o].paidBy
  <2>1. order[o].status = "PAID"
    BY <1>1 DEF Settled, PaidIsBacked
  <2>2. CASE Quiet
    BY <2>2 DEF Quiet
  <2>3. ASSUME NEW h \in Hooks, SettleChapaDeposit(h) PROVE order'[o].paidBy = order[o].paidBy
    BY <1>1, <2>1, <2>3 DEF SettleChapaDeposit, Claimed, Settled, TypeOK
  <2>4. ASSUME NEW reference, NEW r, order' = MarkPaid(reference, r) \/ UNCHANGED order
        PROVE  order'[o].paidBy = order[o].paidBy
    BY <1>1, <2>1, <2>4, MarkPaidKeeps DEF Settled
  <2>5. ASSUME NEW n \in 1..MaxRows, NEW a \in Admins, NEW p \in Payments, NEW q \in Quotes,
               NEW found \in BOOLEAN, RecordDeposit(n, a, p, q, found)
        PROVE  order'[o].paidBy = order[o].paidBy
    BY <2>4, <2>5 DEF RecordDeposit
  <2>6. ASSUME NEW r \in DeskRows, NEW a \in Admins, ApproveDeposit(r, a)
        PROVE  order'[o].paidBy = order[o].paidBy
    BY <2>4, <2>6 DEF ApproveDeposit
  <2> QED BY <1>1, <2>2, <2>3, <2>5, <2>6, NextQuiet DEF Loud
<1>2. Settled /\ [Next]_vars =>
        [\A o \in Orders : order[o].paidBy # NoRow => order'[o].paidBy = order[o].paidBy]_vars
  BY <1>1
<1> QED
  BY <1>2, AlwaysSettled, PTL DEF Spec, AnswerIsFinal
=============================================================================
