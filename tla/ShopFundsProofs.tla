-------------------------- MODULE ShopFundsProofs --------------------------
(***************************************************************************)
(* Proofs about ShopFunds, for any shops, sales, transfers, requests and   *)
(* presses, and any policy.                                                *)
(***************************************************************************)
EXTENDS ShopFunds, SumTheorems, TLAPS

-----------------------------------------------------------------------------
(* Type correctness.                                                       *)

\* A transfer's fee is a number.
LEMMA FeeIsNatural ==
  ASSUME NEW a \in Nat
  PROVE  TransferFeeFor(a) \in Nat
<1>1. BasisPoints \in Nat
  BY ConstantsAssumption
<1>2. a * BasisPoints \in Nat
  BY <1>1
<1>3. \A n \in Nat : (n + 9999) \div 10000 \in Nat
  OBVIOUS
<1> QED
  BY <1>2, <1>3 DEF TransferFeeFor

\* A decision is one of three.
LEMMA DecisionIsAWord ==
  ASSUME NEW s, NEW a, NEW active
  PROVE  DecideTransfer(s, a, active) \in {"REFUSED", "NEEDS_APPROVAL", "DECIDED"}
BY DEF DecideTransfer

\* The first state is well typed.
LEMMA InitTyped == Init => TypeOK
BY ConstantsAssumption
   DEF Init, TypeOK, NoTransfer, NotSold, NotFiled, SaleRows, TransferRows, RequestRows

\* A transfer's row stays one when its status changes.
LEMMA RowStays ==
  ASSUME TypeOK, NEW t \in Transfers, NEW st \in {"SETTLED", "REFUSED"}
  PROVE  [transfer EXCEPT ![t].status = st] \in [Transfers -> TransferRows]
BY DEF TypeOK, TransferRows

\* A request's row stays one when its status changes.
LEMMA RequestStays ==
  ASSUME TypeOK, NEW q \in Requests,
         NEW st \in {"FILING", "NEEDS_APPROVAL", "APPROVED", "REFUSED", "SETTLED"}
  PROVE  [request EXCEPT ![q].status = st] \in [Requests -> RequestRows]
BY DEF TypeOK, RequestRows

\* A sale's row stays one when its state changes.
LEMMA SaleStays ==
  ASSUME TypeOK, NEW x \in Sales \cup {NoSale},
         NEW st \in {"PENDING", "SUCCESSFUL", "FAILED", "REVERSED"}
  PROVE  [sale EXCEPT ![x].state = st] \in [Sales -> SaleRows]
BY DEF TypeOK, SaleRows

\* Every step keeps the types.
LEMMA NextTyped == TypeOK /\ [Next]_vars => TypeOK'
<1> SUFFICES ASSUME TypeOK, [Next]_vars PROVE TypeOK'
  OBVIOUS
<1> USE ConstantsAssumption
<1>1. ASSUME NEW t \in Transfers, NEW s \in Shops, NEW r \in Shops, NEW a \in Amounts,
             NEW active \in BOOLEAN, RequestTransfer(t, s, r, a, active)
      PROVE  TypeOK'
  <2> DEFINE outcome == DecideTransfer(s, a, active)
             fee     == IF outcome = "REFUSED" THEN 0 ELSE TransferFeeFor(a)
  <2>1. outcome \in {"REFUSED", "NEEDS_APPROVAL", "DECIDED"}
    BY DecisionIsAWord
  <2>2. a \in Nat /\ fee \in Nat
    BY FeeIsNatural
  <2>3. /\ transfer' = [transfer EXCEPT ![t] =
             [status |-> outcome, from |-> s, to |-> r, amount |-> a, fee |-> fee, day |-> day]]
        /\ UNCHANGED <<day, sale, request, settling, complaint, books>>
    BY <1>1 DEF RequestTransfer
  <2> HIDE DEF outcome, fee
  <2>4. [status |-> outcome, from |-> s, to |-> r, amount |-> a, fee |-> fee, day |-> day]
          \in TransferRows
    BY <2>1, <2>2 DEF TypeOK, TransferRows
  <2> QED
    BY <2>3, <2>4 DEF TypeOK, books
<1>2. ASSUME NEW t \in Transfers, PostTransfer(t) PROVE TypeOK'
  <2>1. transfer' \in [Transfers -> TransferRows]
    BY <1>2, RowStays DEF PostTransfer
  <2>2. posted' \in [Transfers -> Nat]
    BY <1>2 DEF PostTransfer, TypeOK
  <2> QED
    BY <1>2, <2>1, <2>2 DEF PostTransfer, TypeOK
<1>3. ASSUME NEW t \in Transfers, LoseTransfer(t) PROVE TypeOK'
  BY <1>3 DEF LoseTransfer, TypeOK, NoTransfer, TransferRows, books
<1>4. ASSUME NEW s \in Shops, NEW a \in Amounts, TransferProfit(s, a) PROVE TypeOK'
  BY <1>4 DEF TransferProfit, TypeOK
<1>5. ASSUME NEW p \in Presses, NEW s \in Shops, DepositTrainingFunds(p, s) PROVE TypeOK'
  BY <1>5 DEF DepositTrainingFunds, TypeOK
<1>6. ASSUME NEW x \in Sales, NEW s \in Shops, Sell(x, s) PROVE TypeOK'
  BY <1>6 DEF Sell, TypeOK, SaleRows, books
<1>7. ASSUME NEW q \in Requests, DecideToFile(q) \/ FileReversal(q) PROVE TypeOK'
  <2>1. request' \in [Requests -> RequestRows]
    BY <1>7, RequestStays DEF DecideToFile, FileReversal
  <2> QED
    BY <1>7, <2>1 DEF DecideToFile, FileReversal, TypeOK, books
<1>8. ASSUME NEW q \in Requests, DropReversal(q) \/ \E x \in Sales : ReadForReversal(q, x)
      PROVE  TypeOK'
  <2>1. PICK new \in RequestRows : request' = [request EXCEPT ![q] = new]
    <3>1. CASE DropReversal(q)
      BY <3>1 DEF DropReversal, NotFiled, RequestRows
    <3>2. ASSUME NEW x \in Sales, ReadForReversal(q, x)
          PROVE  \E new \in RequestRows : request' = [request EXCEPT ![q] = new]
      BY <3>2 DEF ReadForReversal, RequestRows
    <3>3. QED  BY <1>8, <3>1, <3>2
  <2>2. request' \in [Requests -> RequestRows]  BY <2>1 DEF TypeOK
  <2>3. UNCHANGED <<day, sale, transfer, settling, complaint, books>>
    BY <1>8 DEF DropReversal, ReadForReversal
  <2>4. QED  BY <2>2, <2>3 DEF TypeOK, books
<1>9. ASSUME NEW x \in Sales, ReportComplaint(x) PROVE TypeOK'
  BY <1>9 DEF ReportComplaint, TypeOK, books
<1>10. ASSUME NEW t \in Transfers, ApproveTransfer(t) PROVE TypeOK'
  <2>1. transfer' \in [Transfers -> TransferRows]
    BY <1>10, RowStays DEF ApproveTransfer
  <2>2. posted' \in [Transfers -> Nat]
    BY <1>10 DEF ApproveTransfer, TypeOK
  <2> QED
    BY <1>10, <2>1, <2>2 DEF ApproveTransfer, TypeOK
<1>11. ASSUME NEW t \in Transfers, RefuseTransfer(t) PROVE TypeOK'
  BY <1>11, RowStays DEF RefuseTransfer, TypeOK, books
<1>12. ASSUME NEW q \in Requests, ApproveReversal(q) PROVE TypeOK'
  BY <1>12, RequestStays DEF ApproveReversal, TypeOK, books
<1>13. ASSUME NEW q \in Requests, RefuseReversal(q) PROVE TypeOK'
  BY <1>13, RequestStays DEF RefuseReversal, TypeOK, books
<1>14. ASSUME NEW q \in Requests, SettleReversal(q) PROVE TypeOK'
  <2>1. request[q].sale \in Sales \cup {NoSale}
    BY DEF TypeOK, RequestRows
  <2>2. sale' \in [Sales -> SaleRows]
    BY <1>14, <2>1, SaleStays DEF SettleReversal
  <2>3. request' \in [Requests -> RequestRows]
    BY <1>14, RequestStays DEF SettleReversal
  <2> QED
    BY <1>14, <2>2, <2>3 DEF SettleReversal, TypeOK
<1>15. ASSUME NEW q \in Requests, LeaveApproved(q) PROVE TypeOK'
  BY <1>15 DEF LeaveApproved, TypeOK, books
<1>16. ASSUME NEW x \in Sales, NEW v \in Verdicts, DecideComplaint(x, v) PROVE TypeOK'
  BY <1>16 DEF DecideComplaint, TypeOK, books
<1>17. ASSUME NEW x \in Sales, Fail(x) PROVE TypeOK'
  BY <1>17, SaleStays DEF Fail, TypeOK, books
<1>18. ASSUME NEW x \in Sales, NEW e \in BOOLEAN, Deliver(x, e) PROVE TypeOK'
  BY <1>18 DEF Deliver, TypeOK, SaleRows, books
<1>19. ASSUME NEW s \in Shops, ChargeFee(s) PROVE TypeOK'
  BY <1>19 DEF ChargeFee, TypeOK
<1>20. ASSUME DayEnds PROVE TypeOK'
  BY <1>20 DEF DayEnds, TypeOK, books
<1>21. ASSUME UNCHANGED vars PROVE TypeOK'
  BY <1>21 DEF vars, books, TypeOK
<1> QED
  BY <1>1, <1>2, <1>3, <1>4, <1>5, <1>6, <1>7, <1>8, <1>9, <1>10, <1>11, <1>12, <1>13, <1>14,
     <1>15, <1>16, <1>17, <1>18, <1>19, <1>20, <1>21 DEF Next, Server, Console, Worker

\* Every variable keeps its type: no failure, refusal or decision leaves a row
\* in a state its table does not have (migrations 008, 012 and 019).
THEOREM TypeCorrect == Spec => []TypeOK
<1> QED
  BY InitTyped, NextTyped, PTL DEF Spec

-----------------------------------------------------------------------------
(* The rows and the ledger.                                                *)

\* The request being settled is approved, and a request that exists is for a
\* sale.
Pursuit ==
  /\ \A q \in Requests : settling = q => request[q].status = "APPROVED"
  /\ \A q \in Requests : request[q].status # "NONE" => request[q].sale \in Sales

Books == TypeOK /\ Pursuit /\ RowsMatchLedger /\ ReversedOnce

\* A step that touches no sale, no request and no reversal.
AwayFromReversals == UNCHANGED <<sale, request, returned, settling>>

\* A step that touches no transfer and posts none.
AwayFromTransfers == UNCHANGED <<transfer, posted>>

TransfersMatch == \A t \in Transfers : posted[t] = IF transfer[t].status = "SETTLED" THEN 1 ELSE 0

ReversalsMatch == \A q \in Requests : returned[q] = IF request[q].status = "SETTLED" THEN 1 ELSE 0

\* Rows and ledger agree when those of transfers and of reversals do.
LEMMA TwoLedgers == RowsMatchLedger <=> TransfersMatch /\ ReversalsMatch
BY DEF RowsMatchLedger, TransfersMatch, ReversalsMatch

\* The books begin in order.
LEMMA InitBooks == Init => Books
<1> SUFFICES ASSUME Init PROVE Books
  OBVIOUS
<1>1. Pursuit
  <2>1. \A q \in Requests : request[q] = NotFiled /\ settling # q
    BY ConstantsAssumption DEF Init
  <2> QED
    BY <2>1 DEF Pursuit, NotFiled
<1>2. RowsMatchLedger
  BY DEF Init, RowsMatchLedger, NoTransfer, NotFiled
<1>3. ReversedOnce
  BY DEF Init, ReversedOnce, NotSold, NotFiled
<1> QED
  BY <1>1, <1>2, <1>3, InitTyped DEF Books

\* Every step is away from the reversals, or is one of the reversals' own.
LEMMA StepsOfReversals ==
  ASSUME [Next]_vars
  PROVE  \/ AwayFromReversals
         \/ AwayFromTransfers /\
              \/ \E x \in Sales, s \in Shops : Sell(x, s)
              \/ \E q \in Requests, x \in Sales : ReadForReversal(q, x)
              \/ \E q \in Requests : \/ DecideToFile(q) \/ FileReversal(q) \/ DropReversal(q)
                                     \/ ApproveReversal(q) \/ RefuseReversal(q)
                                     \/ SettleReversal(q) \/ LeaveApproved(q)
              \/ \E x \in Sales : Fail(x) \/ \E e \in BOOLEAN : Deliver(x, e)
<1>1. CASE Server
  BY <1>1 DEF Server, RequestTransfer, PostTransfer, LoseTransfer, TransferProfit,
       DepositTrainingFunds, Sell, ReadForReversal, DecideToFile, FileReversal, DropReversal,
       ReportComplaint,
       AwayFromReversals, AwayFromTransfers, books
<1>2. CASE Console
  BY <1>2 DEF Console, ApproveTransfer, RefuseTransfer, ApproveReversal, RefuseReversal,
       SettleReversal, LeaveApproved, DecideComplaint, AwayFromReversals, AwayFromTransfers, books
<1>3. CASE Worker
  BY <1>3 DEF Worker, Fail, Deliver, ChargeFee, AwayFromReversals, AwayFromTransfers, books
<1>4. CASE DayEnds \/ UNCHANGED vars
  BY <1>4 DEF DayEnds, vars, books, AwayFromReversals
<1> QED
  BY <1>1, <1>2, <1>3, <1>4 DEF Next

\* A transfer is posted by the step that settles its row, and a settled row is
\* never touched.
LEMMA TransfersKeep ==
  ASSUME TypeOK, TransfersMatch, [Next]_vars
  PROVE  TransfersMatch'
<1>1. ASSUME NEW t \in Transfers, NEW s \in Shops, NEW r \in Shops, NEW a \in Amounts,
             NEW active \in BOOLEAN, RequestTransfer(t, s, r, a, active)
      PROVE  TransfersMatch'
  <2> DEFINE outcome == DecideTransfer(s, a, active)
  <2>1. outcome # "SETTLED"
    BY DecisionIsAWord
  <2>2. transfer'[t].status = outcome
    BY <1>1 DEF RequestTransfer, TypeOK
  <2> HIDE DEF outcome
  <2>3. posted' = posted /\ transfer[t].status # "SETTLED"
        /\ \A u \in Transfers : u # t => transfer'[u] = transfer[u]
    BY <1>1 DEF RequestTransfer, TypeOK, books
  <2> QED
    BY <2>1, <2>2, <2>3 DEF TransfersMatch
<1>2. ASSUME NEW t \in Transfers, PostTransfer(t) \/ ApproveTransfer(t) PROVE TransfersMatch'
  BY <1>2 DEF PostTransfer, ApproveTransfer, TransfersMatch, TypeOK, TransferRows
<1>3. ASSUME NEW t \in Transfers, LoseTransfer(t) \/ RefuseTransfer(t) PROVE TransfersMatch'
  BY <1>3 DEF LoseTransfer, RefuseTransfer, NoTransfer, TransfersMatch, TypeOK, TransferRows, books
<1>4. ASSUME AwayFromTransfers PROVE TransfersMatch'
  BY <1>4 DEF AwayFromTransfers, TransfersMatch
<1>5. \/ AwayFromTransfers
      \/ \E t \in Transfers, s, r \in Shops, a \in Amounts, active \in BOOLEAN :
            RequestTransfer(t, s, r, a, active)
      \/ \E t \in Transfers : \/ PostTransfer(t) \/ ApproveTransfer(t)
                              \/ LoseTransfer(t) \/ RefuseTransfer(t)
  <2>1. CASE Server
    BY <2>1 DEF Server, TransferProfit, DepositTrainingFunds, Sell, ReadForReversal, DecideToFile,
         FileReversal, DropReversal, ReportComplaint, AwayFromTransfers, books
  <2>2. CASE Console
    BY <2>2 DEF Console, ApproveReversal, RefuseReversal, SettleReversal, LeaveApproved,
         DecideComplaint, AwayFromTransfers, books
  <2>3. CASE Worker
    BY <2>3 DEF Worker, Fail, Deliver, ChargeFee, AwayFromTransfers, books
  <2>4. CASE DayEnds \/ UNCHANGED vars
    BY <2>4 DEF DayEnds, vars, books, AwayFromTransfers
  <2> QED
    BY <2>1, <2>2, <2>3, <2>4 DEF Next
<1> QED
  BY <1>1, <1>2, <1>3, <1>4, <1>5

\* What the reversals rest on.
Reversals == Pursuit /\ ReversalsMatch /\ ReversedOnce

\* Every step keeps requests, their postings and their sales together.
LEMMA ReversalsKeep ==
  ASSUME TypeOK, Reversals, [Next]_vars
  PROVE  Reversals'
<1>1. ASSUME AwayFromReversals PROVE Reversals'
  BY <1>1 DEF AwayFromReversals, Reversals, Pursuit, ReversalsMatch, ReversedOnce
<1>2. ASSUME NEW x \in Sales, NEW s \in Shops, Sell(x, s) PROVE Reversals'
  <2>1. UNCHANGED <<request, returned, settling>>
    BY <1>2 DEF Sell, books
  <2>2. \A y \in Sales : sale'[y].state = "REVERSED" <=> sale[y].state = "REVERSED"
    BY <1>2 DEF Sell, TypeOK, SaleRows
  <2> QED
    BY <2>1, <2>2 DEF Reversals, Pursuit, ReversalsMatch, ReversedOnce
<1>3. ASSUME NEW x \in Sales, NEW e \in BOOLEAN, Fail(x) \/ Deliver(x, e) PROVE Reversals'
  <2>1. UNCHANGED <<request, returned, settling>>
    BY <1>3 DEF Fail, Deliver, books
  <2>2. \A y \in Sales : sale'[y].state = "REVERSED" <=> sale[y].state = "REVERSED"
    BY <1>3 DEF Fail, Deliver, TypeOK, SaleRows
  <2> QED
    BY <2>1, <2>2 DEF Reversals, Pursuit, ReversalsMatch, ReversedOnce
<1>4. ASSUME NEW q \in Requests,
             DropReversal(q) \/ \E x \in Sales : ReadForReversal(q, x)
      PROVE  Reversals'
  <2>1. /\ UNCHANGED <<sale, returned, settling>>
        /\ request[q].status \in {"NONE", "READ", "FILING"}
        /\ \A other \in Requests : other # q => request'[other] = request[other]
    BY <1>4 DEF ReadForReversal, DropReversal, books, TypeOK
  <2>2. \/ request'[q].status = "NONE"
        \/ request'[q].status = "READ" /\ request'[q].sale \in Sales
    BY <1>4 DEF ReadForReversal, DropReversal, NotFiled, TypeOK
  <2>3. Pursuit'
    BY <2>1, <2>2 DEF Reversals, Pursuit
  <2>4. ReversalsMatch' /\ ReversedOnce'
    BY <2>1, <2>2 DEF Reversals, ReversalsMatch, ReversedOnce
  <2> QED
    BY <2>3, <2>4 DEF Reversals
<1>5. ASSUME NEW q \in Requests,
             DecideToFile(q) \/ FileReversal(q) \/ ApproveReversal(q) \/ RefuseReversal(q)
      PROVE  Reversals'
  <2>1. /\ UNCHANGED <<sale, returned>>
        /\ request[q].status \in {"READ", "FILING", "NEEDS_APPROVAL"}
        /\ request'[q].sale = request[q].sale
        /\ request'[q].status \in {"FILING", "NEEDS_APPROVAL", "APPROVED", "REFUSED"}
        /\ \A other \in Requests : other # q => request'[other] = request[other]
    BY <1>5 DEF DecideToFile, FileReversal, ApproveReversal, RefuseReversal, Undecided,
         books, TypeOK, RequestRows
  <2>2. \A other \in Requests : settling' = other => request'[other].status = "APPROVED"
    BY <1>5 DEF DecideToFile, FileReversal, ApproveReversal, RefuseReversal, Undecided,
         Reversals, Pursuit, TypeOK, RequestRows
  <2>3. Pursuit'
    BY <2>1, <2>2 DEF Reversals, Pursuit
  <2>4. ReversalsMatch' /\ ReversedOnce'
    BY <2>1 DEF Reversals, ReversalsMatch, ReversedOnce
  <2> QED
    BY <2>3, <2>4 DEF Reversals
<1>6. ASSUME NEW q \in Requests, SettleReversal(q) PROVE Reversals'
  <2> DEFINE x == request[q].sale
  <2>1. request[q].status = "APPROVED" /\ x \in Sales
    BY <1>6 DEF SettleReversal, Reversals, Pursuit
  <2>2. /\ sale[x].state = "SUCCESSFUL" /\ sale'[x].state = "REVERSED"
        /\ \A y \in Sales : y # x => sale'[y] = sale[y]
    BY <1>6, <2>1 DEF SettleReversal, CanBeSettled, TypeOK, SaleRows
  <2>3. /\ request'[q].status = "SETTLED" /\ request'[q].sale = x
        /\ \A other \in Requests : other # q => request'[other] = request[other]
    BY <1>6 DEF SettleReversal, TypeOK, RequestRows
  <2>4. returned'[q] = returned[q] + 1
        /\ \A other \in Requests : other # q => returned'[other] = returned[other]
    BY <1>6 DEF SettleReversal, TypeOK
  <2>5. \A other \in Requests : settling' # other
    BY <1>6, ConstantsAssumption DEF SettleReversal
  <2> HIDE DEF x
  <2>6. Pursuit'
    BY <2>1, <2>3, <2>5 DEF Reversals, Pursuit
  <2>7. ReversalsMatch'
    BY <2>1, <2>3, <2>4 DEF Reversals, ReversalsMatch
  <2>8. \A other \in Requests : request[other].sale = x => request[other].status # "SETTLED"
    BY <2>1, <2>2 DEF Reversals, ReversedOnce
  <2>9. ReversedOnce'
    BY <2>1, <2>2, <2>3, <2>8 DEF Reversals, ReversedOnce
  <2> QED
    BY <2>6, <2>7, <2>9 DEF Reversals
<1>7. ASSUME NEW q \in Requests, LeaveApproved(q) PROVE Reversals'
  <2>1. UNCHANGED <<sale, request, returned>> /\ \A other \in Requests : settling' # other
    BY <1>7, ConstantsAssumption DEF LeaveApproved, books
  <2> QED
    BY <2>1 DEF Reversals, Pursuit, ReversalsMatch, ReversedOnce
<1> QED
  BY <1>1, <1>2, <1>3, <1>4, <1>5, <1>6, <1>7, StepsOfReversals

\* Every step keeps the books.
LEMMA BooksKeep == Books /\ [Next]_vars => Books'
<1> SUFFICES ASSUME Books, [Next]_vars PROVE Books'
  OBVIOUS
<1>1. TypeOK /\ TransfersMatch /\ Reversals
  BY TwoLedgers DEF Books, Reversals
<1>2. TypeOK' /\ TransfersMatch' /\ Reversals'
  BY <1>1, NextTyped, TransfersKeep, ReversalsKeep
<1>3. RowsMatchLedger'
  BY <1>2 DEF RowsMatchLedger, Reversals, TransfersMatch, ReversalsMatch
<1> QED
  BY <1>2, <1>3 DEF Books, Reversals

\* The books are always in order.
LEMMA BooksHold == Spec => []Books
<1> QED
  BY InitBooks, BooksKeep, PTL DEF Spec

\* A transfer or a reversal moves money once if its row says SETTLED and never
\* otherwise (settleShopTransfer, POST /transfers/:id/approve, POST
\* /reversals/:id/decide).
THEOREM LedgerFollowsRows == Spec => []RowsMatchLedger
<1>1. Books => RowsMatchLedger
  BY DEF Books
<1> QED
  BY <1>1, BooksHold, PTL

\* No sale is given back twice, and none that was not delivered is given back
\* at all, also when requests were filed and approved behind the one that was
\* settled: the console credits only a sale it reads as SUCCESSFUL, and one that
\* was credited never reads so again (POST /reverse, POST /reversals/:id/approve).
THEOREM NothingIsReversedTwice == Spec => []ReversedOnce
<1>1. Books => ReversedOnce
  BY DEF Books
<1> QED
  BY <1>1, BooksHold, PTL

-----------------------------------------------------------------------------
(* Decisions.                                                              *)

\* What one step leaves standing.
TransfersStand == \A t \in Transfers : transfer[t].status \in {"REFUSED", "SETTLED"}
                                       => transfer'[t] = transfer[t]

RequestsStand ==
  \A q \in Requests :
    /\ request[q].status \in {"REFUSED", "SETTLED"} => request'[q] = request[q]
    /\ request[q].status = "APPROVED" => request'[q].status \in {"APPROVED", "SETTLED"}

SalesStand == \A x \in Sales : sale[x].state \in {"FAILED", "REVERSED"} => sale'[x] = sale[x]

VerdictsStand == \A x \in Sales : complaint[x] \in Verdicts => complaint'[x] = complaint[x]

\* No step changes a transfer that is settled or refused.
LEMMA TransfersStandFast ==
  ASSUME TypeOK, [Next]_vars
  PROVE  TransfersStand
<1>1. CASE Server
  BY <1>1 DEF Server, RequestTransfer, PostTransfer, LoseTransfer, TransferProfit,
       DepositTrainingFunds, Sell, ReadForReversal, DecideToFile, FileReversal, DropReversal,
       ReportComplaint,
       TransfersStand, TypeOK, books
<1>2. CASE Console
  BY <1>2 DEF Console, ApproveTransfer, RefuseTransfer, ApproveReversal, RefuseReversal,
       SettleReversal, LeaveApproved, DecideComplaint, TransfersStand, TypeOK, books
<1>3. CASE Worker
  BY <1>3 DEF Worker, Fail, Deliver, ChargeFee, TransfersStand, books
<1>4. CASE DayEnds \/ UNCHANGED vars
  BY <1>4 DEF DayEnds, vars, TransfersStand
<1> QED
  BY <1>1, <1>2, <1>3, <1>4 DEF Next

\* No step changes a verdict.
LEMMA VerdictsStandFast ==
  ASSUME TypeOK, [Next]_vars
  PROVE  VerdictsStand
<1>1. CASE Server
  BY <1>1, ConstantsAssumption DEF Server, RequestTransfer, PostTransfer, LoseTransfer,
       TransferProfit, DepositTrainingFunds, Sell, ReadForReversal, DecideToFile, FileReversal, DropReversal,
       ReportComplaint,
       VerdictsStand, TypeOK, books
<1>2. CASE Console
  BY <1>2, ConstantsAssumption DEF Console, ApproveTransfer, RefuseTransfer, ApproveReversal,
       RefuseReversal, SettleReversal, LeaveApproved, DecideComplaint, VerdictsStand, TypeOK, books
<1>3. CASE Worker
  BY <1>3 DEF Worker, Fail, Deliver, ChargeFee, VerdictsStand, books
<1>4. CASE DayEnds \/ UNCHANGED vars
  BY <1>4 DEF DayEnds, vars, VerdictsStand
<1> QED
  BY <1>1, <1>2, <1>3, <1>4 DEF Next

\* No step undoes what became of a request or of a sale.
LEMMA ReversalsStandFast ==
  ASSUME Books, [Next]_vars
  PROVE  RequestsStand /\ SalesStand
<1>1. CASE AwayFromReversals
  BY <1>1 DEF AwayFromReversals, RequestsStand, SalesStand
<1>2. ASSUME NEW x \in Sales,
             \/ \E s \in Shops : Sell(x, s)
             \/ Fail(x)
             \/ \E e \in BOOLEAN : Deliver(x, e)
      PROVE  RequestsStand /\ SalesStand
  <2>1. RequestsStand
    BY <1>2 DEF Sell, Fail, Deliver, RequestsStand
  <2>2. SalesStand
    BY <1>2 DEF Sell, Fail, Deliver, SalesStand, Books, TypeOK
  <2> QED
    BY <2>1, <2>2
<1>3. ASSUME NEW q \in Requests,
             DropReversal(q) \/ \E x \in Sales : ReadForReversal(q, x)
      PROVE  RequestsStand /\ SalesStand
  BY <1>3 DEF DropReversal, ReadForReversal, RequestsStand, SalesStand, Books, TypeOK
<1>4. ASSUME NEW q \in Requests, SettleReversal(q) PROVE RequestsStand /\ SalesStand
  <2>1. request[q].status = "APPROVED"
    BY <1>4 DEF SettleReversal, Books, Pursuit
  <2>2. RequestsStand
    BY <1>4, <2>1 DEF SettleReversal, RequestsStand, Books, TypeOK, RequestRows
  <2>3. SalesStand
    BY <1>4 DEF SettleReversal, CanBeSettled, SalesStand, Books, TypeOK
  <2> QED
    BY <2>2, <2>3
<1>5. ASSUME NEW q \in Requests,
             \/ DecideToFile(q) \/ FileReversal(q) \/ ApproveReversal(q)
             \/ RefuseReversal(q) \/ LeaveApproved(q)
      PROVE  RequestsStand /\ SalesStand
  BY <1>5 DEF DecideToFile, FileReversal, ApproveReversal, RefuseReversal, LeaveApproved,
       Undecided, RequestsStand, SalesStand, Books, TypeOK, RequestRows
<1> QED
  BY <1>1, <1>2, <1>3, <1>4, <1>5, StepsOfReversals

\* A decision is never taken back: not of a transfer, not of a reversal, not of
\* a complaint, and a sale that failed is not reversed as well
\* (approveShopTransfer, decideReversalRequest, recordComplaintVerdict).
THEOREM DecisionsStand == Spec => DecisionIsFinal
<1>1. Books /\ [Next]_vars
        => [/\ \A t \in Transfers : transfer[t].status \in {"REFUSED", "SETTLED"}
                                       => transfer'[t] = transfer[t]
            /\ \A q \in Requests :
                 /\ request[q].status \in {"REFUSED", "SETTLED"} => request'[q] = request[q]
                 /\ request[q].status = "APPROVED" => request'[q].status \in {"APPROVED", "SETTLED"}
            /\ \A x \in Sales :
                 /\ complaint[x] \in Verdicts => complaint'[x] = complaint[x]
                 /\ sale[x].state \in {"FAILED", "REVERSED"} => sale'[x] = sale[x]]_vars
  BY TransfersStandFast, VerdictsStandFast, ReversalsStandFast
     DEF Books, TransfersStand, RequestsStand, SalesStand, VerdictsStand
<1> QED
  BY <1>1, BooksHold, PTL DEF Spec, DecisionIsFinal
-----------------------------------------------------------------------------
(* The daily limit.                                                        *)

CountedOn(s, d) == {t \in Sent(s) : /\ transfer[t].day = d
                                    /\ transfer[t].status \notin {"NONE", "REFUSED"}}

\* The limit, in terms of the rows that count.
LEMMA DailyLimitIs ==
  DailyLimit <=> \A s \in Shops, d \in 1..LastDay :
                   SumFunctionOnSet(AmountsSent, CountedOn(s, d)) <= MaxPerDay
BY DEF DailyLimit, CountedOn

\* The rows that count are finitely many and have amounts.
LEMMA CountedFacts ==
  ASSUME TypeOK, NEW s \in Shops, NEW d \in 1..LastDay
  PROVE  /\ IsFiniteSet(CountedOn(s, d))
         /\ \A t \in Transfers : AmountsSent[t] = transfer[t].amount /\ AmountsSent[t] \in Nat
         /\ \A t \in CountedOn(s, d) : AmountsSent[t] \in Nat
         /\ SumFunctionOnSet(AmountsSent, CountedOn(s, d)) \in Nat
<1>1. CountedOn(s, d) \in SUBSET Transfers
  BY DEF CountedOn, Sent
<1>2. IsFiniteSet(CountedOn(s, d))
  BY <1>1, TablesAssumption, FS_Subset
<1>3. \A t \in Transfers : AmountsSent[t] = transfer[t].amount /\ AmountsSent[t] \in Nat
  BY DEF AmountsSent, TypeOK, TransferRows
<1>4. \A t \in CountedOn(s, d) : AmountsSent[t] \in Nat
  BY <1>1, <1>3
<1> QED
  BY <1>2, <1>3, <1>4, SumMonotone

\* Rows that leave the count, or stay in it with their amounts, free the limit.
LEMMA LimitIsFreed ==
  ASSUME TypeOK, TypeOK', DailyLimit,
         \A t \in Transfers :
           \/ transfer'[t].status \in {"NONE", "REFUSED"}
           \/ /\ transfer[t].status \notin {"NONE", "REFUSED"}
              /\ transfer'[t].from = transfer[t].from
              /\ transfer'[t].day = transfer[t].day
              /\ transfer'[t].amount = transfer[t].amount
  PROVE  DailyLimit'
<1> SUFFICES ASSUME NEW s \in Shops, NEW d \in 1..LastDay
             PROVE  SumFunctionOnSet(AmountsSent, CountedOn(s, d))' <= MaxPerDay
  BY DEF DailyLimit, CountedOn
<1>1. CountedOn(s, d)' \in SUBSET CountedOn(s, d)
  BY DEF CountedOn, Sent
<1>2. \A t \in CountedOn(s, d)' : AmountsSent[t] \in Int /\ AmountsSent'[t] = AmountsSent[t]
  <2>1. \A t \in CountedOn(s, d)' : t \in Transfers /\ transfer'[t].amount = transfer[t].amount
    BY DEF CountedOn, Sent
  <2> QED
    BY <2>1 DEF AmountsSent, TypeOK, TransferRows
<1>3. IsFiniteSet(CountedOn(s, d)')
  BY <1>1, CountedFacts, FS_Subset
<1>4. SumFunctionOnSet(AmountsSent, CountedOn(s, d)') = SumFunctionOnSet(AmountsSent', CountedOn(s, d)')
  BY <1>2, <1>3, SumCongruence
<1>5. /\ SumFunctionOnSet(AmountsSent, CountedOn(s, d)') \in Nat
      /\ SumFunctionOnSet(AmountsSent, CountedOn(s, d)') <= SumFunctionOnSet(AmountsSent, CountedOn(s, d))
  BY <1>1, CountedFacts, SumMonotone
<1>6. SumFunctionOnSet(AmountsSent, CountedOn(s, d)) <= MaxPerDay
  BY DailyLimitIs
<1>7. MaxPerDay \in Nat /\ SumFunctionOnSet(AmountsSent, CountedOn(s, d)) \in Nat
  BY ConstantsAssumption, CountedFacts
<1> QED
  BY <1>4, <1>5, <1>6, <1>7

\* A shop asks: what it has sent today was counted in the read that accepts.
LEMMA RequestIsCounted ==
  ASSUME TypeOK, TypeOK', DailyLimit,
         NEW t \in Transfers, NEW s \in Shops, NEW r \in Shops, NEW a \in Amounts,
         NEW active \in BOOLEAN, RequestTransfer(t, s, r, a, active)
  PROVE  DailyLimit'
<1> DEFINE outcome == DecideTransfer(s, a, active)
<1>1. /\ ServerIsFree
      /\ transfer[t].status = "NONE"
      /\ transfer'[t].status = outcome
      /\ transfer'[t].from = s /\ transfer'[t].amount = a /\ transfer'[t].day = day
      /\ \A u \in Transfers : u # t => transfer'[u] = transfer[u]
  BY DEF RequestTransfer, TypeOK
<1>2. CASE outcome = "REFUSED"
  BY <1>1, <1>2, LimitIsFreed
<1>3. CASE outcome # "REFUSED"
  <2>1. ~ (SentToday(s) + a > MaxPerDay)
    BY <1>3 DEF DecideTransfer
  <2>2. outcome \notin {"NONE", "REFUSED"}
    BY <1>3, DecisionIsAWord
  <2> HIDE DEF outcome
  <2> SUFFICES ASSUME NEW m \in Shops, NEW d \in 1..LastDay
               PROVE  SumFunctionOnSet(AmountsSent, CountedOn(m, d))' <= MaxPerDay
    BY DEF DailyLimit, CountedOn
  <2> DEFINE C == CountedOn(m, d)
  <2>3. t \notin C
    BY <1>1 DEF CountedOn
  <2>4. \A u \in C : AmountsSent[u] \in Int /\ AmountsSent'[u] = AmountsSent[u]
    <3>1. \A u \in C : u \in Transfers /\ u # t
      BY <2>3 DEF CountedOn, Sent
    <3> QED
      BY <1>1, <3>1 DEF AmountsSent, TypeOK, TransferRows
  <2>5. SumFunctionOnSet(AmountsSent', C) = SumFunctionOnSet(AmountsSent, C)
    BY <2>4, CountedFacts, SumCongruence
  <2>6. SumFunctionOnSet(AmountsSent, C) <= MaxPerDay
    BY DailyLimitIs
  <2>7. CASE m = s /\ d = day
    <3>1. C' = C \cup {t}
      BY <1>1, <2>2, <2>7 DEF CountedOn, Sent
    <3>2. AmountsSent'[t] = a /\ a \in Nat
      BY <1>1, ConstantsAssumption DEF AmountsSent
    <3>3. \A u \in C \cup {t} : AmountsSent'[u] \in Int
      BY <2>4, <3>2
    <3>4. SumFunctionOnSet(AmountsSent', C \cup {t}) = SumFunctionOnSet(AmountsSent', C) + a
      BY <2>3, <3>2, <3>3, CountedFacts, SumAdd
    <3>5. SentToday(s) = SumFunctionOnSet(AmountsSent, C)
      <4>1. C = {u \in Sent(s) : /\ transfer[u].day = day
                                 /\ transfer[u].status \in {"SETTLED", "NEEDS_APPROVAL"}}
        BY <1>1, <2>7 DEF CountedOn, Sent, ServerIsFree, TypeOK, TransferRows
      <4> QED
        BY <4>1 DEF SentToday
    <3>6. SumFunctionOnSet(AmountsSent, C) \in Nat /\ MaxPerDay \in Nat
      BY CountedFacts, ConstantsAssumption
    <3>7. SumFunctionOnSet(AmountsSent', C') <= MaxPerDay
      BY <2>1, <2>5, <3>1, <3>2, <3>4, <3>5, <3>6
    <3> QED
      BY <3>7
  <2>8. CASE ~ (m = s /\ d = day)
    <3>1. C' = C
      BY <1>1, <2>8 DEF CountedOn, Sent
    <3> QED
      BY <2>5, <2>6, <3>1
  <2> QED
    BY <2>7, <2>8
<1> QED
  BY <1>2, <1>3

\* Every step keeps the daily limit.
LEMMA LimitKeeps ==
  ASSUME TypeOK, TypeOK', DailyLimit, [Next]_vars
  PROVE  DailyLimit'
<1>1. ASSUME NEW t \in Transfers,
             PostTransfer(t) \/ ApproveTransfer(t) \/ LoseTransfer(t) \/ RefuseTransfer(t)
      PROVE  DailyLimit'
  <2>1. /\ transfer[t].status \in {"DECIDED", "NEEDS_APPROVAL"}
        /\ transfer' \in {[transfer EXCEPT ![t].status = "SETTLED"],
                          [transfer EXCEPT ![t].status = "REFUSED"],
                          [transfer EXCEPT ![t] = NoTransfer]}
    BY <1>1 DEF PostTransfer, ApproveTransfer, LoseTransfer, RefuseTransfer
  <2>2. \A u \in Transfers :
          \/ transfer'[u].status \in {"NONE", "REFUSED"}
          \/ u # t /\ transfer'[u] = transfer[u]
          \/ /\ transfer[u].status \notin {"NONE", "REFUSED"}
             /\ transfer'[u].from = transfer[u].from
             /\ transfer'[u].day = transfer[u].day
             /\ transfer'[u].amount = transfer[u].amount
    BY <2>1 DEF TypeOK, TransferRows, NoTransfer
  <2> QED
    BY <2>2, LimitIsFreed
<1>2. ASSUME UNCHANGED transfer PROVE DailyLimit'
  BY <1>2, LimitIsFreed
<1>3. CASE Server
  <2>1. \/ UNCHANGED transfer
        \/ \E t \in Transfers : PostTransfer(t) \/ LoseTransfer(t)
        \/ \E t \in Transfers, s, r \in Shops, a \in Amounts, active \in BOOLEAN :
             RequestTransfer(t, s, r, a, active)
    BY <1>3 DEF Server, TransferProfit, DepositTrainingFunds, Sell, ReadForReversal, DecideToFile, FileReversal,
         DropReversal, ReportComplaint
  <2> QED
    BY <1>1, <1>2, <2>1, RequestIsCounted
<1>4. CASE Console
  BY <1>1, <1>2, <1>4 DEF Console, ApproveReversal, RefuseReversal, SettleReversal, LeaveApproved,
       DecideComplaint
<1>5. CASE Worker \/ DayEnds \/ UNCHANGED vars
  BY <1>2, <1>5 DEF Worker, Fail, Deliver, ChargeFee, DayEnds, vars
<1> QED
  BY <1>3, <1>4, <1>5 DEF Next

\* What a shop sends in a day and has waiting for an approval stays within the
\* policy's daily limit, for any number of transfers and days
\* (sentTodayMinor counts what waits with what was settled, and a server that
\* is deciding is in the middle of no other transfer).
THEOREM LimitsAreKept == Spec => []DailyLimit
<1>1. Init => DailyLimit
  <2> SUFFICES ASSUME Init, NEW s \in Shops, NEW d \in 1..LastDay
               PROVE  SumFunctionOnSet(AmountsSent, CountedOn(s, d)) <= MaxPerDay
    BY DailyLimitIs
  <2>1. CountedOn(s, d) = {}
    BY DEF Init, CountedOn, Sent, NoTransfer
  <2> QED
    BY <2>1, SumEmpty, ConstantsAssumption
<1>2. TypeOK /\ DailyLimit /\ [Next]_vars => DailyLimit'
  BY NextTyped, LimitKeeps
<1> QED
  BY <1>1, <1>2, TypeCorrect, PTL DEF Spec
-----------------------------------------------------------------------------
(* The balances.                                                           *)

\* The parts of a balance as sums over whole tables, so that a step changes
\* them at the row it changes.
DebitsOf(s)   == [t \in Transfers |-> IF transfer[t].from = s THEN Debits[t] ELSE 0]
CreditsOf(s)  == [t \in Transfers |-> IF transfer[t].to = s THEN Credits[t] ELSE 0]
ReturnsOf(s)  == [q \in Requests |-> IF request[q].status # "NONE" /\ sale[request[q].sale].shop = s
                                     THEN GivenBack[q] ELSE 0]
PressedFor(s) == {p \in Presses : pressed[p] = s}

Out(s)  == SumFunctionOnSet(DebitsOf(s), Transfers)
In(s)   == SumFunctionOnSet(CreditsOf(s), Transfers)
Back(s) == SumFunctionOnSet(ReturnsOf(s), Requests)

\* Every row's share of a balance is a number.
LEMMA RowsAreNaturals ==
  ASSUME TypeOK, NEW s
  PROVE  /\ \A t \in Transfers : /\ Debits[t] \in Nat /\ DebitsOf(s)[t] \in Nat
                                 /\ Credits[t] \in Nat /\ CreditsOf(s)[t] \in Nat
         /\ \A q \in Requests : GivenBack[q] \in Nat /\ ReturnsOf(s)[q] \in Nat
<1>1. \A a, b \in Nat : a * b \in Nat /\ a + b \in Nat
  OBVIOUS
<1>2. ASSUME NEW t \in Transfers PROVE Debits[t] \in Nat /\ Credits[t] \in Nat
  <2>1. posted[t] \in Nat /\ transfer[t].amount \in Nat /\ transfer[t].fee \in Nat
    BY DEF TypeOK, TransferRows
  <2> QED
    BY <1>1, <2>1 DEF Debits, Credits
<1>3. ASSUME NEW q \in Requests PROVE GivenBack[q] \in Nat
  <2>1. returned[q] \in Nat /\ Price \in Nat
    BY ConstantsAssumption DEF TypeOK
  <2> QED
    BY <1>1, <2>1 DEF GivenBack
<1> QED
  BY <1>2, <1>3 DEF DebitsOf, CreditsOf, ReturnsOf

\* A balance is made of its parts, and each is a number.
Parts(s) ==
  /\ Available(s) = Opening + moved[s] + Deposit * Cardinality(PressedFor(s))
                      - MonthlyFee * fees[s] - Price * Cardinality(Sold(s))
                      - Out(s) + In(s) + Back(s)
  /\ Out(s) \in Int /\ In(s) \in Int /\ Back(s) \in Int
  /\ moved[s] \in Nat /\ fees[s] \in Nat
  /\ IsFiniteSet(PressedFor(s)) /\ Cardinality(PressedFor(s)) \in Nat
  /\ IsFiniteSet(Sold(s)) /\ Cardinality(Sold(s)) \in Nat
  /\ \A t \in Transfers : DebitsOf(s)[t] \in Int /\ CreditsOf(s)[t] \in Int
  /\ \A q \in Requests : ReturnsOf(s)[q] \in Int

AllParts == \A s \in Shops : Parts(s)

\* A well-typed state has balances made of their parts.
LEMMA BalanceParts == TypeOK => AllParts
<1> SUFFICES ASSUME TypeOK, NEW s \in Shops PROVE Parts(s)
  BY DEF AllParts
<1>1. SumFunctionOnSet(Debits, Sent(s)) = Out(s)
  <2>1. Sent(s) \in SUBSET Transfers
    BY DEF Sent
  <2>2. \A t \in Sent(s) : Debits[t] \in Int
    BY <2>1, RowsAreNaturals
  <2>3. \A t \in Transfers : DebitsOf(s)[t] = IF t \in Sent(s) THEN Debits[t] ELSE 0
    BY DEF DebitsOf, Sent
  <2> QED
    BY <2>1, <2>2, <2>3, TablesAssumption, SumPadded DEF Out
<1>2. SumFunctionOnSet(Credits, Received(s)) = In(s)
  <2>1. Received(s) \in SUBSET Transfers
    BY DEF Received
  <2>2. \A t \in Received(s) : Credits[t] \in Int
    BY <2>1, RowsAreNaturals
  <2>3. \A t \in Transfers : CreditsOf(s)[t] = IF t \in Received(s) THEN Credits[t] ELSE 0
    BY DEF CreditsOf, Received
  <2> QED
    BY <2>1, <2>2, <2>3, TablesAssumption, SumPadded DEF In
<1>3. SumFunctionOnSet(GivenBack, Asked(s)) = Back(s)
  <2>1. Asked(s) \in SUBSET Requests
    BY DEF Asked
  <2>2. \A q \in Asked(s) : GivenBack[q] \in Int
    BY <2>1, RowsAreNaturals
  <2>3. \A q \in Requests : ReturnsOf(s)[q] = IF q \in Asked(s) THEN GivenBack[q] ELSE 0
    BY DEF ReturnsOf, Asked
  <2> QED
    BY <2>1, <2>2, <2>3, TablesAssumption, SumPadded DEF Back
<1>8. /\ \A t \in Transfers : DebitsOf(s)[t] \in Int /\ CreditsOf(s)[t] \in Int
      /\ \A q \in Requests : ReturnsOf(s)[q] \in Int
  BY RowsAreNaturals
<1>4. Out(s) \in Int /\ In(s) \in Int /\ Back(s) \in Int
  BY <1>8, TablesAssumption, SumType DEF Out, In, Back
<1>5. moved[s] \in Nat /\ fees[s] \in Nat
  BY ConstantsAssumption DEF TypeOK
<1>6. IsFiniteSet(PressedFor(s)) /\ IsFiniteSet(Sold(s))
  <2>1. PressedFor(s) \in SUBSET Presses /\ Sold(s) \in SUBSET Sales
    BY DEF PressedFor, Sold
  <2> QED
    BY <2>1, TablesAssumption, FS_Subset
<1>7. Cardinality(PressedFor(s)) \in Nat /\ Cardinality(Sold(s)) \in Nat
  BY <1>6, FS_CardinalityType
<1> QED
  BY <1>1, <1>2, <1>3, <1>4, <1>5, <1>6, <1>7, <1>8 DEF Parts, Available, PressedFor

\* A step in which only sales and fees can have taken from a shop.
Rises(s) ==
  /\ \A t \in Transfers : DebitsOf(s)'[t] = DebitsOf(s)[t] /\ CreditsOf(s)[t] <= CreditsOf(s)'[t]
  /\ \A q \in Requests : ReturnsOf(s)[q] <= ReturnsOf(s)'[q]
  /\ moved[s] <= moved'[s]
  /\ PressedFor(s) \subseteq PressedFor(s)'

\* The same after a step.
LEMMA NextBalanceParts == TypeOK' => AllParts'
BY BalanceParts, PTL

\* The same before and after it.
LEMMA BothBalances ==
  ASSUME TypeOK, TypeOK', NEW s \in Shops
  PROVE  Parts(s) /\ Parts(s)'
BY BalanceParts, NextBalanceParts DEF AllParts

BalancesAreInts == \A s \in Shops : Available(s) \in Int

\* A balance is an integer.
LEMMA AvailableIsInt == TypeOK => BalancesAreInts
<1> SUFFICES ASSUME TypeOK, NEW s \in Shops PROVE Available(s) \in Int
  BY DEF BalancesAreInts
<1>1. \A a, b \in Nat : a * b \in Int
  OBVIOUS
<1>2. Parts(s)
  BY BalanceParts DEF AllParts
<1> DEFINE p == Deposit * Cardinality(PressedFor(s))
           f == MonthlyFee * fees[s]
           c == Price * Cardinality(Sold(s))
<1>3. p \in Int /\ f \in Int /\ c \in Int
  BY <1>1, <1>2, ConstantsAssumption DEF Parts
<1>4. Available(s) = Opening + moved[s] + p - f - c - Out(s) + In(s) + Back(s)
  BY <1>2 DEF Parts
<1> HIDE DEF p, f, c
<1> QED
  BY <1>2, <1>3, <1>4, ConstantsAssumption DEF Parts

\* The same after a step.
LEMMA NextAvailableIsInt == TypeOK' => BalancesAreInts'
BY AvailableIsInt, PTL

\* Such a step takes no more than the fees and the sales it adds.
LEMMA RisingBalance ==
  ASSUME TypeOK, TypeOK', NEW s \in Shops, Rises(s)
  PROVE  Available(s)' >= Available(s) + MonthlyFee * fees[s] - MonthlyFee * fees'[s]
                            + Price * Cardinality(Sold(s)) - Price * Cardinality(Sold(s)')
<1>1. Parts(s) /\ Parts(s)'
  BY BothBalances
<1>2. Out(s)' <= Out(s) /\ In(s) <= In(s)' /\ Back(s) <= Back(s)'
  <2>1. \A t \in Transfers : DebitsOf(s)'[t] <= DebitsOf(s)[t]
    BY <1>1 DEF Parts, Rises
  <2> QED
    BY <1>1, <2>1, TablesAssumption, SumPointwise DEF Parts, Rises, Out, In, Back
<1>3. Cardinality(PressedFor(s)) <= Cardinality(PressedFor(s)')
  BY <1>1, FS_Subset DEF Parts, Rises
<1>4. Deposit * Cardinality(PressedFor(s)) <= Deposit * Cardinality(PressedFor(s)')
  <2>1. \A a, b, c \in Nat : b <= c => a * b <= a * c
    OBVIOUS
  <2> QED
    BY <1>1, <1>3, <2>1, ConstantsAssumption DEF Parts
<1> DEFINE p  == Deposit * Cardinality(PressedFor(s))
           p1 == Deposit * Cardinality(PressedFor(s)')
           f  == MonthlyFee * fees[s]
           f1 == MonthlyFee * fees'[s]
           c  == Price * Cardinality(Sold(s))
           c1 == Price * Cardinality(Sold(s)')
<1>5. p \in Int /\ p1 \in Int /\ f \in Int /\ f1 \in Int /\ c \in Int /\ c1 \in Int
  <2>1. \A a, b \in Nat : a * b \in Int
    OBVIOUS
  <2> QED
    BY <1>1, <2>1, ConstantsAssumption DEF Parts
<1>6. /\ p <= p1
      /\ Available(s) = Opening + moved[s] + p - f - c - Out(s) + In(s) + Back(s)
      /\ Available(s)' = Opening + moved'[s] + p1 - f1 - c1 - Out(s)' + In(s)' + Back(s)'
  BY <1>1, <1>4 DEF Parts
<1> HIDE DEF p, p1, f, f1, c, c1
<1>7. Available(s)' >= Available(s) + f - f1 + c - c1
  BY <1>1, <1>2, <1>5, <1>6, ConstantsAssumption DEF Parts, Rises
<1> QED
  BY <1>7 DEF f, f1, c, c1

\* A sale stays with its shop.
LEMMA ShopsStand ==
  ASSUME TypeOK, [Next]_vars, NEW x \in Sales, sale[x].state # "NONE"
  PROVE  sale'[x].shop = sale[x].shop
<1>1. ASSUME NEW y, NEW st, sale' = [sale EXCEPT ![y].state = st]
      PROVE  sale'[x].shop = sale[x].shop
  BY <1>1 DEF TypeOK, SaleRows
<1>2. ASSUME NEW y, NEW e, sale' = [sale EXCEPT ![y].state = "SUCCESSFUL", ![y].earned = e]
      PROVE  sale'[x].shop = sale[x].shop
  BY <1>2 DEF TypeOK, SaleRows
<1>3. CASE Server
  BY <1>3 DEF Server, RequestTransfer, PostTransfer, LoseTransfer, TransferProfit,
       DepositTrainingFunds, Sell, ReadForReversal, DecideToFile, FileReversal, DropReversal,
       ReportComplaint, TypeOK
<1>4. CASE Console
  <2>1. UNCHANGED sale \/ \E q \in Requests : SettleReversal(q)
    BY <1>4 DEF Console, ApproveTransfer, RefuseTransfer, ApproveReversal, RefuseReversal,
         LeaveApproved, DecideComplaint
  <2>2. ASSUME NEW q \in Requests, SettleReversal(q) PROVE sale'[x].shop = sale[x].shop
    BY <1>1, <2>2 DEF SettleReversal
  <2> QED
    BY <2>1, <2>2
<1>5. CASE Worker \/ DayEnds \/ UNCHANGED vars
  <2>1. \/ UNCHANGED sale
        \/ \E y \in Sales : Fail(y)
        \/ \E y \in Sales, e \in BOOLEAN : Deliver(y, e)
    BY <1>5 DEF Worker, ChargeFee, DayEnds, vars
  <2>2. ASSUME NEW y \in Sales, Fail(y) PROVE sale'[x].shop = sale[x].shop
    BY <1>1, <2>2 DEF Fail
  <2>3. ASSUME NEW y \in Sales, NEW e \in BOOLEAN, Deliver(y, e) PROVE sale'[x].shop = sale[x].shop
    BY <1>2, <2>3 DEF Deliver
  <2> QED
    BY <2>1, <2>2, <2>3
<1> QED
  BY <1>3, <1>4, <1>5 DEF Next

\* A transfer is posted by a step that does nothing else.
LEMMA PostedAlone ==
  ASSUME TypeOK, [Next]_vars, NEW t \in Transfers, posted'[t] # posted[t]
  PROVE  /\ transfer' = [transfer EXCEPT ![t].status = "SETTLED"]
         /\ posted' = [posted EXCEPT ![t] = @ + 1]
         /\ UNCHANGED <<sale, request, returned, moved, fees, pressed>>
<1>1. ASSUME NEW u \in Transfers, PostTransfer(u) \/ ApproveTransfer(u)
      PROVE  /\ u = t
             /\ transfer' = [transfer EXCEPT ![t].status = "SETTLED"]
             /\ posted' = [posted EXCEPT ![t] = @ + 1]
             /\ UNCHANGED <<sale, request, returned, moved, fees, pressed>>
  <2>1. /\ transfer' = [transfer EXCEPT ![u].status = "SETTLED"]
        /\ posted' = [posted EXCEPT ![u] = @ + 1]
        /\ UNCHANGED <<sale, request, returned, moved, fees, pressed>>
    BY <1>1 DEF PostTransfer, ApproveTransfer
  <2>2. u = t
    BY <2>1 DEF TypeOK
  <2> QED
    BY <2>1, <2>2
<1>2. CASE Server
  BY <1>1, <1>2 DEF Server, RequestTransfer, LoseTransfer, TransferProfit, DepositTrainingFunds,
       Sell, ReadForReversal, DecideToFile, FileReversal, DropReversal,
       ReportComplaint, books
<1>3. CASE Console
  BY <1>1, <1>3 DEF Console, RefuseTransfer, ApproveReversal, RefuseReversal, SettleReversal,
       LeaveApproved, DecideComplaint, books
<1>4. CASE Worker \/ DayEnds \/ UNCHANGED vars
  BY <1>4 DEF Worker, Fail, Deliver, ChargeFee, DayEnds, vars, books
<1> QED
  BY <1>2, <1>3, <1>4 DEF Next

\* What can take from a balance besides transfers.
LEMMA Takers ==
  ASSUME TypeOK, [Next]_vars, NEW s \in Shops
  PROVE  /\ moved[s] <= moved'[s]
         /\ PressedFor(s) \subseteq PressedFor(s)'
         /\ \/ fees'[s] = fees[s] /\ Sold(s)' \subseteq Sold(s)
            \/ ChargeFee(s)
            \/ \E x \in Sales : Sell(x, s)
<1>1. moved[s] \in Nat
  BY DEF TypeOK
<1>2. CASE Server
  <2>1. \/ UNCHANGED <<sale, moved, fees, pressed>>
        \/ \E m \in Shops, a \in Amounts : TransferProfit(m, a)
        \/ \E p \in Presses, m \in Shops : DepositTrainingFunds(p, m)
        \/ \E x \in Sales, m \in Shops : Sell(x, m)
    BY <1>2 DEF Server, RequestTransfer, PostTransfer, LoseTransfer, ReadForReversal, DecideToFile, FileReversal,
         DropReversal, ReportComplaint, books
  <2>2. CASE UNCHANGED <<sale, moved, fees, pressed>>
    BY <1>1, <2>2 DEF PressedFor, Sold
  <2>3. ASSUME NEW m \in Shops, NEW a \in Amounts, TransferProfit(m, a)
        PROVE  /\ moved[s] <= moved'[s]
               /\ UNCHANGED <<sale, fees, pressed>>
    <3>1. a \in Nat
      BY ConstantsAssumption
    <3> QED
      BY <1>1, <2>3, <3>1 DEF TransferProfit, TypeOK
  <2>4. ASSUME NEW p \in Presses, NEW m \in Shops, DepositTrainingFunds(p, m)
        PROVE  /\ UNCHANGED <<sale, moved, fees>>
               /\ PressedFor(s) \subseteq PressedFor(s)'
    BY <2>4, ConstantsAssumption DEF DepositTrainingFunds, TypeOK, PressedFor
  <2>5. ASSUME NEW x \in Sales, NEW m \in Shops, Sell(x, m)
        PROVE  /\ UNCHANGED <<moved, fees, pressed>>
               /\ m # s => Sold(s)' \subseteq Sold(s)
    BY <2>5 DEF Sell, TypeOK, Sold, books
  <2> QED
    BY <1>1, <2>1, <2>2, <2>3, <2>4, <2>5 DEF PressedFor, Sold
<1>3. CASE Console
  <2>1. /\ UNCHANGED <<moved, fees, pressed>>
        /\ UNCHANGED sale \/ \E q \in Requests : SettleReversal(q)
    BY <1>3 DEF Console, ApproveTransfer, RefuseTransfer, ApproveReversal, RefuseReversal,
         SettleReversal, LeaveApproved, DecideComplaint, books
  <2>2. ASSUME NEW q \in Requests, SettleReversal(q) PROVE Sold(s)' \subseteq Sold(s)
    BY <2>2 DEF SettleReversal, CanBeSettled, Sold, TypeOK, SaleRows
  <2> QED
    BY <1>1, <2>1, <2>2 DEF PressedFor, Sold
<1>4. CASE Worker \/ DayEnds \/ UNCHANGED vars
  <2>1. /\ UNCHANGED <<moved, pressed>>
        /\ \/ UNCHANGED <<sale, fees>>
           \/ UNCHANGED fees /\ \E x \in Sales : Fail(x) \/ \E e \in BOOLEAN : Deliver(x, e)
           \/ UNCHANGED sale /\ \E m \in Shops : ChargeFee(m)
    BY <1>4 DEF Worker, Fail, Deliver, ChargeFee, DayEnds, vars, books
  <2>2. ASSUME NEW x \in Sales, Fail(x) \/ \E e \in BOOLEAN : Deliver(x, e)
        PROVE  Sold(s)' \subseteq Sold(s)
    BY <2>2 DEF Fail, Deliver, Sold, TypeOK, SaleRows
  <2>3. ASSUME NEW m \in Shops, ChargeFee(m) PROVE m # s => fees'[s] = fees[s]
    BY <2>3 DEF ChargeFee, TypeOK
  <2> QED
    BY <1>1, <2>1, <2>2, <2>3 DEF PressedFor, Sold
<1> QED
  BY <1>2, <1>3, <1>4 DEF Next

\* What the ledger says of a row that is not settled is nothing, and a settled
\* row never changes: only a transfer that is posted takes from its sender.
LEMMA BalanceRises ==
  ASSUME Books, Books', [Next]_vars, NEW s \in Shops,
         \A t \in Transfers : posted'[t] # posted[t] => transfer[t].from # s
  PROVE  Rises(s)
<1>1. TypeOK /\ TypeOK' /\ RowsMatchLedger /\ RowsMatchLedger' /\ Parts(s) /\ Parts(s)'
  BY BothBalances DEF Books
<1>2. ASSUME NEW t \in Transfers
      PROVE  DebitsOf(s)'[t] = DebitsOf(s)[t] /\ CreditsOf(s)[t] <= CreditsOf(s)'[t]
  <2>1. CASE posted'[t] # posted[t]
    <3>1. transfer' = [transfer EXCEPT ![t].status = "SETTLED"] /\ posted' = [posted EXCEPT ![t] = @ + 1]
      BY <1>1, <2>1, PostedAlone
    <3>2. posted[t] = 0 /\ posted'[t] = 1 /\ transfer[t].amount \in Nat
      BY <1>1, <2>1, <3>1 DEF RowsMatchLedger, TypeOK, TransferRows
    <3>3. /\ transfer'[t].from = transfer[t].from /\ transfer'[t].to = transfer[t].to
          /\ transfer'[t].amount = transfer[t].amount
      BY <1>1, <3>1 DEF TypeOK, TransferRows
    <3>4. DebitsOf(s)'[t] = 0 /\ DebitsOf(s)[t] = 0
      BY <2>1, <3>3 DEF DebitsOf
    <3>5. Credits[t] = 0 /\ Credits'[t] = transfer[t].amount
      BY <3>2, <3>3 DEF Credits
    <3>6. CreditsOf(s)[t] = 0 /\ CreditsOf(s)'[t] \in {0, transfer[t].amount}
      BY <3>3, <3>5 DEF CreditsOf
    <3> QED
      BY <3>2, <3>4, <3>6
  <2>2. CASE posted'[t] = posted[t] /\ posted[t] = 0
    <3>1. /\ transfer[t].amount \in Nat /\ transfer[t].fee \in Nat
          /\ transfer'[t].amount \in Nat /\ transfer'[t].fee \in Nat
      BY <1>1 DEF TypeOK, TransferRows
    <3>2. Debits[t] = 0 /\ Debits'[t] = 0 /\ Credits[t] = 0 /\ Credits'[t] = 0
      BY <2>2, <3>1 DEF Debits, Credits
    <3>3. DebitsOf(s)[t] = 0 /\ DebitsOf(s)'[t] = 0 /\ CreditsOf(s)[t] = 0 /\ CreditsOf(s)'[t] = 0
      BY <3>2 DEF DebitsOf, CreditsOf
    <3> QED
      BY <3>3
  <2>3. CASE posted'[t] = posted[t] /\ posted[t] # 0
    <3>1. transfer'[t] = transfer[t]
      BY <1>1, <2>3, TransfersStandFast DEF RowsMatchLedger, TransfersStand
    <3>2. DebitsOf(s)'[t] = DebitsOf(s)[t] /\ CreditsOf(s)[t] = CreditsOf(s)'[t]
      BY <2>3, <3>1 DEF DebitsOf, CreditsOf, Debits, Credits
    <3> QED
      BY <1>1, <3>2 DEF Parts
  <2> QED
    BY <2>1, <2>2, <2>3
<1>3. ASSUME NEW q \in Requests PROVE ReturnsOf(s)[q] <= ReturnsOf(s)'[q]
  <2>1. CASE returned[q] = 0
    <3>1. GivenBack[q] = 0
      BY <2>1, ConstantsAssumption DEF GivenBack
    <3>2. ReturnsOf(s)[q] = 0
      BY <3>1 DEF ReturnsOf
    <3>3. GivenBack'[q] \in Nat
      <4>1. returned'[q] \in Nat /\ Price \in Nat
        BY <1>1, ConstantsAssumption DEF TypeOK
      <4>2. \A a, b \in Nat : a * b \in Nat
        OBVIOUS
      <4> QED
        BY <4>1, <4>2 DEF GivenBack
    <3>4. ReturnsOf(s)'[q] \in Nat
      BY <3>3 DEF ReturnsOf
    <3> QED
      BY <3>2, <3>4
  <2>2. CASE returned[q] # 0
    <3>1. request[q].status = "SETTLED"
      BY <1>1, <2>2 DEF RowsMatchLedger
    <3>2. request'[q] = request[q]
      BY <3>1, ReversalsStandFast DEF RequestsStand
    <3>3. returned'[q] = returned[q]
      BY <1>1, <3>1, <3>2 DEF RowsMatchLedger
    <3>4. request[q].sale \in Sales /\ sale[request[q].sale].state = "REVERSED"
      BY <3>1 DEF Books, Pursuit, ReversedOnce
    <3>5. sale'[request[q].sale].shop = sale[request[q].sale].shop
      BY <1>1, <3>4, ShopsStand
    <3>6. ReturnsOf(s)'[q] = ReturnsOf(s)[q]
      BY <3>2, <3>3, <3>5 DEF ReturnsOf, GivenBack
    <3> QED
      BY <1>1, <3>6 DEF Parts
  <2> QED
    BY <2>1, <2>2
<1>4. moved[s] <= moved'[s] /\ PressedFor(s) \subseteq PressedFor(s)'
  BY <1>1, Takers
<1> QED
  BY <1>2, <1>3, <1>4 DEF Rises

\* A step that posts no transfer of a shop takes from it only what is there.
LEMMA StepIsCovered ==
  ASSUME Books, Books', [Next]_vars, NEW s \in Shops
  PROVE  \/ Available(s)' >= 0
         \/ Available(s)' >= Available(s)
         \/ \E t \in Transfers : transfer[t].from = s /\ posted'[t] > posted[t]
<1>1. TypeOK /\ TypeOK' /\ Parts(s) /\ Parts(s)'
  BY BothBalances DEF Books
<1>2. ASSUME NEW t \in Transfers, posted'[t] # posted[t] PROVE posted'[t] > posted[t]
  <2>1. posted' = [posted EXCEPT ![t] = @ + 1]
    BY <1>1, <1>2, PostedAlone
  <2> QED
    BY <1>1, <2>1 DEF TypeOK
<1>3. CASE \E t \in Transfers : posted'[t] # posted[t] /\ transfer[t].from = s
  BY <1>2, <1>3
<1>4. CASE \A t \in Transfers : posted'[t] # posted[t] => transfer[t].from # s
  <2> DEFINE f  == MonthlyFee * fees[s]
             f1 == MonthlyFee * fees'[s]
             c  == Price * Cardinality(Sold(s))
             c1 == Price * Cardinality(Sold(s)')
  <2>1. Rises(s)
    BY <1>4, BalanceRises
  <2>2. Available(s)' >= Available(s) + f - f1 + c - c1
    BY <1>1, <2>1, RisingBalance
  <2>3. f \in Int /\ f1 \in Int /\ c \in Int /\ c1 \in Int
    <3>1. \A a, b \in Nat : a * b \in Int
      OBVIOUS
    <3> QED
      BY <1>1, <3>1, ConstantsAssumption DEF Parts
  <2>4. Available(s) \in Int /\ Available(s)' \in Int
    BY <1>1, AvailableIsInt, NextAvailableIsInt DEF BalancesAreInts
  <2>5. CASE fees'[s] = fees[s] /\ Sold(s)' \subseteq Sold(s)
    <3>1. Cardinality(Sold(s)') <= Cardinality(Sold(s))
      BY <1>1, <2>5, FS_Subset DEF Parts
    <3>2. \A a, b, d \in Nat : b <= d => a * b <= a * d
      OBVIOUS
    <3>3. c1 <= c /\ f1 = f
      BY <1>1, <2>5, <3>1, <3>2, ConstantsAssumption DEF Parts
    <3> HIDE DEF f, f1, c, c1
    <3> QED
      BY <2>2, <2>3, <2>4, <3>3
  <2>6. CASE ChargeFee(s)
    <3>1. MonthlyFee <= Available(s) /\ fees'[s] = fees[s] + 1 /\ UNCHANGED sale
      BY <1>1, <2>6 DEF ChargeFee, TypeOK
    <3>2. c1 = c
      BY <3>1 DEF Sold
    <3>3. f1 = f + MonthlyFee
      <4>1. \A a, b \in Nat : a * (b + 1) = a * b + a
        OBVIOUS
      <4> QED
        BY <1>1, <3>1, <4>1, ConstantsAssumption DEF Parts
    <3>4. MonthlyFee \in Nat
      BY ConstantsAssumption
    <3> HIDE DEF f, f1, c, c1
    <3> QED
      BY <2>2, <2>3, <2>4, <3>1, <3>2, <3>3, <3>4
  <2>7. ASSUME NEW x \in Sales, Sell(x, s) PROVE Available(s)' >= 0
    <3>1. Price <= Available(s) /\ UNCHANGED fees
      BY <2>7 DEF Sell, books
    <3>2. Sold(s)' \subseteq Sold(s) \cup {x}
      BY <1>1, <2>7 DEF Sell, Sold, TypeOK
    <3>3. Cardinality(Sold(s)') <= Cardinality(Sold(s)) + 1
      <4>1. /\ IsFiniteSet(Sold(s) \cup {x})
            /\ Cardinality(Sold(s) \cup {x}) <= Cardinality(Sold(s)) + 1
        <5>1. IsFiniteSet(Sold(s)) /\ Cardinality(Sold(s)) \in Nat
          BY <1>1 DEF Parts
        <5>2. /\ IsFiniteSet(Sold(s) \cup {x})
              /\ Cardinality(Sold(s) \cup {x})
                   = IF x \in Sold(s) THEN Cardinality(Sold(s)) ELSE Cardinality(Sold(s)) + 1
          BY <5>1, FS_AddElement
        <5> QED
          BY <5>1, <5>2
      <4>2. Cardinality(Sold(s)') <= Cardinality(Sold(s) \cup {x})
        BY <3>2, <4>1, FS_Subset
      <4>3. Cardinality(Sold(s) \cup {x}) \in Nat
        BY <4>1, FS_CardinalityType
      <4> QED
        BY <1>1, <4>1, <4>2, <4>3 DEF Parts
    <3>4. c1 <= c + Price /\ f1 = f
      <4>1. \A a, b, d \in Nat : d <= b + 1 => a * d <= a * b + a
        <5>1. \A a, b, d \in Nat : d <= b => a * d <= a * b
          OBVIOUS
        <5>2. \A a, b \in Nat : a * (b + 1) = a * b + a
          OBVIOUS
        <5>3. \A b \in Nat : b + 1 \in Nat
          OBVIOUS
        <5> QED
          BY <5>1, <5>2, <5>3
      <4> QED
        BY <1>1, <3>1, <3>3, <4>1, ConstantsAssumption DEF Parts
    <3>5. Price \in Nat
      BY ConstantsAssumption
    <3> HIDE DEF f, f1, c, c1
    <3> QED
      BY <2>2, <2>3, <2>4, <3>1, <3>4, <3>5
  <2> QED
    BY <1>1, <2>5, <2>6, <2>7, Takers
<1> QED
  BY <1>3, <1>4

\* Whatever the three processes do, a shop's balance goes below zero only where
\* a transfer it had sent is posted: every other debit is covered when it is
\* made (createSale, chargeMonthlyFee, decideTransfer).
THEOREM DebitsAreCovered == Spec => SpendingIsCovered
<1>1. Books /\ Books' /\ [Next]_vars
        => [\A s \in Shops :
              \/ Available(s)' >= 0
              \/ Available(s)' >= Available(s)
              \/ \E t \in Transfers : transfer[t].from = s /\ posted'[t] > posted[t]]_vars
  BY StepIsCovered
<1> QED
  BY <1>1, BooksHold, PTL DEF Spec, SpendingIsCovered

\* What the posting of a transfer does to every balance.
LEMMA PostedExactly ==
  ASSUME Books, Books', [Next]_vars, NEW s \in Shops, NEW t \in Transfers, posted'[t] # posted[t]
  PROVE  /\ Available(s)' = Available(s)
              - (IF transfer[t].from = s THEN transfer[t].amount + transfer[t].fee ELSE 0)
              + (IF transfer[t].to = s THEN transfer[t].amount ELSE 0)
         /\ Out(s)' = Out(s)
              + (IF transfer[t].from = s THEN transfer[t].amount + transfer[t].fee ELSE 0)
<1>1. TypeOK /\ TypeOK' /\ RowsMatchLedger /\ RowsMatchLedger' /\ Parts(s) /\ Parts(s)'
  BY BothBalances DEF Books
<1>2. /\ transfer' = [transfer EXCEPT ![t].status = "SETTLED"]
      /\ posted' = [posted EXCEPT ![t] = @ + 1]
      /\ UNCHANGED <<sale, request, returned, moved, fees, pressed>>
  BY <1>1, PostedAlone
<1>3. /\ posted[t] = 0 /\ posted'[t] = 1
      /\ transfer'[t].from = transfer[t].from /\ transfer'[t].to = transfer[t].to
      /\ transfer'[t].amount = transfer[t].amount /\ transfer'[t].fee = transfer[t].fee
      /\ transfer[t].amount \in Nat /\ transfer[t].fee \in Nat
  <2>1. posted[t] = 0 /\ posted'[t] = 1
    <3>1. posted[t] \in Nat /\ posted'[t] = posted[t] + 1
      BY <1>1, <1>2 DEF TypeOK
    <3> QED
      BY <1>1, <3>1 DEF RowsMatchLedger
  <2>2. /\ transfer'[t].from = transfer[t].from /\ transfer'[t].to = transfer[t].to
        /\ transfer'[t].amount = transfer[t].amount /\ transfer'[t].fee = transfer[t].fee
    BY <1>1, <1>2 DEF TypeOK, TransferRows
  <2>3. transfer[t].amount \in Nat /\ transfer[t].fee \in Nat
    BY <1>1 DEF TypeOK, TransferRows
  <2> QED
    BY <2>1, <2>2, <2>3
<1> DEFINE o == IF transfer[t].from = s THEN transfer[t].amount + transfer[t].fee ELSE 0
           i == IF transfer[t].to = s THEN transfer[t].amount ELSE 0
<1>4. \A u \in Transfers : u # t => /\ DebitsOf(s)'[u] = DebitsOf(s)[u]
                                    /\ CreditsOf(s)'[u] = CreditsOf(s)[u]
  <2>1. \A u \in Transfers : u # t => transfer'[u] = transfer[u] /\ posted'[u] = posted[u]
    BY <1>1, <1>2 DEF TypeOK
  <2> QED
    BY <2>1 DEF DebitsOf, CreditsOf, Debits, Credits
<1>5. /\ DebitsOf(s)[t] = 0 /\ DebitsOf(s)'[t] = o
      /\ CreditsOf(s)[t] = 0 /\ CreditsOf(s)'[t] = i
  <2>1. /\ Debits[t] = 0 /\ Debits'[t] = transfer[t].amount + transfer[t].fee
        /\ Credits[t] = 0 /\ Credits'[t] = transfer[t].amount
    BY <1>3 DEF Debits, Credits
  <2> QED
    BY <1>3, <2>1 DEF DebitsOf, CreditsOf
<1>6. o \in Int /\ i \in Int
  BY <1>3
<1> HIDE DEF o, i
<1>7. Out(s)' = Out(s) + o
  <2>1. \A u \in Transfers : DebitsOf(s)[u] \in Int /\ DebitsOf(s)'[u] \in Int
    BY <1>1 DEF Parts
  <2>2. Out(s)' = Out(s) - DebitsOf(s)[t] + DebitsOf(s)'[t]
    <3>1. \A u \in Transfers : u # t => DebitsOf(s)'[u] = DebitsOf(s)[u]
      BY <1>4
    <3>2. SumFunctionOnSet(DebitsOf(s)', Transfers)
            = SumFunctionOnSet(DebitsOf(s), Transfers) - DebitsOf(s)[t] + DebitsOf(s)'[t]
      BY <2>1, <3>1, TablesAssumption, SumUpdate
    <3> QED
      BY <3>2 DEF Out
  <2> QED
    BY <1>1, <1>5, <1>6, <2>2 DEF Parts
<1>8. In(s)' = In(s) + i
  <2>1. \A u \in Transfers : CreditsOf(s)[u] \in Int /\ CreditsOf(s)'[u] \in Int
    BY <1>1 DEF Parts
  <2>2. In(s)' = In(s) - CreditsOf(s)[t] + CreditsOf(s)'[t]
    <3>1. \A u \in Transfers : u # t => CreditsOf(s)'[u] = CreditsOf(s)[u]
      BY <1>4
    <3>2. SumFunctionOnSet(CreditsOf(s)', Transfers)
            = SumFunctionOnSet(CreditsOf(s), Transfers) - CreditsOf(s)[t] + CreditsOf(s)'[t]
      BY <2>1, <3>1, TablesAssumption, SumUpdate
    <3> QED
      BY <3>2 DEF In
  <2> QED
    BY <1>1, <1>5, <1>6, <2>2 DEF Parts
<1>9. Back(s)' = Back(s) /\ PressedFor(s)' = PressedFor(s) /\ Sold(s)' = Sold(s)
  BY <1>2 DEF Back, ReturnsOf, GivenBack, PressedFor, Sold
<1> DEFINE p == Deposit * Cardinality(PressedFor(s))
           f == MonthlyFee * fees[s]
           c == Price * Cardinality(Sold(s))
<1>10. p \in Int /\ f \in Int /\ c \in Int
  <2>1. \A a, b \in Nat : a * b \in Int
    OBVIOUS
  <2> QED
    BY <1>1, <2>1, ConstantsAssumption DEF Parts
<1>11. /\ Available(s) = Opening + moved[s] + p - f - c - Out(s) + In(s) + Back(s)
       /\ Available(s)' = Opening + moved[s] + p - f - c - Out(s)' + In(s)' + Back(s)
  <2>1. Available(s) = Opening + moved[s] + p - f - c - Out(s) + In(s) + Back(s)
    BY <1>1 DEF Parts
  <2>2. moved'[s] = moved[s] /\ fees'[s] = fees[s]
    BY <1>2
  <2>3. Available(s)' = Opening + moved'[s] + Deposit * Cardinality(PressedFor(s)')
                          - MonthlyFee * fees'[s] - Price * Cardinality(Sold(s)')
                          - Out(s)' + In(s)' + Back(s)'
    BY <1>1 DEF Parts
  <2> QED
    BY <1>9, <2>1, <2>2, <2>3
<1> HIDE DEF p, f, c
<1>12. Available(s)' = Available(s) - o + i
  BY <1>1, <1>6, <1>7, <1>8, <1>10, <1>11, ConstantsAssumption DEF Parts
<1> QED
  BY <1>7, <1>12 DEF o, i

\* A posted transfer moves its amount from one balance to the other, takes its
\* fee once, and leaves every other shop's balance alone (postShopTransfer).
THEOREM TransfersAreExact == Spec => TransferIsExact
<1>1. Books /\ Books' /\ [Next]_vars
        => [\A t \in Transfers, s \in Shops :
              posted'[t] # posted[t] =>
                Available(s)' = Available(s)
                  - (IF transfer[t].from = s THEN transfer[t].amount + transfer[t].fee ELSE 0)
                  + (IF transfer[t].to = s THEN transfer[t].amount ELSE 0)]_vars
  BY PostedExactly
<1> QED
  BY <1>1, BooksHold, PTL DEF Spec, TransferIsExact

-----------------------------------------------------------------------------
(* How far a balance can fall.                                             *)

Within(s) == Available(s) + Out(s) >= 0

AllWithin == \A s \in Shops : Within(s)

\* The parts of the property are those of the balance.
LEMMA OverdraftIs == TypeOK => (OverdraftIsSent <=> AllWithin)
<1> SUFFICES ASSUME TypeOK, NEW s \in Shops
             PROVE  SumFunctionOnSet(Debits, Sent(s)) = Out(s)
  BY DEF OverdraftIsSent, AllWithin, Within
<1>1. Sent(s) \in SUBSET Transfers
  BY DEF Sent
<1>2. \A t \in Sent(s) : Debits[t] \in Int
  BY <1>1, RowsAreNaturals
<1>3. \A t \in Transfers : DebitsOf(s)[t] = IF t \in Sent(s) THEN Debits[t] ELSE 0
  BY DEF DebitsOf, Sent
<1> QED
  BY <1>1, <1>2, <1>3, TablesAssumption, SumPadded DEF Out

\* What was taken is never less than nothing.
DebtsAreNatural == \A s \in Shops : Out(s) \in Nat

\* The sum of a shop's debits is a number.
LEMMA OutIsNatural == TypeOK => DebtsAreNatural
<1> SUFFICES ASSUME TypeOK, NEW s \in Shops PROVE Out(s) \in Nat
  BY DEF DebtsAreNatural
<1>1. \A t \in Transfers : DebitsOf(s)[t] \in Nat
  BY RowsAreNaturals
<1>2. Transfers \in SUBSET Transfers
  OBVIOUS
<1> QED
  BY <1>1, <1>2, TablesAssumption, SumMonotone DEF Out

\* The same after a step.
LEMMA NextOutIsNatural == TypeOK' => DebtsAreNatural'
BY OutIsNatural, PTL

\* A posting takes from the balance what it adds to the sum; any other step
\* leaves the sum, and takes only what is there.
LEMMA WithinKeeps ==
  ASSUME Books, Books', [Next]_vars, NEW s \in Shops, Within(s)
  PROVE  Within(s)'
<1>1. TypeOK /\ TypeOK' /\ Parts(s) /\ Parts(s)'
  BY BothBalances DEF Books
<1>2. /\ Available(s) \in Int /\ Available(s)' \in Int
      /\ Out(s) \in Nat /\ Out(s)' \in Nat
  BY <1>1, AvailableIsInt, NextAvailableIsInt, OutIsNatural, NextOutIsNatural
  DEF BalancesAreInts, DebtsAreNatural
<1>3. CASE \E t \in Transfers : posted'[t] # posted[t]
  <2>1. PICK t \in Transfers : posted'[t] # posted[t]
    BY <1>3
  <2> DEFINE o == IF transfer[t].from = s THEN transfer[t].amount + transfer[t].fee ELSE 0
             i == IF transfer[t].to = s THEN transfer[t].amount ELSE 0
  <2>2. Available(s)' = Available(s) - o + i /\ Out(s)' = Out(s) + o
    BY <2>1, PostedExactly
  <2>3. o \in Nat /\ i \in Nat
    BY <1>1 DEF TypeOK, TransferRows
  <2> HIDE DEF o, i
  <2> QED
    BY <1>2, <2>2, <2>3 DEF Within
<1>4. CASE \A t \in Transfers : posted'[t] = posted[t]
  <2>1. Available(s)' >= 0 \/ Available(s)' >= Available(s)
    <3>1. ~ \E t \in Transfers : posted'[t] > posted[t]
      BY <1>1, <1>4 DEF TypeOK
    <3> QED
      BY <3>1, StepIsCovered
  <2>2. Out(s)' = Out(s)
    <3>1. Rises(s)
      BY <1>4, BalanceRises
    <3>2. \A t \in Transfers : DebitsOf(s)[t] \in Int /\ DebitsOf(s)'[t] = DebitsOf(s)[t]
      BY <1>1, <3>1 DEF Parts, Rises
    <3>3. SumFunctionOnSet(DebitsOf(s), Transfers) = SumFunctionOnSet(DebitsOf(s)', Transfers)
      BY <3>2, TablesAssumption, SumCongruence
    <3> QED
      BY <3>3 DEF Out
  <2> QED
    BY <1>2, <2>1, <2>2 DEF Within
<1> QED
  BY <1>3, <1>4

\* A shop owes at most what its transfers took: the decision of a transfer and
\* its posting are apart, and nothing else is posted on a balance read earlier
\* (postShopTransfer, approveShopTransfer).
THEOREM OverdraftIsBounded == Spec => []OverdraftIsSent
<1>1. Init => AllWithin
  <2> SUFFICES ASSUME Init, NEW s \in Shops PROVE Within(s)
    BY DEF AllWithin
  <2>1. TypeOK
    BY InitTyped
  <2>2. Parts(s) /\ Out(s) \in Nat
    BY <2>1, BalanceParts, OutIsNatural DEF AllParts, DebtsAreNatural
  <2>3. moved[s] = 0 /\ fees[s] = 0 /\ PressedFor(s) = {} /\ Sold(s) = {}
    BY ConstantsAssumption DEF Init, PressedFor, Sold, NotSold
  <2>4. In(s) \in Nat /\ Back(s) \in Nat
    <3>1. /\ \A t \in Transfers : CreditsOf(s)[t] \in Nat
          /\ \A q \in Requests : ReturnsOf(s)[q] \in Nat
      BY <2>1, RowsAreNaturals
    <3>2. Transfers \in SUBSET Transfers /\ Requests \in SUBSET Requests
      OBVIOUS
    <3> QED
      BY <3>1, <3>2, TablesAssumption, SumMonotone DEF In, Back
  <2>5. Cardinality(PressedFor(s)) = 0 /\ Cardinality(Sold(s)) = 0
    BY <2>3, FS_EmptySet
  <2>6. Available(s) = Opening - Out(s) + In(s) + Back(s)
    <3>1. \A a \in Nat : a * 0 = 0
      OBVIOUS
    <3>2. Deposit * 0 = 0 /\ MonthlyFee * 0 = 0 /\ Price * 0 = 0
      BY <3>1, ConstantsAssumption
    <3>3. Available(s) = Opening + 0 + 0 - 0 - 0 - Out(s) + In(s) + Back(s)
      BY <2>2, <2>3, <2>5, <3>2 DEF Parts
    <3> QED
      BY <2>2, <2>4, <3>3, ConstantsAssumption
  <2> QED
    BY <2>2, <2>4, <2>6, ConstantsAssumption DEF Within
<1>2. Books /\ Books' /\ AllWithin /\ [Next]_vars => AllWithin'
  BY WithinKeeps DEF AllWithin
<1>3. Books /\ AllWithin => OverdraftIsSent
  BY OverdraftIs DEF Books
<1> QED
  BY <1>1, <1>2, <1>3, BooksHold, PTL DEF Spec

-----------------------------------------------------------------------------
(* The profit.                                                             *)

Earned(s) == {x \in Sales : sale[x].shop = s /\ sale[x].earned}

\* Only a sale that was delivered has earned, so that no sale begins anew
\* with a commission to lose.
EarnedWhenDelivered ==
  \A x \in Sales : sale[x].earned => sale[x].state \in {"SUCCESSFUL", "REVERSED"}

Profit == TypeOK /\ EarnedWhenDelivered /\ ProfitIsCovered

\* What a shop has earned it keeps.
LEMMA EarnedGrows ==
  ASSUME Profit, TypeOK', [Next]_vars
  PROVE  EarnedWhenDelivered' /\ \A s \in Shops : Earned(s) \subseteq Earned(s)'
<1>1. TypeOK /\ EarnedWhenDelivered
  BY DEF Profit
<1>2. CASE UNCHANGED sale
  BY <1>1, <1>2 DEF EarnedWhenDelivered, Earned
<1>3. ASSUME NEW x \in Sales, NEW m \in Shops, Sell(x, m)
      PROVE  EarnedWhenDelivered' /\ \A s \in Shops : Earned(s) \subseteq Earned(s)'
  BY <1>1, <1>3 DEF Sell, EarnedWhenDelivered, Earned, TypeOK, SaleRows
<1>4. ASSUME NEW x \in Sales, Fail(x) \/ \E e \in BOOLEAN : Deliver(x, e)
      PROVE  EarnedWhenDelivered' /\ \A s \in Shops : Earned(s) \subseteq Earned(s)'
  <2>1. ~sale[x].earned
    BY <1>1, <1>4 DEF Fail, Deliver, EarnedWhenDelivered
  <2>2. \A y \in Sales : y # x => sale'[y] = sale[y]
    BY <1>1, <1>4 DEF Fail, Deliver, TypeOK
  <2>3. ~sale'[x].earned \/ sale'[x].state = "SUCCESSFUL"
    BY <1>1, <1>4, <2>1 DEF Fail, Deliver, TypeOK, SaleRows
  <2> QED
    BY <1>1, <2>1, <2>2, <2>3 DEF EarnedWhenDelivered, Earned
<1>5. ASSUME NEW q \in Requests, SettleReversal(q)
      PROVE  EarnedWhenDelivered' /\ \A s \in Shops : Earned(s) \subseteq Earned(s)'
  <2>1. sale' = [sale EXCEPT ![request[q].sale].state = "REVERSED"]
    BY <1>5 DEF SettleReversal
  <2>2. \A y \in Sales : /\ sale'[y].earned = sale[y].earned /\ sale'[y].shop = sale[y].shop
                         /\ sale'[y].state \in {sale[y].state, "REVERSED"}
    BY <1>1, <2>1 DEF TypeOK, SaleRows
  <2> QED
    BY <1>1, <2>2 DEF EarnedWhenDelivered, Earned
<1>6. \/ UNCHANGED sale
      \/ \E x \in Sales, m \in Shops : Sell(x, m)
      \/ \E x \in Sales : Fail(x) \/ \E e \in BOOLEAN : Deliver(x, e)
      \/ \E q \in Requests : SettleReversal(q)
  BY DEF Next, Server, Console, Worker, DayEnds, vars, RequestTransfer, PostTransfer, LoseTransfer,
         TransferProfit, DepositTrainingFunds, ReadForReversal, DecideToFile, FileReversal, DropReversal,
       ReportComplaint,
         ApproveTransfer, RefuseTransfer, ApproveReversal, RefuseReversal, LeaveApproved,
         DecideComplaint, ChargeFee
<1> QED
  BY <1>2, <1>3, <1>4, <1>5, <1>6

\* Profit is moved only by a step that finds it there.
LEMMA ProfitMoves ==
  ASSUME TypeOK, [Next]_vars, NEW s \in Shops
  PROVE  \/ moved'[s] = moved[s]
         \/ moved'[s] \in Nat /\ moved'[s] - moved[s] <= ProfitAvailable(s) /\ UNCHANGED sale
<1>1. ASSUME NEW m \in Shops, NEW a \in Amounts, TransferProfit(m, a)
      PROVE  \/ moved'[s] = moved[s]
             \/ moved'[s] \in Nat /\ moved'[s] - moved[s] <= ProfitAvailable(s) /\ UNCHANGED sale
  <2>1. a \in Nat /\ moved[s] \in Nat
    BY ConstantsAssumption DEF TypeOK
  <2>2. CASE m # s
    BY <1>1, <2>2 DEF TransferProfit, TypeOK
  <2>3. CASE m = s
    <3>1. moved'[s] = moved[s] + a /\ a <= ProfitAvailable(s) /\ UNCHANGED sale
      BY <1>1, <2>3 DEF TransferProfit, TypeOK
    <3>2. moved[s] + a \in Nat /\ (moved[s] + a) - moved[s] = a
      BY <2>1
    <3> QED
      BY <3>1, <3>2
  <2> QED
    BY <2>2, <2>3
<1>2. \/ UNCHANGED moved
      \/ \E m \in Shops, a \in Amounts : TransferProfit(m, a)
  BY DEF Next, Server, Console, Worker, DayEnds, vars, books, RequestTransfer, PostTransfer,
         LoseTransfer, DepositTrainingFunds, Sell, ReadForReversal, DecideToFile, FileReversal, DropReversal,
       ReportComplaint,
         ApproveTransfer, RefuseTransfer, ApproveReversal, RefuseReversal, SettleReversal,
         LeaveApproved, DecideComplaint, Fail, Deliver, ChargeFee
<1> QED
  BY <1>1, <1>2

\* A shop moves to its balance no more than its sales have earned, though
\* sales it earned from are reversed afterwards (transferProfit).
THEOREM ProfitIsNeverOverdrawn == Spec => []ProfitIsCovered
<1>1. Init => Profit
  <2> SUFFICES ASSUME Init PROVE Profit
    OBVIOUS
  <2>1. TypeOK /\ EarnedWhenDelivered
    BY InitTyped DEF Init, EarnedWhenDelivered, NotSold
  <2>2. ASSUME NEW s \in Shops PROVE ProfitAvailable(s) >= 0
    <3>1. Earned(s) = {} /\ moved[s] = 0
      BY DEF Init, Earned, NotSold
    <3>2. ProfitAvailable(s) = Share * 0 - 0
      BY <3>1, FS_EmptySet DEF ProfitAvailable, Earned
    <3> QED
      BY <3>2, ConstantsAssumption
  <2> QED
    BY <2>1, <2>2 DEF Profit, ProfitIsCovered
<1>2. Profit /\ TypeOK' /\ [Next]_vars => Profit'
  <2> SUFFICES ASSUME Profit, TypeOK', [Next]_vars PROVE Profit'
    OBVIOUS
  <2>1. TypeOK /\ EarnedWhenDelivered
    BY DEF Profit
  <2>2. EarnedWhenDelivered'
    BY EarnedGrows
  <2>3. ASSUME NEW s \in Shops PROVE ProfitAvailable(s)' >= 0
    <3> DEFINE e  == Share * Cardinality(Earned(s))
               e1 == Share * Cardinality(Earned(s)')
    <3>1. Earned(s) \subseteq Earned(s)' /\ Earned(s) \in SUBSET Sales /\ Earned(s)' \in SUBSET Sales
      BY EarnedGrows DEF Earned
    <3>2. /\ IsFiniteSet(Earned(s)) /\ IsFiniteSet(Earned(s)')
          /\ Cardinality(Earned(s)) <= Cardinality(Earned(s)')
      BY <3>1, TablesAssumption, FS_Subset
    <3>3. Cardinality(Earned(s)) \in Nat /\ Cardinality(Earned(s)') \in Nat
      BY <3>2, FS_CardinalityType
    <3>4. e \in Nat /\ e1 \in Nat /\ e <= e1
      <4>1. \A a, b, c \in Nat : a * b \in Nat /\ (b <= c => a * b <= a * c)
        OBVIOUS
      <4> QED
        BY <3>2, <3>3, <4>1, ConstantsAssumption
    <3>5. ProfitAvailable(s) = e - moved[s] /\ ProfitAvailable(s)' = e1 - moved'[s]
      BY DEF ProfitAvailable, Earned
    <3>6. moved[s] \in Nat /\ ProfitAvailable(s) >= 0
      BY DEF Profit, ProfitIsCovered, TypeOK
    <3> HIDE DEF e, e1
    <3>7. CASE moved'[s] = moved[s]
      BY <3>4, <3>5, <3>6, <3>7
    <3>8. CASE moved'[s] \in Nat /\ moved'[s] - moved[s] <= ProfitAvailable(s)
      BY <3>4, <3>5, <3>6, <3>8
    <3> QED
      BY <2>1, <3>7, <3>8, ProfitMoves
  <2> QED
    BY <2>2, <2>3 DEF Profit, ProfitIsCovered
<1>3. Profit => ProfitIsCovered
  BY DEF Profit
<1> QED
  BY <1>1, <1>2, <1>3, TypeCorrect, PTL DEF Spec
=============================================================================
