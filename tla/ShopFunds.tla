----------------------------- MODULE ShopFunds -----------------------------
(***************************************************************************)
(* What moves a shop's selling balance besides its sales: transfers to     *)
(* another shop, profit moved to the balance, training deposits, reversals *)
(* of settled sales and the monthly fee.                                   *)
(*                                                                         *)
(* Three processes share the ledger.  The merchant server decides and      *)
(* posts transfers, files reversals and complaints; the console approves   *)
(* or refuses; the recovery worker delivers or fails a sale and charges    *)
(* the fee.  A handler of the server or of the console awaits nothing once *)
(* it has its form, so two of one process never interleave, but another    *)
(* process may commit between two of its transactions.                     *)
(*                                                                         *)
(* Balances are not stored: they are sums of postings.  The variables that *)
(* count postings are the ledger, the other variables are rows.            *)
(***************************************************************************)
EXTENDS Integers, FiniteSets, Functions

CONSTANTS
  Shops,
  Sales,
  Transfers,     \* ids of transfer rows
  Requests,      \* ids of reversal requests
  Presses,       \* presses of the training deposit's button
  Opening,       \* what each shop was funded with
  Price, Share,  \* of every sale: its price, the shop's part of the commission
  Deposit,       \* amount of a training deposit
  MonthlyFee,
  MaxFees,       \* bound: months charged per shop
  Amounts,       \* bound: amounts a shop asks to move
  BasisPoints, MaxPerTransfer, MaxPerDay, Threshold,  \* the transfer policy
  LastDay,       \* bound: days on which transfers are asked for
  Verdicts,      \* of a complaint: legitimate, scam, uncertain
  NoShop, NoSale, NoRequest

ASSUME ConstantsAssumption ==
  /\ {Opening, Price, Share, Deposit, MonthlyFee, MaxFees, BasisPoints} \subseteq Nat
  /\ {MaxPerTransfer, MaxPerDay, Threshold} \subseteq Nat
  /\ LastDay \in Nat \ {0}
  /\ Amounts \subseteq Nat \ {0}
  /\ NoShop \notin Shops /\ NoSale \notin Sales /\ NoRequest \notin Requests
  /\ {"NONE", "OPEN"} \cap Verdicts = {}

\* A table holds a number of rows.
ASSUME TablesAssumption ==
  IsFiniteSet(Transfers) /\ IsFiniteSet(Requests) /\ IsFiniteSet(Sales) /\ IsFiniteSet(Presses)

VARIABLES
  day,
  sale,      \* transactions: state, shop, whether its commission was posted
  transfer,  \* shop_transfers
  posted,    \* postings of ADJUSTMENT made for each transfer
  request,   \* reversal_requests
  returned,  \* postings of REVERSAL made for each request
  settling,  \* the request the console has approved and is settling
  moved,     \* profit moved to the balance
  fees,      \* months charged
  pressed,   \* training deposits posted, and for whom
  complaint  \* complaint_reviews.verdict

books == <<posted, returned, moved, fees, pressed>>
vars  == <<day, sale, transfer, request, settling, complaint, books>>

NoTransfer == [status |-> "NONE", from |-> NoShop, to |-> NoShop, amount |-> 0, fee |-> 0, day |-> 0]
NotSold    == [state |-> "NONE", shop |-> NoShop, earned |-> FALSE]
NotFiled   == [status |-> "NONE", sale |-> NoSale]

Init ==
  /\ day       = 1
  /\ sale      = [x \in Sales |-> NotSold]
  /\ transfer  = [t \in Transfers |-> NoTransfer]
  /\ posted    = [t \in Transfers |-> 0]
  /\ request   = [q \in Requests |-> NotFiled]
  /\ returned  = [q \in Requests |-> 0]
  /\ settling  = NoRequest
  /\ moved     = [s \in Shops |-> 0]
  /\ fees      = [s \in Shops |-> 0]
  /\ pressed   = [p \in Presses |-> NoShop]
  /\ complaint = [x \in Sales |-> "NONE"]

-----------------------------------------------------------------------------
(* The balances.                                                           *)

Sold(s)     == {x \in Sales : sale[x].shop = s /\ sale[x].state # "FAILED"}
Sent(s)     == {t \in Transfers : transfer[t].from = s}
Received(s) == {t \in Transfers : transfer[t].to = s}
Asked(s)    == {q \in Requests : request[q].status # "NONE" /\ sale[request[q].sale].shop = s}

\* What a transfer's postings took from its sender and gave its receiver, and
\* what a reversal's gave the shop.
Debits     == [t \in Transfers |-> posted[t] * (transfer[t].amount + transfer[t].fee)]
Credits    == [t \in Transfers |-> posted[t] * transfer[t].amount]
GivenBack  == [q \in Requests |-> returned[q] * Price]

\* balanceFor(s).available, from every posting to MERCHANT_AVAILABLE.  A sale
\* that is pending has its price reserved, one that was delivered debited.
Available(s) ==
  Opening + moved[s] + Deposit * Cardinality({p \in Presses : pressed[p] = s})
    - MonthlyFee * fees[s] - Price * Cardinality(Sold(s))
    - SumFunctionOnSet(Debits, Sent(s)) + SumFunctionOnSet(Credits, Received(s))
    + SumFunctionOnSet(GivenBack, Asked(s))

\* profitAvailableMinor(s), from the shop's postings to TELGA_REVENUE.
ProfitAvailable(s) ==
  Share * Cardinality({x \in Sales : sale[x].shop = s /\ sale[x].earned}) - moved[s]

-----------------------------------------------------------------------------
(* The merchant server.                                                    *)

\* It is in the middle of no handler.
ServerIsFree ==
  /\ \A t \in Transfers : transfer[t].status # "DECIDED"
  /\ \A q \in Requests : request[q].status \notin {"READ", "FILING"}

\* Rounded up.
TransferFeeFor(a) == IF BasisPoints = 0 THEN 0 ELSE (a * BasisPoints + 9999) \div 10000

AmountsSent == [t \in Transfers |-> transfer[t].amount]

\* Mutant: what waits for an approval is not counted.
SentTodayPosted(s) ==
  SumFunctionOnSet(AmountsSent, {t \in Sent(s) : /\ transfer[t].day = day
                                                /\ transfer[t].status = "SETTLED"})

\* What the shop has settled or has waiting, of the rows made today.
SentToday(s) ==
  SumFunctionOnSet(AmountsSent, {t \in Sent(s) : /\ transfer[t].day = day
                                                /\ transfer[t].status \in {"SETTLED", "NEEDS_APPROVAL"}})

\* The limits and the balance, in one read.  Whether both shops are active is
\* an input: it can only add refusals.
DecideTransfer(s, a, active) ==
  IF \/ ~active
     \/ a > MaxPerTransfer
     \/ SentToday(s) + a > MaxPerDay
     \/ a + TransferFeeFor(a) > Available(s)
  THEN "REFUSED"
  ELSE IF a > Threshold THEN "NEEDS_APPROVAL" ELSE "DECIDED"

\* A refusal and a queued transfer are one insertion; an accepted one is
\* posted in a transaction that has not begun.
RequestTransfer(t, s, r, a, active) ==
  LET outcome == DecideTransfer(s, a, active)
  IN /\ ServerIsFree
     /\ transfer[t].status = "NONE"
     /\ r # s
     /\ transfer' = [transfer EXCEPT ![t] =
          [status |-> outcome, from |-> s, to |-> r, amount |-> a,
           fee |-> IF outcome = "REFUSED" THEN 0 ELSE TransferFeeFor(a), day |-> day]]
     /\ UNCHANGED <<day, sale, request, settling, complaint, books>>

\* One transaction: the row and both sides of the posting.
PostTransfer(t) ==
  /\ transfer[t].status = "DECIDED"
  /\ transfer' = [transfer EXCEPT ![t].status = "SETTLED"]
  /\ posted'   = [posted EXCEPT ![t] = @ + 1]
  /\ UNCHANGED <<day, sale, request, settling, complaint, returned, moved, fees, pressed>>

\* It fails, or the server dies before it: nothing was recorded.
LoseTransfer(t) ==
  /\ transfer[t].status = "DECIDED"
  /\ transfer' = [transfer EXCEPT ![t] = NoTransfer]
  /\ UNCHANGED <<day, sale, request, settling, complaint, books>>

\* The profit is read and posted in one transaction.
TransferProfit(s, a) ==
  /\ ServerIsFree
  /\ a <= ProfitAvailable(s)
  /\ moved' = [moved EXCEPT ![s] = @ + a]
  /\ UNCHANGED <<day, sale, transfer, request, settling, complaint, posted, returned, fees, pressed>>

\* The posting is named after the press: one that exists is answered as the
\* credit it already was.
DepositTrainingFunds(p, s) ==
  /\ ServerIsFree
  /\ pressed[p] = NoShop
  /\ pressed' = [pressed EXCEPT ![p] = s]
  /\ UNCHANGED <<day, sale, transfer, request, settling, complaint, posted, returned, moved, fees>>

\* A sale holds its price.
Sell(x, s) ==
  /\ ServerIsFree
  /\ sale[x].state = "NONE"
  /\ Price <= Available(s)
  /\ sale' = [sale EXCEPT ![x] = [state |-> "PENDING", shop |-> s, earned |-> FALSE]]
  /\ UNCHANGED <<day, transfer, request, settling, complaint, books>>

Open == {"NEEDS_APPROVAL", "APPROVED"}

\* The sale is read, and refused if it failed or is reversed.  The redemption is
\* UNKNOWN, so a person always decides.
ReadForReversal(q, x) ==
  /\ ServerIsFree
  /\ request[q].status = "NONE"
  /\ sale[x].state \in {"PENDING", "SUCCESSFUL"}
  /\ request' = [request EXCEPT ![q] = [status |-> "READ", sale |-> x]]
  /\ UNCHANGED <<day, sale, transfer, settling, complaint, books>>

\* No request for the sale is open: what the lookup, and later the partial
\* unique index, looks for.
NoneOpen(x) ==
  ~\E other \in Requests : request[other].sale = x /\ request[other].status \in Open

\* The open requests are looked up by a statement of its own, and the sale is not
\* looked at again: the console may have settled an older request in between.
DecideToFile(q) ==
  /\ request[q].status = "READ"
  /\ NoneOpen(request[q].sale)
  /\ request' = [request EXCEPT ![q].status = "FILING"]
  /\ UNCHANGED <<day, sale, transfer, settling, complaint, books>>

\* The insertion.
FileReversal(q) ==
  /\ request[q].status = "FILING"
  /\ NoneOpen(request[q].sale)
  /\ request' = [request EXCEPT ![q].status = "NEEDS_APPROVAL"]
  /\ UNCHANGED <<day, sale, transfer, settling, complaint, books>>

\* Nothing is filed: a request is open, the insertion fails or the server dies.
DropReversal(q) ==
  /\ request[q].status \in {"READ", "FILING"}
  /\ request' = [request EXCEPT ![q] = NotFiled]
  /\ UNCHANGED <<day, sale, transfer, settling, complaint, books>>

\* The shop reports a sale, once.
ReportComplaint(x) ==
  /\ ServerIsFree
  /\ sale[x].state # "NONE"
  /\ complaint[x] = "NONE"
  /\ complaint' = [complaint EXCEPT ![x] = "OPEN"]
  /\ UNCHANGED <<day, sale, transfer, request, settling, books>>

-----------------------------------------------------------------------------
(* The console.                                                            *)

\* The claim is the lock: UPDATE ... WHERE status = 'NEEDS_APPROVAL', then the
\* posting.  The balance is not looked at again.
ApproveTransfer(t) ==
  /\ settling = NoRequest
  /\ transfer[t].status = "NEEDS_APPROVAL"
  /\ transfer' = [transfer EXCEPT ![t].status = "SETTLED"]
  /\ posted'   = [posted EXCEPT ![t] = @ + 1]
  /\ UNCHANGED <<day, sale, request, settling, complaint, returned, moved, fees, pressed>>

RefuseTransfer(t) ==
  /\ settling = NoRequest
  /\ transfer[t].status = "NEEDS_APPROVAL"
  /\ transfer' = [transfer EXCEPT ![t].status = "REFUSED"]
  /\ UNCHANGED <<day, sale, request, settling, complaint, books>>

\* UPDATE ... WHERE status IN ('REQUESTED', 'NEEDS_APPROVAL').
Undecided(q) == request[q].status = "NEEDS_APPROVAL"

\* The decision commits before anything is posted.
ApproveReversal(q) ==
  /\ settling = NoRequest
  /\ Undecided(q)
  /\ request'  = [request EXCEPT ![q].status = "APPROVED"]
  /\ settling' = q
  /\ UNCHANGED <<day, sale, transfer, complaint, books>>

RefuseReversal(q) ==
  /\ settling = NoRequest
  /\ Undecided(q)
  /\ request' = [request EXCEPT ![q].status = "REFUSED"]
  /\ UNCHANGED <<day, sale, transfer, settling, complaint, books>>

\* Mutant: the console trusts the state the request was filed in.
CanBeSettledAsFiled(q) == TRUE

\* The sale as the console reads it, after the decision.
CanBeSettled(q) == sale[request[q].sale].state = "SUCCESSFUL"

\* One transaction: the credit, the sale's state and the request's.
SettleReversal(q) ==
  /\ settling = q
  /\ CanBeSettled(q)
  /\ returned' = [returned EXCEPT ![q] = @ + 1]
  /\ sale'     = [sale EXCEPT ![request[q].sale].state = "REVERSED"]
  /\ request'  = [request EXCEPT ![q].status = "SETTLED"]
  /\ settling' = NoRequest
  /\ UNCHANGED <<day, transfer, complaint, posted, moved, fees, pressed>>

\* Mutant: the credit is outside the transaction that rolls back.
LeaveCredited(q) ==
  /\ settling = q
  /\ returned' = [returned EXCEPT ![q] = @ + 1]
  /\ settling' = NoRequest
  /\ UNCHANGED <<day, sale, transfer, request, complaint, posted, moved, fees, pressed>>

\* The sale is not SUCCESSFUL, the transaction rolled back or the console
\* died: the request stays APPROVED.
LeaveApproved(q) ==
  /\ settling = q
  /\ settling' = NoRequest
  /\ UNCHANGED <<day, sale, transfer, request, complaint, books>>

\* WHERE verdict IS NULL.  A verdict moves nothing.
DecideComplaint(x, verdict) ==
  /\ settling = NoRequest
  /\ complaint[x] = "OPEN"
  /\ complaint' = [complaint EXCEPT ![x] = verdict]
  /\ UNCHANGED <<day, sale, transfer, request, settling, books>>

-----------------------------------------------------------------------------
(* The recovery worker, and midnight.                                      *)

\* The commission is posted by the request that delivered the sale; a sale the
\* worker recovers has none.
Deliver(x, earned) ==
  /\ sale[x].state = "PENDING"
  /\ sale' = [sale EXCEPT ![x].state = "SUCCESSFUL", ![x].earned = earned]
  /\ UNCHANGED <<day, transfer, request, settling, complaint, books>>

Fail(x) ==
  /\ sale[x].state = "PENDING"
  /\ sale' = [sale EXCEPT ![x].state = "FAILED"]
  /\ UNCHANGED <<day, transfer, request, settling, complaint, books>>

\* Mutant: the fee is taken from a balance nobody looked at.
ChargeFeeBlindly(s) ==
  /\ fees[s] < MaxFees
  /\ fees' = [fees EXCEPT ![s] = @ + 1]
  /\ UNCHANGED <<day, sale, transfer, request, settling, complaint, posted, returned, moved, pressed>>

ChargeFee(s) ==
  /\ fees[s] < MaxFees
  /\ MonthlyFee <= Available(s)
  /\ fees' = [fees EXCEPT ![s] = @ + 1]
  /\ UNCHANGED <<day, sale, transfer, request, settling, complaint, posted, returned, moved, pressed>>

DayEnds ==
  /\ day < LastDay
  /\ ServerIsFree
  /\ day' = day + 1
  /\ UNCHANGED <<sale, transfer, request, settling, complaint, books>>

-----------------------------------------------------------------------------
Server ==
  \/ \E t \in Transfers, s, r \in Shops, a \in Amounts, active \in BOOLEAN :
       RequestTransfer(t, s, r, a, active)
  \/ \E t \in Transfers : PostTransfer(t) \/ LoseTransfer(t)
  \/ \E s \in Shops, a \in Amounts : TransferProfit(s, a)
  \/ \E p \in Presses, s \in Shops : DepositTrainingFunds(p, s)
  \/ \E x \in Sales, s \in Shops : Sell(x, s)
  \/ \E q \in Requests : \/ DecideToFile(q) \/ FileReversal(q) \/ DropReversal(q)
                         \/ \E x \in Sales : ReadForReversal(q, x)
  \/ \E x \in Sales : ReportComplaint(x)

Console ==
  \/ \E t \in Transfers : ApproveTransfer(t) \/ RefuseTransfer(t)
  \/ \E q \in Requests : \/ ApproveReversal(q) \/ RefuseReversal(q)
                         \/ SettleReversal(q) \/ LeaveApproved(q)
  \/ \E x \in Sales, verdict \in Verdicts : DecideComplaint(x, verdict)

Worker ==
  \/ \E x \in Sales : Fail(x) \/ \E earned \in BOOLEAN : Deliver(x, earned)
  \/ \E s \in Shops : ChargeFee(s)

Next == Server \/ Console \/ Worker \/ DayEnds

Spec == Init /\ [][Next]_vars

-----------------------------------------------------------------------------
(* Properties.                                                             *)

SaleRows     == [state : {"NONE", "PENDING", "SUCCESSFUL", "FAILED", "REVERSED"},
                 shop : Shops \cup {NoShop}, earned : BOOLEAN]
TransferRows == [status : {"NONE", "DECIDED", "NEEDS_APPROVAL", "SETTLED", "REFUSED"},
                 from : Shops \cup {NoShop}, to : Shops \cup {NoShop},
                 amount : Nat, fee : Nat, day : 0..LastDay]
RequestRows  == [status : {"NONE", "READ", "FILING", "NEEDS_APPROVAL", "APPROVED", "REFUSED", "SETTLED"},
                 sale : Sales \cup {NoSale}]

\* Every row has a value of its table's kind, and every count of postings is a
\* number within its bound.
TypeOK ==
  /\ day \in 1..LastDay
  /\ sale \in [Sales -> SaleRows]
  /\ transfer \in [Transfers -> TransferRows]
  /\ posted \in [Transfers -> Nat]
  /\ request \in [Requests -> RequestRows]
  /\ returned \in [Requests -> Nat]
  /\ settling \in Requests \cup {NoRequest}
  /\ moved \in [Shops -> Nat]
  /\ fees \in [Shops -> 0..MaxFees]
  /\ pressed \in [Presses -> Shops \cup {NoShop}]
  /\ complaint \in [Sales -> {"NONE", "OPEN"} \cup Verdicts]

\* The ledger and the rows agree: a transfer has moved once if its row says
\* SETTLED and not at all if it does not, and so has a reversal, whoever
\* decided and whatever failed on the way (settleShopTransfer, the console's
\* approvals).
RowsMatchLedger ==
  /\ \A t \in Transfers : posted[t] = IF transfer[t].status = "SETTLED" THEN 1 ELSE 0
  /\ \A q \in Requests : returned[q] = IF request[q].status = "SETTLED" THEN 1 ELSE 0

\* A sale is given back once: it reads REVERSED exactly when one request for it
\* is SETTLED.  A request may still be filed and approved behind that one, for a
\* sale that was read as SUCCESSFUL before the console settled it: what stops a
\* second credit is the console's own look at the sale (POST
\* /reversals/:id/approve).
ReversedOnce ==
  \A x \in Sales :
    /\ sale[x].state = "REVERSED"
         <=> \E q \in Requests : request[q].sale = x /\ request[q].status = "SETTLED"
    /\ \A q, other \in Requests :
         /\ request[q].sale = x /\ request[q].status = "SETTLED"
         /\ request[other].sale = x /\ request[other].status = "SETTLED"
         => q = other

\* What a shop sends in a day, with what it has waiting for an approval,
\* stays within the daily limit.
DailyLimit ==
  \A s \in Shops, d \in 1..LastDay :
    LET counted == {t \in Sent(s) : /\ transfer[t].day = d
                                    /\ transfer[t].status \notin {"NONE", "REFUSED"}}
    IN SumFunctionOnSet(AmountsSent, counted) <= MaxPerDay

\* A step that takes from a shop's balance leaves it covered, or posts a
\* transfer: sales, fees and transfers being decided look at the balance in the
\* transaction that takes from it, a transfer is posted on a balance that was
\* looked at before (createSale, chargeMonthlyFee, decideTransfer).
SpendingIsCovered ==
  [][\A s \in Shops :
       \/ Available(s)' >= 0
       \/ Available(s)' >= Available(s)
       \/ \E t \in Transfers : transfer[t].from = s /\ posted'[t] > posted[t]]_vars

\* A transfer that is posted takes its amount and its fee from the sender and
\* gives its amount to the receiver, and no shop gains or loses anything else
\* in that step (postShopTransfer).
TransferIsExact ==
  [][\A t \in Transfers, s \in Shops :
       posted'[t] # posted[t] =>
         Available(s)' = Available(s)
           - (IF transfer[t].from = s THEN transfer[t].amount + transfer[t].fee ELSE 0)
           + (IF transfer[t].to = s THEN transfer[t].amount ELSE 0)]_vars

\* A shop is never further below zero than it has sent to other shops, so one
\* that never sent anything is never below zero.
OverdraftIsSent ==
  \A s \in Shops : Available(s) + SumFunctionOnSet(Debits, Sent(s)) >= 0

\* No more profit is moved to the balance than settled sales have earned, and a
\* reversal takes none of it away (transferProfit).
ProfitIsCovered == \A s \in Shops : ProfitAvailable(s) >= 0

\* What was decided stays decided.  A transfer or a request that is refused or
\* settled never changes, an approved request can only be settled, a verdict
\* stands, and a sale that failed, so that its price was released, is not
\* reversed as well (decideReversalRequest, approveShopTransfer,
\* recordComplaintVerdict, the console's second look at the sale).
DecisionIsFinal ==
  [][/\ \A t \in Transfers : transfer[t].status \in {"REFUSED", "SETTLED"}
                              => transfer'[t] = transfer[t]
     /\ \A q \in Requests :
          /\ request[q].status \in {"REFUSED", "SETTLED"} => request'[q] = request[q]
          /\ request[q].status = "APPROVED" => request'[q].status \in {"APPROVED", "SETTLED"}
     /\ \A x \in Sales :
          /\ complaint[x] \in Verdicts => complaint'[x] = complaint[x]
          /\ sale[x].state \in {"FAILED", "REVERSED"} => sale'[x] = sale[x]]_vars

\* What decideTransfer promises: no transfer takes a shop below nothing.
NoOverdraft == \A s \in Shops : Available(s) >= 0

\* What the console promises of an approval: a shop told "approved" is not
\* left with a delivered sale and a balance that never moves.
ApprovedIsSettled ==
  \A q \in Requests :
    request[q].status = "APPROVED" /\ settling # q => sale[request[q].sale].state # "SUCCESSFUL"
=============================================================================
