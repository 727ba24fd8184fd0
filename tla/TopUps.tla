------------------------------- MODULE TopUps -------------------------------
(***************************************************************************)
(* How value comes in: top-up orders, payments at a bank counter that an   *)
(* operations desk records and approves, and payments at a gateway whose   *)
(* webhook settles them.                                                   *)
(*                                                                         *)
(* The merchant server opens, cancels and settles orders; the console      *)
(* records and approves deposits.  A synchronous handler is one step; the  *)
(* two gateway calls are awaited, so a handler that makes one is a step    *)
(* before it and a step after it, and everything else may run in between.  *)
(* Whether the shop is active and the amount within its limits decides     *)
(* only if an order is opened: both are inputs.                            *)
(***************************************************************************)
EXTENDS Integers, FiniteSets

CONSTANTS
  Orders,     \* ids of top-up orders, numbered in the order they are made
  Shops,
  Banks,      \* payments that reached the bank account, named by the bank
  Large,      \* those of them above the cap for crediting without approval
  Admins,
  Hooks,      \* webhook requests the server can be working on at once
  MaxRows,    \* bound: deposits the desk records
  MaxCrashes, \* bound: times the merchant server dies
  NoShop, NoAdmin

ASSUME ConstantsAssumption ==
  /\ Orders \subseteq Nat
  /\ Large \subseteq Banks
  /\ MaxRows \in Nat
  /\ MaxCrashes \in Nat
  /\ NoShop \notin Shops
  /\ NoAdmin \notin Admins

\* What a depositor quotes: the printed reference of an order, the shop's own
\* standing code, or something that resolves to nobody.
Reference(o) == <<"order", o>>
Quotes       == {Reference(o) : o \in Orders} \cup Shops \cup {NoShop}

\* One real payment each, by what the gateway or the bank calls it.
GatewayPayment(o) == <<"gateway", o>>
Payments == {GatewayPayment(o) : o \in Orders} \cup Banks

\* The bank names its payments in a way of its own.
ASSUME NamesAreApart ==
  \A o \in Orders : Reference(o) \notin Banks /\ GatewayPayment(o) \notin Banks

DeskRow(n)    == <<"desk", n>>
SettledRow(o) == <<"settled", o>>
DeskRows == {DeskRow(n) : n \in 1..MaxRows}
Rows     == DeskRows \cup {SettledRow(o) : o \in Orders}
NoRow    == <<"none", 0>>

Methods  == {"BANK_COUNTER", "CHAPA"}
\* A payment in full, or one that failed or was for another amount.
Outcomes == {"failed", "paid"}
Checkout == {"none", "asked", "open"} \cup Outcomes

OrderStatus == {"NONE", "OPEN", "PAID", "CANCELLED"}

VARIABLES
  order,    \* topup_orders
  gateway,  \* the checkout of each order, as the gateway has it
  owed,     \* events the gateway delivers until they are acknowledged
  hook,     \* webhook requests in progress
  row,      \* funding_submissions
  credits,  \* FUNDING_CREDIT postings made for each payment
  crashes

vars == <<order, gateway, owed, hook, row, credits, crashes>>

NoOrder == [status |-> "NONE", method |-> "CHAPA", shop |-> NoShop,
            live |-> FALSE, paidBy |-> NoRow]
NoDeposit == [status |-> "NONE", payment |-> NoShop, quoted |-> NoShop,
              shop |-> NoShop, by |-> NoAdmin, approver |-> NoAdmin]
Idle == [at |-> "idle", order |-> 0, event |-> "none", saw |-> "NONE", answer |-> "none"]

Init ==
  /\ order   = [o \in Orders |-> NoOrder]
  /\ gateway = [o \in Orders |-> "none"]
  /\ owed    = {}
  /\ hook    = [h \in Hooks |-> Idle]
  /\ row     = [r \in Rows |-> NoDeposit]
  /\ credits = [p \in Payments |-> 0]
  /\ crashes = 0

-----------------------------------------------------------------------------
(* Orders, in the merchant server.                                         *)

Exists(o) == order[o].status # "NONE"

\* The id of the next row: rows are numbered as they are inserted.
IsNext(o) == ~Exists(o) /\ \A other \in Orders : other < o => Exists(other)

\* OPEN and inside its window.
IsLive(o) == order[o].status = "OPEN" /\ order[o].live

HasOpenOrder(s, m) == \E o \in Orders : IsLive(o) /\ order[o].shop = s /\ order[o].method = m

Opened(s, m) == [status |-> "OPEN", method |-> m, shop |-> s, live |-> TRUE, paidBy |-> NoRow]

\* A bank slip: decided and saved without an await.
OrderBankDeposit(o, s) ==
  /\ IsNext(o)
  /\ ~HasOpenOrder(s, "BANK_COUNTER")
  /\ order' = [order EXCEPT ![o] = Opened(s, "BANK_COUNTER")]
  /\ UNCHANGED <<gateway, owed, hook, row, credits, crashes>>

\* A gateway payment: the order is saved, then the gateway is asked.
StartChapaDeposit(o, s) ==
  /\ IsNext(o)
  /\ ~HasOpenOrder(s, "CHAPA")
  /\ order'   = [order EXCEPT ![o] = Opened(s, "CHAPA")]
  /\ gateway' = [gateway EXCEPT ![o] = "asked"]
  /\ UNCHANGED <<owed, hook, row, credits, crashes>>

\* The gateway agreed: the shop has the address of a checkout it can pay.
ChapaStarted(o) ==
  /\ gateway[o] = "asked"
  /\ gateway' = [gateway EXCEPT ![o] = "open"]
  /\ UNCHANGED <<order, owed, hook, row, credits, crashes>>

\* Mutant: the update does not look at the status it replaces.
CancelledAnyway(o) == [order EXCEPT ![o].status = "CANCELLED"]

\* UPDATE ... WHERE status = 'OPEN'.
Cancelled(o) ==
  IF order[o].status = "OPEN" THEN [order EXCEPT ![o].status = "CANCELLED"] ELSE order

\* It refused, or its answer was lost: nobody holds the address.
ChapaUnavailable(o) ==
  /\ gateway[o] = "asked"
  /\ gateway' = [gateway EXCEPT ![o] = "none"]
  /\ order'   = Cancelled(o)
  /\ UNCHANGED <<owed, hook, row, credits, crashes>>

\* The newest live order of the shop, whatever its method.
Newest(o, s) ==
  /\ IsLive(o)
  /\ order[o].shop = s
  /\ \A other \in Orders : IsLive(other) /\ order[other].shop = s => other <= o

CancelBankDeposit(o, s) ==
  /\ Newest(o, s)
  /\ order' = Cancelled(o)
  /\ UNCHANGED <<gateway, owed, hook, row, credits, crashes>>

\* The window passes.  The row keeps its status: no server runs the sweep.
WindowPasses(o) ==
  /\ IsLive(o)
  /\ order' = [order EXCEPT ![o].live = FALSE]
  /\ UNCHANGED <<gateway, owed, hook, row, credits, crashes>>

-----------------------------------------------------------------------------
(* The gateway.  A checkout that failed may be tried again; each outcome   *)
(* is an event, delivered until it is acknowledged and perhaps again.      *)

Outcome(o, e) ==
  /\ gateway[o] \in {"open", "failed"}
  /\ e # gateway[o]
  /\ gateway' = [gateway EXCEPT ![o] = e]
  /\ owed'    = owed \cup {<<o, e>>}
  /\ UNCHANGED <<order, hook, row, credits, crashes>>

Deliverable(o, e) == <<o, e>> \in owed \/ gateway[o] = e

-----------------------------------------------------------------------------
(* The webhook.                                                            *)

\* The order is read before the gateway is asked.
ReceiveWebhook(h, o, e) ==
  /\ hook[h].at = "idle"
  /\ Deliverable(o, e)
  /\ hook' = [hook EXCEPT ![h] = [at |-> "asking", order |-> o, event |-> e,
                                   saw |-> order[o].status, answer |-> "none"]]
  /\ UNCHANGED <<order, gateway, owed, row, credits, crashes>>

\* What the gateway has on record when it is asked.
Verified(h, o) ==
  /\ hook[h].at = "asking"
  /\ hook[h].order = o
  /\ hook' = [hook EXCEPT ![h].at = "answered", ![h].answer = gateway[o]]
  /\ UNCHANGED <<order, gateway, owed, row, credits, crashes>>

\* Mutant: every request is answered 200.
ReplyAlways(h, acknowledged) ==
  /\ hook' = [hook EXCEPT ![h] = Idle]
  /\ owed' = owed \ {<<hook[h].order, hook[h].event>>}

\* The request ends.  200 acknowledges the event; 503, and a request that
\* throws, leave it to be delivered again.
Reply(h, acknowledged) ==
  /\ hook' = [hook EXCEPT ![h] = Idle]
  /\ owed' = IF acknowledged THEN owed \ {<<hook[h].order, hook[h].event>>} ELSE owed

Unreachable(h) ==
  /\ hook[h].at = "asking"
  /\ Reply(h, FALSE)
  /\ UNCHANGED <<order, gateway, row, credits, crashes>>

\* Mutant: the status of the payment is not looked at.
DecidesOnTheOrder(h) == hook[h].saw = "OPEN"

\* CREDIT: the gateway says SUCCESS for the amount ordered, and the order was
\* open when it was read.
DecidesToCredit(h) == hook[h].answer = "paid" /\ hook[h].saw = "OPEN"

RefuseChapa(h) ==
  /\ hook[h].at = "answered"
  /\ ~DecidesToCredit(h)
  /\ Reply(h, TRUE)
  /\ UNCHANGED <<order, gateway, row, credits, crashes>>

\* Mutant: the order that was read is taken for the order as it is.
ClaimedUnseen(o) == Exists(o)

\* The claim: UPDATE ... SET status = 'PAID' WHERE status = 'OPEN'.
Claimed(o) == order[o].status = "OPEN"

\* Another request answered the order while this one was asking.
LoseClaim(h) ==
  /\ hook[h].at = "answered"
  /\ DecidesToCredit(h)
  /\ ~Claimed(hook[h].order)
  /\ Reply(h, TRUE)
  /\ UNCHANGED <<order, gateway, row, credits, crashes>>

IsCredited(r) == row[r].status = "CREDITED"

\* Mutant: the index covers the rows a person recorded.
IndexAllowsDesk(p) == \A r \in DeskRows : IsCredited(r) => row[r].payment # p

\* The partial unique index: one CREDITED row for one bank_reference.
IndexAllows(p) == \A r \in Rows : IsCredited(r) => row[r].payment # p

\* One transaction: the claim, the posting, the submission and the link.
SettleChapaDeposit(h) ==
  LET o == hook[h].order
      p == GatewayPayment(o)
  IN /\ hook[h].at = "answered"
     /\ DecidesToCredit(h)
     /\ Claimed(o)
     /\ IndexAllows(p)
     /\ order' = [order EXCEPT ![o].status = "PAID", ![o].paidBy = SettledRow(o)]
     /\ row' = [row EXCEPT ![SettledRow(o)] =
                  [status |-> "CREDITED", payment |-> p, quoted |-> Reference(o),
                   shop |-> order[o].shop, by |-> NoAdmin, approver |-> NoAdmin]]
     /\ credits' = [credits EXCEPT ![p] = @ + 1]
     /\ Reply(h, TRUE)
     /\ UNCHANGED <<gateway, crashes>>

\* The desk has credited this payment by its reference: the insertion fails,
\* the transaction rolls back and the request throws.
SettlementThrows(h) ==
  /\ hook[h].at = "answered"
  /\ DecidesToCredit(h)
  /\ Claimed(hook[h].order)
  /\ ~IndexAllows(GatewayPayment(hook[h].order))
  /\ Reply(h, FALSE)
  /\ UNCHANGED <<order, gateway, row, credits, crashes>>

\* The server dies.  Its requests are gone; a checkout that was being started
\* has an address nobody received.
Crash ==
  /\ crashes < MaxCrashes
  /\ crashes' = crashes + 1
  /\ hook'    = [h \in Hooks |-> Idle]
  /\ gateway' = [o \in Orders |-> IF gateway[o] = "asked" THEN "none" ELSE gateway[o]]
  /\ UNCHANGED <<order, owed, row, credits>>

-----------------------------------------------------------------------------
(* The operations desk.                                                    *)

\* Whose reference is this?  A printed order first, then the shop's own code.
MerchantForReference(q) ==
  IF \E o \in Orders : q = Reference(o) /\ Exists(o)
  THEN order[CHOOSE o \in Orders : q = Reference(o)].shop
  ELSE IF q \in Shops THEN q ELSE NoShop

\* found: the operator saw the payment in the account shops pay into.
StatusAfterVerification(p, q, found) ==
  IF MerchantForReference(q) = NoShop THEN "MANUAL_REVIEW"
  ELSE IF ~IndexAllows(p) THEN "DUPLICATE"
  ELSE IF ~found THEN "REJECTED"
  ELSE IF p \in Large THEN "MATCHED"
  ELSE "CREDITED"

\* UPDATE ... WHERE reference = ? AND status = 'OPEN'.
MarkPaid(reference, r) ==
  [o \in Orders |->
     IF Reference(o) = reference /\ order[o].status = "OPEN"
     THEN [order[o] EXCEPT !.status = "PAID", !.paidBy = r]
     ELSE order[o]]

\* Money the desk can find: any bank payment, and what a checkout took.
Arrived(p) == p \in Banks \/ \E o \in Orders : p = GatewayPayment(o) /\ gateway[o] = "paid"

NextRow(n) == row[DeskRow(n)].status = "NONE" /\ \A m \in 1..(n - 1) : row[DeskRow(m)].status # "NONE"

\* A row that is rejected, a duplicate or left for manual review is kept as
\* "REFUSED" alone: no code reads it again.
RecordDeposit(n, a, p, q, found) ==
  LET r == DeskRow(n)
      status == StatusAfterVerification(p, q, found)
  IN /\ NextRow(n)
     /\ found => Arrived(p)
     /\ row' = [row EXCEPT ![r] =
                  IF status \in {"MATCHED", "CREDITED"}
                  THEN [status |-> status, payment |-> p, quoted |-> q,
                        shop |-> MerchantForReference(q), by |-> a, approver |-> NoAdmin]
                  ELSE [NoDeposit EXCEPT !.status = "REFUSED"]]
     /\ IF status = "CREDITED"
        THEN /\ credits' = [credits EXCEPT ![p] = @ + 1]
             /\ order'   = MarkPaid(q, r)
        ELSE UNCHANGED <<credits, order>>
     /\ UNCHANGED <<gateway, owed, hook, crashes>>

\* The second approval.  The order it closes is looked up by bank_reference.
ApproveDeposit(r, a) ==
  /\ row[r].status = "MATCHED"
  /\ row[r].by # a
  /\ IndexAllows(row[r].payment)
  /\ credits' = [credits EXCEPT ![row[r].payment] = @ + 1]
  /\ row'     = [row EXCEPT ![r].status = "CREDITED", ![r].approver = a]
  /\ order'   = MarkPaid(row[r].payment, r)
  /\ UNCHANGED <<gateway, owed, hook, crashes>>

-----------------------------------------------------------------------------
Next ==
  \/ \E o \in Orders, s \in Shops :
       OrderBankDeposit(o, s) \/ StartChapaDeposit(o, s) \/ CancelBankDeposit(o, s)
  \/ \E o \in Orders : ChapaStarted(o) \/ ChapaUnavailable(o) \/ WindowPasses(o)
  \/ \E o \in Orders, e \in Outcomes : Outcome(o, e)
  \/ \E h \in Hooks, o \in Orders : Verified(h, o) \/ \E e \in Outcomes : ReceiveWebhook(h, o, e)
  \/ \E h \in Hooks : \/ Unreachable(h) \/ RefuseChapa(h) \/ LoseClaim(h)
                      \/ SettleChapaDeposit(h) \/ SettlementThrows(h)
  \/ \E n \in 1..MaxRows, a \in Admins, p \in Payments, q \in Quotes, found \in BOOLEAN :
       RecordDeposit(n, a, p, q, found)
  \/ \E r \in DeskRows, a \in Admins : ApproveDeposit(r, a)
  \/ Crash

Spec == Init /\ [][Next]_vars

\* The server works a request to its end, and takes a request it is sent.
Finish(h) == RefuseChapa(h) \/ LoseClaim(h) \/ SettleChapaDeposit(h) \/ SettlementThrows(h)

\* The gateway delivers again whatever was not acknowledged, and it does not
\* stay out of reach of every request about one order.
Fairness ==
  /\ \A h \in Hooks : WF_vars(Finish(h)) /\ WF_vars(Unreachable(h) \/ \E o \in Orders : Verified(h, o))
  /\ \A h \in Hooks, o \in Orders : SF_vars(Verified(h, o))
  /\ \A o \in Orders : SF_vars(<<o, "paid">> \in owed /\ \E h \in Hooks : ReceiveWebhook(h, o, "paid"))

FairSpec == Spec /\ Fairness

-----------------------------------------------------------------------------
(* Properties.                                                             *)

OrderRows == [status : OrderStatus, method : Methods, shop : Shops \cup {NoShop},
              live : BOOLEAN, paidBy : Rows \cup {NoRow}]
Requests  == [at : {"asking", "answered"}, order : Orders, event : Outcomes,
              saw : OrderStatus, answer : Checkout]
Deposits  == [status : {"NONE", "MATCHED", "CREDITED", "REFUSED"},
              payment : Payments \cup {NoShop}, quoted : Quotes,
              shop : Shops \cup {NoShop}, by : Admins \cup {NoAdmin},
              approver : Admins \cup {NoAdmin}]

\* Orders, submissions, checkouts and requests have values of their kinds.
TypeOK ==
  /\ order \in [Orders -> OrderRows]
  /\ gateway \in [Orders -> Checkout]
  /\ owed \subseteq Orders \X Outcomes
  /\ hook \in [Hooks -> {Idle} \cup Requests]
  /\ row \in [Rows -> Deposits]
  /\ credits \in [Payments -> Nat]
  /\ crashes \in 0..MaxCrashes

\* No real payment is credited twice: not by two deliveries of one webhook,
\* not by a webhook and a desk that recorded the same payment while the
\* gateway was being asked, not by two rows recorded for one bank reference
\* and both approved (settleChapaDeposit, recordDeposit, POST
\* /deposits/:id/approve).
CreditedOnce == \A p \in Payments : credits[p] <= 1

\* An order reads PAID exactly when it names a submission, that submission is
\* CREDITED for the same shop, and its payment reached the ledger: the three
\* writes of a settlement, and the desk's, do not come apart.
PaidIsBacked ==
  \A o \in Orders :
    LET r == order[o].paidBy
    IN /\ order[o].status = "PAID" <=> r # NoRow
       /\ r # NoRow => /\ row[r].status = "CREDITED"
                       /\ row[r].shop = order[o].shop
                       /\ credits[row[r].payment] = 1

\* Nothing is credited from the gateway that the gateway has not been paid,
\* in full: a webhook's word, a failed or a short payment move no value.
NothingForNothing ==
  \A o \in Orders : credits[GatewayPayment(o)] > 0 => gateway[o] = "paid"

\* The submission that answered an order is never replaced by another: a
\* second payment quoting the slip, or a late webhook, leaves it (the WHERE
\* clauses of markTopupOrderPaid and linkTopupOrderSubmission).
AnswerIsFinal ==
  [][\A o \in Orders : order[o].paidBy # NoRow => order'[o].paidBy = order[o].paidBy]_vars

\* A payment the gateway took is credited, though requests fail to reach the
\* gateway, the server dies and events come twice, unless something else
\* answered the order first (its cancellation, another payment).
PaymentIsCredited ==
  \A o \in Orders :
    gateway[o] = "paid" ~> (credits[GatewayPayment(o)] = 1 \/ order[o].status # "OPEN")

\* What the console's approval promises: a credited deposit that quoted a
\* slip has closed it.
SlipIsClosed ==
  \A r \in Rows, o \in Orders :
    IsCredited(r) /\ row[r].quoted = Reference(o) => order[o].status # "OPEN"

\* What cancelBankDeposit promises: an order that was paid is not cancelled.
PaidIsNotCancelled ==
  [][\A o \in Orders :
       order[o].status = "OPEN" /\ order'[o].status = "CANCELLED" => gateway[o] # "paid"]_vars
=============================================================================
