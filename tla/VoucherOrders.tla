--------------------------- MODULE VoucherOrders ---------------------------
(***************************************************************************)
(* A voucher order from the amount screen to the PIN, and the other two    *)
(* things an operator's PIN is asked for: unlocking the till and changing  *)
(* the PIN.                                                                *)
(*                                                                         *)
(* A request of the server runs alone between two awaits.  It awaits the   *)
(* derivation of a secret and each sale of the batch, and there the other  *)
(* requests go on: what it read before is old when it goes on.  A request  *)
(* may also end at an await: its sale threw, or the server stopped.        *)
(*                                                                         *)
(* One operator's orders on one till; those of another session are not     *)
(* found by any of these operations.  A sale is what SaleLifecycle models; *)
(* here it holds the price of a voucher, once for each request id, or is   *)
(* refused.                                                                *)
(***************************************************************************)
EXTENDS Integers, FiniteSets, Functions

CONSTANTS
  Orders,
  Handlers,      \* bound: requests served at once
  Pins,
  MaxQuantity,   \* QUANTITY_LIMITS.max
  Opening,       \* vouchers the shop's balance pays for
  MaxFailed,     \* policy.maxFailedAttempts
  MaxAttempts,   \* policy.maxAttemptsPerWindow
  Window,        \* policy.lockoutMs, in ticks
  RateWindow,    \* policy.rateWindowMs, in ticks
  Expiry,        \* PENDING_ORDER_EXPIRY_MS, in ticks
  LastTick,      \* bound: the clock
  MaxTries,      \* bound: PINs entered
  NoOrder, NoPin

ASSUME ConstantsAssumption ==
  /\ {Opening, MaxFailed, MaxAttempts, Window, RateWindow, Expiry} \subseteq Nat
  /\ {LastTick, MaxTries} \subseteq Nat
  /\ MaxQuantity \in Nat \ {0}
  /\ NoOrder \notin Orders /\ NoPin \notin Pins

\* The server serves somebody, and a number of requests at a time.
ASSUME HandlersAssumption == IsFiniteSet(Handlers) /\ Handlers # {}

VARIABLES
  clock,
  order,      \* pending_orders
  held,       \* postings that hold the price of each voucher of each order
  failed,     \* vouchers whose sale failed, so that the price was released
  balance,    \* balanceFor(merchant).available
  pin,        \* merchant_users.pin_hash
  failures,   \* auth_attempts, FAILURE, by tick
  successes,  \* auth_attempts, SUCCESS, by tick
  tries,      \* PINs entered
  request     \* what each handler is in the middle of

attempts == <<failures, successes>>
sales    == <<held, failed, balance>>
vars     == <<clock, order, sales, pin, attempts, tries, request>>

Vouchers == 1..MaxQuantity
Ticks    == 0..LastTick

\* "of" is the order, "entered" the PIN typed, "stored" the hash that was read,
\* "since" the time it was read, "voucher" the next of the batch, "sold"
\* whether the first of the batch has a transaction.
Idle == [at |-> "idle", of |-> NoOrder, entered |-> NoPin, stored |-> NoPin, new |-> NoPin,
         since |-> 0, voucher |-> 1, sold |-> FALSE]

NotMade == [status |-> "NONE", quantity |-> 0, made |-> 0]

Init ==
  /\ clock     = 0
  /\ order     = [o \in Orders |-> NotMade]
  /\ held      = [o \in Orders |-> [v \in Vouchers |-> 0]]
  /\ failed    = [o \in Orders |-> {}]
  /\ balance   = Opening
  /\ pin       \in Pins
  /\ failures  = [t \in Ticks |-> 0]
  /\ successes = [t \in Ticks |-> 0]
  /\ tries     = 0
  /\ request   = [h \in Handlers |-> Idle]

-----------------------------------------------------------------------------
(* Orders.                                                                 *)

\* The early refusal: the whole order has to be affordable now.
CreatePendingOrder(o, quantity) ==
  /\ order[o].status = "NONE"
  /\ quantity <= balance
  /\ order' = [order EXCEPT ![o] = [status |-> "OPEN", quantity |-> quantity, made |-> clock]]
  /\ UNCHANGED <<clock, sales, pin, attempts, tries, request>>

\* expirePendingOrderIfDue, before every look at an order.
Due(o) == order[o].status = "OPEN" /\ order[o].made + Expiry <= clock

StatusSeen(o) == IF Due(o) THEN "EXPIRED" ELSE order[o].status

Seen(o) == [order EXCEPT ![o].status = StatusSeen(o)]

\* The screens, and an authorisation refused before the PIN is looked at.
GetOrder(o) ==
  /\ Due(o)
  /\ order' = Seen(o)
  /\ UNCHANGED <<clock, sales, pin, attempts, tries, request>>

\* UPDATE ... WHERE status = 'OPEN'.
CancelOrder(o) ==
  /\ StatusSeen(o) = "OPEN"
  /\ order' = [order EXCEPT ![o].status = "CANCELLED"]
  /\ UNCHANGED <<clock, sales, pin, attempts, tries, request>>

-----------------------------------------------------------------------------
(* The PIN.                                                                *)

Since(count, window) == SumFunctionOnSet(count, {t \in Ticks : t > clock - window})

\* Mutant: one failure more than the policy.
LockedOutLate == Since(failures, Window) > MaxFailed

\* countFailuresSince, read before the PIN is verified.
LockedOut == Since(failures, Window) >= MaxFailed

\* countAttemptsSince: only authorizeOrder has a rate limit.
RateLimited == Since(failures, RateWindow) + Since(successes, RateWindow) >= MaxAttempts

\* A request that goes on to await verifySecret.
Verifying(h, what, o, entered, new) ==
  /\ request[h] = Idle
  /\ tries < MaxTries
  /\ tries'   = tries + 1
  /\ request' = [request EXCEPT ![h] =
       [Idle EXCEPT !.at = what, !.of = o, !.entered = entered, !.stored = pin,
                    !.new = new, !.since = clock]]
  /\ UNCHANGED <<clock, sales, pin, attempts>>

BeginAuthorize(h, o, entered) ==
  /\ StatusSeen(o) = "OPEN"
  /\ ~LockedOut
  /\ ~RateLimited
  /\ Verifying(h, "authorizing", o, entered, NoPin)
  /\ UNCHANGED order

BeginUnlock(h, entered) ==
  /\ ~LockedOut
  /\ Verifying(h, "unlocking", NoOrder, entered, NoPin)
  /\ UNCHANGED order

\* A new PIN that is the old one is refused as weak.
BeginChangePin(h, entered, new) ==
  /\ ~LockedOut
  /\ Verifying(h, "changing", NoOrder, entered, new)
  /\ UNCHANGED order

\* The attempt is recorded at the time the request began.
Record(count, h) == [count EXCEPT ![request[h].since] = @ + 1]

WrongPin(h) ==
  /\ request[h].at \in {"authorizing", "unlocking", "changing"}
  /\ request[h].entered # request[h].stored
  /\ failures' = Record(failures, h)
  /\ request'  = [request EXCEPT ![h] = Idle]
  /\ UNCHANGED <<clock, order, sales, pin, successes, tries>>

RightPin(h, at) == request[h].at = at /\ request[h].entered = request[h].stored

Unlock(h) ==
  /\ RightPin(h, "unlocking")
  /\ successes' = Record(successes, h)
  /\ request'   = [request EXCEPT ![h] = Idle]
  /\ UNCHANGED <<clock, order, sales, pin, failures, tries>>

\* The rules for the new PIN, then its derivation, which is awaited too.
DeriveNewPin(h) ==
  /\ RightPin(h, "changing")
  /\ request' = [request EXCEPT ![h] = IF @.new = @.entered THEN Idle ELSE [@ EXCEPT !.at = "deriving"]]
  /\ UNCHANGED <<clock, order, sales, pin, attempts, tries>>

\* updateMerchantUserPin has no condition on the PIN it replaces.
UpdatePin(h) ==
  /\ request[h].at = "deriving"
  /\ pin'       = request[h].new
  /\ successes' = Record(successes, h)
  /\ request'   = [request EXCEPT ![h] = Idle]
  /\ UNCHANGED <<clock, order, sales, failures, tries>>

-----------------------------------------------------------------------------
(* The batch.                                                              *)

\* The order is not read again.
AuthorizeOrder(h) ==
  /\ RightPin(h, "authorizing")
  /\ successes' = Record(successes, h)
  /\ request'   = [request EXCEPT ![h].at = "selling"]
  /\ UNCHANGED <<clock, order, sales, pin, failures, tries>>

\* Mutant: a new request id for every attempt.
IsDuplicateNever(o, v) == FALSE

\* The request id of a voucher is derived from the order's, so a sale that
\* exists answers DUPLICATE_REQUEST.
IsDuplicate(o, v) == held[o][v] > 0

\* Mutant: a refused voucher is tried again at once.
CreateSaleStubborn(h, refused) ==
  LET o == request[h].of
      v == request[h].voucher
      sells == ~IsDuplicate(o, v) /\ ~refused /\ balance > 0
  IN /\ request[h].at = "selling"
     /\ v <= order[o].quantity
     /\ sells \/ IsDuplicate(o, v)
     /\ held'    = [held EXCEPT ![o][v] = IF sells THEN @ + 1 ELSE @]
     /\ balance' = IF sells THEN balance - 1 ELSE balance
     /\ request' = [request EXCEPT ![h].voucher = v + 1, ![h].sold = TRUE]
     /\ UNCHANGED <<clock, order, failed, pin, attempts, tries>>

CreateSale(h, refused) ==
  LET o == request[h].of
      v == request[h].voucher
      sells == ~IsDuplicate(o, v) /\ ~refused /\ balance > 0
  IN /\ request[h].at = "selling"
     /\ v <= order[o].quantity
     /\ held'    = [held EXCEPT ![o][v] = IF sells THEN @ + 1 ELSE @]
     /\ balance' = IF sells THEN balance - 1 ELSE balance
     /\ request' = [request EXCEPT ![h].voucher = v + 1,
                                   ![h].sold = @ \/ (v = 1 /\ (sells \/ IsDuplicate(o, v)))]
     /\ UNCHANGED <<clock, order, failed, pin, attempts, tries>>

\* Mutant: no WHERE status = 'OPEN'.
AuthorizedAnyway(o) == [order EXCEPT ![o].status = "AUTHORIZED"]

\* authorizePendingOrder, UPDATE ... WHERE status = 'OPEN'; its answer is not
\* looked at.
Authorized(o) == IF order[o].status = "OPEN" THEN [order EXCEPT ![o].status = "AUTHORIZED"] ELSE order

\* Mutant: the PIN alone closes the order.
FinishOnPin(h) ==
  LET o == request[h].of
  IN /\ request[h].at = "selling"
     /\ request[h].voucher > order[o].quantity
     /\ order'   = Authorized(o)
     /\ request' = [request EXCEPT ![h] = Idle]
     /\ UNCHANGED <<clock, sales, pin, attempts, tries>>

FinishOrder(h) ==
  LET o == request[h].of
  IN /\ request[h].at = "selling"
     /\ request[h].voucher > order[o].quantity
     /\ order'   = IF request[h].sold THEN Authorized(o) ELSE order
     /\ request' = [request EXCEPT ![h] = Idle]
     /\ UNCHANGED <<clock, sales, pin, attempts, tries>>

\* The sale threw, or the server stopped.
Abandon(h) ==
  /\ request[h] # Idle
  /\ request' = [request EXCEPT ![h] = Idle]
  /\ UNCHANGED <<clock, order, sales, pin, attempts, tries>>

\* The provider refuses a voucher, now or when the worker asks.
SaleFails(o, v) ==
  /\ held[o][v] > 0
  /\ v \notin failed[o]
  /\ failed'  = [failed EXCEPT ![o] = @ \cup {v}]
  /\ balance' = balance + 1
  /\ UNCHANGED <<clock, order, held, pin, attempts, tries, request>>

\* Another till of the shop sells, or a transfer or the fee is taken.
Spend ==
  /\ balance > 0
  /\ balance' = balance - 1
  /\ UNCHANGED <<clock, order, held, failed, pin, attempts, tries, request>>

Tick ==
  /\ clock < LastTick
  /\ clock' = clock + 1
  /\ UNCHANGED <<order, sales, pin, attempts, tries, request>>

-----------------------------------------------------------------------------
\* What a request does once it has begun.
Handle(h) ==
  \/ WrongPin(h) \/ Unlock(h) \/ DeriveNewPin(h) \/ UpdatePin(h) \/ AuthorizeOrder(h)
  \/ \E refused \in BOOLEAN : CreateSale(h, refused)
  \/ FinishOrder(h)

Operator ==
  \/ \E o \in Orders : GetOrder(o) \/ CancelOrder(o) \/ \E n \in Vouchers : CreatePendingOrder(o, n)
  \/ \E h \in Handlers, p \in Pins :
       \/ BeginUnlock(h, p)
       \/ \E o \in Orders : BeginAuthorize(h, o, p)
       \/ \E new \in Pins : BeginChangePin(h, p, new)

Next ==
  \/ Operator
  \/ \E h \in Handlers : Handle(h) \/ Abandon(h)
  \/ \E o \in Orders, v \in Vouchers : SaleFails(o, v)
  \/ Spend
  \/ Tick

Spec == Init /\ [][Next]_vars

\* A request the server has begun goes on; operators, failures and the clock
\* are under no obligation.
FairSpec == Spec /\ \A h \in Handlers : WF_vars(Handle(h))

-----------------------------------------------------------------------------
(* Properties.                                                             *)

\* Orders, requests and attempts have values of their kinds, and the balance the
\* batches draw on is never negative.
TypeOK ==
  /\ clock \in Ticks
  /\ order \in [Orders -> [status : {"NONE", "OPEN", "AUTHORIZED", "CANCELLED", "EXPIRED"},
                           quantity : 0..MaxQuantity, made : Ticks]]
  /\ held \in [Orders -> [Vouchers -> Nat]]
  /\ failed \in [Orders -> SUBSET Vouchers]
  /\ balance \in Nat
  /\ pin \in Pins
  /\ failures \in [Ticks -> Nat]
  /\ successes \in [Ticks -> Nat]
  /\ tries \in Nat
  /\ request \in [Handlers ->
       [at : {"idle", "authorizing", "unlocking", "changing", "deriving", "selling"},
        of : Orders \cup {NoOrder}, entered : Pins \cup {NoPin}, stored : Pins \cup {NoPin},
        new : Pins \cup {NoPin}, since : Ticks, voucher : 1..(MaxQuantity + 1), sold : BOOLEAN]]

\* However often an order is authorised, by two requests at once or again after
\* one that was cut short, each voucher of it is paid for at most once, and none
\* beyond its quantity (batchRequestId, createSale).
VoucherPaidOnce ==
  \A o \in Orders, v \in Vouchers :
    held[o][v] <= (IF v <= order[o].quantity THEN 1 ELSE 0)

\* An order that says AUTHORIZED has the transaction it points at, and a batch
\* that was cut short, so that it can be taken up again, never says so
\* (authorizePendingOrder after the loop).
AuthorizedHasItsSale ==
  \A o \in Orders : order[o].status = "AUTHORIZED" => held[o][1] > 0

\* An order that was cancelled, expired or authorised stays what it is, though
\* a request that read it OPEN is still selling (WHERE status = 'OPEN').
ClosedStaysClosed ==
  [][\A o \in Orders : order[o].status \in {"AUTHORIZED", "CANCELLED", "EXPIRED"}
                        => order'[o] = order[o]]_vars

\* Wrong PINs in one window: as many as the policy allows, and one for every
\* other request that was let in before the last of them was recorded.
WrongPinsAreBounded ==
  Since(failures, Window) <= MaxFailed + Cardinality(Handlers) - 1

\* A request that was begun is answered, or cut short.
EveryRequestIsAnswered == \A h \in Handlers : request[h] # Idle ~> request[h] = Idle

\* What the repository says of the race between the PIN and "cancel": it has
\* one outcome, so that an order that reads CANCELLED sold nothing.
CancelledSoldNothing ==
  \A o \in Orders : order[o].status = "CANCELLED" => \A v \in Vouchers : held[o][v] = 0
=============================================================================
