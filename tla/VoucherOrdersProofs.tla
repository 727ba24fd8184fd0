------------------------ MODULE VoucherOrdersProofs ------------------------
(***************************************************************************)
(* Proofs about VoucherOrders, for any orders, any number of requests      *)
(* served at once, any PINs and any policy.                                *)
(***************************************************************************)
EXTENDS VoucherOrders, SumTheorems, TLAPS

-----------------------------------------------------------------------------
(* Type correctness.                                                       *)

OrderRows == [status : {"NONE", "OPEN", "AUTHORIZED", "CANCELLED", "EXPIRED"},
              quantity : 0..MaxQuantity, made : Ticks]

RequestStates ==
  [at : {"idle", "authorizing", "unlocking", "changing", "deriving", "selling"},
   of : Orders \cup {NoOrder}, entered : Pins \cup {NoPin}, stored : Pins \cup {NoPin},
   new : Pins \cup {NoPin}, since : Ticks, voucher : 1..(MaxQuantity + 1), sold : BOOLEAN]

\* What a request holds when it is past the order's row: an order, and when it
\* derives a PIN, that PIN.
RequestsHold ==
  /\ \A h \in Handlers :
       request[h].at \in {"authorizing", "selling"} =>
         request[h].of \in Orders /\ order[request[h].of].status # "NONE"
  /\ \A h \in Handlers : request[h].at \in {"changing", "deriving"} => request[h].new \in Pins

\* A handler at rest is in a legal state.
LEMMA IdleTyped == Idle \in RequestStates /\ Idle.at = "idle"
BY ConstantsAssumption DEF Idle, RequestStates, Ticks

\* The type invariant, with the rows and requests named.
LEMMA TypeOKIs ==
  TypeOK <=> /\ clock \in Ticks
             /\ order \in [Orders -> OrderRows]
             /\ held \in [Orders -> [Vouchers -> Nat]]
             /\ failed \in [Orders -> SUBSET Vouchers]
             /\ balance \in Nat
             /\ pin \in Pins
             /\ failures \in [Ticks -> Nat]
             /\ successes \in [Ticks -> Nat]
             /\ tries \in Nat
             /\ request \in [Handlers -> RequestStates]
BY DEF TypeOK, OrderRows, RequestStates

Typed == TypeOK /\ RequestsHold

\* The first state is well typed.
LEMMA InitTyped == Init => Typed
<1> SUFFICES ASSUME Init PROVE Typed
  OBVIOUS
<1>1. NotMade \in OrderRows
  BY ConstantsAssumption DEF NotMade, OrderRows, Ticks
<1>2. TypeOK
  BY <1>1, IdleTyped, ConstantsAssumption DEF Init, TypeOK, OrderRows, RequestStates, Ticks
<1>3. RequestsHold
  BY IdleTyped DEF Init, RequestsHold
<1> QED
  BY <1>2, <1>3 DEF Typed

\* An order whose status changes keeps its quantity, and the others theirs.
LEMMA StatusChangeTyped ==
  ASSUME TypeOK, NEW o \in Orders, NEW st \in {"AUTHORIZED", "CANCELLED", "EXPIRED"}
  PROVE  /\ [order EXCEPT ![o].status = st] \in [Orders -> OrderRows]
         /\ [order EXCEPT ![o].status = st][o].status = st
         /\ [order EXCEPT ![o].status = st][o].quantity = order[o].quantity
         /\ \A p \in Orders : p # o => [order EXCEPT ![o].status = st][p] = order[p]
BY DEF TypeOK, OrderRows

\* A request begins.
LEMMA VerifyingTyped ==
  ASSUME Typed, NEW h \in Handlers, NEW what \in {"authorizing", "unlocking", "changing"},
         NEW o \in Orders \cup {NoOrder}, NEW entered \in Pins, NEW new \in Pins \cup {NoPin},
         Verifying(h, what, o, entered, new), UNCHANGED order,
         what = "authorizing" => o \in Orders /\ order[o].status # "NONE",
         what = "changing" => new \in Pins
  PROVE  Typed'
<1> DEFINE r == [Idle EXCEPT !.at = what, !.of = o, !.entered = entered, !.stored = pin,
                             !.new = new, !.since = clock]
<1>1. r \in RequestStates /\ r.at = what /\ r.of = o /\ r.new = new
  BY IdleTyped DEF RequestStates, Typed, TypeOK, Idle
<1>2. /\ request' = [request EXCEPT ![h] = r]
      /\ tries' = tries + 1
      /\ UNCHANGED <<clock, sales, pin, attempts>>
  BY DEF Verifying
<1> HIDE DEF r
<1>3. TypeOK'
  BY <1>1, <1>2 DEF Typed, TypeOK, RequestStates, sales, attempts
<1>4. RequestsHold'
  BY <1>1, <1>2 DEF Typed, TypeOK, RequestsHold
<1> QED
  BY <1>3, <1>4 DEF Typed

\* Recording an attempt counts up.
LEMMA RecordTyped ==
  ASSUME Typed, NEW h \in Handlers
  PROVE  /\ Record(failures, h) \in [Ticks -> Nat]
         /\ Record(successes, h) \in [Ticks -> Nat]
<1>1. request[h].since \in Ticks
  BY DEF Typed, TypeOK
<1> QED
  BY <1>1 DEF Typed, TypeOK, Record

\* A request that ends leaves the others as they were.
LEMMA EndTyped ==
  ASSUME Typed, NEW h \in Handlers, request' = [request EXCEPT ![h] = Idle],
         \A o \in Orders : order'[o].status = "NONE" => order[o].status = "NONE"
  PROVE  request' \in [Handlers -> RequestStates] /\ RequestsHold'
BY IdleTyped, TypeOKIs DEF Typed, RequestsHold

\* Every step keeps the types.
LEMMA NextTyped == Typed /\ [Next]_vars => Typed'
<1> SUFFICES ASSUME Typed, [Next]_vars PROVE Typed'
  OBVIOUS
<1> USE ConstantsAssumption
<1>1. ASSUME NEW o \in Orders, NEW n \in Vouchers, CreatePendingOrder(o, n) PROVE Typed'
  <2>1. order' \in [Orders -> OrderRows]
    BY <1>1 DEF CreatePendingOrder, Typed, TypeOK, OrderRows, Vouchers
  <2>2. TypeOK'
    BY <1>1, <2>1 DEF CreatePendingOrder, Typed, TypeOK, OrderRows, sales, attempts
  <2>3. RequestsHold'
    BY <1>1 DEF CreatePendingOrder, Typed, TypeOK, RequestsHold
  <2> QED
    BY <2>2, <2>3 DEF Typed
<1>2. ASSUME NEW o \in Orders, GetOrder(o) \/ CancelOrder(o) PROVE Typed'
  <2>1. PICK st \in {"CANCELLED", "EXPIRED"} : order' = [order EXCEPT ![o].status = st]
    BY <1>2 DEF GetOrder, CancelOrder, Seen, StatusSeen
  <2>2. UNCHANGED <<clock, sales, pin, attempts, tries, request>>
    BY <1>2 DEF GetOrder, CancelOrder
  <2>3. order' \in [Orders -> OrderRows] /\ order'[o].status # "NONE"
        /\ \A p \in Orders : p # o => order'[p] = order[p]
    BY <2>1, StatusChangeTyped DEF Typed
  <2>4. TypeOK'
    BY <2>2, <2>3 DEF Typed, TypeOK, OrderRows, sales, attempts
  <2>5. RequestsHold'
    BY <2>2, <2>3 DEF Typed, RequestsHold
  <2> QED
    BY <2>4, <2>5 DEF Typed
<1>3. ASSUME NEW h \in Handlers, NEW o \in Orders, NEW p \in Pins, BeginAuthorize(h, o, p)
      PROVE  Typed'
  <2>1. order[o].status # "NONE"
    BY <1>3 DEF BeginAuthorize, StatusSeen, Due
  <2> QED
    BY <1>3, <2>1, VerifyingTyped DEF BeginAuthorize
<1>4. ASSUME NEW h \in Handlers, NEW p \in Pins, BeginUnlock(h, p) PROVE Typed'
  BY <1>4, VerifyingTyped DEF BeginUnlock
<1>5. ASSUME NEW h \in Handlers, NEW p \in Pins, NEW new \in Pins, BeginChangePin(h, p, new)
      PROVE  Typed'
  BY <1>5, VerifyingTyped DEF BeginChangePin
<1>6. ASSUME NEW h \in Handlers, WrongPin(h) PROVE Typed'
  <2>1. request' \in [Handlers -> RequestStates] /\ RequestsHold'
    BY <1>6, EndTyped DEF WrongPin
  <2> QED
    BY <1>6, <2>1, RecordTyped DEF WrongPin, Typed, TypeOK, RequestStates, sales
<1>7. ASSUME NEW h \in Handlers, Unlock(h) PROVE Typed'
  <2>1. request' \in [Handlers -> RequestStates] /\ RequestsHold'
    BY <1>7, EndTyped DEF Unlock
  <2> QED
    BY <1>7, <2>1, RecordTyped DEF Unlock, Typed, TypeOK, RequestStates, sales
<1>8. ASSUME NEW h \in Handlers, DeriveNewPin(h) PROVE Typed'
  <2>1. UNCHANGED <<clock, order, sales, pin, attempts, tries>>
    BY <1>8 DEF DeriveNewPin
  <2>2. request[h].at = "changing"
    BY <1>8 DEF DeriveNewPin, RightPin
  <2>3. CASE request[h].new = request[h].entered
    <3>1. request' = [request EXCEPT ![h] = Idle]
      BY <1>8, <2>3 DEF DeriveNewPin, Typed, TypeOK
    <3>2. request' \in [Handlers -> RequestStates] /\ RequestsHold'
      BY <2>1, <3>1, EndTyped
    <3> QED
      BY <2>1, <3>2 DEF Typed, TypeOK, RequestStates, sales, attempts
  <2>4. CASE request[h].new # request[h].entered
    <3>1. request' = [request EXCEPT ![h] = [request[h] EXCEPT !.at = "deriving"]]
      BY <1>8, <2>4 DEF DeriveNewPin, Typed, TypeOK
    <3>2. [request[h] EXCEPT !.at = "deriving"] \in RequestStates
          /\ [request[h] EXCEPT !.at = "deriving"].new = request[h].new
          /\ [request[h] EXCEPT !.at = "deriving"].at = "deriving"
      BY DEF Typed, TypeOK, RequestStates
    <3>3. request' \in [Handlers -> RequestStates]
      BY <3>1, <3>2, TypeOKIs DEF Typed
    <3>4. RequestsHold'
      BY <2>1, <2>2, <3>1, <3>2, TypeOKIs DEF Typed, RequestsHold
    <3> QED
      BY <2>1, <3>3, <3>4 DEF Typed, TypeOK, RequestStates, sales, attempts
  <2> QED
    BY <2>3, <2>4
<1>9. ASSUME NEW h \in Handlers, UpdatePin(h) PROVE Typed'
  <2>1. request' \in [Handlers -> RequestStates] /\ RequestsHold'
    BY <1>9, EndTyped DEF UpdatePin
  <2>2. pin' \in Pins
    BY <1>9 DEF UpdatePin, Typed, RequestsHold
  <2> QED
    BY <1>9, <2>1, <2>2, RecordTyped DEF UpdatePin, Typed, TypeOK, RequestStates, sales
<1>10. ASSUME NEW h \in Handlers, AuthorizeOrder(h) PROVE Typed'
  <2>1. request' = [request EXCEPT ![h] = [request[h] EXCEPT !.at = "selling"]]
        /\ request[h].at = "authorizing"
    BY <1>10 DEF AuthorizeOrder, RightPin, Typed, TypeOK
  <2>2. [request[h] EXCEPT !.at = "selling"] \in RequestStates
        /\ [request[h] EXCEPT !.at = "selling"].of = request[h].of
        /\ [request[h] EXCEPT !.at = "selling"].at = "selling"
    BY DEF Typed, TypeOK, RequestStates
  <2>3. request' \in [Handlers -> RequestStates]
    BY <2>1, <2>2, TypeOKIs DEF Typed
  <2>4. RequestsHold'
    BY <1>10, <2>1, <2>2, TypeOKIs DEF AuthorizeOrder, Typed, RequestsHold
  <2> QED
    BY <1>10, <2>3, <2>4, RecordTyped DEF AuthorizeOrder, Typed, TypeOK, RequestStates, sales
<1>11. ASSUME NEW h \in Handlers, NEW refused \in BOOLEAN, CreateSale(h, refused) PROVE Typed'
  <2> DEFINE o == request[h].of
             v == request[h].voucher
             sells == ~IsDuplicate(o, v) /\ ~refused /\ balance > 0
             sold == request[h].sold \/ (v = 1 /\ (sells \/ IsDuplicate(o, v)))
             r == [request[h] EXCEPT !.voucher = v + 1, !.sold = sold]
  <2>1. request[h].at = "selling" /\ v <= order[o].quantity
        /\ UNCHANGED <<clock, order, failed, pin, attempts, tries>>
    BY <1>11 DEF CreateSale
  <2>2. o \in Orders /\ v \in 1..MaxQuantity
    BY <2>1 DEF Typed, RequestsHold, TypeOK
  <2>3. held' \in [Orders -> [Vouchers -> Nat]] /\ balance' \in Nat
    <3>0. v \in Vouchers
      BY <2>2 DEF Vouchers
    <3>1. held[o][v] \in Nat /\ held[o] \in [Vouchers -> Nat] /\ v \in Vouchers /\ balance \in Nat
      BY <2>2, <3>0 DEF Typed, TypeOK
    <3>2. held' = [held EXCEPT ![o][v] = IF sells THEN held[o][v] + 1 ELSE held[o][v]]
          /\ balance' = IF sells THEN balance - 1 ELSE balance
      BY <1>11, <2>2, <3>1 DEF CreateSale, Typed, TypeOK
    <3>3. sells => balance > 0
      OBVIOUS
    <3> HIDE DEF sells, o, v
    <3> QED
      BY <2>2, <3>1, <3>2, <3>3 DEF Typed, TypeOK
  <2>4. request' = [request EXCEPT ![h] = r]
    BY <1>11 DEF CreateSale, Typed, TypeOK
  <2>5. r \in RequestStates /\ r.of = o /\ r.at = "selling"
    <3>1. sold \in BOOLEAN /\ v + 1 \in 1..(MaxQuantity + 1)
      BY <2>2
    <3> HIDE DEF sold, v
    <3> QED
      BY <2>1, <3>1 DEF Typed, TypeOK, RequestStates
  <2> HIDE DEF r, sells, sold
  <2>6. request' \in [Handlers -> RequestStates]
    BY <2>4, <2>5, TypeOKIs DEF Typed
  <2>7. RequestsHold'
    BY <2>1, <2>2, <2>4, <2>5, TypeOKIs DEF Typed, RequestsHold
  <2> QED
    BY <2>1, <2>3, <2>6, <2>7 DEF Typed, TypeOK, RequestStates, attempts
<1>12. ASSUME NEW h \in Handlers, FinishOrder(h) PROVE Typed'
  <2>1. request[h].of \in Orders
    BY <1>12 DEF FinishOrder, Typed, RequestsHold
  <2>2. order' = order \/ order' = [order EXCEPT ![request[h].of].status = "AUTHORIZED"]
    BY <1>12 DEF FinishOrder, Authorized
  <2>3. order' \in [Orders -> OrderRows]
        /\ \A o \in Orders : order'[o].status = "NONE" => order[o].status = "NONE"
    <3>1. CASE order' = order
      BY <3>1, TypeOKIs DEF Typed
    <3>2. CASE order' = [order EXCEPT ![request[h].of].status = "AUTHORIZED"]
      BY <2>1, <3>2, StatusChangeTyped DEF Typed
    <3> QED
      BY <2>2, <3>1, <3>2
  <2>4. request' \in [Handlers -> RequestStates] /\ RequestsHold'
    BY <1>12, <2>3, EndTyped DEF FinishOrder
  <2> QED
    BY <1>12, <2>3, <2>4 DEF FinishOrder, Typed, TypeOK, OrderRows, RequestStates, sales, attempts
<1>13. ASSUME NEW h \in Handlers, Abandon(h) PROVE Typed'
  <2>1. request' \in [Handlers -> RequestStates] /\ RequestsHold'
    BY <1>13, EndTyped DEF Abandon
  <2> QED
    BY <1>13, <2>1 DEF Abandon, Typed, TypeOK, RequestStates, sales, attempts
<1>14. ASSUME NEW o \in Orders, NEW v \in Vouchers, SaleFails(o, v) PROVE Typed'
  BY <1>14 DEF SaleFails, Typed, TypeOK, RequestsHold, attempts
<1>15. ASSUME Spend PROVE Typed'
  BY <1>15 DEF Spend, Typed, TypeOK, RequestsHold, attempts
<1>16. ASSUME Tick PROVE Typed'
  <2>1. clock' \in Ticks
    BY <1>16 DEF Tick, Ticks, Typed, TypeOK
  <2> QED
    BY <1>16, <2>1 DEF Tick, Typed, TypeOK, RequestsHold, attempts, sales
<1>17. ASSUME UNCHANGED vars PROVE Typed'
  BY <1>17 DEF vars, Typed, TypeOK, RequestsHold, attempts, sales
<1> QED
  BY <1>1, <1>2, <1>3, <1>4, <1>5, <1>6, <1>7, <1>8, <1>9, <1>10, <1>11, <1>12, <1>13, <1>14,
     <1>15, <1>16, <1>17 DEF Next, Operator, Handle

\* The types always hold.
LEMMA TypedHolds == Spec => []Typed
<1> QED
  BY InitTyped, NextTyped, PTL DEF Spec

\* Every variable keeps its type: a batch never takes the balance below nothing,
\* however old the affordability it was begun with.
THEOREM TypeCorrect == Spec => []TypeOK
<1>1. Typed => TypeOK
  BY DEF Typed
<1> QED
  BY <1>1, TypedHolds, PTL

-----------------------------------------------------------------------------
(* The batch.                                                              *)

\* A request that says the first voucher was sold is right, and stays so.
SoldIsHeld ==
  \A h \in Handlers : request[h].at = "selling" /\ request[h].sold => held[request[h].of][1] > 0

\* A request that has not begun to sell says nothing.
NothingYet == \A h \in Handlers : request[h].at # "selling" => ~request[h].sold

\* An order that is not made has no quantity.
Unmade == \A o \in Orders : order[o].status = "NONE" => order[o].quantity = 0

Batch == Typed /\ Unmade /\ VoucherPaidOnce /\ AuthorizedHasItsSale /\ SoldIsHeld /\ NothingYet

\* The invariant holds at first.
LEMMA InitBatch == Init => Batch
<1> SUFFICES ASSUME Init PROVE Batch
  OBVIOUS
<1>1. VoucherPaidOnce
  BY DEF Init, VoucherPaidOnce
<1>2. AuthorizedHasItsSale
  BY DEF Init, AuthorizedHasItsSale, NotMade
<1>3. SoldIsHeld /\ NothingYet
  BY DEF Init, SoldIsHeld, NothingYet, Idle
<1>4. Unmade
  BY DEF Init, Unmade, NotMade
<1> QED
  BY <1>1, <1>2, <1>3, <1>4, InitTyped DEF Batch

\* The row of an order: nothing is held for one that is not made, so making it
\* keeps the count, and only the last step of a batch says AUTHORIZED.
LEMMA OrderSteps ==
  ASSUME Batch, UNCHANGED <<held, request>>,
         \A o \in Orders :
           \/ order'[o] = order[o]
           \/ order[o].status = "NONE" /\ order[o].quantity = 0 /\ order'[o].status = "OPEN"
           \/ order'[o].quantity = order[o].quantity /\ order'[o].status \in {"CANCELLED", "EXPIRED"}
  PROVE  (Unmade /\ VoucherPaidOnce /\ AuthorizedHasItsSale /\ SoldIsHeld /\ NothingYet)'
<1>1. \A o \in Orders, v \in Vouchers : held[o][v] \in Nat
  BY DEF Batch, Typed, TypeOK
<1>2. VoucherPaidOnce'
  <2> SUFFICES ASSUME NEW o \in Orders, NEW v \in Vouchers
               PROVE  held[o][v] <= (IF v <= order'[o].quantity THEN 1 ELSE 0)
    BY DEF VoucherPaidOnce
  <2>1. held[o][v] <= (IF v <= order[o].quantity THEN 1 ELSE 0)
    BY DEF Batch, VoucherPaidOnce
  <2>2. CASE order'[o].quantity = order[o].quantity
    BY <2>1, <2>2
  <2>3. CASE order[o].quantity = 0
    BY <1>1, <2>1, <2>3 DEF Vouchers
  <2> QED
    BY <2>2, <2>3
<1>3. AuthorizedHasItsSale'
  BY DEF Batch, AuthorizedHasItsSale
<1>4. SoldIsHeld' /\ NothingYet'
  BY DEF Batch, SoldIsHeld, NothingYet
<1>5. Unmade'
  BY DEF Batch, Unmade
<1> QED
  BY <1>2, <1>3, <1>4, <1>5

\* One request moves on, selling nothing and saying nothing.
LEMMA QuietSteps ==
  ASSUME Batch, UNCHANGED <<order, held>>, NEW h \in Handlers,
         request'[h].sold = FALSE,
         \A g \in Handlers : g # h => request'[g] = request[g]
  PROVE  (Unmade /\ VoucherPaidOnce /\ AuthorizedHasItsSale /\ SoldIsHeld /\ NothingYet)'
BY DEF Batch, Unmade, VoucherPaidOnce, AuthorizedHasItsSale, SoldIsHeld, NothingYet

\* Every step keeps the invariant.
LEMMA BatchKeeps == Batch /\ [Next]_vars => Batch'
<1> SUFFICES ASSUME Batch, [Next]_vars PROVE Batch'
  OBVIOUS
<1> DEFINE Kept == Unmade /\ VoucherPaidOnce /\ AuthorizedHasItsSale /\ SoldIsHeld /\ NothingYet
<1>1. Typed /\ Typed' /\ TypeOK
  BY NextTyped DEF Batch, Typed
<1>2. SUFFICES Kept'
  BY <1>1 DEF Batch
<1>3. \A o \in Orders : order[o].status = "NONE" => order[o].quantity = 0
  BY DEF Batch, Unmade
<1>4. ASSUME NEW o \in Orders, NEW n \in Vouchers, CreatePendingOrder(o, n) PROVE Kept'
  <2>1. \A p \in Orders : \/ order'[p] = order[p]
                          \/ order[p].status = "NONE" /\ order[p].quantity = 0 /\ order'[p].status = "OPEN"
    BY <1>1, <1>3, <1>4 DEF CreatePendingOrder, TypeOK
  <2> QED
    BY <1>4, <2>1, OrderSteps DEF CreatePendingOrder, sales
<1>5. ASSUME NEW o \in Orders, GetOrder(o) \/ CancelOrder(o) PROVE Kept'
  <2>1. PICK st \in {"CANCELLED", "EXPIRED"} : order' = [order EXCEPT ![o].status = st]
    BY <1>5 DEF GetOrder, CancelOrder, Seen, StatusSeen
  <2>2. \A p \in Orders : \/ order'[p] = order[p]
                          \/ /\ order'[p].quantity = order[p].quantity
                             /\ order'[p].status \in {"CANCELLED", "EXPIRED"}
    BY <1>1, <2>1, StatusChangeTyped
  <2> QED
    BY <1>5, <2>2, OrderSteps DEF GetOrder, CancelOrder, sales
<1>6. ASSUME NEW h \in Handlers, NEW what, NEW o, NEW entered, NEW new, UNCHANGED order,
             Verifying(h, what, o, entered, new)
      PROVE  Kept'
  <2>1. request'[h].sold = FALSE /\ \A g \in Handlers : g # h => request'[g] = request[g]
    BY <1>1, <1>6 DEF Verifying, TypeOK, Idle
  <2> QED
    BY <1>6, <2>1, QuietSteps DEF Verifying, sales
<1>7. ASSUME NEW h \in Handlers,
             WrongPin(h) \/ Unlock(h) \/ DeriveNewPin(h) \/ UpdatePin(h) \/ Abandon(h)
      PROVE  Kept'
  <2>1. UNCHANGED <<order, held>>
    BY <1>7 DEF WrongPin, Unlock, DeriveNewPin, UpdatePin, Abandon, sales
  <2>2. \A g \in Handlers : g # h => request'[g] = request[g]
    BY <1>1, <1>7 DEF WrongPin, Unlock, DeriveNewPin, UpdatePin, Abandon, TypeOK
  <2>3. request'[h].sold = FALSE
    <3>1. CASE request'[h] = Idle
      BY <3>1 DEF Idle
    <3>2. CASE DeriveNewPin(h) /\ request[h].new # request[h].entered
      <4>1. request'[h] = [request[h] EXCEPT !.at = "deriving"] /\ request[h].at = "changing"
        BY <1>1, <3>2 DEF DeriveNewPin, RightPin, TypeOK
      <4>2. request[h].sold = FALSE
        BY <1>1, <4>1 DEF Batch, NothingYet, TypeOK
      <4>3. request'[h].sold = request[h].sold
        BY <1>1, <4>1 DEF TypeOK
      <4> QED
        BY <4>2, <4>3
    <3>3. request'[h] = Idle \/ (DeriveNewPin(h) /\ request[h].new # request[h].entered)
      BY <1>1, <1>7 DEF WrongPin, Unlock, DeriveNewPin, UpdatePin, Abandon, TypeOK
    <3> QED
      BY <3>1, <3>2, <3>3
  <2> QED
    BY <2>1, <2>2, <2>3, QuietSteps
<1>8. ASSUME NEW h \in Handlers, AuthorizeOrder(h) PROVE Kept'
  <2>1. request[h].at = "authorizing" /\ request'[h] = [request[h] EXCEPT !.at = "selling"]
        /\ \A g \in Handlers : g # h => request'[g] = request[g]
    BY <1>1, <1>8 DEF AuthorizeOrder, RightPin, TypeOK
  <2>2. request[h].sold = FALSE /\ request'[h].sold = request[h].sold
    BY <1>1, <2>1 DEF Batch, NothingYet, TypeOK
  <2> QED
    BY <1>8, <2>1, <2>2, QuietSteps DEF AuthorizeOrder, sales
<1>9. ASSUME NEW h \in Handlers, NEW refused \in BOOLEAN, CreateSale(h, refused) PROVE Kept'
  <2> DEFINE o == request[h].of
             v == request[h].voucher
             sells == ~IsDuplicate(o, v) /\ ~refused /\ balance > 0
  <2>1. request[h].at = "selling" /\ v <= order[o].quantity /\ UNCHANGED order
    BY <1>9 DEF CreateSale
  <2>2. o \in Orders /\ v \in Vouchers /\ 1 \in Vouchers
    <3>1. o \in Orders /\ v \in 1..MaxQuantity
      BY <1>1, <2>1, ConstantsAssumption DEF Typed, RequestsHold, TypeOK
    <3> QED
      BY <3>1, ConstantsAssumption DEF Vouchers
  <2>3. /\ held'[o][v] = IF sells THEN held[o][v] + 1 ELSE held[o][v]
        /\ \A p \in Orders, w \in Vouchers : <<p, w>> # <<o, v>> => held'[p][w] = held[p][w]
    BY <1>1, <1>9, <2>2 DEF CreateSale, TypeOK
  <2>4. sells => held[o][v] = 0
    BY <1>1, <2>2 DEF IsDuplicate, TypeOK
  <2>5. \A p \in Orders, w \in Vouchers : held[p][w] \in Nat
    BY <1>1 DEF TypeOK
  <2>6. /\ request'[h].of = o /\ request'[h].at = "selling"
        /\ request'[h].sold => request[h].sold \/ (v = 1 /\ (sells \/ IsDuplicate(o, v)))
        /\ \A g \in Handlers : g # h => request'[g] = request[g]
    BY <1>1, <1>9, <2>1 DEF CreateSale, TypeOK
  <2>7. IsDuplicate(o, v) <=> held[o][v] > 0
    BY DEF IsDuplicate
  <2> HIDE DEF sells, o, v
  <2>8. VoucherPaidOnce'
    BY <2>1, <2>2, <2>3, <2>4, <2>5 DEF Batch, VoucherPaidOnce
  <2>9. \A p \in Orders, w \in Vouchers : held[p][w] > 0 => held'[p][w] > 0
    BY <2>2, <2>3, <2>4, <2>5
  <2>10. AuthorizedHasItsSale'
    BY <2>1, <2>2, <2>9 DEF Batch, AuthorizedHasItsSale
  <2>11. request'[h].sold => held'[o][1] > 0
    <3>1. request[h].sold => held[o][1] > 0
      BY <2>1 DEF Batch, SoldIsHeld, o
    <3>2. sells => held'[o][v] > 0
      BY <2>2, <2>3, <2>5
    <3> QED
      BY <2>2, <2>6, <2>7, <2>9, <3>1, <3>2
  <2>12. SoldIsHeld'
    <3>1. ASSUME NEW g \in Handlers, g # h, request[g].at = "selling", request[g].sold
          PROVE  held'[request[g].of][1] > 0
      <4>1. held[request[g].of][1] > 0 /\ request[g].of \in Orders
        BY <1>1, <3>1 DEF Batch, SoldIsHeld, Typed, RequestsHold
      <4> QED
        BY <2>2, <2>9, <4>1
    <3> QED
      BY <2>6, <2>11, <3>1 DEF SoldIsHeld
  <2>13. NothingYet'
    BY <2>6 DEF Batch, NothingYet
  <2>14. Unmade'
    BY <2>1 DEF Batch, Unmade
  <2> QED
    BY <2>8, <2>10, <2>12, <2>13, <2>14
<1>10. ASSUME NEW h \in Handlers, FinishOrder(h) PROVE Kept'
  <2> DEFINE o == request[h].of
  <2>1. request[h].at = "selling" /\ UNCHANGED held
    BY <1>10 DEF FinishOrder, sales
  <2>2. o \in Orders
    BY <1>1, <2>1 DEF Typed, RequestsHold
  <2>3. request'[h] = Idle /\ \A g \in Handlers : g # h => request'[g] = request[g]
    BY <1>1, <1>10 DEF FinishOrder, TypeOK
  <2>4. \/ order' = order
        \/ request[h].sold /\ order' = [order EXCEPT ![o].status = "AUTHORIZED"]
    BY <1>10 DEF FinishOrder, Authorized
  <2>5. \A p \in Orders :
          /\ order'[p].quantity = order[p].quantity
          /\ order'[p].status = order[p].status
             \/ (p = o /\ request[h].sold /\ order'[p].status = "AUTHORIZED")
    <3>1. CASE order' = order
      BY <3>1
    <3>2. CASE request[h].sold /\ order' = [order EXCEPT ![o].status = "AUTHORIZED"]
      BY <1>1, <2>2, <3>2, StatusChangeTyped
    <3> QED
      BY <2>4, <3>1, <3>2
  <2>6. request[h].sold => held[o][1] > 0
    BY <2>1 DEF Batch, SoldIsHeld
  <2> HIDE DEF o
  <2>7. VoucherPaidOnce'
    BY <2>1, <2>5 DEF Batch, VoucherPaidOnce
  <2>8. AuthorizedHasItsSale'
    BY <2>1, <2>5, <2>6 DEF Batch, AuthorizedHasItsSale
  <2>9. SoldIsHeld' /\ NothingYet'
    BY <2>1, <2>3 DEF Batch, SoldIsHeld, NothingYet, Idle
  <2>10. Unmade'
    BY <2>5 DEF Batch, Unmade
  <2> QED
    BY <2>7, <2>8, <2>9, <2>10
<1>11. ASSUME UNCHANGED <<order, held, request>> PROVE Kept'
  BY <1>11 DEF Batch, Unmade, VoucherPaidOnce, AuthorizedHasItsSale, SoldIsHeld, NothingYet
<1>12. ASSUME Operator PROVE Kept'
  BY <1>12, <1>4, <1>5, <1>6 DEF Operator, BeginAuthorize, BeginUnlock, BeginChangePin
<1>13. ASSUME NEW h \in Handlers, Handle(h) \/ Abandon(h) PROVE Kept'
  BY <1>13, <1>7, <1>8, <1>9, <1>10 DEF Handle
<1>14. ASSUME \/ \E o \in Orders, v \in Vouchers : SaleFails(o, v)
              \/ Spend \/ Tick \/ UNCHANGED vars
       PROVE  Kept'
  BY <1>14, <1>11 DEF SaleFails, Spend, Tick, vars, sales
<1> QED
  BY <1>12, <1>13, <1>14 DEF Next

\* The invariant always holds.
LEMMA BatchHolds == Spec => []Batch
<1> QED
  BY InitBatch, BatchKeeps, PTL DEF Spec

\* Each voucher of an order is paid for at most once and none beyond the
\* quantity, for any number of requests that authorise it at once or again.
THEOREM NoVoucherIsPaidTwice == Spec => []VoucherPaidOnce
<1>1. Batch => VoucherPaidOnce
  BY DEF Batch
<1> QED
  BY <1>1, BatchHolds, PTL

\* An order that reads AUTHORIZED points at a sale that was made.
THEOREM AuthorizedOrdersWereSold == Spec => []AuthorizedHasItsSale
<1>1. Batch => AuthorizedHasItsSale
  BY DEF Batch
<1> QED
  BY <1>1, BatchHolds, PTL

\* A cancelled, expired or authorised order never changes again, whatever the
\* requests that read it OPEN go on to do.
THEOREM ClosedOrdersStay == Spec => ClosedStaysClosed
<1>1. Batch /\ [Next]_vars
        => [\A o \in Orders : order[o].status \in {"AUTHORIZED", "CANCELLED", "EXPIRED"}
                               => order'[o] = order[o]]_vars
  <2> SUFFICES ASSUME Batch, [Next]_vars, NEW o \in Orders,
                      order[o].status \in {"AUTHORIZED", "CANCELLED", "EXPIRED"}
               PROVE  order'[o] = order[o]
    OBVIOUS
  <2>1. TypeOK
    BY DEF Batch, Typed
  <2>2. CASE Operator
    BY <2>1, <2>2 DEF Operator, CreatePendingOrder, GetOrder, CancelOrder, Due, Seen, StatusSeen,
         BeginAuthorize, BeginUnlock, BeginChangePin, TypeOK
  <2>3. ASSUME NEW h \in Handlers, FinishOrder(h) PROVE order'[o] = order[o]
    BY <2>1, <2>3 DEF FinishOrder, Authorized, TypeOK
  <2>4. CASE UNCHANGED order
    BY <2>4
  <2>5. ASSUME NEW h \in Handlers, Handle(h) \/ Abandon(h) PROVE order'[o] = order[o]
    BY <2>3, <2>5 DEF Handle, WrongPin, Unlock, DeriveNewPin, UpdatePin, AuthorizeOrder,
         CreateSale, Abandon
  <2>6. CASE \/ \E p \in Orders, v \in Vouchers : SaleFails(p, v)
             \/ Spend \/ Tick \/ UNCHANGED vars
    BY <2>4, <2>6 DEF SaleFails, Spend, Tick, vars
  <2> QED
    BY <2>2, <2>5, <2>6 DEF Next
<1> QED
  BY <1>1, BatchHolds, PTL DEF Spec, ClosedStaysClosed
-----------------------------------------------------------------------------
(* Wrong PINs.                                                             *)

\* Requests whose PIN may still turn out wrong.
Guessing == {h \in Handlers : request[h].at \in {"authorizing", "unlocking", "changing"}}

\* The wrong PINs of the window with those that may come: a request is let in
\* below the policy's limit and there are no more requests than handlers.  No
\* attempt is recorded ahead of the clock, so that the window loses failures
\* when it moves and finds none.
Bounded ==
  /\ Typed
  /\ Since(failures, Window) + Cardinality(Guessing) <= MaxFailed + Cardinality(Handlers) - 1
  /\ \A t \in Ticks : t > clock => failures[t] = 0
  /\ \A h \in Handlers : request[h].since <= clock

InWindow == {t \in Ticks : t > clock - Window}

\* The failures of the window are a sum of numbers.
LEMMA WindowFacts ==
  ASSUME TypeOK
  PROVE  /\ IsFiniteSet(Ticks) /\ IsFiniteSet(InWindow)
         /\ \A t \in InWindow : failures[t] \in Nat
         /\ Since(failures, Window) = SumFunctionOnSet(failures, InWindow)
         /\ Since(failures, Window) \in Nat
<1>1. IsFiniteSet(Ticks)
  BY ConstantsAssumption, FS_Interval DEF Ticks
<1>2. InWindow \in SUBSET Ticks
  BY DEF InWindow
<1>3. IsFiniteSet(InWindow)
  BY <1>1, <1>2, FS_Subset
<1>4. \A t \in InWindow : failures[t] \in Nat
  BY <1>2 DEF TypeOK
<1>5. Since(failures, Window) = SumFunctionOnSet(failures, InWindow)
  BY DEF Since, InWindow
<1>6. SumFunctionOnSet(failures, InWindow) \in Nat
  BY <1>3, <1>4, SumMonotone
<1> QED
  BY <1>1, <1>3, <1>4, <1>5, <1>6

\* No more requests are guessing than there are handlers.
LEMMA GuessingFacts ==
  /\ IsFiniteSet(Guessing) /\ IsFiniteSet(Handlers)
  /\ Cardinality(Guessing) \in Nat /\ Cardinality(Handlers) \in Nat \ {0}
  /\ Cardinality(Guessing) <= Cardinality(Handlers)
<1>1. IsFiniteSet(Handlers) /\ Handlers # {}
  BY HandlersAssumption
<1>2. Guessing \in SUBSET Handlers
  BY DEF Guessing
<1>3. IsFiniteSet(Guessing) /\ Cardinality(Guessing) <= Cardinality(Handlers)
  BY <1>1, <1>2, FS_Subset
<1>4. Cardinality(Guessing) \in Nat /\ Cardinality(Handlers) \in Nat /\ Cardinality(Handlers) # 0
  BY <1>1, <1>3, FS_CardinalityType, FS_EmptySet
<1> QED
  BY <1>1, <1>3, <1>4

\* The bound holds at first.
LEMMA InitBounded == Init => Bounded
<1> SUFFICES ASSUME Init PROVE Bounded
  OBVIOUS
<1>1. Typed /\ TypeOK
  BY InitTyped DEF Typed
<1>2. \A t \in Ticks : failures[t] = 0
  BY DEF Init
<1>3. Guessing = {}
  BY IdleTyped DEF Init, Guessing
<1>4. Since(failures, Window) = 0
  <2>1. InWindow = {} \/ InWindow # {}
    OBVIOUS
  <2>2. IsFiniteSet(InWindow) /\ \A t \in InWindow : failures[t] = 0
    BY <1>1, <1>2, WindowFacts DEF InWindow
  <2>3. SumFunctionOnSet(failures, InWindow) = 0
    BY <2>2, SumZero
  <2> QED
    BY <1>1, <2>3, WindowFacts
<1>5. \A h \in Handlers : request[h].since <= clock
  BY DEF Init, Idle
<1>6. MaxFailed + Cardinality(Handlers) - 1 \in Nat
  BY GuessingFacts, ConstantsAssumption
<1>7. Cardinality(Guessing) = 0
  BY <1>3, FS_EmptySet
<1> QED
  BY <1>1, <1>2, <1>4, <1>5, <1>6, <1>7 DEF Bounded

\* A request is let in: the window holds fewer failures than the limit.
LEMMA LetIn ==
  ASSUME Bounded, Typed', NEW h \in Handlers, ~LockedOut,
         request'[h].since = clock,
         \A g \in Handlers : g # h => request'[g] = request[g],
         UNCHANGED <<clock, failures>>
  PROVE  Bounded'
<1>1. TypeOK
  BY DEF Bounded, Typed
<1>2. Since(failures, Window) < MaxFailed
  BY <1>1, WindowFacts, ConstantsAssumption DEF LockedOut
<1>3. Since(failures, Window)' = Since(failures, Window)
  BY DEF Since
<1>4. Cardinality(Guessing') \in Nat /\ Cardinality(Guessing') <= Cardinality(Handlers)
  <2>1. Guessing' \in SUBSET Handlers
    BY DEF Guessing
  <2> QED
    BY <2>1, GuessingFacts, FS_Subset, FS_CardinalityType
<1>5. Since(failures, Window) \in Nat
  BY <1>1, WindowFacts
<1>6. (Since(failures, Window) + Cardinality(Guessing) <= MaxFailed + Cardinality(Handlers) - 1)'
  BY <1>2, <1>3, <1>4, <1>5, GuessingFacts, ConstantsAssumption
<1>7. (\A g \in Handlers : request[g].since <= clock)'
  <2>1. clock \in Nat
    BY <1>1, ConstantsAssumption DEF TypeOK, Ticks
  <2>2. ASSUME NEW g \in Handlers PROVE request'[g].since <= clock
    BY <2>1 DEF Bounded
  <2> QED
    BY <2>2
<1> QED
  BY <1>6, <1>7 DEF Bounded

\* A request goes on, past its PIN or to its end, and nothing is recorded
\* against the operator.
LEMMA GoesOn ==
  ASSUME Bounded, Typed', UNCHANGED <<clock, failures>>,
         \A g \in Handlers : request'[g].since <= clock,
         Guessing' \subseteq Guessing
  PROVE  Bounded'
<1>1. TypeOK
  BY DEF Bounded, Typed
<1>2. Since(failures, Window)' = Since(failures, Window)
  BY DEF Since
<1>3. Cardinality(Guessing') \in Nat /\ Cardinality(Guessing') <= Cardinality(Guessing)
  BY GuessingFacts, FS_Subset, FS_CardinalityType
<1>4. Since(failures, Window) \in Nat
  BY <1>1, WindowFacts
<1>5. (Since(failures, Window) + Cardinality(Guessing) <= MaxFailed + Cardinality(Handlers) - 1)'
  BY <1>2, <1>3, <1>4, GuessingFacts, ConstantsAssumption DEF Bounded
<1> QED
  BY <1>5 DEF Bounded

\* A wrong PIN is recorded: one failure more at most, one guess less.
LEMMA WrongPinBounded ==
  ASSUME Bounded, Typed', NEW h \in Handlers, WrongPin(h)
  PROVE  Bounded'
<1>1. TypeOK /\ TypeOK'
  BY DEF Bounded, Typed
<1> DEFINE at == request[h].since
<1>2. /\ at \in Ticks /\ at <= clock
      /\ failures' = [failures EXCEPT ![at] = @ + 1]
      /\ request' = [request EXCEPT ![h] = Idle]
      /\ UNCHANGED clock
      /\ h \in Guessing
  BY <1>1 DEF Bounded, TypeOK, WrongPin, Record, Guessing
<1> HIDE DEF at
<1>3. InWindow' = InWindow
  BY <1>2 DEF InWindow
<1>4. \A t \in InWindow : failures[t] \in Int /\ failures'[t] \in Int
  BY <1>1 DEF TypeOK, InWindow
<1>5. Since(failures, Window)' = SumFunctionOnSet(failures', InWindow)
  BY <1>2 DEF Since, InWindow
<1>6. /\ Since(failures, Window)' \in Int
      /\ Since(failures, Window)' <= Since(failures, Window) + 1
  <2>1. CASE at \in InWindow
    <3>1. \A t \in InWindow : t # at => failures'[t] = failures[t]
      BY <1>1, <1>2 DEF TypeOK, InWindow
    <3>2. SumFunctionOnSet(failures', InWindow)
            = SumFunctionOnSet(failures, InWindow) - failures[at] + failures'[at]
      BY <1>1, <1>4, <2>1, <3>1, WindowFacts, SumUpdate
    <3>3. failures'[at] = failures[at] + 1 /\ failures[at] \in Nat
      BY <1>1, <1>2 DEF TypeOK
    <3> QED
      BY <1>1, <1>5, <3>2, <3>3, WindowFacts
  <2>2. CASE at \notin InWindow
    <3>1. \A t \in InWindow : failures[t] \in Int /\ failures'[t] = failures[t]
      BY <1>1, <1>2, <2>2 DEF TypeOK, InWindow
    <3>2. SumFunctionOnSet(failures, InWindow) = SumFunctionOnSet(failures', InWindow)
      BY <1>1, <3>1, WindowFacts, SumCongruence
    <3> QED
      BY <1>1, <1>5, <3>2, WindowFacts
  <2> QED
    BY <2>1, <2>2
<1>7. Cardinality(Guessing') = Cardinality(Guessing) - 1
  <2>1. Guessing' = Guessing \ {h}
    BY <1>1, <1>2, IdleTyped DEF Guessing, TypeOK
  <2> QED
    BY <2>1, <1>2, GuessingFacts, FS_RemoveElement
<1>8. (Since(failures, Window) + Cardinality(Guessing) <= MaxFailed + Cardinality(Handlers) - 1)'
  <2>1. Since(failures, Window) \in Int
    BY <1>1, WindowFacts
  <2> QED
    BY <1>6, <1>7, <2>1, GuessingFacts, ConstantsAssumption DEF Bounded
<1>9. (\A t \in Ticks : t > clock => failures[t] = 0)'
  BY <1>1, <1>2 DEF Bounded, TypeOK, Ticks
<1>10. (\A g \in Handlers : request[g].since <= clock)'
  BY <1>1, <1>2 DEF Bounded, TypeOK, Idle, Ticks
<1> QED
  BY <1>8, <1>9, <1>10 DEF Bounded

\* The window moves on: it may lose failures, and the tick it gains has none.
LEMMA TickBounded ==
  ASSUME Bounded, Typed', Tick
  PROVE  Bounded'
<1>1. TypeOK /\ TypeOK'
  BY DEF Bounded, Typed
<1>2. clock' = clock + 1 /\ clock \in Nat /\ UNCHANGED <<failures, request>>
  BY <1>1 DEF Tick, TypeOK, Ticks, attempts
<1> DEFINE W == InWindow' \ {clock + 1}
<1>3. W \in SUBSET InWindow
  BY <1>2, ConstantsAssumption DEF InWindow, Ticks
<1>4. SumFunctionOnSet(failures, W) \in Nat /\ SumFunctionOnSet(failures, W) <= SumFunctionOnSet(failures, InWindow)
  BY <1>1, <1>3, WindowFacts, SumMonotone
<1>5. SumFunctionOnSet(failures, InWindow') = SumFunctionOnSet(failures, W)
  <2>1. CASE clock + 1 \in InWindow'
    <3>1. failures[clock + 1] = 0
      BY <1>2, <2>1 DEF Bounded, InWindow
    <3>2. IsFiniteSet(InWindow')
      BY <1>1, WindowFacts, FS_Subset DEF InWindow
    <3>3. \A t \in InWindow' : failures[t] \in Int
      BY <1>1 DEF TypeOK, InWindow
    <3>4. SumFunctionOnSet(failures, InWindow') = SumFunctionOnSet(failures, W) + failures[clock + 1]
      BY <2>1, <3>2, <3>3, SumRemove
    <3> QED
      BY <1>4, <3>1, <3>4
  <2>2. CASE clock + 1 \notin InWindow'
    <3>1. W = InWindow'
      BY <2>2
    <3> QED
      BY <3>1
  <2> QED
    BY <2>1, <2>2
<1>6. Since(failures, Window)' = SumFunctionOnSet(failures, InWindow')
  BY <1>2 DEF Since, InWindow
<1>7. Guessing' = Guessing
  BY <1>2 DEF Guessing
<1>8. (Since(failures, Window) + Cardinality(Guessing) <= MaxFailed + Cardinality(Handlers) - 1)'
  <2>1. Since(failures, Window)' \in Nat /\ Since(failures, Window)' <= Since(failures, Window)
    BY <1>1, <1>4, <1>5, <1>6, WindowFacts
  <2>2. Since(failures, Window) \in Nat
    BY <1>1, WindowFacts
  <2> QED
    BY <1>7, <2>1, <2>2, GuessingFacts, ConstantsAssumption DEF Bounded
<1>9. (\A t \in Ticks : t > clock => failures[t] = 0)'
  BY <1>1, <1>2 DEF Bounded, TypeOK, Ticks
<1>10. (\A g \in Handlers : request[g].since <= clock)'
  BY <1>1, <1>2 DEF Bounded, TypeOK, Ticks
<1> QED
  BY <1>8, <1>9, <1>10 DEF Bounded

\* Every step keeps the bound.
LEMMA BoundedKeeps == Bounded /\ [Next]_vars => Bounded'
<1> SUFFICES ASSUME Bounded, [Next]_vars PROVE Bounded'
  OBVIOUS
<1>1. Typed' /\ TypeOK
  BY NextTyped DEF Bounded, Typed
<1>2. ASSUME NEW h \in Handlers, NEW what, NEW o, NEW p, NEW new, ~LockedOut,
             Verifying(h, what, o, p, new)
      PROVE  Bounded'
  <2>1. request'[h].since = clock /\ \A g \in Handlers : g # h => request'[g] = request[g]
    BY <1>1, <1>2 DEF Verifying, TypeOK, Idle
  <2> QED
    BY <1>1, <1>2, <2>1, LetIn DEF Verifying, attempts
<1>3. ASSUME UNCHANGED <<clock, failures, request>> PROVE Bounded'
  <2>1. Guessing' = Guessing /\ \A g \in Handlers : request'[g].since <= clock
    BY <1>3 DEF Guessing, Bounded
  <2> QED
    BY <1>1, <1>3, <2>1, GoesOn
<1>4. ASSUME NEW h \in Handlers, UNCHANGED <<clock, failures>>,
             \A g \in Handlers : g # h => request'[g] = request[g],
             request'[h].at \notin {"authorizing", "unlocking", "changing"},
             request'[h].since = request[h].since \/ request'[h].since = 0
      PROVE  Bounded'
  <2>1. Guessing' \subseteq Guessing
    BY <1>4 DEF Guessing
  <2>2. ASSUME NEW g \in Handlers PROVE request'[g].since <= clock
    <3>1. clock \in Nat
      BY <1>1, ConstantsAssumption DEF TypeOK, Ticks
    <3> QED
      BY <1>4, <3>1 DEF Bounded
  <2> QED
    BY <1>1, <1>4, <2>1, <2>2, GoesOn
<1>5. CASE Operator
  BY <1>2, <1>3, <1>5 DEF Operator, GetOrder, CancelOrder, CreatePendingOrder, BeginUnlock,
       BeginAuthorize, BeginChangePin, attempts
<1>6. ASSUME NEW h \in Handlers, Handle(h) \/ Abandon(h) PROVE Bounded'
  <2>1. CASE WrongPin(h)
    BY <1>1, <2>1, WrongPinBounded
  <2>2. CASE Unlock(h) \/ UpdatePin(h) \/ FinishOrder(h) \/ Abandon(h)
    <3>1. request' = [request EXCEPT ![h] = Idle] /\ UNCHANGED <<clock, failures>>
      BY <2>2 DEF Unlock, UpdatePin, FinishOrder, Abandon, attempts
    <3> QED
      BY <1>1, <1>4, <3>1 DEF TypeOK, Idle
  <2>3. CASE DeriveNewPin(h)
    <3>1. /\ request' = [request EXCEPT ![h] = Idle] \/ request' = [request EXCEPT ![h].at = "deriving"]
          /\ UNCHANGED <<clock, failures>>
      BY <1>1, <2>3 DEF DeriveNewPin, attempts, TypeOK
    <3> QED
      BY <1>1, <1>4, <3>1 DEF TypeOK, Idle
  <2>4. CASE AuthorizeOrder(h)
    <3>1. request' = [request EXCEPT ![h].at = "selling"] /\ UNCHANGED <<clock, failures>>
      BY <2>4 DEF AuthorizeOrder
    <3> QED
      BY <1>1, <1>4, <3>1 DEF TypeOK
  <2>5. ASSUME NEW refused \in BOOLEAN, CreateSale(h, refused) PROVE Bounded'
    <3>1. /\ request'[h].at = "selling" /\ request'[h].since = request[h].since
          /\ \A g \in Handlers : g # h => request'[g] = request[g]
          /\ UNCHANGED <<clock, failures>>
      BY <1>1, <2>5 DEF CreateSale, TypeOK, attempts
    <3> QED
      BY <1>4, <3>1
  <2> QED
    BY <1>6, <2>1, <2>2, <2>3, <2>4, <2>5 DEF Handle
<1>7. CASE \/ \E o \in Orders, v \in Vouchers : SaleFails(o, v)
           \/ Spend \/ UNCHANGED vars
  BY <1>3, <1>7 DEF SaleFails, Spend, vars, attempts
<1>8. CASE Tick
  BY <1>1, <1>8, TickBounded
<1> QED
  BY <1>5, <1>6, <1>7, <1>8 DEF Next

\* However many requests are served at once, the wrong PINs of one window are
\* at most what the policy allows and one for every other request (the count
\* is read before the PIN is verified and written after).
THEOREM GuessesAreLimited == Spec => []WrongPinsAreBounded
<1>1. Bounded => WrongPinsAreBounded
  <2> SUFFICES ASSUME Bounded PROVE WrongPinsAreBounded
    OBVIOUS
  <2>1. TypeOK
    BY DEF Bounded, Typed
  <2> QED
    BY <2>1, WindowFacts, GuessingFacts, ConstantsAssumption DEF Bounded, WrongPinsAreBounded
<1> QED
  BY <1>1, InitBounded, BoundedKeeps, PTL DEF Spec
=============================================================================
