---------------------------- MODULE SoftwareFee ----------------------------
(***************************************************************************)
(* The monthly software fee: what every worker does after every sweep,     *)
(* against administrators who edit the policy, suspend shops and waive     *)
(* debts, and shops that spend their balance.                              *)
(*                                                                         *)
(* A run is synchronous within its process and is interleaved, between two *)
(* statements that commit, with every other process on the database.  One  *)
(* charge is one BEGIN IMMEDIATE transaction.                              *)
(***************************************************************************)
EXTENDS Integers, FiniteSets

CONSTANTS
  Workers,
  Shops,
  Deployed,       \* the month in which the code that charges first runs
  LastMonth,      \* bound: the calendar stops here
  Fees,           \* bound: the amounts an administrator may set
  MaxBalance      \* bound on a shop's selling balance

ASSUME ConstantsAssumption ==
  /\ Deployed \in Nat \ {0}
  /\ LastMonth \in Nat
  /\ Deployed <= LastMonth
  /\ Fees \subseteq Nat
  /\ MaxBalance \in Nat

Months  == 1..LastMonth
NoMonth == 0

VARIABLES
  month,     \* periodOf(now)
  enabled,   \* platform_fee_settings.software_fee_enabled
  fee,       \* platform_fee_settings.software_fee_minor
  first,     \* platform_fee_settings.software_fee_first_period
  form,      \* the row read by a console request that has yet to write it
  active,    \* merchants.status = 'ACTIVE'
  balance,   \* the MERCHANT_AVAILABLE projection
  status,    \* software_fee_charges.status, "NONE" without a row
  owed,      \* software_fee_charges.amount_minor
  debits,    \* postings of FEE_DEBIT for the shop and the period
  run        \* where each worker stands in its run

policy  == <<enabled, fee, first>>
charges == <<status, owed, debits>>
vars    == <<month, policy, form, active, balance, charges, run>>

\* The period is part of an arrears row's identity, the amount is read with it.
Arrears == Shops \X Months \X Nat

NoForm == -1

\* seen: the policy as the run read it;  left: shops to charge for period due;
\* debts: outstanding rows to retry.
Idle == [at |-> "idle", due |-> NoMonth, seen |-> <<FALSE, 0>>, left |-> {}, debts |-> {}]

Init ==
  /\ month   = Deployed
  /\ enabled \in BOOLEAN
  /\ fee     \in Fees
  /\ first   = NoMonth
  /\ form    = NoForm
  /\ active  = Shops
  /\ balance = [s \in Shops |-> 0]
  /\ status  = [s \in Shops |-> [m \in Months |-> "NONE"]]
  /\ owed    = [s \in Shops |-> [m \in Months |-> 0]]
  /\ debits  = [s \in Shops |-> [m \in Months |-> 0]]
  /\ run     = [w \in Workers |-> Idle]

-----------------------------------------------------------------------------
(* One charge: chargeSoftwareFee.                                          *)

Put(f, s, m, value) == [f EXCEPT ![s][m] = value]

\* The row keeps the amount it was inserted with.
Amount(s, m, amount) == IF status[s][m] = "NONE" THEN amount ELSE owed[s][m]

\* The charge for a row that is missing or in arrears.
Settle(s, m, amount) ==
  \/ /\ balance[s] < amount
     /\ status' = Put(status, s, m, "ARREARS")
     /\ owed'   = Put(owed, s, m, Amount(s, m, amount))
     /\ UNCHANGED <<balance, debits>>
  \/ /\ balance[s] >= amount
     /\ balance' = [balance EXCEPT ![s] = @ - amount]
     /\ status'  = Put(status, s, m, "PAID")
     /\ owed'    = Put(owed, s, m, Amount(s, m, amount))
     /\ debits'  = Put(debits, s, m, debits[s][m] + 1)

\* Mutant: only a paid row is left alone.  The upsert leaves the waived one as
\* it is; the posting is made all the same.
ChargeWaived(s, m, amount) ==
  \/ status[s][m] = "PAID" /\ UNCHANGED <<balance, charges>>
  \/ status[s][m] \in {"NONE", "ARREARS"} /\ Settle(s, m, amount)
  \/ /\ status[s][m] = "WAIVED"
     /\ balance[s] >= amount
     /\ balance' = [balance EXCEPT ![s] = @ - amount]
     /\ debits'  = Put(debits, s, m, debits[s][m] + 1)
     /\ UNCHANGED <<status, owed>>
  \/ status[s][m] = "WAIVED" /\ balance[s] < amount /\ UNCHANGED <<balance, charges>>

\* Mutant: the existing row is not looked at.
ChargeWithoutLooking(s, m, amount) ==
  \/ status[s][m] \in {"NONE", "ARREARS"} /\ Settle(s, m, amount)
  \/ /\ status[s][m] \in {"PAID", "WAIVED"}
     /\ balance[s] >= amount
     /\ balance' = [balance EXCEPT ![s] = @ - amount]
     /\ debits'  = Put(debits, s, m, debits[s][m] + 1)
     /\ UNCHANGED <<status, owed>>

\* Mutant: any row at all counts as charged already.
ChargeOnlyNew(s, m, amount) ==
  \/ status[s][m] # "NONE" /\ UNCHANGED <<balance, charges>>
  \/ status[s][m] = "NONE" /\ Settle(s, m, amount)

\* The row is read again inside the transaction: whatever the run saw before,
\* one that is paid or waived by now is ALREADY_CHARGED.
Charge(s, m, amount) ==
  \/ status[s][m] \in {"PAID", "WAIVED"} /\ UNCHANGED <<balance, charges>>
  \/ status[s][m] \in {"NONE", "ARREARS"} /\ Settle(s, m, amount)

-----------------------------------------------------------------------------
(* The run.                                                                *)

\* runDueSoftwareFees finds no first period, and writePlatformFeeSettings reads
\* the row whose other columns it is going to write back.
BeginFirst(w) ==
  /\ run[w].at = "idle"
  /\ first = NoMonth
  /\ run' = [run EXCEPT ![w] = [Idle EXCEPT !.at = "recording", !.due = month - 1,
                                            !.seen = <<enabled, fee>>]]
  /\ UNCHANGED <<month, policy, form, active, balance, charges>>

\* Mutant: the month that is due is recorded, not the one that is running.
RecordFirstDue(w) ==
  /\ run[w].at = "recording"
  /\ first'   = run[w].due
  /\ enabled' = run[w].seen[1]
  /\ fee'     = run[w].seen[2]
  /\ run'     = [run EXCEPT ![w] = Idle]
  /\ UNCHANGED <<month, form, active, balance, charges>>

\* The first run records the month it runs in and charges nothing.
RecordFirst(w) ==
  /\ run[w].at = "recording"
  /\ first'   = run[w].due + 1
  /\ enabled' = run[w].seen[1]
  /\ fee'     = run[w].seen[2]
  /\ run'     = [run EXCEPT ![w] = Idle]
  /\ UNCHANGED <<month, form, active, balance, charges>>

\* previousPeriod is due; the policy and the active shops are read once.  A run
\* with nothing to do ends where it began.
BeginRun(w) ==
  /\ run[w].at = "idle"
  /\ first # NoMonth
  /\ month - 1 >= first
  /\ enabled
  /\ fee > 0
  /\ run' = [run EXCEPT ![w] = [Idle EXCEPT !.at = "charging", !.due = month - 1,
                                            !.seen = <<TRUE, fee>>, !.left = active]]
  /\ UNCHANGED <<month, policy, form, active, balance, charges>>

ChargeDue(w, s) ==
  /\ run[w].at = "charging"
  /\ s \in run[w].left
  /\ Charge(s, run[w].due, run[w].seen[2])
  /\ run' = [run EXCEPT ![w].left = @ \ {s}]
  /\ UNCHANGED <<month, policy, form, active>>

\* outstandingSoftwareFees, without the period just charged.
Outstanding(due) ==
  {d \in {<<s, m, owed[s][m]>> : s \in Shops, m \in Months \ {due}} :
     status[d[1]][d[2]] = "ARREARS"}

ListArrears(w) ==
  /\ run[w].at = "charging"
  /\ run[w].left = {}
  /\ run' = [run EXCEPT ![w] = [Idle EXCEPT !.at = "retrying", !.debts = Outstanding(run[w].due)]]
  /\ UNCHANGED <<month, policy, form, active, balance, charges>>

\* Oldest period first; which of two shops comes first makes no difference.
Retry(w, d) ==
  /\ run[w].at = "retrying"
  /\ d \in run[w].debts
  /\ \A other \in run[w].debts : d[2] <= other[2]
  /\ Charge(d[1], d[2], d[3])
  /\ run' = [run EXCEPT ![w].debts = @ \ {d}]
  /\ UNCHANGED <<month, policy, form, active>>

EndRun(w) ==
  /\ run[w].at = "retrying"
  /\ run[w].debts = {}
  /\ run' = [run EXCEPT ![w] = Idle]
  /\ UNCHANGED <<month, policy, form, active, balance, charges>>

\* The run throws, which is logged and left to the next sweep, or the worker is
\* killed; the transaction it was in, if any, is rolled back.  (After its last
\* debt a run that dies has merely ended.)
Abandon(w) ==
  /\ run[w].at # "idle"
  /\ run[w].at = "retrying" => run[w].debts # {}
  /\ run' = [run EXCEPT ![w] = Idle]
  /\ UNCHANGED <<month, policy, form, active, balance, charges>>

-----------------------------------------------------------------------------
(* The console, the shops and the calendar.                                *)

\* POST /fees: writePlatformFeeSettings reads the row ...
OpenForm ==
  /\ form = NoForm
  /\ form' = first
  /\ UNCHANGED <<month, policy, active, balance, charges, run>>

\* ... and writes all of it, the first period as it was read.
SaveForm(on, amount) ==
  /\ form # NoForm
  /\ enabled' = on
  /\ fee'     = amount
  /\ first'   = form
  /\ form'    = NoForm
  /\ UNCHANGED <<month, active, balance, charges, run>>

\* waiveCharge.
Waive(s, m) ==
  /\ status[s][m] = "ARREARS"
  /\ status' = Put(status, s, m, "WAIVED")
  /\ UNCHANGED <<month, policy, form, active, balance, owed, debits, run>>

\* A shop is suspended, or reactivated.
SetActive(s) ==
  /\ active' = IF s \in active THEN active \ {s} ELSE active \cup {s}
  /\ UNCHANGED <<month, policy, form, balance, charges, run>>

\* Sales, deposits and transfers move the balance; none overdraws it.
Trade(s, amount) ==
  /\ amount # balance[s]
  /\ balance' = [balance EXCEPT ![s] = amount]
  /\ UNCHANGED <<month, policy, form, active, charges, run>>

\* A month ends.  Nobody dwells a month's end long between two statements of one
\* writePlatformFeeSettings; a run may well straddle it.
MonthEnds ==
  /\ month < LastMonth
  /\ form = NoForm
  /\ \A w \in Workers : run[w].at # "recording"
  /\ month' = month + 1
  /\ UNCHANGED <<policy, form, active, balance, charges, run>>

-----------------------------------------------------------------------------
RunStep(w) ==
  \/ BeginFirst(w) \/ RecordFirst(w) \/ BeginRun(w)
  \/ \E s \in Shops : ChargeDue(w, s)
  \/ ListArrears(w)
  \/ \E d \in run[w].debts : Retry(w, d)
  \/ EndRun(w)

Console ==
  \/ OpenForm
  \/ \E on \in BOOLEAN, amount \in Fees : SaveForm(on, amount)
  \/ \E s \in Shops, m \in Months : Waive(s, m)
  \/ \E s \in Shops : SetActive(s)

Next ==
  \/ \E w \in Workers : RunStep(w) \/ Abandon(w)
  \/ Console
  \/ \E s \in Shops, amount \in 0..MaxBalance : Trade(s, amount)
  \/ MonthEnds

Spec == Init /\ [][Next]_vars

\* A worker keeps sweeping and a run, if it is not cut short, goes on.
Fairness == \A w \in Workers : WF_vars(RunStep(w))

FairSpec == Spec /\ Fairness

-----------------------------------------------------------------------------
(* Properties.                                                             *)

Statuses == {"NONE", "ARREARS", "PAID", "WAIVED"}

RunType ==
  [at : {"idle", "recording", "charging", "retrying"}, due : 0..LastMonth,
   seen : BOOLEAN \X Nat, left : SUBSET Shops, debts : SUBSET Arrears]

\* Every variable has a value of its kind; for the balance that is a natural
\* number: chargeSoftwareFee never takes what the shop does not have.
TypeOK ==
  /\ month \in Months
  /\ enabled \in BOOLEAN
  /\ fee \in Nat
  /\ first \in 0..LastMonth
  /\ form \in {NoForm} \cup 0..LastMonth
  /\ active \subseteq Shops
  /\ balance \in [Shops -> Nat]
  /\ status \in [Shops -> [Months -> Statuses]]
  /\ owed \in [Shops -> [Months -> Nat]]
  /\ debits \in [Shops -> [Months -> Nat]]
  /\ run \in [Workers -> RunType]

\* A month is taken from a shop once, however many workers run and however often
\* they are cut short, and it is marked paid exactly when it was taken.
ChargedOnce ==
  \A s \in Shops, m \in Months :
    debits[s][m] = IF status[s][m] = "PAID" THEN 1 ELSE 0

\* Nobody is charged for a month that was over before the fee existed, or for one
\* that has not ended.
ChargedForFinishedMonths ==
  \A s \in Shops, m \in Months :
    status[s][m] # "NONE" => Deployed <= m /\ m < month

\* What was paid or waived is settled: a run that listed the debt before it was
\* waived, or before the other worker took it, does not collect it again.
SettledIsFinal ==
  [][\A s \in Shops, m \in Months :
       status[s][m] \in {"PAID", "WAIVED"} =>
         status'[s][m] = status[s][m] /\ debits'[s][m] = debits[s][m]]_vars

\* The fee is on, and the shop trades and can pay what any policy may ask: a due
\* month is retried at the amount in force, not at the amount of its row.
Collectable(s) ==
  /\ enabled
  /\ fee > 0
  /\ s \in active
  /\ \A amount \in Fees : balance[s] >= amount

\* From some moment on the shop can pay and runs are no longer cut short: then a
\* debt is collected (or waived), the one of the due month and every older one.
DebtIsCollected ==
  \A s \in Shops, m \in Months :
    (<>[]Collectable(s) /\ <>[][~\E w \in Workers : Abandon(w)]_vars)
      => []<>(status[s][m] # "ARREARS")

\* softwareFeeRun.ts: "Oldest first, so a shop that falls behind clears its debt
\* in the order it was incurred rather than having the newest month taken while
\* an older one ages indefinitely."
OldestFirst ==
  [][\A s \in Shops, m \in Months :
       debits'[s][m] > debits[s][m]
         => \A k \in 1..(m - 1) : status[s][k] # "ARREARS"]_vars

=============================================================================
