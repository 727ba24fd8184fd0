------------------------- MODULE SoftwareFeeProofs -------------------------
(***************************************************************************)
(* What SoftwareFee keeps for any number of workers, shops and months and  *)
(* any amounts.  The bounds of the model (LastMonth, MaxBalance, Fees) are *)
(* parameters here like the others.                                        *)
(***************************************************************************)
EXTENDS SoftwareFee, TLAPS

\* The months that may be charged: over, and not before the first run.
Chargeable == Deployed..(month - 1)

\* ChargedForFinishedMonths is not inductive: what a run holds in hand, and what
\* a settings write is about to put back, must be in range as well.  A run that
\* records the first period does so in the month it read.
InRange ==
  /\ Deployed <= month
  /\ first # NoMonth => Deployed <= first
  /\ form \notin {NoForm, NoMonth} => Deployed <= form
  /\ \A w \in Workers :
       /\ run[w].at = "recording" => run[w].due = month - 1
       /\ run[w].at = "charging" => run[w].due \in Chargeable
       /\ \A d \in run[w].debts : d[2] \in Chargeable

Inv == TypeOK /\ ChargedOnce /\ InRange /\ ChargedForFinishedMonths

-----------------------------------------------------------------------------
(* A charge, whoever makes it.                                             *)

\* Writing one row leaves a table of rows, and changes that row.
LEMMA PutRow ==
  ASSUME NEW S, NEW f \in [Shops -> [Months -> S]],
         NEW s \in Shops, NEW m \in Months, NEW value \in S
  PROVE  /\ Put(f, s, m, value) \in [Shops -> [Months -> S]]
         /\ \A t \in Shops, k \in Months :
              Put(f, s, m, value)[t][k] = IF t = s /\ k = m THEN value ELSE f[t][k]
  BY DEF Put

\* A charge leaves the tables it writes well typed.
LEMMA ChargeTypes ==
  ASSUME TypeOK, NEW s \in Shops, NEW m \in Months, NEW amount \in Nat,
         Charge(s, m, amount)
  PROVE  /\ balance' \in [Shops -> Nat]
         /\ status' \in [Shops -> [Months -> Statuses]]
         /\ owed' \in [Shops -> [Months -> Nat]]
         /\ debits' \in [Shops -> [Months -> Nat]]
<1>1. CASE status[s][m] \in {"PAID", "WAIVED"} /\ UNCHANGED <<balance, charges>>
  BY <1>1, Zenon DEF TypeOK, charges
<1>2. CASE status[s][m] \in {"NONE", "ARREARS"} /\ Settle(s, m, amount)
  <2>1. Amount(s, m, amount) \in Nat /\ debits[s][m] + 1 \in Nat /\ balance[s] \in Nat
    BY DEF TypeOK, Amount
  <2>2. /\ balance \in [Shops -> Nat]
        /\ status \in [Shops -> [Months -> Statuses]]
        /\ owed \in [Shops -> [Months -> Nat]]
        /\ debits \in [Shops -> [Months -> Nat]]
        /\ "ARREARS" \in Statuses /\ "PAID" \in Statuses
    BY DEF TypeOK, Statuses
  <2>3. /\ Put(status, s, m, "ARREARS") \in [Shops -> [Months -> Statuses]]
        /\ Put(status, s, m, "PAID") \in [Shops -> [Months -> Statuses]]
        /\ Put(owed, s, m, Amount(s, m, amount)) \in [Shops -> [Months -> Nat]]
        /\ Put(debits, s, m, debits[s][m] + 1) \in [Shops -> [Months -> Nat]]
    BY <2>1, <2>2, PutRow, Zenon
  <2>4. CASE balance[s] < amount
    BY <1>2, <2>1, <2>2, <2>3, <2>4 DEF Settle
  <2>5. CASE balance[s] >= amount
    <3>1. balance[s] - amount \in Nat
      BY <2>1, <2>5
    <3>2. balance' = [balance EXCEPT ![s] = @ - amount]
      BY <1>2, <2>1, <2>5 DEF Settle
    <3>3. balance' \in [Shops -> Nat]
      BY <2>2, <3>1, <3>2
    <3>4. QED
      BY <1>2, <2>1, <2>3, <2>5, <3>3 DEF Settle
  <2>6. QED
    BY <2>1, <2>4, <2>5
<1>3. QED
  BY <1>1, <1>2, Zenon DEF Charge

\* Only the row of the charge changes, it is never NONE afterwards, and it is
\* debited when it becomes PAID and only then.
LEMMA ChargeEffect ==
  ASSUME TypeOK, NEW s \in Shops, NEW m \in Months, NEW amount \in Nat,
         Charge(s, m, amount), NEW t \in Shops, NEW k \in Months
  PROVE  \/ status'[t][k] = status[t][k] /\ debits'[t][k] = debits[t][k]
         \/ /\ t = s /\ k = m
            /\ status[t][k] \in {"NONE", "ARREARS"}
            /\ \/ status'[t][k] = "ARREARS" /\ debits'[t][k] = debits[t][k]
               \/ status'[t][k] = "PAID" /\ debits'[t][k] = debits[t][k] + 1
<1>1. CASE status[s][m] \in {"PAID", "WAIVED"} /\ UNCHANGED <<balance, charges>>
  BY <1>1 DEF charges
<1>2. CASE status[s][m] \in {"NONE", "ARREARS"} /\ Settle(s, m, amount)
  <2>1. /\ status \in [Shops -> [Months -> Statuses]]
        /\ debits \in [Shops -> [Months -> Nat]]
        /\ debits[s][m] + 1 \in Nat
        /\ "ARREARS" \in Statuses /\ "PAID" \in Statuses
    BY DEF TypeOK, Statuses
  <2>2. Put(status, s, m, "ARREARS")[t][k] = IF t = s /\ k = m THEN "ARREARS" ELSE status[t][k]
    BY <2>1 DEF Put
  <2>3. Put(status, s, m, "PAID")[t][k] = IF t = s /\ k = m THEN "PAID" ELSE status[t][k]
    BY <2>1 DEF Put
  <2>4. Put(debits, s, m, debits[s][m] + 1)[t][k]
          = IF t = s /\ k = m THEN debits[s][m] + 1 ELSE debits[t][k]
    BY <2>1 DEF Put
  <2>5. CASE t = s /\ k = m
    BY <1>2, <2>2, <2>3, <2>4, <2>5 DEF Settle
  <2>6. CASE ~(t = s /\ k = m)
    BY <1>2, <2>2, <2>3, <2>4, <2>6 DEF Settle
  <2>7. QED
    BY <2>5, <2>6
<1>3. QED
  BY <1>1, <1>2, Zenon DEF Charge

-----------------------------------------------------------------------------
\* A worker between two runs.
LEMMA IdleType == Idle \in RunType /\ Idle.at = "idle" /\ Idle.debts = {}
<1>1. NoMonth \in 0..LastMonth /\ 0 \in Nat
  BY ConstantsAssumption DEF NoMonth
<1>2. <<FALSE, 0>> \in BOOLEAN \X Nat
  BY <1>1, Zenon
<1>3. QED
  BY <1>1, <1>2, Zenon DEF Idle, RunType

\* The invariant holds at first.
LEMMA InitInv == Init => Inv
<1>1. SUFFICES ASSUME Init PROVE Inv
  OBVIOUS
<1>2. TypeOK
  <2>2. /\ status \in [Shops -> [Months -> Statuses]]
        /\ owed \in [Shops -> [Months -> Nat]]
        /\ debits \in [Shops -> [Months -> Nat]]
        /\ balance \in [Shops -> Nat]
    BY <1>1 DEF Init, Statuses
  <2>3. run \in [Workers -> RunType]
    BY <1>1, IdleType DEF Init
  <2>4. /\ month \in Months
        /\ enabled \in BOOLEAN
        /\ fee \in Nat
        /\ first \in 0..LastMonth
        /\ form \in {NoForm} \cup 0..LastMonth
        /\ active \subseteq Shops
    BY <1>1, ConstantsAssumption DEF Init, Months, NoMonth, NoForm
  <2>5. QED
    BY <2>2, <2>3, <2>4 DEF TypeOK
<1>3. ChargedOnce
  BY <1>1 DEF Init, ChargedOnce
<1>4. InRange
  BY <1>1, ConstantsAssumption DEF Init, InRange, NoForm, NoMonth, Idle, Chargeable
<1>5. ChargedForFinishedMonths
  BY <1>1 DEF Init, ChargedForFinishedMonths
<1>6. QED
  BY <1>2, <1>3, <1>4, <1>5 DEF Inv

-----------------------------------------------------------------------------
(* Runs.                                                                   *)

\* One worker's place changes to another of its kind.
LEMMA RunMoves ==
  ASSUME TypeOK, NEW w \in Workers, NEW r \in RunType, run' = [run EXCEPT ![w] = r]
  PROVE  /\ run' \in [Workers -> RunType]
         /\ \A v \in Workers : run'[v] = IF v = w THEN r ELSE run[v]
  BY DEF TypeOK

\* A debt a run lists is one that could be charged.
LEMMA OutstandingInRange ==
  ASSUME TypeOK, ChargedForFinishedMonths, NEW due, NEW d \in Outstanding(due)
  PROVE  d \in Arrears /\ d[2] \in Chargeable
<1>1. PICK s \in Shops, m \in Months \ {due} :
        d = <<s, m, owed[s][m]>> /\ status[d[1]][d[2]] = "ARREARS"
  BY DEF Outstanding
<1>2. d[1] = s /\ d[2] = m /\ status[s][m] = "ARREARS"
  BY <1>1
<1>3. owed[s][m] \in Nat
  BY DEF TypeOK
<1>4. d \in Arrears
  BY <1>1, <1>3 DEF Arrears
<1>5. m \in Chargeable
  BY <1>2, ConstantsAssumption DEF ChargedForFinishedMonths, Chargeable, TypeOK, Months
<1>6. QED
  BY <1>2, <1>4, <1>5

\* A charge for a month that may be charged keeps what is said of the rows.
LEMMA ChargeKeepsRows ==
  ASSUME Inv, NEW s \in Shops, NEW m \in Months, NEW amount \in Nat,
         m \in Chargeable, Charge(s, m, amount), month' = month
  PROVE  ChargedOnce' /\ ChargedForFinishedMonths'
<1>1. SUFFICES ASSUME NEW t \in Shops, NEW k \in Months
               PROVE  /\ debits'[t][k] = IF status'[t][k] = "PAID" THEN 1 ELSE 0
                      /\ status'[t][k] # "NONE" => Deployed <= k /\ k < month'
  BY DEF ChargedOnce, ChargedForFinishedMonths
<1>2. /\ debits[t][k] = IF status[t][k] = "PAID" THEN 1 ELSE 0
      /\ status[t][k] # "NONE" => Deployed <= k /\ k < month
  BY DEF Inv, ChargedOnce, ChargedForFinishedMonths
<1>3. Deployed <= m /\ m < month
  BY ConstantsAssumption DEF Inv, TypeOK, Chargeable, Months
<1>4. CASE status'[t][k] = status[t][k] /\ debits'[t][k] = debits[t][k]
  BY <1>2, <1>4
<1>5. CASE /\ t = s /\ k = m
           /\ status[t][k] \in {"NONE", "ARREARS"}
           /\ \/ status'[t][k] = "ARREARS" /\ debits'[t][k] = debits[t][k]
              \/ status'[t][k] = "PAID" /\ debits'[t][k] = debits[t][k] + 1
  BY <1>2, <1>3, <1>5
<1>6. TypeOK
  BY DEF Inv
<1>7. QED
  BY <1>4, <1>5, <1>6, ChargeEffect

-----------------------------------------------------------------------------
(* The steps of a run.                                                     *)

\* The first run reads the policy.
LEMMA BeginFirstStep == ASSUME Inv, NEW w \in Workers, BeginFirst(w) PROVE Inv'
<1> DEFINE r == [Idle EXCEPT !.at = "recording", !.due = month - 1, !.seen = <<enabled, fee>>]
<1>1. month - 1 \in 0..LastMonth /\ <<enabled, fee>> \in BOOLEAN \X Nat
  BY ConstantsAssumption DEF Inv, TypeOK, Months
<1>2. r \in RunType /\ r.at = "recording" /\ r.due = month - 1 /\ r.debts = {}
  BY <1>1, IdleType DEF RunType
<1>3. run' = [run EXCEPT ![w] = r] /\ TypeOK
  BY DEF BeginFirst, Inv
<1> HIDE DEF r
<1>4. /\ run' \in [Workers -> RunType]
      /\ \A v \in Workers : run'[v] = IF v = w THEN r ELSE run[v]
  BY <1>2, <1>3, RunMoves, Zenon
<1>5. UNCHANGED <<month, policy, form, active, balance, charges>>
  BY DEF BeginFirst
<1>6. TypeOK'
  BY <1>3, <1>4, <1>5 DEF TypeOK, policy, charges
<1>7. ChargedOnce' /\ ChargedForFinishedMonths'
  BY <1>5 DEF Inv, ChargedOnce, ChargedForFinishedMonths, charges
<1>8. InRange'
  BY <1>2, <1>4, <1>5 DEF Inv, InRange, Chargeable, policy
<1>9. QED
  BY <1>6, <1>7, <1>8 DEF Inv

\* The first run writes the policy back.
LEMMA RecordFirstStep == ASSUME Inv, NEW w \in Workers, RecordFirst(w) PROVE Inv'
<1>1. run' = [run EXCEPT ![w] = Idle] /\ TypeOK
  BY DEF RecordFirst, Inv
<1>2. /\ run' \in [Workers -> RunType]
      /\ \A v \in Workers : run'[v] = IF v = w THEN Idle ELSE run[v]
  BY <1>1, IdleType, RunMoves, Zenon
<1>3. UNCHANGED <<month, form, active, balance, charges>> /\ first' = month
  <2>1. run[w].due = month - 1
    BY DEF RecordFirst, Inv, InRange
  <2>2. QED
    BY <2>1 DEF RecordFirst, Inv, TypeOK, Months
<1>4. enabled' \in BOOLEAN /\ fee' \in Nat
  <2>1. run[w].seen \in BOOLEAN \X Nat
    BY <1>1 DEF TypeOK, RunType
  <2>2. QED
    BY <2>1 DEF RecordFirst
<1>5. TypeOK'
  BY <1>1, <1>2, <1>3, <1>4 DEF TypeOK, charges, Months
<1>6. ChargedOnce' /\ ChargedForFinishedMonths'
  BY <1>3 DEF Inv, ChargedOnce, ChargedForFinishedMonths, charges
<1>7. InRange'
  BY <1>2, <1>3, IdleType DEF Inv, InRange, Chargeable
<1>8. QED
  BY <1>5, <1>6, <1>7 DEF Inv

\* A run begins.
LEMMA BeginRunStep == ASSUME Inv, NEW w \in Workers, BeginRun(w) PROVE Inv'
<1> DEFINE r == [Idle EXCEPT !.at = "charging", !.due = month - 1,
                             !.seen = <<TRUE, fee>>, !.left = active]
<1>1. /\ month - 1 \in 0..LastMonth
      /\ fee \in Nat
      /\ active \in SUBSET Shops
  BY ConstantsAssumption DEF Inv, TypeOK, Months
<1>2. <<TRUE, fee>> \in BOOLEAN \X Nat
  BY <1>1, Zenon
<1>3. r \in RunType /\ r.at = "charging" /\ r.due = month - 1 /\ r.debts = {}
  BY <1>1, <1>2, IdleType DEF RunType
<1>4. run' = [run EXCEPT ![w] = r] /\ TypeOK
  BY DEF BeginRun, Inv
<1> HIDE DEF r
<1>5. /\ run' \in [Workers -> RunType]
      /\ \A v \in Workers : run'[v] = IF v = w THEN r ELSE run[v]
  BY <1>3, <1>4, RunMoves, Zenon
<1>6. UNCHANGED <<month, policy, form, active, balance, charges>>
  BY DEF BeginRun
<1>7. TypeOK'
  BY <1>4, <1>5, <1>6 DEF TypeOK, policy, charges
<1>8. ChargedOnce' /\ ChargedForFinishedMonths'
  BY <1>6 DEF Inv, ChargedOnce, ChargedForFinishedMonths, charges
<1>9. month - 1 \in Chargeable
  BY ConstantsAssumption DEF Inv, InRange, BeginRun, TypeOK, Months, Chargeable
<1>10. InRange'
  BY <1>3, <1>5, <1>6, <1>9 DEF Inv, InRange, Chargeable, policy
<1>11. QED
  BY <1>7, <1>8, <1>10 DEF Inv

\* A run charges the due month.
LEMMA ChargeDueStep ==
  ASSUME Inv, NEW w \in Workers, NEW s \in Shops, ChargeDue(w, s) PROVE Inv'
<1> DEFINE r == [run[w] EXCEPT !.left = @ \ {s}]
<1>1. TypeOK /\ run[w] \in RunType
  BY DEF Inv, TypeOK
<1>2. r \in RunType /\ r.at = run[w].at /\ r.due = run[w].due /\ r.debts = run[w].debts
  BY <1>1 DEF RunType
<1>3. run' = [run EXCEPT ![w] = r]
  BY <1>1 DEF ChargeDue
<1> HIDE DEF r
<1>4. /\ run' \in [Workers -> RunType]
      /\ \A v \in Workers : run'[v] = IF v = w THEN r ELSE run[v]
  BY <1>1, <1>2, <1>3, RunMoves, Zenon
<1>5. UNCHANGED <<month, policy, form, active>>
  BY DEF ChargeDue
<1>6. run[w].due \in Chargeable
  BY DEF ChargeDue, Inv, InRange
<1>7. run[w].due \in Months /\ run[w].seen[2] \in Nat
  BY <1>1, <1>6, ConstantsAssumption DEF Chargeable, TypeOK, Months, RunType
<1>8. Charge(s, run[w].due, run[w].seen[2])
  BY DEF ChargeDue
<1>9. TypeOK'
  BY <1>1, <1>4, <1>5, <1>7, <1>8, ChargeTypes DEF TypeOK, policy
<1>10. ChargedOnce' /\ ChargedForFinishedMonths'
  BY <1>5, <1>6, <1>7, <1>8, ChargeKeepsRows
<1>11. InRange'
  BY <1>2, <1>4, <1>5 DEF Inv, InRange, Chargeable, policy
<1>12. QED
  BY <1>9, <1>10, <1>11 DEF Inv

\* A run lists the arrears.
LEMMA ListArrearsStep == ASSUME Inv, NEW w \in Workers, ListArrears(w) PROVE Inv'
<1> DEFINE debts == Outstanding(run[w].due)
           r     == [Idle EXCEPT !.at = "retrying", !.debts = debts]
<1>1. TypeOK /\ ChargedForFinishedMonths
  BY DEF Inv
<1>2. debts \in SUBSET Arrears /\ \A d \in debts : d[2] \in Chargeable
  BY <1>1, OutstandingInRange
<1> HIDE DEF debts
<1>3. r \in RunType /\ r.at = "retrying" /\ r.debts = debts
  BY <1>2, IdleType DEF RunType
<1>4. run' = [run EXCEPT ![w] = r]
  BY DEF ListArrears, debts
<1> HIDE DEF r
<1>5. /\ run' \in [Workers -> RunType]
      /\ \A v \in Workers : run'[v] = IF v = w THEN r ELSE run[v]
  BY <1>1, <1>3, <1>4, RunMoves, Zenon
<1>6. UNCHANGED <<month, policy, form, active, balance, charges>>
  BY DEF ListArrears
<1>7. TypeOK'
  BY <1>1, <1>5, <1>6 DEF TypeOK, policy, charges
<1>8. ChargedOnce' /\ ChargedForFinishedMonths'
  BY <1>6 DEF Inv, ChargedOnce, ChargedForFinishedMonths, charges
<1>9. InRange'
  BY <1>2, <1>3, <1>5, <1>6 DEF Inv, InRange, Chargeable, policy
<1>10. QED
  BY <1>7, <1>8, <1>9 DEF Inv

\* A run charges an old month.
LEMMA RetryStep ==
  ASSUME Inv, NEW w \in Workers, NEW d \in run[w].debts, Retry(w, d) PROVE Inv'
<1> DEFINE r == [run[w] EXCEPT !.debts = @ \ {d}]
<1>1. TypeOK /\ run[w] \in RunType
  BY DEF Inv, TypeOK
<1>2. /\ r \in RunType
      /\ r.at = run[w].at
      /\ r.due = run[w].due
      /\ r.debts \subseteq run[w].debts
  BY <1>1 DEF RunType
<1>3. run' = [run EXCEPT ![w] = r]
  BY <1>1 DEF Retry
<1> HIDE DEF r
<1>4. /\ run' \in [Workers -> RunType]
      /\ \A v \in Workers : run'[v] = IF v = w THEN r ELSE run[v]
  BY <1>1, <1>2, <1>3, RunMoves, Zenon
<1>5. UNCHANGED <<month, policy, form, active>>
  BY DEF Retry
<1>6. d \in Arrears /\ d[2] \in Chargeable
  BY <1>1 DEF Inv, InRange, RunType
<1>7. d[1] \in Shops /\ d[2] \in Months /\ d[3] \in Nat
  BY <1>6 DEF Arrears
<1>8. Charge(d[1], d[2], d[3])
  BY DEF Retry
<1>9. TypeOK'
  BY <1>1, <1>4, <1>5, <1>7, <1>8, ChargeTypes DEF TypeOK, policy
<1>10. ChargedOnce' /\ ChargedForFinishedMonths'
  BY <1>5, <1>6, <1>7, <1>8, ChargeKeepsRows
<1>11. InRange'
  BY <1>2, <1>4, <1>5 DEF Inv, InRange, Chargeable, policy
<1>12. QED
  BY <1>9, <1>10, <1>11 DEF Inv

\* EndRun and Abandon put the run away and touch nothing else.
LEMMA RunEnds ==
  ASSUME Inv, NEW w \in Workers, run' = [run EXCEPT ![w] = Idle],
         UNCHANGED <<month, policy, form, active, balance, charges>>
  PROVE  Inv'
<1>1. TypeOK
  BY DEF Inv
<1>2. /\ run' \in [Workers -> RunType]
      /\ \A v \in Workers : run'[v] = IF v = w THEN Idle ELSE run[v]
  BY <1>1, IdleType, RunMoves, Zenon
<1>3. TypeOK'
  BY <1>1, <1>2 DEF TypeOK, policy, charges
<1>4. ChargedOnce' /\ ChargedForFinishedMonths'
  BY DEF Inv, ChargedOnce, ChargedForFinishedMonths, charges
<1>5. InRange'
  BY <1>2, IdleType DEF Inv, InRange, Chargeable, policy
<1>6. QED
  BY <1>3, <1>4, <1>5 DEF Inv

-----------------------------------------------------------------------------
(* Everybody else.                                                         *)

\* Without a run or a row changing, only the policy is left to look at.
LEMMA ConsoleKeeps ==
  ASSUME Inv, UNCHANGED <<month, run, charges>>,
         enabled' \in BOOLEAN, fee' \in Nat, active' \subseteq Shops,
         balance' \in [Shops -> Nat],
         <<first', form'>> \in {<<first, form>>, <<first, first>>, <<form, NoForm>>},
         form = NoForm => first' = first
  PROVE  Inv'
<1>1. /\ first' \in 0..LastMonth
      /\ form' \in {NoForm} \cup 0..LastMonth
      /\ first' # NoMonth => Deployed <= first'
      /\ form' \notin {NoForm, NoMonth} => Deployed <= form'
  <2>1. CASE first' = first /\ form' = form
    BY <2>1 DEF Inv, TypeOK, InRange
  <2>2. CASE first' = first /\ form' = first
    BY <2>2 DEF Inv, TypeOK, InRange
  <2>3. CASE first' = form /\ form' = NoForm
    BY <2>3 DEF Inv, TypeOK, InRange
  <2>4. QED
    BY <2>1, <2>2, <2>3
<1>2. TypeOK'
  BY <1>1 DEF Inv, TypeOK, charges
<1>3. ChargedOnce' /\ ChargedForFinishedMonths'
  BY DEF Inv, ChargedOnce, ChargedForFinishedMonths, charges
<1>4. InRange'
  BY <1>1 DEF Inv, InRange, Chargeable
<1>5. QED
  BY <1>2, <1>3, <1>4 DEF Inv

\* The console edits the policy, a shop or a charge.
LEMMA ConsoleStep == ASSUME Inv, Console PROVE Inv'
<1>1. CASE OpenForm
  BY <1>1, ConsoleKeeps DEF OpenForm, Inv, TypeOK, policy
<1>2. ASSUME NEW on \in BOOLEAN, NEW amount \in Fees, SaveForm(on, amount) PROVE Inv'
  BY <1>2, ConstantsAssumption, ConsoleKeeps DEF SaveForm, Inv, TypeOK
<1>3. ASSUME NEW s \in Shops, NEW m \in Months, Waive(s, m) PROVE Inv'
  <2>1. /\ status \in [Shops -> [Months -> Statuses]]
        /\ "WAIVED" \in Statuses
        /\ status[s][m] = "ARREARS"
        /\ status' = Put(status, s, m, "WAIVED")
    BY <1>3 DEF Waive, Inv, TypeOK, Statuses
  <2>2. /\ status' \in [Shops -> [Months -> Statuses]]
        /\ \A t \in Shops, k \in Months :
             status'[t][k] = IF t = s /\ k = m THEN "WAIVED" ELSE status[t][k]
    BY <2>1 DEF Put
  <2>3. UNCHANGED <<month, policy, form, active, balance, owed, debits, run>>
    BY <1>3 DEF Waive
  <2>4. TypeOK'
    BY <2>2, <2>3 DEF Inv, TypeOK, policy
  <2>5. ChargedOnce'
    BY <2>1, <2>2, <2>3 DEF Inv, ChargedOnce
  <2>6. ChargedForFinishedMonths'
    BY <2>1, <2>2, <2>3 DEF Inv, ChargedForFinishedMonths
  <2>7. InRange'
    BY <2>3 DEF Inv, InRange, Chargeable, policy
  <2>8. QED
    BY <2>4, <2>5, <2>6, <2>7 DEF Inv
<1>4. ASSUME NEW s \in Shops, SetActive(s) PROVE Inv'
  BY <1>4, ConsoleKeeps DEF SetActive, Inv, TypeOK, policy
<1>5. QED
  BY <1>1, <1>2, <1>3, <1>4 DEF Console

\* A balance moves.
LEMMA TradeStep ==
  ASSUME Inv, NEW s \in Shops, NEW amount \in 0..MaxBalance, Trade(s, amount) PROVE Inv'
<1>1. amount \in Nat
  BY ConstantsAssumption
<1>2. balance' \in [Shops -> Nat]
  BY <1>1 DEF Trade, Inv, TypeOK
<1>3. QED
  BY <1>2, ConsoleKeeps DEF Trade, Inv, TypeOK, policy

\* A month ends.
LEMMA MonthEndsStep == ASSUME Inv, MonthEnds PROVE Inv'
<1>1. /\ month' = month + 1
      /\ month' \in Months
      /\ UNCHANGED <<policy, form, active, balance, charges, run>>
  BY ConstantsAssumption DEF MonthEnds, Inv, TypeOK, Months
<1>2. TypeOK'
  BY <1>1 DEF Inv, TypeOK, policy, charges
<1>3. ChargedOnce'
  BY <1>1 DEF Inv, ChargedOnce, charges
<1>4. ChargedForFinishedMonths'
  BY <1>1, ConstantsAssumption DEF Inv, TypeOK, Months, ChargedForFinishedMonths, charges
<1>5. month \in Int /\ Deployed \in Int
  BY ConstantsAssumption DEF Inv, TypeOK, Months
<1>6. Chargeable \subseteq Chargeable'
  BY <1>1, <1>5 DEF Chargeable
<1>7. InRange'
  BY <1>1, <1>5, <1>6 DEF MonthEnds, Inv, InRange, policy
<1>8. QED
  BY <1>2, <1>3, <1>4, <1>7 DEF Inv

-----------------------------------------------------------------------------
\* Every step keeps the invariant.
LEMMA StepInv == Inv /\ [Next]_vars => Inv'
<1> SUFFICES ASSUME Inv, [Next]_vars PROVE Inv'
  OBVIOUS
<1>1. ASSUME NEW w \in Workers, RunStep(w) PROVE Inv'
  <2>1. CASE BeginFirst(w)
    BY <2>1, BeginFirstStep
  <2>2. CASE RecordFirst(w)
    BY <2>2, RecordFirstStep
  <2>3. CASE BeginRun(w)
    BY <2>3, BeginRunStep
  <2>4. CASE \E s \in Shops : ChargeDue(w, s)
    BY <2>4, ChargeDueStep
  <2>5. CASE ListArrears(w)
    BY <2>5, ListArrearsStep
  <2>6. CASE \E d \in run[w].debts : Retry(w, d)
    BY <2>6, RetryStep
  <2>7. CASE EndRun(w)
    BY <2>7, RunEnds, Zenon DEF EndRun
  <2>8. QED
    BY <1>1, <2>1, <2>2, <2>3, <2>4, <2>5, <2>6, <2>7, Zenon DEF RunStep
<1>2. ASSUME NEW w \in Workers, Abandon(w) PROVE Inv'
  BY <1>2, RunEnds, Zenon DEF Abandon
<1>3. CASE UNCHANGED vars
  BY <1>3 DEF vars, policy, charges, Inv, TypeOK, ChargedOnce, InRange, Chargeable,
              ChargedForFinishedMonths
<1>4. QED
  BY <1>1, <1>2, <1>3, ConsoleStep, TradeStep, MonthEndsStep, Zenon DEF Next

\* Every variable keeps its type; in particular no shop is ever overdrawn.
THEOREM TypeCorrect == Spec => []TypeOK
<1>1. Inv => TypeOK
  BY DEF Inv
<1>2. QED
  BY <1>1, InitInv, StepInv, PTL DEF Spec

\* With any number of workers, and runs cut short anywhere, a shop pays a month
\* once, and it counts as paid exactly then.
THEOREM NobodyIsChargedTwice == Spec => []ChargedOnce
<1>1. Inv => ChargedOnce
  BY DEF Inv
<1>2. QED
  BY <1>1, InitInv, StepInv, PTL DEF Spec

\* Every charge goes through Charge, which reads the row again.
LEMMA RowsMoveForward ==
  ASSUME TypeOK, [Next]_vars, NEW t \in Shops, NEW k \in Months,
         status[t][k] \in {"PAID", "WAIVED"}
  PROVE  status'[t][k] = status[t][k] /\ debits'[t][k] = debits[t][k]
<1> DEFINE Kept == status'[t][k] = status[t][k] /\ debits'[t][k] = debits[t][k]
<1>1. ASSUME NEW s \in Shops, NEW m \in Months, NEW amount \in Nat, Charge(s, m, amount)
      PROVE  Kept
  BY <1>1, ChargeEffect
<1>2. ASSUME UNCHANGED charges PROVE Kept
  BY <1>2 DEF charges
<1>3. ASSUME NEW w \in Workers, NEW s \in Shops, ChargeDue(w, s) PROVE Kept
  <2>1. CASE run[w].due \in Months
    <3>1. run[w].seen[2] \in Nat
      BY DEF TypeOK, RunType
    <3>2. QED
      BY <1>1, <1>3, <2>1, <3>1 DEF ChargeDue
  <2>2. CASE run[w].due \notin Months
    BY <1>3, <2>2 DEF ChargeDue, Charge, Settle, charges, Put, TypeOK
  <2>3. QED
    BY <2>1, <2>2
<1>4. ASSUME NEW w \in Workers, NEW d \in run[w].debts, Retry(w, d) PROVE Kept
  <2>1. d[1] \in Shops /\ d[2] \in Months /\ d[3] \in Nat
    BY DEF TypeOK, RunType, Arrears
  <2>2. QED
    BY <1>1, <1>4, <2>1 DEF Retry
<1>5. ASSUME NEW s \in Shops, NEW m \in Months, Waive(s, m) PROVE Kept
  BY <1>5 DEF Waive, Put, TypeOK
<1> HIDE DEF Kept
<1>6. ASSUME NEW w \in Workers, RunStep(w) \/ Abandon(w) PROVE Kept
  BY <1>2, <1>3, <1>4, <1>6, Zenon
  DEF RunStep, Abandon, BeginFirst, RecordFirst, BeginRun, ListArrears, EndRun
<1>7. ASSUME Console PROVE Kept
  <2>1. CASE OpenForm
    BY <1>2, <2>1, Zenon DEF OpenForm
  <2>2. CASE \E on \in BOOLEAN, amount \in Fees : SaveForm(on, amount)
    BY <1>2, <2>2, Zenon DEF SaveForm
  <2>3. CASE \E s \in Shops : SetActive(s)
    BY <1>2, <2>3, Zenon DEF SetActive
  <2>4. QED
    BY <1>5, <1>7, <2>1, <2>2, <2>3, Zenon DEF Console
<1>8. ASSUME (\E s \in Shops, amount \in 0..MaxBalance : Trade(s, amount)) \/ MonthEnds
      PROVE  Kept
  BY <1>2, <1>8, Zenon DEF Trade, MonthEnds
<1>9. ASSUME UNCHANGED vars PROVE Kept
  BY <1>2, <1>9, Zenon DEF vars
<1>10. Kept
  BY <1>6, <1>7, <1>8, <1>9, Zenon DEF Next
<1>11. QED
  BY <1>10 DEF Kept

\* Paid and waived months stay as they are, whatever a run listed before.
THEOREM SettledStays == Spec => SettledIsFinal
<1>1. Inv /\ [Next]_vars =>
        [\A s \in Shops, m \in Months :
           status[s][m] \in {"PAID", "WAIVED"} =>
             status'[s][m] = status[s][m] /\ debits'[s][m] = debits[s][m]]_vars
  BY RowsMoveForward DEF Inv
<1>2. QED
  BY <1>1, InitInv, StepInv, PTL DEF Spec, SettledIsFinal

\* The fee never reaches back past its first month nor into a running one, even
\* when a settings write puts back a first period it read earlier.
THEOREM OnlyFinishedMonths == Spec => []ChargedForFinishedMonths
<1>1. Inv => ChargedForFinishedMonths
  BY DEF Inv
<1>2. QED
  BY <1>1, InitInv, StepInv, PTL DEF Spec

=============================================================================
