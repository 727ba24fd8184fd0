----------------------- MODULE RecoveryWorkerProofs -----------------------
(***************************************************************************)
(* What holds of the worker processes for every set of processes and       *)
(* sales, however they share ids and whatever fails.                       *)
(***************************************************************************)
EXTENDS RecoveryWorker, TLAPS

USE ConstantsAssumption

\* A process that has a transaction in hand knows which.
Busy == \A p \in Processes : at[p] \in {"asking", "failing"} => subject[p] \in Sales

Typed == TypeOK /\ Busy

-----------------------------------------------------------------------------
(* Ids.                                                                    *)

\* A draw stays within the bound.
LEMMA DrawTyped ==
  ASSUME TypeOK, NEW p \in Processes, NEW k \in Nat, Draw(p, k)
  PROVE  n' \in [Processes -> 0..MaxIds]
BY DEF TypeOK, Draw

\* The keys of the inserts are keys.
LEMMA InsertTyped ==
  ASSUME TypeOK, NEW p \in Processes,
         NEW keys \in SUBSET ({"audit", "post"} \X (Nat \ {0})), Insert(p, keys)
  PROVE  used' \subseteq {"audit", "post"} \X Ids \X (1..MaxIds)
<1>1. ASSUME NEW key \in keys, n[p] + key[2] <= MaxIds
      PROVE  Key(p, key[1], key[2]) \in {"audit", "post"} \X Ids \X (1..MaxIds)
  <2>1. key[1] \in {"audit", "post"} /\ key[2] \in Nat \ {0}  OBVIOUS
  <2>2. n[p] \in Nat /\ Id[p] \in Ids  BY DEF TypeOK, Ids
  <2>3. QED  BY <1>1, <2>1, <2>2 DEF Key
<1>2. QED  BY <1>1 DEF TypeOK, Insert

\* The last of the ids a unit of work draws.
LEMMA LastDrawIs ==
  /\ LastDraw({Audit(2)}) = 2
  /\ LastDraw({Post(2), Audit(3), Audit(4)}) = 4
<1>1. {key[2] : key \in {Audit(2)}} = {2}  BY DEF Audit
<1>2. {key[2] : key \in {Post(2), Audit(3), Audit(4)}} = {2, 3, 4}  BY DEF Audit, Post
<1>3. LastDraw({Audit(2)}) = 2
  BY <1>1 DEF LastDraw, Audit
<1>4. LastDraw({Post(2), Audit(3), Audit(4)}) = 4
  BY <1>2 DEF LastDraw, Audit, Post
<1>5. QED  BY <1>3, <1>4

\* The row ids a unit of work draws are ids.
LEMMA UnitKeysTyped ==
  ASSUME NEW keys \in UnitKeys
  PROVE  /\ keys \in SUBSET ({"audit", "post"} \X (Nat \ {0}))
         /\ keys \cup {Audit(1)} \in SUBSET ({"audit", "post"} \X (Nat \ {0}))
         /\ LastDraw(keys) \in Nat
BY LastDrawIs DEF UnitKeys, Audit, Post

\* The ids of audit events are ids.
LEMMA AuditsTyped ==
  /\ {Audit(1)} \in SUBSET ({"audit", "post"} \X (Nat \ {0}))
  /\ {Audit(2)} \in SUBSET ({"audit", "post"} \X (Nat \ {0}))
  /\ {Audit(1), Audit(2)} \in SUBSET ({"audit", "post"} \X (Nat \ {0}))
BY DEF Audit

-----------------------------------------------------------------------------
(* Types.                                                                  *)

\* An error that leaves the sweep leaves it to the fee run.
LEMMA ThrowTyped ==
  ASSUME Typed, NEW p \in Processes, NEW error \in Errors, Throw(p, error)
  PROVE  /\ at' = [at EXCEPT ![p] = "fees"]
         /\ raised' \in [Processes -> Errors \cup {"NONE"}]
         /\ batch' \in [Processes -> SUBSET Sales]
BY DEF Typed, TypeOK, Throw, Goto

\* Every step keeps the types.
LEMMA NextTyped == Typed /\ [Next]_vars => Typed'
<1> SUFFICES ASSUME Typed, [Next]_vars PROVE Typed'
  OBVIOUS
<1> USE DEF Typed, TypeOK, Busy, loop, scan, claims, bounds, Running, Statuses
<1>1. ASSUME NEW p \in Processes, BeginSweep(p) PROVE Typed'
  <2>1. n' \in [Processes -> 0..MaxIds]  BY <1>1, DrawTyped DEF BeginSweep
  <2>2. CASE Fresh(p, {Audit(2)})
    <3>1. used' \subseteq {"audit", "post"} \X Ids \X (1..MaxIds)
      BY <1>1, <2>2, InsertTyped, AuditsTyped DEF BeginSweep
    <3>2. /\ at' = [at EXCEPT ![p] = "sweeping"] /\ batch' \in [Processes -> SUBSET Sales]
          /\ UNCHANGED <<raised, loop, subject, sale, claims, bounds>>
      BY <1>1, <2>2 DEF BeginSweep, Goto
    <3>3. QED  BY <2>1, <3>1, <3>2
  <2>3. CASE ~Fresh(p, {Audit(2)})
    <3>1. Throw(p, "TRANSIENT") /\ UNCHANGED used  BY <1>1, <2>3 DEF BeginSweep
    <3>2. QED  BY <1>1, <2>1, <3>1, ThrowTyped DEF BeginSweep, Errors
  <2>4. QED  BY <2>2, <2>3
<1>2. ASSUME NEW p \in Processes, SweepThrows(p) PROVE Typed'
  <2>1. PICK error \in Errors : Throw(p, error)  BY <1>2 DEF SweepThrows
  <2>2. QED  BY <1>2, <2>1, ThrowTyped DEF SweepThrows
<1>3. ASSUME NEW p \in Processes, NEW s \in Sales, Claim(p, s) PROVE Typed'
  <2>1. n' \in [Processes -> 0..MaxIds]  BY <1>3, DrawTyped DEF Claim
  <2>2. used' \subseteq {"audit", "post"} \X Ids \X (1..MaxIds)
    BY <1>3, InsertTyped, AuditsTyped DEF Claim
  <2>3. holder' \in [Sales -> Ids \cup {NoWorker}] /\ expired' \in [Sales -> BOOLEAN]
    BY <1>3 DEF Claim, Take, Ids
  <2>4. at' = [at EXCEPT ![p] = "asking"] \/ at' = [at EXCEPT ![p] = "failing"]
    BY <1>3 DEF Claim, Goto
  <2>5. QED  BY <1>3, <2>1, <2>2, <2>3, <2>4 DEF Claim
<1>4. ASSUME NEW p \in Processes, NEW s \in Sales, ClaimThrows(p, s) PROVE Typed'
  <2>1. n' \in [Processes -> 0..MaxIds]  BY <1>4, DrawTyped DEF ClaimThrows
  <2>2. holder' \in [Sales -> Ids \cup {NoWorker}] /\ expired' \in [Sales -> BOOLEAN]
    BY <1>4 DEF ClaimThrows, Take, Ids
  <2>3. PICK error \in Errors : Throw(p, error)  BY <1>4 DEF ClaimThrows, Errors
  <2>4. faults' \in 0..MaxFaults  BY <1>4 DEF ClaimThrows
  <2>5. QED  BY <1>4, <2>1, <2>2, <2>3, <2>4, ThrowTyped DEF ClaimThrows
<1>5. ASSUME NEW p \in Processes, NEW s \in Sales, Skip(p, s) PROVE Typed'
  <2>1. CASE sale[s] # "stuck"  BY <1>5, <2>1 DEF Skip
  <2>2. CASE sale[s] = "stuck"
    <3>1. n' \in [Processes -> 0..MaxIds]  BY <1>5, <2>2, DrawTyped DEF Skip
    <3>2. CASE Fresh(p, {Audit(1)})
      <4>1. used' \subseteq {"audit", "post"} \X Ids \X (1..MaxIds)
        BY <1>5, <2>2, <3>2, InsertTyped, AuditsTyped DEF Skip
      <4>2. /\ batch' \in [Processes -> SUBSET Sales]
            /\ UNCHANGED <<at, raised, loop, subject, sale, claims, bounds>>
        BY <1>5, <2>2, <3>2 DEF Skip
      <4>3. QED  BY <3>1, <4>1, <4>2
    <3>3. CASE ~Fresh(p, {Audit(1)})
      <4>1. Throw(p, "TRANSIENT") /\ UNCHANGED used  BY <1>5, <2>2, <3>3 DEF Skip
      <4>2. QED  BY <1>5, <3>1, <4>1, ThrowTyped DEF Skip, Errors
    <3>4. QED  BY <3>2, <3>3
  <2>3. QED  BY <2>1, <2>2
<1>6. ASSUME NEW p \in Processes, Answer(p) PROVE Typed'
  <2>1. subject[p] \in Sales  BY <1>6 DEF Answer
  <2>2. n' \in [Processes -> 0..MaxIds] /\ used' \subseteq {"audit", "post"} \X Ids \X (1..MaxIds)
    <3>1. CASE sale[subject[p]] # "stuck"
      BY <1>6, <3>1, DrawTyped, InsertTyped, AuditsTyped DEF Answer
    <3>2. CASE sale[subject[p]] = "stuck"
      <4>1. PICK keys \in UnitKeys : Draw(p, LastDraw(keys)) /\ Insert(p, keys \cup {Audit(1)})
        BY <1>6, <3>2 DEF Answer
      <4>2. QED  BY <4>1, UnitKeysTyped, DrawTyped, InsertTyped
    <3>3. QED  BY <3>1, <3>2
  <2>3. sale' \in [Sales -> {"young", "stuck", "decided"}]  BY <1>6, <2>1 DEF Answer
  <2>4. holder' \in [Sales -> Ids \cup {NoWorker}]  BY <1>6 DEF Answer, ReleaseClaim
  <2>5. QED  BY <1>6, <2>1, <2>2, <2>3, <2>4 DEF Answer, Goto
<1>7. ASSUME NEW p \in Processes, AnswerThrows(p) PROVE Typed'
  <2>1. /\ n' \in [Processes -> 0..MaxIds] /\ used' \subseteq {"audit", "post"} \X Ids \X (1..MaxIds)
        /\ faults' \in 0..MaxFaults
    <3>1. CASE Draw(p, 1) /\ UNCHANGED <<used, faults>>  BY <3>1, DrawTyped
    <3>2. CASE /\ \E keys \in UnitKeys :
                    /\ Draw(p, IF Fresh(p, keys \ {Audit(4)}) THEN LastDraw(keys)
                               ELSE IF keys = {Audit(2)} THEN 2 ELSE 3)
                    /\ Insert(p, {Audit(1)})
               /\ UNCHANGED faults
      <4>1. PICK k \in Nat : Draw(p, k)  BY <3>2, UnitKeysTyped
      <4>2. QED  BY <3>2, <4>1, DrawTyped, InsertTyped, AuditsTyped
    <3>3. CASE faults > 0 /\ faults' = faults - 1 /\ UNCHANGED <<n, used>>  BY <3>3
    <3>4. QED  BY <1>7, <3>1, <3>2, <3>3, Zenon DEF AnswerThrows
  <2>2. QED  BY <1>7, <2>1 DEF AnswerThrows, Goto
<1>8. ASSUME NEW p \in Processes, RecordFailure(p) PROVE Typed'
  <2>1. n' \in [Processes -> 0..MaxIds]  BY <1>8, DrawTyped DEF RecordFailure
  <2>2. holder' \in [Sales -> Ids \cup {NoWorker}]  BY <1>8 DEF RecordFailure, ReleaseClaim
  <2>3. CASE Fresh(p, {Audit(1)})
    <3>1. used' \subseteq {"audit", "post"} \X Ids \X (1..MaxIds)
      BY <1>8, <2>3, InsertTyped, AuditsTyped DEF RecordFailure
    <3>2. QED  BY <1>8, <2>1, <2>2, <2>3, <3>1 DEF RecordFailure, Goto
  <2>4. CASE ~Fresh(p, {Audit(1)})
    <3>1. Throw(p, "TRANSIENT") /\ UNCHANGED used  BY <1>8, <2>4 DEF RecordFailure
    <3>2. /\ at' = [at EXCEPT ![p] = "fees"] /\ raised' \in [Processes -> Errors \cup {"NONE"}]
          /\ batch' \in [Processes -> SUBSET Sales]
      BY <3>1, ThrowTyped DEF Errors
    <3>3. /\ subject' = [subject EXCEPT ![p] = NoSale]
          /\ UNCHANGED <<loop, sale, expired, bounds>>
      BY <1>8 DEF RecordFailure
    <3>4. QED  BY <2>1, <2>2, <3>1, <3>2, <3>3
  <2>5. QED  BY <2>3, <2>4
<1>9. ASSUME NEW p \in Processes, EndBatch(p) PROVE Typed'
  BY <1>9 DEF EndBatch, Goto
<1>10. ASSUME NEW p \in Processes, FinishSweep(p) PROVE Typed'
  <2>1. n' \in [Processes -> 0..MaxIds]  BY <1>10, DrawTyped DEF FinishSweep
  <2>2. /\ failures' \in [Processes -> Nat] /\ status' \in [Processes -> Statuses]
        /\ stop' \in [Processes -> {"NONE", "SIGTERM", "FATAL_FAILURE"}]
    BY <1>10 DEF FinishSweep
  <2>3. at' = [at EXCEPT ![p] = "sleeping"] \/ at' = [at EXCEPT ![p] = "stopping"]
    BY <1>10 DEF FinishSweep, Goto
  <2>4. QED  BY <1>10, <2>1, <2>2, <2>3 DEF FinishSweep
<1>11. ASSUME NEW p \in Processes, Start(p) \/ Wake(p) \/ RequestStop(p) PROVE Typed'
  BY <1>11 DEF Start, Wake, RequestStop, Goto
<1>12. ASSUME NEW p \in Processes, Stop(p) PROVE Typed'
  BY <1>12 DEF Stop, Goto
<1>13. ASSUME NEW p \in Processes, StopThrows(p) \/ Crash(p) PROVE Typed'
  BY <1>13 DEF StopThrows, Crash, Goto
<1>14. ASSUME NEW s \in Sales, RowAges(s) \/ LeaseExpires(s) PROVE Typed'
  BY <1>14 DEF RowAges, LeaseExpires
<1>15. CASE UNCHANGED vars  BY <1>15 DEF vars
<1>16. QED
  BY <1>1, <1>2, <1>3, <1>4, <1>5, <1>6, <1>7, <1>8, <1>9, <1>10, <1>11, <1>12, <1>13, <1>14,
     <1>15 DEF Next, SweepStep, Fault, AnswerStep, LoopStep

\* The types always hold.
LEMMA TypedHolds == Spec => []Typed
<1>1. Init => Typed
  BY DEF Init, Typed, TypeOK, Busy, Running, Statuses
<1>2. QED  BY <1>1, NextTyped, PTL DEF Spec

\* TypeOK holds in every reachable state, whatever ids the processes share.
THEOREM TypeCorrect == Spec => []TypeOK
<1>1. Typed => TypeOK  BY DEF Typed
<1>2. QED  BY <1>1, TypedHolds, PTL

-----------------------------------------------------------------------------
(* What a step does to the process that takes it, and to the claims.       *)

\* The supervisor starts a process.
Begins(p) ==
  /\ at[p] = "off" /\ at'[p] = "ready"
  /\ \A q \in Processes \ {p} : Id[q] = Id[p] => at[q] \notin Running
  /\ status'[p] \in {status[p], "RUNNING"}
  /\ stop'[p] = stop[p] /\ subject'[p] = subject[p]
  /\ UNCHANGED holder

\* A live process goes on: it claims what is to be had, and lets go of what it holds.
Works(p) ==
  /\ at[p] \in Running \ {"stopping"} /\ at'[p] \in Running
  /\ at'[p] = "ready" => at[p] = "sleeping" /\ stop[p] = "NONE"
  /\ status'[p] # "FAILED" \/ status'[p] = status[p] \/ at'[p] = "stopping"
  /\ status'[p] = status[p] \/ at[p] = "fees"
  /\ stop[p] # "NONE" => stop'[p] = stop[p] /\ subject'[p] \in {subject[p], NoSale}
  /\ \A s \in Sales :
       \/ holder'[s] = holder[s]
       \/ holder'[s] = Id[p] /\ Claimable(s)
       \/ holder'[s] = NoWorker /\ holder[s] = Id[p] /\ at'[p] # "asking"

\* A live process ends, in good order or not.
Ends(p) ==
  /\ at[p] \in Running /\ at'[p] \in {"ended", "failed", "killed"}
  /\ status[p] = "FAILED" <=> status'[p] = "FAILED"
  /\ stop'[p] = stop[p] /\ subject'[p] \in {subject[p], NoSale}
  /\ IF at'[p] = "ended"
     THEN \A s \in Sales : holder'[s] = IF holder[s] = Id[p] THEN NoWorker ELSE holder[s]
     ELSE UNCHANGED holder

\* The others are where they were.
OthersRest(p) ==
  \A q \in Processes \ {p} :
    /\ at'[q] = at[q] /\ status'[q] = status[q]
    /\ stop'[q] = stop[q] /\ subject'[q] = subject[q]

Walks(p) == OthersRest(p) /\ (Begins(p) \/ Works(p) \/ Ends(p))

\* An error takes a process to its fee run.
LEMMA ThrowWalks ==
  ASSUME Typed, NEW p \in Processes, NEW error, Throw(p, error)
  PROVE  at' = [at EXCEPT ![p] = "fees"]
BY DEF Throw, Goto

\* Every step is the walk of one process, or touches no process and no claim.
LEMMA StepsAreWalks ==
  ASSUME Typed, [Next]_vars
  PROVE  \/ \E p \in Processes : Walks(p)
         \/ UNCHANGED <<at, status, stop, subject, holder>>
<1> USE DEF Typed, TypeOK, Busy, loop, scan, claims, bounds, Running, OthersRest
<1>1. ASSUME NEW p \in Processes, BeginSweep(p) PROVE Walks(p)
  <2>1. at' = [at EXCEPT ![p] = "sweeping"] \/ at' = [at EXCEPT ![p] = "fees"]
    BY <1>1 DEF BeginSweep, Throw, Goto
  <2>2. QED  BY <1>1, <2>1 DEF BeginSweep, Walks, Works
<1>2. ASSUME NEW p \in Processes, SweepThrows(p) PROVE Walks(p)
  <2>1. at' = [at EXCEPT ![p] = "fees"]  BY <1>2, ThrowWalks DEF SweepThrows
  <2>2. QED  BY <1>2, <2>1 DEF SweepThrows, Walks, Works
<1>3. ASSUME NEW p \in Processes, NEW s \in Sales, Claim(p, s) PROVE Walks(p)
  <2>1. at' = [at EXCEPT ![p] = "asking"] \/ at' = [at EXCEPT ![p] = "failing"]
    BY <1>3 DEF Claim, Goto
  <2>2. QED  BY <1>3, <2>1 DEF Claim, Take, Walks, Works
<1>4. ASSUME NEW p \in Processes, NEW s \in Sales, ClaimThrows(p, s) PROVE Walks(p)
  <2>1. at' = [at EXCEPT ![p] = "fees"]  BY <1>4, ThrowWalks DEF ClaimThrows
  <2>2. QED  BY <1>4, <2>1 DEF ClaimThrows, Take, Walks, Works
<1>5. ASSUME NEW p \in Processes, NEW s \in Sales, Skip(p, s) PROVE Walks(p)
  <2>1. at' = at \/ at' = [at EXCEPT ![p] = "fees"]  BY <1>5 DEF Skip, Throw, Goto
  <2>2. QED  BY <1>5, <2>1 DEF Skip, Walks, Works
<1>6. ASSUME NEW p \in Processes, Answer(p) PROVE Walks(p)
  BY <1>6 DEF Answer, ReleaseClaim, Goto, Walks, Works
<1>7. ASSUME NEW p \in Processes, AnswerThrows(p) PROVE Walks(p)
  <2>1. /\ at[p] = "asking" /\ at' = [at EXCEPT ![p] = "failing"]
        /\ UNCHANGED <<loop, scan, claims>>
    BY <1>7, Zenon DEF AnswerThrows, Goto
  <2>2. QED  BY <2>1 DEF Walks, Works
<1>8. ASSUME NEW p \in Processes, RecordFailure(p) PROVE Walks(p)
  <2>1. at' = [at EXCEPT ![p] = "sweeping"] \/ at' = [at EXCEPT ![p] = "fees"]
    BY <1>8 DEF RecordFailure, Throw, Goto
  <2>2. QED  BY <1>8, <2>1 DEF RecordFailure, ReleaseClaim, Walks, Works
<1>9. ASSUME NEW p \in Processes, EndBatch(p) PROVE Walks(p)
  BY <1>9 DEF EndBatch, Goto, Walks, Works
<1>10. ASSUME NEW p \in Processes, FinishSweep(p) PROVE Walks(p)
  <2>1. /\ at[p] = "fees" /\ UNCHANGED <<subject, holder>>
        /\ at' = [at EXCEPT ![p] = IF p \in Supervised /\ stop'[p] = "NONE"
                                   THEN "sleeping" ELSE "stopping"]
    BY <1>10 DEF FinishSweep, Goto
  <2>2. \/ status' = [status EXCEPT ![p] = "RUNNING"] /\ UNCHANGED stop
        \/ status' = [status EXCEPT ![p] = "BACKING_OFF"] /\ UNCHANGED stop
        \/ /\ status' = [status EXCEPT ![p] = "FAILED"]
           /\ stop' = [stop EXCEPT ![p] = IF @ = "NONE" THEN "FATAL_FAILURE" ELSE @]
    BY <1>10 DEF FinishSweep
  <2>3. QED  BY <2>1, <2>2 DEF Walks, Works
<1>11. ASSUME NEW p \in Processes, Start(p) PROVE Walks(p)
  BY <1>11 DEF Start, Goto, Walks, Begins
<1>12. ASSUME NEW p \in Processes, Wake(p) PROVE Walks(p)
  BY <1>12 DEF Wake, Goto, Walks, Works
<1>13. ASSUME NEW p \in Processes, RequestStop(p) PROVE Walks(p)
  BY <1>13 DEF RequestStop, Walks, Works
<1>14. ASSUME NEW p \in Processes, Stop(p) PROVE Walks(p)
  BY <1>14 DEF Stop, Goto, Walks, Ends, Statuses
<1>15. ASSUME NEW p \in Processes, StopThrows(p) \/ Crash(p) PROVE Walks(p)
  BY <1>15 DEF StopThrows, Crash, Goto, Walks, Ends
<1>16. ASSUME NEW s \in Sales, RowAges(s) \/ LeaseExpires(s)
       PROVE  UNCHANGED <<at, status, stop, subject, holder>>
  BY <1>16 DEF RowAges, LeaseExpires
<1>17. CASE UNCHANGED vars  BY <1>17 DEF vars
<1>18. QED
  BY <1>1, <1>2, <1>3, <1>4, <1>5, <1>6, <1>7, <1>8, <1>9, <1>10, <1>11, <1>12, <1>13, <1>14,
     <1>15, <1>16, <1>17 DEF Next, SweepStep, Fault, AnswerStep, LoopStep

-----------------------------------------------------------------------------
(* Claims, stops and fatal errors.                                         *)

\* Of the processes of one id at most one is alive.
Alone ==
  \A p, q \in Processes : Id[p] = Id[q] /\ {at[p], at[q]} \subseteq Running => p = q

\* A claim has somebody alive behind it, or somebody who died over it.
ClaimHasOwner ==
  \A s \in Sales : holder[s] # NoWorker =>
    \E p \in Processes : Id[p] = holder[s] /\ at[p] \in Running \cup {"failed", "killed"}

\* A process that met a fatal error is on its way out, and one that was never
\* started was never asked to stop.
OnItsWayOut ==
  \A p \in Processes :
    /\ status[p] = "FAILED" => at[p] \in {"stopping", "ended", "failed", "killed"}
    /\ at[p] = "off" => stop[p] = "NONE"

Orderly == Alone /\ ClaimHasOwner /\ OnItsWayOut

\* Every step keeps the order among processes.
LEMMA OrderlyStep == Typed /\ Orderly /\ [Next]_vars => Orderly'
<1> SUFFICES ASSUME Typed, Orderly, [Next]_vars PROVE Orderly'
  OBVIOUS
<1>1. CASE UNCHANGED <<at, status, stop, subject, holder>>
  BY <1>1 DEF Orderly, Alone, ClaimHasOwner, OnItsWayOut
<1>2. ASSUME NEW p \in Processes, Walks(p) PROVE Orderly'
  <2>0. \A q \in Processes \ {p} : at'[q] = at[q] /\ status'[q] = status[q] /\ stop'[q] = stop[q]
    BY <1>2 DEF Walks, OthersRest
  <2>1. Alone'
    <3>1. CASE Begins(p)  BY <2>0, <3>1 DEF Begins, Orderly, Alone, Running
    <3>2. CASE Works(p) \/ Ends(p)
      <4>1. at[p] \in Running  BY <3>2 DEF Works, Ends
      <4>2. QED  BY <2>0, <4>1 DEF Orderly, Alone
    <3>3. QED  BY <1>2, <3>1, <3>2 DEF Walks
  <2>2. ClaimHasOwner'
    <3> SUFFICES ASSUME NEW s \in Sales, holder'[s] # NoWorker
                 PROVE  \E q \in Processes :
                          Id[q] = holder'[s] /\ at'[q] \in Running \cup {"failed", "killed"}
      BY DEF ClaimHasOwner
    <3>1. CASE holder'[s] = holder[s] /\ ~(Ends(p) /\ at'[p] = "ended")
      <4>1. PICK q \in Processes : Id[q] = holder[s] /\ at[q] \in Running \cup {"failed", "killed"}
        BY <3>1 DEF Orderly, ClaimHasOwner
      <4>2. at'[q] \in Running \cup {"failed", "killed"}
        BY <1>2, <2>0, <3>1, <4>1 DEF Walks, Begins, Works, Ends, Running
      <4>3. QED  BY <3>1, <4>1, <4>2
    <3>2. CASE Ends(p) /\ at'[p] = "ended"
      <4>1. holder'[s] = holder[s] /\ holder[s] # Id[p]  BY <3>2 DEF Ends
      <4>2. PICK q \in Processes : Id[q] = holder[s] /\ at[q] \in Running \cup {"failed", "killed"}
        BY <4>1 DEF Orderly, ClaimHasOwner
      <4>3. QED  BY <2>0, <4>1, <4>2
    <3>3. CASE holder'[s] # holder[s] /\ ~(Ends(p) /\ at'[p] = "ended")
      <4>1. Works(p) /\ holder'[s] = Id[p]
        BY <1>2, <3>3 DEF Walks, Begins, Works, Ends
      <4>2. QED  BY <4>1 DEF Works
    <3>4. QED  BY <3>1, <3>2, <3>3
  <2>3. OnItsWayOut'
    <3> SUFFICES ASSUME NEW q \in Processes
                 PROVE  /\ status'[q] = "FAILED" => at'[q] \in {"stopping", "ended", "failed", "killed"}
                        /\ at'[q] = "off" => stop'[q] = "NONE"
      BY DEF OnItsWayOut
    <3>1. CASE q # p  BY <2>0, <3>1 DEF Orderly, OnItsWayOut
    <3>2. CASE q = p
      BY <1>2, <3>2 DEF Orderly, OnItsWayOut, Walks, Begins, Works, Ends, Running
    <3>3. QED  BY <3>1, <3>2
  <2>4. QED  BY <2>1, <2>2, <2>3 DEF Orderly
<1>3. QED  BY <1>1, <1>2, StepsAreWalks

\* The order among processes always holds.
LEMMA OrderlyHolds == Spec => []Orderly
<1>1. Init => Orderly
  BY DEF Init, Orderly, Alone, ClaimHasOwner, OnItsWayOut, Running
<1>2. QED  BY <1>1, OrderlyStep, TypedHolds, PTL DEF Spec

\* However claims were left behind on the way, processes that ended in good order
\* leave none under their id.
THEOREM ClaimsAreGivenBack == Spec => []NothingIsLeftHeld
<1>1. Typed /\ Orderly => NothingIsLeftHeld
  <2> SUFFICES ASSUME Typed, Orderly, NEW p \in Processes, NEW s \in Sales,
                      \A q \in Processes : Id[q] = Id[p] => at[q] \in {"off", "ended"},
                      holder[s] = Id[p]
               PROVE  FALSE
    BY DEF NothingIsLeftHeld
  <2>1. holder[s] # NoWorker  BY DEF Ids
  <2>2. QED  BY <2>1 DEF Orderly, ClaimHasOwner, Running
<1>2. QED  BY <1>1, OrderlyHolds, TypedHolds, PTL

\* A lookup under a live lease is never intruded upon.
THEOREM LookupsAreNotInterrupted == Spec => WorkIsNotInterrupted
<1>1. Typed /\ Orderly /\ [Next]_vars
        => [\A p \in Processes : \A s \in Sales :
              /\ subject[p] = s /\ subject'[p] = s
              /\ at[p] = "asking" /\ at'[p] = "asking"
              /\ holder[s] = Id[p] /\ ~expired[s]
              => holder'[s] = Id[p]]_vars
  <2> SUFFICES ASSUME Typed, Orderly, [Next]_vars, NEW p \in Processes, NEW s \in Sales,
                      at[p] = "asking", at'[p] = "asking", holder[s] = Id[p], ~expired[s]
               PROVE  holder'[s] = Id[p]
    OBVIOUS
  <2>1. ~Claimable(s)  BY DEF Claimable, Ids
  <2>2. ASSUME NEW q \in Processes, Walks(q) PROVE holder'[s] = Id[p]
    <3>1. CASE q = p
      BY <2>1, <2>2, <3>1 DEF Walks, Begins, Works, Ends
    <3>2. CASE q # p
      <4>1. at[q] \in Running => Id[q] # Id[p]
        BY <3>2 DEF Orderly, Alone, Running
      <4>2. QED  BY <2>1, <2>2, <4>1 DEF Walks, Begins, Works, Ends
    <3>3. QED  BY <3>1, <3>2
  <2>3. QED  BY <2>2, StepsAreWalks
<1>2. QED  BY <1>1, OrderlyHolds, TypedHolds, PTL DEF Spec, WorkIsNotInterrupted

\* Nothing is taken up and no sweep is begun after a stop was asked for.
THEOREM StopsAreHonoured == Spec => StopIsHonoured
<1>1. Typed /\ Orderly /\ [Next]_vars
        => [\A p \in Processes : stop[p] # "NONE" =>
              /\ subject'[p] \in {subject[p], NoSale}
              /\ at'[p] = "ready" => at[p] = "ready"]_vars
  <2> SUFFICES ASSUME Typed, Orderly, [Next]_vars, NEW p \in Processes, stop[p] # "NONE"
               PROVE  /\ subject'[p] \in {subject[p], NoSale}
                      /\ at'[p] = "ready" => at[p] = "ready"
    OBVIOUS
  <2>1. CASE UNCHANGED <<at, status, stop, subject, holder>>  BY <2>1
  <2>2. ASSUME NEW q \in Processes, Walks(q)
        PROVE  /\ subject'[p] \in {subject[p], NoSale}
               /\ at'[p] = "ready" => at[p] = "ready"
    <3>1. CASE q = p
      BY <2>2, <3>1 DEF Walks, Begins, Works, Ends, Orderly, OnItsWayOut
    <3>2. CASE q # p  BY <2>2, <3>2 DEF Walks, OthersRest
    <3>3. QED  BY <3>1, <3>2
  <2>3. QED  BY <2>1, <2>2, StepsAreWalks
<1>2. QED  BY <1>1, OrderlyHolds, TypedHolds, PTL DEF Spec, StopIsHonoured

\* A fatal error is final, also for a worker that was told to stop meanwhile.
THEOREM FatalErrorsAreFinal == Spec => FatalIsFinal
<1>1. Typed /\ Orderly /\ [Next]_vars
        => [\A p \in Processes : status[p] = "FAILED" =>
              /\ status'[p] = "FAILED"
              /\ at'[p] \notin {"ready", "sweeping", "asking"}]_vars
  <2> SUFFICES ASSUME Typed, Orderly, [Next]_vars, NEW p \in Processes, status[p] = "FAILED"
               PROVE  /\ status'[p] = "FAILED"
                      /\ at'[p] \notin {"ready", "sweeping", "asking"}
    OBVIOUS
  <2>0. at[p] \in {"stopping", "ended", "failed", "killed"}
    BY DEF Orderly, OnItsWayOut
  <2>1. CASE UNCHANGED <<at, status, stop, subject, holder>>  BY <2>0, <2>1
  <2>2. ASSUME NEW q \in Processes, Walks(q)
        PROVE  status'[p] = "FAILED" /\ at'[p] \notin {"ready", "sweeping", "asking"}
    <3>1. CASE q = p
      BY <2>0, <2>2, <3>1 DEF Walks, Begins, Works, Ends, Running
    <3>2. CASE q # p  BY <2>0, <2>2, <3>2 DEF Walks, OthersRest
    <3>3. QED  BY <3>1, <3>2
  <2>3. QED  BY <2>1, <2>2, StepsAreWalks
<1>2. QED  BY <1>1, OrderlyHolds, TypedHolds, PTL DEF Spec, FatalIsFinal

===========================================================================
