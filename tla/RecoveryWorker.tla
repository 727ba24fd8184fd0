--------------------------- MODULE RecoveryWorker ---------------------------
(***************************************************************************)
(* The worker processes around the sweep: the supervised loop and the      *)
(* one-shot CLI, their failures, backoff, shutdown and restart, the leases *)
(* they hold and the ids they draw.                                        *)
(*                                                                         *)
(* A process lives once.  A restart is another process, and the two share  *)
(* an id when they are started with the same --worker-id (or happen to get *)
(* the same pid), while the counter that makes a process's row ids unique  *)
(* starts again from zero.  What a resolved sale does to the ledger is in  *)
(* SaleLifecycle; here a sale is stuck or decided.                         *)
(***************************************************************************)
EXTENDS Integers, FiniteSets

CONSTANTS
  Processes,
  Id,             \* [Processes -> worker ids]
  Supervised,     \* the processes started without --once
  Sales,
  NoSale,
  NoWorker,
  FeeIds,         \* ids runSoftwareFeeCharges draws: two for each active merchant
  MaxIds,         \* bound: ids above it are taken to be unused
  MaxFaults,      \* bound on database errors, of all processes together
  MaxCrashes      \* bound on processes killed

Ids == {Id[p] : p \in Processes}

ASSUME ConstantsAssumption ==
  /\ Supervised \subseteq Processes
  /\ NoSale \notin Sales
  /\ NoWorker \notin Ids
  /\ {FeeIds, MaxIds, MaxFaults, MaxCrashes} \subseteq Nat

VARIABLES
  at,        \* where each process stands; "failed" ended without releasing
  status,    \* WorkerStatus
  stop,      \* ShutdownController.reason, "NONE" until a stop is requested
  failures,  \* BackoffState.consecutiveFailures
  raised,    \* what recoverInFlight threw in this sweep, kept over the fee run
  n,         \* the counter of defaultIdFactory
  subject,   \* the transaction being recovered
  batch,     \* the candidates left
  sale,      \* transactions, as the sweep sees them
  holder,    \* recovery_claims.worker_id while the claim is ACTIVE
  expired,   \* recovery_claims.expires_at has passed
  used,      \* the primary keys of audit events and postings
  faults,
  crashes

loop     == <<status, stop, failures>>
scan     == <<subject, batch>>
claims   == <<holder, expired>>
bounds   == <<faults, crashes>>
vars     == <<at, loop, raised, n, scan, sale, claims, used, bounds>>

Running  == {"ready", "sweeping", "asking", "failing", "fees", "sleeping", "stopping"}
Statuses == {"STARTING", "RUNNING", "BACKING_OFF", "STOPPED", "FAILED"}
Errors   == {"TRANSIENT", "FATAL"}

Init ==
  /\ at       = [p \in Processes |-> "off"]
  /\ status   = [p \in Processes |-> "STARTING"]
  /\ stop     = [p \in Processes |-> "NONE"]
  /\ failures = [p \in Processes |-> 0]
  /\ raised   = [p \in Processes |-> "NONE"]
  /\ n        = [p \in Processes |-> 0]
  /\ subject  = [p \in Processes |-> NoSale]
  /\ batch    = [p \in Processes |-> {}]
  /\ sale     = [s \in Sales |-> "young"]
  /\ holder   = [s \in Sales |-> NoWorker]
  /\ expired  = [s \in Sales |-> FALSE]
  /\ used     = {}
  /\ faults   = MaxFaults
  /\ crashes  = MaxCrashes

-----------------------------------------------------------------------------
(* Row ids.  A key is <<prefix, worker id, counter>>; an insert that meets *)
(* its own key throws.                                                     *)

Key(p, prefix, k) == <<prefix, Id[p], n[p] + k>>

\* keys: the <<prefix, how many draws from now>> the next inserts use.
Fresh(p, keys) == \A key \in keys : Key(p, key[1], key[2]) \notin used

Insert(p, keys) ==
  used' = used \cup {Key(p, key[1], key[2]) :
                       key \in {k \in keys : n[p] + k[2] <= MaxIds}}

Draw(p, k) == n' = [n EXCEPT ![p] = IF @ + k <= MaxIds THEN @ + k ELSE MaxIds]

Audit(k) == <<"audit", k>>
Post(k)  == <<"post", k>>

-----------------------------------------------------------------------------
(* The sweep.                                                              *)

Goto(p, place) == at' = [at EXCEPT ![p] = place]

\* An error leaves recoverInFlight; the fee run comes before it is reported.
Throw(p, error) ==
  /\ Goto(p, "fees")
  /\ raised' = [raised EXCEPT ![p] = error]
  /\ batch'  = [batch EXCEPT ![p] = {}]

\* Mutant: releaseClaim does not look at the worker.
ReleaseClaimOfAnyone(p, s) == holder' = [holder EXCEPT ![s] = NoWorker]

\* releaseClaim: only a claim still under the worker's own id.
ReleaseClaim(p, s) == holder' = [holder EXCEPT ![s] = IF @ = Id[p] THEN NoWorker ELSE @]

\* A process starts; its supervisor never runs two under one id at a time.
Start(p) ==
  /\ at[p] = "off"
  /\ \A q \in Processes \ {p} : Id[q] = Id[p] => at[q] \notin Running
  /\ Goto(p, "ready")
  /\ status' = [status EXCEPT ![p] = IF p \in Supervised THEN "RUNNING" ELSE @]
  /\ UNCHANGED <<stop, failures, raised, n, scan, sale, claims, used, bounds>>

\* The scan id is no key; the audit event that opens the sweep has one.
BeginSweep(p) ==
  /\ at[p] = "ready"
  /\ Draw(p, 2)
  /\ IF Fresh(p, {Audit(2)})
     THEN /\ Goto(p, "sweeping")
          /\ Insert(p, {Audit(2)})
          /\ batch' = [batch EXCEPT ![p] = {s \in Sales : sale[s] = "stuck"}]
          /\ UNCHANGED raised
     ELSE Throw(p, "TRANSIENT") /\ UNCHANGED used
  /\ UNCHANGED <<loop, subject, sale, claims, bounds>>

\* The database fails outside the part that is guarded per transaction.
SweepThrows(p) ==
  /\ at[p] \in {"ready", "sweeping"}
  /\ faults > 0
  /\ faults' = faults - 1
  /\ \E error \in Errors : Throw(p, error)
  /\ UNCHANGED <<loop, n, subject, sale, claims, used, crashes>>

\* Mutant: a lease never runs out.
ClaimableWhenFree(s) == holder[s] = NoWorker

Claimable(s) == holder[s] = NoWorker \/ expired[s]

\* Mutant: the batch is worked to its end whatever was requested.
TakeUntilDone(p, s) ==
  /\ at[p] = "sweeping"
  /\ s \in batch[p]
  /\ sale[s] = "stuck"
  /\ Claimable(s)
  /\ holder'  = [holder EXCEPT ![s] = Id[p]]
  /\ expired' = [expired EXCEPT ![s] = FALSE]

\* The candidate is still due and the claim is to be had.
Take(p, s) ==
  /\ at[p] = "sweeping"
  /\ stop[p] = "NONE"
  /\ s \in batch[p]
  /\ sale[s] = "stuck"
  /\ Claimable(s)
  /\ holder'  = [holder EXCEPT ![s] = Id[p]]
  /\ expired' = [expired EXCEPT ![s] = FALSE]

\* The claim and its audit event, then the lookup's audit event and the call.
Claim(p, s) ==
  /\ Take(p, s)
  /\ Fresh(p, {Audit(1)})
  /\ Draw(p, 2)
  /\ Insert(p, {Audit(1), Audit(2)})
  /\ Goto(p, IF Fresh(p, {Audit(2)}) THEN "asking" ELSE "failing")
  /\ subject' = [subject EXCEPT ![p] = s]
  /\ batch'   = [batch EXCEPT ![p] = @ \ {s}]
  /\ UNCHANGED <<loop, raised, sale, bounds>>

\* The audit event of the claim cannot be written.  It is outside the try, so
\* the claim just committed is not released.
ClaimThrows(p, s) ==
  /\ Take(p, s)
  /\ Draw(p, 1)
  /\ \/ ~Fresh(p, {Audit(1)}) /\ Throw(p, "TRANSIENT") /\ UNCHANGED faults
     \/ /\ faults > 0
        /\ faults' = faults - 1
        /\ \E error \in Errors : Throw(p, error)
  /\ UNCHANGED <<loop, subject, sale, used, crashes>>

\* Another process decided it (too recent now), or holds it.
Skip(p, s) ==
  /\ at[p] = "sweeping"
  /\ stop[p] = "NONE"
  /\ s \in batch[p]
  /\ \/ /\ sale[s] # "stuck"
        /\ batch' = [batch EXCEPT ![p] = @ \ {s}]
        /\ UNCHANGED <<at, raised, n, used>>
     \/ /\ sale[s] = "stuck"
        /\ ~Claimable(s)
        /\ Draw(p, 1)
        /\ IF Fresh(p, {Audit(1)})
           THEN /\ Insert(p, {Audit(1)})
                /\ batch' = [batch EXCEPT ![p] = @ \ {s}]
                /\ UNCHANGED <<at, raised>>
           ELSE Throw(p, "TRANSIENT") /\ UNCHANGED used
  /\ UNCHANGED <<loop, subject, sale, claims, bounds>>

\* The keys of the unit of work that applies an answer: settled, returned, or
\* moved to PENDING.
UnitKeys == {{Post(2), Audit(3), Audit(4)}, {Audit(2)}}

LastDraw(keys) == CHOOSE k \in {key[2] : key \in keys} : \A key \in keys : key[2] <= k

\* The answer arrives, is audited, and is applied if the row is still in flight.
Answer(p) ==
  LET s == subject[p] IN
  /\ at[p] = "asking"
  /\ Fresh(p, {Audit(1)})
  /\ \/ /\ sale[s] # "stuck"
        /\ Draw(p, 1)
        /\ Insert(p, {Audit(1)})
        /\ UNCHANGED sale
     \/ /\ sale[s] = "stuck"
        /\ \E keys \in UnitKeys :
             /\ Fresh(p, keys)
             /\ Draw(p, LastDraw(keys))
             /\ Insert(p, keys \cup {Audit(1)})
        /\ sale' = [sale EXCEPT ![s] = "decided"]
  /\ ReleaseClaim(p, s)
  /\ Goto(p, "sweeping")
  /\ subject' = [subject EXCEPT ![p] = NoSale]
  /\ UNCHANGED <<loop, raised, batch, expired, bounds>>

\* The audit event or the unit of work throws; the unit is rolled back.
AnswerThrows(p) ==
  /\ at[p] = "asking"
  /\ Goto(p, "failing")
  /\ \/ /\ ~Fresh(p, {Audit(1)})
        /\ Draw(p, 1)
        /\ UNCHANGED <<used, faults>>
     \/ /\ sale[subject[p]] = "stuck"
        /\ \E keys \in UnitKeys :
             /\ Fresh(p, {Audit(1)})
             /\ ~Fresh(p, keys)
             /\ Draw(p, IF Fresh(p, keys \ {Audit(4)}) THEN LastDraw(keys)
                        ELSE IF keys = {Audit(2)} THEN 2 ELSE 3)
             /\ Insert(p, {Audit(1)})
        /\ UNCHANGED faults
     \/ /\ faults > 0
        /\ faults' = faults - 1
        /\ UNCHANGED <<n, used>>
  /\ UNCHANGED <<loop, raised, scan, sale, claims, crashes>>

\* RECOVERY_ATTEMPT_FAILED; the claim is released even if that cannot be written.
RecordFailure(p) ==
  /\ at[p] = "failing"
  /\ Draw(p, 1)
  /\ ReleaseClaim(p, subject[p])
  /\ subject' = [subject EXCEPT ![p] = NoSale]
  /\ IF Fresh(p, {Audit(1)})
     THEN Goto(p, "sweeping") /\ Insert(p, {Audit(1)}) /\ UNCHANGED <<raised, batch>>
     ELSE Throw(p, "TRANSIENT") /\ UNCHANGED used
  /\ UNCHANGED <<loop, sale, expired, bounds>>

\* The batch is done, or shouldContinue() is false at the safe boundary.
EndBatch(p) ==
  /\ at[p] = "sweeping"
  /\ batch[p] = {} \/ stop[p] # "NONE"
  /\ Goto(p, "fees")
  /\ batch' = [batch EXCEPT ![p] = {}]
  /\ UNCHANGED <<loop, raised, n, subject, sale, claims, used, bounds>>

\* Mutant: a fatal failure does not request the stop.
FinishRetryingFatal(p) ==
  /\ at[p] = "fees"
  /\ Draw(p, FeeIds)
  /\ raised' = [raised EXCEPT ![p] = "NONE"]
  /\ failures' = [failures EXCEPT ![p] = IF raised[p] = "NONE" THEN 0 ELSE @ + 1]
  /\ status' = [status EXCEPT ![p] = IF raised[p] = "NONE" THEN "RUNNING"
                 ELSE IF raised[p] = "FATAL" THEN "FAILED" ELSE "BACKING_OFF"]
  /\ Goto(p, IF p \in Supervised /\ stop[p] = "NONE" THEN "sleeping" ELSE "stopping")
  /\ UNCHANGED <<stop, scan, sale, claims, used, bounds>>

\* runDueSoftwareFees draws its ids, whatever recovery did; then the sweep's
\* own outcome is recorded, and a fatal one requests the stop.
FinishSweep(p) ==
  /\ at[p] = "fees"
  /\ Draw(p, FeeIds)
  /\ raised' = [raised EXCEPT ![p] = "NONE"]
  /\ \/ /\ raised[p] = "NONE"
        /\ failures' = [failures EXCEPT ![p] = 0]
        /\ status'   = [status EXCEPT ![p] = "RUNNING"]
        /\ UNCHANGED stop
     \/ /\ raised[p] = "TRANSIENT"
        /\ failures' = [failures EXCEPT ![p] = @ + 1]
        /\ status'   = [status EXCEPT ![p] = "BACKING_OFF"]
        /\ UNCHANGED stop
     \/ /\ raised[p] = "FATAL"
        /\ status' = [status EXCEPT ![p] = "FAILED"]
        /\ stop'   = [stop EXCEPT ![p] = IF @ = "NONE" THEN "FATAL_FAILURE" ELSE @]
        /\ UNCHANGED failures
  /\ Goto(p, IF p \in Supervised /\ stop'[p] = "NONE" THEN "sleeping" ELSE "stopping")
  /\ UNCHANGED <<scan, sale, claims, used, bounds>>

-----------------------------------------------------------------------------
(* The loop and its end.                                                   *)

\* Mutant: the stop clears the timer and leaves the sleep unresolved.
WakeOnTimeOnly(p) ==
  /\ at[p] = "sleeping"
  /\ stop[p] = "NONE"
  /\ Goto(p, "ready")
  /\ UNCHANGED <<loop, raised, n, scan, sale, claims, used, bounds>>

\* The delay is over, or the stop interrupts it.
Wake(p) ==
  /\ at[p] = "sleeping"
  /\ Goto(p, IF stop[p] = "NONE" THEN "ready" ELSE "stopping")
  /\ UNCHANGED <<loop, raised, n, scan, sale, claims, used, bounds>>

\* SIGTERM, handled at the two places where the event loop is free.
RequestStop(p) ==
  /\ at[p] \in {"asking", "sleeping"}
  /\ stop[p] = "NONE"
  /\ stop' = [stop EXCEPT ![p] = "SIGTERM"]
  /\ UNCHANGED <<at, status, failures, raised, n, scan, sale, claims, used, bounds>>

\* Mutant: every claim is left to its lease.
StopWithoutRelease(p) ==
  /\ at[p] = "stopping"
  /\ Goto(p, "ended")
  /\ UNCHANGED <<loop, raised, n, scan, sale, claims, used, bounds>>

\* releaseClaimsOwnedBy.  A supervised worker that fails to release still stops in
\* good order.
Stop(p) ==
  /\ at[p] = "stopping"
  /\ \/ /\ holder' = [s \in Sales |-> IF holder[s] = Id[p] THEN NoWorker ELSE holder[s]]
        /\ Goto(p, "ended")
        /\ UNCHANGED faults
     \/ /\ p \in Supervised
        /\ faults > 0
        /\ faults' = faults - 1
        /\ Goto(p, "failed")
        /\ UNCHANGED holder
  /\ status' = [status EXCEPT ![p] = IF p \in Supervised /\ @ # "FAILED" THEN "STOPPED" ELSE @]
  /\ UNCHANGED <<stop, failures, raised, n, scan, sale, expired, used, crashes>>

\* Without a loop the failure to release ends the process with runtimeFailure.
StopThrows(p) ==
  /\ at[p] = "stopping"
  /\ p \notin Supervised
  /\ faults > 0
  /\ faults' = faults - 1
  /\ Goto(p, "failed")
  /\ UNCHANGED <<loop, raised, n, scan, sale, claims, used, crashes>>

Crash(p) ==
  /\ at[p] \in Running
  /\ crashes > 0
  /\ crashes' = crashes - 1
  /\ Goto(p, "killed")
  /\ subject' = [subject EXCEPT ![p] = NoSale]
  /\ batch'   = [batch EXCEPT ![p] = {}]
  /\ UNCHANGED <<loop, raised, n, sale, claims, used, faults>>

-----------------------------------------------------------------------------
(* Time.                                                                   *)

\* A sale in flight reaches recoveryAgeMs.
RowAges(s) ==
  /\ sale[s] = "young"
  /\ sale' = [sale EXCEPT ![s] = "stuck"]
  /\ UNCHANGED <<at, loop, raised, n, scan, claims, used, bounds>>

LeaseExpires(s) ==
  /\ holder[s] # NoWorker
  /\ ~expired[s]
  /\ expired' = [expired EXCEPT ![s] = TRUE]
  /\ UNCHANGED <<at, loop, raised, n, scan, sale, holder, used, bounds>>

-----------------------------------------------------------------------------
SweepStep(p) ==
  \/ BeginSweep(p)
  \/ \E s \in Sales : Claim(p, s) \/ Skip(p, s)
  \/ RecordFailure(p)
  \/ EndBatch(p)
  \/ FinishSweep(p)

Fault(p) == SweepThrows(p) \/ (\E s \in Sales : ClaimThrows(p, s))

AnswerStep(p) == Answer(p) \/ AnswerThrows(p)

LoopStep(p) == Start(p) \/ Wake(p) \/ Stop(p) \/ StopThrows(p)

Next ==
  \/ \E p \in Processes :
       \/ SweepStep(p) \/ Fault(p) \/ AnswerStep(p) \/ LoopStep(p)
       \/ RequestStop(p) \/ Crash(p)
  \/ \E s \in Sales : RowAges(s) \/ LeaseExpires(s)

Spec == Init /\ [][Next]_vars

\* A live process runs on, its lookups are answered or throw, a supervisor starts
\* what it was told to start, and time passes.  Nothing obliges anyone to stop or
\* to kill a worker, or the database to fail.
Fairness ==
  /\ \A p \in Processes :
       /\ WF_vars(SweepStep(p) \/ Fault(p))
       /\ WF_vars(AnswerStep(p))
       /\ WF_vars(LoopStep(p))
  /\ \A s \in Sales : WF_vars(RowAges(s)) /\ WF_vars(LeaseExpires(s))

FairSpec == Spec /\ Fairness

-----------------------------------------------------------------------------
(* Properties.                                                             *)

\* Every process, sale and claim has a value of its kind.
TypeOK ==
  /\ at \in [Processes -> Running \cup {"off", "ended", "failed", "killed"}]
  /\ status \in [Processes -> Statuses]
  /\ stop \in [Processes -> {"NONE", "SIGTERM", "FATAL_FAILURE"}]
  /\ failures \in [Processes -> Nat]
  /\ raised \in [Processes -> Errors \cup {"NONE"}]
  /\ n \in [Processes -> 0..MaxIds]
  /\ subject \in [Processes -> Sales \cup {NoSale}]
  /\ batch \in [Processes -> SUBSET Sales]
  /\ sale \in [Sales -> {"young", "stuck", "decided"}]
  /\ holder \in [Sales -> Ids \cup {NoWorker}]
  /\ expired \in [Sales -> BOOLEAN]
  /\ used \subseteq {"audit", "post"} \X Ids \X (1..MaxIds)
  /\ faults \in 0..MaxFaults
  /\ crashes \in 0..MaxCrashes

\* Once the processes of an id have all come to their end, none killed and none
\* failing to release, no claim is left under that id for others to wait out: what
\* the per-transaction release misses, the end of the process releases.
NothingIsLeftHeld ==
  \A p \in Processes :
    /\ at[p] = "ended"
    /\ \A q \in Processes : Id[q] = Id[p] => at[q] \in {"off", "ended"}
    => \A s \in Sales : holder[s] # Id[p]

\* A transaction whose lookup is under way under a live lease stays claimed: no
\* shutdown, late release or claim of another worker lets a second one in.
WorkIsNotInterrupted ==
  [][\A p \in Processes : \A s \in Sales :
       /\ subject[p] = s /\ subject'[p] = s
       /\ at[p] = "asking" /\ at'[p] = "asking"
       /\ holder[s] = Id[p] /\ ~expired[s]
       => holder'[s] = Id[p]]_vars

\* After a stop is requested a worker takes up no further transaction and begins
\* no further sweep; what it was doing it finishes.
StopIsHonoured ==
  [][\A p \in Processes : stop[p] # "NONE" =>
       /\ subject'[p] \in {subject[p], NoSale}
       /\ at'[p] = "ready" => at[p] = "ready"]_vars

\* A worker that met a fatal error never sweeps again and never looks healthy
\* again, even when it was told to stop before or during that sweep.
FatalIsFinal ==
  [][\A p \in Processes : status[p] = "FAILED" =>
       /\ status'[p] = "FAILED"
       /\ at'[p] \notin {"ready", "sweeping", "asking"}]_vars

\* A sale stuck in flight is decided in the end, through errors, kills, restarts
\* and abandoned claims, unless no worker is left.
StuckIsDecided ==
  \A s \in Sales :
    sale[s] = "stuck" ~> \/ sale[s] = "decided"
                         \/ \A p \in Processes : at[p] \notin Running \cup {"off"}

\* A worker asked to stop comes to an end.
StopEnds == \A p \in Processes : stop[p] # "NONE" ~> at[p] \notin Running
-----------------------------------------------------------------------------
(* What the documents say and the code does not do.                        *)

\* A process that came to a good end, with no database error, has swept: nothing
\* an earlier process wrote makes a later one fail.
RestartIsSafe ==
  \A p \in Processes : at[p] = "ended" /\ faults = MaxFaults => failures[p] = 0

=============================================================================
