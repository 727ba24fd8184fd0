--------------------------- MODULE SaleLifecycle ---------------------------
(***************************************************************************)
(* The life of a merchant's sales, from the press of the button to the     *)
(* last posting: createSale and complaints in the POS process,             *)
(* recoverInFlight in the recovery workers, resolvePending and the         *)
(* reversal services, the console's approval of a reversal, and the SQLite *)
(* rows they share.                                                        *)
(*                                                                         *)
(* One action is one unit of work: everything a process does between two   *)
(* awaits, or between two points where another process may commit.  A unit *)
(* that throws is rolled back, so an action either has all of its writes   *)
(* or none.  Time is abstracted to three facts that only ever become true  *)
(* by waiting: a row is old enough to be swept, a pending job is past its  *)
(* deadline, a claim's lease has run out.                                  *)
(***************************************************************************)
EXTENDS Integers, FiniteSets, Functions

CONSTANTS
  Requests,       \* calls of createSale; each names the transaction it creates
  NoRequest,
  Key,            \* [Requests -> idempotency keys], deriveIdempotencyKey
  Fingerprint,    \* [Requests -> payload fingerprints], payloadFingerprint
  Amount,         \* [Requests -> face value in minor units]
  Profit,         \* [Requests -> the shop's share of the commission]
  Opening,        \* the merchant's available balance before the first sale
  Workers,        \* recovery worker processes
  NoWorker,
  BatchLimit,     \* RecoveryPolicy.batchLimit
  MaxStatusAttempts,
  Reversible,     \* the requests operations staff may decide to reverse
  Disputed,       \* the requests the shop may complain about
  MaxRestarts,    \* bound on crashes and shutdowns, of all processes together
  PromptSubmit,   \* the adapter answers before a row is old enough to sweep
  AtomicReversal  \* nobody commits between requireReversal's read and write

Keys == {Key[r] : r \in Requests}

ASSUME ConstantsAssumption ==
  /\ NoRequest \notin Requests
  /\ NoWorker \notin Workers
  /\ Amount \in [Requests -> Nat \ {0}]
  /\ Profit \in [Requests -> Nat]
  /\ \A r \in Requests : Profit[r] <= Amount[r]
  /\ Opening \in Nat
  /\ MaxStatusAttempts \in Nat \ {0}
  /\ MaxRestarts \in Nat
  /\ PromptSubmit \in BOOLEAN
  /\ AtomicReversal \in BOOLEAN

\* A merchant makes a number of sales, so that their postings add up.
ASSUME RequestsAssumption == IsFiniteSet(Requests)

VARIABLES
  txn,         \* transactions.state, "NONE" before the row exists
  aged,        \* updated_at is at least recoveryAgeMs in the past
  reservation, \* balance_reservations.status
  posted,      \* the net of the ledger entries carrying this transaction id
  commission,  \* a commission_entries row exists
  job,         \* pending_resolutions.status
  attempts,    \* pending_resolutions.attempts, saturated at the maximum
  overdue,     \* pending_resolutions.deadline_at has passed
  support,     \* the support case opened for the sale when it is escalated:
               \* "NONE", "OPEN", or "APPROVED" by a supervisor
  complaint,   \* the support case its merchant reported, in the same terms
  owner,       \* idempotency_records.transaction_id, by key
  result,      \* idempotency_records.result_state, by key
  holder,      \* recovery_claims.worker_id while the claim is ACTIVE
  expired,     \* recovery_claims.expires_at has passed
  sale,        \* where the createSale call stands
  reply,       \* the SaleResult kind its caller was given
  provider,    \* what the provider has done about the request
  asking,      \* a resolvePending call awaits getStatus
  reviewed,    \* the state requireReversal read, "NONE" when it is not running
  crediting,   \* the console has read the sale as SUCCESSFUL, to credit it back
  complaining, \* the POS has found no case about the sale, to open one
  sweep,       \* where each worker stands in recoverInFlight
  subject,     \* the transaction it is recovering
  queue,       \* the candidates left in its batch
  restarts

rows     == <<txn, aged, reservation, posted, commission>>
pendings == <<job, attempts, overdue, support, complaint>>
records  == <<owner, result>>
claims   == <<holder, expired>>
calls    == <<sale, reply, provider>>
desks    == <<reviewed, crediting, complaining>>
services == <<asking, desks>>
workers  == <<sweep, subject, queue>>
vars     == <<rows, pendings, records, claims, calls, services, workers, restarts>>

-----------------------------------------------------------------------------
(* States, buckets and the values the rows take.                           *)

InFlightStates == {"RESERVED", "PROCESSING", "PENDING"}
TerminalStates == {"SUCCESSFUL", "FAILED", "REVERSED"}
States == InFlightStates \cup TerminalStates
            \cup {"NONE", "UNDER_REVIEW", "REVERSAL_REQUIRED"}

\* VALID_TRANSITIONS, the states a committed row can be seen in.
ValidTransitions ==
  {<<"NONE", "RESERVED">>,
   <<"RESERVED", "PROCESSING">>,
   <<"PROCESSING", "SUCCESSFUL">>, <<"PROCESSING", "FAILED">>,
   <<"PROCESSING", "PENDING">>,
   <<"PENDING", "SUCCESSFUL">>, <<"PENDING", "FAILED">>,
   <<"PENDING", "UNDER_REVIEW">>, <<"PENDING", "REVERSAL_REQUIRED">>,
   <<"UNDER_REVIEW", "SUCCESSFUL">>, <<"UNDER_REVIEW", "FAILED">>,
   <<"UNDER_REVIEW", "REVERSAL_REQUIRED">>,
   <<"REVERSAL_REQUIRED", "REVERSED">>}

\* VALUE_DISPOSITION, as the status of the reservation that carries the value.
Disposition ==
  [NONE |-> "NONE", RESERVED |-> "HELD", PROCESSING |-> "HELD",
   PENDING |-> "HELD", UNDER_REVIEW |-> "UNDER_REVIEW",
   REVERSAL_REQUIRED |-> "UNDER_REVIEW", SUCCESSFUL |-> "SETTLED",
   FAILED |-> "RELEASED", REVERSED |-> "RELEASED"]

Reservations == {"NONE", "HELD", "UNDER_REVIEW", "RELEASED", "SETTLED"}
Jobs         == {"NONE", "AWAITING", "RESOLVED", "ESCALATED"}
Cases        == {"NONE", "OPEN", "APPROVED"}
Accounts     == {"AVAILABLE", "RESERVED", "UNDER_REVIEW", "PROVIDER_SETTLEMENT",
                 "TELGA_REVENUE"}
Replies      == {"NONE", "REFUSED", "DUPLICATE_REQUEST", "PAYLOAD_MISMATCH",
                 "PROVIDER_UNAVAILABLE", "INSUFFICIENT_BALANCE",
                 "PERSISTENCE_FAILURE", "SUCCESSFUL", "FAILED", "PENDING",
                 "ERROR"}

-----------------------------------------------------------------------------
(* The ledger: balances are derived from the entries, never stored.        *)

NoEntries == [a \in Accounts |-> 0]

\* bucketTransfer: debit one account, credit another.
Entries(from, to, n) ==
  [a \in Accounts |-> IF a = from THEN -n ELSE IF a = to THEN n ELSE 0]

\* The settlement posting: face value out of the reserved bucket, the shop's
\* share to revenue and the remainder to the provider.
SettlementEntries(n, profit) ==
  [NoEntries EXCEPT !["RESERVED"] = -n,
                    !["PROVIDER_SETTLEMENT"] = n - profit,
                    !["TELGA_REVENUE"] = profit]

Append(r, entries) ==
  posted' = [posted EXCEPT ![r] = [a \in Accounts |-> posted[r][a] + entries[a]]]

Total(amounts) == FoldFunction(+, 0, amounts)

\* balanceFor(...).available
Available == Opening + Total([r \in Requests |-> posted[r]["AVAILABLE"]])

\* saveTransaction: an upsert that writes the state unconditionally.
Persist(r, s) ==
  /\ txn'  = [txn EXCEPT ![r] = s]
  /\ aged' = [aged EXCEPT ![r] = FALSE]

\* Mutant: the update does not look at the status it replaces.
MoveReservationUnguarded(r, from, to, entries) ==
  /\ reservation' = [reservation EXCEPT ![r] = to]
  /\ Append(r, entries)

\* guardedTransition followed by the posting that goes with it.
MoveReservation(r, from, to, entries) ==
  /\ reservation[r] = from
  /\ reservation' = [reservation EXCEPT ![r] = to]
  /\ Append(r, entries)

Reserve(r) ==
  /\ Available >= Amount[r]
  /\ MoveReservation(r, "NONE", "HELD", Entries("AVAILABLE", "RESERVED", Amount[r]))

\* Mutant: any value is released from the reserved bucket.
ReleaseFromAnywhere(r) ==
  MoveReservation(r, reservation[r], "RELEASED", Entries("RESERVED", "AVAILABLE", Amount[r]))

Release(r) ==
  MoveReservation(r, "HELD", "RELEASED", Entries("RESERVED", "AVAILABLE", Amount[r]))

\* Mutant: the shop is paid its share whoever settles.
FinalizeWithProfit(r, profit) ==
  MoveReservation(r, "HELD", "SETTLED", SettlementEntries(Amount[r], Profit[r]))

FinalizeSuccess(r, profit) ==
  MoveReservation(r, "HELD", "SETTLED", SettlementEntries(Amount[r], profit))

MoveToUnderReview(r) ==
  MoveReservation(r, "HELD", "UNDER_REVIEW",
                  Entries("RESERVED", "UNDER_REVIEW", Amount[r]))

ReleaseFromUnderReview(r) ==
  MoveReservation(r, "UNDER_REVIEW", "RELEASED",
                  Entries("UNDER_REVIEW", "AVAILABLE", Amount[r]))

\* Mutant: no result is recorded.
RecordNothing(r, s) == UNCHANGED result

RecordIdempotencyResult(r, s) == result' = [result EXCEPT ![Key[r]] = s]

\* Mutant: every job closes as resolved.
CloseAsResolved(r, to) ==
  job' = [job EXCEPT ![r] = IF @ = "AWAITING" THEN "RESOLVED" ELSE @]

\* closePendingResolution: only an AWAITING job closes.
ClosePending(r, to) ==
  job' = [job EXCEPT ![r] = IF @ = "AWAITING" THEN to ELSE @]

HasCase(r) == support[r] # "NONE" \/ complaint[r] # "NONE"

\* findSupportCaseByTransaction, and createSupportCase only if it finds nothing:
\* a case the merchant reported will do.
OpenSupportCase(r) ==
  support' = [support EXCEPT ![r] = IF HasCase(r) THEN @ ELSE "OPEN"]

\* approveSupportCase, on the one case that was found.
ApproveSupportCase(r) ==
  \/ /\ support[r] # "NONE"
     /\ support' = [support EXCEPT ![r] = "APPROVED"]
     /\ UNCHANGED complaint
  \/ /\ complaint[r] # "NONE"
     /\ complaint' = [complaint EXCEPT ![r] = "APPROVED"]
     /\ UNCHANGED support

CountAttempt(n) == IF n < MaxStatusAttempts THEN n + 1 ELSE n

-----------------------------------------------------------------------------
(* createSale, in the POS process.                                         *)

Answer(r, kind) ==
  /\ sale'  = [sale EXCEPT ![r] = "done"]
  /\ reply' = [reply EXCEPT ![r] = kind]

\* Validation: mode, merchant, device, product, amount, recipient.  Nothing is
\* written.
RefuseRequest(r) ==
  /\ sale[r] = "idle"
  /\ Answer(r, "REFUSED")
  /\ UNCHANGED <<rows, pendings, records, claims, provider, services, workers, restarts>>

\* An idempotency record exists: a replay, or a different payload under its key.
FindExisting(r) ==
  /\ sale[r] = "idle"
  /\ owner[Key[r]] # NoRequest
  /\ Answer(r, IF Fingerprint[owner[Key[r]]] = Fingerprint[r]
               THEN "DUPLICATE_REQUEST" ELSE "PAYLOAD_MISMATCH")
  /\ UNCHANGED <<rows, pendings, records, claims, provider, services, workers, restarts>>

\* No record: await provider.healthCheck().
AskHealth(r) ==
  /\ sale[r] = "idle"
  /\ owner[Key[r]] = NoRequest
  /\ sale' = [sale EXCEPT ![r] = "health"]
  /\ UNCHANGED <<rows, pendings, records, claims, reply, provider, services, workers, restarts>>

ProviderUnhealthy(r) ==
  /\ sale[r] = "health"
  /\ Answer(r, "PROVIDER_UNAVAILABLE")
  /\ UNCHANGED <<rows, pendings, records, claims, provider, services, workers, restarts>>

\* Mutant: the key is not unique.
ReserveSaleAgain(r) ==
  /\ sale[r] = "health"
  /\ Persist(r, "RESERVED")
  /\ Reserve(r)
  /\ owner' = [owner EXCEPT ![Key[r]] = r]
  /\ sale'  = [sale EXCEPT ![r] = "reserved"]
  /\ UNCHANGED <<commission, pendings, result, claims, reply, provider, services,
                 workers, restarts>>

\* Unit of work 1: create, validate, reserve, record the key.
ReserveSale(r) ==
  /\ sale[r] = "health"
  /\ owner[Key[r]] = NoRequest
  /\ Persist(r, "RESERVED")
  /\ Reserve(r)
  /\ owner' = [owner EXCEPT ![Key[r]] = r]
  /\ sale'  = [sale EXCEPT ![r] = "reserved"]
  /\ UNCHANGED <<commission, pendings, result, claims, reply, provider, services,
                 workers, restarts>>

\* Mutant: the row outlives the rollback.
ReserveHalfRolledBack(r) ==
  /\ sale[r] = "health"
  /\ owner[Key[r]] # NoRequest
  /\ Persist(r, "RESERVED")
  /\ Answer(r, "PERSISTENCE_FAILURE")
  /\ UNCHANGED <<reservation, posted, commission, pendings, records, claims, provider,
                 services, workers, restarts>>

\* Unit of work 1 rolled back: the unique key was taken while the provider's
\* health was awaited, or the available balance does not cover the amount.
ReserveRolledBack(r) ==
  /\ sale[r] = "health"
  /\ \/ owner[Key[r]] # NoRequest /\ Answer(r, "PERSISTENCE_FAILURE")
     \/ /\ owner[Key[r]] = NoRequest
        /\ Available < Amount[r]
        /\ Answer(r, "INSUFFICIENT_BALANCE")
  /\ UNCHANGED <<rows, pendings, records, claims, provider, services, workers, restarts>>

\* The row is overwritten from the copy in memory, then provider.submit() is
\* called and awaited.
SubmitToProvider(r) ==
  /\ sale[r] = "reserved"
  /\ Persist(r, "PROCESSING")
  /\ sale'     = [sale EXCEPT ![r] = "submitted"]
  /\ provider' = [provider EXCEPT ![r] = "asked"]
  /\ UNCHANGED <<reservation, posted, commission, pendings, records, claims, reply,
                 services, workers, restarts>>

\* Unit of work 2, CONFIRMED_SUCCESS.
SubmitConfirmed(r) ==
  /\ sale[r] = "submitted"
  /\ provider[r] = "delivered"
  /\ Persist(r, "SUCCESSFUL")
  /\ FinalizeSuccess(r, Profit[r])
  /\ commission' = [commission EXCEPT ![r] = TRUE]
  /\ RecordIdempotencyResult(r, "SUCCESSFUL")
  /\ Answer(r, "SUCCESSFUL")
  /\ UNCHANGED <<pendings, owner, claims, provider, services, workers, restarts>>

\* Unit of work 2, CONFIRMED_FAILURE or REJECTED.
SubmitRefused(r) ==
  /\ sale[r] = "submitted"
  /\ provider[r] = "refused"
  /\ Persist(r, "FAILED")
  /\ Release(r)
  /\ RecordIdempotencyResult(r, "FAILED")
  /\ Answer(r, "FAILED")
  /\ UNCHANGED <<commission, pendings, owner, claims, provider, services, workers, restarts>>

\* Unit of work 2, INDETERMINATE, DUPLICATE or a thrown submit: the row is
\* overwritten from memory and nothing looks at the reservation.
SubmitSilent(r) ==
  /\ sale[r] = "submitted"
  /\ Persist(r, "PENDING")
  /\ job' = [job EXCEPT ![r] = IF @ = "NONE" THEN "AWAITING" ELSE @]
  /\ Answer(r, "PENDING")
  /\ UNCHANGED <<reservation, posted, commission, attempts, overdue, support, complaint,
                 records, claims, provider, services, workers, restarts>>

\* Unit of work 2 threw: the reservation has already been resolved.
SubmitRolledBack(r) ==
  /\ sale[r] = "submitted"
  /\ provider[r] \in {"delivered", "refused"}
  /\ reservation[r] # "HELD"
  /\ Answer(r, "ERROR")
  /\ UNCHANGED <<rows, pendings, records, claims, provider, services, workers, restarts>>

-----------------------------------------------------------------------------
(* The provider and the clock.                                             *)

\* A request in its hands is delivered or refused, once, at a time of its own.
ProviderDecides(r) ==
  /\ provider[r] = "asked"
  /\ \E fate \in {"delivered", "refused"} : provider' = [provider EXCEPT ![r] = fate]
  /\ UNCHANGED <<rows, pendings, records, claims, sale, reply, services, workers, restarts>>

\* recoveryAgeMs passes since updated_at.
RowAges(r) ==
  /\ txn[r] \in InFlightStates
  /\ ~aged[r]
  /\ PromptSubmit => sale[r] \notin {"reserved", "submitted"}
  /\ aged' = [aged EXCEPT ![r] = TRUE]
  /\ UNCHANGED <<txn, reservation, posted, commission, pendings, records, claims,
                 calls, services, workers, restarts>>

\* deadline_at passes.
DeadlinePasses(r) ==
  /\ txn[r] = "PENDING"
  /\ ~overdue[r]
  /\ overdue' = [overdue EXCEPT ![r] = TRUE]
  /\ UNCHANGED <<rows, job, attempts, support, complaint, records, claims, calls, services,
                 workers, restarts>>

\* expires_at passes.
LeaseExpires(r) ==
  /\ holder[r] # NoWorker
  /\ ~expired[r]
  /\ expired' = [expired EXCEPT ![r] = TRUE]
  /\ UNCHANGED <<rows, pendings, records, holder, calls, services, workers, restarts>>

-----------------------------------------------------------------------------
(* recoverInFlight, in a worker process.                                   *)

Candidates == {r \in Requests : txn[r] \in InFlightStates /\ aged[r]}

\* findInFlightOlderThan: the batch, at most batchLimit rows.
Scan(w) ==
  /\ sweep[w] = "idle"
  /\ queue[w] = {}
  /\ \E batch \in SUBSET Candidates :
       /\ batch # {}
       /\ IF Cardinality(Candidates) <= BatchLimit
          THEN batch = Candidates ELSE Cardinality(batch) = BatchLimit
       /\ queue' = [queue EXCEPT ![w] = batch]
  /\ UNCHANGED <<rows, pendings, records, claims, calls, services, sweep, subject, restarts>>

\* Mutant: an expired lease still shuts the others out.
ClaimFreeOnly(w, r) ==
  /\ sweep[w] = "idle"
  /\ r \in queue[w]
  /\ aged[r]
  /\ holder[r] = NoWorker
  /\ holder'  = [holder EXCEPT ![r] = w]
  /\ expired' = [expired EXCEPT ![r] = FALSE]
  /\ sweep'   = [sweep EXCEPT ![w] = "claimed"]
  /\ subject' = [subject EXCEPT ![w] = r]
  /\ queue'   = [queue EXCEPT ![w] = @ \ {r}]
  /\ UNCHANGED <<rows, pendings, records, calls, services, restarts>>

\* claimTransaction succeeds: no active claim, or its lease has run out.
Claim(w, r) ==
  /\ sweep[w] = "idle"
  /\ r \in queue[w]
  /\ aged[r]
  /\ holder[r] = NoWorker \/ expired[r]
  /\ holder'  = [holder EXCEPT ![r] = w]
  /\ expired' = [expired EXCEPT ![r] = FALSE]
  /\ sweep'   = [sweep EXCEPT ![w] = "claimed"]
  /\ subject' = [subject EXCEPT ![w] = r]
  /\ queue'   = [queue EXCEPT ![w] = @ \ {r}]
  /\ UNCHANGED <<rows, pendings, records, calls, services, restarts>>

\* SKIPPED_TOO_RECENT, or SKIPPED_CLAIMED_BY_OTHER.
SkipCandidate(w, r) ==
  /\ sweep[w] = "idle"
  /\ r \in queue[w]
  /\ ~aged[r] \/ (holder[r] # NoWorker /\ ~expired[r])
  /\ queue' = [queue EXCEPT ![w] = @ \ {r}]
  /\ UNCHANGED <<rows, pendings, records, claims, calls, services, sweep, subject, restarts>>

\* Mutant: a submitted sale is taken for one that was not.
ReadAsNeverSubmitted(w) ==
  /\ sweep[w] = "claimed"
  /\ sweep' = [sweep EXCEPT ![w] =
                 CASE txn[subject[w]] \in {"RESERVED", "PROCESSING"} -> "releasing"
                   [] txn[subject[w]] = "PENDING"                    -> "lookup"
                   [] OTHER                                          -> "leaving"]
  /\ UNCHANGED <<rows, pendings, records, claims, calls, services, subject, queue, restarts>>

\* recoverOne reads the row under its claim and decides what to do about it.
ReadUnderClaim(w) ==
  /\ sweep[w] = "claimed"
  /\ sweep' = [sweep EXCEPT ![w] =
                 CASE txn[subject[w]] = "RESERVED"                  -> "releasing"
                   [] txn[subject[w]] \in {"PROCESSING", "PENDING"} -> "lookup"
                   [] OTHER                                         -> "leaving"]
  /\ UNCHANGED <<rows, pendings, records, claims, calls, services, subject, queue, restarts>>

\* RESERVED, provably never submitted: fail it from the row as it was read.
ReleaseNeverSubmitted(w) ==
  LET r == subject[w] IN
  /\ sweep[w] = "releasing"
  /\ Persist(r, "FAILED")
  /\ Release(r)
  /\ RecordIdempotencyResult(r, "FAILED")
  /\ sweep' = [sweep EXCEPT ![w] = "leaving"]
  /\ UNCHANGED <<commission, pendings, owner, claims, calls, services, subject, queue,
                 restarts>>

\* Mutant: the answer is applied to the row as it was before the await.
ResolvableUnread(w) == sweep[w] = "lookup"

\* The lookup answered and the current row still waits for it.
Resolvable(w) ==
  /\ sweep[w] = "lookup"
  /\ txn[subject[w]] \in {"PROCESSING", "PENDING"}

RecoverSuccessful(w) ==
  LET r == subject[w] IN
  /\ Resolvable(w)
  /\ provider[r] = "delivered"
  /\ Persist(r, "SUCCESSFUL")
  /\ FinalizeSuccess(r, 0)
  /\ ClosePending(r, "RESOLVED")
  /\ RecordIdempotencyResult(r, "SUCCESSFUL")
  /\ sweep' = [sweep EXCEPT ![w] = "leaving"]
  /\ UNCHANGED <<commission, attempts, overdue, support, complaint, owner, claims, calls,
                 services, subject, queue, restarts>>

RecoverFailed(w) ==
  LET r == subject[w] IN
  /\ Resolvable(w)
  /\ provider[r] = "refused"
  /\ Persist(r, "FAILED")
  /\ Release(r)
  /\ ClosePending(r, "RESOLVED")
  /\ RecordIdempotencyResult(r, "FAILED")
  /\ sweep' = [sweep EXCEPT ![w] = "leaving"]
  /\ UNCHANGED <<commission, attempts, overdue, support, complaint, owner, claims, calls,
                 services, subject, queue, restarts>>

\* recordResolutionAttempt counts only while the job is open.
NewAttempts(r) ==
  IF job[r] \in {"NONE", "AWAITING"} THEN CountAttempt(attempts[r]) ELSE attempts[r]

\* ensurePending: a job created now starts its clock at updated_at, so it may be
\* past its deadline at birth.
PastDeadline(r) == IF job[r] = "NONE" THEN BOOLEAN ELSE {overdue[r]}

MustEscalate(r, late) == late \/ NewAttempts(r) >= MaxStatusAttempts

\* STILL_PROCESSING, UNKNOWN, PROVIDER_UNAVAILABLE, MALFORMED_RESPONSE or
\* AUTH_OR_CONFIG_FAILURE: the value stays where it is.
HoldPending(w) ==
  LET r == subject[w] IN
  /\ Resolvable(w)
  /\ FALSE \in PastDeadline(r) /\ ~MustEscalate(r, FALSE)
  /\ IF txn[r] = "PROCESSING" THEN Persist(r, "PENDING") ELSE UNCHANGED <<txn, aged>>
  /\ job'      = [job EXCEPT ![r] = IF @ = "NONE" THEN "AWAITING" ELSE @]
  /\ attempts' = [attempts EXCEPT ![r] = NewAttempts(r)]
  /\ sweep'    = [sweep EXCEPT ![w] = "leaving"]
  /\ UNCHANGED <<reservation, posted, commission, overdue, support, complaint, records,
                 claims, calls, services, subject, queue, restarts>>

\* Indeterminate, and out of attempts or past the deadline.
EscalateUnderReview(w) ==
  LET r == subject[w] IN
  /\ Resolvable(w)
  /\ \E late \in PastDeadline(r) : MustEscalate(r, late)
  /\ Persist(r, "UNDER_REVIEW")
  /\ MoveToUnderReview(r)
  /\ job'      = [job EXCEPT ![r] = IF @ \in {"NONE", "AWAITING"} THEN "ESCALATED" ELSE @]
  /\ attempts' = [attempts EXCEPT ![r] = NewAttempts(r)]
  /\ OpenSupportCase(r)
  /\ sweep'    = [sweep EXCEPT ![w] = "leaving"]
  /\ UNCHANGED <<commission, overdue, complaint, records, claims, calls, services, subject,
                 queue, restarts>>

\* SKIPPED_TERMINAL: somebody else resolved it while the lookup was awaited.
FindResolved(w) ==
  /\ sweep[w] = "lookup"
  /\ txn[subject[w]] \notin {"PROCESSING", "PENDING"}
  /\ sweep' = [sweep EXCEPT ![w] = "leaving"]
  /\ UNCHANGED <<rows, pendings, records, claims, calls, services, subject, queue, restarts>>

\* RECOVERY_FAILED: the unit threw on the reservation and was rolled back.
RecoveryRolledBack(w) ==
  LET r == subject[w] IN
  /\ \/ sweep[w] = "releasing"
     \/ /\ Resolvable(w)
        /\ \/ provider[r] \in {"delivered", "refused"}
           \/ \E late \in PastDeadline(r) : MustEscalate(r, late)
  /\ reservation[r] # "HELD"
  /\ sweep' = [sweep EXCEPT ![w] = "leaving"]
  /\ UNCHANGED <<rows, pendings, records, claims, calls, services, subject, queue, restarts>>

\* Mutant: the claim is freed whoever holds it.
ReleaseAnyClaim(w) ==
  /\ sweep[w] = "leaving"
  /\ holder'  = [holder EXCEPT ![subject[w]] = NoWorker]
  /\ expired' = [expired EXCEPT ![subject[w]] = FALSE]
  /\ sweep'   = [sweep EXCEPT ![w] = "idle"]
  /\ subject' = [subject EXCEPT ![w] = NoRequest]
  /\ UNCHANGED <<rows, pendings, records, calls, services, queue, restarts>>

\* The finally block: releaseClaim frees the claim only if it is still ours.
ReleaseClaim(w) ==
  /\ sweep[w] = "leaving"
  /\ holder'  = [holder EXCEPT ![subject[w]] = IF @ = w THEN NoWorker ELSE @]
  /\ expired' = [expired EXCEPT ![subject[w]] = @ /\ holder[subject[w]] # w]
  /\ sweep'   = [sweep EXCEPT ![w] = "idle"]
  /\ subject' = [subject EXCEPT ![w] = NoRequest]
  /\ UNCHANGED <<rows, pendings, records, calls, services, queue, restarts>>

-----------------------------------------------------------------------------
(* resolvePending, in any process that polls or receives a callback.       *)

\* The row is PENDING: count an attempt outside any transaction, then await
\* getStatus.
AskStatus(r) ==
  /\ ~asking[r]
  /\ txn[r] = "PENDING"
  /\ attempts' = [attempts EXCEPT ![r] = IF job[r] = "AWAITING" THEN CountAttempt(@) ELSE @]
  /\ asking'   = [asking EXCEPT ![r] = TRUE]
  /\ UNCHANGED <<rows, job, overdue, support, complaint, records, claims, calls, desks,
                 workers, restarts>>

\* The answer arrives, the current row is re-read and the job closes.
Answered(r) ==
  /\ asking[r]
  /\ txn[r] = "PENDING"
  /\ job[r] = "AWAITING"
  /\ asking' = [asking EXCEPT ![r] = FALSE]

ResolveSuccessful(r) ==
  /\ Answered(r)
  /\ provider[r] = "delivered"
  /\ Persist(r, "SUCCESSFUL")
  /\ FinalizeSuccess(r, 0)
  /\ ClosePending(r, "RESOLVED")
  /\ RecordIdempotencyResult(r, "SUCCESSFUL")
  /\ UNCHANGED <<commission, attempts, overdue, support, complaint, owner, claims, calls,
                 desks, workers, restarts>>

ResolveFailed(r) ==
  /\ Answered(r)
  /\ provider[r] = "refused"
  /\ Persist(r, "FAILED")
  /\ Release(r)
  /\ ClosePending(r, "RESOLVED")
  /\ RecordIdempotencyResult(r, "FAILED")
  /\ UNCHANGED <<commission, attempts, overdue, support, complaint, owner, claims, calls,
                 desks, workers, restarts>>

\* Still unknown and past the deadline.  The support case is inserted without
\* looking for one; its reference is unique among escalations.
ResolveEscalated(r) ==
  /\ Answered(r)
  /\ overdue[r]
  /\ support[r] = "NONE"
  /\ Persist(r, "UNDER_REVIEW")
  /\ MoveToUnderReview(r)
  /\ ClosePending(r, "ESCALATED")
  /\ support' = [support EXCEPT ![r] = "OPEN"]
  /\ UNCHANGED <<commission, attempts, overdue, complaint, records, claims, calls, desks,
                 workers, restarts>>

\* getStatus threw, the row moved on, the job was closed, nothing is known yet,
\* or the unit of work was rolled back.
ResolveUnchanged(r) ==
  /\ asking[r]
  /\ asking' = [asking EXCEPT ![r] = FALSE]
  /\ UNCHANGED <<rows, pendings, records, claims, calls, desks, workers, restarts>>

-----------------------------------------------------------------------------
(* requireReversal and completeReversal, called by operations staff.       *)

ReadForReversal(r) ==
  /\ r \in Reversible
  /\ txn[r] \in {"PENDING", "UNDER_REVIEW"}
  /\ reviewed[r] # txn[r]
  /\ reviewed' = [reviewed EXCEPT ![r] = txn[r]]
  /\ UNCHANGED <<rows, pendings, records, claims, calls, asking, crediting, complaining,
                 workers, restarts>>

\* The transaction writes the row that was read before it began.
RequireReversal(r) ==
  /\ reviewed[r] # "NONE"
  /\ AtomicReversal => txn[r] = reviewed[r]
  /\ Persist(r, "REVERSAL_REQUIRED")
  /\ IF reviewed[r] = "PENDING" THEN ClosePending(r, "ESCALATED") ELSE UNCHANGED job
  /\ OpenSupportCase(r)
  /\ reviewed' = [reviewed EXCEPT ![r] = "NONE"]
  /\ UNCHANGED <<reservation, posted, commission, attempts, overdue, complaint, records,
                 claims, calls, asking, crediting, complaining, workers, restarts>>

\* A supervisor's approval: the value returns from whichever bucket has it.
CompleteReversal(r) ==
  /\ txn[r] = "REVERSAL_REQUIRED"
  /\ Persist(r, "REVERSED")
  /\ ReleaseFromUnderReview(r) \/ Release(r)
  /\ ApproveSupportCase(r)
  /\ RecordIdempotencyResult(r, "REVERSED")
  /\ UNCHANGED <<commission, job, attempts, overdue, owner, claims, calls, services,
                 workers, restarts>>

-----------------------------------------------------------------------------
(* The console's approval of a reversal the shop asked for, on a sale that *)
(* was settled (the requests themselves are in ShopFunds).                 *)

\* POST /reversals/:id/approve reads the sale before it begins its transaction.
ReadForCredit(r) ==
  /\ r \in Reversible
  /\ txn[r] = "SUCCESSFUL"
  /\ ~crediting[r]
  /\ crediting' = [crediting EXCEPT ![r] = TRUE]
  /\ UNCHANGED <<rows, pendings, records, claims, calls, asking, reviewed, complaining,
                 workers, restarts>>

\* Mutant: the sale goes on reading SUCCESSFUL.
CreditUnmarked(r) ==
  /\ crediting[r]
  /\ Append(r, Entries("PROVIDER_SETTLEMENT", "AVAILABLE", Amount[r]))
  /\ crediting' = [crediting EXCEPT ![r] = FALSE]
  /\ UNCHANGED <<txn, aged, reservation, commission, pendings, records, claims, calls,
                 asking, reviewed, complaining, workers, restarts>>

\* postReversalAdjustment, and the row without a look at it.  The reservation
\* stays SETTLED and no result is recorded.
CreditReversal(r) ==
  /\ crediting[r]
  /\ Persist(r, "REVERSED")
  /\ Append(r, Entries("PROVIDER_SETTLEMENT", "AVAILABLE", Amount[r]))
  /\ crediting' = [crediting EXCEPT ![r] = FALSE]
  /\ UNCHANGED <<reservation, commission, pendings, records, claims, calls, asking,
                 reviewed, complaining, workers, restarts>>

\* The transaction could not be begun or was rolled back.
DropCredit(r) ==
  /\ crediting[r]
  /\ crediting' = [crediting EXCEPT ![r] = FALSE]
  /\ UNCHANGED <<rows, pendings, records, claims, calls, asking, reviewed, complaining,
                 workers, restarts>>

-----------------------------------------------------------------------------
(* A complaint, at the till.                                               *)

\* POST /complaint finds the sale, in whatever state, and no case about it.
ReadForComplaint(r) ==
  /\ r \in Disputed
  /\ txn[r] # "NONE"
  /\ ~HasCase(r)
  /\ ~complaining[r]
  /\ complaining' = [complaining EXCEPT ![r] = TRUE]
  /\ UNCHANGED <<rows, pendings, records, claims, calls, asking, reviewed, crediting,
                 workers, restarts>>

\* The case is inserted under a reference of its own, whatever was opened since.
FileComplaint(r) ==
  /\ complaining[r]
  /\ complaint'   = [complaint EXCEPT ![r] = "OPEN"]
  /\ complaining' = [complaining EXCEPT ![r] = FALSE]
  /\ UNCHANGED <<rows, job, attempts, overdue, support, records, claims, calls, asking,
                 reviewed, crediting, workers, restarts>>

\* NOT_SAVED.
DropComplaint(r) ==
  /\ complaining[r]
  /\ complaining' = [complaining EXCEPT ![r] = FALSE]
  /\ UNCHANGED <<rows, pendings, records, claims, calls, asking, reviewed, crediting,
                 workers, restarts>>

-----------------------------------------------------------------------------
(* Crashes and restarts.  Nothing but the database survives.               *)

Live == {"health", "reserved", "submitted"}

ServerCrash ==
  /\ restarts < MaxRestarts
  /\ \E r \in Requests :
       \/ sale[r] \in Live \/ asking[r] \/ reviewed[r] # "NONE"
       \/ crediting[r] \/ complaining[r]
  /\ sale'     = [r \in Requests |-> IF sale[r] \in Live THEN "dead" ELSE sale[r]]
  /\ asking'   = [r \in Requests |-> FALSE]
  /\ reviewed' = [r \in Requests |-> "NONE"]
  /\ crediting'   = [r \in Requests |-> FALSE]
  /\ complaining' = [r \in Requests |-> FALSE]
  /\ restarts' = restarts + 1
  /\ UNCHANGED <<rows, pendings, records, claims, reply, provider, workers>>

\* A claim taken by a dead worker waits for its lease.
WorkerCrash(w) ==
  /\ restarts < MaxRestarts
  /\ sweep[w] # "idle"
  /\ sweep'    = [sweep EXCEPT ![w] = "idle"]
  /\ subject'  = [subject EXCEPT ![w] = NoRequest]
  /\ queue'    = [queue EXCEPT ![w] = {}]
  /\ restarts' = restarts + 1
  /\ UNCHANGED <<rows, pendings, records, claims, calls, services>>

\* shouldContinue is false: the sweep stops between two transactions.
StopEarly(w) ==
  /\ restarts < MaxRestarts
  /\ sweep[w] = "idle"
  /\ queue[w] # {}
  /\ queue'    = [queue EXCEPT ![w] = {}]
  /\ restarts' = restarts + 1
  /\ UNCHANGED <<rows, pendings, records, claims, calls, services, sweep, subject>>

-----------------------------------------------------------------------------

Init ==
  /\ txn         = [r \in Requests |-> "NONE"]
  /\ aged        = [r \in Requests |-> FALSE]
  /\ reservation = [r \in Requests |-> "NONE"]
  /\ posted      = [r \in Requests |-> NoEntries]
  /\ commission  = [r \in Requests |-> FALSE]
  /\ job         = [r \in Requests |-> "NONE"]
  /\ attempts    = [r \in Requests |-> 0]
  /\ overdue     = [r \in Requests |-> FALSE]
  /\ support     = [r \in Requests |-> "NONE"]
  /\ complaint   = [r \in Requests |-> "NONE"]
  /\ owner       = [k \in Keys |-> NoRequest]
  /\ result      = [k \in Keys |-> "NONE"]
  /\ holder      = [r \in Requests |-> NoWorker]
  /\ expired     = [r \in Requests |-> FALSE]
  /\ sale        = [r \in Requests |-> "idle"]
  /\ reply       = [r \in Requests |-> "NONE"]
  /\ provider    = [r \in Requests |-> "unseen"]
  /\ asking      = [r \in Requests |-> FALSE]
  /\ reviewed    = [r \in Requests |-> "NONE"]
  /\ crediting   = [r \in Requests |-> FALSE]
  /\ complaining = [r \in Requests |-> FALSE]
  /\ sweep       = [w \in Workers |-> "idle"]
  /\ subject     = [w \in Workers |-> NoRequest]
  /\ queue       = [w \in Workers |-> {}]
  /\ restarts    = 0

CreateSale(r) ==
  \/ RefuseRequest(r) \/ FindExisting(r) \/ AskHealth(r) \/ ProviderUnhealthy(r)
  \/ ReserveSale(r) \/ ReserveRolledBack(r) \/ SubmitToProvider(r)
  \/ SubmitConfirmed(r) \/ SubmitRefused(r) \/ SubmitSilent(r) \/ SubmitRolledBack(r)

Environment(r) ==
  \/ ProviderDecides(r) \/ RowAges(r) \/ DeadlinePasses(r) \/ LeaseExpires(r)

RecoverOne(w) ==
  \/ ReadUnderClaim(w) \/ ReleaseNeverSubmitted(w) \/ RecoverSuccessful(w)
  \/ RecoverFailed(w) \/ HoldPending(w) \/ EscalateUnderReview(w) \/ FindResolved(w)
  \/ RecoveryRolledBack(w) \/ ReleaseClaim(w)

Recover(w) ==
  \/ Scan(w) \/ RecoverOne(w)
  \/ \E r \in Requests : Claim(w, r) \/ SkipCandidate(w, r)

ResolvePending(r) ==
  \/ AskStatus(r) \/ ResolveSuccessful(r) \/ ResolveFailed(r) \/ ResolveEscalated(r)
  \/ ResolveUnchanged(r)

Reversal(r) ==
  \/ ReadForReversal(r) \/ RequireReversal(r) \/ CompleteReversal(r)
  \/ ReadForCredit(r) \/ CreditReversal(r) \/ DropCredit(r)

Complain(r) == ReadForComplaint(r) \/ FileComplaint(r) \/ DropComplaint(r)

Next ==
  \/ \E r \in Requests :
       \/ CreateSale(r) \/ Environment(r) \/ ResolvePending(r) \/ Reversal(r)
       \/ Complain(r)
  \/ \E w \in Workers : Recover(w) \/ WorkerCrash(w) \/ StopEarly(w)
  \/ ServerCrash

Spec == Init /\ [][Next]_vars

\* The adapter always answers or throws, time passes, and a supervised worker
\* keeps sweeping.  Nobody is obliged to poll, to reverse or to crash, and the
\* provider may stay silent for ever.
Fairness ==
  /\ \A r \in Requests :
       /\ WF_vars(SubmitToProvider(r))
       /\ WF_vars(SubmitSilent(r) \/ SubmitConfirmed(r) \/ SubmitRefused(r)
                    \/ SubmitRolledBack(r))
       /\ WF_vars(RowAges(r))
       /\ WF_vars(LeaseExpires(r))
  /\ \A w \in Workers : WF_vars(Recover(w))

FairSpec == Spec /\ Fairness
-----------------------------------------------------------------------------
(* Correctness.                                                            *)

\* Every row, call and worker has a value of its kind (the column types and
\* CHECK constraints of the schema).
TypeOK ==
  /\ txn         \in [Requests -> States]
  /\ aged        \in [Requests -> BOOLEAN]
  /\ reservation \in [Requests -> Reservations]
  /\ posted      \in [Requests -> [Accounts -> Int]]
  /\ commission  \in [Requests -> BOOLEAN]
  /\ job         \in [Requests -> Jobs]
  /\ attempts    \in [Requests -> 0 .. MaxStatusAttempts]
  /\ overdue     \in [Requests -> BOOLEAN]
  /\ support     \in [Requests -> Cases]
  /\ complaint   \in [Requests -> Cases]
  /\ owner       \in [Keys -> Requests \cup {NoRequest}]
  /\ result      \in [Keys -> TerminalStates \cup {"NONE"}]
  /\ holder      \in [Requests -> Workers \cup {NoWorker}]
  /\ expired     \in [Requests -> BOOLEAN]
  /\ sale        \in [Requests -> {"idle", "health", "reserved", "submitted", "done", "dead"}]
  /\ reply       \in [Requests -> Replies]
  /\ provider    \in [Requests -> {"unseen", "asked", "delivered", "refused"}]
  /\ asking      \in [Requests -> BOOLEAN]
  /\ reviewed    \in [Requests -> {"NONE", "PENDING", "UNDER_REVIEW"}]
  /\ crediting   \in [Requests -> BOOLEAN]
  /\ complaining \in [Requests -> BOOLEAN]
  /\ sweep       \in [Workers -> {"idle", "claimed", "releasing", "lookup", "leaving"}]
  /\ subject     \in [Workers -> Requests \cup {NoRequest}]
  /\ \A w \in Workers : sweep[w] # "idle" => subject[w] \in Requests
  /\ queue       \in [Workers -> SUBSET Requests]
  /\ restarts    \in 0 .. MaxRestarts

\* What a sale that took its value out of the float and settled it has posted.
SettledPostings(r, profit) ==
  [NoEntries EXCEPT !["AVAILABLE"] = -Amount[r],
                    !["PROVIDER_SETTLEMENT"] = Amount[r] - profit,
                    !["TELGA_REVENUE"] = profit]

\* The same sale, once the console credited its price back.  The shop keeps its
\* commission.
CreditedPostings(r, profit) ==
  [NoEntries EXCEPT !["PROVIDER_SETTLEMENT"] = -profit,
                    !["TELGA_REVENUE"] = profit]

\* What the ledger may have posted about a sale, by the status of its reservation.
LegalPostings(r) ==
  [NONE         |-> {NoEntries},
   HELD         |-> {Entries("AVAILABLE", "RESERVED", Amount[r])},
   UNDER_REVIEW |-> {Entries("AVAILABLE", "UNDER_REVIEW", Amount[r])},
   RELEASED     |-> {NoEntries},
   SETTLED      |-> {SettledPostings(r, 0), SettledPostings(r, Profit[r]),
                     CreditedPostings(r, 0), CreditedPostings(r, Profit[r])}]

\* The append-only ledger and the reservation never disagree about where the
\* face value of a sale is, whoever resolves it, however often it is tried and
\* whatever is interleaved: held once, returned once or settled once, and credited
\* back at most once after that.  This is what guardedTransition and one
\* transaction per operation are for.
PostedMatchesReservation ==
  \A r \in Requests : posted[r] \in LegalPostings(r)[reservation[r]]

\* The ledger gave the price of a settled sale back.
Credited(r) == reservation[r] = "SETTLED" /\ posted[r]["AVAILABLE"] = 0

\* VALUE_DISPOSITION: the bucket that holds the value is the one the row's state
\* promises, with two exceptions.  A sale put up for reversal from PENDING still
\* has its value in the reserved bucket; a sale the console reversed keeps its
\* settled reservation, and the ledger has the credit.  So a sale still read as
\* SUCCESSFUL has not been credited, and one read as REVERSED has its price back,
\* one way or the other.
StateMatchesReservation ==
  \A r \in Requests :
    \/ reservation[r] = Disposition[txn[r]] /\ ~Credited(r)
    \/ txn[r] = "REVERSAL_REQUIRED" /\ reservation[r] = "HELD"
    \/ txn[r] = "REVERSED" /\ Credited(r)

\* The money follows the goods: a failed sale gave its value back only if the
\* provider never delivers it, and a sale is settled only if it did deliver.
\* (RESERVED is taken as proof that the provider was never called.)
MoneyFollowsDelivery ==
  \A r \in Requests :
    /\ txn[r] = "FAILED" => provider[r] \in {"unseen", "refused"}
    /\ reservation[r] = "SETTLED" => provider[r] = "delivered"

\* One physical request, one sale: a duplicate key never debits the merchant
\* twice, whichever of the calls won the race around the health check, and the
\* key names the sale that was made.
OneSalePerKey ==
  \A k \in Keys :
    {r \in Requests : Key[r] = k /\ reservation[r] # "NONE"} = {owner[k]} \ {NoRequest}

\* How a sale was resolved.  The console's reversal credits a sale that had been
\* resolved SUCCESSFUL.
Resolution(r) ==
  IF txn[r] \notin TerminalStates THEN "NONE"
  ELSE IF txn[r] = "REVERSED" /\ Credited(r) THEN "SUCCESSFUL" ELSE txn[r]

\* The result recorded for a key is how its sale was resolved, and is there
\* exactly when the sale has been: no unit of work settles, fails or reverses a
\* sale without it, and none records it twice with different answers.  The
\* console's reversal does not touch it.
RecordedResultIsFinal ==
  \A k \in Keys :
    result[k] = IF owner[k] = NoRequest THEN "NONE" ELSE Resolution(owner[k])

\* What the till printed stays true.  A sale reported FAILED is so for ever; one
\* reported SUCCESSFUL stays so until the console reverses it, and then its price
\* is back in the float; one reported refused, duplicate or rolled back moved no
\* money.
ReplyHolds ==
  \A r \in Requests :
    /\ reply[r] = "FAILED" => txn[r] = "FAILED"
    /\ reply[r] = "SUCCESSFUL"
         => txn[r] = "SUCCESSFUL" \/ (txn[r] = "REVERSED" /\ Credited(r))
    /\ reply[r] \in {"REFUSED", "DUPLICATE_REQUEST", "PAYLOAD_MISMATCH",
                     "PROVIDER_UNAVAILABLE", "INSUFFICIENT_BALANCE",
                     "PERSISTENCE_FAILURE"}
         => txn[r] = "NONE" /\ reservation[r] = "NONE" /\ posted[r] = NoEntries
    /\ reply[r] # "ERROR"

\* Nobody is forgotten: a pending sale has an open job, a sale in somebody's
\* hands has a case nobody has approved yet, the escalation's or the merchant's
\* own, and a job that no longer polls, and a sale that was resolved leaves no job
\* to poll.
UncertainSaleIsTracked ==
  \A r \in Requests :
    /\ txn[r] = "PENDING" => job[r] = "AWAITING"
    /\ txn[r] \in {"UNDER_REVIEW", "REVERSAL_REQUIRED"}
         => job[r] = "ESCALATED" /\ "OPEN" \in {support[r], complaint[r]}
    /\ txn[r] \in {"SUCCESSFUL", "FAILED"} => job[r] \in {"NONE", "RESOLVED"}

\* The merchant never spends what is not there, with several sales reserving
\* while others are released, reviewed and reversed.
NoOverdraft == Available >= 0

\* A commission entry says what the settlement posted: the profit leg and the
\* commission_entries row are there together or not at all.
CommissionIsPosted ==
  \A r \in Requests :
    /\ commission[r] => reservation[r] = "SETTLED"
    /\ posted[r]["TELGA_REVENUE"] = IF commission[r] THEN Profit[r] ELSE 0

\* A claim whose lease runs is taken away by nobody but its holder, who has
\* finished with the row: releaseClaim of a worker that lost its lease must not
\* free the claim of the one that took over.
ClaimIsRespected ==
  [][\A r \in Requests :
       holder[r] # NoWorker /\ ~expired[r] /\ holder'[r] # holder[r]
         => sweep[holder[r]] = "leaving" /\ subject[holder[r]] = r]_vars

\* States that can follow a state: the closure of VALID_TRANSITIONS, because
\* one unit of work may persist several moves.
Reachable ==
  [s \in States |->
     CASE s \in TerminalStates       -> {s}
       [] s = "REVERSAL_REQUIRED"    -> {s, "REVERSED"}
       [] s = "UNDER_REVIEW"         -> {s, "SUCCESSFUL", "FAILED", "REVERSAL_REQUIRED"}
       [] s = "PENDING"              -> {s, "SUCCESSFUL", "FAILED", "UNDER_REVIEW",
                                         "REVERSAL_REQUIRED"}
       [] s = "PROCESSING"           -> {s, "SUCCESSFUL", "FAILED", "PENDING",
                                         "UNDER_REVIEW"}
       [] s = "RESERVED"             -> {s, "PROCESSING", "FAILED"}
       [] OTHER                      -> {s, "RESERVED"}]

\* Only legal moves are persisted, across every process that holds a copy of the
\* row, and one that VALID_TRANSITIONS does not have: the console's, out of
\* SUCCESSFUL, in the step that posts the credit and only where none was posted.
\* FAILED and REVERSED are final.
MovesAreLegal ==
  [][\A r \in Requests :
       \/ txn'[r] \in Reachable[txn[r]]
       \/ /\ txn[r] = "SUCCESSFUL" /\ ~Credited(r)
          /\ txn'[r] = "REVERSED" /\ Credited(r)']_vars

\* Held value is always decided: whatever crashes, a sale in flight ends
\* settled, returned, or in front of a person, with nobody polling by hand.
InFlightIsDecided ==
  \A r \in Requests : txn[r] \in InFlightStates ~> txn[r] \notin InFlightStates

\* What a merchant sees of a sale's value, and the promise made about it.
Phase ==
  [r \in Requests |->
     CASE reservation[r] = "NONE"                    -> "new"
       [] reservation[r] = "SETTLED" /\ ~Credited(r) -> "settled"
       [] Credited(r)                                -> "refunded"
       [] reservation[r] = "RELEASED"                -> "returned"
       [] OTHER                                      -> "held"]

Float == INSTANCE MerchantFloat WITH Sales <- Requests, phase <- Phase

\* Whatever the processes do to each other, the merchant sees sales that are
\* held, settled, returned and refunded once each against a float that covers
\* them, read off the ledger: the append-only postings of createSale, recovery,
\* polling and both kinds of reversal implement MerchantFloat.
ImplementsFloat == Float!Spec

-----------------------------------------------------------------------------
(* What the sources say of the program and the program does not keep.      *)

\* recoverInFlight.ts: RESERVED is the one case where releasing funds without a
\* provider answer is safe.  createSale may still be on its way to the provider.
ReleasedIsNotSubmitted ==
  \A r \in Requests : reservation[r] = "RELEASED" => provider[r] \in {"unseen", "refused"}

\* states.ts: VALUE_DISPOSITION assigns every state exactly one bucket.
\* requireReversal leaves the value of a PENDING sale where it was.
ValueIsInItsBucket ==
  \A r \in Requests : reservation[r] = Disposition[txn[r]]

\* The fee policy: all shops earn the same commission from each sale.  A sale
\* that recovery or polling finds successful earns none.
EverySaleEarnsCommission ==
  \A r \in Requests : txn[r] = "SUCCESSFUL" => commission[r]
=============================================================================
