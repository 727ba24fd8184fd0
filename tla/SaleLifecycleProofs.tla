------------------------- MODULE SaleLifecycleProofs -------------------------
(***************************************************************************)
(* What holds of the life of a sale for every set of requests, keys and    *)
(* workers, every amount and every bound.                                  *)
(***************************************************************************)
EXTENDS SaleLifecycle, SumTheorems, TLAPS

USE ConstantsAssumption

-----------------------------------------------------------------------------
(* The ledger's building blocks.                                           *)

\* Entries, and the settlement posting, give every account an integer.
LEMMA EntriesType ==
  ASSUME NEW n \in Int, NEW profit \in Int, NEW from, NEW to
  PROVE  /\ Entries(from, to, n) \in [Accounts -> Int]
         /\ SettlementEntries(n, profit) \in [Accounts -> Int]
         /\ NoEntries \in [Accounts -> Int]
<1>1. Entries(from, to, n) \in [Accounts -> Int]  BY DEF Entries
<1>2. SettlementEntries(n, profit) \in [Accounts -> Int]  BY DEF SettlementEntries, NoEntries, Accounts
<1>3. NoEntries \in [Accounts -> Int]  BY DEF NoEntries
<1>4. QED  BY <1>1, <1>2, <1>3

\* A guarded transition keeps the types of the reservation and of the ledger.
LEMMA MoveType ==
  ASSUME TypeOK, NEW r \in Requests, NEW from, NEW to \in Reservations,
         NEW entries \in [Accounts -> Int], MoveReservation(r, from, to, entries)
  PROVE  /\ reservation' \in [Requests -> Reservations]
         /\ posted' \in [Requests -> [Accounts -> Int]]
<1>1. [a \in Accounts |-> posted[r][a] + entries[a]] \in [Accounts -> Int]
  BY DEF TypeOK
<1>2. QED  BY <1>1 DEF TypeOK, MoveReservation, Append

\* Every operation on value, in the same terms.
LEMMA OperationTypes ==
  ASSUME TypeOK, NEW r \in Requests, NEW profit \in Int,
         \/ Reserve(r) \/ Release(r) \/ FinalizeSuccess(r, profit)
         \/ MoveToUnderReview(r) \/ ReleaseFromUnderReview(r)
  PROVE  /\ reservation' \in [Requests -> Reservations]
         /\ posted' \in [Requests -> [Accounts -> Int]]
<1>1. Amount[r] \in Int  OBVIOUS
<1>2. CASE Reserve(r)
  BY <1>1, <1>2, EntriesType, MoveType DEF Reserve, Reservations
<1>3. CASE Release(r)
  BY <1>1, <1>3, EntriesType, MoveType DEF Release, Reservations
<1>4. CASE FinalizeSuccess(r, profit)
  BY <1>1, <1>4, EntriesType, MoveType DEF FinalizeSuccess, Reservations
<1>5. CASE MoveToUnderReview(r)
  BY <1>1, <1>5, EntriesType, MoveType DEF MoveToUnderReview, Reservations
<1>6. CASE ReleaseFromUnderReview(r)
  BY <1>1, <1>6, EntriesType, MoveType DEF ReleaseFromUnderReview, Reservations
<1>7. QED  BY <1>2, <1>3, <1>4, <1>5, <1>6

\* Every step keeps the types.
LEMMA TypeStep ==
  ASSUME TypeOK, [Next]_vars
  PROVE  TypeOK'
<1> USE DEF TypeOK, Persist, Answer, ClosePending, OpenSupportCase,
            RecordIdempotencyResult, rows, pendings, records, claims, calls, services, desks,
            workers, States, TerminalStates, InFlightStates, Jobs, Cases, Replies, Keys
<1>1. ASSUME NEW r \in Requests, RefuseRequest(r) PROVE TypeOK'
  BY <1>1 DEF RefuseRequest
<1>2. ASSUME NEW r \in Requests, FindExisting(r) PROVE TypeOK'
  BY <1>2 DEF FindExisting
<1>3. ASSUME NEW r \in Requests, AskHealth(r) PROVE TypeOK'
  BY <1>3 DEF AskHealth
<1>4. ASSUME NEW r \in Requests, ProviderUnhealthy(r) PROVE TypeOK'
  BY <1>4 DEF ProviderUnhealthy
<1>5. ASSUME NEW r \in Requests, ReserveSale(r) PROVE TypeOK'
  BY <1>5, OperationTypes DEF ReserveSale
<1>6. ASSUME NEW r \in Requests, ReserveRolledBack(r) PROVE TypeOK'
  <2>1. \E kind \in {"PERSISTENCE_FAILURE", "INSUFFICIENT_BALANCE"} : Answer(r, kind)
    BY <1>6, Zenon DEF ReserveRolledBack
  <2>2. UNCHANGED <<rows, pendings, records, claims, provider, services, workers, restarts>>
    BY <1>6, Zenon DEF ReserveRolledBack
  <2>3. QED  BY <2>1, <2>2
<1>7. ASSUME NEW r \in Requests, SubmitToProvider(r) PROVE TypeOK'
  BY <1>7 DEF SubmitToProvider
<1>8. ASSUME NEW r \in Requests, SubmitConfirmed(r) PROVE TypeOK'
  BY <1>8, OperationTypes DEF SubmitConfirmed
<1>9. ASSUME NEW r \in Requests, SubmitRefused(r) PROVE TypeOK'
  BY <1>9, OperationTypes DEF SubmitRefused
<1>10. ASSUME NEW r \in Requests, SubmitSilent(r) PROVE TypeOK'
  BY <1>10 DEF SubmitSilent
<1>11. ASSUME NEW r \in Requests, SubmitRolledBack(r) PROVE TypeOK'
  BY <1>11 DEF SubmitRolledBack
<1>12. ASSUME NEW r \in Requests, ProviderDecides(r) PROVE TypeOK'
  BY <1>12 DEF ProviderDecides
<1>13. ASSUME NEW r \in Requests, RowAges(r) PROVE TypeOK'
  BY <1>13 DEF RowAges
<1>14. ASSUME NEW r \in Requests, DeadlinePasses(r) PROVE TypeOK'
  BY <1>14 DEF DeadlinePasses
<1>15. ASSUME NEW r \in Requests, LeaseExpires(r) PROVE TypeOK'
  BY <1>15 DEF LeaseExpires
<1>16. ASSUME NEW r \in Requests, AskStatus(r) PROVE TypeOK'
  BY <1>16 DEF AskStatus, CountAttempt
<1>17. ASSUME NEW r \in Requests, ResolveSuccessful(r) PROVE TypeOK'
  BY <1>17, OperationTypes DEF ResolveSuccessful, Answered
<1>18. ASSUME NEW r \in Requests, ResolveFailed(r) PROVE TypeOK'
  BY <1>18, OperationTypes DEF ResolveFailed, Answered
<1>19. ASSUME NEW r \in Requests, ResolveEscalated(r) PROVE TypeOK'
  BY <1>19, OperationTypes DEF ResolveEscalated, Answered
<1>20. ASSUME NEW r \in Requests, ResolveUnchanged(r) PROVE TypeOK'
  BY <1>20 DEF ResolveUnchanged
<1>21. ASSUME NEW r \in Requests, ReadForReversal(r) PROVE TypeOK'
  BY <1>21 DEF ReadForReversal
<1>22. ASSUME NEW r \in Requests, RequireReversal(r) PROVE TypeOK'
  <2>1. job' \in [Requests -> Jobs] /\ support' \in [Requests -> Cases]
    <3>1. UNCHANGED job \/ ClosePending(r, "ESCALATED")
      BY <1>22, Zenon DEF RequireReversal
    <3>2. job' \in [Requests -> Jobs]
      <4>1. CASE UNCHANGED job  BY <4>1
      <4>2. CASE ClosePending(r, "ESCALATED")  BY <4>2
      <4>3. QED  BY <3>1, <4>1, <4>2
    <3>3. support' \in [Requests -> Cases]
      <4>1. OpenSupportCase(r)  BY <1>22, Zenon DEF RequireReversal
      <4>2. QED  BY <4>1
    <3>4. QED  BY <3>2, <3>3
  <2>2. QED  BY <1>22, <2>1 DEF RequireReversal
<1>23. ASSUME NEW r \in Requests, CompleteReversal(r) PROVE TypeOK'
  <2>1. support' \in [Requests -> Cases] /\ complaint' \in [Requests -> Cases]
    <3>1. \/ support' = [support EXCEPT ![r] = "APPROVED"] /\ UNCHANGED complaint
          \/ complaint' = [complaint EXCEPT ![r] = "APPROVED"] /\ UNCHANGED support
      BY <1>23, Zenon DEF CompleteReversal, ApproveSupportCase
    <3>2. CASE support' = [support EXCEPT ![r] = "APPROVED"] /\ UNCHANGED complaint
      BY <3>2
    <3>3. CASE complaint' = [complaint EXCEPT ![r] = "APPROVED"] /\ UNCHANGED support
      BY <3>3
    <3>4. QED  BY <3>1, <3>2, <3>3
  <2>2. Release(r) \/ ReleaseFromUnderReview(r)
    BY <1>23, Zenon DEF CompleteReversal
  <2>3. reservation' \in [Requests -> Reservations] /\ posted' \in [Requests -> [Accounts -> Int]]
    BY <2>2, OperationTypes
  <2>4. /\ Persist(r, "REVERSED") /\ RecordIdempotencyResult(r, "REVERSED")
        /\ UNCHANGED <<commission, job, attempts, overdue, owner, claims, calls, services,
                       workers, restarts>>
    BY <1>23, Zenon DEF CompleteReversal
  <2>5. QED  BY <2>1, <2>3, <2>4
<1>24. ASSUME NEW w \in Workers, ReadUnderClaim(w) PROVE TypeOK'
  BY <1>24 DEF ReadUnderClaim
<1>25. ASSUME NEW w \in Workers, ReleaseNeverSubmitted(w) PROVE TypeOK'
  BY <1>25, OperationTypes DEF ReleaseNeverSubmitted
<1>26. ASSUME NEW w \in Workers, RecoverSuccessful(w) PROVE TypeOK'
  BY <1>26, OperationTypes DEF RecoverSuccessful, Resolvable
<1>27. ASSUME NEW w \in Workers, RecoverFailed(w) PROVE TypeOK'
  BY <1>27, OperationTypes DEF RecoverFailed, Resolvable
<1>28. ASSUME NEW w \in Workers, HoldPending(w) PROVE TypeOK'
  <2>1. subject[w] \in Requests  BY <1>28 DEF HoldPending, Resolvable
  <2>2. NewAttempts(subject[w]) \in 0 .. MaxStatusAttempts
    BY <2>1 DEF NewAttempts, CountAttempt
  <2>3. Persist(subject[w], "PENDING") \/ UNCHANGED <<txn, aged>>
    BY <1>28, Zenon DEF HoldPending
  <2>4. txn' \in [Requests -> States] /\ aged' \in [Requests -> BOOLEAN]
    <3>1. CASE Persist(subject[w], "PENDING")  BY <2>1, <3>1
    <3>2. CASE UNCHANGED <<txn, aged>>  BY <3>2
    <3>3. QED  BY <2>3, <3>1, <3>2
  <2>5. /\ job' = [job EXCEPT ![subject[w]] = IF @ = "NONE" THEN "AWAITING" ELSE @]
        /\ attempts' = [attempts EXCEPT ![subject[w]] = NewAttempts(subject[w])]
        /\ sweep' = [sweep EXCEPT ![w] = "leaving"]
        /\ UNCHANGED <<reservation, posted, commission, overdue, support, complaint, records,
                       claims, calls, services, subject, queue, restarts>>
    BY <1>28, Zenon DEF HoldPending
  <2>6. QED  BY <2>1, <2>2, <2>4, <2>5
<1>29. ASSUME NEW w \in Workers, EscalateUnderReview(w) PROVE TypeOK'
  BY <1>29, OperationTypes DEF EscalateUnderReview, Resolvable, NewAttempts, CountAttempt
<1>30. ASSUME NEW w \in Workers, FindResolved(w) PROVE TypeOK'
  BY <1>30 DEF FindResolved
<1>31. ASSUME NEW w \in Workers, RecoveryRolledBack(w) PROVE TypeOK'
  <2>1. /\ sweep' = [sweep EXCEPT ![w] = "leaving"]
        /\ UNCHANGED <<rows, pendings, records, claims, calls, services, subject, queue,
                       restarts>>
    BY <1>31, Zenon DEF RecoveryRolledBack
  <2>2. subject[w] \in Requests  BY <1>31 DEF RecoveryRolledBack, Resolvable
  <2>3. QED  BY <2>1, <2>2
<1>32. ASSUME NEW w \in Workers, ReleaseClaim(w) PROVE TypeOK'
  BY <1>32 DEF ReleaseClaim
<1>33. ASSUME NEW w \in Workers, Scan(w) PROVE TypeOK'
  BY <1>33 DEF Scan, Candidates
<1>34. ASSUME NEW w \in Workers, WorkerCrash(w) PROVE TypeOK'
  BY <1>34 DEF WorkerCrash
<1>35. ASSUME NEW w \in Workers, StopEarly(w) PROVE TypeOK'
  BY <1>35 DEF StopEarly
<1>36. ASSUME NEW w \in Workers, NEW r \in Requests, Claim(w, r) PROVE TypeOK'
  BY <1>36 DEF Claim
<1>37. ASSUME NEW w \in Workers, NEW r \in Requests, SkipCandidate(w, r) PROVE TypeOK'
  BY <1>37 DEF SkipCandidate
<1>38. ASSUME ServerCrash PROVE TypeOK'
  BY <1>38 DEF ServerCrash
<1>39. ASSUME UNCHANGED vars PROVE TypeOK'
  BY <1>39 DEF vars
<1>40. ASSUME NEW r \in Requests, ReadForCredit(r) PROVE TypeOK'
  BY <1>40 DEF ReadForCredit
<1>41. ASSUME NEW r \in Requests, CreditReversal(r) PROVE TypeOK'
  <2>1. posted' \in [Requests -> [Accounts -> Int]]
    BY <1>41, EntriesType DEF CreditReversal, Append
  <2>2. QED  BY <1>41, <2>1 DEF CreditReversal
<1>42. ASSUME NEW r \in Requests, DropCredit(r) PROVE TypeOK'
  BY <1>42 DEF DropCredit
<1>43. ASSUME NEW r \in Requests, ReadForComplaint(r) PROVE TypeOK'
  BY <1>43 DEF ReadForComplaint
<1>44. ASSUME NEW r \in Requests, FileComplaint(r) PROVE TypeOK'
  BY <1>44 DEF FileComplaint
<1>45. ASSUME NEW r \in Requests, DropComplaint(r) PROVE TypeOK'
  BY <1>45 DEF DropComplaint
<1> HIDE DEF TypeOK
<1>46. ASSUME NEW r \in Requests, CreateSale(r) \/ Environment(r) PROVE TypeOK'
  BY <1>46, <1>1, <1>2, <1>3, <1>4, <1>5, <1>6, <1>7, <1>8, <1>9, <1>10, <1>11, <1>12, <1>13,
     <1>14, <1>15, Zenon
  DEF CreateSale, Environment
<1>47. ASSUME NEW r \in Requests, ResolvePending(r) \/ Reversal(r) \/ Complain(r) PROVE TypeOK'
  BY <1>47, <1>16, <1>17, <1>18, <1>19, <1>20, <1>21, <1>22, <1>23, <1>40, <1>41, <1>42, <1>43,
     <1>44, <1>45, Zenon
  DEF ResolvePending, Reversal, Complain
<1>48. ASSUME NEW w \in Workers, Recover(w) \/ WorkerCrash(w) \/ StopEarly(w) PROVE TypeOK'
  BY <1>48, <1>24, <1>25, <1>26, <1>27, <1>28, <1>29, <1>30, <1>31, <1>32, <1>33, <1>34, <1>35,
     <1>36, <1>37, Zenon
  DEF Recover, RecoverOne
<1>49. QED  BY <1>38, <1>39, <1>46, <1>47, <1>48, Zenon DEF Next

\* TypeOK holds in every reachable state: no process ever writes a value of the
\* wrong kind, and attempts and restarts stay within their bounds.
THEOREM TypeCorrect == Spec => []TypeOK
<1>1. Init => TypeOK
  BY DEF Init, TypeOK, NoEntries, States, Reservations, Jobs, Cases, Replies
<1>2. TypeOK /\ [Next]_vars => TypeOK'
  BY TypeStep
<1>3. QED  BY <1>1, <1>2, PTL DEF Spec

-----------------------------------------------------------------------------
(* The ledger and the reservation.                                         *)

\* A guarded transition whose postings carry the legal postings of one status to
\* those of the other keeps the ledger and the reservations in step.
LEMMA MoveKeepsStep ==
  ASSUME TypeOK, PostedMatchesReservation,
         NEW r \in Requests, NEW from, NEW to \in Reservations,
         NEW entries \in [Accounts -> Int],
         MoveReservation(r, from, to, entries),
         \A p \in LegalPostings(r)[from] :
           [a \in Accounts |-> p[a] + entries[a]] \in LegalPostings(r)[to]
  PROVE  PostedMatchesReservation'
<1> SUFFICES ASSUME NEW q \in Requests
             PROVE  posted'[q] \in LegalPostings(q)[reservation'[q]]
  BY DEF PostedMatchesReservation, LegalPostings, SettledPostings, CreditedPostings, NoEntries,
     Entries
<1>1. CASE q = r
  <2>1. posted[r] \in LegalPostings(r)[from]
    BY DEF PostedMatchesReservation, MoveReservation
  <2>2. posted'[r] = [a \in Accounts |-> posted[r][a] + entries[a]]
    BY DEF TypeOK, MoveReservation, Append
  <2>3. reservation'[r] = to  BY DEF TypeOK, MoveReservation
  <2>4. QED  BY <1>1, <2>1, <2>2, <2>3
<1>2. CASE q # r
  <2>1. posted'[q] = posted[q] /\ reservation'[q] = reservation[q]
    BY <1>2 DEF TypeOK, MoveReservation, Append
  <2>2. QED  BY <2>1 DEF PostedMatchesReservation
<1>3. QED  BY <1>1, <1>2

\* The arithmetic of the five operations on value.
LEMMA PostingsFollow ==
  ASSUME NEW r \in Requests
  PROVE  /\ \A p \in LegalPostings(r)["NONE"] :
              [a \in Accounts |-> p[a] + Entries("AVAILABLE", "RESERVED", Amount[r])[a]]
                \in LegalPostings(r)["HELD"]
         /\ \A p \in LegalPostings(r)["HELD"] :
              /\ [a \in Accounts |-> p[a] + Entries("RESERVED", "AVAILABLE", Amount[r])[a]]
                   \in LegalPostings(r)["RELEASED"]
              /\ [a \in Accounts |-> p[a] + Entries("RESERVED", "UNDER_REVIEW", Amount[r])[a]]
                   \in LegalPostings(r)["UNDER_REVIEW"]
              /\ \A profit \in {0, Profit[r]} :
                   [a \in Accounts |-> p[a] + SettlementEntries(Amount[r], profit)[a]]
                     \in LegalPostings(r)["SETTLED"]
         /\ \A p \in LegalPostings(r)["UNDER_REVIEW"] :
              [a \in Accounts |-> p[a] + Entries("UNDER_REVIEW", "AVAILABLE", Amount[r])[a]]
                \in LegalPostings(r)["RELEASED"]
<1> USE DEF LegalPostings, Entries, NoEntries, SettlementEntries, SettledPostings, Accounts
<1>0. Amount[r] \in Int /\ Profit[r] \in Int  OBVIOUS
<1>1. [a \in Accounts |-> NoEntries[a] + Entries("AVAILABLE", "RESERVED", Amount[r])[a]]
        = Entries("AVAILABLE", "RESERVED", Amount[r])
  BY <1>0
<1>2. [a \in Accounts |-> Entries("AVAILABLE", "RESERVED", Amount[r])[a]
                            + Entries("RESERVED", "AVAILABLE", Amount[r])[a]] = NoEntries
  BY <1>0
<1>3. [a \in Accounts |-> Entries("AVAILABLE", "RESERVED", Amount[r])[a]
                            + Entries("RESERVED", "UNDER_REVIEW", Amount[r])[a]]
        = Entries("AVAILABLE", "UNDER_REVIEW", Amount[r])
  BY <1>0
<1>4. \A profit \in {0, Profit[r]} :
        [a \in Accounts |-> Entries("AVAILABLE", "RESERVED", Amount[r])[a]
                              + SettlementEntries(Amount[r], profit)[a]]
          = SettledPostings(r, profit)
  BY <1>0
<1>5. [a \in Accounts |-> Entries("AVAILABLE", "UNDER_REVIEW", Amount[r])[a]
                            + Entries("UNDER_REVIEW", "AVAILABLE", Amount[r])[a]] = NoEntries
  BY <1>0
<1>6. QED
  BY <1>1, <1>2, <1>3, <1>4, <1>5

\* The five operations on value, whoever calls them.
LEMMA OperationsKeepStep ==
  ASSUME TypeOK, PostedMatchesReservation, NEW r \in Requests,
         NEW profit \in {0, Profit[r]},
         \/ Reserve(r) \/ Release(r) \/ FinalizeSuccess(r, profit)
         \/ MoveToUnderReview(r) \/ ReleaseFromUnderReview(r)
  PROVE  PostedMatchesReservation'
<1>1. Amount[r] \in Int /\ profit \in Int  OBVIOUS
<1>2. CASE Reserve(r)
  <2>1. MoveReservation(r, "NONE", "HELD", Entries("AVAILABLE", "RESERVED", Amount[r]))  BY <1>2 DEF Reserve
  <2>2. Entries("AVAILABLE", "RESERVED", Amount[r]) \in [Accounts -> Int]  BY <1>1, EntriesType
  <2>3. \A p \in LegalPostings(r)["NONE"] :
          [a \in Accounts |-> p[a] + Entries("AVAILABLE", "RESERVED", Amount[r])[a]] \in LegalPostings(r)["HELD"]
    BY PostingsFollow, Zenon
  <2>4. "HELD" \in Reservations  BY DEF Reservations
  <2>5. QED  BY <2>1, <2>2, <2>3, <2>4, MoveKeepsStep
<1>3. CASE Release(r)
  <2>1. MoveReservation(r, "HELD", "RELEASED", Entries("RESERVED", "AVAILABLE", Amount[r]))  BY <1>3 DEF Release
  <2>2. Entries("RESERVED", "AVAILABLE", Amount[r]) \in [Accounts -> Int]  BY <1>1, EntriesType
  <2>3. \A p \in LegalPostings(r)["HELD"] :
          [a \in Accounts |-> p[a] + Entries("RESERVED", "AVAILABLE", Amount[r])[a]] \in LegalPostings(r)["RELEASED"]
    BY PostingsFollow, Zenon
  <2>4. "RELEASED" \in Reservations  BY DEF Reservations
  <2>5. QED  BY <2>1, <2>2, <2>3, <2>4, MoveKeepsStep
<1>4. CASE FinalizeSuccess(r, profit)
  <2>1. MoveReservation(r, "HELD", "SETTLED", SettlementEntries(Amount[r], profit))  BY <1>4 DEF FinalizeSuccess
  <2>2. SettlementEntries(Amount[r], profit) \in [Accounts -> Int]  BY <1>1, EntriesType
  <2>3. \A p \in LegalPostings(r)["HELD"] :
          [a \in Accounts |-> p[a] + SettlementEntries(Amount[r], profit)[a]] \in LegalPostings(r)["SETTLED"]
    BY PostingsFollow, Zenon
  <2>4. "SETTLED" \in Reservations  BY DEF Reservations
  <2>5. QED  BY <2>1, <2>2, <2>3, <2>4, MoveKeepsStep
<1>5. CASE MoveToUnderReview(r)
  <2>1. MoveReservation(r, "HELD", "UNDER_REVIEW", Entries("RESERVED", "UNDER_REVIEW", Amount[r]))  BY <1>5 DEF MoveToUnderReview
  <2>2. Entries("RESERVED", "UNDER_REVIEW", Amount[r]) \in [Accounts -> Int]  BY <1>1, EntriesType
  <2>3. \A p \in LegalPostings(r)["HELD"] :
          [a \in Accounts |-> p[a] + Entries("RESERVED", "UNDER_REVIEW", Amount[r])[a]] \in LegalPostings(r)["UNDER_REVIEW"]
    BY PostingsFollow, Zenon
  <2>4. "UNDER_REVIEW" \in Reservations  BY DEF Reservations
  <2>5. QED  BY <2>1, <2>2, <2>3, <2>4, MoveKeepsStep
<1>6. CASE ReleaseFromUnderReview(r)
  <2>1. MoveReservation(r, "UNDER_REVIEW", "RELEASED", Entries("UNDER_REVIEW", "AVAILABLE", Amount[r]))  BY <1>6 DEF ReleaseFromUnderReview
  <2>2. Entries("UNDER_REVIEW", "AVAILABLE", Amount[r]) \in [Accounts -> Int]  BY <1>1, EntriesType
  <2>3. \A p \in LegalPostings(r)["UNDER_REVIEW"] :
          [a \in Accounts |-> p[a] + Entries("UNDER_REVIEW", "AVAILABLE", Amount[r])[a]] \in LegalPostings(r)["RELEASED"]
    BY PostingsFollow, Zenon
  <2>4. "RELEASED" \in Reservations  BY DEF Reservations
  <2>5. QED  BY <2>1, <2>2, <2>3, <2>4, MoveKeepsStep
<1>7. QED  BY <1>2, <1>3, <1>4, <1>5, <1>6

\* An action either leaves the ledger and the reservations alone, is one of the
\* five operations on one sale, or is the console's credit: the only ways value
\* moves.
LEMMA ValueMovesByOperation ==
  ASSUME TypeOK, [Next]_vars
  PROVE  \/ UNCHANGED <<reservation, posted>>
         \/ \E r \in Requests, profit \in Int :
              /\ profit \in {0, Profit[r]}
              /\ \/ Reserve(r) \/ Release(r) \/ FinalizeSuccess(r, profit)
                 \/ MoveToUnderReview(r) \/ ReleaseFromUnderReview(r)
         \/ \E r \in Requests : CreditReversal(r)
<1> DEFINE Operation(r, profit) ==
      \/ Reserve(r) \/ Release(r) \/ FinalizeSuccess(r, profit)
      \/ MoveToUnderReview(r) \/ ReleaseFromUnderReview(r)
<1> DEFINE Moved == \/ \E r \in Requests, profit \in Int :
                         profit \in {0, Profit[r]} /\ Operation(r, profit)
                    \/ \E r \in Requests : CreditReversal(r)
<1>1. ASSUME NEW r \in Requests, CreateSale(r)
      PROVE  UNCHANGED <<reservation, posted>> \/ Moved
  <2>1. CASE ReserveSale(r) \/ SubmitConfirmed(r) \/ SubmitRefused(r)
    BY <2>1 DEF ReserveSale, SubmitConfirmed, SubmitRefused
  <2>2. CASE \/ RefuseRequest(r) \/ FindExisting(r) \/ AskHealth(r) \/ ProviderUnhealthy(r)
             \/ ReserveRolledBack(r) \/ SubmitToProvider(r) \/ SubmitSilent(r)
             \/ SubmitRolledBack(r)
    BY <2>2, Zenon DEF RefuseRequest, FindExisting, AskHealth, ProviderUnhealthy,
       ReserveRolledBack, SubmitToProvider, SubmitSilent, SubmitRolledBack, rows
  <2>3. QED  BY <1>1, <2>1, <2>2 DEF CreateSale
<1>2. ASSUME NEW r \in Requests, Environment(r) \/ Complain(r)
      PROVE  UNCHANGED <<reservation, posted>>
  BY <1>2, Zenon DEF Environment, ProviderDecides, RowAges, DeadlinePasses, LeaseExpires,
     Complain, ReadForComplaint, FileComplaint, DropComplaint, rows
<1>3. ASSUME NEW r \in Requests, ResolvePending(r)
      PROVE  UNCHANGED <<reservation, posted>> \/ Moved
  <2>1. CASE ResolveSuccessful(r) \/ ResolveFailed(r) \/ ResolveEscalated(r)
    BY <2>1 DEF ResolveSuccessful, ResolveFailed, ResolveEscalated
  <2>2. CASE AskStatus(r) \/ ResolveUnchanged(r)
    BY <2>2, Zenon DEF AskStatus, ResolveUnchanged, rows
  <2>3. QED  BY <1>3, <2>1, <2>2 DEF ResolvePending
<1>4. ASSUME NEW r \in Requests, Reversal(r)
      PROVE  UNCHANGED <<reservation, posted>> \/ Moved
  <2>1. CASE CompleteReversal(r) \/ CreditReversal(r)
    BY <2>1 DEF CompleteReversal
  <2>2. CASE ReadForReversal(r) \/ RequireReversal(r) \/ ReadForCredit(r) \/ DropCredit(r)
    BY <2>2, Zenon DEF ReadForReversal, RequireReversal, ReadForCredit, DropCredit, rows
  <2>3. QED  BY <1>4, <2>1, <2>2 DEF Reversal
<1>5. ASSUME NEW w \in Workers, RecoverOne(w)
      PROVE  UNCHANGED <<reservation, posted>> \/ Moved
  <2>1. CASE \/ ReleaseNeverSubmitted(w) \/ RecoverSuccessful(w) \/ RecoverFailed(w)
             \/ EscalateUnderReview(w)
    <3>1. subject[w] \in Requests
      BY <2>1 DEF TypeOK, ReleaseNeverSubmitted, RecoverSuccessful, RecoverFailed,
         EscalateUnderReview, Resolvable
    <3>2. QED
      BY <2>1, <3>1 DEF ReleaseNeverSubmitted, RecoverSuccessful, RecoverFailed,
         EscalateUnderReview
  <2>2. CASE \/ ReadUnderClaim(w) \/ HoldPending(w) \/ FindResolved(w)
             \/ RecoveryRolledBack(w) \/ ReleaseClaim(w)
    BY <2>2, Zenon DEF ReadUnderClaim, HoldPending, FindResolved, RecoveryRolledBack,
       ReleaseClaim, rows
  <2>3. QED  BY <1>5, <2>1, <2>2 DEF RecoverOne
<1>6. ASSUME NEW w \in Workers,
             \/ Scan(w) \/ WorkerCrash(w) \/ StopEarly(w)
             \/ \E r \in Requests : Claim(w, r) \/ SkipCandidate(w, r)
      PROVE  UNCHANGED <<reservation, posted>>
  BY <1>6, Zenon DEF Scan, WorkerCrash, StopEarly, Claim, SkipCandidate, rows
<1>7. ASSUME ServerCrash \/ UNCHANGED vars
      PROVE  UNCHANGED <<reservation, posted>>
  BY <1>7, Zenon DEF ServerCrash, vars, rows
<1> HIDE DEF Moved
<1>8. UNCHANGED <<reservation, posted>> \/ Moved
  <2>1. ASSUME NEW w \in Workers, Recover(w) \/ WorkerCrash(w) \/ StopEarly(w)
        PROVE  UNCHANGED <<reservation, posted>> \/ Moved
    BY <2>1, <1>5, <1>6, Zenon DEF Recover
  <2>2. ASSUME NEW r \in Requests,
               \/ CreateSale(r) \/ Environment(r) \/ ResolvePending(r) \/ Reversal(r)
               \/ Complain(r)
        PROVE  UNCHANGED <<reservation, posted>> \/ Moved
    BY <2>2, <1>1, <1>2, <1>3, <1>4, Zenon
  <2>3. QED  BY <2>1, <2>2, <1>7, Zenon DEF Next
<1>9. QED  BY <1>8 DEF Moved

\* A sale that reads SUCCESSFUL, or that the console is about to credit, is settled
\* and has not been credited yet; one that reads REVERSED over a settled
\* reservation has been.
CreditFollowsRow ==
  \A r \in Requests :
    /\ txn[r] = "SUCCESSFUL" \/ crediting[r] => reservation[r] = "SETTLED" /\ ~Credited(r)
    /\ txn[r] = "REVERSED" /\ reservation[r] = "SETTLED" => Credited(r)

\* A row is written SUCCESSFUL only by the unit of work that settles its value, and
\* value is settled by no other; it is written REVERSED only by the two reversals.
LEMMA SettledWithRow ==
  ASSUME TypeOK, [Next]_vars, NEW r \in Requests
  PROVE  /\ txn'[r] = "SUCCESSFUL" \/ crediting'[r]
              => \/ (txn[r] = "SUCCESSFUL" \/ crediting[r]) /\ ~CreditReversal(r)
                 \/ \E profit \in {0, Profit[r]} : FinalizeSuccess(r, profit)
         /\ txn'[r] = "REVERSED"
              => txn[r] = "REVERSED" \/ CreditReversal(r) \/ reservation'[r] = "RELEASED"
         /\ reservation'[r] = "SETTLED" => reservation[r] = "SETTLED" \/ txn'[r] = "SUCCESSFUL"
<1> DEFINE Quiet(q) ==
      /\ reservation'[q] = "SETTLED" => reservation[q] = "SETTLED"
      /\ txn'[q] = "SUCCESSFUL" \/ crediting'[q] => txn[q] = "SUCCESSFUL" \/ crediting[q]
      /\ txn'[q] = "REVERSED" => txn[q] = "REVERSED" \/ reservation'[q] = "RELEASED"
    Settled(q) == txn'[q] = "SUCCESSFUL" /\ \E profit \in {0, Profit[q]} : FinalizeSuccess(q, profit)
    Alone(q) == \A p \in Requests \ {q} :
                  txn'[p] = txn[p] /\ reservation'[p] = reservation[p] /\ crediting'[p] = crediting[p]
<1> USE DEF TypeOK, Persist, MoveReservation, rows, services, desks
<1>0. CASE UNCHANGED <<txn, reservation, crediting>>
  <2>1. ~CreditReversal(r)
    BY <1>0 DEF CreditReversal
  <2>2. QED  BY <1>0, <2>1
<1>1. ASSUME NEW q \in Requests, CreateSale(q)
      PROVE  UNCHANGED <<txn, reservation, crediting>> \/ (Alone(q) /\ (Quiet(q) \/ Settled(q)))
  <2>1. CASE \/ RefuseRequest(q) \/ FindExisting(q) \/ AskHealth(q) \/ ProviderUnhealthy(q)
             \/ ReserveRolledBack(q) \/ SubmitRolledBack(q)
    BY <2>1, Zenon DEF RefuseRequest, FindExisting, AskHealth, ProviderUnhealthy,
       ReserveRolledBack, SubmitRolledBack
  <2>2. CASE ReserveSale(q)  BY <2>2 DEF ReserveSale, Reserve
  <2>3. CASE SubmitToProvider(q) \/ SubmitSilent(q)  BY <2>3 DEF SubmitToProvider, SubmitSilent
  <2>4. CASE SubmitConfirmed(q)
    <3>1. txn'[q] = "SUCCESSFUL" /\ FinalizeSuccess(q, Profit[q])  BY <2>4 DEF SubmitConfirmed
    <3>2. Alone(q)  BY <2>4 DEF SubmitConfirmed, FinalizeSuccess
    <3>3. QED  BY <3>1, <3>2
  <2>5. CASE SubmitRefused(q)  BY <2>5 DEF SubmitRefused, Release
  <2>6. QED  BY <1>1, <2>1, <2>2, <2>3, <2>4, <2>5 DEF CreateSale
<1>2. ASSUME NEW q \in Requests, ResolvePending(q)
      PROVE  UNCHANGED <<txn, reservation, crediting>> \/ (Alone(q) /\ (Quiet(q) \/ Settled(q)))
  <2>1. CASE AskStatus(q) \/ ResolveUnchanged(q)
    BY <2>1, Zenon DEF AskStatus, ResolveUnchanged
  <2>2. CASE ResolveSuccessful(q)
    <3>1. txn'[q] = "SUCCESSFUL" /\ FinalizeSuccess(q, 0)  BY <2>2 DEF ResolveSuccessful
    <3>2. Alone(q)  BY <2>2 DEF ResolveSuccessful, FinalizeSuccess
    <3>3. QED  BY <3>1, <3>2
  <2>3. CASE ResolveFailed(q)  BY <2>3 DEF ResolveFailed, Release
  <2>4. CASE ResolveEscalated(q)  BY <2>4 DEF ResolveEscalated, MoveToUnderReview
  <2>5. QED  BY <1>2, <2>1, <2>2, <2>3, <2>4 DEF ResolvePending
<1>3. ASSUME NEW q \in Requests, Reversal(q), ~CreditReversal(q)
      PROVE  \/ UNCHANGED <<txn, reservation, crediting>>
             \/ Alone(q) /\ Quiet(q)
  <2>1. CASE ReadForReversal(q)  BY <2>1, Zenon DEF ReadForReversal
  <2>2. CASE RequireReversal(q)  BY <2>2 DEF RequireReversal
  <2>3. CASE CompleteReversal(q)
    BY <2>3 DEF CompleteReversal, Release, ReleaseFromUnderReview
  <2>4. CASE ReadForCredit(q)  BY <2>4 DEF ReadForCredit
  <2>5. CASE DropCredit(q)  BY <2>5 DEF DropCredit
  <2>6. QED  BY <1>3, <2>1, <2>2, <2>3, <2>4, <2>5 DEF Reversal
<1>4. ASSUME NEW w \in Workers, RecoverOne(w), NEW q \in Requests, q = subject[w]
      PROVE  UNCHANGED <<txn, reservation, crediting>> \/ (Alone(q) /\ (Quiet(q) \/ Settled(q)))
  <2>1. CASE ReadUnderClaim(w) \/ FindResolved(w) \/ RecoveryRolledBack(w) \/ ReleaseClaim(w)
    BY <2>1, Zenon DEF ReadUnderClaim, FindResolved, RecoveryRolledBack, ReleaseClaim
  <2>2. CASE RecoverSuccessful(w)
    <3>1. txn'[q] = "SUCCESSFUL" /\ FinalizeSuccess(q, 0)  BY <1>4, <2>2 DEF RecoverSuccessful
    <3>2. Alone(q)  BY <1>4, <2>2 DEF RecoverSuccessful, FinalizeSuccess
    <3>3. QED  BY <3>1, <3>2
  <2>3. CASE ReleaseNeverSubmitted(w) \/ RecoverFailed(w)
    BY <1>4, <2>3 DEF ReleaseNeverSubmitted, RecoverFailed, Release
  <2>4. CASE EscalateUnderReview(w)  BY <1>4, <2>4 DEF EscalateUnderReview, MoveToUnderReview
  <2>5. CASE HoldPending(w)
    <3>1. UNCHANGED <<reservation, crediting>> /\ (UNCHANGED txn \/ Persist(q, "PENDING"))
      BY <1>4, <2>5, Zenon DEF HoldPending
    <3>2. QED  BY <3>1
  <2>6. QED  BY <1>4, <2>1, <2>2, <2>3, <2>4, <2>5 DEF RecoverOne
<1>5. ASSUME NEW w \in Workers, RecoverOne(w) PROVE subject[w] \in Requests
  BY <1>5 DEF RecoverOne, ReadUnderClaim, ReleaseNeverSubmitted, RecoverSuccessful,
     RecoverFailed, HoldPending, EscalateUnderReview, FindResolved, RecoveryRolledBack,
     ReleaseClaim, Resolvable
<1>6. ASSUME \/ \E w \in Workers : \/ Scan(w) \/ WorkerCrash(w) \/ StopEarly(w)
                                   \/ \E q \in Requests : Claim(w, q) \/ SkipCandidate(w, q)
             \/ \E q \in Requests : Environment(q) \/ Complain(q)
             \/ UNCHANGED vars
      PROVE  UNCHANGED <<txn, reservation, crediting>>
  BY <1>6, Zenon DEF Scan, WorkerCrash, StopEarly, Claim, SkipCandidate, vars, Environment,
     ProviderDecides, RowAges, DeadlinePasses, LeaseExpires, Complain, ReadForComplaint,
     FileComplaint, DropComplaint
<1>7. CASE ServerCrash
  <2>1. UNCHANGED <<txn, reservation>> /\ crediting'[r] = FALSE  BY <1>7 DEF ServerCrash
  <2>2. txn'[r] = "SUCCESSFUL" => ~CreditReversal(r)  BY DEF CreditReversal
  <2>3. QED  BY <2>1, <2>2
<1>8. ASSUME NEW q \in Requests, Alone(q), Quiet(q) \/ Settled(q)
      PROVE  /\ txn'[r] = "SUCCESSFUL" \/ crediting'[r]
                  => \/ (txn[r] = "SUCCESSFUL" \/ crediting[r]) /\ ~CreditReversal(r)
                     \/ \E profit \in {0, Profit[r]} : FinalizeSuccess(r, profit)
             /\ txn'[r] = "REVERSED"
                  => txn[r] = "REVERSED" \/ CreditReversal(r) \/ reservation'[r] = "RELEASED"
             /\ reservation'[r] = "SETTLED" => reservation[r] = "SETTLED" \/ txn'[r] = "SUCCESSFUL"
  <2>1. txn'[r] = "SUCCESSFUL" \/ crediting'[r] => ~CreditReversal(r)
    BY DEF CreditReversal
  <2>2. CASE q # r  BY <1>8, <2>1, <2>2
  <2>3. CASE q = r  BY <1>8, <2>1, <2>3
  <2>4. QED  BY <2>2, <2>3
<1>9. ASSUME NEW q \in Requests, CreditReversal(q)
      PROVE  /\ txn'[r] = "SUCCESSFUL" \/ crediting'[r]
                  => (txn[r] = "SUCCESSFUL" \/ crediting[r]) /\ ~CreditReversal(r)
             /\ txn'[r] = "REVERSED" => txn[r] = "REVERSED" \/ CreditReversal(r)
             /\ reservation' = reservation
  <2>1. txn'[r] = "SUCCESSFUL" \/ crediting'[r] => ~CreditReversal(r)
    BY DEF CreditReversal
  <2>2. CASE q # r  BY <1>9, <2>1, <2>2 DEF CreditReversal
  <2>3. CASE q = r  BY <1>9, <2>1, <2>3 DEF CreditReversal
  <2>4. QED  BY <2>2, <2>3
<1> HIDE DEF Quiet, Settled, Alone
<1>10. \/ UNCHANGED <<txn, reservation, crediting>>
       \/ \E q \in Requests : Alone(q) /\ (Quiet(q) \/ Settled(q))
       \/ \E q \in Requests : CreditReversal(q)
       \/ ServerCrash
  BY <1>1, <1>2, <1>3, <1>4, <1>5, <1>6, Zenon DEF Next, Recover
<1>11. QED  BY <1>0, <1>7, <1>8, <1>9, <1>10

\* What a step does to a sale that is settled or released: nothing, or the credit.
LEMMA SettledRests ==
  ASSUME TypeOK, [Next]_vars, NEW r \in Requests, reservation[r] \in {"SETTLED", "RELEASED"}
  PROVE  /\ reservation'[r] = reservation[r]
         /\ posted'[r] = posted[r] \/ CreditReversal(r)
<1>1. CASE UNCHANGED <<reservation, posted>>  BY <1>1
<1>2. ASSUME NEW q \in Requests, NEW profit,
             \/ Reserve(q) \/ Release(q) \/ FinalizeSuccess(q, profit)
             \/ MoveToUnderReview(q) \/ ReleaseFromUnderReview(q)
      PROVE  reservation'[r] = reservation[r] /\ posted'[r] = posted[r]
  <2>1. \E from \in {"NONE", "HELD", "UNDER_REVIEW"} : \E to, entries :
          MoveReservation(q, from, to, entries)
    BY <1>2 DEF Reserve, Release, FinalizeSuccess, MoveToUnderReview, ReleaseFromUnderReview
  <2>2. q # r  BY <2>1 DEF MoveReservation
  <2>3. QED  BY <2>1, <2>2 DEF MoveReservation, Append, TypeOK
<1>3. ASSUME NEW q \in Requests, CreditReversal(q)
      PROVE  reservation'[r] = reservation[r] /\ (posted'[r] = posted[r] \/ CreditReversal(r))
  BY <1>3 DEF CreditReversal, Append, TypeOK
<1>4. QED  BY <1>1, <1>2, <1>3, ValueMovesByOperation

\* What the credit finds and leaves in the ledger.
LEMMA CreditPosting ==
  ASSUME TypeOK, PostedMatchesReservation, CreditFollowsRow, NEW r \in Requests,
         CreditReversal(r)
  PROVE  /\ reservation[r] = "SETTLED" /\ ~Credited(r) /\ UNCHANGED reservation
         /\ \A q \in Requests \ {r} : posted'[q] = posted[q]
         /\ \E profit \in {0, Profit[r]} :
              posted[r] = SettledPostings(r, profit) /\ posted'[r] = CreditedPostings(r, profit)
         /\ Credited(r)'
<1>1. reservation[r] = "SETTLED" /\ ~Credited(r) /\ UNCHANGED reservation
  BY DEF CreditReversal, CreditFollowsRow
<1>2. posted' = [posted EXCEPT ![r] = [a \in Accounts |->
                   posted[r][a] + Entries("PROVIDER_SETTLEMENT", "AVAILABLE", Amount[r])[a]]]
  BY DEF CreditReversal, Append
<1>3. \E profit \in {0, Profit[r]} : posted[r] = SettledPostings(r, profit)
  <2>1. posted[r] \in {SettledPostings(r, 0), SettledPostings(r, Profit[r]),
                       CreditedPostings(r, 0), CreditedPostings(r, Profit[r])}
    <3>1. posted[r] \in LegalPostings(r)["SETTLED"]
      BY <1>1 DEF PostedMatchesReservation
    <3>2. QED  BY <3>1 DEF LegalPostings
  <2>2. \A profit : CreditedPostings(r, profit)["AVAILABLE"] = 0
    BY DEF CreditedPostings, NoEntries, Accounts
  <2>3. QED  BY <1>1, <2>1, <2>2 DEF Credited
<1>4. ASSUME NEW profit \in {0, Profit[r]}, posted[r] = SettledPostings(r, profit)
      PROVE  posted'[r] = CreditedPostings(r, profit)
  <2>1. profit \in Int /\ Amount[r] \in Int  OBVIOUS
  <2>2. [a \in Accounts |-> SettledPostings(r, profit)[a]
                              + Entries("PROVIDER_SETTLEMENT", "AVAILABLE", Amount[r])[a]]
          = CreditedPostings(r, profit)
    BY <2>1 DEF SettledPostings, CreditedPostings, Entries, NoEntries, Accounts
  <2>3. QED  BY <1>2, <1>4, <2>2 DEF TypeOK
<1>5. \A q \in Requests \ {r} : posted'[q] = posted[q]  BY <1>2 DEF TypeOK
<1>6. Credited(r)'
  BY <1>1, <1>3, <1>4 DEF Credited, CreditedPostings, NoEntries, Accounts
<1>7. QED  BY <1>1, <1>3, <1>4, <1>5, <1>6

\* Value that is being settled has not been credited.
LEMMA SettledUncredited ==
  ASSUME TypeOK, PostedMatchesReservation, NEW r \in Requests,
         NEW profit \in {0, Profit[r]}, FinalizeSuccess(r, profit)
  PROVE  reservation'[r] = "SETTLED" /\ ~Credited(r)'
<1>1. /\ reservation[r] = "HELD"
      /\ reservation' = [reservation EXCEPT ![r] = "SETTLED"]
      /\ posted'[r] = [a \in Accounts |-> posted[r][a] + SettlementEntries(Amount[r], profit)[a]]
  BY DEF FinalizeSuccess, MoveReservation, Append, TypeOK
<1>2. posted[r] = Entries("AVAILABLE", "RESERVED", Amount[r])
  <2>1. posted[r] \in LegalPostings(r)["HELD"]  BY <1>1 DEF PostedMatchesReservation
  <2>2. QED  BY <2>1 DEF LegalPostings
<1>3. posted'[r]["AVAILABLE"] = -Amount[r]
  BY <1>1, <1>2 DEF Entries, SettlementEntries, NoEntries, Accounts
<1>4. reservation'[r] = "SETTLED"  BY <1>1 DEF TypeOK
<1>5. posted'[r]["AVAILABLE"] # 0  BY <1>3
<1>6. QED  BY <1>4, <1>5 DEF Credited

\* The ledger, the reservations and the rows that say SUCCESSFUL or REVERSED.
Ledger == PostedMatchesReservation /\ CreditFollowsRow

\* Every step keeps them in step.
LEMMA LedgerStep ==
  ASSUME TypeOK, Ledger, [Next]_vars
  PROVE  Ledger'
<1> USE DEF Ledger
<1>1. PostedMatchesReservation'
  <2>1. CASE UNCHANGED <<reservation, posted>>
    BY <2>1 DEF PostedMatchesReservation, LegalPostings, SettledPostings, CreditedPostings
  <2>2. ASSUME NEW r \in Requests, CreditReversal(r) PROVE PostedMatchesReservation'
    <3>1. posted'[r] \in LegalPostings(r)[reservation'[r]]
      BY <2>2, CreditPosting DEF LegalPostings
    <3>2. \A q \in Requests \ {r} : posted'[q] \in LegalPostings(q)[reservation'[q]]
      BY <2>2, CreditPosting DEF PostedMatchesReservation
    <3>3. \A q \in Requests : LegalPostings(q)' = LegalPostings(q)
      BY DEF LegalPostings, SettledPostings, CreditedPostings, NoEntries, Entries
    <3>4. QED  BY <3>1, <3>2, <3>3 DEF PostedMatchesReservation
  <2>3. QED  BY <2>1, <2>2, ValueMovesByOperation, OperationsKeepStep
<1>2. ASSUME NEW r \in Requests, txn'[r] = "SUCCESSFUL" \/ crediting'[r]
      PROVE  reservation'[r] = "SETTLED" /\ ~Credited(r)'
  <2>1. CASE (txn[r] = "SUCCESSFUL" \/ crediting[r]) /\ ~CreditReversal(r)
    <3>1. reservation[r] = "SETTLED" /\ ~Credited(r)  BY <2>1 DEF CreditFollowsRow
    <3>2. reservation'[r] = "SETTLED" /\ posted'[r] = posted[r]  BY <2>1, <3>1, SettledRests
    <3>3. QED  BY <3>1, <3>2 DEF Credited
  <2>2. ASSUME NEW profit \in {0, Profit[r]}, FinalizeSuccess(r, profit)
        PROVE  reservation'[r] = "SETTLED" /\ ~Credited(r)'
    BY <2>2, SettledUncredited
  <2>3. QED  BY <1>2, <2>1, <2>2, SettledWithRow
<1>3. ASSUME NEW r \in Requests, txn'[r] = "REVERSED", reservation'[r] = "SETTLED"
      PROVE  Credited(r)'
  <2>1. CASE CreditReversal(r)  BY <2>1, CreditPosting
  <2>2. CASE ~CreditReversal(r)
    <3>1. txn[r] = "REVERSED" /\ reservation[r] = "SETTLED"  BY <1>3, <2>2, SettledWithRow
    <3>2. Credited(r) /\ posted'[r] = posted[r]
      BY <2>2, <3>1, SettledRests DEF CreditFollowsRow
    <3>3. QED  BY <1>3, <3>1, <3>2 DEF Credited
  <2>3. QED  BY <2>1, <2>2
<1>4. QED  BY <1>1, <1>2, <1>3 DEF CreditFollowsRow

\* The ledger, the reservations and the credits agree in every reachable state.
LEMMA LedgerHolds == Spec => []Ledger
<1>1. Init => TypeOK /\ Ledger
  BY DEF Init, TypeOK, NoEntries, States, Reservations, Jobs, Cases, Replies,
     Ledger, PostedMatchesReservation, LegalPostings, CreditFollowsRow
<1>2. TypeOK /\ Ledger /\ [Next]_vars => Ledger'
  BY LedgerStep
<1>3. QED  BY <1>1, <1>2, TypeCorrect, PTL DEF Spec

\* The ledger and the reservations agree in every reachable state, whatever the
\* timing of adapters, reversals, workers and crashes: the compare-and-set in
\* guardedTransition inside the transaction that posts, and, for the console's
\* credit, a row that says SUCCESSFUL only once.
THEOREM LedgerMatchesReservations == Spec => []PostedMatchesReservation
<1>1. Ledger => PostedMatchesReservation
  BY DEF Ledger
<1>2. QED  BY <1>1, LedgerHolds, PTL

-----------------------------------------------------------------------------
(* The promise to the merchant.                                            *)

\* The balance derived from the ledger is the float that the promise counts.
LEMMA SpendableIsAvailable ==
  ASSUME TypeOK, PostedMatchesReservation
  PROVE  Float!Spendable = Available
<1>1. \A r \in Requests :
        posted[r]["AVAILABLE"]
          = IF Phase[r] \in {"held", "settled"} THEN -Amount[r] ELSE 0
  <2> TAKE r \in Requests
  <2>1. posted[r] \in LegalPostings(r)[reservation[r]]  BY DEF PostedMatchesReservation
  <2>2. reservation[r] \in Reservations  BY DEF TypeOK
  <2>3. CASE reservation[r] \in {"HELD", "UNDER_REVIEW"}
    <3>1. Phase[r] = "held"  BY <2>3 DEF Phase, Credited
    <3>2. QED  BY <2>1, <2>3, <3>1 DEF LegalPostings, Entries, Accounts
  <2>4. CASE reservation[r] = "SETTLED"
    <3>1. Phase[r] = IF posted[r]["AVAILABLE"] = 0 THEN "refunded" ELSE "settled"
      BY <2>4 DEF Phase, Credited
    <3>2. posted[r]["AVAILABLE"] \in {0, -Amount[r]}
      BY <2>1, <2>4 DEF LegalPostings, SettledPostings, CreditedPostings, NoEntries, Accounts
    <3>3. QED  BY <3>1, <3>2
  <2>5. CASE reservation[r] \in {"NONE", "RELEASED"}
    <3>1. Phase[r] \in {"new", "returned"}  BY <2>5 DEF Phase, Credited
    <3>2. QED  BY <2>1, <2>5, <3>1 DEF LegalPostings, NoEntries, Accounts
  <2>6. QED  BY <2>2, <2>3, <2>4, <2>5 DEF Reservations
<1>2. [r \in Requests |-> posted[r]["AVAILABLE"]]
        = [r \in Requests |-> IF Phase[r] \in {"held", "settled"} THEN -Amount[r] ELSE 0]
  BY <1>1
<1>3. QED  BY <1>2 DEF Float!Spendable, Available

\* Each operation on value is a step of the promise, or changes nothing of it.
LEMMA OperationsAreFloatSteps ==
  ASSUME TypeOK, PostedMatchesReservation, NEW r \in Requests, NEW profit \in {0, Profit[r]},
         \/ Reserve(r) \/ Release(r) \/ FinalizeSuccess(r, profit)
         \/ MoveToUnderReview(r) \/ ReleaseFromUnderReview(r)
  PROVE  [Float!Next]_Phase
<1> DEFINE move(from, to) ==
      /\ reservation[r] = from
      /\ reservation' = [reservation EXCEPT ![r] = to]
      /\ \A q \in Requests \ {r} : posted'[q] = posted[q]
<1>0. ASSUME NEW from, NEW to, NEW entries, MoveReservation(r, from, to, entries)
      PROVE  move(from, to)
  BY <1>0 DEF MoveReservation, Append, TypeOK
<1>1. ASSUME NEW from \in Reservations, NEW to \in Reservations, move(from, to)
      PROVE  /\ Phase' = [Phase EXCEPT ![r] = Phase'[r]]
             /\ reservation'[r] = to
  <2>1. \A q \in Requests \ {r} : Phase'[q] = Phase[q]
    BY <1>1 DEF Phase, Credited, TypeOK
  <2>2. Phase' = [Phase EXCEPT ![r] = Phase'[r]]
    <3> HIDE DEF move
    <3>1. DOMAIN Phase = Requests /\ Phase' = [q \in Requests |-> Phase'[q]]
      BY DEF Phase
    <3>2. QED  BY <2>1, <3>1
  <2>3. QED  BY <1>1, <2>2 DEF TypeOK
<1> HIDE DEF move
<1> USE DEF Reservations
<1>2. CASE Reserve(r)
  <2>1. move("NONE", "HELD")  BY <1>0, <1>2 DEF Reserve
  <2>2. reservation[r] = "NONE" /\ reservation'[r] = "HELD"  BY <1>1, <2>1 DEF move
  <2>3. Phase[r] = "new" /\ Phase'[r] = "held"  BY <2>2 DEF Phase, Credited
  <2>4. Phase' = [Phase EXCEPT ![r] = "held"]  BY <1>1, <2>1, <2>3
  <2>5. Float!Spendable >= Amount[r]  BY <1>2, SpendableIsAvailable DEF Reserve
  <2>6. QED  BY <2>3, <2>4, <2>5 DEF Float!Next, Float!Hold
<1>3. CASE FinalizeSuccess(r, profit)
  <2>1. move("HELD", "SETTLED")  BY <1>0, <1>3 DEF FinalizeSuccess
  <2>2. reservation[r] = "HELD" /\ reservation'[r] = "SETTLED" /\ ~Credited(r)'
    BY <1>1, <1>3, <2>1, SettledUncredited DEF move
  <2>3. Phase[r] = "held" /\ Phase'[r] = "settled"  BY <2>2 DEF Phase, Credited
  <2>4. Phase' = [Phase EXCEPT ![r] = "settled"]  BY <1>1, <2>1, <2>3
  <2>5. QED  BY <2>3, <2>4 DEF Float!Next, Float!Settle
<1>4. CASE Release(r) \/ ReleaseFromUnderReview(r)
  <2>1. move("HELD", "RELEASED") \/ move("UNDER_REVIEW", "RELEASED")
    BY <1>0, <1>4 DEF Release, ReleaseFromUnderReview
  <2>2. reservation[r] \in {"HELD", "UNDER_REVIEW"} /\ reservation'[r] = "RELEASED"
    BY <1>1, <2>1 DEF move
  <2>3. Phase[r] = "held" /\ Phase'[r] = "returned"  BY <2>2 DEF Phase, Credited
  <2>4. Phase' = [Phase EXCEPT ![r] = "returned"]  BY <1>1, <2>1, <2>3
  <2>5. QED  BY <2>3, <2>4 DEF Float!Next, Float!Return
<1>5. CASE MoveToUnderReview(r)
  <2>1. move("HELD", "UNDER_REVIEW")  BY <1>0, <1>5 DEF MoveToUnderReview
  <2>2. reservation[r] = "HELD" /\ reservation'[r] = "UNDER_REVIEW"  BY <1>1, <2>1 DEF move
  <2>3. Phase[r] = "held" /\ Phase'[r] = "held"  BY <2>2 DEF Phase, Credited
  <2>4. Phase' = Phase  BY <1>1, <2>1, <2>3 DEF Phase
  <2>5. QED  BY <2>4
<1>6. QED  BY <1>2, <1>3, <1>4, <1>5

\* The console's credit is the refund of a sale that was settled.
LEMMA CreditIsRefund ==
  ASSUME TypeOK, Ledger, NEW r \in Requests, CreditReversal(r)
  PROVE  [Float!Next]_Phase
<1> USE DEF Ledger
<1>1. Phase[r] = "settled" /\ Phase'[r] = "refunded"
  BY CreditPosting DEF Phase, Credited
<1>2. \A q \in Requests \ {r} : Phase'[q] = Phase[q]
  BY CreditPosting DEF Phase, Credited
<1>3. Phase' = [Phase EXCEPT ![r] = "refunded"]
  BY <1>1, <1>2 DEF Phase
<1>4. QED  BY <1>1, <1>3 DEF Float!Next, Float!Refund

\* So every step is a step of the promise.
LEMMA FloatStep ==
  ASSUME TypeOK, Ledger, [Next]_vars
  PROVE  [Float!Next]_Phase
<1>1. CASE UNCHANGED <<reservation, posted>>
  BY <1>1 DEF Phase, Credited
<1>2. ASSUME NEW r \in Requests, CreditReversal(r) PROVE [Float!Next]_Phase
  BY <1>2, CreditIsRefund
<1>3. QED  BY <1>1, <1>2, ValueMovesByOperation, OperationsAreFloatSteps DEF Ledger

\* Sales, recovery, polling and reversals, with every race and crash between them,
\* implement the promise made to the merchant: value is held once against a float
\* that covers it, then settled once or returned once, and refunded at most once
\* after it was settled.
THEOREM FloatIsImplemented == Spec => ImplementsFloat
<1>1. Init => Float!Init
  BY DEF Init, Float!Init, Phase, Credited
<1>2. TypeOK /\ Ledger /\ [Next]_vars => [Float!Next]_Phase
  BY FloatStep
<1>3. QED
  BY <1>1, <1>2, TypeCorrect, LedgerHolds, PTL
  DEF Spec, ImplementsFloat, Float!Spec

\* What each sale takes out of the float.
Taken == [r \in Requests |-> IF Phase[r] \in {"held", "settled"} THEN -Amount[r] ELSE 0]

\* What the promise leaves to spend, as a sum over sales.
LEMMA SpendableIsSum ==
  /\ Float!Spendable = Opening + SumFunctionOnSet(Taken, Requests)
  /\ \A r \in Requests : Taken[r] \in Int
  /\ SumFunctionOnSet(Taken, Requests) \in Int
<1>1. \A r \in Requests : Taken[r] \in Int
  BY DEF Taken
<1>2. SumFunctionOnSet(Taken, Requests) \in Int
  BY <1>1, RequestsAssumption, SumType
<1>3. DOMAIN Taken = Requests
  BY DEF Taken
<1>4. Total(Taken) = SumFunctionOnSet(Taken, Requests)
  BY <1>3 DEF Total, FoldFunction, SumFunctionOnSet
<1>5. Float!Spendable = Opening + Total(Taken)
  BY DEF Float!Spendable, Taken
<1>6. QED  BY <1>1, <1>2, <1>4, <1>5

\* Holding what the float covers, settling, returning and refunding keep it
\* covered.
LEMMA FloatStaysCovered ==
  ASSUME Float!Spendable >= 0, [Float!Next]_Phase
  PROVE  Float!Spendable' >= 0
<1>1. DOMAIN Phase = Requests
  BY DEF Phase
<1>2. (/\ Float!Spendable = Opening + SumFunctionOnSet(Taken, Requests)
       /\ \A r \in Requests : Taken[r] \in Int
       /\ SumFunctionOnSet(Taken, Requests) \in Int)'
  BY SpendableIsSum, PTL
<1>3. CASE Phase' = Phase
  <2>1. Taken' = Taken  BY <1>3 DEF Taken
  <2>2. QED  BY <2>1, <1>2, SpendableIsSum
<1>4. ASSUME NEW r \in Requests,
             Float!Hold(r) \/ Float!Settle(r) \/ Float!Return(r) \/ Float!Refund(r)
      PROVE  Float!Spendable' >= 0
  <2>1. \A s \in Requests : s # r => Taken'[s] = Taken[s]
    BY <1>1, <1>4 DEF Taken, Float!Hold, Float!Settle, Float!Return, Float!Refund
  <2>2. SumFunctionOnSet(Taken', Requests) = SumFunctionOnSet(Taken, Requests) - Taken[r] + Taken'[r]
    <3>1. \A s \in Requests : Taken[s] \in Int /\ Taken'[s] \in Int
      BY <1>2, SpendableIsSum
    <3>2. QED  BY <2>1, <3>1, RequestsAssumption, SumUpdate
  <2>3. CASE Float!Hold(r)
    <3>1. Taken[r] = 0 /\ Taken'[r] = -Amount[r] /\ Float!Spendable >= Amount[r]
      BY <1>1, <2>3 DEF Taken, Float!Hold
    <3>2. QED  BY <1>2, <2>2, <3>1, SpendableIsSum
  <2>4. CASE Float!Settle(r)
    <3>1. Taken'[r] = Taken[r] /\ Taken[r] \in Int
      BY <1>1, <2>4 DEF Taken, Float!Settle
    <3>2. QED  BY <1>2, <2>2, <3>1, SpendableIsSum
  <2>5. CASE Float!Return(r) \/ Float!Refund(r)
    <3>1. Taken[r] = -Amount[r] /\ Taken'[r] = 0
      BY <1>1, <2>5 DEF Taken, Float!Return, Float!Refund
    <3>2. QED  BY <1>2, <2>2, <3>1, SpendableIsSum
  <2>6. QED  BY <1>4, <2>3, <2>4, <2>5
<1>5. QED  BY <1>3, <1>4 DEF Float!Next

\* The balance a merchant is shown never goes below zero, however sales,
\* recovery, polling and reversals interleave: reserve reads the balance in the
\* transaction that holds the price.
THEOREM FloatIsNeverOverdrawn == Spec => []NoOverdraft
<1> DEFINE Covered == Float!Spendable >= 0
<1>1. Init => Covered
  <2> SUFFICES ASSUME Init  PROVE Covered
    OBVIOUS
  <2>1. \A r \in Requests : Taken[r] = 0
    BY DEF Init, Taken, Phase
  <2>2. SumFunctionOnSet(Taken, Requests) = 0
    BY <2>1, RequestsAssumption, SumZero
  <2>3. QED  BY <2>2, SpendableIsSum
<1>2. TypeOK /\ Ledger /\ Covered /\ [Next]_vars => Covered'
  BY FloatStep, FloatStaysCovered
<1>3. TypeOK /\ Ledger /\ Covered => NoOverdraft
  BY SpendableIsAvailable DEF NoOverdraft, Ledger
<1>4. QED
  BY <1>1, <1>2, <1>3, TypeCorrect, LedgerHolds, PTL DEF Spec

-----------------------------------------------------------------------------
(* What becomes of a sale: one sale for a key, a commission entry for what *)
(* was posted, and, when adapters answer before a row is old enough to be  *)
(* swept and reversals are not interleaved, a row, a reservation, a job, a *)
(* support case, a recorded result and a reply that tell one story.        *)

Calm == PromptSubmit /\ AtomicReversal

\* No supervisor has approved a case about the sale.
Unapproved(r) == support[r] # "APPROVED" /\ complaint[r] # "APPROVED"

\* What goes with a row in each of its states.
Story(r) ==
  /\ txn[r] = "NONE" =>
       /\ reservation[r] = "NONE" /\ provider[r] = "unseen" /\ job[r] = "NONE"
       /\ sale[r] \in {"idle", "health", "done", "dead"}
  /\ txn[r] = "RESERVED" =>
       /\ reservation[r] = "HELD" /\ provider[r] = "unseen" /\ job[r] = "NONE"
       /\ sale[r] \in {"reserved", "dead"}
  /\ txn[r] = "PROCESSING" =>
       /\ reservation[r] = "HELD" /\ job[r] = "NONE"
       /\ sale[r] \in {"submitted", "dead"}
  /\ txn[r] = "PENDING" =>
       /\ reservation[r] = "HELD" /\ job[r] = "AWAITING"
       /\ sale[r] \in {"done", "dead"}
  /\ txn[r] = "UNDER_REVIEW" =>
       /\ reservation[r] = "UNDER_REVIEW" /\ job[r] = "ESCALATED"
       /\ "OPEN" \in {support[r], complaint[r]} /\ sale[r] \in {"done", "dead"}
  /\ txn[r] = "REVERSAL_REQUIRED" =>
       /\ reservation[r] \in {"UNDER_REVIEW", "HELD"} /\ job[r] = "ESCALATED"
       /\ "OPEN" \in {support[r], complaint[r]} /\ sale[r] \in {"done", "dead"}
  /\ txn[r] = "SUCCESSFUL" =>
       /\ reservation[r] = "SETTLED" /\ provider[r] = "delivered"
       /\ job[r] \in {"NONE", "RESOLVED"} /\ sale[r] \in {"done", "dead"}
  /\ txn[r] = "FAILED" =>
       /\ reservation[r] = "RELEASED" /\ provider[r] \in {"unseen", "refused"}
       /\ job[r] \in {"NONE", "RESOLVED"} /\ sale[r] \in {"done", "dead"}
  /\ txn[r] = "REVERSED" =>
       /\ reservation[r] \in {"RELEASED", "SETTLED"} /\ sale[r] \in {"done", "dead"}
       /\ reservation[r] = "SETTLED" => provider[r] = "delivered"
  /\ txn[r] # "REVERSED" => Unapproved(r)
  /\ crediting[r] => txn[r] = "SUCCESSFUL"

\* A row that waits long enough is nobody's in the POS process.
Left(r) == aged[r] => txn[r] # "NONE" /\ sale[r] \in {"done", "dead"}

\* The replies after which nothing was sold.
Refusals == {"REFUSED", "DUPLICATE_REQUEST", "PAYLOAD_MISMATCH", "PROVIDER_UNAVAILABLE",
             "INSUFFICIENT_BALANCE", "PERSISTENCE_FAILURE"}

\* The till has said nothing that a later outcome could belie.
Open(r) ==
  /\ reply[r] \notin Refusals \cup {"SUCCESSFUL", "FAILED", "ERROR"}
  /\ sale[r] # "done" => reply[r] = "NONE"

\* What the till said.
Said(r) ==
  /\ sale[r] # "done" => reply[r] = "NONE"
  /\ reply[r] = "FAILED" => txn[r] = "FAILED"
  /\ reply[r] = "SUCCESSFUL"
       => txn[r] = "SUCCESSFUL" \/ (txn[r] = "REVERSED" /\ reservation[r] = "SETTLED")
  /\ reply[r] \in Refusals => txn[r] = "NONE"
  /\ reply[r] # "ERROR"

\* What a worker may rely on about the row it works on.
Worked(w) ==
  /\ sweep[w] # "idle" => txn[subject[w]] # "NONE" /\ sale[subject[w]] \in {"done", "dead"}
  /\ sweep[w] = "releasing" => txn[subject[w]] \in {"RESERVED", "FAILED"}

OneStory ==
  /\ \A r \in Requests : Story(r) /\ Left(r) /\ Said(r)
  /\ \A w \in Workers : Worked(w)

\* A key names the sale that was made under it, and a sale made is named.
KeyNamesSale ==
  /\ \A r \in Requests : reservation[r] # "NONE" => owner[Key[r]] = r
  /\ \A k \in Keys : owner[k] # NoRequest => reservation[owner[k]] # "NONE" /\ Key[owner[k]] = k

-----------------------------------------------------------------------------
(* One step, one row.                                                      *)

Told(r) == Story(r) /\ Left(r) /\ Said(r)

\* Everything the story is about.
storied == <<txn, aged, reservation, job, support, complaint, crediting, provider, sale, reply,
             sweep, subject>>

\* The step leaves everything about this sale alone.
Same(q) ==
  /\ txn'[q] = txn[q] /\ aged'[q] = aged[q] /\ reservation'[q] = reservation[q]
  /\ job'[q] = job[q] /\ support'[q] = support[q] /\ complaint'[q] = complaint[q]
  /\ crediting'[q] = crediting[q] /\ provider'[q] = provider[q]
  /\ sale'[q] = sale[q] /\ reply'[q] = reply[q]

\* The step takes nothing away from a worker that works on this sale.
Onward(r) ==
  /\ sale[r] \in {"done", "dead"} => sale'[r] = sale[r]
  /\ txn[r] # "NONE" => txn'[r] # "NONE"
  /\ txn[r] \in {"RESERVED", "FAILED"} /\ sale[r] \in {"done", "dead"}
       => txn'[r] \in {"RESERVED", "FAILED"}

\* A step about one sale that tells its story onward keeps every story.
LEMMA OneAtATime ==
  ASSUME OneStory, TypeOK, NEW r \in Requests,
         \A q \in Requests \ {r} : Same(q), Told(r)', Onward(r),
         \A w \in Workers : \/ sweep'[w] = sweep[w] /\ subject'[w] = subject[w]
                            \/ Worked(w)'
  PROVE  OneStory'
<1>1. ASSUME NEW q \in Requests PROVE Told(q)'
  <2>1. CASE q = r  BY <2>1
  <2>2. CASE q # r  BY <2>2 DEF Same, Told, Story, Unapproved, Left, Said, OneStory
  <2>3. QED  BY <2>1, <2>2
<1>2. ASSUME NEW w \in Workers PROVE Worked(w)'
  <2>1. CASE Worked(w)'  BY <2>1
  <2>2. CASE sweep'[w] = sweep[w] /\ subject'[w] = subject[w]
    <3> SUFFICES ASSUME sweep[w] # "idle" PROVE Worked(w)'
      BY <2>2 DEF Worked
    <3>1. /\ subject[w] \in Requests
          /\ txn[subject[w]] # "NONE" /\ sale[subject[w]] \in {"done", "dead"}
          /\ sweep[w] = "releasing" => txn[subject[w]] \in {"RESERVED", "FAILED"}
      BY DEF TypeOK, OneStory, Worked
    <3>2. CASE subject[w] = r  BY <2>2, <3>1, <3>2 DEF Worked, Onward
    <3>3. CASE subject[w] # r
      <4>1. Same(subject[w])  BY <3>1, <3>3
      <4>2. QED  BY <2>2, <3>1, <4>1 DEF Worked, Same
    <3>4. QED  BY <3>2, <3>3
  <2>3. QED  BY <2>1, <2>2
<1>3. QED  BY <1>1, <1>2 DEF OneStory, Told

\* What the POS process may rely on about a sale it has in hand.
LEMMA InHand ==
  ASSUME TypeOK, OneStory, NEW r \in Requests, sale[r] \in {"reserved", "submitted"}
  PROVE  /\ txn[r] = IF sale[r] = "reserved" THEN "RESERVED" ELSE "PROCESSING"
         /\ reservation[r] = "HELD" /\ job[r] = "NONE" /\ Unapproved(r)
         /\ aged[r] = FALSE /\ reply[r] = "NONE" /\ ~crediting[r]
<1>1. Story(r) /\ Left(r) /\ Said(r)  BY DEF OneStory
<1>2. txn[r] \in States /\ aged[r] \in BOOLEAN  BY DEF TypeOK
<1>3. QED
  BY <1>1, <1>2 DEF Story, Unapproved, Left, Said, Refusals, States, InFlightStates, TerminalStates

\* The steps of createSale.
LEMMA SaleTold ==
  ASSUME TypeOK, Calm, OneStory, NEW r \in Requests, CreateSale(r)
  PROVE  OneStory'
<1> USE DEF TypeOK, Persist, Answer, MoveReservation, rows, pendings, records, claims, calls,
            services, desks, workers
<1>1. CASE RefuseRequest(r) \/ FindExisting(r) \/ ProviderUnhealthy(r) \/ ReserveRolledBack(r)
  <2>1. /\ sale[r] \in {"idle", "health"}
        /\ UNCHANGED <<rows, pendings, records, claims, provider, services, workers, restarts>>
    BY <1>1, Zenon DEF RefuseRequest, FindExisting, ProviderUnhealthy, ReserveRolledBack
  <2>2. \E kind \in Refusals : Answer(r, kind)
    BY <1>1, Zenon DEF Refusals, RefuseRequest, FindExisting, ProviderUnhealthy, ReserveRolledBack
  <2>3. Told(r)' /\ Onward(r) /\ \A q \in Requests \ {r} : Same(q)
    BY <2>1, <2>2 DEF OneStory, Told, Story, Unapproved, Left, Said, Onward, Refusals, Same, States,
       InFlightStates,
       TerminalStates
  <2>4. QED  BY <2>1, <2>3, OneAtATime
<1>2. CASE AskHealth(r)
  <2>1. Told(r)' /\ Onward(r) /\ \A q \in Requests \ {r} : Same(q)
    BY <1>2 DEF AskHealth, OneStory, Told, Story, Unapproved, Left, Said, Onward, Same,
       Refusals, States, InFlightStates, TerminalStates
  <2>2. QED  BY <1>2, <2>1, OneAtATime DEF AskHealth
<1>3. CASE ReserveSale(r)
  <2>1. Told(r)' /\ Onward(r) /\ \A q \in Requests \ {r} : Same(q)
    BY <1>3 DEF ReserveSale, Reserve, OneStory, Told, Story, Unapproved, Left, Said, Onward, Same,
       Refusals, States, InFlightStates, TerminalStates
  <2>2. QED  BY <1>3, <2>1, OneAtATime DEF ReserveSale
<1>4. CASE SubmitToProvider(r)
  <2>0. sale[r] \in {"reserved", "submitted"}  BY <1>4 DEF SubmitToProvider
  <2>1. Told(r)' /\ Onward(r)
    BY <1>4, <2>0, InHand DEF SubmitToProvider, Told, Story, Unapproved, Left, Said, Onward, Refusals
  <2>3. \A q \in Requests \ {r} : Same(q)
    BY <1>4 DEF SubmitToProvider, Same
  <2>4. QED  BY <1>4, <2>1, <2>3, OneAtATime DEF SubmitToProvider
<1>5. CASE SubmitConfirmed(r)
  <2>0. sale[r] \in {"reserved", "submitted"}  BY <1>5 DEF SubmitConfirmed
  <2>1. /\ txn'[r] = "SUCCESSFUL" /\ aged'[r] = FALSE /\ reservation'[r] = "SETTLED"
        /\ provider'[r] = "delivered" /\ job'[r] = job[r] /\ Unapproved(r)' /\ ~crediting'[r] /\ sale'[r] = "done"
        /\ reply'[r] = "SUCCESSFUL"
    BY <1>5, <2>0, InHand DEF SubmitConfirmed, FinalizeSuccess, Unapproved
  <2>2. Told(r)' /\ Onward(r)
    BY <2>0, <2>1, InHand DEF Told, Story, Unapproved, Left, Said, Open, Onward, Refusals
  <2>3. \A q \in Requests \ {r} : Same(q)
    BY <1>5 DEF SubmitConfirmed, FinalizeSuccess, Same
  <2>4. QED  BY <1>5, <2>2, <2>3, OneAtATime DEF SubmitConfirmed
<1>6. CASE SubmitRefused(r)
  <2>0. sale[r] \in {"reserved", "submitted"}  BY <1>6 DEF SubmitRefused
  <2>1. /\ txn'[r] = "FAILED" /\ aged'[r] = FALSE /\ reservation'[r] = "RELEASED"
        /\ provider'[r] = "refused" /\ job'[r] = job[r] /\ Unapproved(r)' /\ ~crediting'[r] /\ sale'[r] = "done"
        /\ reply'[r] = "FAILED"
    BY <1>6, <2>0, InHand DEF SubmitRefused, Release, Unapproved
  <2>2. Told(r)' /\ Onward(r)
    BY <2>0, <2>1, InHand DEF Told, Story, Unapproved, Left, Said, Open, Onward, Refusals
  <2>3. \A q \in Requests \ {r} : Same(q)
    BY <1>6 DEF SubmitRefused, Release, Same
  <2>4. QED  BY <1>6, <2>2, <2>3, OneAtATime DEF SubmitRefused
<1>7. CASE SubmitSilent(r)
  <2>0. sale[r] \in {"reserved", "submitted"}  BY <1>7 DEF SubmitSilent
  <2>1. Told(r)' /\ Onward(r)
    BY <1>7, <2>0, InHand DEF SubmitSilent, Told, Story, Unapproved, Left, Said, Onward, Refusals
  <2>3. \A q \in Requests \ {r} : Same(q)
    BY <1>7 DEF SubmitSilent, Same
  <2>4. QED  BY <1>7, <2>1, <2>3, OneAtATime DEF SubmitSilent
<1>8. ~SubmitRolledBack(r)
  BY DEF SubmitRolledBack, OneStory, Story, Unapproved, States, InFlightStates, TerminalStates
<1>9. QED
  BY <1>1, <1>2, <1>3, <1>4, <1>5, <1>6, <1>7, <1>8 DEF CreateSale

\* A step that touches nothing of the story.
LEMMA Aside ==
  ASSUME TypeOK, OneStory,
         UNCHANGED storied
  PROVE  OneStory'
BY DEF OneStory, Story, Unapproved, Left, Said, Worked, storied

\* The provider and the clock.
LEMMA EnvironmentTold ==
  ASSUME TypeOK, Calm, OneStory, NEW r \in Requests, Environment(r)
  PROVE  OneStory'
<1> USE DEF rows, pendings, records, claims, calls, services, desks, workers
<1>1. CASE ProviderDecides(r)
  <2>1. Told(r)' /\ Onward(r)
    BY <1>1 DEF ProviderDecides, TypeOK, OneStory, Told, Story, Unapproved, Left, Said, Onward, Refusals
  <2>2. \A q \in Requests \ {r} : Same(q)
    BY <1>1 DEF ProviderDecides, TypeOK, Same
  <2>3. QED  BY <1>1, <2>1, <2>2, OneAtATime DEF ProviderDecides
<1>2. CASE RowAges(r)
  <2>1. sale[r] \in {"done", "dead"} /\ txn[r] # "NONE"
    BY <1>2 DEF RowAges, Calm, OneStory, Story, Unapproved, InFlightStates
  <2>2. Told(r)' /\ Onward(r)
    BY <1>2, <2>1 DEF RowAges, TypeOK, OneStory, Told, Story, Unapproved, Left, Said, Onward, Refusals
  <2>3. \A q \in Requests \ {r} : Same(q)
    BY <1>2 DEF RowAges, TypeOK, Same
  <2>4. QED  BY <1>2, <2>2, <2>3, OneAtATime DEF RowAges
<1>3. CASE DeadlinePasses(r) \/ LeaseExpires(r)
  <2>1. UNCHANGED storied
    BY <1>3, Zenon DEF DeadlinePasses, LeaseExpires, storied
  <2>2. QED  BY <2>1, Aside
<1>4. QED  BY <1>1, <1>2, <1>3 DEF Environment

\* The steps of resolvePending.
LEMMA PollTold ==
  ASSUME TypeOK, Calm, OneStory, NEW r \in Requests, ResolvePending(r)
  PROVE  OneStory'
<1> USE DEF TypeOK, Persist, MoveReservation, ClosePending, OpenSupportCase, rows, pendings,
            records, claims, calls, services, desks, workers
<1>1. CASE ResolveSuccessful(r)
  <2>1. /\ txn[r] = "PENDING" /\ reservation[r] = "HELD" /\ job[r] = "AWAITING"
        /\ Unapproved(r) /\ ~crediting[r] /\ sale[r] \in {"done", "dead"}
        /\ Open(r)
    BY <1>1 DEF ResolveSuccessful, Answered, OneStory, Story, Unapproved, Said, Open, Refusals
  <2>2. /\ txn'[r] = "SUCCESSFUL" /\ aged'[r] = FALSE /\ reservation'[r] = "SETTLED"
        /\ job'[r] = "RESOLVED" /\ Unapproved(r)' /\ ~crediting'[r] /\ provider'[r] = "delivered"
        /\ sale'[r] = sale[r] /\ reply'[r] = reply[r]
    BY <1>1, <2>1 DEF ResolveSuccessful, Answered, FinalizeSuccess, Unapproved
  <2>3. Told(r)' /\ Onward(r)
    BY <2>1, <2>2 DEF Told, Story, Unapproved, Left, Said, Open, Onward, Refusals
  <2>4. \A q \in Requests \ {r} : Same(q)
    BY <1>1 DEF ResolveSuccessful, Answered, FinalizeSuccess, Same
  <2>5. QED  BY <1>1, <2>3, <2>4, OneAtATime DEF ResolveSuccessful
<1>2. CASE ResolveFailed(r)
  <2>1. /\ txn[r] = "PENDING" /\ reservation[r] = "HELD" /\ job[r] = "AWAITING"
        /\ Unapproved(r) /\ ~crediting[r] /\ sale[r] \in {"done", "dead"}
        /\ Open(r)
    BY <1>2 DEF ResolveFailed, Answered, OneStory, Story, Unapproved, Said, Open, Refusals
  <2>2. /\ txn'[r] = "FAILED" /\ aged'[r] = FALSE /\ reservation'[r] = "RELEASED"
        /\ job'[r] = "RESOLVED" /\ Unapproved(r)' /\ ~crediting'[r] /\ provider'[r] = "refused"
        /\ sale'[r] = sale[r] /\ reply'[r] = reply[r]
    BY <1>2, <2>1 DEF ResolveFailed, Answered, Release, Unapproved
  <2>3. Told(r)' /\ Onward(r)
    BY <2>1, <2>2 DEF Told, Story, Unapproved, Left, Said, Open, Onward, Refusals
  <2>4. \A q \in Requests \ {r} : Same(q)
    BY <1>2 DEF ResolveFailed, Answered, Release, Same
  <2>5. QED  BY <1>2, <2>3, <2>4, OneAtATime DEF ResolveFailed
<1>3. CASE ResolveEscalated(r)
  <2>1. /\ txn[r] = "PENDING" /\ reservation[r] = "HELD" /\ job[r] = "AWAITING"
        /\ Unapproved(r) /\ ~crediting[r] /\ sale[r] \in {"done", "dead"}
        /\ Open(r)
    BY <1>3 DEF ResolveEscalated, Answered, OneStory, Story, Unapproved, Said, Open, Refusals
  <2>2. /\ txn'[r] = "UNDER_REVIEW" /\ aged'[r] = FALSE /\ reservation'[r] = "UNDER_REVIEW"
        /\ job'[r] = "ESCALATED" /\ "OPEN" \in {support'[r], complaint'[r]} /\ Unapproved(r)'
        /\ ~crediting'[r] /\ provider'[r] = provider[r]
        /\ sale'[r] = sale[r] /\ reply'[r] = reply[r]
    BY <1>3, <2>1 DEF ResolveEscalated, Answered, MoveToUnderReview, Unapproved
  <2>3. Told(r)' /\ Onward(r)
    BY <2>1, <2>2 DEF Told, Story, Unapproved, Left, Said, Open, Onward, Refusals
  <2>4. \A q \in Requests \ {r} : Same(q)
    BY <1>3 DEF ResolveEscalated, Answered, MoveToUnderReview, Same
  <2>5. QED  BY <1>3, <2>3, <2>4, OneAtATime DEF ResolveEscalated
<1>4. CASE AskStatus(r) \/ ResolveUnchanged(r)
  <2>1. UNCHANGED storied
    BY <1>4, Zenon DEF AskStatus, ResolveUnchanged, storied
  <2>2. QED  BY <2>1, Aside
<1>5. QED  BY <1>1, <1>2, <1>3, <1>4 DEF ResolvePending

\* The steps of a reversal.
LEMMA ReversalTold ==
  ASSUME TypeOK, Calm, OneStory, NEW r \in Requests, Reversal(r)
  PROVE  OneStory'
<1> USE DEF TypeOK, Persist, MoveReservation, ClosePending, OpenSupportCase, rows, pendings,
            records, claims, calls, services, desks, workers
<1>1. CASE RequireReversal(r)
  <2>1. /\ \/ txn[r] = "PENDING" /\ reservation[r] = "HELD" /\ job[r] = "AWAITING"
           \/ txn[r] = "UNDER_REVIEW" /\ reservation[r] = "UNDER_REVIEW" /\ job[r] = "ESCALATED"
        /\ Unapproved(r) /\ ~crediting[r]
        /\ sale[r] \in {"done", "dead"}
        /\ Open(r)
    BY <1>1 DEF RequireReversal, Calm, OneStory, Story, Unapproved, Said, Open, Refusals
  <2>2. /\ txn'[r] = "REVERSAL_REQUIRED" /\ aged'[r] = FALSE /\ reservation'[r] = reservation[r]
        /\ job'[r] = "ESCALATED" /\ "OPEN" \in {support'[r], complaint'[r]} /\ Unapproved(r)'
        /\ ~crediting'[r] /\ provider'[r] = provider[r]
        /\ sale'[r] = sale[r] /\ reply'[r] = reply[r]
    <3>1. OpenSupportCase(r) /\ UNCHANGED complaint
      BY <1>1, Zenon DEF RequireReversal
    <3>2. "OPEN" \in {support'[r], complaint'[r]} /\ Unapproved(r)'
      BY <2>1, <3>1 DEF Unapproved, HasCase, Cases
    <3>3. QED  BY <1>1, <2>1, <3>2 DEF RequireReversal, Calm
  <2>3. Told(r)' /\ Onward(r)
    BY <2>1, <2>2 DEF Told, Story, Unapproved, Left, Said, Open, Onward, Refusals
  <2>4. \A q \in Requests \ {r} : Same(q)
    BY <1>1 DEF RequireReversal, Calm, Same
  <2>5. QED  BY <1>1, <2>3, <2>4, OneAtATime DEF RequireReversal
<1>2. CASE CompleteReversal(r)
  <2>1. /\ txn[r] = "REVERSAL_REQUIRED" /\ sale[r] \in {"done", "dead"}
        /\ Open(r) /\ ~crediting[r]
    BY <1>2 DEF CompleteReversal, OneStory, Story, Said, Open, Refusals
  <2>2. /\ txn'[r] = "REVERSED" /\ aged'[r] = FALSE /\ reservation'[r] = "RELEASED"
        /\ ~crediting'[r] /\ sale'[r] = sale[r] /\ reply'[r] = reply[r]
    BY <1>2, <2>1 DEF CompleteReversal, Release, ReleaseFromUnderReview
  <2>3. Told(r)' /\ Onward(r)
    BY <2>1, <2>2 DEF Told, Story, Unapproved, Left, Said, Open, Onward, Refusals
  <2>4. \A q \in Requests \ {r} : Same(q)
    <3>1. \A q \in Requests \ {r} : support'[q] = support[q] /\ complaint'[q] = complaint[q]
      <4>1. \/ support' = [support EXCEPT ![r] = "APPROVED"] /\ UNCHANGED complaint
            \/ complaint' = [complaint EXCEPT ![r] = "APPROVED"] /\ UNCHANGED support
        BY <1>2, Zenon DEF CompleteReversal, ApproveSupportCase
      <4>2. CASE support' = [support EXCEPT ![r] = "APPROVED"] /\ UNCHANGED complaint
        BY <4>2
      <4>3. CASE complaint' = [complaint EXCEPT ![r] = "APPROVED"] /\ UNCHANGED support
        BY <4>3
      <4>4. QED  BY <4>1, <4>2, <4>3
    <3>2. QED  BY <1>2, <3>1 DEF CompleteReversal, Release, ReleaseFromUnderReview, Same
  <2>5. QED  BY <1>2, <2>3, <2>4, OneAtATime DEF CompleteReversal
<1>3. CASE ReadForReversal(r)
  <2>1. UNCHANGED storied
    BY <1>3, Zenon DEF ReadForReversal, storied
  <2>2. QED  BY <2>1, Aside
<1>4. CASE ReadForCredit(r) \/ DropCredit(r)
  <2>1. crediting'[r] => txn[r] = "SUCCESSFUL"
    BY <1>4 DEF ReadForCredit, DropCredit
  <2>2. /\ \A q \in Requests \ {r} : Same(q)
        /\ UNCHANGED <<txn, aged, reservation, job, support, complaint, provider, sale, reply,
                       workers>>
    BY <1>4 DEF ReadForCredit, DropCredit, Same
  <2>3. Told(r)' /\ Onward(r)
    BY <2>1, <2>2 DEF OneStory, Told, Story, Unapproved, Left, Said, Onward
  <2>4. QED  BY <2>2, <2>3, OneAtATime
<1>5. CASE CreditReversal(r)
  <2>1. /\ txn[r] = "SUCCESSFUL" /\ reservation[r] = "SETTLED" /\ sale[r] \in {"done", "dead"}
        /\ provider[r] = "delivered"
        /\ sale[r] # "done" => reply[r] = "NONE"
        /\ reply[r] \notin Refusals \cup {"FAILED", "ERROR"}
    BY <1>5 DEF CreditReversal, OneStory, Story, Said, Refusals
  <2>2. /\ txn'[r] = "REVERSED" /\ aged'[r] = FALSE /\ reservation'[r] = "SETTLED"
        /\ ~crediting'[r] /\ provider'[r] = "delivered"
        /\ sale'[r] = sale[r] /\ reply'[r] = reply[r]
    BY <1>5, <2>1 DEF CreditReversal
  <2>3. Told(r)' /\ Onward(r)
    BY <2>1, <2>2 DEF Told, Story, Left, Said, Onward, Refusals
  <2>4. \A q \in Requests \ {r} : Same(q)
    BY <1>5 DEF CreditReversal, Same
  <2>5. QED  BY <1>5, <2>3, <2>4, OneAtATime DEF CreditReversal
<1>6. QED  BY <1>1, <1>2, <1>3, <1>4, <1>5 DEF Reversal

\* The steps of a complaint: a case more is a case that nobody has approved.
LEMMA ComplaintTold ==
  ASSUME TypeOK, OneStory, NEW r \in Requests, Complain(r)
  PROVE  OneStory'
<1> USE DEF TypeOK, rows, pendings, records, claims, calls, services, desks, workers
<1>1. CASE ReadForComplaint(r) \/ DropComplaint(r)
  <2>1. UNCHANGED storied
    BY <1>1, Zenon DEF ReadForComplaint, DropComplaint, storied
  <2>2. QED  BY <2>1, Aside
<1>2. CASE FileComplaint(r)
  <2>1. /\ complaint'[r] = "OPEN" /\ \A q \in Requests \ {r} : Same(q)
        /\ UNCHANGED <<txn, aged, reservation, job, support, crediting, provider, sale, reply,
                       workers>>
    BY <1>2 DEF FileComplaint, Same
  <2>2. Told(r)' /\ Onward(r)
    BY <2>1 DEF OneStory, Told, Story, Unapproved, Left, Said, Onward
  <2>3. QED  BY <2>1, <2>2, OneAtATime
<1>3. QED  BY <1>1, <1>2 DEF Complain

\* The steps of a worker that has a claim in hand.
LEMMA RecoveryTold ==
  ASSUME TypeOK, Calm, OneStory, NEW w \in Workers, RecoverOne(w), sweep[w] # "idle",
         NEW r \in Requests, subject[w] = r
  PROVE  OneStory'
<1>0. r \in Requests /\ subject[w] = r  OBVIOUS
<1>1. txn[r] # "NONE" /\ sale[r] \in {"done", "dead"}
  BY DEF OneStory, Worked
<1>2. ASSUME \A q \in Requests \ {r} : Same(q), Told(r)', Onward(r),
             sweep' = [sweep EXCEPT ![w] = "leaving"], UNCHANGED subject,
             txn'[r] # "NONE", sale'[r] = sale[r]
      PROVE  OneStory'
  <2>1. ASSUME NEW v \in Workers
        PROVE  (sweep'[v] = sweep[v] /\ subject'[v] = subject[v]) \/ Worked(v)'
    BY <1>1, <1>2 DEF Worked, TypeOK
  <2>2. QED  BY <1>0, <1>2, <2>1, OneAtATime
<1> USE DEF TypeOK, Persist, MoveReservation, ClosePending, OpenSupportCase, rows, pendings,
            records, claims, calls, services, desks, workers
<1>3. CASE ReleaseNeverSubmitted(w)
  <2>1. /\ txn[r] = "RESERVED" /\ provider[r] = "unseen" /\ job[r] = "NONE"
        /\ sale[r] \in {"done", "dead"} /\ Open(r) /\ Unapproved(r) /\ ~crediting[r]
    BY <1>3, <1>0, <1>1 DEF ReleaseNeverSubmitted, OneStory, Story, Unapproved, Said, Open,
       Refusals, Worked, Release
  <2>2. /\ txn'[r] = "FAILED" /\ aged'[r] = FALSE /\ reservation'[r] = "RELEASED"
        /\ job'[r] \in {"NONE"} /\ Unapproved(r)' /\ ~crediting'[r] /\ provider'[r] = "unseen"
        /\ sale'[r] = sale[r] /\ reply'[r] = reply[r]
    BY <1>3, <1>0, <2>1 DEF ReleaseNeverSubmitted, Release, Unapproved
  <2>3. Told(r)' /\ Onward(r)
    BY <2>1, <2>2 DEF Told, Story, Unapproved, Left, Said, Open, Onward, Refusals
  <2>4. \A q \in Requests \ {r} : Same(q)
    BY <1>3, <1>0 DEF ReleaseNeverSubmitted, Release, Same
  <2>5. QED  BY <1>3, <1>0, <1>1, <1>2, <2>2, <2>3, <2>4 DEF ReleaseNeverSubmitted
<1>4. CASE RecoverSuccessful(w)
  <2>1. /\ txn[r] \in {"PROCESSING", "PENDING"} /\ reservation[r] = "HELD"
        /\ job[r] = IF txn[r] = "PENDING" THEN "AWAITING" ELSE "NONE"
        /\ Unapproved(r) /\ ~crediting[r] /\ sale[r] \in {"done", "dead"} /\ Open(r)
    BY <1>4, <1>0, <1>1 DEF RecoverSuccessful, Resolvable, OneStory, Story, Unapproved, Said, Open, Refusals
  <2>2. /\ txn'[r] = "SUCCESSFUL" /\ aged'[r] = FALSE /\ reservation'[r] = "SETTLED"
        /\ job'[r] \in {"NONE", "RESOLVED"} /\ Unapproved(r)' /\ ~crediting'[r] /\ provider'[r] = "delivered"
        /\ sale'[r] = sale[r] /\ reply'[r] = reply[r]
    BY <1>4, <1>0, <2>1 DEF RecoverSuccessful, Resolvable, FinalizeSuccess, Unapproved
  <2>3. Told(r)' /\ Onward(r)
    BY <2>1, <2>2 DEF Told, Story, Unapproved, Left, Said, Open, Onward, Refusals
  <2>4. \A q \in Requests \ {r} : Same(q)
    BY <1>4, <1>0 DEF RecoverSuccessful, Resolvable, FinalizeSuccess, Same
  <2>5. QED  BY <1>4, <1>0, <1>1, <1>2, <2>2, <2>3, <2>4 DEF RecoverSuccessful
<1>5. CASE RecoverFailed(w)
  <2>1. /\ txn[r] \in {"PROCESSING", "PENDING"} /\ reservation[r] = "HELD"
        /\ job[r] = IF txn[r] = "PENDING" THEN "AWAITING" ELSE "NONE"
        /\ Unapproved(r) /\ ~crediting[r] /\ sale[r] \in {"done", "dead"} /\ Open(r)
    BY <1>5, <1>0, <1>1 DEF RecoverFailed, Resolvable, OneStory, Story, Unapproved, Said, Open, Refusals
  <2>2. /\ txn'[r] = "FAILED" /\ aged'[r] = FALSE /\ reservation'[r] = "RELEASED"
        /\ job'[r] \in {"NONE", "RESOLVED"} /\ Unapproved(r)' /\ ~crediting'[r] /\ provider'[r] = "refused"
        /\ sale'[r] = sale[r] /\ reply'[r] = reply[r]
    BY <1>5, <1>0, <2>1 DEF RecoverFailed, Resolvable, Release, Unapproved
  <2>3. Told(r)' /\ Onward(r)
    BY <2>1, <2>2 DEF Told, Story, Unapproved, Left, Said, Open, Onward, Refusals
  <2>4. \A q \in Requests \ {r} : Same(q)
    BY <1>5, <1>0 DEF RecoverFailed, Resolvable, Release, Same
  <2>5. QED  BY <1>5, <1>0, <1>1, <1>2, <2>2, <2>3, <2>4 DEF RecoverFailed
<1>6. CASE HoldPending(w)
  <2>1. /\ txn[r] \in {"PROCESSING", "PENDING"} /\ reservation[r] = "HELD"
        /\ job[r] = IF txn[r] = "PENDING" THEN "AWAITING" ELSE "NONE"
        /\ Unapproved(r) /\ ~crediting[r] /\ sale[r] \in {"done", "dead"} /\ Open(r)
    BY <1>6, <1>0, <1>1 DEF HoldPending, Resolvable, OneStory, Story, Unapproved, Said, Open, Refusals
  <2>2. /\ txn'[r] = "PENDING" /\ aged'[r] \in BOOLEAN /\ reservation'[r] = "HELD"
        /\ job'[r] = "AWAITING" /\ Unapproved(r)' /\ ~crediting'[r] /\ provider'[r] = provider[r]
        /\ sale'[r] = sale[r] /\ reply'[r] = reply[r]
    BY <1>6, <1>0, <2>1 DEF HoldPending, Resolvable, Unapproved
  <2>3. Told(r)' /\ Onward(r)
    BY <2>1, <2>2 DEF Told, Story, Unapproved, Left, Said, Open, Onward, Refusals
  <2>4. \A q \in Requests \ {r} : Same(q)
    BY <1>6, <1>0 DEF HoldPending, Resolvable, Same
  <2>5. QED  BY <1>6, <1>0, <1>1, <1>2, <2>2, <2>3, <2>4 DEF HoldPending
<1>7. CASE EscalateUnderReview(w)
  <2>1. /\ txn[r] \in {"PROCESSING", "PENDING"} /\ reservation[r] = "HELD"
        /\ job[r] = IF txn[r] = "PENDING" THEN "AWAITING" ELSE "NONE"
        /\ Unapproved(r) /\ ~crediting[r] /\ sale[r] \in {"done", "dead"} /\ Open(r)
    BY <1>7, <1>0, <1>1 DEF EscalateUnderReview, Resolvable, OneStory, Story, Unapproved, Said, Open, Refusals
  <2>2. /\ txn'[r] = "UNDER_REVIEW" /\ aged'[r] = FALSE /\ reservation'[r] = "UNDER_REVIEW"
        /\ job'[r] = "ESCALATED" /\ "OPEN" \in {support'[r], complaint'[r]} /\ Unapproved(r)'
        /\ ~crediting'[r] /\ provider'[r] = provider[r]
        /\ sale'[r] = sale[r] /\ reply'[r] = reply[r]
    <3>1. OpenSupportCase(r) /\ UNCHANGED complaint
      BY <1>0, <1>7, Zenon DEF EscalateUnderReview
    <3>2. "OPEN" \in {support'[r], complaint'[r]} /\ Unapproved(r)'
      BY <2>1, <3>1 DEF Unapproved, HasCase, Cases
    <3>3. QED  BY <1>7, <1>0, <2>1, <3>2 DEF EscalateUnderReview, Resolvable, MoveToUnderReview
  <2>3. Told(r)' /\ Onward(r)
    BY <2>1, <2>2 DEF Told, Story, Unapproved, Left, Said, Open, Onward, Refusals
  <2>4. \A q \in Requests \ {r} : Same(q)
    BY <1>7, <1>0 DEF EscalateUnderReview, Resolvable, MoveToUnderReview, Same
  <2>5. QED  BY <1>7, <1>0, <1>1, <1>2, <2>2, <2>3, <2>4 DEF EscalateUnderReview
<1>8. CASE FindResolved(w) \/ RecoveryRolledBack(w)
  <2>1. /\ sweep' = [sweep EXCEPT ![w] = "leaving"]
        /\ UNCHANGED <<rows, pendings, records, claims, calls, services, subject, queue, restarts>>
    BY <1>8, Zenon DEF FindResolved, RecoveryRolledBack
  <2>2. Told(r)' /\ Onward(r) /\ \A q \in Requests \ {r} : Same(q)
    BY <1>0, <2>1 DEF OneStory, Told, Story, Unapproved, Left, Said, Onward, Same
  <2>3. QED  BY <1>0, <1>1, <1>2, <2>1, <2>2
<1>9. CASE ReadUnderClaim(w)
  <2>1. Told(r)' /\ Onward(r) /\ \A q \in Requests \ {r} : Same(q)
    BY <1>0, <1>9 DEF ReadUnderClaim, OneStory, Told, Story, Unapproved, Left, Said, Onward, Same
  <2>2. ASSUME NEW v \in Workers
        PROVE  (sweep'[v] = sweep[v] /\ subject'[v] = subject[v]) \/ Worked(v)'
    BY <1>1, <1>9 DEF ReadUnderClaim, Worked
  <2>3. QED  BY <1>0, <2>1, <2>2, OneAtATime
<1>10. CASE ReleaseClaim(w)
  <2>1. Told(r)' /\ Onward(r) /\ \A q \in Requests \ {r} : Same(q)
    BY <1>0, <1>10 DEF ReleaseClaim, OneStory, Told, Story, Unapproved, Left, Said, Onward, Same
  <2>2. ASSUME NEW v \in Workers
        PROVE  (sweep'[v] = sweep[v] /\ subject'[v] = subject[v]) \/ Worked(v)'
    BY <1>10 DEF ReleaseClaim, Worked
  <2>3. QED  BY <1>0, <2>1, <2>2, OneAtATime
<1>11. QED
  BY <1>3, <1>4, <1>5, <1>6, <1>7, <1>8, <1>9, <1>10 DEF RecoverOne

\* A worker takes up a row that has waited long enough, or gives up; a crash of
\* the server leaves the rows it had in hand to the workers.
LEMMA RestTold ==
  ASSUME TypeOK, OneStory,
         \/ \E w \in Workers : \/ Scan(w) \/ WorkerCrash(w) \/ StopEarly(w)
                               \/ \E r \in Requests : Claim(w, r) \/ SkipCandidate(w, r)
         \/ ServerCrash \/ UNCHANGED vars
  PROVE  OneStory'
<1> USE DEF rows, pendings, records, claims, calls, services, desks, workers, vars
<1>1. CASE \/ \E w \in Workers : \/ Scan(w) \/ StopEarly(w)
                                 \/ \E r \in Requests : SkipCandidate(w, r)
           \/ UNCHANGED vars
  <2>1. UNCHANGED storied
    BY <1>1, Zenon DEF Scan, StopEarly, SkipCandidate, storied
  <2>2. QED  BY <2>1, Aside
<1>2. ASSUME NEW w \in Workers, WorkerCrash(w) PROVE OneStory'
  <2>1. \A r \in Requests : Told(r)'
    BY <1>2 DEF WorkerCrash, OneStory, Told, Story, Unapproved, Left, Said
  <2>2. \A v \in Workers : Worked(v)'
    BY <1>2 DEF WorkerCrash, OneStory, Worked, TypeOK
  <2>3. QED  BY <2>1, <2>2 DEF OneStory, Told
<1>3. ASSUME NEW w \in Workers, NEW r \in Requests, Claim(w, r) PROVE OneStory'
  <2>1. \A q \in Requests : Told(q)'
    BY <1>3 DEF Claim, OneStory, Told, Story, Unapproved, Left, Said
  <2>2. txn[r] # "NONE" /\ sale[r] \in {"done", "dead"}
    BY <1>3 DEF Claim, OneStory, Left
  <2>3. \A v \in Workers : Worked(v)'
    BY <1>3, <2>2 DEF Claim, OneStory, Worked, TypeOK
  <2>4. QED  BY <2>1, <2>3 DEF OneStory, Told
<1>4. CASE ServerCrash
  <2>1. ASSUME NEW r \in Requests PROVE Told(r)' /\ Onward(r)
    <3>1. sale'[r] = IF sale[r] \in Live THEN "dead" ELSE sale[r]
      BY <1>4 DEF ServerCrash
    <3>2. QED
      BY <1>4, <3>1 DEF ServerCrash, OneStory, Told, Story, Unapproved, Left, Said, Onward, Live
  <2>2. \A w \in Workers : Worked(w)'
    BY <1>4, <2>1 DEF ServerCrash, OneStory, Worked, TypeOK, Onward
  <2>3. QED  BY <2>1, <2>2 DEF OneStory, Told
<1>5. QED  BY <1>1, <1>2, <1>3, <1>4

\* Every step tells the story on.
LEMMA StoryStep ==
  ASSUME TypeOK, Calm, OneStory, [Next]_vars
  PROVE  OneStory'
<1>1. ASSUME NEW w \in Workers, RecoverOne(w) PROVE OneStory'
  <2>1. sweep[w] # "idle" /\ subject[w] \in Requests
    BY <1>1 DEF TypeOK, RecoverOne, ReadUnderClaim, ReleaseNeverSubmitted, RecoverSuccessful,
       RecoverFailed, HoldPending, EscalateUnderReview, FindResolved, RecoveryRolledBack,
       ReleaseClaim, Resolvable
  <2>2. QED  BY <1>1, <2>1, RecoveryTold
<1>2. ASSUME NEW r \in Requests,
             \/ CreateSale(r) \/ Environment(r) \/ ResolvePending(r) \/ Reversal(r)
             \/ Complain(r)
      PROVE  OneStory'
  BY <1>2, SaleTold, EnvironmentTold, PollTold, ReversalTold, ComplaintTold
<1>3. QED  BY <1>1, <1>2, RestTold DEF Next, Recover

\* With adapters that answer in time and reversals that are not interleaved, the
\* story of every sale is one in every reachable state.
LEMMA StoryHolds == Spec => [](Calm => OneStory)
<1>1. Init => OneStory
  BY DEF Init, OneStory, Story, Unapproved, Left, Said, Worked, Refusals
<1>2. TypeOK /\ (Calm => OneStory) /\ [Next]_vars => (Calm => OneStory)'
  BY StoryStep DEF Calm
<1>3. QED  BY <1>1, <1>2, TypeCorrect, PTL DEF Spec

\* VALUE_DISPOSITION holds of every row, for any number of sales and workers.
THEOREM RowsMatchValue == Spec => [](Calm => StateMatchesReservation)
<1>1. TypeOK /\ OneStory /\ Ledger => StateMatchesReservation
  BY DEF TypeOK, OneStory, Story, Ledger, CreditFollowsRow, Credited,
     StateMatchesReservation, Disposition, States, InFlightStates, TerminalStates
<1>2. QED  BY <1>1, StoryHolds, LedgerHolds, TypeCorrect, PTL

\* Nothing is paid for that was not delivered, and nothing that was delivered is
\* reported failed and given back.
THEOREM MoneyFollowsGoods == Spec => [](Calm => MoneyFollowsDelivery)
<1>1. TypeOK /\ OneStory => MoneyFollowsDelivery
  BY DEF TypeOK, OneStory, Story, MoneyFollowsDelivery, States, InFlightStates, TerminalStates
<1>2. QED  BY <1>1, StoryHolds, TypeCorrect, PTL

\* A sale that is uncertain always has somebody or something that looks after it.
THEOREM NobodyIsForgotten == Spec => [](Calm => UncertainSaleIsTracked)
<1>1. OneStory => UncertainSaleIsTracked
  BY DEF OneStory, Story, UncertainSaleIsTracked
<1>2. QED  BY <1>1, StoryHolds, PTL

\* What the till printed stays true.
THEOREM RepliesStand == Spec => [](Calm => ReplyHolds)
<1>1. OneStory /\ Ledger => ReplyHolds
  <2> SUFFICES ASSUME OneStory, Ledger, NEW r \in Requests
               PROVE  /\ Said(r)
                      /\ txn[r] = "REVERSED" /\ reservation[r] = "SETTLED" => Credited(r)
                      /\ reply[r] \in Refusals => reservation[r] = "NONE" /\ posted[r] = NoEntries
    BY DEF ReplyHolds, Said, Refusals
  <2>1. Story(r) /\ Said(r)  BY DEF OneStory
  <2>2. reply[r] \in Refusals => reservation[r] = "NONE"  BY <2>1 DEF Story, Said
  <2>3. reservation[r] = "NONE" => posted[r] = NoEntries
    <3>1. posted[r] \in LegalPostings(r)[reservation[r]]  BY DEF Ledger, PostedMatchesReservation
    <3>2. QED  BY <3>1 DEF LegalPostings
  <2>4. txn[r] = "REVERSED" /\ reservation[r] = "SETTLED" => Credited(r)
    BY DEF Ledger, CreditFollowsRow
  <2>5. QED  BY <2>1, <2>2, <2>3, <2>4
<1>2. QED  BY <1>1, StoryHolds, LedgerHolds, PTL

-----------------------------------------------------------------------------
(* One sale for a key.                                                     *)

\* Nothing but the unit of work that makes a sale gives a key to anybody or takes
\* a reservation out of NONE.
LEMMA KeysRest ==
  ASSUME TypeOK, [Next]_vars
  PROVE  \/ \E r \in Requests : ReserveSale(r)
         \/ /\ UNCHANGED owner
            /\ \A r \in Requests : (reservation'[r] = "NONE") <=> (reservation[r] = "NONE")
<1> DEFINE Moved(r) ==
      \E to \in {"UNDER_REVIEW", "RELEASED", "SETTLED"} :
        /\ reservation[r] # "NONE"
        /\ reservation' = [reservation EXCEPT ![r] = to]
<1>1. ASSUME NEW r \in Requests, Moved(r)
      PROVE  \A q \in Requests : (reservation'[q] = "NONE") <=> (reservation[q] = "NONE")
  BY <1>1 DEF TypeOK
<1>2. ASSUME NEW r \in Requests, CreateSale(r)
      PROVE  ReserveSale(r) \/ (UNCHANGED owner /\ (UNCHANGED reservation \/ Moved(r)))
  BY <1>2 DEF CreateSale, RefuseRequest, FindExisting, AskHealth, ProviderUnhealthy,
     ReserveRolledBack, SubmitToProvider, SubmitConfirmed, SubmitRefused, SubmitSilent,
     SubmitRolledBack, FinalizeSuccess, Release, MoveReservation, rows, records
<1>3. ASSUME NEW r \in Requests,
             Environment(r) \/ ResolvePending(r) \/ Reversal(r) \/ Complain(r)
      PROVE  UNCHANGED owner /\ (UNCHANGED reservation \/ Moved(r))
  BY <1>3 DEF Environment, ProviderDecides, RowAges, DeadlinePasses, LeaseExpires,
     ResolvePending, AskStatus, ResolveSuccessful, ResolveFailed, ResolveEscalated,
     ResolveUnchanged, Reversal, ReadForReversal, RequireReversal, CompleteReversal,
     ReadForCredit, CreditReversal, DropCredit, Complain, ReadForComplaint, FileComplaint,
     DropComplaint, FinalizeSuccess, Release, ReleaseFromUnderReview, MoveToUnderReview, MoveReservation,
     rows, records
<1>4. ASSUME NEW w \in Workers, RecoverOne(w)
      PROVE  /\ UNCHANGED owner
             /\ UNCHANGED reservation \/ (subject[w] \in Requests /\ Moved(subject[w]))
  BY <1>4 DEF TypeOK, RecoverOne, ReadUnderClaim, ReleaseNeverSubmitted, RecoverSuccessful,
     RecoverFailed, HoldPending, EscalateUnderReview, FindResolved, RecoveryRolledBack,
     ReleaseClaim, Resolvable, FinalizeSuccess, Release, MoveToUnderReview, MoveReservation,
     rows, records
<1>5. ASSUME \/ \E w \in Workers : \/ Scan(w) \/ WorkerCrash(w) \/ StopEarly(w)
                                   \/ \E r \in Requests : Claim(w, r) \/ SkipCandidate(w, r)
             \/ ServerCrash \/ UNCHANGED vars
      PROVE  UNCHANGED owner /\ UNCHANGED reservation
  BY <1>5, Zenon DEF Scan, WorkerCrash, StopEarly, Claim, SkipCandidate, ServerCrash, vars,
     rows, records
<1> HIDE DEF Moved
<1>6. QED  BY <1>1, <1>2, <1>3, <1>4, <1>5 DEF Next, Recover

\* A key always names the sale it was given to.
LEMMA KeyHolds == Spec => []KeyNamesSale
<1>1. Init => KeyNamesSale
  BY DEF Init, KeyNamesSale
<1>2. TypeOK /\ KeyNamesSale /\ [Next]_vars => KeyNamesSale'
  <2> SUFFICES ASSUME TypeOK, KeyNamesSale, [Next]_vars PROVE KeyNamesSale'
    OBVIOUS
  <2>1. ASSUME NEW r \in Requests, ReserveSale(r) PROVE KeyNamesSale'
    <3>1. /\ owner[Key[r]] = NoRequest /\ owner' = [owner EXCEPT ![Key[r]] = r]
          /\ reservation' = [reservation EXCEPT ![r] = "HELD"] /\ Key[r] \in Keys
      BY <2>1 DEF ReserveSale, Reserve, MoveReservation, Keys
    <3>2. ASSUME NEW q \in Requests, reservation'[q] # "NONE" PROVE owner'[Key[q]] = q
      <4>1. CASE q = r  BY <3>1, <4>1 DEF TypeOK
      <4>2. CASE q # r
        <5>1. owner[Key[q]] = q  BY <3>1, <3>2, <4>2 DEF KeyNamesSale, TypeOK
        <5>2. Key[q] \in Keys /\ Key[q] # Key[r]  BY <3>1, <5>1 DEF Keys
        <5>3. QED  BY <3>1, <5>1, <5>2 DEF TypeOK
      <4>3. QED  BY <4>1, <4>2
    <3>3. ASSUME NEW k \in Keys, owner'[k] # NoRequest
          PROVE  reservation'[owner'[k]] # "NONE" /\ Key[owner'[k]] = k
      <4>1. CASE k = Key[r]  BY <3>1, <4>1 DEF TypeOK
      <4>2. CASE k # Key[r]
        <5>1. owner'[k] = owner[k] /\ owner[k] \in Requests  BY <3>1, <3>3, <4>2 DEF TypeOK
        <5>2. reservation[owner[k]] # "NONE" /\ Key[owner[k]] = k
          BY <5>1 DEF KeyNamesSale
        <5>3. QED  BY <3>1, <4>2, <5>1, <5>2 DEF TypeOK
      <4>3. QED  BY <4>1, <4>2
    <3>4. QED  BY <3>2, <3>3 DEF KeyNamesSale
  <2>2. ASSUME UNCHANGED owner,
               \A r \in Requests : (reservation'[r] = "NONE") <=> (reservation[r] = "NONE")
        PROVE  KeyNamesSale'
    BY <2>2 DEF KeyNamesSale, TypeOK
  <2>3. QED  BY <2>1, <2>2, KeysRest
<1>3. QED  BY <1>1, <1>2, TypeCorrect, PTL DEF Spec

\* Two calls under one key never both debit the merchant, however they race
\* around the health check, whatever the timing of adapters and reversals.
THEOREM OneSaleForAKey == Spec => []OneSalePerKey
<1>1. TypeOK /\ KeyNamesSale => OneSalePerKey
  <2> SUFFICES ASSUME TypeOK, KeyNamesSale, NEW k \in Keys
               PROVE  {r \in Requests : Key[r] = k /\ reservation[r] # "NONE"}
                        = {owner[k]} \ {NoRequest}
    BY DEF OneSalePerKey
  <2>1. \A r \in Requests : Key[r] = k /\ reservation[r] # "NONE" => owner[k] = r
    BY DEF KeyNamesSale
  <2>2. owner[k] \in Requests \cup {NoRequest}  BY DEF TypeOK
  <2>3. owner[k] # NoRequest => reservation[owner[k]] # "NONE" /\ Key[owner[k]] = k
    BY DEF KeyNamesSale
  <2>4. QED  BY <2>1, <2>2, <2>3
<1>2. QED  BY <1>1, KeyHolds, TypeCorrect, PTL

-----------------------------------------------------------------------------
(* The moves of a row and the result recorded for its key.                 *)

\* The row goes to s: along VALID_TRANSITIONS, after value was reserved for it,
\* and with the result recorded when that is where it stays.
Goes(r, s) ==
  /\ txn' = [txn EXCEPT ![r] = s]
  /\ s \in Reachable[txn[r]]
  /\ reservation[r] # "NONE"
  /\ UNCHANGED owner
  /\ IF s \in TerminalStates THEN result' = [result EXCEPT ![Key[r]] = s]
     ELSE UNCHANGED result /\ txn[r] \notin TerminalStates
  /\ s = "REVERSED" => reservation'[r] = "RELEASED"

\* The console credits the sale: the value stays settled and the result recorded.
Credits(r) ==
  /\ txn[r] = "SUCCESSFUL"
  /\ txn' = [txn EXCEPT ![r] = "REVERSED"]
  /\ reservation'[r] = "SETTLED"
  /\ UNCHANGED <<owner, result>>

\* A step moves no row, opens one, moves one along VALID_TRANSITIONS, or credits one.
LEMMA RowMoves ==
  ASSUME TypeOK, Calm, OneStory, [Next]_vars
  PROVE  \/ UNCHANGED <<txn, owner, result>>
         \/ \E r \in Requests : ReserveSale(r) /\ txn[r] = "NONE"
         \/ \E r \in Requests, s \in States : Goes(r, s)
         \/ \E r \in Requests : Credits(r)
<1> USE DEF Persist, RecordIdempotencyResult, MoveReservation, rows, pendings, records, claims,
            calls, services, desks, workers
<1>0. ASSUME NEW r \in Requests
      PROVE  txn[r] \in States
  BY DEF TypeOK
<1>1. ASSUME NEW r \in Requests, CreateSale(r)
      PROVE  \/ UNCHANGED <<txn, owner, result>> \/ (ReserveSale(r) /\ txn[r] = "NONE")
             \/ \E s \in States : Goes(r, s)
  <2>1. CASE \/ RefuseRequest(r) \/ FindExisting(r) \/ AskHealth(r) \/ ProviderUnhealthy(r)
             \/ ReserveRolledBack(r) \/ SubmitRolledBack(r)
    BY <2>1, Zenon DEF RefuseRequest, FindExisting, AskHealth, ProviderUnhealthy,
       ReserveRolledBack, SubmitRolledBack
  <2>2. CASE ReserveSale(r)
    BY <2>2, <1>0 DEF ReserveSale, OneStory, Story, States, InFlightStates, TerminalStates
  <2>3. CASE SubmitToProvider(r)
    <3>1. txn[r] = "RESERVED" /\ reservation[r] = "HELD"  BY <2>3, InHand DEF SubmitToProvider
    <3>2. Goes(r, "PROCESSING")
      BY <2>3, <3>1, <1>0 DEF SubmitToProvider, Goes, Reachable, TerminalStates
    <3>3. QED  BY <3>2 DEF States, InFlightStates
  <2>4. CASE SubmitConfirmed(r)
    <3>1. txn[r] = "PROCESSING" /\ reservation[r] = "HELD"  BY <2>4, InHand DEF SubmitConfirmed
    <3>2. Goes(r, "SUCCESSFUL")
      BY <2>4, <3>1, <1>0 DEF SubmitConfirmed, Goes, Reachable, TerminalStates
    <3>3. QED  BY <3>2 DEF States, TerminalStates
  <2>5. CASE SubmitRefused(r)
    <3>1. txn[r] = "PROCESSING" /\ reservation[r] = "HELD"  BY <2>5, InHand DEF SubmitRefused
    <3>2. Goes(r, "FAILED")
      BY <2>5, <3>1, <1>0 DEF SubmitRefused, Goes, Reachable, TerminalStates
    <3>3. QED  BY <3>2 DEF States, TerminalStates
  <2>6. CASE SubmitSilent(r)
    <3>1. txn[r] = "PROCESSING" /\ reservation[r] = "HELD"  BY <2>6, InHand DEF SubmitSilent
    <3>2. Goes(r, "PENDING")
      BY <2>6, <3>1, <1>0 DEF SubmitSilent, Goes, Reachable, TerminalStates
    <3>3. QED  BY <3>2 DEF States, InFlightStates
  <2>7. QED  BY <1>1, <2>1, <2>2, <2>3, <2>4, <2>5, <2>6 DEF CreateSale
<1>2. ASSUME NEW r \in Requests, Environment(r) \/ Complain(r)
      PROVE  UNCHANGED <<txn, owner, result>>
  BY <1>2, Zenon DEF Environment, ProviderDecides, RowAges, DeadlinePasses, LeaseExpires,
     Complain, ReadForComplaint, FileComplaint, DropComplaint
<1>3. ASSUME NEW r \in Requests, ResolvePending(r)
      PROVE  UNCHANGED <<txn, owner, result>> \/ \E s \in States : Goes(r, s)
  <2>1. CASE AskStatus(r) \/ ResolveUnchanged(r)
    BY <2>1, Zenon DEF AskStatus, ResolveUnchanged
  <2>2. CASE ResolveSuccessful(r) \/ ResolveFailed(r) \/ ResolveEscalated(r)
    <3>1. txn[r] = "PENDING" /\ reservation[r] = "HELD"
      BY <2>2 DEF ResolveSuccessful, ResolveFailed, ResolveEscalated, Answered, OneStory, Story
    <3>2. \E s \in {"SUCCESSFUL", "FAILED", "UNDER_REVIEW"} : Goes(r, s)
      BY <2>2, <3>1, <1>0 DEF ResolveSuccessful, ResolveFailed, ResolveEscalated, Goes,
         Reachable, TerminalStates
    <3>3. QED  BY <3>2 DEF States, TerminalStates
  <2>3. QED  BY <1>3, <2>1, <2>2 DEF ResolvePending
<1>4. ASSUME NEW r \in Requests, Reversal(r)
      PROVE  \/ UNCHANGED <<txn, owner, result>> \/ \E s \in States : Goes(r, s)
             \/ Credits(r)
  <2>1. CASE ReadForReversal(r) \/ ReadForCredit(r) \/ DropCredit(r)
    BY <2>1, Zenon DEF ReadForReversal, ReadForCredit, DropCredit
  <2>2. CASE RequireReversal(r)
    <3>1. txn[r] \in {"PENDING", "UNDER_REVIEW"} /\ reservation[r] # "NONE"
      BY <2>2 DEF RequireReversal, TypeOK, Calm, OneStory, Story
    <3>2. Goes(r, "REVERSAL_REQUIRED")
      BY <2>2, <3>1, <1>0 DEF RequireReversal, Goes, Reachable, TerminalStates
    <3>3. QED  BY <3>2 DEF States
  <2>3. CASE CompleteReversal(r)
    <3>1. txn[r] = "REVERSAL_REQUIRED" /\ reservation[r] # "NONE"
      BY <2>3 DEF CompleteReversal, OneStory, Story
    <3>2. reservation'[r] = "RELEASED"
      BY <2>3 DEF CompleteReversal, Release, ReleaseFromUnderReview, TypeOK
    <3>3. Goes(r, "REVERSED")
      BY <2>3, <3>1, <3>2, <1>0 DEF CompleteReversal, Goes, Reachable, TerminalStates
    <3>4. QED  BY <3>3 DEF States, TerminalStates
  <2>4. CASE CreditReversal(r)
    <3>1. txn[r] = "SUCCESSFUL" /\ reservation[r] = "SETTLED"
      BY <2>4 DEF CreditReversal, OneStory, Story
    <3>2. QED  BY <2>4, <3>1 DEF CreditReversal, Credits
  <2>5. QED  BY <1>4, <2>1, <2>2, <2>3, <2>4 DEF Reversal
<1>5. ASSUME NEW w \in Workers, RecoverOne(w), NEW r \in Requests, subject[w] = r
      PROVE  UNCHANGED <<txn, owner, result>> \/ \E s \in States : Goes(r, s)
  <2>1. CASE ReadUnderClaim(w) \/ FindResolved(w) \/ RecoveryRolledBack(w) \/ ReleaseClaim(w)
    BY <2>1, Zenon DEF ReadUnderClaim, FindResolved, RecoveryRolledBack, ReleaseClaim
  <2>2. CASE ReleaseNeverSubmitted(w)
    <3>1. txn[r] = "RESERVED" /\ reservation[r] = "HELD"
      BY <1>5, <2>2 DEF ReleaseNeverSubmitted, Release, OneStory, Story, Worked
    <3>2. Goes(r, "FAILED")
      BY <1>5, <2>2, <3>1, <1>0 DEF ReleaseNeverSubmitted, Goes, Reachable, TerminalStates
    <3>3. QED  BY <3>2 DEF States, TerminalStates
  <2>3. CASE RecoverSuccessful(w) \/ RecoverFailed(w) \/ EscalateUnderReview(w)
    <3>1. txn[r] \in {"PROCESSING", "PENDING"} /\ reservation[r] = "HELD"
      BY <1>5, <2>3 DEF RecoverSuccessful, RecoverFailed, EscalateUnderReview, Resolvable,
         OneStory, Story
    <3>2. \E s \in {"SUCCESSFUL", "FAILED", "UNDER_REVIEW"} : Goes(r, s)
      BY <1>5, <2>3, <3>1, <1>0 DEF RecoverSuccessful, RecoverFailed, EscalateUnderReview, Goes,
         Reachable, TerminalStates
    <3>3. QED  BY <3>2 DEF States, TerminalStates
  <2>4. CASE HoldPending(w)
    <3>1. txn[r] \in {"PROCESSING", "PENDING"} /\ reservation[r] = "HELD"
      BY <1>5, <2>4 DEF HoldPending, Resolvable, OneStory, Story
    <3>2. CASE txn[r] = "PROCESSING"
      <4>1. Goes(r, "PENDING")
        BY <1>5, <2>4, <3>1, <3>2, <1>0 DEF HoldPending, Goes, Reachable, TerminalStates
      <4>2. QED  BY <4>1 DEF States, InFlightStates
    <3>3. CASE txn[r] # "PROCESSING"
      BY <1>5, <2>4, <3>3 DEF HoldPending
    <3>4. QED  BY <3>2, <3>3
  <2>5. QED  BY <1>5, <2>1, <2>2, <2>3, <2>4 DEF RecoverOne
<1>6. ASSUME \/ \E w \in Workers : \/ Scan(w) \/ WorkerCrash(w) \/ StopEarly(w)
                                   \/ \E r \in Requests : Claim(w, r) \/ SkipCandidate(w, r)
             \/ ServerCrash \/ UNCHANGED vars
      PROVE  UNCHANGED <<txn, owner, result>>
  BY <1>6, Zenon DEF Scan, WorkerCrash, StopEarly, Claim, SkipCandidate, ServerCrash, vars
<1>7. ASSUME NEW w \in Workers, RecoverOne(w) PROVE subject[w] \in Requests
  BY <1>7 DEF TypeOK, RecoverOne, ReadUnderClaim, ReleaseNeverSubmitted, RecoverSuccessful,
     RecoverFailed, HoldPending, EscalateUnderReview, FindResolved, RecoveryRolledBack,
     ReleaseClaim, Resolvable
<1>8. QED  BY <1>1, <1>2, <1>3, <1>4, <1>5, <1>6, <1>7 DEF Next, Recover

\* Every row moves along VALID_TRANSITIONS, whichever processes hold copies of it,
\* and out of SUCCESSFUL only together with the credit it had not had.
THEOREM OnlyLegalMoves == Spec /\ []Calm => MovesAreLegal
<1>1. TypeOK /\ Calm /\ OneStory /\ Ledger /\ Ledger' /\ [Next]_vars
        => [\A r \in Requests :
              \/ txn'[r] \in Reachable[txn[r]]
              \/ /\ txn[r] = "SUCCESSFUL" /\ ~Credited(r)
                 /\ txn'[r] = "REVERSED" /\ Credited(r)']_vars
  <2> SUFFICES ASSUME TypeOK, Calm, OneStory, Ledger, Ledger', [Next]_vars, NEW r \in Requests
               PROVE  \/ txn'[r] \in Reachable[txn[r]]
                      \/ /\ txn[r] = "SUCCESSFUL" /\ ~Credited(r)
                         /\ txn'[r] = "REVERSED" /\ Credited(r)'
    OBVIOUS
  <2>1. txn[r] \in States /\ txn[r] \in Reachable[txn[r]]
    BY DEF TypeOK, Reachable
  <2>2. CASE UNCHANGED <<txn, owner, result>>  BY <2>1, <2>2
  <2>3. ASSUME NEW q \in Requests, ReserveSale(q), txn[q] = "NONE"
        PROVE  txn'[r] \in Reachable[txn[r]]
    BY <2>1, <2>3 DEF ReserveSale, Persist, TypeOK, Reachable, States, InFlightStates,
       TerminalStates
  <2>4. ASSUME NEW q \in Requests, NEW s \in States, Goes(q, s)
        PROVE  txn'[r] \in Reachable[txn[r]]
    BY <2>1, <2>4 DEF Goes, TypeOK
  <2>5. CASE Credits(r)
    <3>1. txn[r] = "SUCCESSFUL" /\ txn'[r] = "REVERSED" /\ reservation'[r] = "SETTLED"
      BY <2>5 DEF Credits, TypeOK
    <3>2. ~Credited(r) /\ Credited(r)'  BY <3>1 DEF Ledger, CreditFollowsRow
    <3>3. QED  BY <3>1, <3>2
  <2>6. ASSUME NEW q \in Requests, Credits(q), q # r
        PROVE  txn'[r] \in Reachable[txn[r]]
    BY <2>1, <2>6 DEF Credits, TypeOK
  <2>7. QED  BY <2>2, <2>3, <2>4, <2>5, <2>6, RowMoves
<1>2. QED  BY <1>1, TypeCorrect, StoryHolds, LedgerHolds, PTL DEF Spec, MovesAreLegal

\* How a sale was resolved, told from its reservation.
Resolved(r) ==
  IF txn[r] \notin TerminalStates THEN "NONE"
  ELSE IF txn[r] = "REVERSED" /\ reservation[r] = "SETTLED" THEN "SUCCESSFUL" ELSE txn[r]

\* A sale that is not moved stays resolved as it was.
LEMMA ResolvedRests ==
  ASSUME TypeOK, OneStory, [Next]_vars, NEW r \in Requests, txn'[r] = txn[r]
  PROVE  Resolved(r)' = Resolved(r)
<1>1. CASE txn[r] = "REVERSED"
  <2>1. reservation[r] \in {"SETTLED", "RELEASED"}  BY <1>1 DEF OneStory, Story
  <2>2. reservation'[r] = reservation[r]  BY <2>1, SettledRests
  <2>3. QED  BY <2>2 DEF Resolved
<1>2. CASE txn[r] # "REVERSED"  BY <1>2 DEF Resolved
<1>3. QED  BY <1>1, <1>2

\* The recorded result follows the row of the sale that has the key.
ResultFollows ==
  /\ \A k \in Keys : owner[k] = NoRequest => result[k] = "NONE"
  /\ \A r \in Requests : owner[Key[r]] = r => result[Key[r]] = Resolved(r)

\* Every step keeps recorded results with their rows.
LEMMA ResultStep ==
  ASSUME TypeOK, Calm, OneStory, KeyNamesSale, ResultFollows, [Next]_vars
  PROVE  ResultFollows'
<1>1. CASE UNCHANGED <<txn, owner, result>>
  BY <1>1, ResolvedRests DEF ResultFollows
<1>2. ASSUME NEW r \in Requests, ReserveSale(r), txn[r] = "NONE" PROVE ResultFollows'
  <2>1. /\ owner[Key[r]] = NoRequest /\ owner' = [owner EXCEPT ![Key[r]] = r]
        /\ txn' = [txn EXCEPT ![r] = "RESERVED"] /\ Key[r] \in Keys /\ UNCHANGED result
    BY <1>2 DEF ReserveSale, Persist, Keys
  <2>2. ASSUME NEW k \in Keys, owner'[k] = NoRequest PROVE result'[k] = "NONE"
    BY <2>1, <2>2 DEF ResultFollows, TypeOK
  <2>3. ASSUME NEW q \in Requests, owner'[Key[q]] = q
        PROVE  result'[Key[q]] = Resolved(q)'
    <3>0. Key[q] \in Keys  BY DEF Keys
    <3>1. CASE q = r
      <4>1. txn'[q] = "RESERVED"  BY <2>1, <3>1 DEF TypeOK
      <4>2. Resolved(q)' = "NONE"  BY <4>1 DEF Resolved, TerminalStates
      <4>3. QED  BY <2>1, <3>1, <4>2 DEF ResultFollows
    <3>2. CASE q # r
      <4>1. owner[Key[q]] = q /\ txn'[q] = txn[q]  BY <2>1, <2>3, <3>0, <3>2 DEF TypeOK
      <4>2. QED  BY <2>1, <4>1, ResolvedRests DEF ResultFollows
    <3>3. QED  BY <3>1, <3>2
  <2>4. QED  BY <2>2, <2>3 DEF ResultFollows
<1>3. ASSUME NEW r \in Requests, NEW s \in States, Goes(r, s) PROVE ResultFollows'
  <2>1. owner[Key[r]] = r /\ Key[r] \in Keys /\ UNCHANGED owner
    BY <1>3 DEF Goes, KeyNamesSale, Keys
  <2>2. ASSUME NEW k \in Keys, k # Key[r] PROVE result'[k] = result[k]
    BY <1>3, <2>2 DEF Goes, TypeOK
  <2>3. ASSUME NEW k \in Keys, owner'[k] = NoRequest PROVE result'[k] = "NONE"
    BY <2>1, <2>2, <2>3 DEF ResultFollows
  <2>4. ASSUME NEW q \in Requests, owner'[Key[q]] = q
        PROVE  result'[Key[q]] = Resolved(q)'
    <3>1. CASE q = r
      <4>1. txn'[r] = s  BY <1>3 DEF Goes, TypeOK
      <4>2. CASE s \in TerminalStates
        <5>1. result'[Key[r]] = s  BY <1>3, <2>1, <4>2 DEF Goes, TypeOK
        <5>2. Resolved(r)' = s  BY <1>3, <4>1, <4>2 DEF Goes, Resolved
        <5>3. QED  BY <3>1, <5>1, <5>2
      <4>3. CASE s \notin TerminalStates
        <5>1. result'[Key[r]] = "NONE"  BY <1>3, <2>1, <4>3 DEF Goes, ResultFollows, Resolved
        <5>2. Resolved(r)' = "NONE"  BY <4>1, <4>3 DEF Resolved
        <5>3. QED  BY <3>1, <5>1, <5>2
      <4>4. QED  BY <4>2, <4>3
    <3>2. CASE q # r
      <4>1. Key[q] \in Keys /\ Key[q] # Key[r]  BY <2>1, <2>4, <3>2 DEF Keys
      <4>2. txn'[q] = txn[q]  BY <1>3, <3>2 DEF Goes, TypeOK
      <4>3. QED  BY <2>1, <2>2, <2>4, <4>1, <4>2, ResolvedRests DEF ResultFollows
    <3>3. QED  BY <3>1, <3>2
  <2>5. QED  BY <2>3, <2>4 DEF ResultFollows
<1>4. ASSUME NEW r \in Requests, Credits(r) PROVE ResultFollows'
  <2>1. ASSUME NEW q \in Requests PROVE Resolved(q)' = Resolved(q)
    <3>1. CASE q = r  BY <1>4, <3>1 DEF Credits, Resolved, TerminalStates, TypeOK
    <3>2. CASE q # r  BY <1>4, <3>2, ResolvedRests DEF Credits, TypeOK
    <3>3. QED  BY <3>1, <3>2
  <2>2. QED  BY <1>4, <2>1 DEF Credits, ResultFollows
<1>5. QED  BY <1>1, <1>2, <1>3, <1>4, RowMoves

\* What a replay under the key is told is what became of the sale.
THEOREM ResultsAreFinal == Spec => [](Calm => RecordedResultIsFinal)
<1>1. Init => ResultFollows
  BY DEF Init, ResultFollows, Resolved, TerminalStates, Keys
<1>2. TypeOK /\ (Calm => OneStory) /\ KeyNamesSale /\ (Calm => ResultFollows) /\ [Next]_vars
        => (Calm => ResultFollows)'
  BY ResultStep DEF Calm
<1>3. TypeOK /\ KeyNamesSale /\ Ledger /\ ResultFollows => RecordedResultIsFinal
  <2> SUFFICES ASSUME TypeOK, KeyNamesSale, Ledger, ResultFollows, NEW k \in Keys
               PROVE  result[k] = IF owner[k] = NoRequest THEN "NONE" ELSE Resolution(owner[k])
    BY DEF RecordedResultIsFinal
  <2>1. CASE owner[k] = NoRequest  BY <2>1 DEF ResultFollows
  <2>2. CASE owner[k] # NoRequest
    <3>1. owner[k] \in Requests /\ Key[owner[k]] = k  BY <2>2 DEF TypeOK, KeyNamesSale
    <3>2. Resolved(owner[k]) = Resolution(owner[k])
      BY <3>1 DEF Resolved, Resolution, Credited, Ledger, CreditFollowsRow
    <3>3. QED  BY <2>2, <3>1, <3>2 DEF ResultFollows
  <2>3. QED  BY <2>1, <2>2
<1>4. QED  BY <1>1, <1>2, <1>3, TypeCorrect, StoryHolds, LedgerHolds, KeyHolds, PTL DEF Spec

-----------------------------------------------------------------------------
(* Commission.                                                             *)

\* A step posts nothing, posts without a profit leg and without an entry, is the
\* console's credit, which touches neither, or is the confirmation in createSale,
\* which makes both.
LEMMA EntryWithProfit ==
  ASSUME TypeOK, [Next]_vars
  PROVE  \/ UNCHANGED <<reservation, posted, commission>>
         \/ \E r \in Requests :
              /\ UNCHANGED commission
              /\ \/ Reserve(r) \/ Release(r) \/ FinalizeSuccess(r, 0)
                 \/ MoveToUnderReview(r) \/ ReleaseFromUnderReview(r)
         \/ \E r \in Requests : SubmitConfirmed(r) \/ CreditReversal(r)
<1> DEFINE Plain(r) ==
      /\ UNCHANGED commission
      /\ \/ Reserve(r) \/ Release(r) \/ FinalizeSuccess(r, 0)
         \/ MoveToUnderReview(r) \/ ReleaseFromUnderReview(r)
<1> USE DEF rows
<1>1. ASSUME NEW r \in Requests, CreateSale(r)
      PROVE  UNCHANGED <<reservation, posted, commission>> \/ Plain(r) \/ SubmitConfirmed(r)
  BY <1>1, Zenon DEF CreateSale, RefuseRequest, FindExisting, AskHealth, ProviderUnhealthy,
     ReserveSale, ReserveRolledBack, SubmitToProvider, SubmitRefused, SubmitSilent,
     SubmitRolledBack
<1>2. ASSUME NEW r \in Requests,
             Environment(r) \/ ResolvePending(r) \/ Reversal(r) \/ Complain(r)
      PROVE  UNCHANGED <<reservation, posted, commission>> \/ Plain(r) \/ CreditReversal(r)
  BY <1>2, Zenon DEF Environment, ProviderDecides, RowAges, DeadlinePasses, LeaseExpires,
     ResolvePending, AskStatus, ResolveSuccessful, ResolveFailed, ResolveEscalated,
     ResolveUnchanged, Reversal, ReadForReversal, RequireReversal, CompleteReversal,
     ReadForCredit, DropCredit, Complain, ReadForComplaint, FileComplaint, DropComplaint
<1>3. ASSUME NEW w \in Workers, RecoverOne(w)
      PROVE  UNCHANGED <<reservation, posted, commission>> \/ Plain(subject[w])
  BY <1>3, Zenon DEF RecoverOne, ReadUnderClaim, ReleaseNeverSubmitted, RecoverSuccessful,
     RecoverFailed, HoldPending, EscalateUnderReview, FindResolved, RecoveryRolledBack,
     ReleaseClaim
<1>4. ASSUME NEW w \in Workers, RecoverOne(w) PROVE subject[w] \in Requests
  BY <1>4 DEF TypeOK, RecoverOne, ReadUnderClaim, ReleaseNeverSubmitted, RecoverSuccessful,
     RecoverFailed, HoldPending, EscalateUnderReview, FindResolved, RecoveryRolledBack,
     ReleaseClaim, Resolvable
<1>5. ASSUME \/ \E w \in Workers : \/ Scan(w) \/ WorkerCrash(w) \/ StopEarly(w)
                                   \/ \E r \in Requests : Claim(w, r) \/ SkipCandidate(w, r)
             \/ ServerCrash \/ UNCHANGED vars
      PROVE  UNCHANGED <<reservation, posted, commission>>
  BY <1>5, Zenon DEF Scan, WorkerCrash, StopEarly, Claim, SkipCandidate, ServerCrash, vars
<1> HIDE DEF Plain
<1>6. \/ UNCHANGED <<reservation, posted, commission>>
      \/ \E r \in Requests : Plain(r)
      \/ \E r \in Requests : SubmitConfirmed(r) \/ CreditReversal(r)
  BY <1>1, <1>2, <1>3, <1>4, <1>5, Zenon DEF Next, Recover
<1>7. QED  BY <1>6 DEF Plain

\* The profit leg and the commission entry are there together or not at all,
\* whoever settles and whatever the timing.
THEOREM CommissionFollowsLedger == Spec => []CommissionIsPosted
<1>1. Init => CommissionIsPosted
  BY DEF Init, CommissionIsPosted, NoEntries, Accounts
<1>2. TypeOK /\ CommissionIsPosted /\ [Next]_vars => CommissionIsPosted'
  <2> SUFFICES ASSUME TypeOK, CommissionIsPosted, [Next]_vars PROVE CommissionIsPosted'
    OBVIOUS
  <2>1. CASE UNCHANGED <<reservation, posted, commission>>
    BY <2>1 DEF CommissionIsPosted
  <2>2. ASSUME NEW r \in Requests, UNCHANGED commission,
               \/ Reserve(r) \/ Release(r) \/ FinalizeSuccess(r, 0)
               \/ MoveToUnderReview(r) \/ ReleaseFromUnderReview(r)
        PROVE  CommissionIsPosted'
    <3>1. \E to, entries : \E from \in {"NONE", "HELD", "UNDER_REVIEW"} :
            /\ MoveReservation(r, from, to, entries)
            /\ entries["TELGA_REVENUE"] = 0
      <4>0. "TELGA_REVENUE" \in Accounts /\ Amount[r] \in Int  BY DEF Accounts
      <4>1. \A a, b \in Accounts \ {"TELGA_REVENUE"} : Entries(a, b, Amount[r])["TELGA_REVENUE"] = 0
        BY <4>0 DEF Entries
      <4>2. SettlementEntries(Amount[r], 0)["TELGA_REVENUE"] = 0
        BY <4>0 DEF SettlementEntries, NoEntries, Accounts
      <4>3. QED
        BY <2>2, <4>1, <4>2 DEF Reserve, Release, FinalizeSuccess, MoveToUnderReview,
           ReleaseFromUnderReview, Accounts
    <3>2. reservation[r] # "SETTLED" /\ commission[r] = FALSE
      BY <3>1 DEF MoveReservation, CommissionIsPosted, TypeOK
    <3>3. posted'[r]["TELGA_REVENUE"] = 0
      BY <3>1, <3>2 DEF MoveReservation, Append, CommissionIsPosted, TypeOK, Accounts
    <3>4. \A q \in Requests \ {r} : posted'[q] = posted[q] /\ reservation'[q] = reservation[q]
      BY <3>1 DEF MoveReservation, Append, TypeOK
    <3>5. QED  BY <2>2, <3>2, <3>3, <3>4 DEF CommissionIsPosted
  <2>3. ASSUME NEW r \in Requests, SubmitConfirmed(r) PROVE CommissionIsPosted'
    <3>1. MoveReservation(r, "HELD", "SETTLED", SettlementEntries(Amount[r], Profit[r]))
      BY <2>3 DEF SubmitConfirmed, FinalizeSuccess
    <3>2. commission' = [commission EXCEPT ![r] = TRUE]  BY <2>3 DEF SubmitConfirmed
    <3>3. reservation'[r] = "SETTLED" /\ commission[r] = FALSE /\ Profit[r] \in Int
      BY <3>1 DEF MoveReservation, CommissionIsPosted, TypeOK
    <3>4. SettlementEntries(Amount[r], Profit[r])["TELGA_REVENUE"] = Profit[r]
      BY DEF SettlementEntries, NoEntries, Accounts
    <3>5. posted'[r]["TELGA_REVENUE"] = Profit[r]
      BY <3>1, <3>3, <3>4 DEF MoveReservation, Append, CommissionIsPosted, TypeOK, Accounts
    <3>6. \A q \in Requests \ {r} : posted'[q] = posted[q] /\ reservation'[q] = reservation[q]
      BY <3>1 DEF MoveReservation, Append, TypeOK
    <3>7. QED  BY <3>2, <3>3, <3>5, <3>6 DEF CommissionIsPosted, TypeOK
  <2>4. ASSUME NEW r \in Requests, CreditReversal(r) PROVE CommissionIsPosted'
    <3>1. /\ posted' = [posted EXCEPT ![r] = [a \in Accounts |->
               posted[r][a] + Entries("PROVIDER_SETTLEMENT", "AVAILABLE", Amount[r])[a]]]
          /\ UNCHANGED <<reservation, commission>>
      BY <2>4 DEF CreditReversal, Append
    <3>2. "TELGA_REVENUE" \in Accounts /\ posted[r]["TELGA_REVENUE"] \in Int
      BY DEF Accounts, TypeOK
    <3>3. Entries("PROVIDER_SETTLEMENT", "AVAILABLE", Amount[r])["TELGA_REVENUE"] = 0
      BY <3>2 DEF Entries
    <3>4. \A q \in Requests : posted'[q]["TELGA_REVENUE"] = posted[q]["TELGA_REVENUE"]
      BY <3>1, <3>2, <3>3 DEF TypeOK
    <3>5. QED  BY <3>1, <3>4 DEF CommissionIsPosted
  <2>5. QED  BY <2>1, <2>2, <2>3, <2>4, EntryWithProfit
<1>3. QED  BY <1>1, <1>2, TypeCorrect, PTL DEF Spec

-----------------------------------------------------------------------------
(* Claims.                                                                 *)

\* Of all the steps only two change who holds a claim: one that takes it when it
\* is to be had, and one that gives back the process's own.
THEOREM ClaimsAreRespected == Spec => ClaimIsRespected
<1>1. TypeOK /\ [Next]_vars
        => [\A r \in Requests :
              holder[r] # NoWorker /\ ~expired[r] /\ holder'[r] # holder[r]
                => sweep[holder[r]] = "leaving" /\ subject[holder[r]] = r]_vars
  <2> SUFFICES ASSUME TypeOK, [Next]_vars, NEW r \in Requests,
                      holder[r] # NoWorker, ~expired[r], holder'[r] # holder[r]
               PROVE  sweep[holder[r]] = "leaving" /\ subject[holder[r]] = r
    OBVIOUS
  <2> USE DEF claims
  <2>1. ASSUME NEW q \in Requests,
               \/ CreateSale(q) \/ Environment(q) \/ ResolvePending(q) \/ Reversal(q)
               \/ Complain(q)
        PROVE  UNCHANGED holder
    BY <2>1, Zenon DEF CreateSale, RefuseRequest, FindExisting, AskHealth, ProviderUnhealthy,
       ReserveSale, ReserveRolledBack, SubmitToProvider, SubmitConfirmed, SubmitRefused,
       SubmitSilent, SubmitRolledBack, Environment, ProviderDecides, RowAges, DeadlinePasses,
       LeaseExpires, ResolvePending, AskStatus, ResolveSuccessful, ResolveFailed,
       ResolveEscalated, ResolveUnchanged, Reversal, ReadForReversal, RequireReversal,
       CompleteReversal, ReadForCredit, CreditReversal, DropCredit, Complain, ReadForComplaint,
       FileComplaint, DropComplaint
  <2>2. ASSUME NEW w \in Workers, RecoverOne(w)
        PROVE  UNCHANGED holder \/ ReleaseClaim(w)
    BY <2>2, Zenon DEF RecoverOne, ReadUnderClaim, ReleaseNeverSubmitted, RecoverSuccessful,
       RecoverFailed, HoldPending, EscalateUnderReview, FindResolved, RecoveryRolledBack
  <2>3. ASSUME \/ \E w \in Workers : \/ Scan(w) \/ WorkerCrash(w) \/ StopEarly(w)
                                     \/ \E q \in Requests : SkipCandidate(w, q)
               \/ ServerCrash \/ UNCHANGED vars
        PROVE  UNCHANGED holder
    BY <2>3, Zenon DEF Scan, WorkerCrash, StopEarly, SkipCandidate, ServerCrash, vars
  <2>4. ASSUME NEW w \in Workers, NEW q \in Requests, Claim(w, q) PROVE holder'[r] = holder[r]
    BY <2>4 DEF Claim, TypeOK
  <2>5. ASSUME NEW w \in Workers, ReleaseClaim(w)
        PROVE  sweep[holder[r]] = "leaving" /\ subject[holder[r]] = r
    BY <2>5 DEF ReleaseClaim, TypeOK
  <2>6. QED  BY <2>1, <2>2, <2>3, <2>4, <2>5 DEF Next, Recover
<1>2. QED  BY <1>1, TypeCorrect, PTL DEF Spec, ClaimIsRespected

=============================================================================
