----------------------------- MODULE Onboarding -----------------------------
(***************************************************************************)
(* How an application becomes a shop that can sign in: the operations      *)
(* console's routes for applications, provisioning, sign-in parameters,    *)
(* shops and devices.                                                      *)
(*                                                                         *)
(* The console is one process with ONE database connection.  Its handlers  *)
(* run to their next await without interruption, and every statement is    *)
(* committed by itself unless the connection is inside a transaction.  One *)
(* route keeps a transaction open across an await: issuing credentials     *)
(* derives two scrypt hashes between BEGIN and COMMIT.  Whatever another   *)
(* handler writes meanwhile joins that transaction, another BEGIN throws,  *)
(* and a handler that answers the throw with ROLLBACK undoes it.           *)
(*                                                                         *)
(* `db` is what the connection sees, `saved` what is committed: what other *)
(* processes read and what a restart finds.                                *)
(***************************************************************************)
EXTENDS Integers, FiniteSets

CONSTANTS
  Shops,        \* one application, registry row and merchant each (merchantIdFor)
  Handlers,     \* requests for credentials in progress
  None,
  MaxLiveSets,  \* two in the code
  MaxNumber,    \* bound on the device and operator numbers
  Withdrawable  \* bound: the devices that are stopped or given a new activation code

ASSUME OnboardingAssumption ==
  /\ None \notin Shops \cup Nat
  /\ MaxLiveSets \in Nat
  /\ MaxNumber \in Nat \ {0}

Numbers == 1 .. MaxNumber

VARIABLES
  db,           \* the rows as the console's connection sees them
  saved,        \* the rows as committed
  tx,           \* the connection: "none", "reading", "writing" or "stale"
  provision,    \* where the handler that is provisioning a shop stands
  issue,        \* the requests for credentials
  pairing,      \* devices whose activation code was found good, key not yet saved
  shown         \* the credentials handed over on a screen: <<shop, device, operator>>

vars == <<db, saved, tx, provision, issue, pairing, shown>>

\* device_enrollments: no row, ENROLLED with the key that was handed over,
\* PENDING with an activation code, ENROLLED with the key the code was redeemed
\* for, or REVOKED.
Keys == {"NONE", "ISSUED", "CODE", "PAIRED", "REVOKED"}

Rows ==
  [app      : [Shops -> {"NONE", "SUBMITTED", "UNDER_REVIEW", "DRAFT", "APPROVED",
                         "DEVICE_PENDING", "CLOSED"}],
   registry : [Shops -> {"NONE", "PROVISIONING", "ACTIVE", "FAILED"}],
   shop     : [Shops -> {"NONE", "ONBOARDING", "ACTIVE", "SUSPENDED"}],
   owner    : [Numbers -> Shops \cup {None}],     \* devices.merchant_id
   live     : SUBSET Numbers,                     \* devices.status = 'ACTIVE'
   key      : [Numbers -> Keys],
   operator : SUBSET Numbers]                     \* rows of merchant_users

Steps == {"idle", "approve", "claim", "merchant", "activate", "link"}

Requests ==
  [at : {"idle", "form", "deriving"}, shop : Shops \cup {None}, live : SUBSET Numbers,
   device : Numbers \cup {None}, operator : Numbers \cup {None}]

NoRequest == [at |-> "idle", shop |-> None, live |-> {}, device |-> None, operator |-> None]

\* No handler of the console is between two of its own statements.
Idle == provision = [shop |-> None, step |-> "idle"]

Init ==
  /\ db = [app      |-> [a \in Shops |-> "NONE"],
           registry |-> [a \in Shops |-> "NONE"],
           shop     |-> [a \in Shops |-> "NONE"],
           owner    |-> [n \in Numbers |-> None],
           live     |-> {},
           key      |-> [n \in Numbers |-> "NONE"],
           operator |-> {}]
  /\ saved = db
  /\ tx = "none"
  /\ provision = [shop |-> None, step |-> "idle"]
  /\ issue = [h \in Handlers |-> NoRequest]
  /\ pairing = {}
  /\ shown = {}

-----------------------------------------------------------------------------
(* The connection.                                                         *)

\* A statement of the console: committed at once, or part of the open
\* transaction.  A transaction whose snapshot is behind cannot write: the
\* statement throws SQLITE_BUSY_SNAPSHOT.
Write(rows) ==
  /\ tx # "stale"
  /\ db' = rows
  /\ saved' = IF tx = "none" THEN rows ELSE saved
  /\ tx' = IF tx = "none" THEN "none" ELSE "writing"

\* BEGIN, deferred, and the SELECT that fixes its snapshot.
Begin(rows) ==
  /\ tx = "none"
  /\ db' = rows
  /\ saved' = rows
  /\ tx' = "reading"

Commit(rows) ==
  /\ db' = rows
  /\ saved' = rows
  /\ tx' = "none"

Rollback ==
  /\ db' = saved
  /\ saved' = saved
  /\ tx' = "none"

\* Another process commits.  It would wait for a transaction that has written;
\* one that has only read keeps its snapshot and can no longer write.
Elsewhere(rows) ==
  /\ tx # "writing"
  /\ saved' = rows
  /\ db' = IF tx = "none" THEN rows ELSE db
  /\ tx' = IF tx = "none" THEN "none" ELSE "stale"

-----------------------------------------------------------------------------
(* Applications and their review.                                          *)

\* The shop's own form, in the merchant POS process.
Apply(a) ==
  /\ saved.app[a] = "NONE"
  /\ Elsewhere([saved EXCEPT !.app[a] = "SUBMITTED"])
  /\ UNCHANGED <<provision, issue, pairing, shown>>

\* A sale, a sweep or a sign-in of another process.
OtherProcessWrites ==
  /\ tx = "reading"
  /\ Elsewhere(saved)
  /\ UNCHANGED <<provision, issue, pairing, shown>>

\* An admin records an application brought in on paper, and may approve it in
\* the same request.  recordApplication opens a transaction of its own, so the
\* request fails while another is open.
RegisterShop(a) ==
  /\ Idle
  /\ tx = "none"
  /\ db.app[a] = "NONE"
  /\ Write([db EXCEPT !.app[a] = "SUBMITTED"])
  /\ \/ provision' = [shop |-> a, step |-> "approve"]
     \/ UNCHANGED provision
  /\ UNCHANGED <<issue, pairing, shown>>

PickUp(a) ==
  /\ Idle
  /\ db.app[a] = "SUBMITTED"
  /\ Write([db EXCEPT !.app[a] = "UNDER_REVIEW"])
  /\ UNCHANGED <<provision, issue, pairing, shown>>

\* Mutant: a rejected application is decided again.
CanBeDecidedTwice(a) == db.app[a] \in {"UNDER_REVIEW", "CLOSED"}

\* reviewRefusal: an application is decided while it is under review.
CanBeDecided(a) == db.app[a] = "UNDER_REVIEW"

\* REJECT and RETURN_FOR_CORRECTION.
TurnDown(a) ==
  /\ Idle
  /\ CanBeDecided(a)
  /\ \E next \in {"CLOSED", "DRAFT"} : Write([db EXCEPT !.app[a] = next])
  /\ UNCHANGED <<provision, issue, pairing, shown>>

\* APPROVE: the decision is recorded, and provisioning follows in the request.
Approve(a) ==
  /\ \/ Idle /\ CanBeDecided(a)
     \/ provision = [shop |-> a, step |-> "approve"]
  /\ Write([db EXCEPT !.app[a] = "APPROVED"])
  /\ provision' = [shop |-> a, step |-> "claim"]
  /\ UNCHANGED <<issue, pairing, shown>>

-----------------------------------------------------------------------------
(* provisionMerchant, one statement at a time.                             *)

ClaimRegistryRow(a) ==
  /\ provision = [shop |-> a, step |-> "claim"]
  /\ db.registry[a] = "NONE"
  /\ Write([db EXCEPT !.registry[a] = "PROVISIONING"])
  /\ provision' = [shop |-> a, step |-> "merchant"]
  /\ UNCHANGED <<issue, pairing, shown>>

\* Mutant: the tenant is opened without its shop's row.
WriteMerchantRecordLast(a) ==
  /\ provision = [shop |-> a, step |-> "merchant"]
  /\ Write([db EXCEPT !.registry[a] = "ACTIVE"])
  /\ provision' = [shop |-> a, step |-> "activate"]
  /\ UNCHANGED <<issue, pairing, shown>>

WriteMerchantRecord(a) ==
  /\ provision = [shop |-> a, step |-> "merchant"]
  /\ db.shop[a] = "NONE"
  /\ Write([db EXCEPT !.shop[a] = "ONBOARDING"])
  /\ provision' = [shop |-> a, step |-> "activate"]
  /\ UNCHANGED <<issue, pairing, shown>>

SetTenantActive(a) ==
  /\ provision = [shop |-> a, step |-> "activate"]
  /\ Write([db EXCEPT !.registry[a] = "ACTIVE"])
  /\ provision' = [shop |-> a, step |-> "link"]
  /\ UNCHANGED <<issue, pairing, shown>>

LinkApplication(a) ==
  /\ provision = [shop |-> a, step |-> "link"]
  /\ Write([db EXCEPT !.app[a] = "DEVICE_PENDING"])
  /\ provision' = [shop |-> None, step |-> "idle"]
  /\ UNCHANGED <<issue, pairing, shown>>

\* A statement throws.  The merchant's own write is answered by marking the
\* tenant FAILED, unless that throws too; the others leave the row as it is.
ProvisioningThrows(a) ==
  /\ provision.shop = a
  /\ \/ UNCHANGED <<db, saved, tx>>
     \/ /\ provision.step = "merchant"
        /\ Write([db EXCEPT !.registry[a] = "FAILED"])
  /\ provision' = [shop |-> None, step |-> "idle"]
  /\ UNCHANGED <<issue, pairing, shown>>

-----------------------------------------------------------------------------
(* POST /merchants/:id/credentials.                                        *)

Live(a) == {n \in db.live : db.owner[n] = a}

\* The live devices are read before the form is awaited.
OpenIssue(h, a) ==
  /\ Idle
  /\ issue[h].at = "idle"
  /\ db.shop[a] # "NONE"
  /\ issue' = [issue EXCEPT ![h] = [@ EXCEPT !.at = "form", !.shop = a, !.live = Live(a)]]
  /\ UNCHANGED <<db, saved, tx, provision, pairing, shown>>

Full(h) == Cardinality(issue[h].live) >= MaxLiveSets

\* The limit of live sets is reached and no device named: the screen asks which one to retire.
AskWhichToRetire(h) ==
  /\ Idle
  /\ issue[h].at = "form"
  /\ Full(h)
  /\ issue' = [issue EXCEPT ![h] = NoRequest]
  /\ UNCHANGED <<db, saved, tx, provision, pairing, shown>>

\* The rows once the device the form names is stopped, if one had to be.
Retired(h) ==
  IF Full(h) THEN {[db EXCEPT !.live = @ \ {n}] : n \in issue[h].live} ELSE {db}

\* highestNumberFor, and the number that follows it.
Highest(S) == CHOOSE n \in S \cup {0} : \A k \in S : k <= n

NextNumber(S) == Highest(S) + 1

Devices(rows) == {n \in Numbers : rows.owner[n] # None}

BeginIssue(h) ==
  /\ Idle
  /\ issue[h].at = "form"
  /\ \E rows \in Retired(h) :
       /\ Begin(rows)
       /\ MaxNumber \notin Devices(rows) \cup rows.operator
       /\ issue' = [issue EXCEPT ![h] =
                      [@ EXCEPT !.at = "deriving", !.device = NextNumber(Devices(rows)),
                                !.operator = NextNumber(rows.operator)]]
  /\ UNCHANGED <<provision, pairing, shown>>

\* BEGIN throws inside the transaction of another request, and the device that
\* was to make room has been stopped.
BeginThrows(h) ==
  /\ Idle
  /\ issue[h].at = "form"
  /\ tx # "none"
  /\ \/ \E rows \in Retired(h) : Full(h) /\ Write(rows)
     \/ (~ Full(h) \/ tx = "stale") /\ UNCHANGED <<db, saved, tx>>
  /\ issue' = [issue EXCEPT ![h] = NoRequest]
  /\ UNCHANGED <<provision, pairing, shown>>

\* The rows after the first k of the four statements: the device, its
\* enrolment, the operator, and the shop that starts trading.
Inserted(h, k) ==
  LET r == issue[h] IN
  [db EXCEPT !.owner[r.device] = IF k >= 1 THEN r.shop ELSE @,
             !.live            = IF k >= 1 THEN @ \cup {r.device} ELSE @,
             !.key[r.device]   = IF k >= 2 THEN "ISSUED" ELSE @,
             !.operator        = IF k >= 3 THEN @ \cup {r.operator} ELSE @,
             !.shop[r.shop]    = IF k >= 4 /\ @ = "ONBOARDING" THEN "ACTIVE" ELSE @]

\* How many of them the keys of the tables let through.
Accepted(h) ==
  LET r == issue[h] IN
  IF r.device \in Devices(db) \/ db.shop[r.shop] = "NONE" THEN 0
  ELSE IF r.operator \in db.operator THEN 2 ELSE 4

\* Both hashes are there: the statements run, and COMMIT.  The transaction is
\* whichever one is open.
CommitIssue(h) ==
  /\ Idle
  /\ issue[h].at = "deriving"
  /\ tx \in {"reading", "writing"}
  /\ Accepted(h) = 4
  /\ Commit(Inserted(h, 4))
  /\ shown' = shown \cup {<<issue[h].shop, issue[h].device, issue[h].operator>>}
  /\ issue' = [issue EXCEPT ![h] = NoRequest]
  /\ UNCHANGED <<provision, pairing>>

\* A statement throws inside a transaction, and ROLLBACK.
IssueThrows(h) ==
  /\ Idle
  /\ issue[h].at = "deriving"
  /\ tx # "none"
  /\ Rollback
  /\ issue' = [issue EXCEPT ![h] = NoRequest]
  /\ UNCHANGED <<provision, pairing, shown>>

\* Somebody else ended the transaction during the await.  The statements commit
\* one by one until one throws; if none does, COMMIT throws, and so does the
\* ROLLBACK that answers it.  The request ends in an error either way.
SaveAlone(h) ==
  /\ Idle
  /\ issue[h].at = "deriving"
  /\ tx = "none"
  /\ \E k \in 0 .. Accepted(h) : Write(Inserted(h, k))
  /\ issue' = [issue EXCEPT ![h] = NoRequest]
  /\ UNCHANGED <<provision, pairing, shown>>

-----------------------------------------------------------------------------
(* The console's other routes.                                             *)

\* The second approval of a deposit, the approval of a transfer and the
\* settlement of a reversal BEGIN inside their try: inside another request's
\* transaction that throws, and the catch rolls that transaction back.
ApproveMoney ==
  /\ Idle
  /\ tx # "none"
  /\ Rollback
  /\ UNCHANGED <<provision, issue, pairing, shown>>

Suspend(a) ==
  /\ Idle
  /\ db.shop[a] \notin {"NONE", "SUSPENDED"}
  /\ Write([db EXCEPT !.shop[a] = "SUSPENDED"])
  /\ UNCHANGED <<provision, issue, pairing, shown>>

Reinstate(a) ==
  /\ Idle
  /\ db.shop[a] \notin {"NONE", "ACTIVE"}
  /\ Write([db EXCEPT !.shop[a] = "ACTIVE"])
  /\ UNCHANGED <<provision, issue, pairing, shown>>

\* The remote stop has a transaction of its own.  It takes any device's number,
\* and withdraws the enrolment with the device.
StopDevice(n) ==
  /\ Idle
  /\ tx = "none"
  /\ n \in Withdrawable \cap Devices(db)
  /\ Write([db EXCEPT !.live = @ \ {n},
                      !.key[n] = IF @ = "NONE" THEN @ ELSE "REVOKED"])
  /\ UNCHANGED <<provision, issue, pairing, shown>>

\* Mutant: the enrolment comes back with the device's row.
ReinstateDeviceAndKey(n) ==
  /\ Idle
  /\ n \in Devices(db) \ db.live
  /\ Write([db EXCEPT !.live = @ \cup {n}, !.key[n] = IF @ = "NONE" THEN @ ELSE "ISSUED"])
  /\ UNCHANGED <<provision, issue, pairing, shown>>

\* The machine, "never the credential": the enrolment stays as it is.
ReinstateDevice(n) ==
  /\ Idle
  /\ n \in Devices(db) \ db.live
  /\ Write([db EXCEPT !.live = @ \cup {n}])
  /\ UNCHANGED <<provision, issue, pairing, shown>>

\* A new activation code takes the place of whatever key the device had.
IssueEnrollmentToken(n) ==
  /\ Idle
  /\ n \in Withdrawable
  /\ db.key[n] # "NONE"
  /\ Write([db EXCEPT !.key[n] = "CODE"])
  /\ UNCHANGED <<provision, issue, pairing, shown>>

\* The console process dies; what was not committed is gone.
Crash ==
  /\ Rollback
  /\ provision' = [shop |-> None, step |-> "idle"]
  /\ issue' = [h \in Handlers |-> NoRequest]
  /\ UNCHANGED <<pairing, shown>>

-----------------------------------------------------------------------------
(* POST /activate, in the merchant POS process.                            *)

\* The enrolment is read, and then the code is verified and a key derived.
RedeemToken(n) ==
  /\ saved.key[n] = "CODE"
  /\ pairing' = pairing \cup {n}
  /\ UNCHANGED <<db, saved, tx, provision, issue, shown>>

\* enrolDevice saves the key without looking at the enrolment again.
EnrolDevice(n) ==
  /\ n \in pairing
  /\ pairing' = pairing \ {n}
  /\ Elsewhere([saved EXCEPT !.key[n] = "PAIRED"])
  /\ UNCHANGED <<provision, issue, shown>>

\* The code is wrong, or the POS process dies.
DropRedemption(n) ==
  /\ n \in pairing
  /\ pairing' = pairing \ {n}
  /\ UNCHANGED <<db, saved, tx, provision, issue, shown>>

Next ==
  \/ OtherProcessWrites
  \/ ApproveMoney
  \/ Crash
  \/ \E a \in Shops :
       \/ Apply(a) \/ RegisterShop(a) \/ PickUp(a) \/ TurnDown(a) \/ Approve(a)
       \/ ClaimRegistryRow(a) \/ WriteMerchantRecord(a) \/ SetTenantActive(a)
       \/ LinkApplication(a) \/ ProvisioningThrows(a)
       \/ Suspend(a) \/ Reinstate(a)
       \/ \E h \in Handlers : OpenIssue(h, a)
  \/ \E h \in Handlers :
       \/ AskWhichToRetire(h) \/ BeginIssue(h) \/ BeginThrows(h)
       \/ CommitIssue(h) \/ IssueThrows(h) \/ SaveAlone(h)
  \/ \E n \in Numbers :
       \/ StopDevice(n) \/ ReinstateDevice(n) \/ IssueEnrollmentToken(n)
       \/ RedeemToken(n) \/ EnrolDevice(n) \/ DropRedemption(n)

Spec == Init /\ [][Next]_vars

-----------------------------------------------------------------------------
(* What it promises.                                                       *)

\* Every row and every request has a value of its kind.
TypeOK ==
  /\ db \in Rows
  /\ saved \in Rows
  /\ tx \in {"none", "reading", "writing", "stale"}
  /\ provision \in [shop : Shops \cup {None}, step : Steps]
  /\ issue \in [Handlers -> Requests]
  /\ pairing \subseteq Numbers
  /\ shown \subseteq Shops \X Numbers \X Numbers

\* provisionMerchant is five separate statements, any of which may be the last
\* before a crash.  Whichever it was: a tenant is open only if its shop exists,
\* a shop exists only behind a registry row that has not failed and an
\* application somebody approved, an application is linked only to an open
\* tenant, and a device belongs to a shop that exists, its enrolment to a
\* device that does.
Registered(rows) ==
  \A a \in Shops :
    /\ rows.shop[a] # "NONE" => rows.registry[a] \in {"PROVISIONING", "ACTIVE"}
    /\ rows.registry[a] = "ACTIVE" => rows.shop[a] # "NONE"
    /\ rows.registry[a] # "NONE" => rows.app[a] \in {"APPROVED", "DEVICE_PENDING"}
    /\ rows.app[a] = "DEVICE_PENDING" => rows.registry[a] = "ACTIVE"
    /\ a \in {rows.owner[n] : n \in Numbers} => rows.shop[a] # "NONE"
    /\ \A n \in Numbers : rows.key[n] # "NONE" => rows.owner[n] # None

\* All of that, of the committed rows: what another process reads and what a
\* restart finds.
ShopIsRegistered == Registered(saved)

\* A handed-over key goes when it is revoked or a code takes its place; a key
\* from a redeemed code follows only on that; none of them brings it back.
StaysOrIsWithdrawn(was, is) ==
  \/ is = was
  \/ is \in {"REVOKED", "CODE"}
  \/ is = "PAIRED" /\ was # "ISSUED"

\* Credentials an admin is shown are committed whole at that moment, key
\* included, no matter whose transaction carried them, and although two requests
\* may compute the same device number.  From then on the device is still that
\* shop's, the operator exists and the shop is past ONBOARDING; and the key is
\* the one that was shown until a remote stop or a new activation code has
\* withdrawn it, after which it never is again: not by a reinstatement, nor by
\* another issue, a redemption, a rollback or a crash.
HandoverWorks ==
  [][/\ \A p \in shown' :
          /\ saved'.owner[p[2]] = p[1]
          /\ p[3] \in saved'.operator
          /\ saved'.shop[p[1]] \in {"ACTIVE", "SUSPENDED"}
     /\ \A p \in shown' \ shown : saved'.key[p[2]] = "ISSUED"
     /\ \A p \in shown : StaysOrIsWithdrawn(saved.key[p[2]], saved'.key[p[2]])]_vars

\* What is committed is not taken back by a crash, a rollback or another
\* review: an application turned down or provisioned stays so, a shop does not
\* disappear, a registry row is not claimed again.
DecisionStands ==
  [][\A a \in Shops :
       /\ saved.app[a] \in {"CLOSED", "DRAFT", "DEVICE_PENDING"} => saved'.app[a] = saved.app[a]
       /\ saved.shop[a] # "NONE" => saved'.shop[a] \notin {"NONE", "ONBOARDING"}
                                    \/ saved'.shop[a] = saved.shop[a]
       /\ saved.registry[a] \in {"ACTIVE", "FAILED"} => saved'.registry[a] = saved.registry[a]]_vars

\* "Inside the same transaction, so a shop is never left holding credentials it
\* cannot use": every device a shop has was handed over with its key.
IssuedIsHandedOver ==
  \A n \in Devices(saved) : \E p \in shown : p[2] = n
=============================================================================
