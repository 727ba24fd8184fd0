-------------------------- MODULE OnboardingProofs --------------------------
(***************************************************************************)
(* Proofs about Onboarding, for any number of shops, requests and numbers. *)
(***************************************************************************)
EXTENDS Onboarding, WellFoundedInduction, TLAPS

-----------------------------------------------------------------------------
(* The next device or operator number.                                     *)

\* A set of numbers below the bound has a highest one, or is empty.
LEMMA HighestExists ==
  ASSUME NEW S \in SUBSET Numbers
  PROVE  /\ Highest(S) \in S \cup {0}
         /\ \A k \in S : k <= Highest(S)
<1> DEFINE U == {n \in Nat : \A k \in S : k <= n}
<1>1. MaxNumber \in U
  BY OnboardingAssumption DEF Numbers
<1>2. PICK u \in U : \A m \in U : u <= m
  <2> HIDE DEF U
  <2>1. U \subseteq Nat /\ U # {}
    BY <1>1 DEF U
  <2>2. PICK u \in U : \A m \in U : <<m, u>> \notin OpToRel(<, Nat)
    BY <2>1, NatLessThanWellFounded, WFMin
  <2>3. \A m \in U : ~ (m < u)
    BY <2>1, <2>2 DEF OpToRel
  <2> QED
    BY <2>1, <2>3
<1>3. u \in S \cup {0}
  <2> SUFFICES ASSUME u \notin S, u # 0
               PROVE  FALSE
    OBVIOUS
  <2>1. u - 1 \in Nat
    BY <1>2
  <2>2. \A k \in S : k <= u - 1
    <3> TAKE k \in S
    <3>1. k \in Nat /\ k <= u /\ k # u /\ u \in Nat
      BY <1>2, OnboardingAssumption DEF Numbers
    <3> QED
      BY <3>1
  <2>3. u - 1 \in U
    BY <2>1, <2>2
  <2> QED
    BY <1>2, <2>3
<1>4. \A k \in S : k <= u
  BY <1>2
<1> QED
  BY <1>3, <1>4 DEF Highest

\* The next device number is one, as long as the last is not given out.
LEMMA NextNumberIsANumber ==
  ASSUME NEW S \in SUBSET Numbers, MaxNumber \notin S
  PROVE  NextNumber(S) \in Numbers
<1>1. Highest(S) \in S \cup {0}
  BY HighestExists
<1>2. Highest(S) \in 0 .. MaxNumber /\ Highest(S) # MaxNumber
  <2>1. MaxNumber \in Nat /\ MaxNumber # 0
    BY OnboardingAssumption
  <2>2. CASE Highest(S) = 0
    BY <2>1, <2>2
  <2>3. CASE Highest(S) \in S
    <3>1. Highest(S) \in 1 .. MaxNumber
      BY <2>3 DEF Numbers
    <3>2. Highest(S) # MaxNumber
      BY <2>3
    <3> QED
      BY <2>1, <3>1, <3>2
  <2> QED
    BY <1>1, <2>2, <2>3
<1> QED
  BY <1>2, OnboardingAssumption DEF NextNumber, Numbers

-----------------------------------------------------------------------------
(* The invariant.                                                          *)

\* What is committed and final, and stays when `rows` becomes `next`.
Settled(rows, next) ==
  \A a \in Shops :
    /\ rows.app[a] \in {"CLOSED", "DRAFT", "DEVICE_PENDING"} => next.app[a] = rows.app[a]
    /\ rows.shop[a] # "NONE" => next.shop[a] \notin {"NONE", "ONBOARDING"}
                                \/ next.shop[a] = rows.shop[a]
    /\ rows.registry[a] \in {"ACTIVE", "FAILED"} => next.registry[a] = rows.registry[a]

\* What the console's own statements make of `rows`: they revoke keys and
\* replace them by codes, and bring none back.
Follows(rows, next) ==
  /\ Settled(rows, next)
  /\ \A n \in Numbers : rows.key[n] # "NONE" =>
       next.key[n] \in {rows.key[n], "REVOKED", "CODE"}

\* What any process makes of the committed rows: a code may be redeemed too.
Stands(rows, next) ==
  /\ Settled(rows, next)
  /\ \A n \in Numbers : rows.key[n] # "NONE" => StaysOrIsWithdrawn(rows.key[n], next.key[n])

\* Where the handler that provisions a shop stands, its own rows stand too.
Provisioning ==
  /\ provision.step = "idle" <=> provision.shop = None
  /\ provision.step # "idle" => tx \in {"none", "writing"}
  /\ provision.step = "approve" => db.app[provision.shop] = "SUBMITTED"
  /\ provision.step = "claim" =>
       db.app[provision.shop] = "APPROVED" /\ db.registry[provision.shop] = "NONE"
  /\ provision.step = "merchant" =>
       db.registry[provision.shop] = "PROVISIONING" /\ db.shop[provision.shop] = "NONE"
  /\ provision.step = "activate" =>
       db.registry[provision.shop] = "PROVISIONING" /\ db.shop[provision.shop] # "NONE"
  /\ provision.step = "link" => db.registry[provision.shop] = "ACTIVE"

\* A request past its form has a shop, and past BEGIN its two numbers.
Issuing ==
  \A h \in Handlers :
    /\ issue[h].at # "idle" => issue[h].shop \in Shops
    /\ issue[h].at = "deriving" => issue[h].device \in Numbers /\ issue[h].operator \in Numbers

\* A redemption in progress has seen a code, so the key is no longer the first.
Pairing == \A n \in pairing : saved.key[n] \notin {"NONE", "ISSUED"}

\* The credentials on the screens, as `rows` has them.
Handed(rows) ==
  \A p \in shown :
    /\ rows.owner[p[2]] = p[1]
    /\ rows.key[p[2]] # "NONE"
    /\ p[3] \in rows.operator
    /\ rows.shop[p[1]] \in {"ACTIVE", "SUSPENDED"}

\* The connection's view and the committed rows are both sound, they agree
\* outside a transaction, and a transaction that may commit takes nothing back.
Register ==
  /\ TypeOK
  /\ Provisioning
  /\ Issuing
  /\ Pairing
  /\ Registered(db)
  /\ Registered(saved)
  /\ Handed(db)
  /\ Handed(saved)
  /\ tx = "none" => db = saved
  /\ tx # "stale" => Follows(saved, db)

\* Rows of the right kind, put into rows of the right kind.
LEMMA RowsStay ==
  ASSUME NEW rows \in Rows,
         NEW w \in [Numbers -> Shops \cup {None}],
         NEW l \in SUBSET Numbers, NEW kd \in [Numbers -> Keys], NEW op \in SUBSET Numbers,
         NEW st \in [Shops -> {"NONE", "ONBOARDING", "ACTIVE", "SUSPENDED"}]
  PROVE  [rows EXCEPT !.owner = w, !.live = l, !.key = kd, !.operator = op, !.shop = st]
           \in Rows
BY DEF Rows

\* Tables that do not change are a legal continuation of themselves.
LEMMA FollowsItself == ASSUME NEW rows PROVE Follows(rows, rows)
BY DEF Follows, Settled

\* What the console's statements may do, any process may.
LEMMA FollowsStands == ASSUME NEW r, NEW s, Follows(r, s) PROVE Stands(r, s)
BY DEF Follows, Stands, StaysOrIsWithdrawn

\* One legal continuation after another is one.
LEMMA FollowsOn ==
  ASSUME NEW r \in Rows, NEW s \in Rows, NEW t \in Rows, Follows(r, s), Follows(s, t)
  PROVE  Follows(r, t)
<1>1. Settled(r, s) /\ Settled(s, t)
  BY DEF Follows
<1>2. Settled(r, t)
  BY <1>1, Zenon DEF Settled
<1>3. ASSUME NEW n \in Numbers, r.key[n] # "NONE"
      PROVE  t.key[n] \in {r.key[n], "REVOKED", "CODE"}
  <2>1. s.key[n] \in {r.key[n], "REVOKED", "CODE"}
    BY <1>3 DEF Follows
  <2>2. t.key[n] \in {s.key[n], "REVOKED", "CODE"}
    BY <1>3, <2>1 DEF Follows
  <2> QED
    BY <2>1, <2>2
<1> QED
  BY <1>2, <1>3 DEF Follows

\* An empty registry is in order.
LEMMA InitRegister == Init => Register
<1> SUFFICES ASSUME Init PROVE Register
  OBVIOUS
<1> USE OnboardingAssumption
<1>1. TypeOK
  BY DEF Init, TypeOK, Rows, Keys, Requests, NoRequest, Steps
<1>2. Provisioning /\ Issuing /\ Pairing
  BY DEF Init, Provisioning, Issuing, Pairing, NoRequest
<1>3. Registered(db) /\ Handed(db)
  BY DEF Init, Registered, Handed
<1>4. db = saved
  BY DEF Init
<1> QED
  BY <1>1, <1>2, <1>3, <1>4, FollowsItself DEF Register

-----------------------------------------------------------------------------
(* How the connection preserves it.                                        *)

\* Rows, as far as the invariant speaks of them.
Sound(rows) == rows \in Rows /\ Registered(rows) /\ Handed(rows)

\* What a step keeps of the invariant, and of what was committed before it.
Kept ==
  /\ db' \in Rows
  /\ saved' \in Rows
  /\ tx' \in {"none", "reading", "writing", "stale"}
  /\ Registered(db')
  /\ Registered(saved')
  /\ Handed(db')
  /\ Handed(saved')
  /\ tx' = "none" => db' = saved'
  /\ tx' # "stale" => Follows(saved', db')
  /\ Stands(saved, saved')

\* A statement on the console's connection, inside a transaction or not.
LEMMA WriteKeeps ==
  ASSUME Register, NEW rows, Sound(rows), Follows(db, rows), Write(rows)
  PROVE  Kept
<1>1. db' = rows /\ saved' \in {rows, saved} /\ tx # "stale"
  BY DEF Write
<1>2. tx' = "none" => db' = saved'
  BY DEF Write
<1>3. db' \in Rows /\ saved' \in Rows
  BY <1>1 DEF Sound, Register, TypeOK
<1>4. Registered(db') /\ Registered(saved')
  BY <1>1 DEF Sound, Register
<1>5. Handed(db') /\ Handed(saved')
  BY <1>1 DEF Sound, Register
<1>6. tx' \in {"none", "reading", "writing", "stale"}
  BY DEF Write
<1>7. Follows(saved, db)
  BY <1>1 DEF Register
<1>8. Follows(saved, rows)
  BY <1>7, FollowsOn DEF Sound, Register, TypeOK
<1>9. Stands(saved, saved')
  BY <1>1, <1>8, FollowsItself, FollowsStands
<1>10. Follows(saved', db')
  BY <1>1, <1>8, FollowsItself
<1> QED
  BY <1>2, <1>3, <1>4, <1>5, <1>6, <1>9, <1>10 DEF Kept

\* A transaction is opened and writes.
LEMMA BeginKeeps ==
  ASSUME Register, NEW rows, Sound(rows), Follows(db, rows), Begin(rows)
  PROVE  Kept
<1>1. db' = rows /\ saved' = rows /\ tx' = "reading" /\ saved = db
  BY DEF Begin, Register
<1> QED
  BY <1>1, FollowsItself, FollowsStands DEF Kept, Sound

\* A commit inside a transaction that may write.
LEMMA CommitKeeps ==
  ASSUME Register, NEW rows, rows \in Rows, Registered(rows), Follows(db, rows),
         tx # "stale", Commit(rows)
  PROVE  /\ db' \in Rows /\ saved' \in Rows /\ tx' = "none"
         /\ Registered(db') /\ Registered(saved')
         /\ db' = rows /\ saved' = rows
         /\ Follows(saved', db')
         /\ Stands(saved, saved')
<1>1. db' = rows /\ saved' = rows /\ tx' = "none"
  BY DEF Commit
<1>2. Follows(saved, db)
  BY DEF Register
<1>3. Follows(saved, rows)
  BY <1>2, FollowsOn DEF Register, TypeOK
<1> QED
  BY <1>1, <1>3, FollowsItself, FollowsStands

\* Tables fall back to what was committed.
LEMMA RollbackKeeps ==
  ASSUME Register, Rollback
  PROVE  Kept
<1>1. db' = saved /\ saved' = saved /\ tx' = "none"
  BY DEF Rollback
<1> QED
  BY <1>1, FollowsItself, FollowsStands DEF Kept, Register, TypeOK

\* Another process commits.
LEMMA ElsewhereKeeps ==
  ASSUME Register, NEW rows, Sound(rows), Stands(saved, rows), Elsewhere(rows)
  PROVE  Kept
<1>1. saved' = rows
  BY DEF Elsewhere
<1>2. CASE tx = "none"
  <2>1. db' = rows /\ tx' = "none"
    BY <1>2 DEF Elsewhere
  <2> QED
    BY <1>1, <2>1, FollowsItself DEF Kept, Sound
<1>3. CASE tx # "none"
  <2>1. db' = db /\ tx' = "stale"
    BY <1>3 DEF Elsewhere
  <2> QED
    BY <1>1, <2>1 DEF Kept, Sound, Register, TypeOK
<1> QED
  BY <1>2, <1>3

\* A step that leaves the tables and the connection alone.
LEMMA NothingKeeps ==
  ASSUME Register, UNCHANGED <<db, saved, tx>>
  PROVE  Kept
BY FollowsItself, FollowsStands DEF Kept, Register, TypeOK

-----------------------------------------------------------------------------
(* The edits.                                                              *)

AppStates == {"NONE", "SUBMITTED", "UNDER_REVIEW", "DRAFT", "APPROVED",
              "DEVICE_PENDING", "CLOSED"}

\* An application's row is edited, and no other table.
LEMMA AppEdit ==
  ASSUME NEW r \in Rows, NEW a \in Shops, NEW x \in AppStates
  PROVE  /\ [r EXCEPT !.app[a] = x] \in Rows
         /\ [r EXCEPT !.app[a] = x].app = [r.app EXCEPT ![a] = x]
         /\ [r EXCEPT !.app[a] = x].registry = r.registry
         /\ [r EXCEPT !.app[a] = x].shop = r.shop
         /\ [r EXCEPT !.app[a] = x].owner = r.owner
         /\ [r EXCEPT !.app[a] = x].key = r.key
         /\ [r EXCEPT !.app[a] = x].operator = r.operator
BY DEF Rows, AppStates

\* A registry row is edited, and no other table.
LEMMA RegistryEdit ==
  ASSUME NEW r \in Rows, NEW a \in Shops, NEW x \in {"PROVISIONING", "ACTIVE", "FAILED"}
  PROVE  /\ [r EXCEPT !.registry[a] = x] \in Rows
         /\ [r EXCEPT !.registry[a] = x].app = r.app
         /\ [r EXCEPT !.registry[a] = x].registry = [r.registry EXCEPT ![a] = x]
         /\ [r EXCEPT !.registry[a] = x].shop = r.shop
         /\ [r EXCEPT !.registry[a] = x].owner = r.owner
         /\ [r EXCEPT !.registry[a] = x].key = r.key
         /\ [r EXCEPT !.registry[a] = x].operator = r.operator
BY DEF Rows

\* A merchant's row is edited, and no other table.
LEMMA ShopEdit ==
  ASSUME NEW r \in Rows, NEW a \in Shops, NEW x \in {"ONBOARDING", "ACTIVE", "SUSPENDED"}
  PROVE  /\ [r EXCEPT !.shop[a] = x] \in Rows
         /\ [r EXCEPT !.shop[a] = x].app = r.app
         /\ [r EXCEPT !.shop[a] = x].registry = r.registry
         /\ [r EXCEPT !.shop[a] = x].shop = [r.shop EXCEPT ![a] = x]
         /\ [r EXCEPT !.shop[a] = x].owner = r.owner
         /\ [r EXCEPT !.shop[a] = x].key = r.key
         /\ [r EXCEPT !.shop[a] = x].operator = r.operator
BY DEF Rows

\* Devices are stopped, reinstated and given codes: no key is made up, and none
\* comes back.
LEMMA DeviceEdit ==
  ASSUME NEW r \in Rows, NEW S \in SUBSET Numbers, NEW kd \in [Numbers -> Keys],
         \A n \in Numbers : \/ kd[n] = r.key[n]
                            \/ r.key[n] # "NONE" /\ kd[n] \in {"REVOKED", "CODE"},
         Registered(r), Handed(r), shown \subseteq Shops \X Numbers \X Numbers
  PROVE  /\ Sound([r EXCEPT !.live = S, !.key = kd])
         /\ Follows(r, [r EXCEPT !.live = S, !.key = kd])
<1> DEFINE s == [r EXCEPT !.live = S, !.key = kd]
<1>1. s \in Rows /\ s.app = r.app /\ s.registry = r.registry /\ s.shop = r.shop
      /\ s.owner = r.owner /\ s.key = kd /\ s.operator = r.operator
  BY DEF Rows
<1> HIDE DEF s
<1>2. Registered(s)
  BY <1>1 DEF Registered
<1>3. Handed(s)
  <2>1. \A p \in shown : p[2] \in Numbers
    OBVIOUS
  <2> QED
    BY <1>1, <2>1 DEF Handed
<1>4. Follows(r, s)
  BY <1>1 DEF Follows, Settled
<1>5. Sound(s) /\ Follows(r, s)
  BY <1>1, <1>2, <1>3, <1>4 DEF Sound
<1> QED
  BY <1>5 DEF s

\* An application that is not decided moves while no tenant stands behind it,
\* and becomes DEVICE_PENDING once the tenant is open.
LEMMA AppMoves ==
  ASSUME NEW r \in Rows, NEW a \in Shops, NEW x \in AppStates, Registered(r), Handed(r),
         \/ /\ r.registry[a] = "NONE"
            /\ r.app[a] \notin {"CLOSED", "DRAFT", "DEVICE_PENDING"}
            /\ x # "DEVICE_PENDING"
         \/ r.registry[a] = "ACTIVE" /\ x = "DEVICE_PENDING"
  PROVE  /\ Sound([r EXCEPT !.app[a] = x])
         /\ Follows(r, [r EXCEPT !.app[a] = x])
<1> DEFINE s == [r EXCEPT !.app[a] = x]
<1>1. s \in Rows /\ s.app = [r.app EXCEPT ![a] = x] /\ s.registry = r.registry
      /\ s.shop = r.shop /\ s.owner = r.owner /\ s.key = r.key /\ s.operator = r.operator
  BY AppEdit
<1>2. \A b \in Shops : s.app[b] = IF b = a THEN x ELSE r.app[b]
  BY <1>1 DEF Rows
<1> HIDE DEF s
<1>3. Registered(s)
  BY <1>1, <1>2 DEF Registered
<1>4. Handed(s)
  BY <1>1 DEF Handed
<1>5. Follows(r, s)
  BY <1>1, <1>2 DEF Follows, Settled, Registered
<1>6. Sound(s) /\ Follows(r, s)
  BY <1>1, <1>3, <1>4, <1>5 DEF Sound
<1> QED
  BY <1>6 DEF s

\* The tenant is claimed for an approved application, opened once its shop
\* exists, or failed before it does.
LEMMA RegistryMoves ==
  ASSUME NEW r \in Rows, NEW a \in Shops, NEW x \in {"PROVISIONING", "ACTIVE", "FAILED"},
         Registered(r), Handed(r),
         \/ r.registry[a] = "NONE" /\ r.app[a] = "APPROVED" /\ x = "PROVISIONING"
         \/ r.registry[a] = "PROVISIONING" /\ r.shop[a] # "NONE" /\ x = "ACTIVE"
         \/ r.registry[a] = "PROVISIONING" /\ r.shop[a] = "NONE" /\ x = "FAILED"
  PROVE  /\ Sound([r EXCEPT !.registry[a] = x])
         /\ Follows(r, [r EXCEPT !.registry[a] = x])
<1> DEFINE s == [r EXCEPT !.registry[a] = x]
<1>1. s \in Rows /\ s.app = r.app /\ s.registry = [r.registry EXCEPT ![a] = x]
      /\ s.shop = r.shop /\ s.owner = r.owner /\ s.key = r.key /\ s.operator = r.operator
  BY RegistryEdit
<1>2. \A b \in Shops : s.registry[b] = IF b = a THEN x ELSE r.registry[b]
  BY <1>1 DEF Rows
<1> HIDE DEF s
<1>3. Registered(s)
  BY <1>1, <1>2 DEF Registered
<1>4. Handed(s)
  BY <1>1 DEF Handed
<1>5. Follows(r, s)
  BY <1>1, <1>2 DEF Follows, Settled
<1>6. Sound(s) /\ Follows(r, s)
  BY <1>1, <1>3, <1>4, <1>5 DEF Sound
<1> QED
  BY <1>6 DEF s

\* A shop appears behind its claimed tenant, and is then suspended or active.
LEMMA ShopMoves ==
  ASSUME NEW r \in Rows, NEW a \in Shops, NEW x \in {"ONBOARDING", "ACTIVE", "SUSPENDED"},
         Registered(r), Handed(r), shown \subseteq Shops \X Numbers \X Numbers,
         \/ r.shop[a] = "NONE" /\ r.registry[a] = "PROVISIONING" /\ x = "ONBOARDING"
         \/ r.shop[a] # "NONE" /\ x # "ONBOARDING"
  PROVE  /\ Sound([r EXCEPT !.shop[a] = x])
         /\ Follows(r, [r EXCEPT !.shop[a] = x])
<1> DEFINE s == [r EXCEPT !.shop[a] = x]
<1>1. s \in Rows /\ s.app = r.app /\ s.registry = r.registry
      /\ s.shop = [r.shop EXCEPT ![a] = x] /\ s.owner = r.owner /\ s.key = r.key
      /\ s.operator = r.operator
  BY ShopEdit
<1>2. \A b \in Shops : s.shop[b] = IF b = a THEN x ELSE r.shop[b]
  BY <1>1 DEF Rows
<1> HIDE DEF s
<1>3. Registered(s)
  BY <1>1, <1>2 DEF Registered
<1>4. Handed(s)
  <2> SUFFICES ASSUME NEW p \in shown
               PROVE  s.shop[p[1]] \in {"ACTIVE", "SUSPENDED"}
    BY <1>1 DEF Handed
  <2>1. p[1] \in Shops /\ r.shop[p[1]] \in {"ACTIVE", "SUSPENDED"}
    BY DEF Handed
  <2> QED
    BY <1>2, <2>1
<1>5. Follows(r, s)
  BY <1>1, <1>2 DEF Follows, Settled
<1>6. Sound(s) /\ Follows(r, s)
  BY <1>1, <1>3, <1>4, <1>5 DEF Sound
<1> QED
  BY <1>6 DEF s

\* The four statements that issue credentials, or the first k of them.
LEMMA Inserts ==
  ASSUME Register, NEW h \in Handlers, issue[h].at = "deriving", NEW k \in 0 .. Accepted(h)
  PROVE  /\ Sound(Inserted(h, k))
         /\ Follows(db, Inserted(h, k))
         /\ k = 4 => /\ Inserted(h, k).owner[issue[h].device] = issue[h].shop
                     /\ Inserted(h, k).key[issue[h].device] = "ISSUED"
                     /\ issue[h].operator \in Inserted(h, k).operator
                     /\ Inserted(h, k).shop[issue[h].shop] \in {"ACTIVE", "SUSPENDED"}
<1> DEFINE s == Inserted(h, k)
           d == issue[h].device
           o == issue[h].operator
           a == issue[h].shop
<1>1. d \in Numbers /\ o \in Numbers /\ a \in Shops
  BY DEF Register, Issuing
<1>2. db \in Rows
  BY DEF Register, TypeOK
<1>3. k \in Nat /\ (k >= 1 => db.owner[d] = None /\ db.shop[a] # "NONE" /\ db.key[d] = "NONE")
  <2>1. Accepted(h) \in {0, 2, 4}
    BY DEF Accepted
  <2>2. k \in Nat /\ (k >= 1 => Accepted(h) # 0)
    BY <2>1
  <2>3. Accepted(h) # 0 => d \notin Devices(db) /\ db.shop[a] # "NONE"
    BY DEF Accepted
  <2> QED
    BY <1>1, <2>2, <2>3 DEF Devices, Register, Registered
<1> DEFINE shop4 == IF k >= 4 /\ db.shop[a] = "ONBOARDING" THEN "ACTIVE" ELSE db.shop[a]
<1>4. /\ s \in Rows
      /\ s.app = db.app /\ s.registry = db.registry
      /\ s.owner = [db.owner EXCEPT ![d] = IF k >= 1 THEN a ELSE db.owner[d]]
      /\ s.key = [db.key EXCEPT ![d] = IF k >= 2 THEN "ISSUED" ELSE db.key[d]]
      /\ s.operator = IF k >= 3 THEN db.operator \cup {o} ELSE db.operator
      /\ s.shop = [db.shop EXCEPT ![a] = shop4]
  <2>1. /\ s.app = db.app /\ s.registry = db.registry
        /\ s.operator = IF k >= 3 THEN db.operator \cup {o} ELSE db.operator
    BY <1>2 DEF Inserted, Rows
  <2>2. /\ s.owner = [db.owner EXCEPT ![d] = IF k >= 1 THEN a ELSE db.owner[d]]
        /\ s.key = [db.key EXCEPT ![d] = IF k >= 2 THEN "ISSUED" ELSE db.key[d]]
        /\ s.shop = [db.shop EXCEPT ![a] = shop4]
    BY <1>1, <1>2 DEF Inserted, Rows
  <2>3. s \in Rows
    <3>1. s.live \in SUBSET Numbers
      BY <1>1, <1>2 DEF Inserted, Rows
    <3>2. s.key \in [Numbers -> Keys] /\ s.operator \in SUBSET Numbers
      BY <1>1, <1>2, <2>1, <2>2 DEF Rows, Keys
    <3>3. s.owner \in [Numbers -> Shops \cup {None}]
      BY <1>1, <1>2, <2>2 DEF Rows
    <3>4. s.shop \in [Shops -> {"NONE", "ONBOARDING", "ACTIVE", "SUSPENDED"}]
      BY <1>1, <1>2, <2>2 DEF Rows
    <3>5. s = [db EXCEPT !.owner = s.owner, !.live = s.live, !.key = s.key,
                         !.operator = s.operator, !.shop = s.shop]
      BY <1>2 DEF Inserted, Rows
    <3> HIDE DEF s
    <3>6. [db EXCEPT !.owner = s.owner, !.live = s.live, !.key = s.key,
                     !.operator = s.operator, !.shop = s.shop] \in Rows
      BY <1>2, <3>1, <3>2, <3>3, <3>4, RowsStay, Zenon
    <3> QED
      BY <3>5, <3>6, Zenon
  <2> QED
    BY <2>1, <2>2, <2>3
<1>5. \A b \in Shops : s.shop[b] = IF b = a THEN shop4 ELSE db.shop[b]
  BY <1>1, <1>2, <1>4 DEF Rows
<1>6. \A n \in Numbers : s.owner[n] = IF n = d /\ k >= 1 THEN a ELSE db.owner[n]
  BY <1>1, <1>2, <1>4 DEF Rows
<1>13. \A n \in Numbers : s.key[n] = IF n = d /\ k >= 2 THEN "ISSUED" ELSE db.key[n]
  BY <1>1, <1>2, <1>4 DEF Rows
<1>7. shop4 = "NONE" <=> db.shop[a] = "NONE"
  OBVIOUS
<1> HIDE DEF s, d, o, a, shop4
<1>8. Registered(s)
  <2>1. Registered(db)
    BY DEF Register
  <2>2. ASSUME NEW b \in Shops
        PROVE  s.shop[b] = "NONE" <=> db.shop[b] = "NONE"
    BY <1>5, <1>7, <2>2
  <2>3. ASSUME NEW b \in Shops, b \in {s.owner[n] : n \in Numbers}
        PROVE  s.shop[b] # "NONE"
    <3>1. PICK n \in Numbers : b = s.owner[n]
      BY <2>3
    <3>2. CASE n = d /\ k >= 1
      BY <1>3, <1>6, <2>2, <3>1, <3>2
    <3>3. CASE ~ (n = d /\ k >= 1)
      <4>1. b \in {db.owner[m] : m \in Numbers}
        BY <1>6, <3>1, <3>3
      <4> QED
        BY <2>1, <2>2, <4>1 DEF Registered
    <3> QED
      BY <3>2, <3>3
  <2>4. ASSUME NEW n \in Numbers, s.key[n] # "NONE"
        PROVE  s.owner[n] # None
    <3>1. CASE n = d /\ k >= 1
      BY <1>1, <1>6, <3>1, OnboardingAssumption
    <3>2. CASE ~ (n = d /\ k >= 1)
      <4>1. s.key[n] = db.key[n] /\ s.owner[n] = db.owner[n]
        BY <1>3, <1>6, <1>13, <3>2
      <4> QED
        BY <1>1, <2>1, <2>4, <4>1 DEF Registered
    <3> QED
      BY <3>1, <3>2
  <2> QED
    BY <1>4, <2>1, <2>2, <2>3, <2>4 DEF Registered
<1>9. Handed(s)
  <2> SUFFICES ASSUME NEW p \in shown
               PROVE  /\ s.owner[p[2]] = p[1]
                      /\ s.key[p[2]] # "NONE"
                      /\ p[3] \in s.operator
                      /\ s.shop[p[1]] \in {"ACTIVE", "SUSPENDED"}
    BY DEF Handed
  <2>1. p[1] \in Shops /\ p[2] \in Numbers
    BY DEF Register, TypeOK
  <2>2. /\ db.owner[p[2]] = p[1]
        /\ db.key[p[2]] # "NONE"
        /\ p[3] \in db.operator
        /\ db.shop[p[1]] \in {"ACTIVE", "SUSPENDED"}
    BY DEF Register, Handed
  <2>3. ~ (p[2] = d /\ k >= 1)
    BY <1>3, <2>1, <2>2, OnboardingAssumption
  <2>4. s.owner[p[2]] = p[1]
    BY <1>6, <2>1, <2>2, <2>3
  <2>5. s.shop[p[1]] \in {"ACTIVE", "SUSPENDED"}
    BY <1>5, <2>1, <2>2 DEF shop4
  <2> QED
    BY <1>4, <1>13, <2>1, <2>2, <2>4, <2>5
<1>10. Follows(db, s)
  <2>1. Settled(db, s)
    BY <1>4, <1>5 DEF Settled, shop4
  <2>2. \A n \in Numbers : db.key[n] # "NONE" => s.key[n] = db.key[n]
    BY <1>3, <1>13
  <2> QED
    BY <2>1, <2>2 DEF Follows
<1>11. Sound(s)
  BY <1>4, <1>8, <1>9 DEF Sound
<1>12. ASSUME k = 4
       PROVE  s.owner[d] = a /\ s.key[d] = "ISSUED" /\ o \in s.operator
              /\ s.shop[a] \in {"ACTIVE", "SUSPENDED"}
  <2>1. db.shop[a] \in {"ONBOARDING", "ACTIVE", "SUSPENDED"}
    BY <1>1, <1>2, <1>3, <1>12 DEF Rows
  <2> QED
    BY <1>1, <1>4, <1>5, <1>6, <1>12, <1>13, <2>1 DEF shop4
<1> QED
  BY <1>10, <1>11, <1>12 DEF s, d, o, a

-----------------------------------------------------------------------------
(* Every step.                                                             *)

\* What is left to show of a step that keeps the rows.
Rest ==
  /\ provision' \in [shop : Shops \cup {None}, step : Steps]
  /\ issue' \in [Handlers -> Requests]
  /\ pairing' \subseteq pairing \cup {n \in Numbers : saved.key[n] = "CODE"}
  /\ shown' = shown
  /\ Provisioning'
  /\ Issuing'

\* Tables kept in order and requests kept in order make the invariant.
LEMMA KeptIsRegister ==
  ASSUME Register, Kept, Rest
  PROVE  Register' /\ Stands(saved, saved')
<1>1. TypeOK'
  BY DEF Register, Kept, Rest, TypeOK
<1>2. Handed(db)' /\ Handed(saved)'
  BY DEF Kept, Rest, Handed
<1>3. Registered(db)' /\ Registered(saved)' /\ (tx # "stale" => Follows(saved, db))'
  BY DEF Kept, Registered, Follows, Settled
<1>4. Pairing'
  <2> SUFFICES ASSUME NEW n \in pairing'
               PROVE  saved'.key[n] \notin {"NONE", "ISSUED"}
    BY DEF Pairing
  <2>1. n \in Numbers /\ saved.key[n] \notin {"NONE", "ISSUED"}
    BY DEF Rest, Register, Pairing, TypeOK
  <2>2. StaysOrIsWithdrawn(saved.key[n], saved'.key[n])
    BY <2>1 DEF Kept, Stands
  <2> QED
    BY <2>1, <2>2 DEF StaysOrIsWithdrawn
<1> QED
  BY <1>1, <1>2, <1>3, <1>4 DEF Register, Kept, Rest

\* A handler that leaves the requests alone and no provisioning in progress.
LEMMA IdleRest ==
  ASSUME Register, Idle, UNCHANGED <<provision, issue, pairing, shown>>
  PROVE  Rest
<1>1. provision'.step = "idle" /\ provision'.shop = None
  BY DEF Idle
<1>2. Provisioning'
  BY <1>1 DEF Provisioning
<1> QED
  BY <1>2 DEF Rest, Register, TypeOK, Issuing

\* A request for credentials that ends, with no provisioning in progress.
LEMMA EndedRest ==
  ASSUME Register, Idle, NEW h \in Handlers, UNCHANGED <<provision, pairing, shown>>,
         issue' = [issue EXCEPT ![h] = NoRequest]
  PROVE  Rest
<1>1. provision'.step = "idle" /\ provision'.shop = None
  BY DEF Idle
<1>2. Provisioning'
  BY <1>1 DEF Provisioning
<1>3. NoRequest \in Requests
  BY DEF NoRequest, Requests
<1>4. issue' \in [Handlers -> Requests]
  BY <1>3 DEF Register, TypeOK
<1>5. \A g \in Handlers : issue'[g] = IF g = h THEN NoRequest ELSE issue[g]
  BY DEF Register, TypeOK
<1>6. Issuing'
  BY <1>5 DEF Issuing, Register, NoRequest
<1> QED
  BY <1>2, <1>4, <1>6 DEF Rest, Register, TypeOK

\* A step of provisioning, or its end.
LEMMA ProvisioningRest ==
  ASSUME Register, UNCHANGED <<issue, pairing, shown>>,
         provision' \in [shop : Shops \cup {None}, step : Steps], Provisioning'
  PROVE  Rest
BY DEF Rest, Register, TypeOK, Issuing

\* Filing and reviewing applications.
LEMMA Applications ==
  ASSUME Register, NEW a \in Shops,
         Apply(a) \/ RegisterShop(a) \/ PickUp(a) \/ TurnDown(a) \/ Approve(a)
  PROVE  Kept /\ Rest
<1>1. db \in Rows /\ saved \in Rows /\ Registered(db) /\ Registered(saved)
      /\ Handed(db) /\ Handed(saved)
  BY DEF Register, TypeOK
<1>2. CASE Apply(a)
  <2> DEFINE rows == [saved EXCEPT !.app[a] = "SUBMITTED"]
  <2>1. saved.app[a] = "NONE" /\ Elsewhere(rows) /\ UNCHANGED <<provision, issue, pairing, shown>>
    BY <1>2 DEF Apply
  <2>2. saved.registry[a] = "NONE"
    BY <1>1, <2>1 DEF Registered
  <2>3. Sound(rows) /\ Stands(saved, rows)
    BY <1>1, <2>1, <2>2, AppMoves, FollowsStands DEF AppStates
  <2>4. Kept
    BY <2>1, <2>3, ElsewhereKeeps
  <2>5. Provisioning'
    <3>1. CASE provision.step = "idle"
      BY <2>1, <3>1 DEF Register, Provisioning
    <3>2. CASE provision.step # "idle"
      <4>1. tx = "none" /\ tx' = "none" /\ db = saved
        BY <2>1, <3>2 DEF Register, Provisioning, Elsewhere
      <4>2. db' = rows /\ provision.shop \in Shops
        BY <2>1, <3>2, <4>1 DEF Elsewhere, Register, Provisioning, TypeOK
      <4>3. db'.registry = db.registry /\ db'.shop = db.shop
            /\ db'.app = [db.app EXCEPT ![a] = "SUBMITTED"]
        BY <1>1, <4>1, <4>2, AppEdit DEF AppStates
      <4>4. \A b \in Shops : b # a => db'.app[b] = db.app[b]
        BY <1>1, <4>3 DEF Rows
      <4>5. db.app[a] = "NONE"
        BY <2>1, <4>1
      <4> QED
        BY <2>1, <4>1, <4>2, <4>3, <4>4, <4>5 DEF Register, Provisioning
    <3> QED
      BY <3>1, <3>2
  <2>6. Rest
    BY <2>1, <2>5, ProvisioningRest DEF Register, TypeOK
  <2> QED
    BY <2>4, <2>6
<1>3. CASE RegisterShop(a)
  <2> DEFINE rows == [db EXCEPT !.app[a] = "SUBMITTED"]
  <2>1. db.app[a] = "NONE" /\ Write(rows) /\ Idle /\ tx = "none" /\ UNCHANGED <<issue, pairing, shown>>
    BY <1>3 DEF RegisterShop
  <2>2. Sound(rows) /\ Follows(db, rows)
    BY <1>1, <2>1, AppMoves DEF AppStates, Registered
  <2>3. Kept
    BY <2>1, <2>2, WriteKeeps
  <2>4. CASE UNCHANGED provision
    BY <2>1, <2>3, <2>4, IdleRest
  <2>5. CASE provision' = [shop |-> a, step |-> "approve"]
    <3>1. db'.app[a] = "SUBMITTED" /\ tx' = "none"
      BY <1>1, <2>1 DEF Write, Rows
    <3>2. Provisioning'
      BY <2>5, <3>1, OnboardingAssumption DEF Provisioning
    <3> QED
      BY <2>1, <2>3, <2>5, <3>2, ProvisioningRest DEF Steps
  <2> QED
    BY <1>3, <2>4, <2>5 DEF RegisterShop
<1>4. CASE PickUp(a)
  <2>1. db.app[a] = "SUBMITTED" /\ Write([db EXCEPT !.app[a] = "UNDER_REVIEW"]) /\ Idle
        /\ UNCHANGED <<provision, issue, pairing, shown>>
    BY <1>4 DEF PickUp
  <2>2. Sound([db EXCEPT !.app[a] = "UNDER_REVIEW"])
        /\ Follows(db, [db EXCEPT !.app[a] = "UNDER_REVIEW"])
    BY <1>1, <2>1, AppMoves DEF AppStates, Registered
  <2> QED
    BY <2>1, <2>2, WriteKeeps, IdleRest
<1>5. CASE TurnDown(a)
  <2>1. PICK next \in {"CLOSED", "DRAFT"} : Write([db EXCEPT !.app[a] = next])
    BY <1>5 DEF TurnDown
  <2>2. db.app[a] = "UNDER_REVIEW" /\ Idle /\ UNCHANGED <<provision, issue, pairing, shown>>
    BY <1>5 DEF TurnDown, CanBeDecided
  <2>3. Sound([db EXCEPT !.app[a] = next]) /\ Follows(db, [db EXCEPT !.app[a] = next])
    BY <1>1, <2>2, AppMoves DEF AppStates, Registered
  <2> QED
    BY <2>1, <2>2, <2>3, WriteKeeps, IdleRest
<1>6. CASE Approve(a)
  <2> DEFINE rows == [db EXCEPT !.app[a] = "APPROVED"]
  <2>1. Write(rows) /\ provision' = [shop |-> a, step |-> "claim"] /\ UNCHANGED <<issue, pairing, shown>>
    BY <1>6 DEF Approve
  <2>2. db.app[a] \in {"UNDER_REVIEW", "SUBMITTED"}
    BY <1>6 DEF Approve, CanBeDecided, Register, Provisioning
  <2>3. db.registry[a] = "NONE"
    BY <1>1, <2>2 DEF Registered
  <2>4. Sound(rows) /\ Follows(db, rows)
    BY <1>1, <2>2, <2>3, AppMoves DEF AppStates
  <2>5. Kept
    BY <2>1, <2>4, WriteKeeps
  <2>6. db'.app[a] = "APPROVED" /\ db'.registry[a] = "NONE" /\ tx' \in {"none", "writing"}
    BY <1>1, <2>1, <2>3 DEF Write, Rows
  <2>7. Provisioning'
    BY <2>1, <2>6, OnboardingAssumption DEF Provisioning
  <2> QED
    BY <2>1, <2>5, <2>7, ProvisioningRest DEF Steps
<1> QED
  BY <1>2, <1>3, <1>4, <1>5, <1>6

\* The statements of provisionMerchant, and its failure.
LEMMA ProvisioningSteps ==
  ASSUME Register, NEW a \in Shops,
         \/ ClaimRegistryRow(a) \/ WriteMerchantRecord(a) \/ SetTenantActive(a)
         \/ LinkApplication(a) \/ ProvisioningThrows(a)
  PROVE  Kept /\ Rest
<1>1. db \in Rows /\ Registered(db) /\ Handed(db) /\ shown \subseteq Shops \X Numbers \X Numbers
  BY DEF Register, TypeOK
<1>2. a # None
  BY OnboardingAssumption
<1>3. ASSUME provision' = [shop |-> None, step |-> "idle"], UNCHANGED <<issue, pairing, shown>>
      PROVE  Rest
  <2>1. Provisioning'
    BY <1>3 DEF Provisioning
  <2> QED
    BY <1>3, <2>1, ProvisioningRest DEF Steps
<1>4. CASE ClaimRegistryRow(a)
  <2> DEFINE rows == [db EXCEPT !.registry[a] = "PROVISIONING"]
  <2>1. provision = [shop |-> a, step |-> "claim"] /\ db.registry[a] = "NONE" /\ Write(rows)
        /\ provision' = [shop |-> a, step |-> "merchant"] /\ UNCHANGED <<issue, pairing, shown>>
    BY <1>4 DEF ClaimRegistryRow
  <2>2. db.app[a] = "APPROVED" /\ db.shop[a] = "NONE"
    BY <1>1, <2>1 DEF Register, Provisioning, Registered
  <2>3. Sound(rows) /\ Follows(db, rows)
    BY <1>1, <2>1, <2>2, RegistryMoves
  <2>4. Kept
    BY <2>1, <2>3, WriteKeeps
  <2>5. db'.registry[a] = "PROVISIONING" /\ db'.shop[a] = "NONE" /\ tx' \in {"none", "writing"}
    BY <1>1, <2>1, <2>2 DEF Write, Rows
  <2>6. Provisioning'
    BY <1>2, <2>1, <2>5 DEF Provisioning
  <2> QED
    BY <2>1, <2>4, <2>6, ProvisioningRest DEF Steps
<1>5. CASE WriteMerchantRecord(a)
  <2> DEFINE rows == [db EXCEPT !.shop[a] = "ONBOARDING"]
  <2>1. provision = [shop |-> a, step |-> "merchant"] /\ db.shop[a] = "NONE" /\ Write(rows)
        /\ provision' = [shop |-> a, step |-> "activate"] /\ UNCHANGED <<issue, pairing, shown>>
    BY <1>5 DEF WriteMerchantRecord
  <2>2. db.registry[a] = "PROVISIONING"
    BY <2>1 DEF Register, Provisioning
  <2>3. Sound(rows) /\ Follows(db, rows)
    BY <1>1, <2>1, <2>2, ShopMoves
  <2>4. Kept
    BY <2>1, <2>3, WriteKeeps
  <2>5. db'.registry[a] = "PROVISIONING" /\ db'.shop[a] # "NONE" /\ tx' \in {"none", "writing"}
    BY <1>1, <2>1, <2>2 DEF Write, Rows
  <2>6. Provisioning'
    BY <1>2, <2>1, <2>5 DEF Provisioning
  <2> QED
    BY <2>1, <2>4, <2>6, ProvisioningRest DEF Steps
<1>6. CASE SetTenantActive(a)
  <2> DEFINE rows == [db EXCEPT !.registry[a] = "ACTIVE"]
  <2>1. provision = [shop |-> a, step |-> "activate"] /\ Write(rows)
        /\ provision' = [shop |-> a, step |-> "link"] /\ UNCHANGED <<issue, pairing, shown>>
    BY <1>6 DEF SetTenantActive
  <2>2. db.registry[a] = "PROVISIONING" /\ db.shop[a] # "NONE"
    BY <2>1 DEF Register, Provisioning
  <2>3. Sound(rows) /\ Follows(db, rows)
    BY <1>1, <2>1, <2>2, RegistryMoves
  <2>4. Kept
    BY <2>1, <2>3, WriteKeeps
  <2>5. db'.registry[a] = "ACTIVE" /\ tx' \in {"none", "writing"}
    BY <1>1, <2>1 DEF Write, Rows
  <2>6. Provisioning'
    BY <1>2, <2>1, <2>5 DEF Provisioning
  <2> QED
    BY <2>1, <2>4, <2>6, ProvisioningRest DEF Steps
<1>7. CASE LinkApplication(a)
  <2> DEFINE rows == [db EXCEPT !.app[a] = "DEVICE_PENDING"]
  <2>1. provision = [shop |-> a, step |-> "link"] /\ Write(rows)
        /\ provision' = [shop |-> None, step |-> "idle"] /\ UNCHANGED <<issue, pairing, shown>>
    BY <1>7 DEF LinkApplication
  <2>2. db.registry[a] = "ACTIVE"
    BY <2>1 DEF Register, Provisioning
  <2>3. Sound(rows) /\ Follows(db, rows)
    BY <1>1, <2>2, AppMoves DEF AppStates
  <2> QED
    BY <1>3, <2>1, <2>3, WriteKeeps
<1>8. CASE ProvisioningThrows(a)
  <2>1. provision' = [shop |-> None, step |-> "idle"] /\ UNCHANGED <<issue, pairing, shown>>
        /\ provision.shop = a
    BY <1>8 DEF ProvisioningThrows
  <2>2. CASE UNCHANGED <<db, saved, tx>>
    BY <1>3, <2>1, <2>2, NothingKeeps
  <2>3. CASE provision.step = "merchant" /\ Write([db EXCEPT !.registry[a] = "FAILED"])
    <3>1. db.registry[a] = "PROVISIONING" /\ db.shop[a] = "NONE"
      BY <2>1, <2>3 DEF Register, Provisioning
    <3>2. Sound([db EXCEPT !.registry[a] = "FAILED"])
          /\ Follows(db, [db EXCEPT !.registry[a] = "FAILED"])
      BY <1>1, <3>1, RegistryMoves
    <3> QED
      BY <1>3, <2>1, <2>3, <3>2, WriteKeeps
  <2> QED
    BY <1>8, <2>2, <2>3 DEF ProvisioningThrows
<1> QED
  BY <1>4, <1>5, <1>6, <1>7, <1>8

\* The rows with one of a request's live devices stopped, or as they were.
LEMMA RetiredIsSound ==
  ASSUME Register, NEW h \in Handlers, NEW rows \in Retired(h)
  PROVE  /\ Sound(rows)
         /\ Follows(db, rows)
         /\ rows.operator = db.operator
<1>1. db \in Rows /\ Registered(db) /\ Handed(db)
  BY DEF Register, TypeOK
<1>2. CASE rows = db
  BY <1>1, <1>2, FollowsItself DEF Sound
<1>3. CASE rows # db
  <2>1. PICK n \in issue[h].live : rows = [db EXCEPT !.live = db.live \ {n}]
    BY <1>3 DEF Retired
  <2>2. db.live \ {n} \in SUBSET Numbers /\ db.key \in [Numbers -> Keys]
    BY <1>1 DEF Rows
  <2>3. rows.operator = db.operator
    BY <1>1, <2>1 DEF Rows
  <2>4. rows = [db EXCEPT !.live = db.live \ {n}, !.key = db.key]
    BY <1>1, <2>1 DEF Rows
  <2>5. shown \subseteq Shops \X Numbers \X Numbers
    BY DEF Register, TypeOK
  <2> QED
    BY <1>1, <2>2, <2>3, <2>4, <2>5, DeviceEdit
<1> QED
  BY <1>2, <1>3

\* A request that moves on, with no provisioning in progress.
LEMMA MovedRest ==
  ASSUME Register, Idle, NEW h \in Handlers, UNCHANGED <<provision, pairing, shown>>,
         NEW r \in Requests, issue' = [issue EXCEPT ![h] = r],
         r.at # "idle" => r.shop \in Shops,
         r.at = "deriving" => r.device \in Numbers /\ r.operator \in Numbers
  PROVE  Rest
<1>1. provision'.step = "idle" /\ provision'.shop = None
  BY DEF Idle
<1>2. Provisioning'
  BY <1>1 DEF Provisioning
<1>3. issue' \in [Handlers -> Requests]
  BY DEF Register, TypeOK
<1>4. \A g \in Handlers : issue'[g] = IF g = h THEN r ELSE issue[g]
  BY DEF Register, TypeOK
<1>5. Issuing'
  BY <1>4 DEF Issuing, Register
<1> QED
  BY <1>2, <1>3, <1>5 DEF Rest, Register, TypeOK

\* The steps of an issue of credentials up to its commit.
LEMMA Issues ==
  ASSUME Register, NEW h \in Handlers,
         \/ \E a \in Shops : OpenIssue(h, a)
         \/ AskWhichToRetire(h) \/ BeginIssue(h) \/ BeginThrows(h)
         \/ IssueThrows(h) \/ SaveAlone(h)
  PROVE  Kept /\ Rest
<1>1. db \in Rows /\ Registered(db) /\ Handed(db) /\ issue[h] \in Requests
  BY DEF Register, TypeOK
<1>2. ASSUME NEW a \in Shops, OpenIssue(h, a)
      PROVE  Kept /\ Rest
  <2> DEFINE r == [issue[h] EXCEPT !.at = "form", !.shop = a, !.live = Live(a)]
  <2>1. Live(a) \in SUBSET Numbers
    BY <1>1 DEF Live, Rows
  <2>2. r \in Requests /\ r.at = "form" /\ r.shop = a
    BY <1>1, <2>1 DEF Requests
  <2>3. issue' = [issue EXCEPT ![h] = r] /\ Idle /\ UNCHANGED <<db, saved, tx, provision, pairing, shown>>
    BY <1>2 DEF OpenIssue
  <2> HIDE DEF r
  <2>4. Rest
    BY <2>2, <2>3, MovedRest
  <2> QED
    BY <2>3, <2>4, NothingKeeps
<1>3. CASE AskWhichToRetire(h)
  BY <1>3, NothingKeeps, EndedRest DEF AskWhichToRetire
<1>4. CASE BeginIssue(h)
  <2>1. PICK rows \in Retired(h) :
          /\ Begin(rows)
          /\ MaxNumber \notin Devices(rows) \cup rows.operator
          /\ issue' = [issue EXCEPT ![h] =
                         [@ EXCEPT !.at = "deriving", !.device = NextNumber(Devices(rows)),
                                   !.operator = NextNumber(rows.operator)]]
    BY <1>4 DEF BeginIssue
  <2>2. Idle /\ UNCHANGED <<provision, pairing, shown>> /\ issue[h].at = "form"
    BY <1>4 DEF BeginIssue
  <2>3. Sound(rows) /\ Follows(db, rows)
    BY RetiredIsSound
  <2>4. Kept
    BY <2>1, <2>3, BeginKeeps
  <2> DEFINE d == NextNumber(Devices(rows))
             o == NextNumber(rows.operator)
             r == [issue[h] EXCEPT !.at = "deriving", !.device = d, !.operator = o]
  <2>5. d \in Numbers
    <3>1. Devices(rows) \in SUBSET Numbers /\ MaxNumber \notin Devices(rows)
      BY <2>1 DEF Devices
    <3> QED
      BY <3>1, NextNumberIsANumber
  <2>6. o \in Numbers
    <3>1. rows.operator \in SUBSET Numbers /\ MaxNumber \notin rows.operator
      BY <2>1, <2>3 DEF Sound, Rows
    <3> QED
      BY <3>1, NextNumberIsANumber
  <2>7. issue' = [issue EXCEPT ![h] = r]
    BY <2>1
  <2>8. issue[h].shop \in Shops
    BY <2>2 DEF Register, Issuing
  <2> HIDE DEF d, o
  <2>9. r \in Requests /\ r.shop \in Shops /\ r.device \in Numbers /\ r.operator \in Numbers
    BY <1>1, <2>5, <2>6, <2>8 DEF Requests
  <2> HIDE DEF r
  <2>10. Rest
    BY <2>2, <2>7, <2>9, MovedRest
  <2> QED
    BY <2>4, <2>10
<1>5. CASE BeginThrows(h)
  <2>1. Rest
    BY <1>5, EndedRest DEF BeginThrows
  <2>2. CASE \E rows \in Retired(h) : Full(h) /\ Write(rows)
    BY <2>1, <2>2, RetiredIsSound, WriteKeeps
  <2>3. CASE UNCHANGED <<db, saved, tx>>
    BY <2>1, <2>3, NothingKeeps
  <2> QED
    BY <1>5, <2>2, <2>3 DEF BeginThrows
<1>6. CASE IssueThrows(h)
  BY <1>6, RollbackKeeps, EndedRest DEF IssueThrows
<1>7. CASE SaveAlone(h)
  <2>1. Rest
    BY <1>7, EndedRest DEF SaveAlone
  <2>2. PICK k \in 0 .. Accepted(h) : Write(Inserted(h, k))
    BY <1>7 DEF SaveAlone
  <2>3. Sound(Inserted(h, k)) /\ Follows(db, Inserted(h, k))
    BY <1>7, Inserts DEF SaveAlone
  <2> QED
    BY <2>1, <2>2, <2>3, WriteKeeps
<1> QED
  BY <1>2, <1>3, <1>4, <1>5, <1>6, <1>7

\* The commit that puts credentials on a screen.
LEMMA CommitShows ==
  ASSUME Register, NEW h \in Handlers, CommitIssue(h)
  PROVE  /\ Register'
         /\ Stands(saved, saved')
         /\ \A p \in shown' \ shown : saved'.key[p[2]] = "ISSUED"
<1> DEFINE rows == Inserted(h, 4)
           q    == <<issue[h].shop, issue[h].device, issue[h].operator>>
<1>1. /\ Idle /\ issue[h].at = "deriving" /\ tx # "stale" /\ Accepted(h) = 4 /\ Commit(rows)
      /\ shown' = shown \cup {q} /\ issue' = [issue EXCEPT ![h] = NoRequest]
      /\ UNCHANGED <<provision, pairing>>
  BY DEF CommitIssue
<1>2. 4 \in 0 .. Accepted(h)
  BY <1>1
<1>3. /\ Sound(rows) /\ Follows(db, rows)
      /\ rows.owner[issue[h].device] = issue[h].shop
      /\ rows.key[issue[h].device] = "ISSUED"
      /\ issue[h].operator \in rows.operator
      /\ rows.shop[issue[h].shop] \in {"ACTIVE", "SUSPENDED"}
  BY <1>1, <1>2, Inserts
<1> HIDE DEF rows
<1>4. /\ db' = rows /\ saved' = rows /\ tx' = "none" /\ rows \in Rows
      /\ Registered(rows) /\ Handed(rows)
      /\ Follows(saved', db') /\ Stands(saved, saved')
  BY <1>1, <1>3, CommitKeeps DEF Sound
<1>5. q \in Shops \X Numbers \X Numbers
  BY <1>1 DEF Register, Issuing
<1>6. Handed(db)' /\ Handed(saved)'
  <2> SUFFICES ASSUME NEW p \in shown'
               PROVE  /\ rows.owner[p[2]] = p[1]
                      /\ rows.key[p[2]] # "NONE"
                      /\ p[3] \in rows.operator
                      /\ rows.shop[p[1]] \in {"ACTIVE", "SUSPENDED"}
    BY <1>4 DEF Handed
  <2>1. CASE p \in shown
    BY <1>4, <2>1 DEF Handed
  <2>2. CASE p = q
    BY <1>3, <2>2
  <2> QED
    BY <1>1, <2>1, <2>2
<1>7. provision'.step = "idle" /\ provision'.shop = None
  BY <1>1 DEF Idle
<1>8. Provisioning'
  BY <1>7 DEF Provisioning
<1>9. \A g \in Handlers : issue'[g] = IF g = h THEN NoRequest ELSE issue[g]
  BY <1>1 DEF Register, TypeOK
<1>10. Issuing'
  BY <1>9 DEF Issuing, Register, NoRequest
<1>11. TypeOK'
  <2>1. NoRequest \in Requests
    BY DEF NoRequest, Requests
  <2>2. issue' \in [Handlers -> Requests]
    BY <1>1, <2>1 DEF Register, TypeOK
  <2>3. shown' \subseteq Shops \X Numbers \X Numbers
    BY <1>1, <1>5 DEF Register, TypeOK
  <2> QED
    BY <1>1, <1>4, <2>2, <2>3 DEF Register, TypeOK
<1>12. Registered(db)' /\ Registered(saved)'
  BY <1>4 DEF Registered
<1>13. Pairing'
  <2> SUFFICES ASSUME NEW n \in pairing
               PROVE  saved'.key[n] \notin {"NONE", "ISSUED"}
    BY <1>1 DEF Pairing
  <2>1. n \in Numbers /\ saved.key[n] \notin {"NONE", "ISSUED"}
    BY DEF Register, Pairing, TypeOK
  <2>2. StaysOrIsWithdrawn(saved.key[n], saved'.key[n])
    BY <1>4, <2>1 DEF Stands
  <2> QED
    BY <2>1, <2>2 DEF StaysOrIsWithdrawn
<1>14. \A p \in shown' \ shown : saved'.key[p[2]] = "ISSUED"
  BY <1>1, <1>3, <1>4
<1> QED
  BY <1>4, <1>6, <1>8, <1>10, <1>11, <1>12, <1>13, <1>14 DEF Register

\* Suspensions, devices, approvals of money and other processes.
LEMMA OtherRoutes ==
  ASSUME Register,
         \/ ApproveMoney \/ OtherProcessWrites
         \/ \E a \in Shops : Suspend(a) \/ Reinstate(a)
         \/ \E n \in Numbers : StopDevice(n) \/ ReinstateDevice(n) \/ IssueEnrollmentToken(n)
  PROVE  Kept /\ Rest
<1>1. db \in Rows /\ Registered(db) /\ Handed(db) /\ shown \subseteq Shops \X Numbers \X Numbers
  BY DEF Register, TypeOK
<1>2. CASE ApproveMoney
  BY <1>2, RollbackKeeps, IdleRest DEF ApproveMoney
<1>3. CASE OtherProcessWrites
  <2>1. tx = "reading" /\ Elsewhere(saved) /\ UNCHANGED <<provision, issue, pairing, shown>>
    BY <1>3 DEF OtherProcessWrites
  <2>2. Sound(saved)
    BY DEF Register, TypeOK, Sound
  <2>3. Idle
    <3>1. provision.step = "idle" /\ provision.shop = None
      BY <2>1 DEF Register, Provisioning
    <3>2. provision \in [shop : Shops \cup {None}, step : Steps]
      BY DEF Register, TypeOK
    <3> QED
      BY <3>1, <3>2 DEF Idle
  <2> QED
    BY <2>1, <2>2, <2>3, ElsewhereKeeps, FollowsItself, FollowsStands, IdleRest
<1>4. ASSUME NEW a \in Shops, Suspend(a) \/ Reinstate(a)
      PROVE  Kept /\ Rest
  <2>1. PICK x \in {"ACTIVE", "SUSPENDED"} : Write([db EXCEPT !.shop[a] = x])
    BY <1>4 DEF Suspend, Reinstate
  <2>2. db.shop[a] # "NONE" /\ Idle /\ UNCHANGED <<provision, issue, pairing, shown>>
    BY <1>4 DEF Suspend, Reinstate
  <2>3. Sound([db EXCEPT !.shop[a] = x]) /\ Follows(db, [db EXCEPT !.shop[a] = x])
    BY <1>1, <2>2, ShopMoves
  <2> QED
    BY <2>1, <2>2, <2>3, WriteKeeps, IdleRest
<1>5. ASSUME NEW n \in Numbers, StopDevice(n) \/ ReinstateDevice(n) \/ IssueEnrollmentToken(n)
      PROVE  Kept /\ Rest
  <2>1. Idle /\ UNCHANGED <<provision, issue, pairing, shown>>
    BY <1>5 DEF StopDevice, ReinstateDevice, IssueEnrollmentToken
  <2>2. db.live \in SUBSET Numbers /\ db.key \in [Numbers -> Keys]
    BY <1>1 DEF Rows
  <2>3. CASE StopDevice(n)
    <3> DEFINE S == db.live \ {n}
               kd == [db.key EXCEPT ![n] = IF db.key[n] = "NONE" THEN "NONE" ELSE "REVOKED"]
    <3>1. [db EXCEPT !.live = @ \ {n}, !.key[n] = IF @ = "NONE" THEN @ ELSE "REVOKED"]
            = [db EXCEPT !.live = S, !.key = kd]
      BY <1>1, <2>2 DEF Rows
    <3>2. Write([db EXCEPT !.live = S, !.key = kd])
      BY <2>3, <3>1 DEF StopDevice
    <3>3. S \in SUBSET Numbers /\ kd \in [Numbers -> Keys]
      BY <2>2 DEF Keys
    <3>4. \A m \in Numbers : kd[m] = IF m = n /\ db.key[n] # "NONE" THEN "REVOKED" ELSE db.key[m]
      BY <2>2
    <3> HIDE DEF S, kd
    <3>5. Sound([db EXCEPT !.live = S, !.key = kd]) /\ Follows(db, [db EXCEPT !.live = S, !.key = kd])
      BY <1>1, <3>3, <3>4, DeviceEdit
    <3> QED
      BY <2>1, <3>2, <3>5, WriteKeeps, IdleRest
  <2>4. CASE ReinstateDevice(n)
    <3> DEFINE S == db.live \cup {n}
    <3>1. [db EXCEPT !.live = @ \cup {n}] = [db EXCEPT !.live = S, !.key = db.key]
      BY <1>1, <2>2 DEF Rows
    <3>2. Write([db EXCEPT !.live = S, !.key = db.key])
      BY <2>4, <3>1 DEF ReinstateDevice
    <3>3. S \in SUBSET Numbers
      BY <2>2
    <3> HIDE DEF S
    <3>4. Sound([db EXCEPT !.live = S, !.key = db.key])
          /\ Follows(db, [db EXCEPT !.live = S, !.key = db.key])
      BY <1>1, <2>2, <3>3, DeviceEdit
    <3> QED
      BY <2>1, <3>2, <3>4, WriteKeeps, IdleRest
  <2>5. CASE IssueEnrollmentToken(n)
    <3> DEFINE kd == [db.key EXCEPT ![n] = "CODE"]
    <3>1. [db EXCEPT !.key[n] = "CODE"] = [db EXCEPT !.live = db.live, !.key = kd]
      BY <1>1, <2>2 DEF Rows
    <3>2. Write([db EXCEPT !.live = db.live, !.key = kd]) /\ db.key[n] # "NONE"
      BY <2>5, <3>1 DEF IssueEnrollmentToken
    <3>3. kd \in [Numbers -> Keys]
      BY <2>2 DEF Keys
    <3>4. \A m \in Numbers : kd[m] = IF m = n THEN "CODE" ELSE db.key[m]
      BY <2>2
    <3> HIDE DEF kd
    <3>5. Sound([db EXCEPT !.live = db.live, !.key = kd])
          /\ Follows(db, [db EXCEPT !.live = db.live, !.key = kd])
      BY <1>1, <2>2, <3>2, <3>3, <3>4, DeviceEdit
    <3> QED
      BY <2>1, <3>2, <3>5, WriteKeeps, IdleRest
  <2> QED
    BY <1>5, <2>3, <2>4, <2>5
<1> QED
  BY <1>2, <1>3, <1>4, <1>5

\* A redemption runs in another process, and does not disturb what the console
\* is provisioning.
LEMMA RedemptionRest ==
  ASSUME Register, NEW n \in Numbers,
         UNCHANGED <<db, saved, tx>> \/ Elsewhere([saved EXCEPT !.key[n] = "PAIRED"]),
         UNCHANGED <<provision, issue, shown>>,
         pairing' \subseteq pairing \cup {m \in Numbers : saved.key[m] = "CODE"}
  PROVE  Rest
<1>1. Provisioning'
  <2>1. CASE provision.step = "idle"
    BY <2>1 DEF Register, Provisioning
  <2>2. CASE provision.step # "idle"
    <3>1. tx \in {"none", "writing"} /\ (tx = "none" => db = saved)
      BY <2>2 DEF Register, Provisioning
    <3>2. tx' = tx /\ db'.app = db.app /\ db'.registry = db.registry /\ db'.shop = db.shop
      <4>1. CASE UNCHANGED <<db, saved, tx>>
        BY <4>1
      <4>2. CASE Elsewhere([saved EXCEPT !.key[n] = "PAIRED"])
        <5>1. tx = "none" /\ tx' = "none" /\ db' = [db EXCEPT !.key[n] = "PAIRED"]
          BY <3>1, <4>2 DEF Elsewhere
        <5> QED
          BY <5>1 DEF Register, TypeOK, Rows
      <4> QED
        BY <4>1, <4>2
    <3> QED
      BY <2>2, <3>1, <3>2 DEF Register, Provisioning
  <2> QED
    BY <2>1, <2>2
<1> QED
  BY <1>1 DEF Rest, Register, TypeOK, Issuing

\* A redemption that begins, is dropped, or saves its key: the device's first
\* key was withdrawn before the redemption began.
LEMMA Redemptions ==
  ASSUME Register, NEW n \in Numbers, RedeemToken(n) \/ EnrolDevice(n) \/ DropRedemption(n)
  PROVE  Kept /\ Rest
<1>1. CASE RedeemToken(n)
  BY <1>1, NothingKeeps, RedemptionRest DEF RedeemToken
<1>2. CASE DropRedemption(n)
  BY <1>2, NothingKeeps, RedemptionRest DEF DropRedemption
<1>3. CASE EnrolDevice(n)
  <2> DEFINE rows == [saved EXCEPT !.key[n] = "PAIRED"]
  <2>1. n \in pairing /\ Elsewhere(rows) /\ pairing' = pairing \ {n}
        /\ UNCHANGED <<provision, issue, shown>>
    BY <1>3 DEF EnrolDevice
  <2>2. saved \in Rows /\ Registered(saved) /\ Handed(saved)
        /\ saved.key[n] \notin {"NONE", "ISSUED"} /\ shown \subseteq Shops \X Numbers \X Numbers
    BY <2>1 DEF Register, TypeOK, Pairing
  <2>3. /\ rows \in Rows /\ rows.app = saved.app /\ rows.registry = saved.registry
        /\ rows.shop = saved.shop /\ rows.owner = saved.owner /\ rows.operator = saved.operator
        /\ \A m \in Numbers : rows.key[m] = IF m = n THEN "PAIRED" ELSE saved.key[m]
    BY <2>2 DEF Rows, Keys
  <2>4. Rest
    BY <2>1, RedemptionRest
  <2> HIDE DEF rows
  <2>5. Registered(rows)
    BY <2>2, <2>3 DEF Registered
  <2>6. Handed(rows)
    <3>1. \A p \in shown : p[2] \in Numbers
      BY <2>2
    <3> QED
      BY <2>2, <2>3, <3>1 DEF Handed
  <2>7. Stands(saved, rows)
    BY <2>2, <2>3 DEF Stands, Settled, StaysOrIsWithdrawn
  <2> QED
    BY <2>1, <2>3, <2>4, <2>5, <2>6, <2>7, ElsewhereKeeps DEF Sound
<1> QED
  BY <1>1, <1>2, <1>3

\* The console dies.
LEMMA CrashRest ==
  ASSUME Register, Crash
  PROVE  Kept /\ Rest
<1>1. provision' = [shop |-> None, step |-> "idle"] /\ issue' = [h \in Handlers |-> NoRequest]
      /\ pairing' = pairing /\ shown' = shown /\ Rollback
  BY DEF Crash
<1>2. Provisioning' /\ Issuing'
  BY <1>1 DEF Provisioning, Issuing, NoRequest
<1>3. issue' \in [Handlers -> Requests]
  BY <1>1 DEF NoRequest, Requests
<1> QED
  BY <1>1, <1>2, <1>3, RollbackKeeps DEF Rest, Steps, Register, TypeOK

\* Every step keeps the register, what is committed is a legal continuation of
\* what was, and credentials that appear on a screen come with their key.
LEMMA NextRegister ==
  Register /\ [Next]_vars =>
    /\ Register'
    /\ Stands(saved, saved')
    /\ \A p \in shown' \ shown : saved'.key[p[2]] = "ISSUED"
<1> SUFFICES ASSUME Register, [Next]_vars
             PROVE  /\ Register'
                    /\ Stands(saved, saved')
                    /\ \A p \in shown' \ shown : saved'.key[p[2]] = "ISSUED"
  OBVIOUS
<1>1. CASE UNCHANGED vars
  <2>1. saved' = saved /\ shown' = shown
    BY <1>1 DEF vars
  <2>2. Register'
    BY <1>1 DEF vars, Register, TypeOK, Provisioning, Issuing, Pairing, Registered, Handed,
                Follows, Settled
  <2> QED
    BY <2>1, <2>2, FollowsItself, FollowsStands
<1>2. CASE \E h \in Handlers : CommitIssue(h)
  BY <1>2, CommitShows
<1>3. CASE Next /\ ~ \E h \in Handlers : CommitIssue(h)
  <2>1. Kept /\ Rest
    BY <1>3, Applications, ProvisioningSteps, Issues, OtherRoutes, Redemptions, CrashRest DEF Next
  <2>2. shown' = shown
    BY <2>1 DEF Rest
  <2> QED
    BY <2>1, <2>2, KeptIsRegister
<1> QED
  BY <1>1, <1>2, <1>3

\* The register is always in order.
LEMMA AlwaysRegister == Spec => []Register
BY InitRegister, NextRegister, PTL DEF Spec

-----------------------------------------------------------------------------
(* The theorems.                                                           *)

\* Rows, requests and screens keep values of their kind; in particular the next
\* number is always one the tables can hold.
THEOREM TypeCorrect == Spec => []TypeOK
<1>1. Register => TypeOK
  BY DEF Register
<1> QED
  BY <1>1, AlwaysRegister, PTL

\* Wherever provisioning stopped, and whoever ended whose transaction, the
\* committed application, registry row, shop and devices agree.
THEOREM ShopsAreRegistered == Spec => []ShopIsRegistered
<1>1. Register => ShopIsRegistered
  BY DEF Register, ShopIsRegistered
<1> QED
  BY <1>1, AlwaysRegister, PTL

\* Credentials come to a screen committed whole; the device stays that shop's and
\* the operator stays; the key is the one that was shown until a stop or a new
\* code withdraws it, and never again after.
THEOREM HandedOverWorks == Spec => HandoverWorks
<1> DEFINE Step == Handed(saved)' /\ Stands(saved, saved')
                   /\ \A p \in shown' \ shown : saved'.key[p[2]] = "ISSUED"
           OK == Handed(saved) /\ shown \subseteq Shops \X Numbers \X Numbers
<1>1. Register => OK
  BY DEF Register, TypeOK
<1>2. Register /\ [Next]_vars => [OK /\ Step]_vars
  BY <1>1, NextRegister DEF Register
<1>3. OK /\ Step =>
        /\ \A p \in shown' :
             /\ saved'.owner[p[2]] = p[1]
             /\ p[3] \in saved'.operator
             /\ saved'.shop[p[1]] \in {"ACTIVE", "SUSPENDED"}
        /\ \A p \in shown' \ shown : saved'.key[p[2]] = "ISSUED"
        /\ \A p \in shown : StaysOrIsWithdrawn(saved.key[p[2]], saved'.key[p[2]])
  <2> SUFFICES ASSUME OK, Step, NEW p \in shown
               PROVE  StaysOrIsWithdrawn(saved.key[p[2]], saved'.key[p[2]])
    BY DEF Handed
  <2>1. p[2] \in Numbers /\ saved.key[p[2]] # "NONE"
    BY DEF Handed
  <2> QED
    BY <2>1 DEF Stands
<1>4. Register /\ [Next]_vars =>
        [/\ \A p \in shown' :
              /\ saved'.owner[p[2]] = p[1]
              /\ p[3] \in saved'.operator
              /\ saved'.shop[p[1]] \in {"ACTIVE", "SUSPENDED"}
         /\ \A p \in shown' \ shown : saved'.key[p[2]] = "ISSUED"
         /\ \A p \in shown : StaysOrIsWithdrawn(saved.key[p[2]], saved'.key[p[2]])]_vars
  <2> HIDE DEF OK, Step
  <2> QED
    BY <1>2, <1>3
<1> QED
  BY <1>4, AlwaysRegister, PTL DEF Spec, HandoverWorks

\* Nothing committed and final is taken back.
THEOREM DecisionsStand == Spec => DecisionStands
<1> DEFINE Step == Settled(saved, saved')
<1>1. Register /\ [Next]_vars => [Step]_vars
  BY NextRegister DEF Stands
<1>2. Spec => [][Step]_vars
  <2> HIDE DEF Step
  <2> QED
    BY <1>1, AlwaysRegister, PTL DEF Spec
<1> QED
  BY <1>2 DEF DecisionStands, Settled
=============================================================================
