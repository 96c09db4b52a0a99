---------------------------- MODULE UnlinkProofs -----------------------------
(***************************************************************************)
(* The unlink of the account for any number of tabs, sessions, recipients,  *)
(* attempts and lives of the account: what is deleted is what the owner was *)
(* shown, after LINE revoked the app for this attempt, and nobody asks LINE *)
(* beside or after the attempt that holds the lock.                         *)
(***************************************************************************)
EXTENDS AccountUnlink, TLAPS

----------------------------------------------------------------------------
(* Types of the parts *)

(* The bounds are natural numbers and so is everything up to them.          *)
LEMMA Bounds ==
  /\ MaxIdentities \in Nat /\ MaxRows \in Nat /\ MaxAttempts \in Nat
  /\ MaxGrants \in Nat /\ Nobody \notin Tabs
BY UnlinkAssumption

(* An answered request is idle, works for no attempt, and says what it was  *)
(* answered unless its connection was lost.                                 *)
LEMMA AnsweredTab ==
  ASSUME NEW r \in Tab, NEW a \in Answers
  PROVE  /\ Answered(r, a) \in Tab
         /\ Answered(r, a).phase = "idle"
         /\ Answered(r, a).generation = 0
         /\ Answered(r, a).identity = r.identity
         /\ Answered(r, a).answer \in {a, "refused"}
<1>1. 0 \in 0..MaxGrants /\ 0 \in 0..MaxAttempts
  BY Bounds
<1>2. (IF r.broken THEN "refused" ELSE a) \in Answers
  BY DEF Answers
<1> QED
  BY <1>1, <1>2 DEF Answered, Tab, Phases

(* A step of one tab leaves the others as they are.                         *)
LEMMA TabUpdate ==
  ASSUME TypeOK, NEW t \in Tabs, NEW r \in Tab, Moves(t, r)
  PROVE  /\ tab' \in [Tabs -> Tab] /\ tab'[t] = r
         /\ \A u \in Tabs \ {t} : tab'[u] = tab[u]
BY DEF TypeOK, Moves

(* The snapshot of the account is of its type, and changes only with the    *)
(* identity or the recipients.                                              *)
LEMMA SnapshotType ==
  ASSUME TypeOK
  PROVE  Snapshot \in Snapshots /\ Snapshot.identity = owner.identity
BY DEF Snapshot, Snapshots, TypeOK, OwnerRow, Row

LEMMA SnapshotKept ==
  ASSUME owner'.identity = owner.identity, recipients' = recipients
  PROVE  Snapshot' = Snapshot
BY DEF Snapshot

(* What is recorded of the attempts only grows.                             *)
Grows ==
  /\ Len(attempts) <= Len(attempts')
  /\ \A g \in 1..Len(attempts) :
       /\ attempts'[g].shown = attempts[g].shown
       /\ attempts[g].revoked => attempts'[g].revoked

LEMMA UnchangedGrows ==
  ASSUME TypeOK, attempts' = attempts
  PROVE  Grows
<1>1. Len(attempts) \in Nat
  BY DEF TypeOK
<1> QED
  BY <1>1 DEF Grows

(* Fields of a tab and of the account that the arithmetic needs.            *)
LEMMA Fields ==
  ASSUME TypeOK
  PROVE  /\ owner.identity \in Nat /\ owner.generation \in Nat
         /\ used.identities \in Nat /\ used.rows \in Nat
         /\ Len(attempts) \in Nat
         /\ \A u \in Tabs : /\ tab[u] \in Tab
                            /\ tab[u].identity \in Nat
                            /\ tab[u].generation \in Nat
<1>1. owner \in OwnerRow /\ attempts \in Seq(Attempt)
      /\ used \in [identities : 0..MaxIdentities, rows : 0..MaxRows]
      /\ tab \in [Tabs -> Tab]
  BY DEF TypeOK
<1>2. owner.identity \in Nat /\ owner.generation \in Nat
  BY <1>1, Bounds DEF OwnerRow
<1>3. used.identities \in Nat /\ used.rows \in Nat
  BY <1>1, Bounds
<1>4. ASSUME NEW u \in Tabs
      PROVE  /\ tab[u] \in Tab /\ tab[u].identity \in Nat
             /\ tab[u].generation \in Nat
  BY <1>1, Bounds DEF Tab
<1> QED
  BY <1>1, <1>2, <1>3, <1>4

----------------------------------------------------------------------------
(* A tab that does not move *)

(* The invariant of a tab survives whatever the others and the account do,  *)
(* as long as its attempt stays on record, new identities are new, the lock *)
(* it holds is not taken and the account does not change while it calls.    *)
LEMMA OthersKeep ==
  ASSUME UnlinkInv, NEW u \in Tabs, tab'[u] = tab[u], Grows,
         used'.identities \in Nat, used.identities <= used'.identities,
         Len(attempts') \in Nat,
         \A i \in identities' : i \in identities \/ i > used.identities,
         lock = u => lock' = u, owner' = owner \/ ~Calls(u)
  PROVE  TabInv(u)'
<1>1. TypeOK /\ TabInv(u)
  BY DEF UnlinkInv
<1>2. /\ tab[u].identity \in Nat /\ tab[u].generation \in Nat
      /\ used.identities \in Nat /\ Len(attempts) \in Nat
  BY <1>1, Fields
<1>3. /\ tab'[u].identity <= used'.identities
      /\ tab'[u].generation <= Len(attempts')
  BY <1>1, <1>2 DEF TabInv, Grows
<1>4. /\ tab'[u].phase \in {"idle", "authenticated"} => tab'[u].generation = 0
      /\ tab'[u].phase \in {"locking", "reading", "calling", "marking",
                            "finalizing"} => tab'[u].generation > 0
  BY <1>1 DEF TabInv
<1>5. ASSUME tab[u].generation > 0
      PROVE  /\ attempts'[tab[u].generation].shown
                  = attempts[tab[u].generation].shown
             /\ attempts[tab[u].generation].revoked
                  => attempts'[tab[u].generation].revoked
  <2>1. tab[u].generation \in 1..Len(attempts)
    BY <1>1, <1>2, <1>5 DEF TabInv
  <2> QED
    BY <2>1 DEF Grows
<1>6. tab'[u].generation > 0 =>
        attempts'[tab'[u].generation].shown.identity = tab'[u].identity
  BY <1>1, <1>5 DEF TabInv
<1>7. tab'[u].phase = "marking" => attempts'[tab'[u].generation].revoked
  BY <1>1, <1>4, <1>5 DEF TabInv
<1>8. tab'[u].phase \in {"reading", "calling", "marking"} /\ ~tab'[u].broken
        => lock' = u
  BY <1>1 DEF TabInv
<1>9. Calls(u)' => /\ owner'.state = "deauthorization_pending"
                   /\ owner'.generation = tab'[u].generation
  BY <1>1 DEF TabInv, Calls
<1>10. tab'[u].answer = "completed" => tab'[u].identity \notin identities'
  BY <1>1, <1>2 DEF TabInv
<1> QED
  BY <1>3, <1>4, <1>6, <1>7, <1>8, <1>9, <1>10 DEF TabInv

(* A request that is answered leaves the invariant as it is.                *)
LEMMA AnswerKeeps ==
  ASSUME UnlinkInv, NEW t \in Tabs, NEW a \in Answers, Answer(t, a),
         a = "completed" => owner.state = "vacant",
         line' \in [grant : 0..MaxGrants, live : BOOLEAN],
         UNCHANGED <<owner, identities, recipients, sessions, used, attempts>>
  PROVE  UnlinkInv'
<1>1. TypeOK /\ AccountInv
  BY DEF UnlinkInv
<1>2. tab[t] \in Tab /\ Len(attempts) \in Nat /\ used.identities \in Nat
  BY <1>1, Fields
<1> DEFINE r == Answered(tab[t], a)
<1>3. /\ r \in Tab /\ r.phase = "idle" /\ r.generation = 0
      /\ r.identity = tab[t].identity /\ r.answer \in {a, "refused"}
  BY <1>2, AnsweredTab
<1>4. Moves(t, r) /\ Release(t)
  BY DEF Answer
<1> HIDE DEF r
<1>5. /\ tab' \in [Tabs -> Tab] /\ tab'[t] = r
      /\ \A u \in Tabs \ {t} : tab'[u] = tab[u]
  BY <1>1, <1>3, <1>4, TabUpdate
<1>6. lock' \in Tabs \cup {Nobody}
  BY <1>1, <1>4 DEF TypeOK, Release
<1>7. TypeOK'
  BY <1>1, <1>5, <1>6 DEF TypeOK
<1>8. AccountInv'
  <2>1. Snapshot' = Snapshot
    BY SnapshotKept
  <2> QED
    BY <1>1, <2>1 DEF AccountInv, AsShown, RevokedFirst
<1>9. TabInv(t)'
  <2>1. a = "completed" => identities = {}
    BY <1>1 DEF AccountInv, TypeOK, Consistent
  <2>2. tab[t].identity <= used.identities
    BY DEF UnlinkInv, TabInv
  <2> QED
    BY <1>2, <1>3, <1>5, <2>1, <2>2 DEF TabInv, Calls
<1>10. ASSUME NEW u \in Tabs \ {t} PROVE TabInv(u)'
  <2>1. tab'[u] = tab[u] /\ Grows /\ used.identities <= used'.identities
    BY <1>1, <1>2, <1>5, UnchangedGrows
  <2>2. lock = u => lock' = u
    BY <1>4 DEF Release
  <2> QED
    BY <1>2, <2>1, <2>2, OthersKeep
<1> QED
  BY <1>7, <1>8, <1>9, <1>10 DEF UnlinkInv

(* A step of one tab, once the account and the tab itself are looked after. *)
LEMMA MoveKeeps ==
  ASSUME UnlinkInv, NEW t \in Tabs, NEW r \in Tab, Moves(t, r),
         TypeOK', AccountInv', TabInv(t)', Grows,
         used' = used, identities' \subseteq identities,
         \A u \in Tabs \ {t} : lock = u => lock' = u,
         owner' = owner \/ \A u \in Tabs \ {t} : ~Calls(u)
  PROVE  UnlinkInv'
<1>1. TypeOK
  BY DEF UnlinkInv
<1>2. \A u \in Tabs \ {t} : tab'[u] = tab[u]
  BY <1>1, TabUpdate
<1>3. Len(attempts') \in Nat /\ used.identities \in Nat
  BY <1>1, Fields DEF TypeOK
<1>4. ASSUME NEW u \in Tabs \ {t} PROVE TabInv(u)'
  <2>1. used'.identities \in Nat /\ used.identities <= used'.identities
    BY <1>3
  <2> QED
    BY <1>2, <1>3, <2>1, OthersKeep
<1> QED
  BY <1>4 DEF UnlinkInv

(* A step of one tab that touches at most the advisory lock besides.        *)
LEMMA QuietMove ==
  ASSUME UnlinkInv, NEW t \in Tabs, NEW r \in Tab, Moves(t, r),
         UNCHANGED <<owner, identities, recipients, sessions, used, line,
                     attempts>>,
         lock' \in Tabs \cup {Nobody},
         \A u \in Tabs \ {t} : lock = u => lock' = u,
         TabInv(t)'
  PROVE  UnlinkInv'
<1>1. TypeOK /\ AccountInv
  BY DEF UnlinkInv
<1>2. TypeOK'
  BY <1>1, TabUpdate DEF TypeOK
<1>3. AccountInv'
  <2>1. Snapshot' = Snapshot
    BY SnapshotKept
  <2> QED
    BY <1>1, <2>1 DEF AccountInv, AsShown, RevokedFirst
<1>4. Grows
  BY <1>1, UnchangedGrows
<1> QED
  BY <1>2, <1>3, <1>4, MoveKeeps

(* A step of the account beside the requests.                               *)
LEMMA AccountKeeps ==
  ASSUME UnlinkInv, UNCHANGED <<lock, attempts, tab>>,
         TypeOK', AccountInv', used.identities <= used'.identities,
         \A i \in identities' : i \in identities \/ i > used.identities,
         owner' = owner \/ \A u \in Tabs : ~Calls(u)
  PROVE  UnlinkInv'
<1>1. TypeOK
  BY DEF UnlinkInv
<1>2. /\ Len(attempts) \in Nat /\ Len(attempts') \in Nat
      /\ used'.identities \in Nat
  BY <1>1, Fields, Bounds DEF TypeOK
<1>3. ASSUME NEW u \in Tabs PROVE TabInv(u)'
  BY <1>1, <1>2, UnchangedGrows, OthersKeep
<1> QED
  BY <1>3 DEF UnlinkInv

----------------------------------------------------------------------------
(* The account beside the unlink *)

LEMMA InitUnlink ==
  Init => UnlinkInv
<1> SUFFICES ASSUME Init PROVE UnlinkInv
  OBVIOUS
<1>1. /\ 0 \in 0..MaxIdentities /\ 0 \in 0..MaxRows /\ 0 \in 0..MaxAttempts
      /\ 0 \in 0..MaxGrants
  BY Bounds
<1>2. NotShown \in Snapshots
  BY <1>1 DEF NotShown, Snapshots
<1>3. tab \in [Tabs -> Tab]
  BY <1>1, <1>2 DEF Init, Tab, Phases, Answers
<1>4. attempts \in Seq(Attempt) /\ Len(attempts) = 0
  BY DEF Init
<1>5. owner \in OwnerRow /\ Consistent(owner)
  BY <1>1 DEF Init, OwnerRow, States, Consistent, Pending
<1>6. TypeOK
  <2>1. /\ used \in [identities : 0..MaxIdentities, rows : 0..MaxRows]
        /\ line \in [grant : 0..MaxGrants, live : BOOLEAN]
    BY <1>1 DEF Init
  <2>2. Len(attempts) <= MaxAttempts
    BY <1>4, Bounds
  <2>3. /\ identities \subseteq Identity /\ recipients \subseteq Row
        /\ sessions \subseteq Sessions /\ lock \in Tabs \cup {Nobody}
    BY DEF Init
  <2> QED
    BY <1>3, <1>4, <1>5, <2>1, <2>2, <2>3 DEF TypeOK
<1>7. AccountInv
  BY <1>4 DEF Init, AccountInv, AsShown, RevokedFirst, Pending
<1>8. ASSUME NEW t \in Tabs PROVE TabInv(t)
  BY <1>4 DEF Init, TabInv, Calls
<1> QED
  BY <1>6, <1>7, <1>8 DEF UnlinkInv

LEMMA ConsentKeeps ==
  ASSUME UnlinkInv, Consent
  PROVE  UnlinkInv'
<1>1. TypeOK /\ AccountInv
  BY DEF UnlinkInv
<1>2. line.grant + 1 \in 0..MaxGrants
  BY <1>1, Bounds DEF TypeOK, Consent
<1>3. TypeOK'
  BY <1>1, <1>2 DEF TypeOK, Consent
<1>4. Snapshot' = Snapshot
  BY SnapshotKept DEF Consent
<1>5. AccountInv'
  BY <1>1, <1>4 DEF AccountInv, AsShown, RevokedFirst, Consent
<1> QED
  BY <1>1, <1>3, <1>5, AccountKeeps, Fields DEF Consent

(* A login links a vacant account to an identity no request ever had.       *)
LEMMA LoginKeeps ==
  ASSUME UnlinkInv, NEW s \in Sessions, Login(s)
  PROVE  UnlinkInv'
<1>1. TypeOK /\ AccountInv
  BY DEF UnlinkInv
<1>2. used.identities \in Nat /\ owner.identity \in Nat
  BY <1>1, Fields
<1>3. CASE owner.state # "vacant" /\ UNCHANGED <<owner, identities, used>>
  <2>1. TypeOK'
    BY <1>1, <1>3 DEF TypeOK, Login
  <2>2. Snapshot' = Snapshot
    BY <1>3, SnapshotKept DEF Login
  <2>3. AccountInv'
    BY <1>1, <1>3, <2>2 DEF AccountInv, AsShown, RevokedFirst, Login
  <2> QED
    BY <1>2, <1>3, <2>1, <2>3, AccountKeeps DEF Login
<1>4. CASE /\ owner.state = "vacant" /\ used.identities < MaxIdentities
           /\ used' = [used EXCEPT !.identities = @ + 1]
           /\ identities' = identities \cup {used.identities + 1}
           /\ owner' = [owner EXCEPT !.identity = used.identities + 1,
                                     !.state = "active"]
  <2>1. used.identities + 1 \in 1..MaxIdentities
        /\ used.identities + 1 \in 0..MaxIdentities
    BY <1>2, <1>4, Bounds
  <2>2. /\ owner \in OwnerRow /\ owner.identity = 0 /\ owner.generation = 0
        /\ identities = {} /\ recipients = {}
    BY <1>1, <1>4 DEF TypeOK, AccountInv, Consistent, Row, Identity, Pending
  <2>3. /\ owner' \in OwnerRow /\ owner'.state = "active"
        /\ owner'.identity = used.identities + 1 /\ owner'.generation = 0
    BY <1>4, <2>1, <2>2 DEF OwnerRow, States
  <2>4. /\ used' \in [identities : 0..MaxIdentities, rows : 0..MaxRows]
        /\ used'.identities = used.identities + 1
    BY <1>1, <1>4, <2>1 DEF TypeOK
  <2>5. TypeOK'
    <3>1. Consistent(owner)'
      BY <1>2, <2>3 DEF Consistent, Pending
    <3>2. /\ UNCHANGED <<recipients, lock, line, attempts, tab>>
          /\ sessions' \subseteq Sessions
      BY <1>1 DEF TypeOK, Login
    <3>3. identities' \subseteq Identity
      BY <1>4, <2>1, <2>2 DEF Identity
    <3> QED
      BY <1>1, <2>3, <2>4, <3>1, <3>2, <3>3 DEF TypeOK
  <2>6. AccountInv'
    <3>1. recipients' = {} /\ Len(attempts') \in Nat
      BY <1>1, <2>2, Fields DEF Login
    <3>2. identities' = {owner'.identity} /\ owner'.identity # 0
      BY <1>2, <1>4, <2>2, <2>3
    <3> QED
      BY <1>2, <2>3, <2>4, <3>1, <3>2
      DEF AccountInv, AsShown, RevokedFirst, Pending
  <2>7. \A u \in Tabs : ~Calls(u)
    BY <1>4 DEF UnlinkInv, TabInv
  <2> QED
    BY <1>2, <1>4, <2>4, <2>5, <2>6, <2>7, AccountKeeps DEF Login
<1> QED
  BY <1>3, <1>4 DEF Login

LEMMA EndSessionKeeps ==
  ASSUME UnlinkInv, NEW s \in Sessions, EndSession(s)
  PROVE  UnlinkInv'
<1>1. TypeOK /\ AccountInv
  BY DEF UnlinkInv
<1>2. TypeOK'
  BY <1>1 DEF TypeOK, EndSession
<1>3. Snapshot' = Snapshot
  BY SnapshotKept DEF EndSession
<1>4. AccountInv'
  BY <1>1, <1>3 DEF AccountInv, AsShown, RevokedFirst, EndSession
<1> QED
  BY <1>1, <1>2, <1>4, AccountKeeps, Fields DEF EndSession

(* Recipients only change in front of the fence.                            *)
LEMMA RecipientsKeep ==
  ASSUME UnlinkInv, AddRecipient \/ RemoveRecipient
  PROVE  UnlinkInv'
<1>1. TypeOK /\ AccountInv
  BY DEF UnlinkInv
<1>2. /\ owner.state = "active"
      /\ UNCHANGED <<owner, identities, sessions, lock, line, attempts, tab>>
  BY DEF AddRecipient, RemoveRecipient
<1>3. /\ owner.identity \in Identity /\ used.rows \in Nat
      /\ used.identities \in Nat
  <2>1. owner.identity \in Nat /\ owner.identity # 0
    BY <1>1, <1>2, Fields DEF TypeOK, Consistent
  <2> QED
    BY <1>1, <2>1, Fields, Bounds DEF TypeOK, OwnerRow, Identity
<1>4. /\ used' \in [identities : 0..MaxIdentities, rows : 0..MaxRows]
      /\ used'.identities = used.identities
      /\ recipients' \subseteq Row
      /\ \A r \in recipients' : r.identity = owner.identity
  <2>1. CASE AddRecipient
    <3>1. used.rows + 1 \in 1..MaxRows /\ used.rows + 1 \in 0..MaxRows
      BY <1>3, <2>1, Bounds DEF AddRecipient
    <3> QED
      BY <1>1, <1>3, <2>1, <3>1 DEF AddRecipient, TypeOK, AccountInv, Row
  <2>2. CASE RemoveRecipient
    BY <1>1, <2>2 DEF RemoveRecipient, TypeOK, AccountInv
  <2> QED
    BY <2>1, <2>2
<1>5. TypeOK'
  BY <1>1, <1>2, <1>4 DEF TypeOK
<1>6. AccountInv'
  BY <1>1, <1>2, <1>4 DEF AccountInv, AsShown, RevokedFirst, Pending
<1> QED
  BY <1>2, <1>3, <1>4, <1>5, <1>6, AccountKeeps

----------------------------------------------------------------------------
(* A request up to the fence *)

LEMMA PreviewKeeps ==
  ASSUME UnlinkInv, NEW t \in Tabs, Preview(t)
  PROVE  UnlinkInv'
<1>1. TypeOK /\ TabInv(t) /\ tab[t] \in Tab
  BY Fields DEF UnlinkInv
<1> DEFINE r == [tab[t] EXCEPT !.seen = Snapshot, !.answer = "none"]
<1>2. /\ r \in Tab /\ r.phase = "idle" /\ r.identity = tab[t].identity
      /\ r.generation = tab[t].generation /\ r.answer = "none"
  BY <1>1, SnapshotType DEF Tab, Answers, Preview
<1>3. Moves(t, r)
  BY DEF Preview
<1> HIDE DEF r
<1>4. tab'[t] = r
  BY <1>1, <1>2, <1>3, TabUpdate
<1>5. TabInv(t)'
  BY <1>1, <1>2, <1>4 DEF TabInv, Calls, Preview
<1> QED
  BY <1>1, <1>2, <1>3, <1>5, QuietMove DEF Preview, TypeOK

LEMMA AuthenticateKeeps ==
  ASSUME UnlinkInv, NEW t \in Tabs, NEW confirms \in BOOLEAN,
         NEW grant \in {0, line.grant}, Authenticate(t, confirms, grant)
  PROVE  UnlinkInv'
<1>1. TypeOK /\ TabInv(t) /\ tab[t] \in Tab /\ AccountInv
  BY Fields DEF UnlinkInv
<1> DEFINE r == [tab[t] EXCEPT !.phase = "authenticated",
                               !.identity = owner.identity,
                               !.confirms = confirms, !.grant = grant,
                               !.answer = "none"]
<1>2. grant \in 0..MaxGrants /\ owner.identity \in 0..MaxIdentities
  BY <1>1, Bounds DEF TypeOK, OwnerRow
<1>3. /\ r \in Tab /\ r.phase = "authenticated"
      /\ r.identity = owner.identity
      /\ r.generation = tab[t].generation /\ r.answer = "none"
  BY <1>1, <1>2 DEF Tab, Answers, Phases
<1>4. Moves(t, r)
  BY DEF Authenticate
<1> HIDE DEF r
<1>5. tab'[t] = r
  BY <1>1, <1>3, <1>4, TabUpdate
<1>6. tab[t].generation = 0
  BY <1>1 DEF TabInv, Authenticate
<1>7. TabInv(t)'
  BY <1>1, <1>3, <1>5, <1>6, Fields
  DEF TabInv, Calls, Authenticate, AccountInv
<1> QED
  BY <1>1, <1>3, <1>4, <1>7, QuietMove DEF Authenticate, TypeOK

(* A request takes up the attempt that is under way, which its own principal*)
(* began.                                                                   *)
LEMMA ReadKeeps ==
  ASSUME UnlinkInv, NEW t \in Tabs, Read(t)
  PROVE  UnlinkInv'
<1>1. TypeOK /\ TabInv(t) /\ tab[t] \in Tab /\ AccountInv
  BY Fields DEF UnlinkInv
<1>2. CASE Answer(t, "refused")
  BY <1>1, <1>2, AnswerKeeps DEF Read, TypeOK, Answers
<1>3. CASE ~Answer(t, "refused")
  <2>1. /\ Accepts(t) /\ UNCHANGED lock
        /\ UNCHANGED <<owner, identities, recipients, sessions, used, line,
                       attempts>>
    BY <1>3 DEF Read
  <2>2. PICK p \in {"finalizing", "proving"} :
          /\ Moves(t, [tab[t] EXCEPT !.phase = p,
                                     !.generation = owner.generation])
          /\ p = "finalizing" => owner.state = "local_deletion_pending"
    BY <1>3 DEF Read
  <2> DEFINE r == [tab[t] EXCEPT !.phase = p,
                                 !.generation = owner.generation]
  <2>3. /\ r \in Tab /\ r.phase = p /\ r.identity = tab[t].identity
        /\ r.generation = owner.generation /\ r.answer = tab[t].answer
    BY <1>1 DEF Tab, Phases, TypeOK, OwnerRow
  <2>4. Moves(t, r)
    BY <2>2
  <2> HIDE DEF r
  <2>5. tab'[t] = r
    BY <1>1, <2>3, <2>4, TabUpdate
  <2>6. /\ tab[t].identity = owner.identity
        /\ p = "finalizing" => owner.generation # 0
    BY <1>1, <2>1, <2>2 DEF Accepts, TypeOK, Consistent, Pending
  <2>7. owner.generation > 0 =>
          attempts[owner.generation].shown.identity = owner.identity
    <3>1. owner.generation > 0 => owner.state \in Pending
      BY <1>1 DEF TypeOK, Consistent
    <3> QED
      BY <1>1, <3>1, SnapshotType DEF AccountInv, AsShown
  <2>8. owner.generation \in Nat /\ Len(attempts) \in Nat
    BY <1>1, Fields
  <2>9. TabInv(t)'
    BY <1>1, <2>1, <2>2, <2>3, <2>5, <2>6, <2>7, <2>8
    DEF TabInv, Calls, AccountInv
  <2> QED
    BY <1>1, <2>1, <2>3, <2>4, <2>9, QuietMove DEF TypeOK
<1> QED
  BY <1>2, <1>3

LEMMA ProveKeeps ==
  ASSUME UnlinkInv, NEW t \in Tabs, Prove(t)
  PROVE  UnlinkInv'
<1>1. TypeOK /\ TabInv(t) /\ tab[t] \in Tab /\ tab[t].generation \in Nat
  BY Fields DEF UnlinkInv
<1> DEFINE p == IF tab[t].generation = 0 THEN "beginning" ELSE "locking"
           r == [tab[t] EXCEPT !.phase = p]
<1>2. p \in Phases /\ p \in {"beginning", "locking"}
      /\ (p = "locking" => tab[t].generation > 0)
  BY <1>1 DEF Phases
<1>3. /\ r \in Tab /\ r.phase = p /\ r.identity = tab[t].identity
      /\ r.generation = tab[t].generation /\ r.answer = tab[t].answer
  BY <1>1, <1>2 DEF Tab
<1>4. Moves(t, r)
  BY DEF Prove
<1> HIDE DEF p, r
<1>5. tab'[t] = r
  BY <1>1, <1>3, <1>4, TabUpdate
<1>6. TabInv(t)'
  BY <1>1, <1>2, <1>3, <1>5 DEF TabInv, Calls, Prove
<1> QED
  BY <1>1, <1>3, <1>4, <1>6, QuietMove DEF Prove, TypeOK

(* The fence goes up over what the owner was shown.                         *)
LEMMA BeginKeeps ==
  ASSUME UnlinkInv, NEW t \in Tabs, Begin(t)
  PROVE  UnlinkInv'
<1>1. TypeOK /\ TabInv(t) /\ tab[t] \in Tab /\ AccountInv
  BY Fields DEF UnlinkInv
<1>2. CASE Answer(t, "refused") /\ UNCHANGED <<owner, attempts>>
  BY <1>1, <1>2, AnswerKeeps DEF Begin, TypeOK, Answers
<1>3. CASE ~(Answer(t, "refused") /\ UNCHANGED <<owner, attempts>>)
  <2> DEFINE g == Len(attempts) + 1
             x == [shown |-> tab[t].seen, revoked |-> FALSE]
             r == [tab[t] EXCEPT !.phase = "locking", !.generation = g]
  <2>1. /\ Confirmed(t) /\ Len(attempts) < MaxAttempts
        /\ attempts' = Append(attempts, x)
        /\ owner' = [owner EXCEPT !.state = "deauthorization_pending",
                                  !.generation = g]
        /\ Moves(t, r)
        /\ UNCHANGED <<identities, recipients, sessions, used, line, lock>>
    BY <1>3 DEF Begin
  <2>2. /\ g \in 1..MaxAttempts /\ g \in 0..MaxAttempts /\ g > 0
        /\ Len(attempts) \in Nat
    BY <1>1, <2>1, Fields, Bounds
  <2>3. x \in Attempt /\ x.shown = tab[t].seen /\ ~x.revoked
    BY <1>1 DEF Tab, Attempt
  <2>4. /\ r \in Tab /\ r.phase = "locking" /\ r.identity = tab[t].identity
        /\ r.generation = g /\ r.answer = tab[t].answer
    BY <1>1, <2>2 DEF Tab, Phases
  <2>5. /\ owner \in OwnerRow /\ owner.identity = tab[t].identity
        /\ owner.identity # 0 /\ owner.state = "active"
        /\ tab[t].seen = Snapshot
    BY <1>1, <2>1 DEF Confirmed, TypeOK, Consistent
  <2>6. /\ owner' \in OwnerRow /\ owner'.identity = owner.identity
        /\ owner'.state = "deauthorization_pending" /\ owner'.generation = g
    BY <2>1, <2>2, <2>5 DEF OwnerRow, States
  <2> HIDE DEF x, r
  <2>7. /\ attempts' \in Seq(Attempt) /\ Len(attempts') = g
        /\ attempts'[g] = x
        /\ \A k \in 1..Len(attempts) : attempts'[k] = attempts[k]
    BY <1>1, <2>1, <2>3 DEF TypeOK
  <2> HIDE DEF g
  <2>8. Grows
    <3>1. Len(attempts) <= g
      BY <2>2 DEF g
    <3> QED
      BY <2>7, <3>1 DEF Grows
  <2>9. tab'[t] = r /\ tab' \in [Tabs -> Tab]
    BY <1>1, <2>1, <2>4, TabUpdate
  <2>10. TypeOK'
    <3>1. Consistent(owner)'
      BY <2>2, <2>5, <2>6 DEF Consistent, Pending
    <3>2. Len(attempts') <= MaxAttempts
      BY <2>2, <2>7
    <3> QED
      BY <1>1, <2>1, <2>6, <2>7, <2>9, <3>1, <3>2 DEF TypeOK
  <2>11. Snapshot' = Snapshot
    BY <2>1, <2>6, SnapshotKept
  <2>12. AccountInv'
    <3>1. attempts'[owner'.generation].shown = Snapshot'
      BY <2>3, <2>5, <2>6, <2>7, <2>11
    <3>2. owner'.generation <= Len(attempts')
      BY <2>2, <2>6, <2>7
    <3> QED
      BY <1>1, <2>1, <2>6, <3>1, <3>2
      DEF AccountInv, AsShown, RevokedFirst, Pending
  <2>13. TabInv(t)'
    <3>1. attempts'[g].shown.identity = tab[t].identity
      BY <1>1, <2>3, <2>5, <2>7, SnapshotType
    <3>2. tab[t].answer = "completed" => tab[t].identity \notin identities
      BY <1>1 DEF TabInv
    <3> QED
      BY <1>1, <2>1, <2>2, <2>4, <2>7, <2>9, <3>1, <3>2 DEF TabInv, Calls
  <2>14. \A u \in Tabs \ {t} : ~Calls(u)
    BY <2>5 DEF UnlinkInv, TabInv
  <2> QED
    BY <2>1, <2>4, <2>8, <2>10, <2>12, <2>13, <2>14, MoveKeeps
<1> QED
  BY <1>2, <1>3

----------------------------------------------------------------------------
(* Under the advisory lock *)

LEMMA TryLockKeeps ==
  ASSUME UnlinkInv, NEW t \in Tabs, TryLock(t)
  PROVE  UnlinkInv'
<1>1. TypeOK /\ TabInv(t) /\ tab[t] \in Tab
  BY Fields DEF UnlinkInv
<1>2. CASE lock # Nobody /\ Answer(t, "refused")
  BY <1>1, <1>2, AnswerKeeps DEF TryLock, TypeOK, Answers
<1>3. CASE /\ lock = Nobody /\ lock' = t
           /\ Moves(t, [tab[t] EXCEPT !.phase = "reading"])
  <2> DEFINE r == [tab[t] EXCEPT !.phase = "reading"]
  <2>1. /\ r \in Tab /\ r.phase = "reading" /\ r.identity = tab[t].identity
        /\ r.generation = tab[t].generation /\ r.answer = tab[t].answer
    BY <1>1 DEF Tab, Phases
  <2>2. Moves(t, r)
    BY <1>3
  <2> HIDE DEF r
  <2>3. tab'[t] = r
    BY <1>1, <2>1, <2>2, TabUpdate
  <2>4. TabInv(t)'
    BY <1>1, <1>3, <2>1, <2>3 DEF TabInv, Calls, TryLock
  <2>5. \A u \in Tabs \ {t} : lock = u => lock' = u
    BY <1>3, Bounds
  <2> QED
    BY <1>3, <2>1, <2>2, <2>4, <2>5, QuietMove DEF TryLock
<1> QED
  BY <1>2, <1>3 DEF TryLock

(* LINE is only asked for an attempt found pending under the lock.          *)
LEMMA RereadKeeps ==
  ASSUME UnlinkInv, NEW t \in Tabs, Reread(t)
  PROVE  UnlinkInv'
<1>1. TypeOK /\ TabInv(t) /\ tab[t] \in Tab
  BY Fields DEF UnlinkInv
<1>2. CASE Answer(t, "refused")
  BY <1>1, <1>2, AnswerKeeps DEF Reread, TypeOK, Answers
<1>3. CASE ~Answer(t, "refused")
  <2>1. /\ tab[t].phase = "reading" /\ ~tab[t].broken /\ UNCHANGED lock
        /\ UNCHANGED <<owner, identities, recipients, sessions, used, line,
                       attempts>>
    BY <1>3 DEF Reread
  <2>2. PICK p \in {"finalizing", "calling"} :
          /\ Moves(t, [tab[t] EXCEPT !.phase = p])
          /\ p = "calling" => /\ owner.state = "deauthorization_pending"
                              /\ owner.generation = tab[t].generation
    BY <1>3 DEF Reread
  <2> DEFINE r == [tab[t] EXCEPT !.phase = p]
  <2>3. /\ r \in Tab /\ r.phase = p /\ r.identity = tab[t].identity
        /\ r.generation = tab[t].generation /\ r.answer = tab[t].answer
        /\ r.broken = tab[t].broken
    BY <1>1 DEF Tab, Phases
  <2>4. Moves(t, r)
    BY <2>2
  <2> HIDE DEF r
  <2>5. tab'[t] = r
    BY <1>1, <2>3, <2>4, TabUpdate
  <2>6. TabInv(t)'
    BY <1>1, <2>1, <2>2, <2>3, <2>5 DEF TabInv, Calls
  <2> QED
    BY <1>1, <2>1, <2>3, <2>4, <2>6, QuietMove DEF TypeOK
<1> QED
  BY <1>2, <1>3

(* 204 is recorded for the attempt of the request that asked.               *)
LEMMA DeauthorizeKeeps ==
  ASSUME UnlinkInv, NEW t \in Tabs, Deauthorize(t)
  PROVE  UnlinkInv'
<1>1. TypeOK /\ TabInv(t) /\ tab[t] \in Tab /\ AccountInv
  BY Fields DEF UnlinkInv
<1>2. line' \in [grant : 0..MaxGrants, live : BOOLEAN]
  BY <1>1 DEF Deauthorize, Revoke, TypeOK
<1>3. ASSUME NEW a \in {"pending", "refused"}, Answer(t, a),
             attempts' = attempts
      PROVE  UnlinkInv'
  BY <1>2, <1>3, AnswerKeeps DEF Deauthorize, Answers
<1>4. CASE /\ attempts' = [attempts EXCEPT
                             ![tab[t].generation].revoked = TRUE]
           /\ Moves(t, [tab[t] EXCEPT !.phase = "marking"])
           /\ UNCHANGED lock
  <2> DEFINE r == [tab[t] EXCEPT !.phase = "marking"]
             g == tab[t].generation
  <2>1. /\ r \in Tab /\ r.phase = "marking" /\ r.identity = tab[t].identity
        /\ r.generation = g /\ r.answer = tab[t].answer
        /\ r.broken = tab[t].broken
    BY <1>1 DEF Tab, Phases
  <2>2. Moves(t, r)
    BY <1>4
  <2> HIDE DEF r
  <2>3. tab'[t] = r /\ tab' \in [Tabs -> Tab]
    BY <1>1, <2>1, <2>2, TabUpdate
  <2>4. g \in 1..Len(attempts) /\ tab[t].phase = "calling"
    BY <1>1, Fields DEF TabInv, Deauthorize
  <2>5. /\ attempts' \in Seq(Attempt) /\ Len(attempts') = Len(attempts)
        /\ \A k \in 1..Len(attempts) :
             /\ attempts'[k].shown = attempts[k].shown
             /\ attempts[k].revoked => attempts'[k].revoked
        /\ attempts'[g].revoked
    <3> DEFINE x == [attempts[g] EXCEPT !.revoked = TRUE]
    <3>1. attempts \in Seq(Attempt)
      BY <1>1 DEF TypeOK
    <3>2. attempts[g] \in Attempt
      BY <2>4, <3>1
    <3>3. x \in Attempt /\ x.shown = attempts[g].shown /\ x.revoked
      BY <3>2 DEF Attempt
    <3>4. attempts' = [attempts EXCEPT ![g] = x]
      BY <1>4
    <3> HIDE DEF x, g
    <3> QED
      BY <2>4, <3>1, <3>3, <3>4
  <2>6. Grows
    BY <1>1, <2>5, Fields DEF Grows
  <2>7. UNCHANGED <<owner, identities, recipients, sessions, used, lock>>
    BY <1>4 DEF Deauthorize
  <2>8. TypeOK'
    BY <1>1, <1>2, <2>3, <2>5, <2>7 DEF TypeOK
  <2>9. AccountInv'
    <3>1. Snapshot' = Snapshot
      BY <2>7, SnapshotKept
    <3>2. owner.state \in Pending => owner.generation \in 1..Len(attempts)
      BY <1>1, Fields DEF TypeOK, Consistent, AccountInv
    <3> QED
      BY <1>1, <2>5, <2>7, <3>1, <3>2
      DEF AccountInv, AsShown, RevokedFirst, Pending
  <2>10. TabInv(t)'
    BY <1>1, <2>1, <2>3, <2>4, <2>5, <2>7 DEF TabInv, Calls
  <2> QED
    BY <2>1, <2>2, <2>6, <2>7, <2>8, <2>9, <2>10, MoveKeeps
<1> QED
  BY <1>3, <1>4 DEF Deauthorize

(* Only the holder of the lock calls LINE.                                  *)
LEMMA CallsAlone ==
  ASSUME UnlinkInv, NEW t \in Tabs, NEW u \in Tabs, Calls(t), Calls(u)
  PROVE  t = u
<1>1. TabInv(t) /\ TabInv(u)
  BY DEF UnlinkInv
<1> QED
  BY <1>1 DEF TabInv, Calls

(* The marker is set for the attempt LINE has revoked the app for.          *)
LEMMA MarkKeeps ==
  ASSUME UnlinkInv, NEW t \in Tabs, Mark(t)
  PROVE  UnlinkInv'
<1>1. TypeOK /\ TabInv(t) /\ tab[t] \in Tab /\ AccountInv
  BY Fields DEF UnlinkInv
<1>2. CASE Answer(t, "pending") /\ UNCHANGED owner
  BY <1>1, <1>2, AnswerKeeps DEF Mark, TypeOK, Answers
<1>3. CASE ~(Answer(t, "pending") /\ UNCHANGED owner)
  <2> DEFINE r == [tab[t] EXCEPT !.phase = "finalizing"]
  <2>1. /\ tab[t].phase = "marking" /\ ~tab[t].broken
        /\ owner.generation = tab[t].generation /\ owner.state \in Pending
        /\ owner' = [owner EXCEPT !.state = "local_deletion_pending"]
        /\ Moves(t, r)
        /\ UNCHANGED <<identities, recipients, sessions, used, line, lock,
                       attempts>>
    BY <1>3 DEF Mark
  <2>2. /\ r \in Tab /\ r.phase = "finalizing"
        /\ r.identity = tab[t].identity
        /\ r.generation = tab[t].generation /\ r.answer = tab[t].answer
    BY <1>1 DEF Tab, Phases
  <2> HIDE DEF r
  <2>3. tab'[t] = r /\ tab' \in [Tabs -> Tab]
    BY <1>1, <2>1, <2>2, TabUpdate
  <2>4. /\ owner' \in OwnerRow /\ owner'.state = "local_deletion_pending"
        /\ owner'.identity = owner.identity
        /\ owner'.generation = owner.generation
    BY <1>1, <2>1 DEF TypeOK, OwnerRow, States
  <2>5. TypeOK'
    <3>1. Consistent(owner)'
      BY <1>1, <2>1, <2>4 DEF TypeOK, Consistent, Pending
    <3> QED
      BY <1>1, <2>1, <2>3, <2>4, <3>1 DEF TypeOK
  <2>6. Snapshot' = Snapshot
    BY <2>1, <2>4, SnapshotKept
  <2>7. AccountInv'
    <3>1. attempts[owner.generation].revoked
      BY <1>1, <2>1 DEF TabInv
    <3> QED
      BY <1>1, <2>1, <2>4, <2>6, <3>1
      DEF AccountInv, AsShown, RevokedFirst, Pending
  <2>8. TabInv(t)'
    BY <1>1, <2>1, <2>2, <2>3 DEF TabInv, Calls
  <2>9. \A u \in Tabs \ {t} : ~Calls(u)
    BY <2>1, CallsAlone DEF Calls
  <2>10. Grows
    BY <1>1, <2>1, UnchangedGrows
  <2> QED
    BY <2>1, <2>2, <2>5, <2>7, <2>8, <2>9, <2>10, MoveKeeps
<1> QED
  BY <1>2, <1>3

LEMMA FinalizeKeeps ==
  ASSUME UnlinkInv, NEW t \in Tabs, Finalize(t)
  PROVE  UnlinkInv'
<1>1. TypeOK /\ TabInv(t) /\ tab[t] \in Tab /\ AccountInv
  BY Fields DEF UnlinkInv
<1>2. CASE UNCHANGED <<owner, identities, recipients, sessions>>
  <2>1. PICK a \in Answers :
          Answer(t, a) /\ (a = "completed" => owner.state = "vacant")
    BY <1>2 DEF Finalize, Answers, Delete, Finalizable
  <2> QED
    BY <1>1, <1>2, <2>1, AnswerKeeps DEF Finalize, TypeOK
<1>3. CASE Finalizable(t) /\ Delete /\ Answer(t, "completed")
  <2> DEFINE r == Answered(tab[t], "completed")
  <2>1. /\ r \in Tab /\ r.phase = "idle" /\ r.generation = 0
        /\ r.identity = tab[t].identity /\ Moves(t, r)
    BY <1>1, <1>3, AnsweredTab DEF Answer, Answers
  <2> HIDE DEF r
  <2>2. /\ tab' \in [Tabs -> Tab] /\ tab'[t] = r
        /\ \A u \in Tabs \ {t} : tab'[u] = tab[u]
    BY <1>1, <2>1, TabUpdate
  <2>3. /\ UNCHANGED <<used, line, attempts>>
        /\ lock' = IF lock = t THEN Nobody ELSE lock
        /\ owner' = [state |-> "vacant", identity |-> 0, generation |-> 0]
        /\ sessions' = {}
    BY <1>3 DEF Finalize, Delete, Answer, Release
  <2>4. identities' = {} /\ recipients' = {}
    BY <1>1, <1>3 DEF Delete, AccountInv
  <2>5. owner' \in OwnerRow /\ Consistent(owner)'
    <3>1. 0 \in 0..MaxIdentities /\ 0 \in 0..MaxAttempts
      BY Bounds
    <3> QED
      BY <2>3, <3>1 DEF OwnerRow, States, Consistent, Pending
  <2>6. TypeOK'
    BY <1>1, <2>2, <2>3, <2>4, <2>5 DEF TypeOK
  <2>7. AccountInv'
    BY <1>1, <2>3, <2>4, Fields DEF AccountInv, AsShown, RevokedFirst, Pending
  <2>8. TabInv(t)'
    BY <1>1, <2>1, <2>2, <2>3, <2>4, Fields DEF TabInv, Calls
  <2>9. \A u \in Tabs \ {t} : ~Calls(u)
    BY <1>3 DEF UnlinkInv, TabInv, Finalizable
  <2>10. Grows /\ \A u \in Tabs \ {t} : lock = u => lock' = u
    BY <1>1, <2>3, UnchangedGrows
  <2> QED
    BY <2>1, <2>3, <2>4, <2>6, <2>7, <2>8, <2>9, <2>10, MoveKeeps
<1> QED
  BY <1>2, <1>3 DEF Finalize

----------------------------------------------------------------------------
(* Failures *)

LEMMA FailureKeeps ==
  ASSUME UnlinkInv, NEW t \in Tabs, Failure(t)
  PROVE  UnlinkInv'
<1>1. TypeOK /\ TabInv(t) /\ tab[t] \in Tab
  BY Fields DEF UnlinkInv
<1>2. CASE Fault(t)
  BY <1>1, <1>2, AnswerKeeps DEF Fault, TypeOK, Answers
<1>3. CASE Crash(t)
  BY <1>1, <1>3, AnswerKeeps DEF Crash, TypeOK, Answers
<1>4. CASE LoseConnection(t)
  <2> DEFINE r == [tab[t] EXCEPT !.broken = TRUE]
  <2>1. /\ r \in Tab /\ r.phase = tab[t].phase
        /\ r.identity = tab[t].identity /\ r.broken
        /\ r.generation = tab[t].generation /\ r.answer = tab[t].answer
    BY <1>1 DEF Tab
  <2>2. Moves(t, r)
    BY <1>4 DEF LoseConnection
  <2> HIDE DEF r
  <2>3. tab'[t] = r
    BY <1>1, <2>1, <2>2, TabUpdate
  <2>4. TabInv(t)'
    BY <1>1, <1>4, <2>1, <2>3 DEF TabInv, Calls, LoseConnection
  <2> QED
    BY <1>4, <2>1, <2>2, <2>4, QuietMove DEF LoseConnection
<1> QED
  BY <1>2, <1>3, <1>4 DEF Failure

----------------------------------------------------------------------------
(* Every step, and what it means *)

LEMMA NextUnlink ==
  ASSUME UnlinkInv, [Next]_vars
  PROVE  UnlinkInv'
<1>1. CASE Consent \/ AddRecipient \/ RemoveRecipient
  BY <1>1, ConsentKeeps, RecipientsKeep
<1>2. CASE \E s \in Sessions : Login(s) \/ EndSession(s)
  BY <1>2, LoginKeeps, EndSessionKeeps
<1>3. ASSUME NEW t \in Tabs, Request(t)
      PROVE  UnlinkInv'
  <2>1. CASE Preview(t)
    BY <2>1, PreviewKeeps
  <2>2. CASE \E confirms \in BOOLEAN, grant \in {0, line.grant} :
               Authenticate(t, confirms, grant)
    BY <2>2, AuthenticateKeeps
  <2>3. CASE Read(t) \/ Prove(t) \/ Begin(t)
    BY <2>3, ReadKeeps, ProveKeeps, BeginKeeps
  <2>4. CASE TryLock(t) \/ Reread(t) \/ Deauthorize(t) \/ Mark(t)
    BY <2>4, TryLockKeeps, RereadKeeps, DeauthorizeKeeps, MarkKeeps
  <2>5. CASE Finalize(t)
    BY <2>5, FinalizeKeeps
  <2> QED
    BY <1>3, <2>1, <2>2, <2>3, <2>4, <2>5 DEF Request
<1>4. ASSUME NEW t \in Tabs, Failure(t)
      PROVE  UnlinkInv'
  BY <1>4, FailureKeeps
<1>5. CASE UNCHANGED vars
  <2>1. UNCHANGED <<owner, identities, recipients, sessions, used, lock, line,
                    attempts, tab>>
    BY <1>5 DEF vars
  <2>2. TypeOK' /\ Snapshot' = Snapshot
    BY <2>1, SnapshotKept DEF UnlinkInv, TypeOK
  <2>3. AccountInv'
    BY <2>1, <2>2 DEF UnlinkInv, AccountInv, AsShown, RevokedFirst
  <2>4. ASSUME NEW u \in Tabs PROVE TabInv(u)'
    BY <2>1 DEF UnlinkInv, TabInv, Calls
  <2> QED
    BY <2>2, <2>3, <2>4 DEF UnlinkInv
<1> QED
  BY <1>1, <1>2, <1>3, <1>4, <1>5 DEF Next, Account

(* The inductive invariant holds of every behaviour.                        *)
THEOREM UnlinkIsInvariant == Spec => []UnlinkInv
<1>1. Init => UnlinkInv
  BY InitUnlink
<1>2. UnlinkInv /\ [Next]_vars => UnlinkInv'
  BY NextUnlink
<1> QED
  BY <1>1, <1>2, PTL DEF Spec

(* The rows keep their types and the account its check constraint.          *)
THEOREM UnlinkTypes == Spec => []TypeOK
<1>1. UnlinkInv => TypeOK
  BY DEF UnlinkInv
<1> QED
  BY <1>1, UnlinkIsInvariant, PTL

(* Behind the fence is what the owner was shown (_start, begin_unlink).     *)
THEOREM DeletesWhatWasShown == Spec => []AsShown
<1>1. UnlinkInv => AsShown
  BY DEF UnlinkInv, AccountInv
<1> QED
  BY <1>1, UnlinkIsInvariant, PTL

(* Nothing is marked for deletion before LINE revoked the app for this very *)
(* attempt (_deauthorize, mark_line_deauthorized).                          *)
THEOREM MarkedIsRevoked == Spec => []RevokedFirst
<1>1. UnlinkInv => RevokedFirst
  BY DEF UnlinkInv, AccountInv
<1> QED
  BY <1>1, UnlinkIsInvariant, PTL

(* LINE is asked by one request at a time, for the attempt that waits for   *)
(* it, as long as the connection that holds the lock lives (_deauthorize).  *)
THEOREM SingleFlight == Spec => []CallsOnlyWhilePending
<1>1. ASSUME UnlinkInv PROVE CallsOnlyWhilePending
  BY <1>1, CallsAlone DEF UnlinkInv, TabInv, CallsOnlyWhilePending
<1> QED
  BY <1>1, UnlinkIsInvariant, PTL

(* A vacant account is empty and a completed request told the truth         *)
(* (finalize_unlink).                                                       *)
THEOREM NothingIsLeft == Spec => []NothingLeft
<1>1. ASSUME UnlinkInv PROVE NothingLeft
  <2>1. owner.state = "vacant" => identities = {} /\ recipients = {}
    BY <1>1 DEF UnlinkInv, AccountInv, TypeOK, Consistent, Row, Identity
  <2> QED
    BY <1>1, <2>1 DEF UnlinkInv, AccountInv, TabInv, NothingLeft
<1> QED
  BY <1>1, UnlinkIsInvariant, PTL

(* Whoever deletes an identity finishes the attempt its principal began.    *)
LEMMA OwnDataStep ==
  ASSUME UnlinkInv, [Next]_vars, NEW i \in identities \ identities'
  PROVE  \E t \in Tabs : /\ tab[t].phase = "finalizing"
                         /\ tab'[t].phase = "idle" /\ tab[t].identity = i
<1>1. TypeOK /\ AccountInv
  BY DEF UnlinkInv
<1>2. \E t \in Tabs : Finalize(t) /\ identities' # identities
  BY DEF Next, Account, Request, Failure, Consent, Login, EndSession,
     AddRecipient, RemoveRecipient, Preview, Authenticate, Read, Prove, Begin,
     TryLock, Reread, Deauthorize, Mark, Fault, Crash, LoseConnection, vars
<1>3. PICK t \in Tabs : Finalize(t) /\ identities' # identities
  BY <1>2
<1>4. /\ tab[t].phase = "finalizing" /\ Finalizable(t)
      /\ Answer(t, "completed")
  BY <1>3 DEF Finalize
<1>5. tab'[t].phase = "idle"
  <2>1. /\ tab[t] \in Tab /\ "completed" \in Answers
        /\ Moves(t, Answered(tab[t], "completed"))
    BY <1>1, <1>4, Fields DEF Answers, Answer
  <2> QED
    BY <1>1, <2>1, AnsweredTab, TabUpdate
<1>6. tab[t].identity = owner.identity
  <2>1. TabInv(t) /\ tab[t].generation > 0
    BY <1>4 DEF UnlinkInv, TabInv
  <2>2. Snapshot = attempts[owner.generation].shown
    BY <1>1, <1>4 DEF AccountInv, AsShown, Finalizable, Pending
  <2> QED
    BY <1>1, <1>4, <2>1, <2>2, SnapshotType DEF TabInv, Finalizable
<1>7. i = owner.identity
  BY <1>1 DEF AccountInv
<1> QED
  BY <1>4, <1>5, <1>6, <1>7

(* An identity is only deleted by a request of its own principal, whose     *)
(* attempt it is (finalize_unlink, _require_generation).                    *)
THEOREM OwnAccountOnly == Spec => OwnDataOnly
<1>1. UnlinkInv /\ [Next]_vars => [OwnDeletion]_vars
  BY OwnDataStep DEF OwnDeletion
<1> QED
  BY <1>1, UnlinkIsInvariant, PTL DEF Spec, OwnDataOnly

=============================================================================
