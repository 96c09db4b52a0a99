--------------------------- MODULE FriendshipSync ---------------------------
(***************************************************************************)
(* The friendship of the owner with one channel (backend/linefriendships    *)
(* and the recipients of backend/lineaccounts): follow and unfollow events, *)
(* handed over once each by the ingress in any order and concurrently, are  *)
(* projected onto the recipient row; meanwhile the owner's clients register *)
(* the recipient with the friendship LINE reports, switch it on and off,    *)
(* delete it, and the whole account is unlinked and linked again.           *)
(*                                                                         *)
(* A transaction holds the row locks of the owner account and of the        *)
(* channel until it ends; the recipient row is only ever locked by a holder *)
(* of the owner lock.  A transaction that loses a deadlock, waits too long, *)
(* meets a database error or dies with its worker is rolled back as a whole.*)
(* One unit of time is a millisecond.                                       *)
(***************************************************************************)
EXTENDS Integers, Sequences, FiniteSets, Bags, BagsExt

CONSTANTS
  Handlers,       \* workers that handle a follow or unfollow
  Clients,        \* HTTP requests of the owner on the recipient
  Free,           \* no holder of a lock
  Ids,            \* webhookEventIds, numbered in their byte order
  Direct,         \* LiffLinkedChannelPolicy.is_direct of the channel
  Initially,      \* what the owner is to the channel before the first event
  MaxNow,         \* bound on the clock
  MaxRepeats,     \* bound on the events handed over again
  MaxRows,        \* bound on the recipient rows ever created
  MaxIdentities   \* bound on the times the account is linked

ASSUME FriendshipAssumption ==
  /\ Handlers \cap Clients = {} /\ Free \notin Handlers \cup Clients
  /\ Ids \subseteq Nat
  /\ Direct \in BOOLEAN
  /\ Initially \in {"friend", "not_friend"}
  /\ MaxNow \in Nat /\ MaxRepeats \in Nat /\ MaxRows \in Nat
  /\ MaxIdentities \in Nat

VARIABLES
  now,      \* the clock of LINE and of the backend
  relation, \* what LINE holds the owner to be to the channel
  history,  \* the events so far, in the order they happened
  owner,    \* the OwnerAccount row
  row,      \* the DeliveryRecipient row of the owner and this channel
  rows,     \* recipient rows created so far
  audits,   \* table FriendshipSyncAudit: a bag, for nothing in it is unique
  locks,    \* who holds the row locks
  handler,  \* DefaultFriendshipSyncService.handle, per worker
  client    \* DefaultRecipientService, per request

vars == <<now, relation, history, owner, row, rows, audits, locks,
          handler, client>>

----------------------------------------------------------------------------
(* Types *)

States == {"friend", "not_friend", "unknown"}
\* not_projected stands for unlinked, unresolvable, out_of_scope and invalid.
Outcomes == {"applied", "state_maintained", "stale", "duplicate",
             "not_projected"}
Ops == {"register", "unlink"}

Event == [id : Ids, at : 0 .. MaxNow, kind : {"friend", "not_friend"},
          mine : BOOLEAN]

\* (last_friendship_event_occurred_at_ms, last_friendship_webhook_event_id)
Key == [at : 0 .. MaxNow, id : Ids]
NoKey == [at |-> -1, id |-> 0]

\* registered and fetched are not stored: the friendship the row was created
\* with, and the events that had happened when LINE was asked for it.
Recipient == [number : 1 .. MaxRows, created_at : 0 .. MaxNow, state : States,
              last : Key \cup {NoKey},
              registered : States, fetched : SUBSET Event]
NoRow == [number |-> 0]

Audit == [id : Ids, outcome : Outcomes, row : 0 .. MaxRows]
Worker == [pc : {"fenced"}, event : Event]
Request == [pc : {"idle", "check", "checking", "ask", "create", "creating"},
            op : Ops, identity : 0 .. MaxIdentities,
            seen : States, fetched : SUBSET Event]

Idle == [pc |-> "idle"]

Happened == {history[i] : i \in DOMAIN history}
Mine == {e \in Happened : e.mine}
KeyOf(e) == [at |-> e.at, id |-> e.id]
Precedes(k, l) == k.at < l.at \/ (k.at = l.at /\ k.id < l.id)

Init ==
  /\ now = 0
  /\ relation = Initially
  /\ history = <<>>
  /\ owner = [state |-> "active", identity |-> 1]
  /\ row = NoRow /\ rows = 0
  /\ audits = EmptyBag
  /\ locks = [owner |-> Free, channel |-> Free]
  /\ handler = [h \in Handlers |-> Idle]
  /\ client = [c \in Clients |-> Idle]

----------------------------------------------------------------------------
(* The owner and LINE *)

\* Ids begin with their time, and are in no order within a millisecond.
NewId(id) == \A e \in Happened : id # e.id /\ (e.at < now => id > e.id)

\* The owner follows or blocks the channel.
Change(id) ==
  /\ NewId(id)
  /\ relation' = IF relation = "friend" THEN "not_friend" ELSE "friend"
  /\ history' = Append(history, [id |-> id, at |-> now, kind |-> relation',
                                 mine |-> TRUE])
  /\ UNCHANGED <<now, owner, row, rows, audits, locks, handler, client>>

\* Somebody else follows, or the event is one of a group, is malformed or of a
\* channel without a provider.
Stray(id) ==
  /\ NewId(id)
  /\ Happened = Mine
  /\ history' = Append(history, [id |-> id, at |-> now, kind |-> "friend",
                                 mine |-> FALSE])
  /\ UNCHANGED <<now, relation, owner, row, rows, audits, locks, handler,
                 client>>

Tick ==
  /\ now < MaxNow
  /\ now' = now + 1
  /\ UNCHANGED <<relation, history, owner, row, rows, audits, locks,
                 handler, client>>

----------------------------------------------------------------------------
(* The handler of an event *)

\* A transaction ends.
Release(p) == [k \in DOMAIN locks |-> IF locks[k] = p THEN Free ELSE locks[k]]

Record(e, outcome, number) ==
  audits' = BagAdd(audits, [id |-> e.id, outcome |-> outcome, row |-> number])

Audited == {a.id : a \in BagToSet(audits)}

\* The events that come in next: in any order and perhaps not for the first
\* time.
Delivered ==
  {e \in Happened :
     e.id \in Audited =>
       BagCardinality(audits) < Cardinality(Audited) + MaxRepeats}

\* An event that is not read as the owner's is only recorded.
RecordNonUpdate(h) ==
  /\ handler[h].pc = "idle"
  /\ locks.channel = Free
  /\ \E e \in Delivered : ~e.mine /\ Record(e, "not_projected", 0)
  /\ UNCHANGED <<now, relation, history, owner, row, rows, locks, handler,
                 client>>

\* The transaction of an event begins with the lock of the channel.
LockReference(h) ==
  /\ handler[h].pc = "idle"
  /\ locks.channel = Free
  /\ locks' = [locks EXCEPT !.channel = h]
  /\ \E e \in Delivered :
       handler' = [handler EXCEPT ![h] = [pc |-> "fenced", event |-> e]]
  /\ UNCHANGED <<now, relation, history, owner, row, rows, audits,
                 client>>

\* Mutants: events of before the registration count; an event is as new as
\* itself.
Decision_NoBaseline(e) ==
  IF row.last # NoKey /\ row.last.id = e.id THEN "duplicate"
  ELSE IF row.last # NoKey /\ ~Precedes(row.last, KeyOf(e)) THEN "stale"
  ELSE IF row.state = e.kind THEN "state_maintained"
  ELSE "applied"
Decision_Again(e) ==
  IF e.at <= row.created_at THEN "stale"
  ELSE IF row.last # NoKey /\ Precedes(KeyOf(e), row.last) THEN "stale"
  ELSE IF row.state = e.kind THEN "state_maintained"
  ELSE "applied"

\* decide_projection: the registration is the baseline, then the stored key.
Decision(e) ==
  IF e.at <= row.created_at THEN "stale"
  ELSE IF row.last # NoKey /\ row.last.id = e.id THEN "duplicate"
  ELSE IF row.last # NoKey /\ ~Precedes(row.last, KeyOf(e)) THEN "stale"
  ELSE IF row.state = e.kind THEN "state_maintained"
  ELSE "applied"

\* Mutant: an event that confirms the state leaves the key as it is.
Applied_Unconfirmed(e, outcome) ==
  IF outcome = "applied"
  THEN [row EXCEPT !.state = e.kind, !.last = KeyOf(e)]
  ELSE row

\* The update of the recipient that goes with an outcome.
Applied(e, outcome) ==
  IF outcome \in {"applied", "state_maintained"}
  THEN [row EXCEPT !.state = e.kind, !.last = KeyOf(e)]
  ELSE row

Target(e) == owner.state = "active" /\ e.mine /\ row # NoRow

\* lock_target, the decision, the update and the audit row, and the commit.
Project(h) ==
  LET e == handler[h].event IN
  /\ handler[h].pc = "fenced"
  /\ locks.owner = Free
  /\ IF Target(e)
     THEN /\ row' = Applied(e, Decision(e))
          /\ Record(e, Decision(e), row.number)
     ELSE /\ Record(e, "not_projected", 0)
          /\ UNCHANGED row
  /\ locks' = Release(h)
  /\ handler' = [handler EXCEPT ![h] = Idle]
  /\ UNCHANGED <<now, relation, history, owner, rows, client>>

\* HandlerFailed, or the end of the worker: the transaction is rolled back.
Fail(h) ==
  /\ handler[h].pc # "idle"
  /\ locks' = Release(h)
  /\ handler' = [handler EXCEPT ![h] = Idle]
  /\ UNCHANGED <<now, relation, history, owner, row, rows, audits,
                 client>>

----------------------------------------------------------------------------
(* The owner's requests on the recipient *)

Registering == {c \in Clients : client[c].pc # "idle" /\ client[c].op = "register"}

\* A request of a session: the identity is the one the session belongs to,
\* the channel is looked at before a registration begins.
Submit(c, op) ==
  /\ client[c].pc = "idle"
  /\ owner.state = "active"
  /\ op = "register" => rows + Cardinality(Registering) < MaxRows
  /\ client' = [client EXCEPT ![c] =
       [pc |-> "check", op |-> op, identity |-> owner.identity,
        seen |-> "unknown", fetched |-> {}]]
  /\ UNCHANGED <<now, relation, history, owner, row, rows, audits,
                 locks, handler>>

\* lock_owner_account, at the start of either transaction of a request.
LockOwner(c) ==
  /\ client[c].pc \in {"check", "create"}
  /\ locks.owner = Free
  /\ locks' = [locks EXCEPT !.owner = c]
  /\ client' = [client EXCEPT ![c].pc =
       IF client[c].pc = "check" THEN "checking" ELSE "creating"]
  /\ UNCHANGED <<now, relation, history, owner, row, rows, audits,
                 handler>>

\* _active_owner_for_identity
StillMine(c) == owner.state = "active" /\ owner.identity = client[c].identity

\* The first transaction ends: nothing is there to work on, or the owner has
\* gone.  A registration goes on to ask LINE.
NothingThere(c) ==
  /\ client[c].pc = "checking"
  /\ ~StillMine(c) \/ row = NoRow
  /\ locks' = Release(c)
  /\ client' = [client EXCEPT ![c] =
       IF StillMine(c) /\ client[c].op = "register"
       THEN [client[c] EXCEPT !.pc = "ask"]
       ELSE Idle]
  /\ UNCHANGED <<now, relation, history, owner, row, rows, audits,
                 handler>>

\* A registration finds its recipient, or an unlink deletes it.  The locking
\* read of the recipient joins the channel and locks its row too.  set_enabled
\* takes the same locks as a registration that finds its recipient and changes
\* nothing else this module keeps.
Mutate(c) ==
  /\ client[c].pc = "checking"
  /\ StillMine(c) /\ row # NoRow
  /\ locks.channel = Free
  /\ row' = IF client[c].op = "unlink" THEN NoRow ELSE row
  /\ locks' = Release(c)
  /\ client' = [client EXCEPT ![c] = Idle]
  /\ UNCHANGED <<now, relation, history, owner, rows, audits, handler>>

\* get_friendship, between the two transactions of a registration.
Ask(c) ==
  /\ client[c].pc = "ask"
  /\ client' = [client EXCEPT ![c].pc = "create",
       ![c].seen = IF Direct THEN relation ELSE "unknown",
       ![c].fetched = Mine]
  /\ UNCHANGED <<now, relation, history, owner, row, rows, audits,
                 locks, handler>>

NewRecipient(c) ==
  [number |-> rows + 1, created_at |-> now, state |-> client[c].seen,
   last |-> NoKey,
   registered |-> client[c].seen, fetched |-> client[c].fetched]

\* create_recipient: the fence of the channel, then the insert, or the row
\* another request has inserted meanwhile.
Create(c) ==
  /\ client[c].pc = "creating"
  /\ locks.channel = Free
  /\ IF StillMine(c) /\ row = NoRow
     THEN row' = NewRecipient(c) /\ rows' = rows + 1
     ELSE UNCHANGED <<row, rows>>
  /\ locks' = Release(c)
  /\ client' = [client EXCEPT ![c] = Idle]
  /\ UNCHANGED <<now, relation, history, owner, audits, handler>>

\* An error of LINE or of the database, or the end of the request.
Abandon(c) ==
  /\ client[c].pc # "idle"
  /\ locks' = Release(c)
  /\ client' = [client EXCEPT ![c] = Idle]
  /\ UNCHANGED <<now, relation, history, owner, row, rows, audits,
                 handler>>

----------------------------------------------------------------------------
(* The link of the whole account *)

\* begin_unlink
BeginUnlink ==
  /\ owner.state = "active" /\ locks.owner = Free
  /\ owner' = [owner EXCEPT !.state = "unlinking"]
  /\ UNCHANGED <<now, relation, history, row, rows, audits, locks,
                 handler, client>>

\* finalize_unlink: the recipients go with the identity.
FinalizeUnlink ==
  /\ owner.state = "unlinking" /\ locks.owner = Free
  /\ owner' = [owner EXCEPT !.state = "vacant"]
  /\ row' = NoRow
  /\ UNCHANGED <<now, relation, history, rows, audits, locks, handler,
                 client>>

\* bind_owner: a new login makes a new identity.
LinkAgain ==
  /\ owner.state = "vacant" /\ locks.owner = Free
  /\ owner.identity < MaxIdentities
  /\ owner' = [state |-> "active", identity |-> owner.identity + 1]
  /\ UNCHANGED <<now, relation, history, row, rows, audits, locks,
                 handler, client>>

----------------------------------------------------------------------------
HandlerStep(h) ==
  RecordNonUpdate(h) \/ LockReference(h) \/ Project(h) \/ Fail(h)
ClientStep(c) ==
  \/ \E op \in Ops : Submit(c, op)
  \/ LockOwner(c) \/ NothingThere(c) \/ Mutate(c) \/ Ask(c) \/ Create(c)
  \/ Abandon(c)

Next ==
  \/ \E id \in Ids : Change(id) \/ Stray(id)
  \/ Tick
  \/ \E h \in Handlers : HandlerStep(h)
  \/ \E c \in Clients : ClientStep(c)
  \/ BeginUnlink \/ FinalizeUnlink \/ LinkAgain

Spec == Init /\ [][Next]_vars

\* Each of the two waits for a lock the other one holds.
Deadlocked(h, c) ==
  /\ locks.channel = h /\ handler[h].pc = "fenced"
  /\ locks.owner = c
  /\ \/ client[c].pc = "checking" /\ StillMine(c) /\ row # NoRow
     \/ client[c].pc = "creating"

----------------------------------------------------------------------------
(* Properties *)

\* The rows and the requests have their types, and a lock is held exactly by
\* those who have taken it.
TypeOK ==
  /\ now \in 0 .. MaxNow
  /\ Happened \subseteq Event
  /\ row \in Recipient \cup {NoRow} /\ rows \in 0 .. MaxRows
  /\ IsABag(audits) /\ BagToSet(audits) \subseteq Audit
  /\ handler \in [Handlers -> Worker \cup {Idle}]
  /\ client \in [Clients -> Request \cup {Idle}]
  /\ \A h \in Handlers : locks.channel = h <=> handler[h].pc = "fenced"
  /\ \A c \in Clients :
       locks.owner = c <=> client[c].pc \in {"checking", "creating"}

\* The events after the registration that were projected onto the row now
\* there, whatever became of them.
Heard == {e \in Mine : /\ e.at > row.created_at
                       /\ \E a \in BagToSet(audits) :
                            a.id = e.id /\ a.row = row.number}

\* The recipient shows the newest of the events it was told of, newest by the
\* time LINE stamped on it and then by its id, in whatever order and however
\* often they were delivered; with none of them it shows what it was
\* registered with, and no event of before its registration counts
\* (decide_projection, apply_locked; requirements 4.2 to 4.8, 5.5).
NewestWins ==
  row # NoRow =>
    IF Heard = {}
    THEN row.state = row.registered /\ row.last = NoKey
    ELSE \E e \in Heard :
           /\ \A f \in Heard \ {e} : Precedes(KeyOf(f), KeyOf(e))
           /\ row.last = KeyOf(e) /\ row.state = e.kind

\* The events LINE had not taken into account when it was asked.
Since == Mine \ row.fetched

\* Once the row was told of the last event since LINE was asked for the
\* friendship, it shows the friendship LINE holds, be earlier events lost or
\* delayed: unless an event fell between the question and the end of the
\* millisecond of the registration, or events of one millisecond have ids
\* against their order (registration in two transactions, baseline, keys).
TrueWhenHeard ==
  LET last == CHOOSE e \in Since : \A f \in Since : ~Precedes(KeyOf(e), KeyOf(f)) IN
  /\ row # NoRow
  /\ \A e \in Since : e.at > row.created_at
  /\ \A i, j \in DOMAIN history :
       i < j => Precedes(KeyOf(history[i]), KeyOf(history[j]))
  /\ Since # {} => last \in Heard
  => \/ row.state = relation
     \/ row.state = "unknown" /\ Since = {} /\ ~Direct

\* The audit rows of an event that changed or confirmed a recipient.
Effective == {a \in BagToSet(audits) : a.outcome \in {"applied", "state_maintained"}}

\* Whatever is handed over how often, an event changes or confirms a recipient
\* at most once: there is one audit row of the kind for it, in one copy, and
\* every other row of it says that nothing was done.
EffectOnce ==
  \A a \in Effective :
    /\ audits[a] = 1
    /\ \A b \in Effective : a.id = b.id /\ a.row = b.row => a = b

\* Handlers and requests take their locks in one order
\* (line-friendship-sync/design.md:741).
SameLockOrder == \A h \in Handlers, c \in Clients : ~Deadlocked(h, c)

=============================================================================
