---------------------------- MODULE AccountUnlink ----------------------------
(***************************************************************************)
(* The owner unlinks the whole account (backend/lineaccounts): after a      *)
(* preview of what will be deleted, a first transaction closes the account  *)
(* behind a fence, LINE is asked to revoke the authorization of the app, a  *)
(* second transaction records that LINE did, and a third deletes recipients,*)
(* sessions and identity.  LINE is asked under an advisory lock of the      *)
(* database connection; requests of several browser tabs overlap, are       *)
(* repeated, die with their worker or lose their connection, while the owner*)
(* logs in and out, consents again and changes recipients.                  *)
(*                                                                         *)
(* A transaction is one step: it holds the row of the OwnerAccount from its *)
(* beginning to its end.                                                    *)
(***************************************************************************)
EXTENDS Integers, Sequences, FiniteSets

CONSTANTS
  Tabs,           \* browser tabs, each with one request at a time
  Nobody,         \* no tab
  Sessions,       \* rows of OwnerSession
  MaxIdentities,  \* bound on the times the account is linked
  MaxRows,        \* bound on the recipients ever created
  MaxAttempts,    \* bound on the unlinks ever begun
  MaxGrants       \* bound on the times the owner consents on LINE

ASSUME UnlinkAssumption ==
  /\ Nobody \notin Tabs
  /\ MaxIdentities \in Nat /\ MaxRows \in Nat
  /\ MaxAttempts \in Nat /\ MaxGrants \in Nat

VARIABLES
  owner,       \* the row of OwnerAccount
  identities,  \* table LineIdentity
  recipients,  \* table DeliveryRecipient
  sessions,    \* table OwnerSession
  used,        \* identities and recipients created so far
  lock,        \* the holder of GET_LOCK('lineaccounts-unlink-owner-1-v1')
  line,        \* what LINE knows: the grants of the owner to the app
  attempts,    \* per unlink begun: what the owner was shown, what LINE said
  tab          \* the browser tabs and their requests

vars == <<owner, identities, recipients, sessions, used, lock, line,
          attempts, tab>>

----------------------------------------------------------------------------
(* Types *)

States == {"vacant", "active", "deauthorization_pending",
           "local_deletion_pending"}
Pending == {"deauthorization_pending", "local_deletion_pending"}

Identity == 1..MaxIdentities
Generation == 1..MaxAttempts
Row == [id : 1..MaxRows, identity : Identity]

\* No identity and no generation are 0, the NULL of the row.
OwnerRow == [state : States, identity : 0..MaxIdentities,
             generation : 0..MaxAttempts]

\* lineacct_owner_state_consistent; line_deauthorized_at is part of the state.
Consistent(o) ==
  /\ (o.identity = 0) <=> (o.state = "vacant")
  /\ (o.generation = 0) <=> (o.state \notin Pending)

Snapshots == [identity : 0..MaxIdentities, recipients : SUBSET (1..MaxRows)]
NotShown == [identity |-> 0, recipients |-> {}]

Attempt == [shown : Snapshots, revoked : BOOLEAN]

Phases == {"idle", "authenticated", "proving", "beginning", "locking",
           "reading", "calling", "marking", "finalizing"}
Answers == {"none", "completed", "pending", "refused"}

Tab == [phase : Phases,
        seen : Snapshots,             \* the confirmation it holds
        identity : 0..MaxIdentities,  \* OwnerPrincipal of its last request
        confirms : BOOLEAN,           \* the request carries the confirmation
        grant : 0..MaxGrants,         \* the grant of its user token, 0: none
        generation : 0..MaxAttempts,  \* the attempt it works for
        broken : BOOLEAN,             \* its connection to MySQL is lost
        answer : Answers]

TypeOK ==
  /\ owner \in OwnerRow /\ Consistent(owner)
  /\ identities \subseteq Identity
  /\ recipients \subseteq Row
  /\ sessions \subseteq Sessions
  /\ used \in [identities : 0..MaxIdentities, rows : 0..MaxRows]
  /\ lock \in Tabs \cup {Nobody}
  /\ line \in [grant : 0..MaxGrants, live : BOOLEAN]
  /\ attempts \in Seq(Attempt) /\ Len(attempts) <= MaxAttempts
  /\ tab \in [Tabs -> Tab]

----------------------------------------------------------------------------
(* The account beside the unlink *)

Snapshot ==
  [identity |-> owner.identity,
   recipients |-> {r.id : r \in {x \in recipients :
                                   x.identity = owner.identity}}]

\* The owner consents on LINE, or consents again after a revocation.
Consent ==
  /\ ~line.live /\ line.grant < MaxGrants
  /\ line' = [grant |-> line.grant + 1, live |-> TRUE]
  /\ UNCHANGED <<owner, identities, recipients, sessions, used, lock,
                 attempts, tab>>

\* establish: an ID token outlives the consent it was made under.  A vacant
\* account is linked to a new identity, any other keeps its state and only
\* gains a session.
Login(s) ==
  /\ line.grant > 0 /\ s \notin sessions
  /\ sessions' = sessions \cup {s}
  /\ \/ /\ owner.state = "vacant" /\ used.identities < MaxIdentities
        /\ used' = [used EXCEPT !.identities = @ + 1]
        /\ identities' = identities \cup {used.identities + 1}
        /\ owner' = [owner EXCEPT !.identity = used.identities + 1,
                                  !.state = "active"]
     \/ owner.state # "vacant" /\ UNCHANGED <<owner, identities, used>>
  /\ UNCHANGED <<recipients, lock, line, attempts, tab>>

\* logout, or get_session of an expired session
EndSession(s) ==
  /\ s \in sessions
  /\ sessions' = sessions \ {s}
  /\ UNCHANGED <<owner, identities, recipients, used, lock, line, attempts,
                 tab>>

\* register and unlink of a recipient, behind _active_owner_for_identity
AddRecipient ==
  /\ sessions # {} /\ owner.state = "active" /\ used.rows < MaxRows
  /\ used' = [used EXCEPT !.rows = @ + 1]
  /\ recipients' = recipients \cup
                     {[id |-> used.rows + 1, identity |-> owner.identity]}
  /\ UNCHANGED <<owner, identities, sessions, lock, line, attempts, tab>>

RemoveRecipient ==
  /\ sessions # {} /\ owner.state = "active"
  /\ \E r \in recipients : /\ r.identity = owner.identity
                           /\ recipients' = recipients \ {r}
  /\ UNCHANGED <<owner, identities, sessions, used, lock, line, attempts,
                 tab>>

----------------------------------------------------------------------------
(* A request to unlink *)

Moves(t, r) == tab' = [tab EXCEPT ![t] = r]

\* The request ends with an answer and gives the advisory lock back, which
\* fails on a lost connection: storage_unavailable then replaces the answer.
Answered(r, a) ==
  [r EXCEPT !.phase = "idle", !.confirms = FALSE, !.grant = 0,
            !.generation = 0, !.broken = FALSE,
            !.answer = IF r.broken THEN "refused" ELSE a]

Release(t) == lock' = IF lock = t THEN Nobody ELSE lock

Answer(t, a) == Moves(t, Answered(tab[t], a)) /\ Release(t)

Preview(t) ==
  /\ tab[t].phase = "idle" /\ sessions # {} /\ owner.state = "active"
  /\ Moves(t, [tab[t] EXCEPT !.seen = Snapshot, !.answer = "none"])
  /\ UNCHANGED <<owner, identities, recipients, sessions, used, lock, line,
                 attempts>>

\* _valid_request_shape, and UnlinkRequestSerializer before it: a confirmation
\* and a user token begin an unlink, a user token resumes it, neither finishes it.
FitsState(state, confirms, grant) ==
  CASE state = "active" -> confirms /\ grant > 0
    [] state = "deauthorization_pending" -> ~confirms /\ grant > 0
    [] state = "local_deletion_pending" -> ~confirms /\ grant = 0
    [] OTHER -> FALSE

\* The session gives the principal; the view goes on to the service.
Authenticate(t, confirms, grant) ==
  /\ tab[t].phase = "idle" /\ sessions # {} /\ owner.identity # 0
  /\ FitsState(owner.state, confirms, grant)
  /\ confirms => tab[t].seen # NotShown
  /\ Moves(t, [tab[t] EXCEPT !.phase = "authenticated",
                             !.identity = owner.identity,
                             !.confirms = confirms, !.grant = grant,
                             !.answer = "none"])
  /\ UNCHANGED <<owner, identities, recipients, sessions, used, lock, line,
                 attempts>>

\* execute reads the account, in whatever state it is by now.
Accepts(t) ==
  /\ owner.identity = tab[t].identity
  /\ FitsState(owner.state, tab[t].confirms, tab[t].grant)

Read(t) ==
  /\ tab[t].phase = "authenticated"
  /\ \/ ~Accepts(t) /\ Answer(t, "refused")
     \/ /\ Accepts(t) /\ owner.state = "local_deletion_pending"
        /\ Moves(t, [tab[t] EXCEPT !.phase = "finalizing",
                                   !.generation = owner.generation])
        /\ UNCHANGED lock
     \/ /\ Accepts(t) /\ owner.state # "local_deletion_pending"
        /\ Moves(t, [tab[t] EXCEPT !.phase = "proving",
                                   !.generation = owner.generation])
        /\ UNCHANGED lock
  /\ UNCHANGED <<owner, identities, recipients, sessions, used, line,
                 attempts>>

\* _verify_token: LINE knows the user token and it is the principal's.
Prove(t) ==
  /\ tab[t].phase = "proving"
  /\ tab[t].identity \in identities
  /\ line.live /\ tab[t].grant = line.grant
  /\ Moves(t, [tab[t] EXCEPT !.phase = IF tab[t].generation = 0
                                         THEN "beginning" ELSE "locking"])
  /\ UNCHANGED <<owner, identities, recipients, sessions, used, lock, line,
                 attempts>>

\* Mutant: the confirmation is only checked before LINE is asked.
Confirmed_NoSnapshot(t) ==
  owner.identity = tab[t].identity /\ owner.state = "active"

\* The transaction of _start: the account is still active and the principal's
\* and the confirmation is of what there is now.
Confirmed(t) ==
  /\ owner.identity = tab[t].identity /\ owner.state = "active"
  /\ tab[t].seen = Snapshot

Begin(t) ==
  /\ tab[t].phase = "beginning"
  /\ \/ ~Confirmed(t) /\ Answer(t, "refused") /\ UNCHANGED <<owner, attempts>>
     \/ /\ Confirmed(t) /\ Len(attempts) < MaxAttempts
        /\ attempts' = Append(attempts, [shown |-> tab[t].seen,
                                         revoked |-> FALSE])
        /\ owner' = [owner EXCEPT !.state = "deauthorization_pending",
                                  !.generation = Len(attempts) + 1]
        /\ Moves(t, [tab[t] EXCEPT !.phase = "locking",
                                   !.generation = Len(attempts) + 1])
        /\ UNCHANGED lock
  /\ UNCHANGED <<identities, recipients, sessions, used, line>>

\* GET_LOCK waits for nothing.
TryLock(t) ==
  /\ tab[t].phase = "locking"
  /\ \/ /\ lock = Nobody /\ lock' = t
        /\ Moves(t, [tab[t] EXCEPT !.phase = "reading"])
     \/ lock # Nobody /\ Answer(t, "refused")
  /\ UNCHANGED <<owner, identities, recipients, sessions, used, line,
                 attempts>>

\* Mutant: whoever has the lock calls LINE.
Reread_Trusting(t) ==
  /\ tab[t].phase = "reading" /\ ~tab[t].broken
  /\ Moves(t, [tab[t] EXCEPT !.phase = "calling"])
  /\ UNCHANGED <<owner, identities, recipients, sessions, used, lock, line,
                 attempts>>

\* Under the lock the account is read again.
Reread(t) ==
  /\ tab[t].phase = "reading" /\ ~tab[t].broken
  /\ \/ /\ \/ owner.generation # tab[t].generation
           \/ owner.state \notin Pending
        /\ Answer(t, "refused")
     \/ /\ owner.generation = tab[t].generation
        /\ owner.state = "local_deletion_pending"
        /\ Moves(t, [tab[t] EXCEPT !.phase = "finalizing"])
        /\ UNCHANGED lock
     \/ /\ owner.generation = tab[t].generation
        /\ owner.state = "deauthorization_pending"
        /\ Moves(t, [tab[t] EXCEPT !.phase = "calling"])
        /\ UNCHANGED lock
  /\ UNCHANGED <<owner, identities, recipients, sessions, used, line,
                 attempts>>

\* LINE revokes a grant it still holds.
Revoke(t) ==
  /\ line.live /\ tab[t].grant = line.grant
  /\ line' = [line EXCEPT !.live = FALSE]

\* Mutant: a refusal (400) is taken for a revocation done before.
Deauthorize_RefusedIsDone(t) ==
  /\ tab[t].phase = "calling"
  /\ \/ /\ Revoke(t)
        /\ attempts' = [attempts EXCEPT ![tab[t].generation].revoked = TRUE]
     \/ UNCHANGED <<line, attempts>>
  /\ Moves(t, [tab[t] EXCEPT !.phase = "marking"])
  /\ UNCHANGED <<owner, identities, recipients, sessions, used, lock>>

\* Only 204 says so; a request LINE refuses, or whose answer is lost, leaves
\* the attempt pending.
Deauthorize(t) ==
  /\ tab[t].phase = "calling"
  /\ \/ /\ Revoke(t)
        /\ attempts' = [attempts EXCEPT ![tab[t].generation].revoked = TRUE]
        /\ Moves(t, [tab[t] EXCEPT !.phase = "marking"])
        /\ UNCHANGED lock
     \/ Revoke(t) /\ Answer(t, "pending") /\ UNCHANGED attempts
     \/ /\ \E a \in {"pending", "refused"} : Answer(t, a)
        /\ UNCHANGED <<line, attempts>>
  /\ UNCHANGED <<owner, identities, recipients, sessions, used>>

\* mark_line_deauthorized; every failure leaves the attempt pending.
Mark(t) ==
  /\ tab[t].phase = "marking"
  /\ \/ Answer(t, "pending") /\ UNCHANGED owner
     \/ /\ ~tab[t].broken /\ owner.generation = tab[t].generation
        /\ owner.state \in Pending
        /\ owner' = [owner EXCEPT !.state = "local_deletion_pending"]
        /\ Moves(t, [tab[t] EXCEPT !.phase = "finalizing"])
        /\ UNCHANGED lock
  /\ UNCHANGED <<identities, recipients, sessions, used, line, attempts>>

\* Mutant: finalize_unlink without the expected generation.
Finalizable_AnyAttempt(t) == owner.state = "local_deletion_pending"

\* _finalize, outside the advisory lock for a request that only finishes.
Finalizable(t) ==
  /\ owner.generation = tab[t].generation
  /\ owner.state = "local_deletion_pending"

\* Mutant: the session ledger is left to expire.
Delete_KeepsSessions ==
  /\ recipients' = {r \in recipients : r.identity # owner.identity}
  /\ sessions' = sessions
  /\ identities' = identities \ {owner.identity}
  /\ owner' = [state |-> "vacant", identity |-> 0, generation |-> 0]

Delete ==
  /\ recipients' = {r \in recipients : r.identity # owner.identity}
  /\ sessions' = {}
  /\ identities' = identities \ {owner.identity}
  /\ owner' = [state |-> "vacant", identity |-> 0, generation |-> 0]

Finalize(t) ==
  /\ tab[t].phase = "finalizing"
  /\ \/ /\ ~tab[t].broken /\ Finalizable(t)
        /\ Delete
        /\ Answer(t, "completed")
     \/ /\ ~tab[t].broken /\ ~Finalizable(t)
        /\ Answer(t, IF owner.state = "vacant" THEN "completed" ELSE "refused")
        /\ UNCHANGED <<owner, identities, recipients, sessions>>
     \/ /\ Answer(t, "pending")
        /\ UNCHANGED <<owner, identities, recipients, sessions>>
  /\ UNCHANGED <<used, line, attempts>>

----------------------------------------------------------------------------
(* What may go wrong *)

\* A database error, a proof LINE refuses, LINE not answering, a confirmation
\* that has expired (the request's own time of arrival decides).
Fault(t) ==
  /\ tab[t].phase \in {"authenticated", "proving", "beginning", "locking",
                       "reading"}
  /\ Answer(t, "refused")
  /\ UNCHANGED <<owner, identities, recipients, sessions, used, line,
                 attempts>>

\* The worker dies: its connection and the lock on it go with it.
Crash(t) ==
  /\ tab[t].phase # "idle"
  /\ Answer(t, "none")
  /\ UNCHANGED <<owner, identities, recipients, sessions, used, line,
                 attempts>>

\* MySQL drops the connection of a holder of the lock, and the lock; the
\* worker only notices at its next statement.
LoseConnection(t) ==
  /\ lock = t /\ lock' = Nobody
  /\ Moves(t, [tab[t] EXCEPT !.broken = TRUE])
  /\ UNCHANGED <<owner, identities, recipients, sessions, used, line,
                 attempts>>

----------------------------------------------------------------------------
(* Specification *)

Init ==
  /\ owner = [state |-> "vacant", identity |-> 0, generation |-> 0]
  /\ identities = {} /\ recipients = {} /\ sessions = {}
  /\ used = [identities |-> 0, rows |-> 0]
  /\ lock = Nobody
  /\ line = [grant |-> 0, live |-> FALSE]
  /\ attempts = <<>>
  /\ tab = [t \in Tabs |-> [phase |-> "idle", seen |-> NotShown,
                            identity |-> 0, confirms |-> FALSE, grant |-> 0,
                            generation |-> 0, broken |-> FALSE,
                            answer |-> "none"]]

Account ==
  \/ Consent \/ AddRecipient \/ RemoveRecipient
  \/ \E s \in Sessions : Login(s) \/ EndSession(s)

\* A fresh user token is of the present grant, an old one may be of any.
Request(t) ==
  \/ Preview(t)
  \/ \E confirms \in BOOLEAN, grant \in {0, line.grant} :
       Authenticate(t, confirms, grant)
  \/ Read(t) \/ Prove(t) \/ Begin(t) \/ TryLock(t) \/ Reread(t)
  \/ Deauthorize(t) \/ Mark(t) \/ Finalize(t)

Failure(t) == Fault(t) \/ Crash(t) \/ LoseConnection(t)

Next == Account \/ \E t \in Tabs : Request(t) \/ Failure(t)

Spec == Init /\ [][Next]_vars

----------------------------------------------------------------------------
(* Properties *)

\* What stands behind the fence is exactly what the owner saw when confirming:
\* no recipient is added or removed between begin_unlink and the deletion, and
\* a confirmation of an earlier state, or of an earlier account, begins nothing.
AsShown ==
  owner.state \in Pending => Snapshot = attempts[owner.generation].shown

\* The account is marked for deletion only after LINE answered 204 to this very
\* attempt, whatever other attempts, lost answers and crashes there were.
RevokedFirst ==
  owner.state = "local_deletion_pending"
    => attempts[owner.generation].revoked

Calls(t) == tab[t].phase \in {"calling", "marking"} /\ ~tab[t].broken

\* LINE is asked to revoke only while the attempt waits for it: nobody calls
\* LINE again once the deletion is marked or over, and no two requests call at
\* once, as long as the holder of the lock keeps its connection.
CallsOnlyWhilePending ==
  \A t \in Tabs : Calls(t) =>
    /\ owner.state = "deauthorization_pending"
    /\ owner.generation = tab[t].generation
    /\ \A u \in Tabs \ {t} : ~Calls(u)

OwnDeletion ==
  \A i \in identities \ identities' :
    \E t \in Tabs : /\ tab[t].phase = "finalizing" /\ tab'[t].phase = "idle"
                    /\ tab[t].identity = i

\* A request deletes the account of its own principal and no other: one that
\* was held up while the account was unlinked, linked again and unlinked again
\* does not finish the later attempt.
OwnDataOnly == [][OwnDeletion]_vars

\* A vacant account has nothing left behind, and a request that was answered
\* completed is right: the identity of its principal is gone.
NothingLeft ==
  /\ owner.state = "vacant" =>
       identities = {} /\ recipients = {} /\ sessions = {}
  /\ \A t \in Tabs : tab[t].answer = "completed" =>
       tab[t].identity \notin identities

----------------------------------------------------------------------------
(* The inductive invariant behind these properties *)

AccountInv ==
  /\ owner.identity <= used.identities
  /\ owner.generation <= Len(attempts)
  /\ identities = (IF owner.identity = 0 THEN {} ELSE {owner.identity})
  /\ \A r \in recipients : r.identity = owner.identity
  /\ owner.state = "vacant" => sessions = {}
  /\ AsShown /\ RevokedFirst

\* A request past the fence works for an attempt that was begun by its own
\* principal; LINE is only asked, and asked alone, by the holder of the lock.
TabInv(t) ==
  /\ tab[t].identity <= used.identities
  /\ tab[t].generation <= Len(attempts)
  /\ tab[t].phase \in {"idle", "authenticated"} => tab[t].generation = 0
  /\ tab[t].phase \in {"locking", "reading", "calling", "marking",
                       "finalizing"} => tab[t].generation > 0
  /\ tab[t].generation > 0 =>
       attempts[tab[t].generation].shown.identity = tab[t].identity
  /\ tab[t].phase = "marking" => attempts[tab[t].generation].revoked
  /\ tab[t].phase \in {"reading", "calling", "marking"} /\ ~tab[t].broken
       => lock = t
  /\ Calls(t) => /\ owner.state = "deauthorization_pending"
                 /\ owner.generation = tab[t].generation
  /\ tab[t].answer = "completed" => tab[t].identity \notin identities

UnlinkInv == TypeOK /\ AccountInv /\ \A t \in Tabs : TabInv(t)

=============================================================================
