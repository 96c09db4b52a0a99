------------------------- MODULE ChannelDeactivation -------------------------
(***************************************************************************)
(* The owner deactivates a LINE channel (backend/linechannels, coordinator  *)
(* in admin_lifecycle_services.py): an intent is stored, the rich menus of  *)
(* the channel are assessed, a menu of ours that is still the default is    *)
(* unlinked, and only a channel without traces becomes inactive.  From the  *)
(* intent on, other operations on rich menus are kept out by a fence in     *)
(* their acceptance.  The coordinator works over many transactions and      *)
(* calls to LINE; it shares the operations of RichMenus with other requests.*)
(***************************************************************************)
EXTENDS RichMenus

VARIABLE task   \* what a worker does as the coordinator

vars == <<channel, ops, menus, state, line, job, intent, task>>
rich == <<channel, ops, menus, state, line, job>>

Task == [pc : {"none", "look", "decide", "complete", "reserve", "reserved",
               "waiting", "save", "stale"},
         op : Ops \cup {None}, rev : 0..MaxRev, recovery : Ops \cup {None},
         subject : Ops \cup {None},
         reason : {"none", "cleanup_required", "other"},
         seen : Observation, again : BOOLEAN]
NoTask == [pc |-> "none", op |-> None, rev |-> 0, recovery |-> None,
           subject |-> None, reason |-> "none", seen |-> Unseen, again |-> FALSE]

DisableInit == Init /\ task = [w \in Workers |-> NoTask]

----------------------------------------------------------------------------
(* The coordinator *)

Idling(w) == task[w] = NoTask /\ job[w] = Idle

Step(w, pc) == task' = [task EXCEPT ![w].pc = pc]
Done(w) == task' = [task EXCEPT ![w] = NoTask]
ToSave(w, reason, subject) ==
  task' = [task EXCEPT ![w].pc = "save", ![w].reason = reason,
                       ![w].subject = subject, ![w].seen = Unseen]

\* No request uses the id, neither one running.
Unused(o) ==
  /\ Fresh(o)
  /\ \A w \in Workers : o \notin {task[w].op, task[w].recovery, job[w].op}

Deactivate(w, o) ==
  /\ Idling(w) /\ Unused(o) /\ ~Pending
  /\ channel.active /\ channel.rev < MaxRev
  /\ intent' = [NoIntent EXCEPT !.status = "checking", !.op = o,
                                !.expected = channel.rev]
  /\ task' = [task EXCEPT ![w] = [NoTask EXCEPT !.pc = "look", !.op = o,
                                                !.rev = channel.rev]]
  /\ UNCHANGED rich

\* With a new recovery id, or the one of a recheck that left no result.  A
\* subject is rechecked by an operation with the id of the recovery.
RecheckDeactivation(w, r) ==
  LET subject == intent.subject IN
  /\ Idling(w) /\ Pending
  /\ channel.active /\ channel.rev < MaxRev
  /\ \/ intent.recovery = None /\ Unused(r)
     \/ intent.recovery = r /\ ~intent.ready
  /\ intent' = [intent EXCEPT !.expected = channel.rev, !.recovery = r,
                              !.ready = FALSE]
  /\ task' = [task EXCEPT ![w] =
       [NoTask EXCEPT !.pc = IF subject = None THEN "look" ELSE "waiting",
                      !.op = intent.op, !.rev = channel.rev, !.recovery = r,
                      !.again = TRUE]]
  /\ job' = IF subject = None THEN job
            ELSE [job EXCEPT ![w] =
                    [Idle EXCEPT !.kind = "recheck", !.pc = "accept", !.op = r,
                                 !.subject = subject, !.rev = channel.rev,
                                 !.inner = TRUE]]
  /\ UNCHANGED <<channel, ops, menus, state, line>>

\* assess_disable: the state of the channel is read as for the owner.
AssessLook(w) ==
  /\ task[w].pc = "look"
  /\ IF Matched(task[w].rev)
     THEN \E seen \in Looks :
            task' = [task EXCEPT ![w].pc = "decide", ![w].seen = seen]
     ELSE ToSave(w, "other", None)
  /\ UNCHANGED <<rich, intent>>

Leftovers == {m \in Ops : menus[m].life \in {"old", "cleanup_required"}}

Decide(w) ==
  LET seen == task[w].seen
      current == state.current IN
  /\ task[w].pc = "decide"
  /\ IF ~Matched(task[w].rev)
     THEN ToSave(w, "other", None) /\ UNCHANGED state
     ELSE /\ state' = Recorded(seen)
          /\ CASE Leftovers # {} -> ToSave(w, "cleanup_required", None)
               [] Leftovers = {} /\ state.blocking # None ->
                    ToSave(w, "other", state.blocking)
               [] Leftovers = {} /\ state.blocking = None /\ state.active # None ->
                    ToSave(w, "other", state.active)
               [] OTHER ->
                    IF seen.kind = "none" /\ current = None
                    THEN task' = [task EXCEPT ![w].pc = "complete", ![w].seen = Unseen]
                    ELSE IF seen.kind = "managed" /\ seen.menu = current
                            /\ ~task[w].again
                    THEN Step(w, "reserve")
                    ELSE ToSave(w, "other", None)
  /\ UNCHANGED <<channel, ops, menus, line, job, intent>>

\* _lock_current and the comparison of the channel's revision.
Mine(w) == channel.active /\ intent.op = task[w].op
UpToDate(w) == intent.expected = task[w].rev /\ channel.rev = task[w].rev

CompleteInactive(w) ==
  /\ task[w].pc = "complete" /\ Mine(w) /\ UpToDate(w)
  /\ channel' = [active |-> FALSE, rev |-> channel.rev + 1]
  /\ intent' = [intent EXCEPT !.status = "completed", !.reason = "none",
                  !.subject = None, !.recovery = None, !.ready = FALSE]
  /\ Done(w)
  /\ UNCHANGED <<ops, menus, state, line, job>>

\* A recheck stores the result under its own recovery: while the operation is
\* the same, the recovery in the row is never another one.
SaveResult(w) ==
  LET t == task[w] IN
  /\ t.pc = "save" /\ Mine(w) /\ UpToDate(w)
  /\ intent' = [intent EXCEPT !.status = "confirmation_required",
       !.reason = t.reason, !.subject = t.subject,
       !.ready = @ \/ t.recovery # None]
  /\ Done(w)
  /\ UNCHANGED rich

\* The channel was changed, or is inactive: the result is not stored.
NotStored(w) ==
  /\ task[w].pc \in {"complete", "save"} /\ ~(Mine(w) /\ UpToDate(w))
  /\ IF Mine(w) THEN Step(w, "stale") ELSE Done(w)
  /\ UNCHANGED <<rich, intent>>

RecordStale(w) ==
  /\ task[w].pc = "stale"
  /\ intent' = IF Mine(w)
       THEN [intent EXCEPT !.status = "confirmation_required",
               !.reason = "other", !.ready = @ \/ intent.recovery # None]
       ELSE intent
  /\ Done(w)
  /\ UNCHANGED rich

----------------------------------------------------------------------------
(* The coordinator uses the operations on rich menus *)

\* reserve_disable_unlink: what was assessed must still be what is stored.
ReserveUnlink(w) ==
  LET t == task[w] IN
  /\ t.pc = "reserve"
  /\ IF /\ Matched(t.rev) /\ ops[t.op] = NoOperation
        /\ state.active = None /\ state.blocking = None
        /\ \A m \in Ops : menus[m].life # "cleanup_required"
        /\ state.seen = t.seen.menu /\ state.current = t.seen.menu
     THEN /\ ops' = [ops EXCEPT ![t.op] =
               [NoOperation EXCEPT !.kind = "unlink", !.status = "accepted",
                                   !.target = state.current, !.rev = t.rev]]
          /\ state' = [state EXCEPT !.active = t.op]
          /\ Step(w, "reserved")
     ELSE ToSave(w, "other", None) /\ UNCHANGED <<ops, state>>
  /\ UNCHANGED <<channel, menus, line, job, intent>>

\* A default that is not the target makes the unlink unknown.
UnlinkLook(w) ==
  LET t == task[w]
      m == ops[t.op].target IN
  /\ t.pc = "reserved"
  /\ \E seen \in Looks :
       job' = [job EXCEPT ![w] =
         [Idle EXCEPT !.kind = "unlink", !.pc = "clearing_default", !.op = t.op,
                      !.target = m, !.rev = t.rev, !.inner = TRUE,
                      !.seen = IF seen.kind = "managed" /\ seen.menu = m
                               THEN seen ELSE Unseen]]
  /\ task' = [task EXCEPT ![w].pc = "waiting", ![w].seen = Unseen]
  /\ UNCHANGED <<channel, ops, menus, state, line, intent>>

\* An unlink that succeeded and a recheck that ended are followed by another
\* assessment.
Returned(w) ==
  LET t == task[w] IN
  /\ t.pc = "waiting" /\ job[w].pc = "idle"
  /\ IF t.recovery = None
     THEN IF ops[t.op].status = "succeeded"
          THEN task' = [task EXCEPT ![w].pc = "look", ![w].again = TRUE]
          ELSE ToSave(w, "other", t.op)
     ELSE IF job[w].answer = "returned" THEN Step(w, "look")
                                        ELSE ToSave(w, "other", None)
  /\ job' = [job EXCEPT ![w] = Idle]
  /\ UNCHANGED <<channel, ops, menus, state, line, intent>>

Reactivate ==
  /\ ~channel.active /\ channel.rev < MaxRev
  /\ channel' = [active |-> TRUE, rev |-> channel.rev + 1]
  /\ UNCHANGED <<ops, menus, state, line, job, intent, task>>

\* The operator's command switches the channel off, asking nobody.  Without a
\* pending deactivation requests cannot tell it from an edit.
SwitchOff ==
  /\ channel.active /\ Pending /\ channel.rev < LastEdit
  /\ channel' = [active |-> FALSE, rev |-> channel.rev + 1]
  /\ UNCHANGED <<ops, menus, state, line, job, intent, task>>

Die(w) ==
  /\ WorkersDie /\ ~Idling(w)
  /\ job' = [job EXCEPT ![w] = Idle] /\ Done(w)
  /\ UNCHANGED <<channel, ops, menus, state, line, intent>>

Coordinate(w) ==
  \/ AssessLook(w) \/ Decide(w) \/ CompleteInactive(w) \/ SaveResult(w)
  \/ NotStored(w) \/ RecordStale(w) \/ ReserveUnlink(w) \/ UnlinkLook(w)
  \/ Returned(w)

Next ==
  \/ World /\ UNCHANGED task
  \/ \E w \in Workers : task[w] = NoTask /\ Request(w) /\ UNCHANGED task
  \/ \E w \in Workers : Work(w) /\ UNCHANGED task
  \/ \E w \in Workers, o \in Ops : Deactivate(w, o) \/ RecheckDeactivation(w, o)
  \/ \E w \in Workers : Coordinate(w) \/ Die(w)
  \/ Reactivate \/ SwitchOff

Spec == DisableInit /\ [][Next]_vars

----------------------------------------------------------------------------
(* Properties *)

DeactivationTypeOK == TypeOK /\ task \in [Workers -> Task]

\* An operation in progress is the active one, and whatever was left unknown
\* or to be cleaned up is the blocking operation or the subject of a recovery
\* that itself was left so: nothing unresolved escapes the next request
\* (linerichmenus/repository.py, active_operation and blocking_operation).
Unresolved(o) == ops[o].status \in {"unknown", "cleanup_required"}
UnresolvedBlocks ==
  /\ \A o \in Ops : ops[o].status \in InProgress <=> state.active = o
  /\ state.blocking # None => Unresolved(state.blocking)
  /\ \A o \in Ops : Unresolved(o) =>
       \/ state.blocking = o
       \/ \E r \in Ops : ops[r].subject = o /\ ops[r].status = "unknown"

\* One menu at most is applied, the one the channel's row names, and only after
\* LINE showed it to the users: no lost answer, stale recovery or interleaved
\* apply makes a menu the current one that LINE never had as its default.
AppliedWasShown ==
  \A m \in Ops :
    /\ menus[m].life = "applied" <=> state.current = m
    /\ menus[m].life = "applied" => menus[m].bound /\ m \in line.shown

\* Every menu LINE holds for us has a row that still takes care of it: none is
\* marked deleted, and a candidate's operation is running or unresolved.
NoMenuForgotten ==
  \A m \in line.menus :
    /\ menus[m].life \notin {"absent", "deleted"}
    /\ menus[m].life = "candidate" => ops[m].status \in InProgress \cup {"unknown"}

\* A menu disappears from LINE only while it is not the default, and only one
\* whose row awaits its cleanup.
DeleteStep ==
  \A m \in line.menus \ line'.menus :
    /\ line.default # m
    /\ menus[m].life \in {"old", "cleanup_required"}
NothingShownIsDeleted == [][DeleteStep]_vars

\* In the step in which the deactivation switches the channel off, no operation
\* runs or blocks, no menu is applied or awaits its cleanup, and LINE shows none
\* of ours, although all of that was read several transactions earlier.
CompletionStep ==
  intent'.status = "completed" /\ intent.status # "completed" =>
    /\ state.active = None /\ state.blocking = None /\ state.current = None
    /\ Leftovers = {}
    /\ line.default \notin Ops
CompletionIsClear == [][CompletionStep]_vars

\* The unlink of a menu that LINE does not show any more comes to an end like
\* any other: while workers live, one of them is at work on an unlink in process
\* (linerichmenus/services.py, _complete_unlink_without_clear).
UnlinkConverges ==
  \A o \in Ops :
    ops[o].kind = "unlink" /\ ops[o].status = "processing" =>
      \E w \in Workers : job[w].op = o

=============================================================================
