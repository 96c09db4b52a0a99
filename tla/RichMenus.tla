------------------------------ MODULE RichMenus ------------------------------
(***************************************************************************)
(* Operations on the default rich menu of one LINE channel                  *)
(* (backend/linerichmenus): a menu is applied, unlinked or released by an   *)
(* operation that alternates transactions with calls to LINE.  An operation *)
(* with a lost answer becomes unknown and blocks the channel until it is    *)
(* rechecked; a menu no longer wanted stays on LINE until it is cleaned up. *)
(* Requests run in parallel, die between two steps, and meet changes of the *)
(* channel and of the default made elsewhere.                               *)
(*                                                                         *)
(* Every apply creates at most one menu, so a menu has the name of the      *)
(* operation it originates from.  A transaction is one step; a read of LINE *)
(* is one step with the list of managed menus it is compared with.          *)
(***************************************************************************)
EXTENDS Naturals, FiniteSets

CONSTANTS
  Ops,         \* operation ids, also those of deactivations
  Workers,     \* requests that can run at the same time
  None,        \* NULL, and the default of a channel that has none
  External,    \* a menu that is not ours
  MaxRev,      \* bound on the revisions of the channel
  LastEdit,    \* last revision an edit or the operator may leave (a bound)
  WorkersDie   \* may a request end at any point?

ASSUME RichAssumption ==
  /\ None \notin Ops /\ External \notin Ops /\ None # External
  /\ MaxRev \in Nat \ {0} /\ LastEdit \in 1..MaxRev
  /\ WorkersDie \in BOOLEAN

VARIABLES
  channel,   \* row of LineChannel: is_active and updated_at
  ops,       \* table RichMenuOperation
  menus,     \* table ManagedRichMenu
  state,     \* row of RichMenuChannelState
  line,      \* LINE: menus, default, calls on their way, menus ever shown
  job,       \* the requests being served
  intent     \* row of ChannelDeactivationState, written by its coordinator

----------------------------------------------------------------------------
(* Types *)

Kinds == {"apply", "unlink", "release", "recheck", "cleanup"}
Recoveries == {"recheck", "cleanup"}
InProgress == {"accepted", "processing", "recovery_active"}
Statuses == InProgress \cup {"unknown", "cleanup_required", "failed", "succeeded"}
Stages == {"creating", "uploading", "setting_default", "clearing_default",
           "verifying", "local_release", "cleaning"}
Lifecycles == {"candidate", "applied", "old", "cleanup_required", "released",
               "deleted"}
Revisions == 1..MaxRev

Operation == [kind : Kinds, status : Statuses, stage : Stages \cup {"none"},
              target : Ops \cup {None}, subject : Ops \cup {None},
              rev : Revisions]
NoOperation == [kind |-> "none", status |-> "none", stage |-> "none",
                target |-> None, subject |-> None, rev |-> 0]

Menu == [life : Lifecycles, bound : BOOLEAN, replacedBy : Ops \cup {None}]
NoMenu == [life |-> "absent", bound |-> FALSE, replacedBy |-> None]

\* DefaultObservation; the kind and the menu are all its fingerprint covers.
Observation == [kind : {"unknown", "none", "external", "managed", "other"},
                menu : Ops \cup {None}]
Unseen == [kind |-> "unknown", menu |-> None]

Intent == [status : {"none", "checking", "confirmation_required", "completed"},
           reason : {"none", "cleanup_required", "other"},
           op : Ops \cup {None}, expected : 0..MaxRev,
           subject : Ops \cup {None}, recovery : Ops \cup {None},
           ready : BOOLEAN]
NoIntent == [status |-> "none", reason |-> "none", op |-> None, expected |-> 0,
             subject |-> None, recovery |-> None, ready |-> FALSE]

Points == {"idle", "accept", "set", "settle", "complete", "recheck", "handoff",
           "reapply", "look", "delete", "unresolved", "deleted", "finish"}
          \cup Stages

\* inner: the request is made by the coordinator of a deactivation.
Job == [kind : Kinds \cup {"none"}, pc : Points, op : Ops \cup {None},
        target : Ops \cup {None}, subject : Ops \cup {None},
        rev : 0..MaxRev, seen : Observation,
        answer : Statuses \cup {"none", "returned"}, inner : BOOLEAN]
Idle == [kind |-> "none", pc |-> "idle", op |-> None, target |-> None,
         subject |-> None, rev |-> 0, seen |-> Unseen, answer |-> "none",
         inner |-> FALSE]

Calls == {"create", "set", "clear", "delete"}

TypeOK ==
  /\ channel \in [active : BOOLEAN, rev : Revisions]
  /\ ops \in [Ops -> Operation \cup {NoOperation}]
  /\ menus \in [Ops -> Menu \cup {NoMenu}]
  /\ state \in [current : Ops \cup {None}, active : Ops \cup {None},
                blocking : Ops \cup {None}, seen : Ops \cup {None}]
  /\ line \in [menus : SUBSET Ops, default : Ops \cup {None, External},
               late : SUBSET (Calls \X Ops), shown : SUBSET Ops]
  /\ job \in [Workers -> Job]
  /\ intent \in Intent

Init ==
  /\ channel = [active |-> TRUE, rev |-> 1]
  /\ ops = [o \in Ops |-> NoOperation]
  /\ menus = [o \in Ops |-> NoMenu]
  /\ state = [current |-> None, active |-> None, blocking |-> None,
              seen |-> None]
  /\ line = [menus |-> {}, default |-> None, late |-> {}, shown |-> {}]
  /\ job = [w \in Workers |-> Idle]
  /\ intent = NoIntent

----------------------------------------------------------------------------
(* The channel, the default, and LINE *)

\* The channel is active and as it was at revision r; once it is not, it never
\* is again.
Matched(r) == channel.active /\ channel.rev = r

Managed(m) ==
  m \in Ops /\ menus[m].bound /\ menus[m].life \notin {"deleted", "released"}

Seen ==
  [kind |-> CASE line.default = None -> "none"
              [] ~Managed(line.default) /\ line.default # None -> "external"
              [] Managed(line.default) ->
                   IF menus[line.default].life = "applied" THEN "managed"
                                                           ELSE "other",
   menu |-> IF Managed(line.default) THEN line.default ELSE None]

\* What a read of the default answers: it may fail.
Looks == {Unseen, Seen}

Effect(call, m) ==
  CASE call = "create" -> [line EXCEPT !.menus = @ \cup {m}]
    [] call = "upload" -> line
    [] call = "set" -> [line EXCEPT !.default = m, !.shown = @ \cup {m}]
    [] call = "clear" -> [line EXCEPT !.default = None]
    [] call = "delete" -> [line EXCEPT !.menus = @ \ {m},
                             !.default = IF @ = m THEN None ELSE @]

\* A mutation of LINE: done and answered, refused, or without an answer - done,
\* or still on its way, perhaps forever.
Asked(call, m, answer) ==
  \/ answer = "accepted" /\ line' = Effect(call, m)
  \/ answer = "rejected" /\ line' = line
  \/ answer = "unknown" /\ line' = Effect(call, m)
  \/ /\ answer = "unknown" /\ call \in Calls
     /\ line' = [line EXCEPT !.late = @ \cup {<<call, m>>}]

Arrive(call, m) ==
  /\ <<call, m>> \in line.late
  /\ line' = [Effect(call, m) EXCEPT !.late = @ \ {<<call, m>>}]
  /\ UNCHANGED <<channel, ops, menus, state, job, intent>>

\* Another tool of the owner sets a menu of its own, or removes the default.
ChangeDefault(m) ==
  /\ m \in {None, External} \ {line.default}
  /\ line' = [line EXCEPT !.default = m]
  /\ UNCHANGED <<channel, ops, menus, state, job, intent>>

\* An edit of the label or the credentials, by the owner unless a deactivation
\* is pending, by the operator's command at any time.
EditChannel ==
  /\ channel.rev < LastEdit
  /\ channel' = [channel EXCEPT !.rev = @ + 1]
  /\ UNCHANGED <<ops, menus, state, line, job, intent>>

----------------------------------------------------------------------------
(* Helpers of the requests *)

Pending == intent.status \in {"checking", "confirmation_required"}
Fresh(o) == ops[o] = NoOperation /\ o \notin {intent.op, intent.recovery}

\* mutant: the fence of the deactivation is not asked
Allows_Always(kind, o, subject) == TRUE

\* LineChannels's fence in the transaction that accepts an operation.
Allows(kind, o, subject) ==
  \/ ~Pending
  \/ kind = "cleanup" /\ intent.reason = "cleanup_required"
  \/ intent.recovery = o /\ intent.subject = subject

Related(m, subject) == m = subject \/ menus[m].replacedBy = subject

Go(w, pc) == job' = [job EXCEPT ![w].pc = pc]
Over(w, answer) ==
  job' = [job EXCEPT ![w] =
            IF @.inner THEN [Idle EXCEPT !.answer = answer] ELSE Idle]

Claimed(o, stage) ==
  [ops EXCEPT ![o].status = "processing", ![o].stage = stage]

\* The status and the stage a completed stage leaves.
Left(o, status, stage) ==
  [ops EXCEPT ![o].status = status, ![o].stage = stage]
Freed(blocking) == [state EXCEPT !.active = None, !.blocking = blocking]

MakeUnknown(o) ==
  /\ ops' = [ops EXCEPT ![o].status = "unknown"]
  /\ state' = Freed(o)

NextStage(stage) ==
  CASE stage = "creating" -> "uploading"
    [] stage = "uploading" -> "setting_default"
    [] stage = "setting_default" -> "verifying"
    [] stage = "clearing_default" -> "verifying"

\* transition_operation: the outcomes a stage in process may have.
Outcomes(kind, stage) ==
  CASE stage = "creating" -> {"processing", "failed", "unknown"}
    [] stage \in {"uploading", "setting_default"} ->
         {"processing", "unknown", "cleanup_required"}
    [] stage = "clearing_default" -> {"processing", "failed", "unknown"}
    [] stage = "local_release" -> {"succeeded", "failed"}
    [] stage = "verifying" /\ kind = "apply" ->
         {"succeeded", "unknown", "cleanup_required"}
    [] stage = "verifying" /\ kind = "unlink" ->
         {"succeeded", "failed", "unknown"}

----------------------------------------------------------------------------
(* Requests begin *)

Begin(w, kind, pc, o, target, subject, seen) ==
  /\ job[w].pc = "idle" /\ channel.active
  /\ job' = [job EXCEPT ![w] =
       [Idle EXCEPT !.kind = kind, !.pc = pc, !.op = o, !.target = target,
                    !.subject = subject, !.rev = channel.rev, !.seen = seen]]

\* record_observation.  Only reserve_disable_unlink reads it, after an assessment
\* of the pending deactivation has written it; whatever is not the managed
\* default makes it refuse.  The rest is kept as nothing seen.
Recorded(seen) ==
  [state EXCEPT !.seen = IF Pending /\ seen.kind = "managed" THEN seen.menu
                                                             ELSE None]

\* The owner looks at the channel.
GetState ==
  /\ channel.active
  /\ \E seen \in Looks : state' = Recorded(seen)
  /\ UNCHANGED <<channel, ops, menus, line, job, intent>>

\* The preview was confirmed for the default that is seen now.  The scope is
\* verified after the read of LINE; nobody else can tell it from before.
StartApply(w, o) ==
  /\ Fresh(o)
  /\ Begin(w, "apply", "accept", o, None, None, Seen)
  /\ state' = Recorded(Seen)
  /\ UNCHANGED <<channel, ops, menus, line, intent>>

StartUnlink(w, o, m) ==
  /\ Fresh(o) /\ menus[m].life = "applied"
  /\ \E seen \in Looks : Begin(w, "unlink", "accept", o, m, None, seen)
  /\ UNCHANGED <<channel, ops, menus, state, line, intent>>

StartRelease(w, o, m) ==
  /\ Fresh(o) /\ menus[m].life = "applied"
  /\ Begin(w, "release", "accept", o, m, None, Unseen)
  /\ UNCHANGED <<channel, ops, menus, state, line, intent>>

StartRecheck(w, o, s) ==
  /\ Fresh(o) /\ ops[s].status = "unknown"
  /\ Begin(w, "recheck", "accept", o, None, s, Unseen)
  /\ UNCHANGED <<channel, ops, menus, state, line, intent>>

StartCleanup(w, o, s, m) ==
  /\ Fresh(o) /\ ops[s].status = "cleanup_required"
  /\ menus[m].life \in {"candidate", "old", "cleanup_required"}
  /\ Related(m, s)
  /\ Begin(w, "cleanup", "accept", o, m, s, Unseen)
  /\ UNCHANGED <<channel, ops, menus, state, line, intent>>

----------------------------------------------------------------------------
(* Acceptance; what the request read before is checked again *)

Admitted(j) ==
  /\ Allows(j.kind, j.op, j.subject)
  /\ ops[j.op] = NoOperation
  /\ state.active = None
  /\ CASE j.kind \in {"unlink", "release"} ->
            /\ menus[j.target].life = "applied" /\ state.current = j.target
            /\ state.blocking = None
       [] j.kind = "apply" -> state.blocking = None
       [] j.kind = "recheck" ->
            /\ state.blocking = j.subject /\ ops[j.subject].status = "unknown"
            /\ Matched(j.rev)
       [] j.kind = "cleanup" ->
            /\ state.blocking = j.subject
            /\ ops[j.subject].status = "cleanup_required"
            /\ ops[j.subject].kind # "cleanup"
            /\ menus[j.target].life \in {"candidate", "old", "cleanup_required"}
            /\ Related(j.target, j.subject)
            /\ menus[j.target].life = "old" => menus[j.target].replacedBy = j.subject
            /\ Matched(j.rev)

Accept(w) ==
  LET j == job[w] IN
  /\ j.pc = "accept" /\ j.kind \notin Recoveries /\ Admitted(j)
  /\ ops' = [ops EXCEPT ![j.op] =
       [NoOperation EXCEPT !.kind = j.kind, !.status = "accepted",
                           !.target = j.target, !.rev = j.rev]]
  /\ menus' = IF j.kind = "apply"
              THEN [menus EXCEPT ![j.op] = [NoMenu EXCEPT !.life = "candidate"]]
              ELSE menus
  /\ state' = [state EXCEPT !.active = j.op]
  /\ Go(w, CASE j.kind = "apply" -> "creating"
             [] j.kind = "unlink" -> "clearing_default"
             [] j.kind = "release" -> "local_release")
  /\ UNCHANGED <<channel, line, intent>>

AcceptRecovery(w) ==
  LET j == job[w] IN
  /\ j.pc = "accept" /\ j.kind \in Recoveries /\ Admitted(j)
  /\ ops' = [ops EXCEPT ![j.op] =
       [kind |-> j.kind, status |-> "recovery_active",
        stage |-> IF j.kind = "recheck" THEN "verifying" ELSE "cleaning",
        target |-> j.target, subject |-> j.subject, rev |-> j.rev]]
  /\ state' = [state EXCEPT !.active = j.op]
  /\ Go(w, IF j.kind = "recheck" THEN "recheck" ELSE "look")
  /\ UNCHANGED <<channel, menus, line, intent>>

\* The request repeats one that was accepted: it returns that operation.
Repeats(j) ==
  /\ ops[j.op].kind = j.kind /\ ops[j.op].rev = j.rev
  /\ ops[j.op].subject = j.subject /\ ops[j.op].target = j.target
  /\ \/ Allows(j.kind, j.op, j.subject)
     \/ j.kind = "recheck" => ops[j.subject].status = "unknown"

Refuse(w) ==
  LET j == job[w] IN
  /\ j.pc = "accept" /\ ~Admitted(j)
  /\ Over(w, IF Repeats(j) THEN "returned" ELSE "failed")
  /\ UNCHANGED <<channel, ops, menus, state, line, intent>>

----------------------------------------------------------------------------
(* Stages of an operation: claim and ask LINE, settle the menu, complete *)

\* The service draws its conclusion from an answer.  Most conclusions change a
\* menu in a transaction of their own, before the one on the operation.
Concluded(w, out) ==
  LET j == job[w]
      settles == \/ j.kind = "apply" /\ out \in {"failed", "cleanup_required"}
                 \/ j.pc = "creating" /\ out = "processing"
                 \/ j.kind # "apply" /\ out = "succeeded"
  IN job' = [job EXCEPT ![w].pc = IF settles THEN "settle" ELSE "complete",
                        ![w].answer = out,
                        ![w].seen = IF j.kind = "apply" THEN @ ELSE Unseen]

CallLine(w, stage, call, m, refused) ==
  /\ ops' = Claimed(job[w].op, stage)
  /\ \/ Asked(call, m, "accepted") /\ Concluded(w, "processing")
     \/ Asked(call, m, "rejected") /\ Concluded(w, refused)
     \/ Asked(call, m, "unknown") /\ Concluded(w, "unknown")
  /\ UNCHANGED <<channel, menus, state, intent>>

CreateMenu(w) ==
  /\ job[w].pc = "creating"
  /\ CallLine(w, "creating", "create", job[w].op, "failed")

\* mutant: a refused image is handled like a refused creation
UploadImage_Discards(w) ==
  /\ job[w].pc = "uploading"
  /\ CallLine(w, "uploading", "upload", job[w].op, "failed")

UploadImage(w) ==
  /\ job[w].pc = "uploading"
  /\ CallLine(w, "uploading", "upload", job[w].op, "cleanup_required")

\* The default must still be the one the preview showed.
LookBeforeSet(w) ==
  LET j == job[w] IN
  /\ j.pc = "setting_default"
  /\ ops' = Claimed(j.op, "setting_default")
  /\ \E seen \in Looks :
       CASE seen = Unseen -> Concluded(w, "unknown")
         [] seen # Unseen /\ seen # j.seen -> Concluded(w, "cleanup_required")
         [] seen # Unseen /\ seen = j.seen ->
              job' = [job EXCEPT ![w].pc = "set", ![w].seen = Unseen]
  /\ UNCHANGED <<channel, menus, state, line, intent>>

\* mutant: a lost answer counts as a refusal
SetDefault_LostIsRefused(w) ==
  LET m == job[w].op IN
  /\ job[w].pc = "set" /\ Matched(job[w].rev)
  /\ \/ Asked("set", m, "accepted") /\ Concluded(w, "processing")
     \/ Asked("set", m, "unknown") /\ Concluded(w, "cleanup_required")
  /\ UNCHANGED <<channel, ops, menus, state, intent>>

SetDefault(w) ==
  /\ job[w].pc = "set"
  /\ IF Matched(job[w].rev)
     THEN CallLine(w, "setting_default", "set", job[w].op, "cleanup_required")
     ELSE /\ Concluded(w, "unknown")
          /\ UNCHANGED <<channel, ops, menus, state, line, intent>>

ClearDefault(w) ==
  /\ job[w].pc = "clearing_default" /\ job[w].seen.menu = job[w].target
  /\ CallLine(w, "clearing_default", "clear", job[w].target, "failed")

\* Nothing to clear, or nothing known: LINE is not asked.
SkipClear(w) ==
  LET j == job[w] IN
  /\ j.pc = "clearing_default" /\ j.seen.menu # j.target
  /\ ops' = Claimed(j.op, "clearing_default")
  /\ Concluded(w, IF j.seen = Unseen THEN "unknown" ELSE "succeeded")
  /\ UNCHANGED <<channel, menus, state, line, intent>>

LookAfter(w) ==
  LET j == job[w] IN
  /\ j.pc = "verifying"
  /\ ops' = Claimed(j.op, "verifying")
  /\ \E seen \in Looks :
       Concluded(w,
         CASE seen = Unseen -> "unknown"
           [] seen # Unseen /\ j.kind = "apply" ->
                IF seen.menu = j.op THEN "succeeded" ELSE "cleanup_required"
           [] seen # Unseen /\ j.kind = "unlink" ->
                IF seen.menu = j.target THEN "unknown" ELSE "succeeded")
  /\ UNCHANGED <<channel, menus, state, line, intent>>

ReleaseMenu(w) ==
  /\ job[w].pc = "local_release"
  /\ ops' = Claimed(job[w].op, "local_release")
  /\ Concluded(w, "succeeded")
  /\ UNCHANGED <<channel, menus, state, line, intent>>

Dropped(m, life) ==
  /\ menus' = [menus EXCEPT ![m].life = life]
  /\ state' = [state EXCEPT !.current = IF @ = m THEN None ELSE @]

\* The id of a new menu is stored only while the channel is unchanged.
Settle(w) ==
  LET j == job[w] IN
  /\ j.pc = "settle"
  /\ Go(w, "complete")
  /\ CASE j.answer = "processing" ->
            /\ menus' = [menus EXCEPT ![j.op].bound = Matched(j.rev)]
            /\ UNCHANGED state
       [] j.answer = "failed" -> Dropped(j.op, "deleted")
       [] j.answer = "cleanup_required" -> Dropped(j.op, "cleanup_required")
       [] j.answer = "succeeded" ->
            Dropped(j.target, IF j.kind = "unlink" THEN "cleanup_required"
                                                   ELSE "released")
  /\ UNCHANGED <<channel, ops, line, intent>>

\* complete_apply: the menu becomes the current one; one it replaces must be
\* cleaned up before anything else.
Applied(o) ==
  LET old == state.current IN
  /\ menus' = [m \in Ops |->
       IF m = o THEN [menus[m] EXCEPT !.life = "applied"]
       ELSE IF m = old THEN [menus[m] EXCEPT !.life = "old", !.replacedBy = o]
       ELSE menus[m]]
  /\ state' = [state EXCEPT !.current = o, !.active = None,
                 !.blocking = IF old = None THEN None ELSE o]

AppliedOp(o) ==
  IF state.current = None THEN Left(o, "succeeded", "verifying")
                          ELSE Left(o, "cleanup_required", "cleaning")

CompleteStale(w) ==
  LET j == job[w] IN
  /\ j.pc = "complete" /\ ~Matched(ops[j.op].rev)
  /\ MakeUnknown(j.op)
  /\ Over(w, "returned")
  /\ UNCHANGED <<channel, menus, line, intent>>

\* The state machine refuses the outcome: nothing changes.
CompleteRefused(w) ==
  LET j == job[w] IN
  /\ j.pc = "complete" /\ Matched(ops[j.op].rev)
  /\ j.answer \notin Outcomes(j.kind, ops[j.op].stage)
  /\ Over(w, "failed")
  /\ UNCHANGED <<channel, ops, menus, state, line, intent>>

CompleteStage(w) ==
  LET j == job[w]
      o == j.op
      stage == ops[o].stage
  IN
  /\ j.pc = "complete" /\ Matched(ops[o].rev)
  /\ j.answer \in Outcomes(j.kind, stage)
  /\ CASE j.answer = "processing" ->
            /\ ops' = Left(o, "processing", NextStage(stage))
            /\ job' = [job EXCEPT ![w].pc = NextStage(stage), ![w].answer = "none"]
            /\ UNCHANGED <<menus, state>>
       [] j.answer = "succeeded" /\ j.kind = "apply" ->
            Applied(o) /\ ops' = AppliedOp(o) /\ Over(w, "returned")
       [] j.answer \in {"failed", "succeeded"} /\ ~(j.answer = "succeeded" /\ j.kind = "apply") ->
            /\ ops' = Left(o, j.answer, stage)
            /\ state' = [state EXCEPT !.active = None]
            /\ Over(w, "returned")
            /\ UNCHANGED menus
       [] j.answer \in {"unknown", "cleanup_required"} ->
            /\ ops' = Left(o, j.answer,
                           IF j.answer = "unknown" THEN stage ELSE "cleaning")
            /\ state' = Freed(o)
            /\ Over(w, "returned")
            /\ UNCHANGED menus
  /\ UNCHANGED <<channel, line, intent>>

----------------------------------------------------------------------------
(* Recovery: recheck of an unknown operation *)

\* mutant: a stored menu is taken for the default
Confirmed_NoDefault(s) ==
  /\ ops[s].kind = "apply"
  /\ IF ops[s].stage = "creating" THEN s \in line.menus ELSE menus[s].bound

\* LINE confirms what the lost call was to do; only an apply can be confirmed.
Confirmed(s) ==
  /\ ops[s].kind = "apply"
  /\ CASE ops[s].stage = "creating" -> s \in line.menus
       [] ops[s].stage = "uploading" -> menus[s].bound
       [] OTHER -> menus[s].bound /\ line.default = s

RecheckLook(w) ==
  LET s == job[w].subject IN
  /\ job[w].pc = "recheck" /\ Confirmed(s)
  /\ ops[s].stage \in {"setting_default", "verifying"}
  /\ Go(w, "reapply")
  /\ UNCHANGED <<channel, ops, menus, state, line, intent>>

\* A menu that was created, perhaps with its image, is kept for cleanup.
KeepFound(w) ==
  LET s == job[w].subject IN
  /\ job[w].pc = "recheck" /\ Confirmed(s)
  /\ ops[s].stage \in {"creating", "uploading"}
  /\ menus' = [menus EXCEPT ![s].life = "cleanup_required", ![s].bound = TRUE]
  /\ Go(w, "handoff")
  /\ UNCHANGED <<channel, ops, state, line, intent>>

\* mutant: a stale recovery releases the channel as a successful one does
StaleRecovery_Unblocks(o) ==
  /\ ops' = [ops EXCEPT ![o].status = "failed"]
  /\ state' = Freed(None)

StaleRecovery(o) ==
  /\ ops' = [ops EXCEPT ![o].status = "failed"]
  /\ state' = [state EXCEPT !.active = None]

Handoff(w) ==
  LET j == job[w] IN
  /\ j.pc = "handoff"
  /\ IF Matched(ops[j.op].rev)
     THEN /\ ops' = [Left(j.subject, "cleanup_required", "cleaning")
                       EXCEPT ![j.op].status = "succeeded"]
          /\ state' = Freed(j.subject)
     ELSE StaleRecovery(j.op)
  /\ Over(w, "returned")
  /\ UNCHANGED <<channel, menus, line, intent>>

\* complete_apply_recovery: the apply is finished without asking LINE again.
RecoverApply(w) ==
  LET j == job[w]
      s == j.subject IN
  /\ j.pc = "reapply"
  /\ IF ~Matched(ops[j.op].rev)
     THEN StaleRecovery(j.op) /\ Over(w, "returned") /\ UNCHANGED menus
     ELSE IF ~Matched(ops[s].rev)     \* rolled back
     THEN Over(w, "failed") /\ UNCHANGED <<ops, menus, state>>
     ELSE /\ Applied(s)
          /\ ops' = [AppliedOp(s) EXCEPT ![j.op].status = "succeeded"]
          /\ Over(w, "returned")
  /\ UNCHANGED <<channel, line, intent>>

\* Nothing is known of the call.  A read of LINE may always tell nothing.
CompleteRecovery(w) ==
  LET j == job[w]
      unknown == j.kind = "cleanup" \/ ops[j.subject].kind = "cleanup" IN
  /\ \/ j.pc \in {"recheck", "look", "unresolved"}
     \/ j.pc = "deleted" /\ ~Matched(j.rev)
  /\ ops' = [ops EXCEPT ![j.op].status = IF unknown THEN "unknown" ELSE "failed"]
  /\ state' = Freed(IF unknown THEN j.op ELSE j.subject)
  /\ Over(w, "returned")
  /\ UNCHANGED <<channel, menus, line, intent>>

----------------------------------------------------------------------------
(* Recovery: cleanup of a menu that is no longer wanted *)

LookBeforeDelete(w) ==
  LET m == job[w].target IN
  /\ job[w].pc = "look"
  /\ menus[m].bound /\ line.default # m
  /\ Go(w, "delete")
  /\ UNCHANGED <<channel, ops, menus, state, line, intent>>

DeleteMenu(w) ==
  /\ job[w].pc = "delete"
  /\ \E a \in {"accepted", "rejected", "unknown"} :
       /\ Asked("delete", job[w].target, a)
       /\ Go(w, IF a = "accepted" THEN "deleted" ELSE "unresolved")
  /\ UNCHANGED <<channel, ops, menus, state, intent>>

MarkDeleted(w) ==
  LET j == job[w] IN
  /\ j.pc = "deleted" /\ Matched(j.rev)
  /\ menus' = [menus EXCEPT ![j.target].life = "deleted"]
  /\ Go(w, "finish")
  /\ UNCHANGED <<channel, ops, state, line, intent>>

FinishCleanup(w) ==
  LET j == job[w] IN
  /\ j.pc = "finish"
  /\ ops' = [ops EXCEPT ![j.op].status = "succeeded",
                        ![j.subject].status = "succeeded"]
  /\ state' = Freed(None)
  /\ Over(w, "returned")
  /\ UNCHANGED <<channel, menus, line, intent>>

----------------------------------------------------------------------------

World ==
  \/ EditChannel \/ GetState
  \/ \E m \in {None, External} : ChangeDefault(m)
  \/ \E c \in Calls, o \in Ops : Arrive(c, o)

Request(w) ==
  \/ \E o \in Ops : StartApply(w, o)
  \/ \E o, m \in Ops : StartUnlink(w, o, m) \/ StartRelease(w, o, m)
  \/ \E o, s \in Ops : StartRecheck(w, o, s)
  \/ \E o, s, m \in Ops : StartCleanup(w, o, s, m)

Work(w) ==
  \/ Accept(w) \/ AcceptRecovery(w) \/ Refuse(w)
  \/ CreateMenu(w) \/ UploadImage(w) \/ LookBeforeSet(w) \/ SetDefault(w)
  \/ ClearDefault(w) \/ SkipClear(w) \/ LookAfter(w) \/ ReleaseMenu(w)
  \/ Settle(w) \/ CompleteStale(w) \/ CompleteRefused(w) \/ CompleteStage(w)
  \/ RecheckLook(w) \/ KeepFound(w) \/ Handoff(w) \/ RecoverApply(w)
  \/ CompleteRecovery(w)
  \/ LookBeforeDelete(w) \/ DeleteMenu(w) \/ MarkDeleted(w) \/ FinishCleanup(w)

=============================================================================
