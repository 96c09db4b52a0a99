-------------------------- MODULE RichMenusProofs --------------------------
(***************************************************************************)
(* Operations on rich menus and the deactivation of their channel (modules  *)
(* RichMenus and ChannelDeactivation), for any number of operations,        *)
(* requests and revisions.                                                  *)
(*                                                                         *)
(* One request at most is at work on the channel: the one whose operation   *)
(* the row of the channel names as active.  So the argument has three       *)
(* parts: what may be true of a menu by what its operation came to, whose   *)
(* calls may still be on their way; what the request at work has done so    *)
(* far; and, for the coordinator of a deactivation, that nothing it found   *)
(* in order can change while its intent is pending.                         *)
(***************************************************************************)
EXTENDS ChannelDeactivation, TLAPS

(* The apply that made menu m is not over: it runs, or its outcome is not   *)
(* known.                                                                   *)
Applying(m) ==
  ops[m].kind = "apply" /\ ops[m].status \in InProgress \cup {"unknown"}

Coming(call, m) == <<call, m>> \in line.late

(* A menu whose apply is not over, by the stage that was reached.           *)
Begun(m) ==
  /\ menus[m].life \in {"candidate", "deleted", "cleanup_required"}
  /\ menus[m].replacedBy = None
  /\ ops[m].stage \in {"none", "creating", "uploading", "setting_default", "verifying"}
  /\ ops[m].stage \in {"none", "creating"} \/ menus[m].bound
  /\ ops[m].stage \in {"none", "creating", "uploading"} => m \notin line.shown
  /\ ops[m].stage = "verifying" => m \in line.shown
  /\ ops[m].stage = "none" => m \notin line.menus
  /\ menus[m].life = "deleted" => ops[m].stage = "creating"

NoTrace(m) ==
  /\ menus[m] = NoMenu /\ m \notin line.menus \cup line.shown /\ line.default # m
  /\ ~Coming("create", m) /\ ~Coming("set", m) /\ ~Coming("delete", m)

MenuOK(m) ==
  /\ ops[m].kind # "apply" => NoTrace(m)
  /\ ops[m].kind = "apply" => menus[m].life # "absent"
  /\ Applying(m) => Begun(m)
  /\ menus[m].life = "candidate" => Applying(m)
  /\ menus[m].life = "applied" => menus[m].bound /\ m \in line.shown
  /\ menus[m].life = "deleted" =>
       m \notin line.menus /\ line.default # m /\ ~Coming("create", m)
  /\ line.default = m => m \in line.shown
  /\ Coming("create", m) =>
       /\ Applying(m) /\ ops[m].stage = "creating"
       /\ menus[m].life = "candidate" /\ m \notin line.menus
  /\ Coming("set", m) =>
       Applying(m) /\ ops[m].stage = "setting_default" /\ m \notin line.shown
  /\ Coming("delete", m) =>
       /\ ~Applying(m) /\ menus[m].life \in {"old", "cleanup_required"}
       /\ line.default # m

(* Nothing but a recheck that tells nothing can follow.                     *)
DeadEnd ==
  /\ state.blocking \in Ops
  /\ ops[state.blocking].kind \in Recoveries /\ ops[state.blocking].status = "unknown"

ActiveOK ==
  /\ \A o \in Ops : ops[o].status \in InProgress <=> state.active = o
  /\ state.active # None =>
       IF ops[state.active].kind \in Recoveries
       THEN /\ ops[state.active].subject = state.blocking /\ state.blocking \in Ops
            /\ ops[state.active].kind = "recheck" =>
                 ops[state.blocking].status = "unknown"
            /\ ops[state.active].kind = "cleanup" =>
                 ops[state.blocking].status = "cleanup_required"
       ELSE state.blocking = None

BlockingOK ==
  /\ state.blocking # None => Unresolved(state.blocking)
  /\ \A o \in Ops : Unresolved(o) =>
       state.blocking \in Ops /\ (o # state.blocking => DeadEnd)
  /\ \A o \in Ops : ops[o].kind \in Recoveries => ops[o].status # "cleanup_required"
  /\ \A o \in Ops : Unresolved(o) =>
       \/ state.blocking = o
       \/ \E r \in Ops : ops[r].subject = o /\ ops[r].status = "unknown"

CurrentOK == \A m \in Ops : menus[m].life = "applied" <=> state.current = m

(* What is unlinked, released or deleted is a menu whose apply is over.     *)
Target(m) == m \in Ops /\ ops[m].kind = "apply" /\ ~Applying(m)

TargetsOK ==
  \A o \in Ops : ops[o].kind \in {"unlink", "release", "cleanup"} => Target(ops[o].target)

(* A deletion on its way is one of a cleanup that runs or is not known.     *)
DeletionsOK ==
  \A m \in Ops : Coming("delete", m) =>
    \E c \in Ops :
      /\ ops[c].kind = "cleanup" /\ ops[c].target = m
      /\ state.active = c \/ ops[c].status = "unknown"

Rows ==
  /\ \A m \in Ops : MenuOK(m)
  /\ ActiveOK /\ BlockingOK /\ CurrentOK /\ TargetsOK /\ DeletionsOK

(* A request at work on an operation that was accepted.                     *)
Working(w) == job[w].pc \notin {"idle", "accept"}
AtWork(w) == Working(w) \/ task[w].pc = "reserved"

Accepted(o, kind) == ops[o].kind = kind /\ ops[o].status = "accepted" /\ ops[o].stage = "none"
Processing(o, kind, stage) ==
  ops[o].kind = kind /\ ops[o].status = "processing" /\ ops[o].stage = stage

ApplyAt(j) ==
  LET m == j.op
      stage == ops[m].stage
      life == menus[m].life IN
  \/ /\ j.pc = "creating" /\ Accepted(m, "apply") /\ life = "candidate"
  \/ /\ j.pc = stage /\ stage \in {"uploading", "verifying"}
     /\ ops[m].status = "processing" /\ life = "candidate"
  \/ /\ j.pc \in {"setting_default", "set"} /\ stage = "setting_default"
     /\ ops[m].status = "processing" /\ life = "candidate"
     /\ m \notin line.shown /\ ~Coming("set", m)
  \/ /\ j.pc = "settle" /\ ops[m].status = "processing" /\ life = "candidate"
     /\ ~Coming("create", m) /\ ~Coming("set", m)
     /\ \/ stage = "creating" /\ j.answer = "processing"
        \/ stage = "creating" /\ j.answer = "failed" /\ m \notin line.menus
        \/ stage \in {"uploading", "setting_default", "verifying"}
           /\ j.answer = "cleanup_required"
  \/ /\ j.pc = "complete" /\ ops[m].status = "processing"
     /\ j.answer # "unknown" => ~Coming("create", m) /\ ~Coming("set", m)
     /\ \/ j.answer = "unknown" /\ stage # "none"
        \/ stage = "creating" /\ j.answer = "processing" /\ life = "candidate"
           /\ (menus[m].bound \/ ~Matched(j.rev))
        \/ stage = "creating" /\ j.answer = "failed" /\ life = "deleted"
        \/ stage = "uploading" /\ j.answer = "processing" /\ life = "candidate"
           /\ ~Coming("set", m)
        \/ stage = "setting_default" /\ j.answer = "processing" /\ life = "candidate"
           /\ m \in line.shown
        \/ stage \in {"uploading", "setting_default", "verifying"}
           /\ j.answer = "cleanup_required" /\ life = "cleanup_required"
        \/ stage = "verifying" /\ j.answer = "succeeded" /\ life = "candidate"

UnlinkAt(j) ==
  LET stage == ops[j.op].stage IN
  \/ j.pc = "clearing_default" /\ Accepted(j.op, "unlink")
  \/ j.pc = "verifying" /\ Processing(j.op, "unlink", "verifying")
  \/ /\ j.pc \in {"settle", "complete"} /\ ops[j.op].status = "processing"
     /\ stage \in {"clearing_default", "verifying"}
     /\ j.pc = "settle" => j.answer = "succeeded"
     /\ j.answer \in {"processing", "failed", "unknown", "succeeded"}

ReleaseAt(j) ==
  \/ j.pc = "local_release" /\ Accepted(j.op, "release")
  \/ /\ j.pc \in {"settle", "complete"} /\ Processing(j.op, "release", "local_release")
     /\ j.answer = "succeeded"

RecheckAt(j) ==
  LET s == j.subject IN
  /\ s \in Ops /\ state.blocking = s
  /\ \/ j.pc = "recheck"
     \/ /\ j.pc = "handoff" /\ ops[s].kind = "apply"
        /\ ops[s].stage \in {"creating", "uploading"}
        /\ menus[s].life = "cleanup_required" /\ ~Coming("create", s)
     \/ /\ j.pc = "reapply" /\ ops[s].kind = "apply"
        /\ ops[s].stage \in {"setting_default", "verifying"}
        /\ menus[s].bound /\ s \in line.shown

CleanupAt(j) ==
  LET m == j.target IN
  /\ state.blocking = j.subject
  /\ ~Coming("create", m)
  /\ Coming("delete", m) => j.pc = "unresolved"
  /\ \/ j.pc \in {"look", "unresolved"} /\ menus[m].life \in {"old", "cleanup_required"}
     \/ j.pc = "delete" /\ menus[m].life \in {"old", "cleanup_required"}
        /\ line.default # m
     \/ j.pc = "deleted" /\ menus[m].life \in {"old", "cleanup_required"}
        /\ line.default # m /\ m \notin line.menus
     \/ j.pc = "finish" /\ menus[m].life = "deleted"

WorkOK(w) ==
  Working(w) =>
    LET j == job[w] IN
    /\ j.op \in Ops /\ state.active = j.op
    /\ ops[j.op].kind = j.kind /\ ops[j.op].rev = j.rev /\ j.rev <= channel.rev
    /\ ops[j.op].target = j.target /\ ops[j.op].subject = j.subject
    /\ \/ j.kind = "apply" /\ ApplyAt(j)
       \/ j.kind = "unlink" /\ UnlinkAt(j)
       \/ j.kind = "release" /\ ReleaseAt(j)
       \/ j.kind = "recheck" /\ RecheckAt(j)
       \/ j.kind = "cleanup" /\ CleanupAt(j)

OneAtWork == \A v, w \in Workers : AtWork(v) /\ AtWork(w) => v = w

(* A request before its acceptance.                                         *)
AcceptOK(w) ==
  LET j == job[w] IN
  j.pc = "accept" =>
    /\ j.op \in Ops /\ j.rev \in Revisions /\ j.rev <= channel.rev
    /\ j.kind \in Kinds
    /\ j.kind \in Recoveries => j.subject \in Ops
    /\ j.kind \notin Recoveries =>
         j.subject = None /\ j.op # intent.op /\ j.op # intent.recovery
    /\ j.target = None <=> j.kind \in {"apply", "recheck"}

(* The coordinator, and that its intent is still what it works for.         *)
InForce(w) == channel.active /\ intent.op = task[w].op /\ channel.rev = task[w].rev

NothingLeft ==
  /\ state.active = None /\ state.blocking = None /\ state.current = None
  /\ Leftovers = {} /\ line.default \notin Ops

NotReleased ==
  \A m \in Ops : line.default = m =>
    /\ menus[m].life # "released"
    /\ \A r \in Ops : state.active = r /\ ops[r].kind = "release" => ops[r].target # m

TaskOK(w) ==
  LET t == task[w] IN
  t.pc # "none" =>
    /\ t.op \in Ops /\ t.rev \in Revisions /\ t.rev <= channel.rev /\ t.rev < MaxRev
    /\ intent.op # None
    /\ t.op = intent.op => t.rev <= intent.expected
    /\ t.op # intent.op => t.rev < channel.rev
    /\ t.pc # "waiting" => job[w] = Idle
    /\ t.pc \in {"decide", "reserve"} /\ t.seen.kind = "managed" => t.seen.menu \in Ops
    /\ t.pc = "reserve" => t.seen.kind = "managed"
    /\ t.pc = "reserved" =>
         /\ state.active = t.op /\ Accepted(t.op, "unlink") /\ ops[t.op].rev = t.rev
         /\ ops[t.op].subject = None
    /\ t.pc = "decide" /\ InForce(w) /\ t.seen.kind = "none" => NotReleased
    /\ t.pc = "complete" /\ InForce(w) => NothingLeft

IntentOK ==
  /\ intent.expected <= channel.rev
  /\ intent.op = None <=> intent.status = "none"
  /\ intent.status = "completed" => intent.expected < channel.rev

RichInv ==
  /\ DeactivationTypeOK /\ Rows
  /\ \A w \in Workers : WorkOK(w) /\ AcceptOK(w) /\ TaskOK(w)
  /\ OneAtWork /\ IntentOK

-----------------------------------------------------------------------------
(* The tables and the requests are typed                                    *)

LEMMA Typed ==
  ASSUME DeactivationTypeOK
  PROVE  /\ channel \in [active : BOOLEAN, rev : Revisions] /\ channel.rev \in Nat
         /\ \A o \in Ops : /\ ops[o] \in Operation \cup {NoOperation}
                           /\ ops[o].kind \in Kinds => ops[o] \in Operation
                           /\ ops[o].rev \in Nat
         /\ \A m \in Ops : menus[m] \in Menu \cup {NoMenu}
         /\ \A w \in Workers : job[w] \in Job /\ task[w] \in Task
         /\ \A w \in Workers : job[w].rev \in Nat /\ task[w].rev \in Nat
         /\ None \notin Ops /\ External \notin Ops /\ None # External
<1>1. /\ channel \in [active : BOOLEAN, rev : Revisions] /\ channel.rev \in Nat
  BY RichAssumption DEF DeactivationTypeOK, TypeOK, Revisions
<1>2. \A o \in Ops : /\ ops[o] \in Operation \cup {NoOperation}
                     /\ ops[o].kind \in Kinds => ops[o] \in Operation
                     /\ ops[o].rev \in Nat
  BY RichAssumption DEF DeactivationTypeOK, TypeOK, Operation, NoOperation, Kinds, Revisions
<1>3. \A m \in Ops : menus[m] \in Menu \cup {NoMenu}
  BY DEF DeactivationTypeOK, TypeOK
<1>4. \A w \in Workers : job[w] \in Job /\ task[w] \in Task
  BY DEF DeactivationTypeOK, TypeOK
<1>5. \A w \in Workers : job[w].rev \in Nat /\ task[w].rev \in Nat
  BY <1>4, RichAssumption DEF Job, Task
<1> QED
  BY <1>1, <1>2, <1>3, <1>4, <1>5, RichAssumption

(* What Left, and with it Claimed, makes of the table of operations.        *)
LEMMA LeftIs ==
  ASSUME DeactivationTypeOK, NEW o \in Ops, ops[o].kind \in Kinds,
         NEW status \in Statuses, NEW stage \in Stages \cup {"none"}
  PROVE  /\ Left(o, status, stage) \in [Ops -> Operation \cup {NoOperation}]
         /\ \A x \in Ops : x # o => Left(o, status, stage)[x] = ops[x]
         /\ Left(o, status, stage)[o].kind = ops[o].kind
         /\ Left(o, status, stage)[o].status = status
         /\ Left(o, status, stage)[o].stage = stage
         /\ Left(o, status, stage)[o].target = ops[o].target
         /\ Left(o, status, stage)[o].subject = ops[o].subject
         /\ Left(o, status, stage)[o].rev = ops[o].rev
<1> DEFINE p == [[ops[o] EXCEPT !.status = status] EXCEPT !.stage = stage]
<1>1. ops \in [Ops -> Operation \cup {NoOperation}] /\ ops[o] \in Operation
  BY Typed DEF DeactivationTypeOK, TypeOK
<1>2. /\ p \in Operation /\ p.status = status /\ p.stage = stage
      /\ p.kind = ops[o].kind /\ p.target = ops[o].target
      /\ p.subject = ops[o].subject /\ p.rev = ops[o].rev
  BY <1>1 DEF Operation
<1>3. Left(o, status, stage) = [ops EXCEPT ![o] = p]
  BY <1>1 DEF Left
<1> HIDE DEF p
<1> QED
  BY <1>1, <1>2, <1>3

(* A change of the status alone.                                            *)
LEMMA StatusIs ==
  ASSUME DeactivationTypeOK, NEW o \in Ops, ops[o].kind \in Kinds, NEW status \in Statuses
  PROVE  [ops EXCEPT ![o].status = status] = Left(o, status, ops[o].stage)
<1>1. ops \in [Ops -> Operation \cup {NoOperation}] /\ ops[o] \in Operation
  BY Typed DEF DeactivationTypeOK, TypeOK
<1>2. [ops[o] EXCEPT !.status = status]
        = [[ops[o] EXCEPT !.status = status] EXCEPT !.stage = ops[o].stage]
  BY <1>1 DEF Operation
<1> QED
  BY <1>1, <1>2 DEF Left

LEMMA GoIs ==
  ASSUME DeactivationTypeOK, NEW w \in Workers, NEW pc \in Points, Go(w, pc)
  PROVE  /\ job' \in [Workers -> Job]
         /\ \A v \in Workers : v # w => job'[v] = job[v]
         /\ job'[w].pc = pc /\ job'[w].kind = job[w].kind /\ job'[w].op = job[w].op
         /\ job'[w].target = job[w].target /\ job'[w].subject = job[w].subject
         /\ job'[w].rev = job[w].rev /\ job'[w].answer = job[w].answer
         /\ job'[w].seen = job[w].seen /\ job'[w].inner = job[w].inner
<1> DEFINE j == [job[w] EXCEPT !.pc = pc]
<1>1. job \in [Workers -> Job] /\ job[w] \in Job
  BY DEF DeactivationTypeOK, TypeOK
<1>2. /\ j \in Job /\ j.pc = pc /\ j.kind = job[w].kind /\ j.op = job[w].op
      /\ j.target = job[w].target /\ j.subject = job[w].subject /\ j.rev = job[w].rev
      /\ j.answer = job[w].answer /\ j.seen = job[w].seen /\ j.inner = job[w].inner
  BY <1>1 DEF Job
<1>3. job' = [job EXCEPT ![w] = j]
  BY <1>1 DEF Go
<1> HIDE DEF j
<1> QED
  BY <1>1, <1>2, <1>3

LEMMA IdleIsTyped == Idle \in Job /\ Idle.pc = "idle" /\ Unseen \in Observation
<1>1. Unseen \in Observation
  BY DEF Unseen, Observation
<1> QED
  BY <1>1, RichAssumption DEF Idle, Job, Points, Statuses, Revisions

LEMMA OverIs ==
  ASSUME DeactivationTypeOK, NEW w \in Workers,
         NEW answer \in Statuses \cup {"none", "returned"}, Over(w, answer)
  PROVE  /\ job' \in [Workers -> Job]
         /\ \A v \in Workers : v # w => job'[v] = job[v]
         /\ job'[w].pc = "idle"
<1> DEFINE j == IF job[w].inner THEN [Idle EXCEPT !.answer = answer] ELSE Idle
<1>1. job \in [Workers -> Job]
  BY DEF DeactivationTypeOK, TypeOK
<1>2. j \in Job /\ j.pc = "idle"
  <2>1. [Idle EXCEPT !.answer = answer] \in Job /\ [Idle EXCEPT !.answer = answer].pc = "idle"
    BY IdleIsTyped DEF Job
  <2> QED
    BY <2>1, IdleIsTyped
<1>3. job' = [job EXCEPT ![w] = j]
  BY <1>1 DEF Over
<1> HIDE DEF j
<1> QED
  BY <1>1, <1>2, <1>3

LEMMA ConcludedIs ==
  ASSUME DeactivationTypeOK, NEW w \in Workers, NEW out \in Statuses, Concluded(w, out)
  PROVE  /\ job' \in [Workers -> Job]
         /\ \A v \in Workers : v # w => job'[v] = job[v]
         /\ job'[w].kind = job[w].kind /\ job'[w].op = job[w].op
         /\ job'[w].target = job[w].target /\ job'[w].subject = job[w].subject
         /\ job'[w].rev = job[w].rev /\ job'[w].answer = out
         /\ job'[w].pc = IF \/ job[w].kind = "apply" /\ out \in {"failed", "cleanup_required"}
                            \/ job[w].pc = "creating" /\ out = "processing"
                            \/ job[w].kind # "apply" /\ out = "succeeded"
                         THEN "settle" ELSE "complete"
<1> DEFINE settles == \/ job[w].kind = "apply" /\ out \in {"failed", "cleanup_required"}
                      \/ job[w].pc = "creating" /\ out = "processing"
                      \/ job[w].kind # "apply" /\ out = "succeeded"
           pc == IF settles THEN "settle" ELSE "complete"
           seen == IF job[w].kind = "apply" THEN job[w].seen ELSE Unseen
           j == [[[job[w] EXCEPT !.pc = pc] EXCEPT !.answer = out] EXCEPT !.seen = seen]
<1>1. job \in [Workers -> Job] /\ job[w] \in Job
  BY DEF DeactivationTypeOK, TypeOK
<1>2. job' = [job EXCEPT ![w] = j]
  BY <1>1 DEF Concluded
<1>3. seen \in Observation
  BY <1>1, IdleIsTyped DEF Job
<1>4. pc \in {"settle", "complete"}
  OBVIOUS
<1> HIDE DEF pc, seen
<1>5. /\ j \in Job /\ j.pc = pc /\ j.kind = job[w].kind /\ j.op = job[w].op
      /\ j.target = job[w].target /\ j.subject = job[w].subject /\ j.rev = job[w].rev
      /\ j.answer = out
  BY <1>1, <1>3, <1>4 DEF Job, Points
<1> HIDE DEF j
<1> QED
  BY <1>1, <1>2, <1>5 DEF pc

(* What a change of the lifecycle of one menu makes of the table.           *)
LEMMA LifeIs ==
  ASSUME DeactivationTypeOK, NEW m \in Ops, menus[m].life # "absent",
         NEW life \in Lifecycles, menus' = [menus EXCEPT ![m].life = life]
  PROVE  /\ menus' \in [Ops -> Menu \cup {NoMenu}]
         /\ \A x \in Ops : x # m => menus'[x] = menus[x]
         /\ menus'[m].life = life /\ menus'[m].bound = menus[m].bound
         /\ menus'[m].replacedBy = menus[m].replacedBy
<1> DEFINE n == [menus[m] EXCEPT !.life = life]
<1>1. menus \in [Ops -> Menu \cup {NoMenu}] /\ menus[m] \in Menu
  BY DEF DeactivationTypeOK, TypeOK, NoMenu
<1>2. n \in Menu /\ n.life = life /\ n.bound = menus[m].bound /\ n.replacedBy = menus[m].replacedBy
  BY <1>1 DEF Menu
<1>3. menus' = [menus EXCEPT ![m] = n]
  BY <1>1
<1> HIDE DEF n
<1> QED
  BY <1>1, <1>2, <1>3

-----------------------------------------------------------------------------
(* What a step keeps that does not touch a thing                            *)

\* LINE holds of menu n what it held, but for its being the default no more.
SameAtLine(n) ==
  /\ n \in line'.menus <=> n \in line.menus
  /\ n \in line'.shown <=> n \in line.shown
  /\ line'.default = n => line.default = n
  /\ \A call \in {"create", "set", "delete"} : Coming(call, n)' <=> Coming(call, n)

LEMMA MenuFrame ==
  ASSUME NEW n \in Ops, MenuOK(n), menus'[n] = menus[n], SameAtLine(n),
         ops'[n].kind = ops[n].kind,
         ops[n].kind = "apply" =>
           ops'[n].status = ops[n].status /\ ops'[n].stage = ops[n].stage
  PROVE  MenuOK(n)'
<1>1. /\ Coming("create", n)' <=> Coming("create", n)
      /\ Coming("set", n)' <=> Coming("set", n)
      /\ Coming("delete", n)' <=> Coming("delete", n)
  BY DEF SameAtLine
<1>2. CASE ops[n].kind # "apply"
  <2>1. NoTrace(n)'
    BY <1>1, <1>2 DEF NoTrace, MenuOK, SameAtLine
  <2> QED
    BY <1>2, <2>1, <1>1 DEF MenuOK, NoTrace, Applying, NoMenu
<1>3. CASE ops[n].kind = "apply"
  <2>1. Applying(n)' <=> Applying(n)
    BY <1>3 DEF Applying
  <2>2. Begun(n) => Begun(n)'
    BY <1>3 DEF Begun, SameAtLine
  <2> QED
    BY <1>1, <1>3, <2>1, <2>2 DEF MenuOK, SameAtLine
<1> QED
  BY <1>2, <1>3

\* The tables of the operations and of the menus, and LINE, stay as they are.
Quiet ==
  /\ UNCHANGED <<ops, menus, line>>
  /\ state'.active = state.active /\ state'.blocking = state.blocking
  /\ state'.current = state.current

\* The channel stays as it is or has a new revision.
ChannelMoves == channel' = channel \/ channel'.rev = channel.rev + 1

LEMMA RowsFrame ==
  ASSUME Rows, Quiet
  PROVE  Rows'
<1>1. \A m \in Ops : MenuOK(m)'
  <2> TAKE m \in Ops
  <2>1. SameAtLine(m) /\ menus'[m] = menus[m] /\ ops'[m] = ops[m]
    BY DEF Quiet, SameAtLine, Coming
  <2> QED
    BY <2>1, MenuFrame DEF Rows
<1>2. ActiveOK'
  BY DEF Rows, Quiet, ActiveOK
<1>3. BlockingOK'
  BY DEF Rows, Quiet, BlockingOK, DeadEnd, Unresolved
<1>4. CurrentOK' /\ TargetsOK' /\ DeletionsOK'
  BY DEF Rows, Quiet, CurrentOK, TargetsOK, DeletionsOK, Target, Applying, Coming
<1> QED
  BY <1>1, <1>2, <1>3, <1>4 DEF Rows

LEMMA UnmatchedStays ==
  ASSUME DeactivationTypeOK, ChannelMoves, NEW r \in Nat, r <= channel.rev, ~Matched(r)
  PROVE  ~Matched(r)'
BY Typed DEF ChannelMoves, Matched

LEMMA WorkFrame ==
  ASSUME DeactivationTypeOK, NEW w \in Workers, WorkOK(w), job'[w] = job[w], Quiet,
         ChannelMoves
  PROVE  WorkOK(w)'
<1> SUFFICES ASSUME Working(w)
             PROVE  WorkOK(w)'
  BY DEF WorkOK, Working
<1>1. job[w].rev \in Nat /\ job[w].rev <= channel.rev /\ channel.rev \in Nat
  BY Typed DEF WorkOK
<1>2. job[w].rev <= channel'.rev
  BY <1>1, Typed DEF ChannelMoves
<1>3. ~Matched(job[w].rev) => ~Matched(job[w].rev)'
  <2>1. \A r \in Nat : r <= channel.rev /\ ~Matched(r) => ~Matched(r)'
    BY UnmatchedStays
  <2> QED
    BY <1>1, <2>1 DEF Matched
<1>4. ops' = ops /\ menus' = menus /\ line' = line
      /\ state'.active = state.active /\ state'.blocking = state.blocking
  BY DEF Quiet
<1>6. ApplyAt(job[w]) => ApplyAt(job[w])'
  BY <1>3, <1>4 DEF ApplyAt, Accepted, Coming
<1>7. /\ UnlinkAt(job[w]) => UnlinkAt(job[w])'
      /\ ReleaseAt(job[w]) => ReleaseAt(job[w])'
  BY <1>4 DEF UnlinkAt, ReleaseAt, Accepted, Processing
<1>8. /\ RecheckAt(job[w]) => RecheckAt(job[w])'
      /\ CleanupAt(job[w]) => CleanupAt(job[w])'
  BY <1>4 DEF RecheckAt, CleanupAt, Coming
<1> QED
  BY <1>2, <1>4, <1>6, <1>7, <1>8 DEF WorkOK, Working

LEMMA TaskFrame ==
  ASSUME DeactivationTypeOK, NEW w \in Workers, TaskOK(w), task'[w] = task[w],
         job'[w] = job[w], intent' = intent, Quiet, ChannelMoves
  PROVE  TaskOK(w)'
<1> SUFFICES ASSUME task[w].pc # "none"
             PROVE  TaskOK(w)'
  BY DEF TaskOK
<1>1. task[w].rev \in Nat /\ task[w].rev <= channel.rev /\ channel.rev \in Nat
  BY Typed DEF TaskOK
<1>2. channel'.rev = channel.rev \/ channel'.rev = channel.rev + 1
  BY DEF ChannelMoves
<1>3. InForce(w)' => InForce(w)
  BY <1>1, <1>2 DEF ChannelMoves, InForce
<1>4. NotReleased => NotReleased'
  BY DEF NotReleased, Quiet
<1>5. NothingLeft => NothingLeft'
  BY DEF NothingLeft, Quiet, Leftovers
<1>6. Accepted(task[w].op, "unlink") => Accepted(task[w].op, "unlink")'
  BY DEF Accepted, Quiet
<1>7. /\ task[w].rev <= channel'.rev
      /\ task[w].op # intent.op => task[w].rev < channel'.rev
  BY <1>1, <1>2 DEF TaskOK
<1> QED
  BY <1>3, <1>4, <1>5, <1>6, <1>7 DEF TaskOK, Quiet

LEMMA AcceptFrame ==
  ASSUME DeactivationTypeOK, NEW w \in Workers, AcceptOK(w), job'[w] = job[w],
         intent' = intent, ChannelMoves
  PROVE  AcceptOK(w)'
<1>1. job[w].rev \in Nat /\ channel.rev \in Nat
  BY Typed
<1>2. job[w].rev <= channel.rev => job[w].rev <= channel'.rev
  BY <1>1 DEF ChannelMoves
<1> QED
  BY <1>2 DEF AcceptOK

\* A step of worker w, or of nobody, that leaves the tables and LINE alone.
LEMMA QuietStep ==
  ASSUME RichInv, DeactivationTypeOK', Quiet, ChannelMoves, IntentOK', NEW w \in Workers,
         \A v \in Workers : v # w => job'[v] = job[v] /\ task'[v] = task[v],
         \A v \in Workers : AcceptOK(v)' /\ TaskOK(v)',
         WorkOK(w)', AtWork(w)' => AtWork(w)
  PROVE  RichInv'
<1>1. Rows'
  BY RowsFrame DEF RichInv
<1>2. \A v \in Workers : WorkOK(v)'
  BY WorkFrame DEF RichInv
<1>3. \A v \in Workers : AtWork(v)' => AtWork(v)
  BY DEF AtWork, Working
<1>4. OneAtWork'
  BY <1>3 DEF OneAtWork, RichInv
<1> QED
  BY <1>1, <1>2, <1>4 DEF RichInv

LEMMA QuietMove ==
  ASSUME RichInv, DeactivationTypeOK', Quiet, UNCHANGED <<channel, intent>>,
         NEW w \in Workers,
         \A v \in Workers : v # w => job'[v] = job[v] /\ task'[v] = task[v],
         AcceptOK(w)', TaskOK(w)', WorkOK(w)', AtWork(w)' => AtWork(w)
  PROVE  RichInv'
<1>1. ChannelMoves
  BY DEF ChannelMoves
<1>2. \A v \in Workers : AcceptOK(v)'
  BY <1>1, AcceptFrame DEF RichInv
<1>3. \A v \in Workers : TaskOK(v)'
  BY <1>1, TaskFrame DEF RichInv
<1>4. IntentOK'
  BY DEF IntentOK, RichInv
<1> QED
  BY <1>1, <1>2, <1>3, <1>4, QuietStep

LEMMA ChannelStep ==
  ASSUME RichInv, DeactivationTypeOK', Quiet, ChannelMoves, UNCHANGED <<job, task, intent>>
  PROVE  RichInv'
<1>1. Rows'
  BY RowsFrame DEF RichInv
<1>2. \A v \in Workers : WorkOK(v)' /\ AcceptOK(v)' /\ TaskOK(v)'
  BY WorkFrame, AcceptFrame, TaskFrame DEF RichInv
<1>3. OneAtWork'
  BY DEF OneAtWork, RichInv, AtWork, Working
<1>4. IntentOK'
  <2>1. channel.rev \in Nat /\ intent.expected \in Nat
    BY Typed, RichAssumption DEF RichInv, DeactivationTypeOK, TypeOK, Intent
  <2> QED
    BY <2>1 DEF IntentOK, RichInv, ChannelMoves
<1> QED
  BY <1>1, <1>2, <1>3, <1>4 DEF RichInv

(* Who is at work is alone, and his operation is the active one.            *)
LEMMA AtWorkAlone ==
  ASSUME RichInv, NEW w \in Workers, Working(w)
  PROVE  /\ job[w].op \in Ops /\ state.active = job[w].op
         /\ ops[job[w].op].kind = job[w].kind /\ job[w].kind \in Kinds
         /\ job[w].pc \notin {"idle", "accept"}
         /\ task[w].pc \in {"none", "waiting"}
         /\ \A v \in Workers : v # w => ~Working(v) /\ task[v].pc # "reserved"
<1>1. WorkOK(w) /\ TaskOK(w) /\ OneAtWork
  BY DEF RichInv
<1>2. task[w].pc \in {"none", "waiting"}
  BY <1>1 DEF TaskOK, Working, Idle
<1>3. \A v \in Workers : v # w => ~AtWork(v)
  BY <1>1 DEF OneAtWork, AtWork
<1> QED
  BY <1>1, <1>2, <1>3 DEF WorkOK, Working, AtWork, Kinds

\* A step of a request at work.
LEMMA WorkStep ==
  ASSUME RichInv, DeactivationTypeOK', NEW w \in Workers, Working(w),
         UNCHANGED <<channel, intent, task>>,
         \A v \in Workers : v # w => job'[v] = job[v],
         job'[w].pc # "accept", WorkOK(w)', Rows', NotReleased => NotReleased'
  PROVE  RichInv'
<1>1. \A v \in Workers : v # w => ~Working(v) /\ task[v].pc # "reserved"
  BY AtWorkAlone
<1>2. state.active # None
  BY AtWorkAlone, RichAssumption
<1>3. \A v \in Workers : WorkOK(v)' /\ AcceptOK(v)'
  <2> TAKE v \in Workers
  <2>1. CASE v = w
    BY <2>1 DEF AcceptOK
  <2>2. CASE v # w
    BY <1>1, <2>2 DEF WorkOK, Working, AcceptOK, RichInv
  <2> QED
    BY <2>1, <2>2
<1>4. \A v \in Workers : TaskOK(v)'
  <2> TAKE v \in Workers
  <2>1. InForce(v)' = InForce(v)
    BY DEF InForce
  <2>2. ~NothingLeft
    BY <1>2 DEF NothingLeft
  <2>3. CASE v = w
    BY <2>3, AtWorkAlone DEF TaskOK, RichInv
  <2>4. CASE v # w
    BY <1>1, <2>1, <2>2, <2>4 DEF TaskOK, RichInv
  <2> QED
    BY <2>3, <2>4
<1>5. OneAtWork'
  BY <1>1 DEF OneAtWork, AtWork, Working
<1>6. IntentOK'
  BY DEF IntentOK, RichInv
<1> QED
  BY <1>3, <1>4, <1>5, <1>6 DEF RichInv

-----------------------------------------------------------------------------
(* What the world does, and how requests begin                              *)

LEMMA LooksTyped ==
  ASSUME DeactivationTypeOK, NEW seen \in Looks
  PROVE  /\ seen \in Observation /\ seen.menu \in Ops \cup {None}
         /\ seen.kind = "managed" => seen.menu \in Ops
         /\ seen.kind = "none" => line.default \notin Ops
<1>1. CASE seen = Unseen
  BY <1>1 DEF Unseen, Observation
<1>2. CASE seen = Seen
  <2> DEFINE kind == CASE line.default = None -> "none"
                       [] ~Managed(line.default) /\ line.default # None -> "external"
                       [] Managed(line.default) ->
                            IF menus[line.default].life = "applied" THEN "managed"
                                                                    ELSE "other"
             menu == IF Managed(line.default) THEN line.default ELSE None
  <2>1. Managed(line.default) => line.default \in Ops
    BY DEF Managed
  <2>2. line.default = None => ~Managed(line.default)
    BY <2>1, RichAssumption
  <2>3. /\ kind \in {"none", "external", "managed", "other"}
        /\ kind = "managed" => Managed(line.default)
        /\ kind = "none" => line.default = None
    <3>1. CASE line.default = None
      BY <3>1, <2>2
    <3>2. CASE line.default # None /\ ~Managed(line.default)
      BY <3>2
    <3>3. CASE line.default # None /\ Managed(line.default)
      BY <3>3
    <3> QED
      BY <3>1, <3>2, <3>3
  <2>4. menu \in Ops \cup {None} /\ (kind = "managed" => menu \in Ops)
    BY <2>1, <2>3
  <2>5. seen = [kind |-> kind, menu |-> menu]
    BY <1>2 DEF Seen
  <2> HIDE DEF kind, menu
  <2> QED
    BY <2>3, <2>4, <2>5, RichAssumption DEF Observation
<1> QED
  BY <1>1, <1>2 DEF Looks

LEMMA RecordedIs ==
  ASSUME DeactivationTypeOK, NEW seen \in Observation, state' = Recorded(seen)
  PROVE  /\ state' \in [current : Ops \cup {None}, active : Ops \cup {None},
                        blocking : Ops \cup {None}, seen : Ops \cup {None}]
         /\ state'.active = state.active /\ state'.blocking = state.blocking
         /\ state'.current = state.current
<1> DEFINE menu == IF Pending /\ seen.kind = "managed" THEN seen.menu ELSE None
<1>1. menu \in Ops \cup {None}
  BY DEF Observation
<1>2. state' = [state EXCEPT !.seen = menu]
  BY DEF Recorded
<1> HIDE DEF menu
<1> QED
  BY <1>1, <1>2 DEF DeactivationTypeOK, TypeOK

LEMMA WorldQuiet ==
  ASSUME RichInv, UNCHANGED task, EditChannel \/ GetState
  PROVE  RichInv'
<1>0. DeactivationTypeOK
  BY DEF RichInv
<1>1. CASE EditChannel
  <2>1. channel' \in [active : BOOLEAN, rev : Revisions] /\ channel'.rev = channel.rev + 1
    <3>1. channel.rev \in Revisions /\ channel.rev < LastEdit /\ LastEdit <= MaxRev
          /\ MaxRev \in Nat
      BY <1>0, <1>1, Typed, RichAssumption DEF EditChannel
    <3>2. channel.rev + 1 \in Revisions
      BY <3>1, RichAssumption DEF Revisions
    <3> QED
      BY <3>2, <1>0, <1>1, Typed DEF EditChannel
  <2>2. DeactivationTypeOK'
    BY <1>0, <1>1, <2>1 DEF EditChannel, DeactivationTypeOK, TypeOK
  <2>3. Quiet /\ ChannelMoves /\ UNCHANGED <<job, task, intent>>
    BY <1>1, <2>1 DEF EditChannel, Quiet, ChannelMoves
  <2> QED
    BY <2>2, <2>3, ChannelStep
<1>2. CASE GetState
  <2>1. PICK seen \in Looks : state' = Recorded(seen)
    BY <1>2 DEF GetState
  <2>2. Quiet /\ state' \in [current : Ops \cup {None}, active : Ops \cup {None},
                             blocking : Ops \cup {None}, seen : Ops \cup {None}]
    BY <1>0, <1>2, <2>1, LooksTyped, RecordedIs DEF GetState, Quiet
  <2>3. ChannelMoves /\ UNCHANGED <<job, task, intent>>
    BY <1>2 DEF GetState, ChannelMoves
  <2>4. DeactivationTypeOK'
    BY <1>0, <1>2, <2>2 DEF GetState, DeactivationTypeOK, TypeOK
  <2> QED
    BY <2>2, <2>3, <2>4, ChannelStep
<1> QED
  BY <1>1, <1>2

LEMMA BeginStep ==
  ASSUME RichInv, NEW w \in Workers, task[w] = NoTask, NEW kind \in Kinds, NEW o \in Ops,
         NEW target \in Ops \cup {None}, NEW subject \in Ops \cup {None},
         NEW seen \in Observation, Fresh(o),
         Begin(w, kind, "accept", o, target, subject, seen),
         kind \in Recoveries => subject \in Ops,
         kind \notin Recoveries => subject = None,
         target = None <=> kind \in {"apply", "recheck"},
         UNCHANGED <<channel, ops, menus, line, intent, task>>,
         state' = state \/ state' = Recorded(seen)
  PROVE  RichInv'
<1>0. DeactivationTypeOK
  BY DEF RichInv
<1> DEFINE j == [Idle EXCEPT !.kind = kind, !.pc = "accept", !.op = o, !.target = target,
                   !.subject = subject, !.rev = channel.rev, !.seen = seen]
<1>1. job' = [job EXCEPT ![w] = j] /\ job \in [Workers -> Job]
  BY <1>0 DEF Begin, DeactivationTypeOK, TypeOK
<1>2. channel.rev \in Revisions /\ channel.rev \in 0..MaxRev
  BY <1>0, Typed DEF Revisions
<1>3. /\ j \in Job /\ j.kind = kind /\ j.pc = "accept" /\ j.op = o /\ j.target = target
      /\ j.subject = subject /\ j.rev = channel.rev
  BY <1>2, IdleIsTyped DEF Job, Points
<1> HIDE DEF j
<1>4. job' \in [Workers -> Job] /\ job'[w] = j /\ \A v \in Workers : v # w => job'[v] = job[v]
  BY <1>1, <1>3
<1>5. /\ Quiet
      /\ state' \in [current : Ops \cup {None}, active : Ops \cup {None},
                     blocking : Ops \cup {None}, seen : Ops \cup {None}]
  <2>1. CASE state' = state
    BY <2>1, <1>0 DEF Quiet, DeactivationTypeOK, TypeOK
  <2>2. CASE state' = Recorded(seen)
    BY <2>2, <1>0, RecordedIs DEF Quiet
  <2> QED
    BY <2>1, <2>2
<1>6. DeactivationTypeOK'
  BY <1>0, <1>4, <1>5 DEF DeactivationTypeOK, TypeOK
<1>7. AcceptOK(w)'
  BY <1>0, <1>2, <1>3, <1>4, Typed DEF AcceptOK, Fresh, RichInv, IntentOK
<1>8. TaskOK(w)'
  BY DEF TaskOK, NoTask
<1>9. WorkOK(w)' /\ ~AtWork(w)'
  BY <1>3, <1>4 DEF WorkOK, Working, AtWork, NoTask
<1> QED
  BY <1>4, <1>5, <1>6, <1>7, <1>8, <1>9, QuietMove

LEMMA RequestKeeps ==
  ASSUME RichInv, NEW w \in Workers, task[w] = NoTask, Request(w), UNCHANGED task
  PROVE  RichInv'
<1>0. DeactivationTypeOK /\ Seen \in Looks /\ Unseen \in Looks /\ Unseen \in Observation
  BY IdleIsTyped DEF RichInv, Looks
<1>1. ASSUME NEW o \in Ops, StartApply(w, o)
      PROVE  RichInv'
  BY <1>0, <1>1, BeginStep, LooksTyped, RichAssumption DEF StartApply, Kinds, Recoveries
<1>2. ASSUME NEW o \in Ops, NEW m \in Ops, StartUnlink(w, o, m) \/ StartRelease(w, o, m)
      PROVE  RichInv'
  <2>1. PICK seen \in Looks : \/ Begin(w, "unlink", "accept", o, m, None, seen)
                              \/ Begin(w, "release", "accept", o, m, None, seen)
    BY <1>0, <1>2 DEF StartUnlink, StartRelease
  <2>2. /\ Fresh(o) /\ seen \in Observation /\ m # None
        /\ UNCHANGED <<channel, ops, menus, state, line, intent>>
    BY <1>0, <1>2, LooksTyped, RichAssumption DEF StartUnlink, StartRelease
  <2>3. CASE Begin(w, "unlink", "accept", o, m, None, seen)
    BY <2>2, <2>3, BeginStep DEF Kinds, Recoveries
  <2>4. CASE Begin(w, "release", "accept", o, m, None, seen)
    BY <2>2, <2>4, BeginStep DEF Kinds, Recoveries
  <2> QED
    BY <2>1, <2>3, <2>4
<1>3. ASSUME NEW o \in Ops, NEW s \in Ops, StartRecheck(w, o, s)
      PROVE  RichInv'
  BY <1>0, <1>3, BeginStep, RichAssumption DEF StartRecheck, Kinds, Recoveries
<1>4. ASSUME NEW o \in Ops, NEW s \in Ops, NEW m \in Ops, StartCleanup(w, o, s, m)
      PROVE  RichInv'
  BY <1>0, <1>4, BeginStep, RichAssumption DEF StartCleanup, Kinds, Recoveries
<1> QED
  BY <1>1, <1>2, <1>3, <1>4 DEF Request

-----------------------------------------------------------------------------
(* What happens at LINE                                                     *)

\* Calls arrive, and nothing else is new but an empty default.
Arrivals ==
  /\ line' \in [menus : SUBSET Ops, default : Ops \cup {None, External},
                late : SUBSET (Calls \X Ops), shown : SUBSET Ops]
  /\ line'.late \subseteq line.late /\ line.shown \subseteq line'.shown
  /\ \A m \in Ops :
       /\ m \in line'.menus => m \in line.menus \/ Coming("create", m)
       /\ m \in line'.shown => m \in line.shown \/ Coming("set", m)
       /\ line'.default = m => line.default = m \/ Coming("set", m)

LEMMA WorkAtLine ==
  ASSUME RichInv, Arrivals, UNCHANGED <<channel, ops, menus, state, job>>,
         NEW w \in Workers
  PROVE  WorkOK(w)'
<1> SUFFICES ASSUME Working(w)
             PROVE  WorkOK(w)'
  BY DEF WorkOK, Working
<1>1. \A call, m : Coming(call, m)' => Coming(call, m)
  BY DEF Coming, Arrivals
<1>2. job[w].op \in Ops /\ WorkOK(w)
  BY AtWorkAlone DEF RichInv
<1>3. ApplyAt(job[w]) => ApplyAt(job[w])'
  BY <1>1, <1>2 DEF ApplyAt, Accepted, Arrivals, Matched
<1>4. /\ UnlinkAt(job[w]) => UnlinkAt(job[w])'
      /\ ReleaseAt(job[w]) => ReleaseAt(job[w])'
  BY DEF UnlinkAt, ReleaseAt, Accepted, Processing
<1>5. RecheckAt(job[w]) => RecheckAt(job[w])'
  BY <1>1 DEF RecheckAt, Arrivals
<1>6. job[w].kind = "cleanup" /\ CleanupAt(job[w]) => CleanupAt(job[w])'
  <2> SUFFICES ASSUME job[w].kind = "cleanup", CleanupAt(job[w])
               PROVE  CleanupAt(job[w])'
    OBVIOUS
  <2>1. Target(job[w].target)
    BY <1>2 DEF RichInv, Rows, TargetsOK, WorkOK
  <2>2. job[w].target \in Ops /\ ~Coming("set", job[w].target)
    BY <2>1 DEF Target, RichInv, Rows, MenuOK
  <2> QED
    BY <1>1, <2>2 DEF CleanupAt, Arrivals
<1> QED
  BY <1>2, <1>3, <1>4, <1>5, <1>6 DEF WorkOK, Working

LEMMA LineStep ==
  ASSUME RichInv, Arrivals, UNCHANGED <<channel, ops, menus, state, job, intent, task>>,
         \A m \in Ops : MenuOK(m)', NotReleased => NotReleased', NothingLeft => NothingLeft'
  PROVE  RichInv'
<1>1. DeactivationTypeOK'
  BY DEF RichInv, DeactivationTypeOK, TypeOK, Arrivals
<1>2. Rows'
  <2>1. ActiveOK' /\ BlockingOK' /\ CurrentOK' /\ TargetsOK'
    BY DEF RichInv, Rows, ActiveOK, BlockingOK, DeadEnd, Unresolved, CurrentOK, TargetsOK,
           Target, Applying
  <2>2. DeletionsOK'
    BY DEF RichInv, Rows, DeletionsOK, Coming, Arrivals
  <2> QED
    BY <2>1, <2>2 DEF Rows
<1>3. \A w \in Workers : WorkOK(w)'
  BY WorkAtLine
<1>4. \A w \in Workers : AcceptOK(w)' /\ TaskOK(w)'
  BY DEF RichInv, AcceptOK, TaskOK, InForce, Accepted
<1>5. OneAtWork' /\ IntentOK'
  BY DEF RichInv, OneAtWork, AtWork, Working, IntentOK
<1> QED
  BY <1>1, <1>2, <1>3, <1>4, <1>5 DEF RichInv

LEMMA DefaultChanges ==
  ASSUME RichInv, NEW d \in {None, External}, ChangeDefault(d), UNCHANGED task
  PROVE  RichInv'
<1>0. d \notin Ops
  BY RichAssumption
<1>1. /\ line'.menus = line.menus /\ line'.shown = line.shown /\ line'.late = line.late
      /\ line'.default = d
      /\ line' \in [menus : SUBSET Ops, default : Ops \cup {None, External},
                    late : SUBSET (Calls \X Ops), shown : SUBSET Ops]
  BY DEF RichInv, DeactivationTypeOK, TypeOK, ChangeDefault
<1>2. Arrivals
  BY <1>0, <1>1 DEF Arrivals
<1>3. \A m \in Ops : MenuOK(m)'
  <2> TAKE m \in Ops
  <2>1. SameAtLine(m) /\ MenuOK(m) /\ ops'[m] = ops[m] /\ menus'[m] = menus[m]
    BY <1>0, <1>1 DEF SameAtLine, Coming, RichInv, Rows, ChangeDefault
  <2> QED
    BY <2>1, MenuFrame
<1>4. NotReleased' /\ (NothingLeft => NothingLeft')
  BY <1>0, <1>1 DEF NotReleased, NothingLeft, Leftovers, ChangeDefault
<1> QED
  BY <1>2, <1>3, <1>4, LineStep DEF ChangeDefault

\* What arrives, call by call.
LEMMA ArrivalIs ==
  ASSUME DeactivationTypeOK, NEW call \in Calls, NEW m \in Ops, Arrive(call, m)
  PROVE  /\ line' \in [menus : SUBSET Ops, default : Ops \cup {None, External},
                       late : SUBSET (Calls \X Ops), shown : SUBSET Ops]
         /\ Coming(call, m) /\ line'.late = line.late \ {<<call, m>>}
         /\ line'.menus = CASE call = "create" -> line.menus \cup {m}
                            [] call = "delete" -> line.menus \ {m}
                            [] OTHER -> line.menus
         /\ line'.shown = IF call = "set" THEN line.shown \cup {m} ELSE line.shown
         /\ line'.default = CASE call = "set" -> m
                              [] call = "clear" -> None
                              [] call = "delete" /\ line.default = m -> None
                              [] OTHER -> line.default
<1>1. line \in [menus : SUBSET Ops, default : Ops \cup {None, External},
                late : SUBSET (Calls \X Ops), shown : SUBSET Ops]
  BY DEF DeactivationTypeOK, TypeOK
<1>2. CASE call = "create"
  BY <1>1, <1>2 DEF Arrive, Effect, Coming
<1>3. CASE call = "set"
  BY <1>1, <1>3 DEF Arrive, Effect, Coming
<1>4. CASE call = "clear"
  BY <1>1, <1>4 DEF Arrive, Effect, Coming
<1>5. CASE call = "delete"
  BY <1>1, <1>5 DEF Arrive, Effect, Coming
<1> QED
  BY <1>2, <1>3, <1>4, <1>5 DEF Calls

\* An apply that is not over leaves a trace in the row of the channel.
LEMMA ApplyingIsSeen ==
  ASSUME RichInv, NEW m \in Ops, Applying(m)
  PROVE  state.active # None \/ state.blocking # None
<1>1. CASE ops[m].status \in InProgress
  BY <1>1, RichAssumption DEF RichInv, Rows, ActiveOK
<1>2. CASE ops[m].status = "unknown"
  BY <1>2, RichAssumption DEF RichInv, Rows, BlockingOK, Unresolved
<1> QED
  BY <1>1, <1>2 DEF Applying

LEMMA ArrivalKeeps ==
  ASSUME RichInv, NEW call \in Calls, NEW m \in Ops, Arrive(call, m), UNCHANGED task
  PROVE  RichInv'
<1>0. DeactivationTypeOK /\ None \notin Ops /\ UNCHANGED <<channel, ops, menus, state, job, intent>>
  BY RichAssumption DEF RichInv, Arrive
<1>1. Coming(call, m) /\ MenuOK(m)
  BY <1>0, ArrivalIs DEF RichInv, Rows
<1>2. \A c \in Calls, n \in Ops : Coming(c, n)' <=> Coming(c, n) /\ ~(c = call /\ n = m)
  <2>1. line'.late = line.late \ {<<call, m>>}
    BY <1>0, ArrivalIs
  <2>2. \A c \in Calls, n \in Ops : <<c, n>> = <<call, m>> <=> c = call /\ n = m
    OBVIOUS
  <2> QED
    BY <2>1, <2>2 DEF Coming
<1>3. Arrivals
  BY <1>0, <1>1, <1>2, ArrivalIs DEF Arrivals, Calls
<1>4. \A n \in Ops : n # m => MenuOK(n)'
  <2> TAKE n \in Ops
  <2> HAVE n # m
  <2>1. SameAtLine(n)
    BY <1>0, <1>2, ArrivalIs DEF SameAtLine, Calls
  <2> QED
    BY <1>0, <2>1, MenuFrame DEF RichInv, Rows
<1>5. CASE call = "create"
  <2>1. /\ line'.menus = line.menus \cup {m} /\ line'.shown = line.shown
        /\ line'.default = line.default
    BY <1>0, <1>5, ArrivalIs
  <2>2. MenuOK(m)'
    BY <1>0, <1>1, <1>2, <1>5, <2>1 DEF Calls, MenuOK, Applying, Begun
  <2>3. (NotReleased => NotReleased') /\ (NothingLeft => NothingLeft')
    BY <1>0, <2>1 DEF NotReleased, NothingLeft, Leftovers
  <2> QED
    BY <1>0, <1>3, <1>4, <2>2, <2>3, LineStep
<1>6. CASE call = "set"
  <2>1. /\ line'.menus = line.menus /\ line'.shown = line.shown \cup {m}
        /\ line'.default = m
    BY <1>0, <1>6, ArrivalIs
  <2>2. Applying(m) /\ ops[m].stage = "setting_default" /\ Begun(m)
        /\ ~Coming("create", m) /\ ~Coming("delete", m) /\ menus[m].life # "released"
        /\ menus[m].life # "deleted" /\ menus[m].life # "applied"
    BY <1>1, <1>6 DEF MenuOK, Begun
  <2>3. MenuOK(m)'
    BY <1>0, <1>1, <1>2, <1>6, <2>1, <2>2 DEF Calls, MenuOK, Applying, Begun
  <2>4. ~NothingLeft
    BY <2>2, ApplyingIsSeen DEF NothingLeft
  <2>5. NotReleased'
    BY <1>0, <2>1, <2>2 DEF NotReleased, RichInv, Rows, TargetsOK, Target
  <2> QED
    BY <1>0, <1>3, <1>4, <2>3, <2>4, <2>5, LineStep
<1>7. CASE call = "clear"
  <2>1. line'.menus = line.menus /\ line'.shown = line.shown /\ line'.default = None
    BY <1>0, <1>7, ArrivalIs
  <2>2. MenuOK(m)'
    <3>1. SameAtLine(m)
      BY <1>0, <1>2, <1>7, <2>1 DEF SameAtLine, Calls
    <3> QED
      BY <1>0, <1>1, <3>1, MenuFrame
  <2>3. NotReleased' /\ (NothingLeft => NothingLeft')
    BY <1>0, <2>1 DEF NotReleased, NothingLeft, Leftovers
  <2> QED
    BY <1>0, <1>3, <1>4, <2>2, <2>3, LineStep
<1>8. CASE call = "delete"
  <2>1. /\ line'.menus = line.menus \ {m} /\ line'.shown = line.shown
        /\ line'.default = line.default
    BY <1>0, <1>1, <1>8, ArrivalIs DEF MenuOK
  <2>2. MenuOK(m)'
    BY <1>0, <1>1, <1>2, <1>8, <2>1 DEF Calls, MenuOK, Applying, Begun, NoTrace
  <2>3. (NotReleased => NotReleased') /\ (NothingLeft => NothingLeft')
    BY <1>0, <2>1 DEF NotReleased, NothingLeft, Leftovers
  <2> QED
    BY <1>0, <1>3, <1>4, <2>2, <2>3, LineStep
<1> QED
  BY <1>5, <1>6, <1>7, <1>8 DEF Calls

-----------------------------------------------------------------------------
(* Stages: claimed, and LINE asked                                          *)

LEMMA KindOfPoint ==
  ASSUME RichInv, NEW w \in Workers, Working(w)
  PROVE  LET j == job[w] IN
         /\ j.pc \in {"creating", "uploading", "setting_default", "set"} => j.kind = "apply"
         /\ j.pc = "clearing_default" => j.kind = "unlink"
         /\ j.pc = "verifying" => j.kind \in {"apply", "unlink"}
         /\ j.pc = "local_release" => j.kind = "release"
         /\ j.pc \in {"settle", "complete"} => j.kind \in {"apply", "unlink", "release"}
         /\ j.pc \in {"recheck", "handoff", "reapply"} => j.kind = "recheck"
         /\ j.pc \in {"look", "unresolved", "delete", "deleted", "finish"} => j.kind = "cleanup"
         /\ j.kind = "apply" => ApplyAt(j)
         /\ j.kind = "unlink" => UnlinkAt(j)
         /\ j.kind = "release" => ReleaseAt(j)
         /\ j.kind = "recheck" => RecheckAt(j)
         /\ j.kind = "cleanup" => CleanupAt(j)
BY DEF RichInv, WorkOK, ApplyAt, UnlinkAt, ReleaseAt, RecheckAt, CleanupAt

\* What is known while an operation other than a recovery is worked on.
LEMMA WorkedOn ==
  ASSUME RichInv, NEW w \in Workers, Working(w), job[w].kind \in {"apply", "unlink", "release"}
  PROVE  /\ job[w].op \in Ops /\ ops[job[w].op].kind = job[w].kind /\ job[w].kind \in Kinds
         /\ ops[job[w].op].rev = job[w].rev
         /\ ops[job[w].op].target = job[w].target /\ ops[job[w].op].subject = job[w].subject
         /\ ops[job[w].op].status \in InProgress /\ state.active = job[w].op
         /\ \A x \in Ops : x # job[w].op => ops[x].status \notin InProgress
         /\ state.blocking = None /\ \A x \in Ops : ~Unresolved(x)
         /\ MenuOK(job[w].op)
         /\ job[w].kind = "apply" => Applying(job[w].op) /\ Begun(job[w].op)
         /\ job[w].kind # "apply" => Target(job[w].target)
<1>1. /\ job[w].op \in Ops /\ ops[job[w].op].kind = job[w].kind /\ job[w].kind \in Kinds
      /\ state.active = job[w].op
  BY AtWorkAlone
<1>2. /\ ops[job[w].op].rev = job[w].rev
      /\ ops[job[w].op].target = job[w].target /\ ops[job[w].op].subject = job[w].subject
  BY DEF RichInv, WorkOK
<1>3. /\ ops[job[w].op].status \in InProgress /\ state.blocking = None
      /\ \A x \in Ops : x # job[w].op => ops[x].status \notin InProgress
  BY <1>1, RichAssumption DEF RichInv, Rows, ActiveOK, Recoveries
<1>4. \A x \in Ops : ~Unresolved(x)
  BY <1>3, RichAssumption DEF RichInv, Rows, BlockingOK
<1>5. MenuOK(job[w].op)
  BY <1>1 DEF RichInv, Rows
<1>6. job[w].kind = "apply" => Applying(job[w].op) /\ Begun(job[w].op)
  BY <1>1, <1>3, <1>5 DEF Applying, MenuOK
<1>7. job[w].kind # "apply" => Target(job[w].target)
  BY <1>1, <1>2 DEF RichInv, Rows, TargetsOK
<1> QED
  BY <1>1, <1>2, <1>3, <1>4, <1>5, <1>6, <1>7

\* A step of a request at work that leaves its operation in process.
LEMMA ProcessStep ==
  ASSUME RichInv, NEW w \in Workers, Working(w), job[w].kind \in {"apply", "unlink", "release"},
         NEW o \in Ops, job[w].op = o,
         NEW stage \in Stages, ops' = Left(o, "processing", stage),
         UNCHANGED <<channel, menus, state, intent, task>>,
         line' \in [menus : SUBSET Ops, default : Ops \cup {None, External},
                    late : SUBSET (Calls \X Ops), shown : SUBSET Ops],
         \A m \in Ops : m # o => SameAtLine(m),
         job' \in [Workers -> Job], \A v \in Workers : v # w => job'[v] = job[v],
         job'[w].pc # "accept", MenuOK(o)', WorkOK(w)',
         NotReleased => NotReleased'
  PROVE  RichInv'
<1>0. DeactivationTypeOK
  BY DEF RichInv
<1>1. /\ o \in Ops /\ ops[o].kind = job[w].kind /\ ops[o].kind \in Kinds
      /\ ops[o].status \in InProgress /\ state.active = o /\ state.blocking = None
      /\ \A x \in Ops : ~Unresolved(x)
      /\ \A x \in Ops : x # o => ops[x].status \notin InProgress
  BY WorkedOn
<1>2. /\ ops' \in [Ops -> Operation \cup {NoOperation}]
      /\ \A x \in Ops : x # o => ops'[x] = ops[x]
      /\ \A x \in Ops : ops'[x].kind = ops[x].kind /\ ops'[x].target = ops[x].target
                        /\ ops'[x].subject = ops[x].subject
      /\ ops'[o].status = "processing"
  BY <1>0, <1>1, LeftIs DEF Statuses, InProgress
<1>3. DeactivationTypeOK'
  BY <1>0, <1>2 DEF DeactivationTypeOK, TypeOK
<1>4. \A m \in Ops : MenuOK(m)'
  <2> TAKE m \in Ops
  <2>1. CASE m # o
    BY <1>2, <2>1, MenuFrame DEF RichInv, Rows
  <2> QED
    BY <2>1
<1>5. ActiveOK'
  BY <1>1, <1>2, RichAssumption DEF RichInv, Rows, ActiveOK, InProgress, Recoveries
<1>6. BlockingOK' /\ CurrentOK'
  BY <1>1, <1>2 DEF RichInv, Rows, BlockingOK, Unresolved, CurrentOK
<1>7. TargetsOK'
  <2>1. \A x \in Ops : Applying(x)' => Applying(x)
    BY <1>1, <1>2 DEF Applying
  <2> QED
    BY <1>2, <2>1 DEF RichInv, Rows, TargetsOK, Target
<1>8. DeletionsOK'
  <2> SUFFICES ASSUME NEW m \in Ops, Coming("delete", m)'
               PROVE  \E c \in Ops : /\ ops'[c].kind = "cleanup" /\ ops'[c].target = m
                                     /\ state'.active = c \/ ops'[c].status = "unknown"
    BY DEF DeletionsOK
  <2>1. m # o
    <3>1. Applying(o)' \/ ops'[o].kind # "apply"
      BY <1>2 DEF Applying, InProgress
    <3> QED
      BY <1>4, <3>1 DEF MenuOK, NoTrace
  <2>2. Coming("delete", m)
    BY <2>1 DEF SameAtLine
  <2>3. PICK c \in Ops : /\ ops[c].kind = "cleanup" /\ ops[c].target = m
                         /\ state.active = c \/ ops[c].status = "unknown"
    BY <2>2 DEF RichInv, Rows, DeletionsOK
  <2>4. c # o
    BY <1>1, <2>3
  <2> QED
    BY <1>2, <2>3, <2>4
<1>9. Rows'
  BY <1>4, <1>5, <1>6, <1>7, <1>8 DEF Rows
<1> QED
  BY <1>3, <1>9, WorkStep

\* LINE once a call has been performed.
PerformedAs(new, call, m) ==
  /\ new.late = line.late
  /\ new.menus = IF call = "create" THEN line.menus \cup {m}
                 ELSE IF call = "delete" THEN line.menus \ {m}
                 ELSE line.menus
  /\ new.shown = IF call = "set" THEN line.shown \cup {m} ELSE line.shown
  /\ new.default = IF call = "set" THEN m
                   ELSE IF call = "clear" \/ (call = "delete" /\ line.default = m)
                   THEN None ELSE line.default

LEMMA EffectIs ==
  ASSUME DeactivationTypeOK, NEW call \in {"create", "upload", "set", "clear", "delete"},
         NEW m \in Ops
  PROVE  /\ Effect(call, m) \in [menus : SUBSET Ops, default : Ops \cup {None, External},
                                 late : SUBSET (Calls \X Ops), shown : SUBSET Ops]
         /\ PerformedAs(Effect(call, m), call, m)
<1>1. line \in [menus : SUBSET Ops, default : Ops \cup {None, External},
                late : SUBSET (Calls \X Ops), shown : SUBSET Ops]
  BY DEF DeactivationTypeOK, TypeOK
<1>2. CASE call = "create"
  BY <1>1, <1>2 DEF Effect, PerformedAs
<1>3. CASE call = "set"
  BY <1>1, <1>3 DEF Effect, PerformedAs
<1>4. CASE call = "clear"
  BY <1>1, <1>4 DEF Effect, PerformedAs
<1>5. CASE call = "delete"
  BY <1>1, <1>5 DEF Effect, PerformedAs
<1>6. CASE call = "upload"
  BY <1>1, <1>6 DEF Effect, PerformedAs
<1> QED
  BY <1>2, <1>3, <1>4, <1>5, <1>6

\* A call that was asked for is done, refused or on its way.
Performed(call, m) == PerformedAs(line', call, m)
Underway(call, m) ==
  /\ line'.late = line.late \cup {<<call, m>>} /\ line'.menus = line.menus
  /\ line'.shown = line.shown /\ line'.default = line.default

LEMMA AskedIs ==
  ASSUME DeactivationTypeOK, NEW call \in {"create", "upload", "set", "clear", "delete"},
         NEW m \in Ops, NEW answer \in {"accepted", "rejected", "unknown"},
         Asked(call, m, answer)
  PROVE  /\ line' \in [menus : SUBSET Ops, default : Ops \cup {None, External},
                       late : SUBSET (Calls \X Ops), shown : SUBSET Ops]
         /\ \A n \in Ops : n # m => SameAtLine(n)
         /\ answer = "accepted" => Performed(call, m)
         /\ answer = "rejected" => line' = line
         /\ answer = "unknown" =>
              Performed(call, m) \/ (call \in Calls /\ Underway(call, m))
<1>0. line \in [menus : SUBSET Ops, default : Ops \cup {None, External},
                late : SUBSET (Calls \X Ops), shown : SUBSET Ops]
  BY DEF DeactivationTypeOK, TypeOK
<1>1. CASE line' = line /\ answer = "rejected"
  BY <1>0, <1>1 DEF SameAtLine, Coming
<1>2. CASE line' = Effect(call, m) /\ answer # "rejected"
  <2>1. Performed(call, m)
    BY <1>2, EffectIs DEF Performed
  <2>2. \A n \in Ops : n # m => SameAtLine(n)
    <3>1. line'.late = line.late
      BY <2>1 DEF Performed, PerformedAs
    <3>2. \A n \in Ops : n # m =>
            /\ n \in line'.menus <=> n \in line.menus
            /\ n \in line'.shown <=> n \in line.shown
            /\ line'.default = n => line.default = n
      BY <2>1, RichAssumption DEF Performed, PerformedAs
    <3> QED
      BY <3>1, <3>2 DEF SameAtLine, Coming
  <2> QED
    BY <1>2, <2>1, <2>2, EffectIs
<1>3. CASE answer = "unknown" /\ call \in Calls /\ line' = [line EXCEPT !.late = @ \cup {<<call, m>>}]
  <2>1. line' \in [menus : SUBSET Ops, default : Ops \cup {None, External},
                   late : SUBSET (Calls \X Ops), shown : SUBSET Ops]
    BY <1>0, <1>3
  <2>2. Underway(call, m)
    BY <1>0, <1>3 DEF Underway
  <2>3. \A n \in Ops : n # m => SameAtLine(n)
    BY <2>2 DEF Underway, SameAtLine, Coming
  <2> QED
    BY <1>3, <2>1, <2>2, <2>3
<1> QED
  BY <1>1, <1>2, <1>3 DEF Asked

LEMMA CreateMenuKeeps ==
  ASSUME RichInv, NEW w \in Workers, CreateMenu(w), UNCHANGED task
  PROVE  RichInv'
<1>0. DeactivationTypeOK /\ Working(w) /\ job[w].pc = "creating" /\ job[w].kind = "apply"
  BY KindOfPoint DEF RichInv, CreateMenu, Working
<1>1. PICK o \in Ops : job[w].op = o
  BY <1>0, WorkedOn
<1>2. /\ ops[o].kind = "apply" /\ ops[o].status = "accepted" /\ ops[o].stage = "none"
      /\ menus[o].life = "candidate" /\ state.active = o /\ MenuOK(o) /\ Begun(o)
      /\ ops[o].kind \in Kinds
  BY <1>0, <1>1, KindOfPoint, WorkedOn DEF ApplyAt, Accepted
<1>3. /\ ~Coming("create", o) /\ ~Coming("set", o) /\ ~Coming("delete", o)
      /\ o \notin line.menus /\ o \notin line.shown /\ line.default # o
  BY <1>2 DEF MenuOK, Begun
<1>4. /\ ops' = Left(o, "processing", "creating")
      /\ UNCHANGED <<channel, menus, state, intent>>
  BY <1>1 DEF CreateMenu, CallLine, Claimed, Left
<1>5. /\ ops'[o].kind = "apply" /\ ops'[o].status = "processing"
      /\ ops'[o].stage = "creating" /\ ops'[o].target = ops[o].target
      /\ ops'[o].subject = ops[o].subject /\ ops'[o].rev = ops[o].rev
  BY <1>0, <1>2, <1>4, LeftIs DEF Statuses, InProgress, Stages
<1>6. \/ Asked("create", o, "accepted") /\ Concluded(w, "processing")
      \/ Asked("create", o, "rejected") /\ Concluded(w, "failed")
      \/ Asked("create", o, "unknown") /\ Concluded(w, "unknown")
  BY <1>1 DEF CreateMenu, CallLine
<1>7. /\ line' \in [menus : SUBSET Ops, default : Ops \cup {None, External},
                    late : SUBSET (Calls \X Ops), shown : SUBSET Ops]
      /\ \A n \in Ops : n # o => SameAtLine(n)
  BY <1>0, <1>6, AskedIs
<1>8. /\ line'.default = line.default /\ line'.shown = line.shown
      /\ \/ Concluded(w, "processing") /\ line'.late = line.late
         \/ Concluded(w, "failed") /\ line'.late = line.late /\ line'.menus = line.menus
         \/ /\ Concluded(w, "unknown")
            /\ \/ line'.late = line.late
               \/ line'.late = line.late \cup {<<"create", o>>} /\ line'.menus = line.menus
  BY <1>0, <1>6, AskedIs DEF Performed, PerformedAs, Underway
<1>9. /\ ~Coming("set", o)' /\ ~Coming("delete", o)'
      /\ Coming("create", o)' => o \notin line'.menus
  BY <1>3, <1>8 DEF Coming
<1>10. MenuOK(o)'
  <2>1. menus'[o] = menus[o] /\ Applying(o)' /\ line'.default # o /\ o \notin line'.shown
    BY <1>3, <1>4, <1>5, <1>8 DEF Applying, InProgress
  <2>2. Begun(o)'
    BY <1>2, <1>5, <2>1 DEF Begun
  <2> QED
    BY <1>2, <1>5, <1>9, <2>1, <2>2 DEF MenuOK
<1>11. \A out \in Statuses : Concluded(w, out) =>
         /\ job' \in [Workers -> Job] /\ \A v \in Workers : v # w => job'[v] = job[v]
         /\ job'[w].kind = job[w].kind /\ job'[w].op = job[w].op
         /\ job'[w].target = job[w].target /\ job'[w].subject = job[w].subject
         /\ job'[w].rev = job[w].rev /\ job'[w].answer = out
         /\ job'[w].pc = IF out \in {"failed", "cleanup_required", "processing"}
                         THEN "settle" ELSE "complete"
  BY <1>0, ConcludedIs
<1>12. WorkOK(w)'
  <2>1. Concluded(w, "unknown") \/ ~Coming("create", o)'
    BY <1>3, <1>8 DEF Coming
  <2>2. ApplyAt(job[w])'
    BY <1>0, <1>1, <1>2, <1>3, <1>4, <1>5, <1>8, <1>9, <1>11, <2>1
    DEF ApplyAt, Statuses, InProgress
  <2>3. /\ job'[w].kind = job[w].kind /\ job'[w].op = job[w].op
        /\ job'[w].target = job[w].target /\ job'[w].subject = job[w].subject
        /\ job'[w].rev = job[w].rev
    BY <1>8, <1>11 DEF Statuses, InProgress
  <2> QED
    BY <1>0, <1>1, <1>2, <1>4, <1>5, <2>2, <2>3 DEF WorkOK, RichInv
<1>13. NotReleased => NotReleased'
  BY <1>2, <1>4, <1>5, <1>8 DEF NotReleased
<1>14. /\ job' \in [Workers -> Job] /\ \A v \in Workers : v # w => job'[v] = job[v]
       /\ job'[w].pc # "accept"
  BY <1>8, <1>11 DEF Statuses, InProgress
<1> QED
  BY <1>0, <1>1, <1>4, <1>7, <1>10, <1>12, <1>13, <1>14, ProcessStep DEF Stages

\* A stage is claimed, and the request has drawn its conclusion or goes on.
LEMMA StageStep ==
  ASSUME RichInv, NEW w \in Workers, Working(w), job[w].kind \in {"apply", "unlink", "release"},
         NEW o \in Ops, job[w].op = o,
         NEW stage \in Stages, ops' = Left(o, "processing", stage),
         UNCHANGED <<channel, menus, state, intent, task>>,
         line' \in [menus : SUBSET Ops, default : Ops \cup {None, External},
                    late : SUBSET (Calls \X Ops), shown : SUBSET Ops],
         \A m \in Ops : m # o => SameAtLine(m), MenuOK(o)',
         NotReleased => NotReleased',
         NEW out \in Statuses, Concluded(w, out),
         job[w].kind = "apply" => ApplyAt(job[w])',
         job[w].kind = "unlink" => UnlinkAt(job[w])',
         job[w].kind = "release" => ReleaseAt(job[w])'
  PROVE  RichInv'
<1>0. DeactivationTypeOK /\ ops[o].kind \in Kinds
  BY WorkedOn DEF RichInv
<1>1. /\ job' \in [Workers -> Job] /\ \A v \in Workers : v # w => job'[v] = job[v]
      /\ job'[w].kind = job[w].kind /\ job'[w].op = job[w].op
      /\ job'[w].target = job[w].target /\ job'[w].subject = job[w].subject
      /\ job'[w].rev = job[w].rev /\ job'[w].pc \in {"settle", "complete"}
  BY <1>0, ConcludedIs
<1>2. /\ ops'[o].kind = ops[o].kind /\ ops'[o].target = ops[o].target
      /\ ops'[o].subject = ops[o].subject /\ ops'[o].rev = ops[o].rev
  BY <1>0, LeftIs DEF Statuses, InProgress
<1>3. WorkOK(w) /\ state'.active = state.active /\ channel' = channel
  BY DEF RichInv
<1>4. WorkOK(w)'
  BY <1>1, <1>2, <1>3 DEF WorkOK
<1> QED
  BY <1>1, <1>4, ProcessStep

\* The same, when LINE is not changed.
LEMMA StageStepQuiet ==
  ASSUME RichInv, NEW w \in Workers, Working(w), job[w].kind \in {"apply", "unlink", "release"},
         NEW o \in Ops, job[w].op = o,
         NEW stage \in Stages, ops' = Left(o, "processing", stage),
         job[w].kind = "apply" => ops[o].status = "processing" /\ ops[o].stage = stage,
         UNCHANGED <<channel, menus, state, line, intent, task>>,
         NEW out \in Statuses, Concluded(w, out),
         job[w].kind = "apply" => ApplyAt(job[w])',
         job[w].kind = "unlink" => UnlinkAt(job[w])',
         job[w].kind = "release" => ReleaseAt(job[w])'
  PROVE  RichInv'
<1>0. DeactivationTypeOK /\ ops[o].kind \in Kinds /\ ops[o].kind = job[w].kind /\ MenuOK(o)
  BY WorkedOn DEF RichInv
<1>1. /\ ops'[o].kind = ops[o].kind /\ ops'[o].status = "processing" /\ ops'[o].stage = stage
      /\ ops'[o].target = ops[o].target
      /\ \A x \in Ops : x # o => ops'[x] = ops[x]
  BY <1>0, LeftIs DEF Statuses, InProgress
<1>2. \A m \in Ops : SameAtLine(m)
  BY DEF SameAtLine, Coming
<1>3. MenuOK(o)'
  BY <1>0, <1>1, <1>2, MenuFrame
<1>4. NotReleased => NotReleased'
  BY <1>1 DEF NotReleased
<1>5. line' \in [menus : SUBSET Ops, default : Ops \cup {None, External},
                 late : SUBSET (Calls \X Ops), shown : SUBSET Ops]
  BY <1>0 DEF DeactivationTypeOK, TypeOK
<1> QED
  BY <1>2, <1>3, <1>4, <1>5, StageStep

LEMMA UploadImageKeeps ==
  ASSUME RichInv, NEW w \in Workers, UploadImage(w), UNCHANGED task
  PROVE  RichInv'
<1>0. DeactivationTypeOK /\ Working(w) /\ job[w].pc = "uploading" /\ job[w].kind = "apply"
  BY KindOfPoint DEF RichInv, UploadImage, Working
<1>1. PICK o \in Ops : job[w].op = o
  BY <1>0, WorkedOn
<1>2. /\ ops[o].kind = "apply" /\ ops[o].status = "processing" /\ ops[o].stage = "uploading"
      /\ menus[o].life = "candidate" /\ MenuOK(o) /\ ops[o].kind \in Kinds
  BY <1>0, <1>1, KindOfPoint, WorkedOn DEF ApplyAt
<1>3. ~Coming("create", o) /\ ~Coming("set", o)
  BY <1>2 DEF MenuOK
<1>4. /\ ops' = Left(o, "processing", "uploading")
      /\ UNCHANGED <<channel, menus, state, intent>>
  BY <1>1 DEF UploadImage, CallLine, Claimed, Left
<1>5. ops'[o].status = "processing" /\ ops'[o].stage = "uploading"
  BY <1>0, <1>2, <1>4, LeftIs DEF Statuses, InProgress, Stages
<1>6. PICK out \in {"processing", "cleanup_required", "unknown"} : Concluded(w, out)
  BY DEF UploadImage, CallLine
<1>7. line' = line
  BY <1>0 DEF UploadImage, CallLine, Asked, Effect, Calls
<1>8. /\ job'[w].op = o /\ job'[w].answer = out /\ job'[w].rev = job[w].rev
      /\ job'[w].pc = IF out = "cleanup_required" THEN "settle" ELSE "complete"
  BY <1>0, <1>1, <1>6, ConcludedIs DEF Statuses, InProgress
<1>9. ApplyAt(job[w])'
  BY <1>2, <1>3, <1>4, <1>5, <1>6, <1>7, <1>8 DEF ApplyAt, Coming
<1> QED
  BY <1>0, <1>1, <1>2, <1>4, <1>6, <1>7, <1>9, StageStepQuiet DEF Stages, Statuses, InProgress

LEMMA LookBeforeSetKeeps ==
  ASSUME RichInv, NEW w \in Workers, LookBeforeSet(w), UNCHANGED task
  PROVE  RichInv'
<1>0. DeactivationTypeOK /\ Working(w) /\ job[w].pc = "setting_default" /\ job[w].kind = "apply"
  BY KindOfPoint DEF RichInv, LookBeforeSet, Working
<1>1. PICK o \in Ops : job[w].op = o
  BY <1>0, WorkedOn
<1>2. /\ ops[o].kind = "apply" /\ ops[o].status = "processing"
      /\ ops[o].stage = "setting_default" /\ menus[o].life = "candidate" /\ MenuOK(o)
      /\ ops[o].kind \in Kinds /\ o \notin line.shown /\ ~Coming("set", o)
  BY <1>0, <1>1, KindOfPoint, WorkedOn DEF ApplyAt
<1>3. ~Coming("create", o)
  BY <1>2 DEF MenuOK
<1>4. /\ ops' = Left(o, "processing", "setting_default")
      /\ UNCHANGED <<channel, menus, state, line, intent>>
  BY <1>1 DEF LookBeforeSet, Claimed, Left
<1>5. /\ ops' \in [Ops -> Operation \cup {NoOperation}]
      /\ ops'[o].status = "processing" /\ ops'[o].stage = "setting_default"
      /\ ops'[o].kind = ops[o].kind /\ ops'[o].target = ops[o].target
      /\ ops'[o].subject = ops[o].subject /\ ops'[o].rev = ops[o].rev
      /\ \A x \in Ops : x # o => ops'[x] = ops[x]
  BY <1>0, <1>2, <1>4, LeftIs DEF Statuses, InProgress, Stages
<1>6. CASE \E out \in {"unknown", "cleanup_required"} : Concluded(w, out)
  <2>1. PICK out \in {"unknown", "cleanup_required"} : Concluded(w, out)
    BY <1>6
  <2>2. /\ job'[w].op = o /\ job'[w].answer = out /\ job'[w].rev = job[w].rev
        /\ job'[w].pc = IF out = "cleanup_required" THEN "settle" ELSE "complete"
    BY <1>0, <1>1, <2>1, ConcludedIs DEF Statuses, InProgress
  <2>3. ApplyAt(job[w])'
    BY <1>2, <1>3, <1>4, <1>5, <2>1, <2>2 DEF ApplyAt, Coming
  <2> QED
    BY <1>0, <1>1, <1>2, <1>4, <2>1, <2>3, StageStepQuiet DEF Stages, Statuses, InProgress
<1>7. CASE job' = [job EXCEPT ![w].pc = "set", ![w].seen = Unseen]
  <2> DEFINE j == [[job[w] EXCEPT !.pc = "set"] EXCEPT !.seen = Unseen]
  <2>1. job \in [Workers -> Job] /\ job[w] \in Job /\ job' = [job EXCEPT ![w] = j]
    BY <1>0, <1>7 DEF DeactivationTypeOK, TypeOK
  <2>2. /\ j \in Job /\ j.pc = "set" /\ j.kind = job[w].kind /\ j.op = job[w].op
        /\ j.target = job[w].target /\ j.subject = job[w].subject /\ j.rev = job[w].rev
    BY <2>1, IdleIsTyped DEF Job, Points
  <2> HIDE DEF j
  <2>3. /\ job' \in [Workers -> Job] /\ \A v \in Workers : v # w => job'[v] = job[v]
        /\ job'[w] = j
    BY <2>1, <2>2
  <2>4. ApplyAt(job[w])'
    BY <1>1, <1>2, <1>4, <1>5, <2>2, <2>3 DEF ApplyAt, Coming
  <2>5. WorkOK(w)'
    BY <1>0, <1>1, <1>4, <1>5, <2>2, <2>3, <2>4 DEF RichInv, WorkOK
  <2>6. \A m \in Ops : SameAtLine(m)
    BY <1>4 DEF SameAtLine, Coming
  <2>7. MenuOK(o)'
    BY <1>2, <1>4, <1>5, <2>6, MenuFrame
  <2>8. NotReleased => NotReleased'
    BY <1>4, <1>5 DEF NotReleased
  <2>9. line' \in [menus : SUBSET Ops, default : Ops \cup {None, External},
                   late : SUBSET (Calls \X Ops), shown : SUBSET Ops]
    BY <1>0, <1>4 DEF DeactivationTypeOK, TypeOK
  <2> QED
    BY <1>0, <1>1, <1>4, <2>2, <2>3, <2>5, <2>6, <2>7, <2>8, <2>9, ProcessStep DEF Stages
<1> QED
  <2>1. PICK seen \in Looks :
          CASE seen = Unseen -> Concluded(w, "unknown")
            [] seen # Unseen /\ seen # job[w].seen -> Concluded(w, "cleanup_required")
            [] seen # Unseen /\ seen = job[w].seen ->
                 job' = [job EXCEPT ![w].pc = "set", ![w].seen = Unseen]
    BY DEF LookBeforeSet
  <2>2. \/ Concluded(w, "unknown") \/ Concluded(w, "cleanup_required")
        \/ job' = [job EXCEPT ![w].pc = "set", ![w].seen = Unseen]
    BY <2>1
  <2> QED
    BY <1>6, <1>7, <2>2

LEMMA SetDefaultKeeps ==
  ASSUME RichInv, NEW w \in Workers, SetDefault(w), UNCHANGED task
  PROVE  RichInv'
<1>0. DeactivationTypeOK /\ Working(w) /\ job[w].pc = "set" /\ job[w].kind = "apply"
  BY KindOfPoint DEF RichInv, SetDefault, Working
<1>1. PICK o \in Ops : job[w].op = o
  BY <1>0, WorkedOn
<1>2. /\ ops[o].kind = "apply" /\ ops[o].status = "processing"
      /\ ops[o].stage = "setting_default" /\ menus[o].life = "candidate" /\ MenuOK(o)
      /\ ops[o].kind \in Kinds /\ o \notin line.shown /\ ~Coming("set", o) /\ Begun(o)
      /\ state.active = o
  BY <1>0, <1>1, KindOfPoint, WorkedOn DEF ApplyAt
<1>3. ~Coming("create", o) /\ ~Coming("delete", o) /\ line.default # o
  BY <1>2 DEF MenuOK, Applying
<1>4. CASE Matched(job[w].rev)
  <2>1. /\ ops' = Left(o, "processing", "setting_default")
        /\ UNCHANGED <<channel, menus, state, intent>>
    BY <1>1, <1>4 DEF SetDefault, CallLine, Claimed, Left
  <2>2. ops'[o].status = "processing" /\ ops'[o].stage = "setting_default"
        /\ ops'[o].kind = "apply"
    BY <1>0, <1>2, <2>1, LeftIs DEF Statuses, InProgress, Stages
  <2>3. \/ Asked("set", o, "accepted") /\ Concluded(w, "processing")
        \/ Asked("set", o, "rejected") /\ Concluded(w, "cleanup_required")
        \/ Asked("set", o, "unknown") /\ Concluded(w, "unknown")
    BY <1>1, <1>4 DEF SetDefault, CallLine
  <2>4. /\ line' \in [menus : SUBSET Ops, default : Ops \cup {None, External},
                      late : SUBSET (Calls \X Ops), shown : SUBSET Ops]
        /\ \A n \in Ops : n # o => SameAtLine(n)
    BY <1>0, <2>3, AskedIs
  <2>5. /\ line'.menus = line.menus
        /\ \/ Concluded(w, "processing") /\ Performed("set", o)
           \/ Concluded(w, "cleanup_required") /\ line' = line
           \/ Concluded(w, "unknown") /\ (Performed("set", o) \/ Underway("set", o))
    BY <1>0, <2>3, AskedIs DEF Performed, PerformedAs, Underway
  <2>6. PICK out \in {"processing", "cleanup_required", "unknown"} : Concluded(w, out)
        /\ (out = "processing" => Performed("set", o)) /\ (out = "cleanup_required" => line' = line)
        /\ (out = "unknown" => Performed("set", o) \/ Underway("set", o))
    BY <2>5
  <2>7. /\ ~Coming("create", o)' /\ ~Coming("delete", o)'
        /\ Coming("set", o)' => o \notin line'.shown /\ out = "unknown"
        /\ line'.default = o => o \in line'.shown
        /\ line'.default # o => line'.default = line.default
    BY <1>2, <1>3, <2>6 DEF Coming, Performed, PerformedAs, Underway
  <2>8. MenuOK(o)'
    <3>1. menus'[o] = menus[o] /\ Applying(o)'
      BY <2>1, <2>2 DEF Applying, InProgress
    <3>2. Begun(o)'
      BY <1>2, <2>2, <3>1 DEF Begun
    <3> QED
      BY <1>2, <2>2, <2>7, <3>1, <3>2 DEF MenuOK
  <2>9. /\ job'[w].op = o /\ job'[w].answer = out /\ job'[w].rev = job[w].rev
        /\ job'[w].pc = IF out = "cleanup_required" THEN "settle" ELSE "complete"
    BY <1>0, <1>1, <2>6, ConcludedIs DEF Statuses, InProgress
  <2>10. ApplyAt(job[w])'
    <3>1. out = "processing" => o \in line'.shown
      BY <2>6 DEF Performed, PerformedAs
    <3> QED
      BY <1>2, <2>1, <2>2, <2>6, <2>7, <2>9, <3>1 DEF ApplyAt
  <2>11. NotReleased => NotReleased'
    BY <1>2, <2>1, <2>2, <2>7 DEF NotReleased
  <2> QED
    BY <1>0, <1>1, <2>1, <2>4, <2>6, <2>8, <2>10, <2>11, StageStep
    DEF Stages, Statuses, InProgress
<1>5. CASE ~Matched(job[w].rev)
  <2>1. Concluded(w, "unknown") /\ UNCHANGED <<channel, ops, menus, state, line, intent>>
    BY <1>5 DEF SetDefault
  <2>2. ops' = Left(o, "processing", "setting_default")
    <3>1. ops' = [ops EXCEPT ![o] = ops[o]] /\ ops \in [Ops -> Operation \cup {NoOperation}]
          /\ ops[o] \in Operation
      BY <1>0, <1>2, <2>1, Typed DEF DeactivationTypeOK, TypeOK
    <3>2. [[ops[o] EXCEPT !.status = "processing"] EXCEPT !.stage = "setting_default"] = ops[o]
      BY <1>2, <3>1 DEF Operation
    <3> QED
      BY <3>1, <3>2 DEF Left
  <2>3. /\ job'[w].op = o /\ job'[w].answer = "unknown" /\ job'[w].pc = "complete"
    BY <1>0, <1>1, <2>1, ConcludedIs DEF Statuses, InProgress
  <2>4. ApplyAt(job[w])'
    BY <1>2, <2>1, <2>3 DEF ApplyAt
  <2> QED
    BY <1>0, <1>1, <1>2, <2>1, <2>2, <2>4, StageStepQuiet DEF Stages, Statuses, InProgress
<1> QED
  BY <1>4, <1>5

LEMMA LookAfterKeeps ==
  ASSUME RichInv, NEW w \in Workers, LookAfter(w), UNCHANGED task
  PROVE  RichInv'
<1>0. DeactivationTypeOK /\ Working(w) /\ job[w].pc = "verifying"
      /\ job[w].kind \in {"apply", "unlink"}
  BY KindOfPoint DEF RichInv, LookAfter, Working
<1>1. PICK o \in Ops : job[w].op = o
  BY <1>0, WorkedOn
<1>2. /\ ops[o].kind = job[w].kind /\ ops[o].status = "processing"
      /\ ops[o].stage = "verifying" /\ MenuOK(o) /\ ops[o].kind \in Kinds
      /\ job[w].kind = "apply" => menus[o].life = "candidate"
  BY <1>0, <1>1, KindOfPoint, WorkedOn DEF ApplyAt, UnlinkAt, Processing
<1>3. job[w].kind = "apply" => ~Coming("create", o) /\ ~Coming("set", o)
  BY <1>2 DEF MenuOK
<1>4. /\ ops' = Left(o, "processing", "verifying")
      /\ UNCHANGED <<channel, menus, state, line, intent>>
  BY <1>1 DEF LookAfter, Claimed, Left
<1>5. ops'[o].status = "processing" /\ ops'[o].stage = "verifying" /\ ops'[o].kind = ops[o].kind
  BY <1>0, <1>2, <1>4, LeftIs DEF Statuses, InProgress, Stages
<1>6. PICK out \in {"unknown", "succeeded", "cleanup_required"} :
        Concluded(w, out) /\ (job[w].kind = "unlink" => out # "cleanup_required")
  <2>1. PICK seen \in Looks :
       Concluded(w,
         CASE seen = Unseen -> "unknown"
           [] seen # Unseen /\ job[w].kind = "apply" ->
                IF seen.menu = job[w].op THEN "succeeded" ELSE "cleanup_required"
           [] seen # Unseen /\ job[w].kind = "unlink" ->
                IF seen.menu = job[w].target THEN "unknown" ELSE "succeeded")
    BY DEF LookAfter
  <2>2. CASE seen = Unseen
    BY <2>1, <2>2
  <2>3. CASE seen # Unseen /\ job[w].kind = "apply"
    BY <2>1, <2>3
  <2>4. CASE seen # Unseen /\ job[w].kind = "unlink"
    BY <2>1, <2>4
  <2> QED
    BY <1>0, <2>2, <2>3, <2>4
<1>7. /\ job'[w].op = o /\ job'[w].answer = out /\ job'[w].kind = job[w].kind
      /\ job[w].kind = "apply" =>
           job'[w].pc = IF out = "cleanup_required" THEN "settle" ELSE "complete"
      /\ job[w].kind = "unlink" =>
           job'[w].pc = IF out = "succeeded" THEN "settle" ELSE "complete"
  BY <1>0, <1>1, <1>6, ConcludedIs DEF Statuses, InProgress
<1>8. job[w].kind = "apply" => ApplyAt(job[w])'
  BY <1>2, <1>3, <1>4, <1>5, <1>6, <1>7 DEF ApplyAt, Coming
<1>9. job[w].kind = "unlink" => UnlinkAt(job[w])'
  BY <1>2, <1>4, <1>5, <1>6, <1>7 DEF UnlinkAt
<1> QED
  BY <1>0, <1>1, <1>2, <1>4, <1>6, <1>8, <1>9, StageStepQuiet DEF Stages, Statuses, InProgress

LEMMA ClearDefaultKeeps ==
  ASSUME RichInv, NEW w \in Workers, ClearDefault(w), UNCHANGED task
  PROVE  RichInv'
<1>0. DeactivationTypeOK /\ Working(w) /\ job[w].pc = "clearing_default" /\ job[w].kind = "unlink"
  BY KindOfPoint DEF RichInv, ClearDefault, Working
<1>1. PICK o \in Ops : job[w].op = o
  BY <1>0, WorkedOn
<1>2. PICK m \in Ops : job[w].target = m
  BY <1>0, WorkedOn DEF Target
<1>3. /\ ops[o].kind = "unlink" /\ MenuOK(o) /\ ops[o].kind \in Kinds /\ Target(m)
      /\ state.active = o
  BY <1>0, <1>1, <1>2, WorkedOn
<1>4. /\ ops' = Left(o, "processing", "clearing_default")
      /\ UNCHANGED <<channel, menus, state, intent>>
  BY <1>1 DEF ClearDefault, CallLine, Claimed, Left
<1>5. /\ ops'[o].status = "processing" /\ ops'[o].stage = "clearing_default"
      /\ ops'[o].kind = ops[o].kind /\ \A x \in Ops : x # o => ops'[x] = ops[x]
  BY <1>0, <1>3, <1>4, LeftIs DEF Statuses, InProgress, Stages
<1>6. PICK answer \in {"accepted", "rejected", "unknown"}, out \in {"processing", "failed", "unknown"} :
        Asked("clear", m, answer) /\ Concluded(w, out)
  BY <1>2 DEF ClearDefault, CallLine
<1>7. /\ line' \in [menus : SUBSET Ops, default : Ops \cup {None, External},
                    late : SUBSET (Calls \X Ops), shown : SUBSET Ops]
      /\ line'.menus = line.menus /\ line'.shown = line.shown
      /\ line'.default \in {line.default, None}
      /\ line'.late \in {line.late, line.late \cup {<<"clear", m>>}}
  BY <1>0, <1>6, AskedIs DEF Performed, PerformedAs, Underway
<1>8. \A n \in Ops : SameAtLine(n)
  <2>1. \A n \in Ops : line'.default = n => line.default = n
    BY <1>7, RichAssumption
  <2>2. \A call \in {"create", "set", "delete"}, n \in Ops : <<call, n>> # <<"clear", m>>
    OBVIOUS
  <2> QED
    BY <1>7, <2>1, <2>2 DEF SameAtLine, Coming
<1>9. MenuOK(o)'
  BY <1>3, <1>4, <1>5, <1>8, MenuFrame
<1>10. UnlinkAt(job[w])'
  <2>1. /\ job'[w].op = o /\ job'[w].answer = out /\ job'[w].pc = "complete"
    BY <1>0, <1>1, <1>6, ConcludedIs DEF Statuses, InProgress
  <2> QED
    BY <1>5, <1>6, <2>1 DEF UnlinkAt
<1>11. NotReleased => NotReleased'
  BY <1>3, <1>4, <1>5, <1>7, RichAssumption DEF NotReleased
<1> QED
  BY <1>0, <1>1, <1>3, <1>4, <1>6, <1>7, <1>8, <1>9, <1>10, <1>11, StageStep
  DEF Stages, Statuses, InProgress

LEMMA SkipClearKeeps ==
  ASSUME RichInv, NEW w \in Workers, SkipClear(w), UNCHANGED task
  PROVE  RichInv'
<1>0. DeactivationTypeOK /\ Working(w) /\ job[w].pc = "clearing_default" /\ job[w].kind = "unlink"
  BY KindOfPoint DEF RichInv, SkipClear, Working
<1>1. PICK o \in Ops : job[w].op = o
  BY <1>0, WorkedOn
<1>2. ops[o].kind = "unlink" /\ ops[o].kind \in Kinds
  BY <1>0, <1>1, WorkedOn
<1>3. /\ ops' = Left(o, "processing", "clearing_default")
      /\ UNCHANGED <<channel, menus, state, line, intent>>
  BY <1>1 DEF SkipClear, Claimed, Left
<1>4. ops'[o].status = "processing" /\ ops'[o].stage = "clearing_default"
  BY <1>0, <1>2, <1>3, LeftIs DEF Statuses, InProgress, Stages
<1>5. PICK out \in {"unknown", "succeeded"} : Concluded(w, out)
  BY DEF SkipClear
<1>6. /\ job'[w].op = o /\ job'[w].answer = out
      /\ job'[w].pc = IF out = "succeeded" THEN "settle" ELSE "complete"
  BY <1>0, <1>1, <1>5, ConcludedIs DEF Statuses, InProgress
<1>7. UnlinkAt(job[w])'
  BY <1>4, <1>5, <1>6 DEF UnlinkAt
<1> QED
  BY <1>0, <1>1, <1>3, <1>5, <1>7, StageStepQuiet DEF Stages, Statuses, InProgress

LEMMA ReleaseMenuKeeps ==
  ASSUME RichInv, NEW w \in Workers, ReleaseMenu(w), UNCHANGED task
  PROVE  RichInv'
<1>0. DeactivationTypeOK /\ Working(w) /\ job[w].pc = "local_release" /\ job[w].kind = "release"
  BY KindOfPoint DEF RichInv, ReleaseMenu, Working
<1>1. PICK o \in Ops : job[w].op = o
  BY <1>0, WorkedOn
<1>2. ops[o].kind = "release" /\ ops[o].kind \in Kinds
  BY <1>0, <1>1, WorkedOn
<1>3. /\ ops' = Left(o, "processing", "local_release")
      /\ UNCHANGED <<channel, menus, state, line, intent>>
  BY <1>1 DEF ReleaseMenu, Claimed, Left
<1>4. ops'[o].status = "processing" /\ ops'[o].stage = "local_release" /\ ops'[o].kind = "release"
  BY <1>0, <1>2, <1>3, LeftIs DEF Statuses, InProgress, Stages
<1>5. Concluded(w, "succeeded")
  BY DEF ReleaseMenu
<1>6. job'[w].op = o /\ job'[w].answer = "succeeded" /\ job'[w].pc = "settle"
  BY <1>0, <1>1, <1>5, ConcludedIs DEF Statuses, InProgress
<1>7. ReleaseAt(job[w])'
  BY <1>4, <1>6 DEF ReleaseAt, Processing
<1> QED
  BY <1>0, <1>1, <1>3, <1>5, <1>7, StageStepQuiet DEF Stages, Statuses, InProgress

-----------------------------------------------------------------------------
(* Stages: the menu settled, the operation completed                        *)

\* The operations and LINE stay as they are, and so do all menus but one.
LEMMA MenuStep ==
  ASSUME RichInv, NEW w \in Workers, Working(w), NEW pc \in Points, pc # "accept", Go(w, pc),
         UNCHANGED <<channel, ops, line, intent, task>>,
         NEW m \in Ops, \A x \in Ops : x # m => menus'[x] = menus[x],
         menus' \in [Ops -> Menu \cup {NoMenu}],
         state' \in [current : Ops \cup {None}, active : Ops \cup {None},
                     blocking : Ops \cup {None}, seen : Ops \cup {None}],
         state'.active = state.active, state'.blocking = state.blocking,
         MenuOK(m)', CurrentOK', WorkOK(w)', NotReleased => NotReleased'
  PROVE  RichInv'
<1>0. DeactivationTypeOK
  BY DEF RichInv
<1>1. \A x \in Ops : MenuOK(x)'
  <2> TAKE x \in Ops
  <2>1. SameAtLine(x) /\ MenuOK(x)
    BY DEF SameAtLine, Coming, RichInv, Rows
  <2> QED
    BY <2>1, MenuFrame
<1>2. ActiveOK' /\ BlockingOK'
  BY DEF RichInv, Rows, ActiveOK, BlockingOK, DeadEnd, Unresolved
<1>3. TargetsOK' /\ DeletionsOK'
  BY DEF RichInv, Rows, TargetsOK, Target, Applying, DeletionsOK, Coming
<1>4. /\ job' \in [Workers -> Job] /\ \A v \in Workers : v # w => job'[v] = job[v]
      /\ job'[w].pc # "accept"
  BY <1>0, GoIs
<1>5. DeactivationTypeOK'
  BY <1>0, <1>4 DEF DeactivationTypeOK, TypeOK
<1> QED
  BY <1>1, <1>2, <1>3, <1>4, <1>5, WorkStep DEF Rows

LEMMA DropStep ==
  ASSUME RichInv, NEW w \in Workers, Working(w), Go(w, "complete"),
         UNCHANGED <<channel, ops, line, intent, task>>,
         NEW m \in Ops, menus[m].life # "absent",
         NEW life \in Lifecycles \ {"applied"}, Dropped(m, life),
         MenuOK(m)', WorkOK(w)', NotReleased => NotReleased'
  PROVE  RichInv'
<1>0. DeactivationTypeOK /\ CurrentOK
  BY DEF RichInv, Rows
<1>1. /\ menus' \in [Ops -> Menu \cup {NoMenu}] /\ menus'[m].life = life
      /\ \A x \in Ops : x # m => menus'[x] = menus[x]
  BY <1>0, LifeIs DEF Dropped
<1>2. /\ state' \in [current : Ops \cup {None}, active : Ops \cup {None},
                     blocking : Ops \cup {None}, seen : Ops \cup {None}]
      /\ state'.active = state.active /\ state'.blocking = state.blocking
      /\ state'.current = IF state.current = m THEN None ELSE state.current
  BY <1>0 DEF Dropped, DeactivationTypeOK, TypeOK
<1>3. CurrentOK'
  BY <1>0, <1>1, <1>2, RichAssumption DEF CurrentOK
<1> QED
  BY <1>1, <1>2, <1>3, MenuStep DEF Points

LEMMA SettleKeeps ==
  ASSUME RichInv, NEW w \in Workers, Settle(w), UNCHANGED task
  PROVE  RichInv'
<1>0. /\ DeactivationTypeOK /\ Working(w) /\ job[w].pc = "settle"
      /\ job[w].kind \in {"apply", "unlink", "release"}
      /\ Go(w, "complete") /\ UNCHANGED <<channel, ops, line, intent>>
  BY KindOfPoint DEF RichInv, Settle, Working
<1>1. PICK o \in Ops : job[w].op = o
  BY <1>0, WorkedOn
<1>2. /\ MenuOK(o) /\ ops[o].kind = job[w].kind /\ state.active = o
      /\ job[w].kind = "apply" => Applying(o) /\ Begun(o)
      /\ ops[o].target = job[w].target /\ state.blocking = None
      /\ \A x \in Ops : ~Unresolved(x)
      /\ job[w].kind # "apply" => Target(job[w].target)
  BY <1>0, <1>1, WorkedOn
<1>3. /\ job'[w].pc = "complete" /\ job'[w].kind = job[w].kind /\ job'[w].op = o
      /\ job'[w].target = job[w].target /\ job'[w].subject = job[w].subject
      /\ job'[w].rev = job[w].rev /\ job'[w].answer = job[w].answer
      /\ \A v \in Workers : v # w => job'[v] = job[v]
  BY <1>0, <1>1, GoIs DEF Points
<1>4. CASE job[w].kind = "apply"
  <2>1. /\ ops[o].status = "processing" /\ menus[o].life = "candidate"
        /\ ~Coming("create", o) /\ ~Coming("set", o)
        /\ \/ ops[o].stage = "creating" /\ job[w].answer = "processing"
           \/ ops[o].stage = "creating" /\ job[w].answer = "failed" /\ o \notin line.menus
           \/ ops[o].stage \in {"uploading", "setting_default", "verifying"}
              /\ job[w].answer = "cleanup_required"
    BY <1>0, <1>1, <1>4, KindOfPoint DEF ApplyAt
  <2>2. WorkOK(w) /\ ~Coming("delete", o) /\ (line.default = o => o \in line.shown)
        /\ (ops[o].stage = "creating" => line.default # o)
    BY <1>2, <1>4, <2>1 DEF RichInv, MenuOK, Begun
  <2>3. ApplyAt(job[w])' => WorkOK(w)'
    <3>1. state'.active = state.active
      BY <1>0, <2>1 DEF Settle, Dropped, DeactivationTypeOK, TypeOK
    <3> QED
      BY <1>0, <1>1, <1>3, <1>4, <2>2, <3>1 DEF WorkOK, Working
  <2>4. CASE job[w].answer = "processing"
    <3>1. menus' = [menus EXCEPT ![o].bound = Matched(job[w].rev)] /\ state' = state
      BY <1>1, <2>4 DEF Settle
    <3>2. Matched(job[w].rev) \in BOOLEAN
      BY DEF Matched
    <3> DEFINE n == [menus[o] EXCEPT !.bound = Matched(job[w].rev)]
    <3>3. menus \in [Ops -> Menu \cup {NoMenu}] /\ menus[o] \in Menu
      BY <1>0, <2>1 DEF DeactivationTypeOK, TypeOK, NoMenu
    <3>4. /\ n \in Menu /\ n.life = menus[o].life /\ n.replacedBy = menus[o].replacedBy
          /\ n.bound = Matched(job[w].rev)
      BY <3>2, <3>3 DEF Menu
    <3>5. menus' = [menus EXCEPT ![o] = n]
      BY <3>1, <3>3
    <3> HIDE DEF n
    <3>6. /\ menus' \in [Ops -> Menu \cup {NoMenu}] /\ menus'[o] = n
          /\ \A x \in Ops : x # o => menus'[x] = menus[x]
      BY <3>3, <3>4, <3>5
    <3>7. MenuOK(o)'
      <4>1. Applying(o)' /\ ops[o].stage = "creating"
        BY <1>0, <1>2, <1>4, <2>1, <2>4 DEF Applying
      <4>2. Begun(o)'
        BY <1>0, <1>2, <1>4, <2>1, <3>4, <3>6, <4>1 DEF Begun
      <4> QED
        BY <1>0, <1>2, <1>4, <2>1, <2>2, <3>4, <3>6, <4>1, <4>2 DEF MenuOK, Coming
    <3>8. ApplyAt(job[w])'
      <4>1. job'[w].rev = job[w].rev /\ (Matched(job[w].rev))' = Matched(job[w].rev)
        BY <1>0, <1>3 DEF Matched
      <4> QED
        BY <1>0, <1>3, <2>1, <2>4, <3>4, <3>6, <4>1 DEF ApplyAt, Coming
    <3>9. CurrentOK'
      BY <3>1, <3>4, <3>6 DEF RichInv, Rows, CurrentOK
    <3>10. NotReleased => NotReleased'
      BY <1>0, <3>1, <3>4, <3>6 DEF NotReleased
    <3> QED
      BY <1>0, <2>3, <3>1, <3>6, <3>7, <3>8, <3>9, <3>10, MenuStep
      DEF Points, DeactivationTypeOK, TypeOK
  <2>5. CASE job[w].answer # "processing"
    <3> DEFINE life == IF job[w].answer = "failed" THEN "deleted" ELSE "cleanup_required"
    <3>1. Dropped(o, life) /\ life \in {"deleted", "cleanup_required"}
      BY <1>1, <2>1, <2>5 DEF Settle
    <3> HIDE DEF life
    <3>2. menus'[o].life = life /\ menus'[o].replacedBy = menus[o].replacedBy
          /\ menus'[o].bound = menus[o].bound /\ \A x \in Ops : x # o => menus'[x] = menus[x]
      BY <1>0, <2>1, <3>1, LifeIs DEF Dropped, Lifecycles
    <3>3. MenuOK(o)'
      <4>1. Applying(o)' /\ (life = "deleted" => ops[o].stage = "creating" /\ o \notin line.menus)
        BY <1>0, <1>2, <1>4, <2>1 DEF Applying, life
      <4>2. Begun(o)'
        BY <1>0, <1>2, <1>4, <3>1, <3>2, <4>1 DEF Begun
      <4> QED
        BY <1>0, <1>2, <1>4, <2>1, <2>2, <3>1, <3>2, <4>1, <4>2 DEF MenuOK, Coming
    <3>4. ApplyAt(job[w])'
      BY <1>0, <1>3, <2>1, <2>5, <3>2 DEF ApplyAt, Coming, life
    <3>5. NotReleased => NotReleased'
      <4>1. state'.active = state.active
        BY <1>0, <3>1 DEF Dropped, DeactivationTypeOK, TypeOK
      <4> QED
        BY <1>0, <3>1, <3>2, <4>1 DEF NotReleased
    <3> QED
      BY <1>0, <2>1, <2>3, <3>1, <3>3, <3>4, <3>5, DropStep DEF Lifecycles
  <2> QED
    BY <2>4, <2>5
<1>5. CASE job[w].kind # "apply"
  <2>1. PICK m \in Ops : job[w].target = m /\ ops[m].kind = "apply" /\ ~Applying(m) /\ MenuOK(m)
    BY <1>2, <1>5 DEF Target, RichInv, Rows
  <2> DEFINE life == IF job[w].kind = "unlink" THEN "cleanup_required" ELSE "released"
  <2>2. job[w].answer = "succeeded"
    BY <1>0, <1>1, <1>5, KindOfPoint DEF UnlinkAt, ReleaseAt
  <2>3. Dropped(m, life) /\ menus[m].life # "absent" /\ life \in {"cleanup_required", "released"}
    BY <1>1, <2>1, <2>2 DEF Settle, MenuOK
  <2>5. life = "released" <=> job[w].kind = "release"
    BY <1>0, <1>5
  <2>4. life = "released" => ~Coming("delete", m)
    <3> SUFFICES ASSUME job[w].kind = "release", Coming("delete", m)
                 PROVE  FALSE
      BY <2>5
    <3>1. PICK c \in Ops : /\ ops[c].kind = "cleanup"
                           /\ state.active = c \/ ops[c].status = "unknown"
      BY DEF RichInv, Rows, DeletionsOK
    <3> QED
      BY <1>2, <3>1 DEF Unresolved
  <2> HIDE DEF life
  <2>6. menus'[m].life = life /\ menus'[m].bound = menus[m].bound
        /\ \A x \in Ops : x # m => menus'[x] = menus[x]
    BY <1>0, <2>3, LifeIs DEF Dropped, Lifecycles
  <2>7. MenuOK(m)'
    <3>1. ops'[m] = ops[m] /\ ~Applying(m)'
      BY <1>0, <2>1 DEF Applying
    <3> QED
      BY <1>0, <2>1, <2>3, <2>4, <2>6, <3>1 DEF MenuOK, Coming
  <2>8. state'.active = state.active
    BY <1>0, <2>3 DEF Dropped, DeactivationTypeOK, TypeOK
  <2>9. WorkOK(w)'
    <3>1. WorkOK(w)
      BY DEF RichInv
    <3>2. job[w].kind = "unlink" => UnlinkAt(job[w]) /\ UnlinkAt(job[w])'
      BY <1>0, <1>1, <1>3, <2>2, KindOfPoint DEF UnlinkAt
    <3>3. job[w].kind = "release" => ReleaseAt(job[w]) /\ ReleaseAt(job[w])'
      BY <1>0, <1>1, <1>3, <2>2, KindOfPoint DEF ReleaseAt, Processing
    <3> QED
      BY <1>0, <1>1, <1>3, <1>5, <2>8, <3>1, <3>2, <3>3 DEF WorkOK, Working
  <2>10. NotReleased => NotReleased'
    BY <1>0, <1>2, <2>1, <2>3, <2>5, <2>6, <2>8 DEF NotReleased
  <2> QED
    BY <1>0, <2>3, <2>7, <2>9, <2>10, DropStep DEF Lifecycles
<1> QED
  BY <1>4, <1>5

\* A request at work comes to its end.
LEMMA EndStep ==
  ASSUME RichInv, NEW w \in Workers, Working(w),
         NEW answer \in Statuses \cup {"none", "returned"}, Over(w, answer),
         UNCHANGED <<channel, line, intent, task>>,
         ops' \in [Ops -> Operation \cup {NoOperation}],
         menus' \in [Ops -> Menu \cup {NoMenu}],
         state' \in [current : Ops \cup {None}, active : Ops \cup {None},
                     blocking : Ops \cup {None}, seen : Ops \cup {None}],
         state'.active = None \/ UNCHANGED <<ops, state>>,
         \A m \in Ops : menus'[m].life = "released" => menus[m].life = "released",
         Rows'
  PROVE  RichInv'
<1>0. DeactivationTypeOK
  BY DEF RichInv
<1>1. /\ job' \in [Workers -> Job] /\ \A v \in Workers : v # w => job'[v] = job[v]
      /\ job'[w].pc = "idle"
  BY <1>0, OverIs
<1>2. DeactivationTypeOK'
  BY <1>0, <1>1 DEF DeactivationTypeOK, TypeOK
<1>3. WorkOK(w)'
  BY <1>1 DEF WorkOK, Working
<1>4. NotReleased => NotReleased'
  BY RichAssumption DEF NotReleased
<1> QED
  BY <1>1, <1>2, <1>3, <1>4, WorkStep

LEMMA CompleteRefusedKeeps ==
  ASSUME RichInv, NEW w \in Workers, CompleteRefused(w), UNCHANGED task
  PROVE  RichInv'
<1>1. Working(w) /\ Over(w, "failed") /\ UNCHANGED <<channel, ops, menus, state, line, intent>>
  BY DEF CompleteRefused, Working
<1>2. Rows'
  BY <1>1, RowsFrame DEF RichInv, Quiet
<1>3. /\ ops \in [Ops -> Operation \cup {NoOperation}] /\ menus \in [Ops -> Menu \cup {NoMenu}]
      /\ state \in [current : Ops \cup {None}, active : Ops \cup {None},
                    blocking : Ops \cup {None}, seen : Ops \cup {None}]
  BY DEF RichInv, DeactivationTypeOK, TypeOK
<1> QED
  BY <1>1, <1>2, <1>3, EndStep DEF Statuses

\* An operation that is no recovery is over: it blocks the channel, or nothing does.
LEMMA EndRows ==
  ASSUME RichInv, NEW w \in Workers, Working(w), job[w].kind \in {"apply", "unlink", "release"},
         NEW o \in Ops, job[w].op = o,
         NEW status \in {"unknown", "cleanup_required", "failed", "succeeded"},
         NEW stage \in Stages \cup {"none"}, ops' = Left(o, status, stage),
         state'.active = None,
         state'.blocking = IF status \in {"unknown", "cleanup_required"} THEN o ELSE None,
         line' = line, \A m \in Ops : MenuOK(m)', CurrentOK'
  PROVE  Rows'
<1>0. DeactivationTypeOK /\ None \notin Ops
  BY RichAssumption DEF RichInv
<1>1. /\ ops[o].kind = job[w].kind /\ ops[o].kind \in Kinds
      /\ ops[o].status \in InProgress /\ state.active = o
      /\ \A x \in Ops : x # o => ops[x].status \notin InProgress
      /\ \A x \in Ops : ~Unresolved(x)
      /\ job[w].kind = "apply" => Applying(o)
  BY WorkedOn
<1>2. /\ \A x \in Ops : x # o => ops'[x] = ops[x]
      /\ ops'[o].kind = ops[o].kind /\ ops'[o].status = status
      /\ ops'[o].target = ops[o].target /\ ops'[o].subject = ops[o].subject
  <2>1. status \in Statuses
    BY DEF Statuses
  <2> QED
    BY <1>0, <1>1, <2>1, LeftIs
<1>3. ActiveOK'
  BY <1>0, <1>1, <1>2 DEF ActiveOK, InProgress
<1>4. BlockingOK'
  BY <1>0, <1>1, <1>2 DEF RichInv, Rows, BlockingOK, Unresolved, Recoveries
<1>5. TargetsOK'
  <2>1. \A x \in Ops : Applying(x)' => Applying(x)
    BY <1>1, <1>2 DEF Applying
  <2> QED
    BY <1>2, <2>1 DEF RichInv, Rows, TargetsOK, Target
<1>6. DeletionsOK'
  <2>1. \A m \in Ops : ~Coming("delete", m)
    BY <1>1 DEF RichInv, Rows, DeletionsOK, Unresolved
  <2> QED
    BY <2>1 DEF DeletionsOK, Coming
<1> QED
  BY <1>3, <1>4, <1>5, <1>6 DEF Rows

LEMMA CompleteStaleKeeps ==
  ASSUME RichInv, NEW w \in Workers, CompleteStale(w), UNCHANGED task
  PROVE  RichInv'
<1>0. /\ DeactivationTypeOK /\ Working(w) /\ job[w].pc = "complete"
      /\ job[w].kind \in {"apply", "unlink", "release"}
      /\ Over(w, "returned") /\ UNCHANGED <<channel, menus, line, intent>>
  BY KindOfPoint DEF RichInv, CompleteStale, Working
<1>1. PICK o \in Ops : job[w].op = o
  BY <1>0, WorkedOn
<1>2. /\ ops[o].kind = job[w].kind /\ ops[o].kind \in Kinds /\ MenuOK(o)
      /\ ops[o] \in Operation
      /\ job[w].kind = "apply" => Applying(o)
  BY <1>0, <1>1, WorkedOn, Typed
<1>3. ops[o].stage \in Stages \cup {"none"}
  BY <1>2 DEF Operation
<1>4. ops' = Left(o, "unknown", ops[o].stage)
  BY <1>0, <1>1, <1>2, StatusIs DEF CompleteStale, MakeUnknown, Statuses
<1>5. /\ ops' \in [Ops -> Operation \cup {NoOperation}]
      /\ \A x \in Ops : x # o => ops'[x] = ops[x]
      /\ ops'[o].kind = ops[o].kind /\ ops'[o].status = "unknown" /\ ops'[o].stage = ops[o].stage
  BY <1>0, <1>2, <1>3, <1>4, LeftIs DEF Statuses, InProgress
<1>6. /\ state' \in [current : Ops \cup {None}, active : Ops \cup {None},
                     blocking : Ops \cup {None}, seen : Ops \cup {None}]
      /\ state'.active = None /\ state'.blocking = o /\ state'.current = state.current
  BY <1>0, <1>1 DEF CompleteStale, MakeUnknown, Freed, DeactivationTypeOK, TypeOK
<1>7. \A m \in Ops : MenuOK(m)'
  <2> TAKE m \in Ops
  <2>1. SameAtLine(m) /\ menus'[m] = menus[m] /\ MenuOK(m)
    BY <1>0 DEF SameAtLine, Coming, RichInv, Rows
  <2>2. CASE m # o
    BY <1>5, <2>1, <2>2, MenuFrame
  <2>3. CASE m = o /\ ops[o].kind # "apply"
    BY <1>5, <2>1, <2>3, MenuFrame
  <2>4. CASE m = o /\ ops[o].kind = "apply"
    <3>1. Applying(o) /\ Applying(o)'
      BY <1>2, <1>5, <2>4 DEF Applying
    <3>2. Begun(o) /\ Begun(o)'
      BY <1>0, <1>2, <1>5, <2>1, <2>4, <3>1 DEF MenuOK, Begun
    <3> QED
      BY <1>0, <1>5, <2>1, <2>4, <3>1, <3>2 DEF MenuOK, Coming
  <2> QED
    BY <2>2, <2>3, <2>4
<1>8. CurrentOK'
  BY <1>0, <1>6 DEF RichInv, Rows, CurrentOK
<1>9. Rows'
  BY <1>0, <1>1, <1>3, <1>4, <1>6, <1>7, <1>8, EndRows
<1> QED
  BY <1>0, <1>5, <1>6, <1>9, EndStep DEF DeactivationTypeOK, TypeOK

\* What becomes of the menus when an apply is completed.
LEMMA AppliedIs ==
  ASSUME DeactivationTypeOK, CurrentOK, NEW o \in Ops, menus[o].life \notin {"absent", "applied"},
         Applied(o)
  PROVE  /\ menus' \in [Ops -> Menu \cup {NoMenu}]
         /\ menus'[o].life = "applied" /\ menus'[o].bound = menus[o].bound
         /\ \A m \in Ops : m # o /\ m # state.current => menus'[m] = menus[m]
         /\ \A m \in Ops : m = state.current => m # o /\ menus'[m].life = "old"
         /\ state' \in [current : Ops \cup {None}, active : Ops \cup {None},
                        blocking : Ops \cup {None}, seen : Ops \cup {None}]
         /\ state'.active = None /\ state'.current = o
         /\ state'.blocking = IF state.current = None THEN None ELSE o
<1>1. menus \in [Ops -> Menu \cup {NoMenu}] /\ menus[o] \in Menu
  BY DEF DeactivationTypeOK, TypeOK, NoMenu
<1> DEFINE n == [menus[o] EXCEPT !.life = "applied"]
           p(m) == [menus[m] EXCEPT !.life = "old", !.replacedBy = o]
<1>2. n \in Menu /\ n.life = "applied" /\ n.bound = menus[o].bound
  BY <1>1 DEF Menu, Lifecycles
<1>3. \A m \in Ops : menus[m].life = "applied" => p(m) \in Menu /\ p(m).life = "old"
  <2> TAKE m \in Ops
  <2> HAVE menus[m].life = "applied"
  <2>1. menus[m] \in Menu
    BY <1>1 DEF NoMenu
  <2> QED
    BY <2>1 DEF Menu, Lifecycles
<1>4. menus' = [m \in Ops |-> IF m = o THEN n
                              ELSE IF m = state.current THEN p(m) ELSE menus[m]]
  BY DEF Applied
<1> HIDE DEF n, p
<1>5. \A m \in Ops : m = state.current <=> menus[m].life = "applied"
  BY DEF CurrentOK
<1>6. /\ menus' \in [Ops -> Menu \cup {NoMenu}] /\ menus'[o] = n
      /\ \A m \in Ops : m # o /\ m # state.current => menus'[m] = menus[m]
      /\ \A m \in Ops : m = state.current => m # o /\ menus'[m].life = "old"
  BY <1>1, <1>2, <1>3, <1>4, <1>5
<1>7. /\ state' \in [current : Ops \cup {None}, active : Ops \cup {None},
                     blocking : Ops \cup {None}, seen : Ops \cup {None}]
      /\ state'.active = None /\ state'.current = o
      /\ state'.blocking = IF state.current = None THEN None ELSE o
  BY DEF Applied, DeactivationTypeOK, TypeOK
<1> QED
  BY <1>2, <1>6, <1>7

LEMMA AppliedMenus ==
  ASSUME RichInv, NEW o \in Ops, ops[o].kind = "apply", Applying(o),
         menus[o].life \in {"candidate", "cleanup_required"}, menus[o].bound,
         o \in line.shown, ~Coming("create", o), ~Coming("set", o), Applied(o), line' = line,
         ops'[o].kind = "apply", ops'[o].status \in {"succeeded", "cleanup_required"},
         \A x \in Ops : x # o => /\ ops'[x].kind = ops[x].kind
                                 /\ ops[x].kind = "apply" => ops'[x] = ops[x]
  PROVE  (\A m \in Ops : MenuOK(m)') /\ CurrentOK'
<1>0. DeactivationTypeOK /\ CurrentOK /\ MenuOK(o)
  BY DEF RichInv, Rows
<1>1. /\ menus'[o].life = "applied" /\ menus'[o].bound = menus[o].bound
      /\ \A m \in Ops : m # o /\ m # state.current => menus'[m] = menus[m]
      /\ \A m \in Ops : m = state.current => m # o /\ menus'[m].life = "old"
      /\ state'.current = o
  BY <1>0, AppliedIs
<1>2. \A m \in Ops : MenuOK(m)'
  <2> TAKE m \in Ops
  <2>1. SameAtLine(m) /\ MenuOK(m)
    BY DEF SameAtLine, Coming, RichInv, Rows
  <2>2. CASE m # o /\ m # state.current
    BY <1>1, <2>1, <2>2, MenuFrame
  <2>3. CASE m = o
    <3>1. ~Applying(o)' /\ ~Coming("delete", o)
      BY <1>0 DEF Applying, InProgress, MenuOK
    <3> QED
      BY <1>0, <1>1, <2>3, <3>1 DEF MenuOK, Coming
  <2>4. CASE m = state.current
    <3>1. /\ menus[m].life = "applied" /\ m # o /\ menus'[m].life = "old"
      BY <1>0, <1>1, <2>4 DEF CurrentOK
    <3>2. ops[m].kind = "apply" /\ ~Applying(m)
      BY <2>1, <3>1 DEF MenuOK, NoTrace, NoMenu, Begun
    <3>3. ops'[m] = ops[m] /\ ~Applying(m)'
      BY <3>1, <3>2 DEF Applying
    <3> QED
      BY <2>1, <3>1, <3>2, <3>3 DEF MenuOK, Coming
  <2> QED
    BY <2>2, <2>3, <2>4
<1>3. CurrentOK'
  BY <1>0, <1>1 DEF CurrentOK
<1> QED
  BY <1>2, <1>3

LEMMA CompleteStageKeeps ==
  ASSUME RichInv, NEW w \in Workers, CompleteStage(w), UNCHANGED task
  PROVE  RichInv'
<1>0. /\ DeactivationTypeOK /\ Working(w) /\ job[w].pc = "complete"
      /\ job[w].kind \in {"apply", "unlink", "release"}
      /\ UNCHANGED <<channel, line, intent>>
  BY KindOfPoint DEF RichInv, CompleteStage, Working
<1>1. PICK o \in Ops : job[w].op = o
  BY <1>0, WorkedOn
<1> DEFINE stage == ops[o].stage
           answer == job[w].answer
<1>2. /\ ops[o].kind = job[w].kind /\ ops[o].kind \in Kinds /\ MenuOK(o)
      /\ ops[o].rev = job[w].rev /\ ops[o].target = job[w].target
      /\ ops[o].subject = job[w].subject /\ state.active = o
      /\ ops[o] \in Operation
      /\ job[w].kind = "apply" => Applying(o) /\ Begun(o)
  BY <1>0, <1>1, WorkedOn, Typed
<1>3. /\ ops[o].status = "processing" /\ Matched(job[w].rev)
      /\ answer \in Outcomes(job[w].kind, stage) /\ WorkOK(w)
  BY <1>0, <1>1, <1>2, KindOfPoint
  DEF CompleteStage, ApplyAt, UnlinkAt, ReleaseAt, Processing, RichInv
<1>4. /\ job[w].kind = "apply" => ApplyAt(job[w])
      /\ job[w].kind = "unlink" => UnlinkAt(job[w])
      /\ job[w].kind = "release" => ReleaseAt(job[w])
  BY <1>0, KindOfPoint
<1>5. ops \in [Ops -> Operation \cup {NoOperation}] /\ menus \in [Ops -> Menu \cup {NoMenu}]
  BY <1>0 DEF DeactivationTypeOK, TypeOK
<1>6. \A m \in Ops : SameAtLine(m) /\ MenuOK(m)
  BY <1>0 DEF SameAtLine, Coming, RichInv, Rows
<1>7. CASE answer = "processing"
  <2>1. /\ ops' = Left(o, "processing", NextStage(stage))
        /\ job' = [job EXCEPT ![w].pc = NextStage(stage), ![w].answer = "none"]
        /\ UNCHANGED <<menus, state>>
    BY <1>1, <1>7 DEF CompleteStage
  <2>2. \/ stage = "creating" /\ NextStage(stage) = "uploading" /\ job[w].kind = "apply"
        \/ stage = "uploading" /\ NextStage(stage) = "setting_default" /\ job[w].kind = "apply"
        \/ stage = "setting_default" /\ NextStage(stage) = "verifying" /\ job[w].kind = "apply"
        \/ stage = "clearing_default" /\ NextStage(stage) = "verifying" /\ job[w].kind = "unlink"
    <3>1. job[w].kind = "apply" => stage \in {"creating", "uploading", "setting_default"}
      BY <1>0, <1>1, <1>4, <1>7 DEF ApplyAt
    <3>2. job[w].kind = "unlink" => stage = "clearing_default"
      <4>1. job[w].kind = "unlink" => stage \in {"clearing_default", "verifying"}
        BY <1>0, <1>1, <1>4 DEF UnlinkAt
      <4>2. stage = "verifying" /\ job[w].kind = "unlink" =>
              Outcomes(job[w].kind, stage) = {"succeeded", "failed", "unknown"}
        BY DEF Outcomes
      <4> QED
        BY <1>3, <1>7, <4>1, <4>2
    <3>3. job[w].kind # "release"
      BY <1>0, <1>1, <1>4, <1>7 DEF ReleaseAt
    <3> QED
      BY <1>0, <3>1, <3>2, <3>3 DEF NextStage
  <2> DEFINE next == NextStage(stage)
  <2>3. next \in Stages /\ next \in Points /\ next # "accept" /\ next # "idle"
    BY <2>2 DEF Stages, Points
  <2>4. /\ ops' = Left(o, "processing", next)
        /\ job' = [job EXCEPT ![w].pc = next, ![w].answer = "none"]
    BY <2>1
  <2>5. \/ stage = "creating" /\ next = "uploading" /\ job[w].kind = "apply"
        \/ stage = "uploading" /\ next = "setting_default" /\ job[w].kind = "apply"
        \/ stage = "setting_default" /\ next = "verifying" /\ job[w].kind = "apply"
        \/ stage = "clearing_default" /\ next = "verifying" /\ job[w].kind = "unlink"
    BY <2>2
  <2> HIDE DEF next
  <2>6. /\ ops'[o].kind = ops[o].kind /\ ops'[o].status = "processing"
        /\ ops'[o].stage = next /\ ops'[o].target = ops[o].target
        /\ ops'[o].subject = ops[o].subject /\ ops'[o].rev = ops[o].rev
    BY <1>0, <1>2, <2>3, <2>4, LeftIs DEF Statuses, InProgress
  <2> DEFINE j == [[job[w] EXCEPT !.pc = next] EXCEPT !.answer = "none"]
  <2>7. job \in [Workers -> Job] /\ job[w] \in Job /\ job' = [job EXCEPT ![w] = j]
    BY <1>0, <2>4 DEF DeactivationTypeOK, TypeOK
  <2>8. /\ j \in Job /\ j.pc = next /\ j.kind = job[w].kind /\ j.op = job[w].op
        /\ j.target = job[w].target /\ j.subject = job[w].subject /\ j.rev = job[w].rev
    BY <2>3, <2>7 DEF Job
  <2> HIDE DEF j
  <2>9. /\ job' \in [Workers -> Job] /\ \A v \in Workers : v # w => job'[v] = job[v]
        /\ job'[w] = j
    BY <2>7, <2>8
  <2>10. job[w].kind = "apply" =>
           /\ menus[o].life = "candidate" /\ ~Coming("create", o) /\ ~Coming("set", o)
           /\ stage = "creating" => menus[o].bound
           /\ stage = "setting_default" => o \in line.shown
    BY <1>0, <1>1, <1>3, <1>4, <1>7, <2>5 DEF ApplyAt
  <2>11. MenuOK(o)'
    <3>1. CASE job[w].kind = "apply"
      <4>1. Applying(o)' /\ menus'[o] = menus[o]
        BY <1>2, <2>1, <2>6, <3>1 DEF Applying, InProgress
      <4>2. Begun(o)'
        BY <1>0, <1>2, <2>5, <2>6, <2>10, <3>1, <4>1 DEF Begun
      <4> QED
        BY <1>0, <1>2, <2>6, <2>10, <3>1, <4>1, <4>2 DEF MenuOK, Coming
    <3>2. CASE job[w].kind # "apply"
      BY <1>2, <1>6, <2>1, <2>6, <3>2, MenuFrame
    <3> QED
      BY <3>1, <3>2
  <2>12. WorkOK(w)'
    <3>1. job[w].kind = "apply" => ApplyAt(job[w])'
      <4>1. stage = "uploading" /\ job[w].kind = "apply" => o \notin line.shown
        BY <1>2 DEF Begun
      <4> QED
        BY <1>0, <1>1, <2>1, <2>5, <2>6, <2>8, <2>9, <2>10, <4>1 DEF ApplyAt, Coming
    <3>2. job[w].kind = "unlink" => UnlinkAt(job[w])'
      BY <1>1, <1>2, <2>5, <2>6, <2>8, <2>9 DEF UnlinkAt, Processing
    <3> QED
      BY <1>0, <1>1, <1>2, <1>3, <2>1, <2>5, <2>6, <2>8, <2>9, <3>1, <3>2 DEF WorkOK, Working
  <2>13. NotReleased => NotReleased'
    <3>1. ops'[o].kind # "release"
      BY <1>2, <2>5, <2>6
    <3> QED
      BY <1>0, <1>2, <2>1, <3>1 DEF NotReleased
  <2>14. line' \in [menus : SUBSET Ops, default : Ops \cup {None, External},
                    late : SUBSET (Calls \X Ops), shown : SUBSET Ops]
    BY <1>0 DEF DeactivationTypeOK, TypeOK
  <2> QED
    BY <1>0, <1>1, <1>6, <2>1, <2>3, <2>4, <2>8, <2>9, <2>11, <2>12, <2>13, <2>14, ProcessStep
<1>8. CASE answer = "succeeded" /\ job[w].kind = "apply"
  <2>1. Applied(o) /\ ops' = AppliedOp(o) /\ Over(w, "returned")
    BY <1>1, <1>8 DEF CompleteStage
  <2>2. /\ stage = "verifying" /\ menus[o].life = "candidate" /\ menus[o].bound
        /\ o \in line.shown /\ ~Coming("create", o) /\ ~Coming("set", o)
    BY <1>0, <1>1, <1>2, <1>4, <1>8 DEF ApplyAt, Begun
  <2>3. PICK status \in {"succeeded", "cleanup_required"}, left \in Stages :
          /\ ops' = Left(o, status, left)
          /\ status = "succeeded" <=> state.current = None
    BY <2>1 DEF AppliedOp, Stages
  <2>4. status \in Statuses
    BY DEF Statuses
  <2>5. /\ ops' \in [Ops -> Operation \cup {NoOperation}]
        /\ \A x \in Ops : x # o => ops'[x] = ops[x]
        /\ ops'[o].kind = "apply" /\ ops'[o].status = status
    BY <1>0, <1>2, <1>8, <2>3, <2>4, LeftIs
  <2>6. (\A m \in Ops : MenuOK(m)') /\ CurrentOK'
    BY <1>0, <1>2, <1>8, <2>1, <2>2, <2>5, AppliedMenus
  <2>7. /\ menus' \in [Ops -> Menu \cup {NoMenu}]
        /\ menus'[o].life = "applied"
        /\ \A m \in Ops : m # o /\ m # state.current => menus'[m] = menus[m]
        /\ \A m \in Ops : m = state.current => m # o /\ menus'[m].life = "old"
        /\ state' \in [current : Ops \cup {None}, active : Ops \cup {None},
                       blocking : Ops \cup {None}, seen : Ops \cup {None}]
        /\ state'.active = None
        /\ state'.blocking = IF state.current = None THEN None ELSE o
    BY <1>0, <2>1, <2>2, AppliedIs DEF RichInv, Rows
  <2>8. Rows'
    BY <1>0, <1>1, <2>3, <2>6, <2>7, EndRows
  <2>9. \A m \in Ops : menus'[m].life = "released" => menus[m].life = "released"
    BY <2>7
  <2> QED
    BY <1>0, <2>1, <2>5, <2>7, <2>8, <2>9, EndStep
<1>9. CASE answer # "processing" /\ ~(answer = "succeeded" /\ job[w].kind = "apply")
  <2>1. answer \in {"failed", "succeeded", "unknown", "cleanup_required"}
    <3>1. stage \in {"creating", "uploading", "setting_default", "clearing_default",
                     "local_release", "verifying"}
      BY <1>0, <1>1, <1>2, <1>4 DEF ApplyAt, Begun, UnlinkAt, ReleaseAt, Processing
    <3>2. Outcomes(job[w].kind, stage) \subseteq
            {"processing", "failed", "succeeded", "unknown", "cleanup_required"}
      <4>1. CASE stage = "verifying"
        <5>1. job[w].kind \in {"apply", "unlink"}
          BY <1>0, <1>1, <1>4, <4>1 DEF ReleaseAt, Processing
        <5> QED
          BY <4>1, <5>1 DEF Outcomes
      <4>2. CASE stage # "verifying"
        BY <3>1, <4>2 DEF Outcomes
      <4> QED
        BY <4>1, <4>2
    <3> QED
      BY <1>3, <1>9, <3>2
  <2>2. PICK left \in Stages \cup {"none"} :
          /\ ops' = Left(o, answer, left)
          /\ answer # "cleanup_required" => left = stage
    <3>1. stage \in Stages \cup {"none"}
      BY <1>2 DEF Operation
    <3>2. CASE answer \in {"failed", "succeeded"}
      BY <1>1, <1>9, <3>1, <3>2 DEF CompleteStage
    <3>3. CASE answer \in {"unknown", "cleanup_required"}
      BY <1>1, <3>1, <3>3 DEF CompleteStage, Stages
    <3> QED
      BY <2>1, <3>2, <3>3
  <2>3. /\ Over(w, "returned") /\ UNCHANGED menus
        /\ state' \in [current : Ops \cup {None}, active : Ops \cup {None},
                       blocking : Ops \cup {None}, seen : Ops \cup {None}]
        /\ state'.active = None /\ state'.current = state.current
        /\ state'.blocking = IF answer \in {"unknown", "cleanup_required"} THEN o ELSE None
    <3>0. state.blocking = None
      BY <1>0, WorkedOn
    <3>1. CASE answer \in {"failed", "succeeded"}
      BY <1>0, <1>1, <1>9, <3>0, <3>1 DEF CompleteStage, DeactivationTypeOK, TypeOK
    <3>2. CASE answer \in {"unknown", "cleanup_required"}
      BY <1>0, <1>1, <3>2 DEF CompleteStage, Freed, DeactivationTypeOK, TypeOK
    <3> QED
      BY <2>1, <3>1, <3>2
  <2>4. answer \in Statuses
    BY <2>1 DEF Statuses
  <2>5. /\ ops' \in [Ops -> Operation \cup {NoOperation}]
        /\ \A x \in Ops : x # o => ops'[x] = ops[x]
        /\ ops'[o].kind = ops[o].kind /\ ops'[o].status = answer /\ ops'[o].stage = left
    BY <1>0, <1>2, <2>2, <2>4, LeftIs
  <2>6. MenuOK(o)'
    <3>1. CASE job[w].kind # "apply"
      BY <1>2, <1>6, <2>3, <2>5, <3>1, MenuFrame
    <3>2. CASE job[w].kind = "apply" /\ answer = "unknown"
      <4>1. Applying(o)' /\ menus'[o] = menus[o] /\ ops'[o].stage = ops[o].stage
        BY <1>2, <2>2, <2>3, <2>5, <3>2 DEF Applying
      <4>2. Begun(o)'
        BY <1>0, <1>2, <3>2, <4>1 DEF Begun
      <4> QED
        BY <1>0, <1>2, <2>5, <3>2, <4>1, <4>2 DEF MenuOK, Coming
    <3>3. CASE job[w].kind = "apply" /\ answer # "unknown"
      <4>1. /\ ~Coming("create", o) /\ ~Coming("set", o)
            /\ menus[o].life \in {"deleted", "cleanup_required"}
        BY <1>0, <1>1, <1>4, <1>9, <2>1, <3>3 DEF ApplyAt
      <4>2. ~Applying(o)' /\ menus'[o] = menus[o] /\ ~Coming("delete", o)
        BY <1>2, <2>1, <2>3, <2>5, <3>3 DEF Applying, InProgress, MenuOK
      <4> QED
        BY <1>0, <1>2, <2>5, <3>3, <4>1, <4>2 DEF MenuOK, Coming
    <3> QED
      BY <3>1, <3>2, <3>3
  <2>7. \A m \in Ops : MenuOK(m)'
    <3> TAKE m \in Ops
    <3>1. CASE m # o
      BY <1>6, <2>3, <2>5, <3>1, MenuFrame
    <3> QED
      BY <2>6, <3>1
  <2>8. CurrentOK'
    BY <2>3 DEF RichInv, Rows, CurrentOK
  <2>9. Rows'
    BY <1>0, <1>1, <2>1, <2>2, <2>3, <2>7, <2>8, EndRows
  <2> QED
    BY <1>0, <1>5, <2>3, <2>5, <2>9, EndStep
<1> QED
  BY <1>7, <1>8, <1>9

-----------------------------------------------------------------------------
(* Acceptance                                                               *)

LEMMA RefuseKeeps ==
  ASSUME RichInv, NEW w \in Workers, Refuse(w), UNCHANGED task
  PROVE  RichInv'
<1>0. DeactivationTypeOK /\ TaskOK(w)
  BY DEF RichInv
<1>1. PICK answer \in {"returned", "failed"} : Over(w, answer)
  BY DEF Refuse
<1>2. job[w].pc = "accept" /\ UNCHANGED <<channel, ops, menus, state, line, intent>>
  BY DEF Refuse
<1>3. /\ job' \in [Workers -> Job] /\ \A v \in Workers : v # w => job'[v] = job[v]
      /\ job'[w].pc = "idle"
  BY <1>0, <1>1, OverIs DEF Statuses
<1>4. DeactivationTypeOK'
  BY <1>0, <1>2, <1>3 DEF DeactivationTypeOK, TypeOK
<1>5. Quiet
  BY <1>2 DEF Quiet
<1>6. task[w].pc \in {"none", "waiting"}
  BY <1>0, <1>2 DEF TaskOK, Idle
<1>7. AcceptOK(w)' /\ WorkOK(w)' /\ (AtWork(w)' => AtWork(w))
  BY <1>3, <1>6 DEF AcceptOK, WorkOK, Working, AtWork
<1>8. TaskOK(w)'
  BY <1>0, <1>2, <1>6 DEF TaskOK
<1> QED
  BY <1>2, <1>3, <1>4, <1>5, <1>7, <1>8, QuietMove

LEMMA NobodyAtWork ==
  ASSUME RichInv, state.active = None, NEW w \in Workers
  PROVE  ~AtWork(w)
BY RichAssumption DEF RichInv, WorkOK, TaskOK, AtWork, Working

\* A coordinator whose intent is in force keeps others out.
LEMMA InForceIsPending ==
  ASSUME RichInv, NEW w \in Workers, task[w].pc # "none", InForce(w)
  PROVE  Pending
<1>1. /\ task[w].rev \in Nat /\ channel.rev \in Nat /\ intent.expected \in Nat
      /\ intent.status \in {"none", "checking", "confirmation_required", "completed"}
  BY Typed, RichAssumption DEF RichInv, DeactivationTypeOK, TypeOK, Intent
<1>2. /\ intent.op # None /\ channel.rev = task[w].rev /\ task[w].rev <= intent.expected
  BY DEF RichInv, TaskOK, InForce
<1> QED
  BY <1>1, <1>2 DEF RichInv, IntentOK, Pending

LEMMA NewOperation ==
  ASSUME RichInv, NEW o \in Ops, ops[o] = NoOperation, state.active = None,
         NEW p \in Operation, p.status \in InProgress, ops' = [ops EXCEPT ![o] = p],
         state'.active = o, state'.blocking = state.blocking, state'.current = state.current,
         line' = line,
         p.kind = "apply" =>
           /\ p.stage = "none"
           /\ menus' = [menus EXCEPT ![o] = [NoMenu EXCEPT !.life = "candidate"]],
         p.kind # "apply" => menus' = menus,
         p.kind \in {"unlink", "release", "cleanup"} => Target(p.target),
         p.kind \notin Recoveries => state.blocking = None,
         p.kind \in Recoveries =>
           /\ p.subject = state.blocking /\ state.blocking \in Ops
           /\ p.kind = "recheck" => ops[state.blocking].status = "unknown"
           /\ p.kind = "cleanup" => ops[state.blocking].status = "cleanup_required"
  PROVE  Rows' /\ menus' \in [Ops -> Menu \cup {NoMenu}]
<1>0. /\ DeactivationTypeOK /\ None \notin Ops /\ Rows
      /\ ops \in [Ops -> Operation \cup {NoOperation}]
      /\ menus \in [Ops -> Menu \cup {NoMenu}]
  BY RichAssumption DEF RichInv, DeactivationTypeOK, TypeOK
<1>1. ops'[o] = p /\ \A x \in Ops : x # o => ops'[x] = ops[x]
  BY <1>0
<1>2. ops[o].kind = "none" /\ ops[o].status = "none"
  BY DEF NoOperation
<1> DEFINE n == [NoMenu EXCEPT !.life = "candidate"]
<1>3. n \in Menu /\ n.life = "candidate" /\ n.bound = FALSE /\ n.replacedBy = None
  BY DEF Menu, NoMenu, Lifecycles
<1> HIDE DEF n
<1>4. /\ menus' \in [Ops -> Menu \cup {NoMenu}] /\ \A x \in Ops : x # o => menus'[x] = menus[x]
      /\ menus'[o] = IF p.kind = "apply" THEN n ELSE menus[o]
  <2>1. CASE p.kind = "apply"
    BY <1>0, <1>3, <2>1 DEF n
  <2>2. CASE p.kind # "apply"
    BY <1>0, <2>2
  <2> QED
    BY <2>1, <2>2
<1>5. MenuOK(o) /\ NoTrace(o)
  BY <1>0, <1>2 DEF Rows, MenuOK
<1>6. \A m \in Ops : MenuOK(m)'
  <2> TAKE m \in Ops
  <2>1. CASE m # o
    <3>1. SameAtLine(m) /\ MenuOK(m)
      BY <1>0 DEF SameAtLine, Coming, Rows
    <3> QED
      BY <1>1, <1>4, <2>1, <3>1, MenuFrame
  <2>2. CASE m = o /\ p.kind = "apply"
    <3>1. Applying(o)' /\ menus'[o] = n
      BY <1>1, <1>4, <2>2 DEF Applying
    <3>2. Begun(o)'
      BY <1>1, <1>3, <1>5, <2>2, <3>1 DEF Begun, NoTrace
    <3> QED
      BY <1>1, <1>3, <1>5, <2>2, <3>1, <3>2 DEF MenuOK, NoTrace, Coming
  <2>3. CASE m = o /\ p.kind # "apply"
    <3>1. NoTrace(o)'
      BY <1>4, <1>5, <2>3 DEF NoTrace, Coming
    <3> QED
      BY <1>1, <2>3, <3>1 DEF MenuOK, NoTrace, Applying, NoMenu
  <2> QED
    BY <2>1, <2>2, <2>3
<1>7. ActiveOK'
  <2>1. \A x \in Ops : ops'[x].status \in InProgress <=> state'.active = x
    BY <1>0, <1>1 DEF Rows, ActiveOK
  <2>2. p.kind \in Recoveries => state.blocking # o /\ ops'[state.blocking] = ops[state.blocking]
    BY <1>1, <1>2, RichAssumption DEF Recoveries
  <2> QED
    BY <1>1, <2>1, <2>2 DEF ActiveOK, Recoveries
<1>8. BlockingOK'
  <2>1. \A x \in Ops : Unresolved(x)' <=> Unresolved(x)
    BY <1>1, <1>2 DEF Unresolved, InProgress
  <2>2. state.blocking # None => state.blocking # o /\ state.blocking \in Ops
    BY <1>0, <1>2 DEF Rows, BlockingOK, Unresolved, DeactivationTypeOK, TypeOK
  <2>3. DeadEnd => DeadEnd'
    BY <1>0, <1>1, <2>2 DEF DeadEnd
  <2>4. \A x \in Ops : ops'[x].kind \in Recoveries => ops'[x].status # "cleanup_required"
    BY <1>0, <1>1 DEF Rows, BlockingOK, InProgress
  <2>5. \A r, x \in Ops : ops[r].subject = x /\ ops[r].status = "unknown" =>
          ops'[r].subject = x /\ ops'[r].status = "unknown"
    BY <1>1, <1>2
  <2>6. state.blocking # None => Unresolved(state.blocking)'
    BY <1>0, <1>1, <2>2 DEF Rows, BlockingOK, Unresolved
  <2>7. \A x \in Ops : Unresolved(x)' =>
          \/ state.blocking = x
          \/ \E r \in Ops : ops'[r].subject = x /\ ops'[r].status = "unknown"
    BY <1>0, <2>1, <2>5 DEF Rows, BlockingOK
  <2>8. \A x \in Ops : Unresolved(x)' =>
          state.blocking \in Ops /\ (x # state.blocking => DeadEnd')
    BY <1>0, <2>1, <2>3 DEF Rows, BlockingOK
  <2> QED
    BY <2>4, <2>6, <2>7, <2>8 DEF BlockingOK, Unresolved
<1>9. CurrentOK'
  <2>1. \A x \in Ops : menus'[x].life = "applied" <=> menus[x].life = "applied"
    BY <1>3, <1>4, <1>5 DEF NoTrace, NoMenu
  <2> QED
    BY <1>0, <2>1 DEF Rows, CurrentOK
<1>10. TargetsOK'
  <2>1. \A x : Target(x) => Target(x)'
    BY <1>1, <1>2 DEF Target, Applying
  <2> QED
    BY <1>0, <1>1, <2>1 DEF Rows, TargetsOK
<1>11. DeletionsOK'
  <2>1. \A c \in Ops : ops[c].kind = "cleanup" => ops'[c] = ops[c]
    BY <1>1, <1>2
  <2> QED
    BY <1>0, <2>1 DEF Rows, DeletionsOK, Coming
<1> QED
  BY <1>4, <1>6, <1>7, <1>8, <1>9, <1>10, <1>11 DEF Rows

\* A request, or a coordinator, takes up work on a new operation.
LEMMA AcceptStep ==
  ASSUME RichInv, DeactivationTypeOK', Rows', state.active = None, NEW w \in Workers,
         job[w].pc = "accept", job'[w].pc # "accept",
         \A v \in Workers : v # w => job'[v] = job[v],
         UNCHANGED <<channel, line, intent, task>>, WorkOK(w)',
         \A v \in Workers : task[v].pc # "none" /\ InForce(v) =>
           ~NothingLeft /\ (NotReleased => NotReleased')
  PROVE  RichInv'
<1>1. \A v \in Workers : ~AtWork(v)
  BY NobodyAtWork
<1>2. \A v \in Workers : v # w => ~AtWork(v)' /\ WorkOK(v)' /\ AcceptOK(v)'
  BY <1>1 DEF AtWork, Working, WorkOK, AcceptOK, RichInv
<1>3. AcceptOK(w)' /\ OneAtWork'
  BY <1>2 DEF AcceptOK, OneAtWork
<1>4. \A v \in Workers : TaskOK(v)'
  <2> TAKE v \in Workers
  <2>1. TaskOK(v) /\ task[v].pc # "reserved" /\ (InForce(v)' <=> InForce(v))
    BY <1>1 DEF RichInv, AtWork, InForce
  <2>2. CASE v = w
    <3>1. task[w].pc \in {"none", "waiting"}
      BY <2>1, <2>2 DEF TaskOK, Idle
    <3> QED
      BY <2>1, <2>2, <3>1 DEF TaskOK
  <2>3. CASE v # w
    BY <2>1, <2>3 DEF TaskOK
  <2> QED
    BY <2>2, <2>3
<1>5. IntentOK'
  BY DEF RichInv, IntentOK
<1> QED
  BY <1>2, <1>3, <1>4, <1>5 DEF RichInv

LEMMA AcceptKeeps ==
  ASSUME RichInv, NEW w \in Workers, Accept(w), UNCHANGED task
  PROVE  RichInv'
<1>0. DeactivationTypeOK /\ AcceptOK(w) /\ job[w].pc = "accept" /\ job[w] \in Job
  BY Typed DEF RichInv, Accept
<1>1. PICK o \in Ops : job[w].op = o
  BY <1>0 DEF AcceptOK
<1> DEFINE kind == job[w].kind
           target == job[w].target
<1>2. /\ kind \in {"apply", "unlink", "release"} /\ kind \in Kinds /\ kind \notin Recoveries
      /\ job[w].subject = None /\ o # intent.op /\ o # intent.recovery
      /\ job[w].rev \in Revisions /\ job[w].rev <= channel.rev
      /\ target \in Ops \cup {None}
      /\ target = None <=> kind = "apply"
  BY <1>0, <1>1 DEF AcceptOK, Accept, Kinds, Recoveries, Job
<1>3. /\ Allows(kind, o, None) /\ ops[o] = NoOperation /\ state.active = None
      /\ state.blocking = None
      /\ kind # "apply" => menus[target].life = "applied"
  BY <1>1, <1>2 DEF Accept, Admitted
<1> DEFINE p == [NoOperation EXCEPT !.kind = kind, !.status = "accepted",
                   !.target = target, !.rev = job[w].rev]
<1>4. ops' = [ops EXCEPT ![o] = p]
  BY <1>1 DEF Accept
<1>5. /\ p \in Operation /\ p.kind = kind /\ p.status = "accepted" /\ p.stage = "none"
      /\ p.target = target /\ p.subject = None /\ p.rev = job[w].rev
  BY <1>2 DEF NoOperation, Operation, Statuses, InProgress
<1> HIDE DEF p
<1>6. /\ kind = "apply" => menus' = [menus EXCEPT ![o] = [NoMenu EXCEPT !.life = "candidate"]]
      /\ kind # "apply" => menus' = menus
      /\ UNCHANGED <<channel, line, intent>>
  BY <1>1 DEF Accept
<1>7. /\ state' \in [current : Ops \cup {None}, active : Ops \cup {None},
                     blocking : Ops \cup {None}, seen : Ops \cup {None}]
      /\ state'.active = o /\ state'.blocking = state.blocking
      /\ state'.current = state.current
  BY <1>0, <1>1 DEF Accept, DeactivationTypeOK, TypeOK
<1>8. kind \in {"unlink", "release", "cleanup"} => Target(target)
  <2> SUFFICES ASSUME kind # "apply"
               PROVE  Target(target)
    BY <1>2
  <2>1. target \in Ops /\ MenuOK(target) /\ menus[target].life = "applied"
    BY <1>2, <1>3 DEF RichInv, Rows
  <2> QED
    BY <2>1 DEF MenuOK, NoTrace, NoMenu, Begun, Target
<1>9. Rows' /\ menus' \in [Ops -> Menu \cup {NoMenu}]
  BY <1>2, <1>3, <1>4, <1>5, <1>6, <1>7, <1>8, NewOperation DEF InProgress
<1> DEFINE pc == CASE kind = "apply" -> "creating"
                   [] kind = "unlink" -> "clearing_default"
                   [] kind = "release" -> "local_release"
<1>10. /\ kind = "apply" => pc = "creating"
       /\ kind = "unlink" => pc = "clearing_default"
       /\ kind = "release" => pc = "local_release"
  OBVIOUS
<1>11. Go(w, pc)
  BY DEF Accept
<1> HIDE DEF pc
<1>12. pc \in Points /\ pc \notin {"accept", "idle"}
  BY <1>2, <1>10 DEF Points, Stages
<1>13. /\ job' \in [Workers -> Job] /\ \A v \in Workers : v # w => job'[v] = job[v]
       /\ job'[w].pc = pc /\ job'[w].kind = kind /\ job'[w].op = o
       /\ job'[w].target = target /\ job'[w].subject = None /\ job'[w].rev = job[w].rev
  BY <1>0, <1>1, <1>2, <1>11, <1>12, GoIs
<1>14. ops' \in [Ops -> Operation \cup {NoOperation}] /\ ops'[o] = p
  BY <1>0, <1>4, <1>5 DEF DeactivationTypeOK, TypeOK
<1>15. DeactivationTypeOK'
  BY <1>0, <1>6, <1>7, <1>9, <1>13, <1>14 DEF DeactivationTypeOK, TypeOK
<1>16. WorkOK(w)'
  <2>1. kind = "apply" => ApplyAt(job[w])'
    <3>1. kind = "apply" => menus'[o].life = "candidate"
      BY <1>0, <1>6 DEF DeactivationTypeOK, TypeOK, NoMenu
    <3> QED
      BY <1>5, <1>10, <1>13, <1>14, <3>1 DEF ApplyAt, Accepted
  <2>2. kind = "unlink" => UnlinkAt(job[w])'
    BY <1>5, <1>10, <1>13, <1>14 DEF UnlinkAt, Accepted
  <2>3. kind = "release" => ReleaseAt(job[w])'
    BY <1>5, <1>10, <1>13, <1>14 DEF ReleaseAt, Accepted
  <2> QED
    BY <1>2, <1>5, <1>6, <1>7, <1>13, <1>14, <2>1, <2>2, <2>3 DEF WorkOK
<1>17. \A v \in Workers : task[v].pc # "none" => ~InForce(v)
  <2>1. ~Pending
    BY <1>2, <1>3 DEF Allows
  <2> QED
    BY <2>1, InForceIsPending
<1> QED
  BY <1>0, <1>3, <1>6, <1>9, <1>12, <1>13, <1>15, <1>16, <1>17, AcceptStep

LEMMA AcceptRecoveryKeeps ==
  ASSUME RichInv, NEW w \in Workers, AcceptRecovery(w), UNCHANGED task
  PROVE  RichInv'
<1>0. DeactivationTypeOK /\ AcceptOK(w) /\ job[w].pc = "accept" /\ job[w] \in Job
  BY Typed DEF RichInv, AcceptRecovery
<1>1. PICK o \in Ops : job[w].op = o
  BY <1>0 DEF AcceptOK
<1>2. PICK s \in Ops : job[w].subject = s
  BY <1>0 DEF AcceptOK, AcceptRecovery
<1> DEFINE kind == job[w].kind
           target == job[w].target
<1>3. /\ kind \in {"recheck", "cleanup"} /\ kind \in Kinds /\ kind \in Recoveries
      /\ job[w].rev \in Revisions /\ job[w].rev <= channel.rev
      /\ target \in Ops \cup {None}
      /\ target = None <=> kind = "recheck"
  BY <1>0, <1>1 DEF AcceptOK, AcceptRecovery, Kinds, Recoveries, Job
<1>4. /\ ops[o] = NoOperation /\ state.active = None /\ state.blocking = s
      /\ kind = "recheck" => ops[s].status = "unknown"
      /\ kind = "cleanup" => /\ ops[s].status = "cleanup_required"
                             /\ menus[target].life \in {"candidate", "old", "cleanup_required"}
  BY <1>1, <1>2, <1>3 DEF AcceptRecovery, Admitted
<1> DEFINE p == [kind |-> kind, status |-> "recovery_active",
                 stage |-> IF kind = "recheck" THEN "verifying" ELSE "cleaning",
                 target |-> target, subject |-> s, rev |-> job[w].rev]
<1>5. ops' = [ops EXCEPT ![o] = p] /\ UNCHANGED <<channel, menus, line, intent>>
  BY <1>1, <1>2 DEF AcceptRecovery
<1>6. /\ p \in Operation /\ p.kind = kind /\ p.status = "recovery_active"
      /\ p.target = target /\ p.subject = s /\ p.rev = job[w].rev
  BY <1>3 DEF Operation, Statuses, InProgress, Stages
<1> HIDE DEF p
<1>7. /\ state' \in [current : Ops \cup {None}, active : Ops \cup {None},
                     blocking : Ops \cup {None}, seen : Ops \cup {None}]
      /\ state'.active = o /\ state'.blocking = state.blocking
      /\ state'.current = state.current
  BY <1>0, <1>1 DEF AcceptRecovery, DeactivationTypeOK, TypeOK
<1>8. kind = "cleanup" =>
        /\ Target(target) /\ ~Coming("create", target) /\ ~Coming("delete", target)
        /\ menus[target].life \in {"old", "cleanup_required"}
  <2> SUFFICES ASSUME kind = "cleanup"
               PROVE  /\ Target(target) /\ ~Coming("create", target)
                      /\ ~Coming("delete", target)
                      /\ menus[target].life \in {"old", "cleanup_required"}
    OBVIOUS
  <2>1. /\ target \in Ops /\ MenuOK(target)
        /\ menus[target].life \in {"candidate", "old", "cleanup_required"}
    BY <1>3, <1>4 DEF RichInv, Rows
  <2>2. \A x \in Ops : ops[x].status \notin InProgress /\ ops[x].status # "unknown"
    <3>1. \A x \in Ops : ops[x].status \notin InProgress
      BY <1>4, RichAssumption DEF RichInv, Rows, ActiveOK
    <3>2. ~DeadEnd
      BY <1>4 DEF DeadEnd
    <3>3. \A x \in Ops : ops[x].status # "unknown"
      BY <1>4, <3>2 DEF RichInv, Rows, BlockingOK, Unresolved
    <3> QED
      BY <3>1, <3>3
  <2>3. ~Applying(target) /\ ops[target].kind = "apply" /\ ~Coming("create", target)
    BY <2>1, <2>2 DEF Applying, MenuOK, NoTrace, NoMenu
  <2>4. ~Coming("delete", target)
    BY <1>4, <2>1, <2>2, RichAssumption DEF RichInv, Rows, DeletionsOK
  <2> QED
    BY <2>1, <2>3, <2>4 DEF Target, MenuOK
<1>9. Rows' /\ menus' \in [Ops -> Menu \cup {NoMenu}]
  BY <1>3, <1>4, <1>5, <1>6, <1>7, <1>8, NewOperation DEF InProgress
<1> DEFINE pc == IF kind = "recheck" THEN "recheck" ELSE "look"
<1>10. Go(w, pc) /\ pc \in Points /\ pc \notin {"accept", "idle"}
  BY DEF AcceptRecovery, Points
<1>11. pc = IF kind = "recheck" THEN "recheck" ELSE "look"
  OBVIOUS
<1> HIDE DEF pc
<1>12. /\ job' \in [Workers -> Job] /\ \A v \in Workers : v # w => job'[v] = job[v]
       /\ job'[w].pc = pc /\ job'[w].kind = kind /\ job'[w].op = o
       /\ job'[w].target = target /\ job'[w].subject = s /\ job'[w].rev = job[w].rev
  BY <1>0, <1>1, <1>2, <1>10, GoIs
<1>13. ops' \in [Ops -> Operation \cup {NoOperation}] /\ ops'[o] = p
  BY <1>0, <1>5, <1>6 DEF DeactivationTypeOK, TypeOK
<1>14. DeactivationTypeOK'
  BY <1>0, <1>5, <1>7, <1>9, <1>12, <1>13 DEF DeactivationTypeOK, TypeOK
<1>15. WorkOK(w)'
  <2>1. kind = "recheck" => RecheckAt(job[w])'
    BY <1>4, <1>7, <1>11, <1>12 DEF RecheckAt
  <2>2. kind = "cleanup" => CleanupAt(job[w])'
    BY <1>4, <1>5, <1>7, <1>8, <1>11, <1>12 DEF CleanupAt, Coming
  <2> QED
    BY <1>3, <1>5, <1>6, <1>7, <1>12, <1>13, <2>1, <2>2 DEF WorkOK
<1>16. ~NothingLeft
  BY <1>4, RichAssumption DEF NothingLeft
<1>17. NotReleased => NotReleased'
  BY <1>3, <1>5, <1>6, <1>7, <1>13 DEF NotReleased
<1> QED
  BY <1>0, <1>4, <1>5, <1>9, <1>10, <1>12, <1>14, <1>15, <1>16, <1>17, AcceptStep

-----------------------------------------------------------------------------
(* Recoveries: what they rest on, and how they end                          *)

LEMMA RecoveryFacts ==
  ASSUME RichInv, NEW w \in Workers, Working(w), job[w].kind \in Recoveries
  PROVE  /\ job[w].op \in Ops /\ job[w].subject \in Ops /\ job[w].op # job[w].subject
         /\ state.active = job[w].op /\ state.blocking = job[w].subject
         /\ ops[job[w].op].kind = job[w].kind /\ ops[job[w].op].status \in InProgress
         /\ ops[job[w].op].kind \in Kinds /\ ops[job[w].subject].kind \in Kinds
         /\ ops[job[w].op].subject = job[w].subject
         /\ ops[job[w].op].target = job[w].target /\ ops[job[w].op].rev = job[w].rev
         /\ \A x \in Ops : x # job[w].op => ops[x].status \notin InProgress
         /\ job[w].kind = "recheck" => ops[job[w].subject].status = "unknown"
         /\ job[w].kind = "cleanup" =>
              /\ ops[job[w].subject].status = "cleanup_required"
              /\ ops[job[w].subject].kind \notin Recoveries
              /\ Target(job[w].target)
         /\ MenuOK(job[w].subject)
<1>1. /\ job[w].op \in Ops /\ state.active = job[w].op
      /\ ops[job[w].op].kind = job[w].kind /\ job[w].kind \in Kinds
  BY AtWorkAlone
<1>2. /\ ops[job[w].op].subject = job[w].subject /\ ops[job[w].op].target = job[w].target
      /\ ops[job[w].op].rev = job[w].rev
  BY DEF RichInv, WorkOK
<1>3. /\ ops[job[w].op].status \in InProgress
      /\ \A x \in Ops : x # job[w].op => ops[x].status \notin InProgress
      /\ state.blocking = job[w].subject /\ job[w].subject \in Ops
      /\ job[w].kind = "recheck" => ops[job[w].subject].status = "unknown"
      /\ job[w].kind = "cleanup" => ops[job[w].subject].status = "cleanup_required"
  BY <1>1, <1>2, RichAssumption DEF RichInv, Rows, ActiveOK
<1>4. ops[job[w].subject].status \notin InProgress /\ ops[job[w].subject].status \in Statuses
  BY <1>3 DEF InProgress, Statuses, Recoveries
<1>5. ops[job[w].subject].kind \in Kinds
  BY <1>3, <1>4, Typed DEF RichInv, NoOperation, Operation, Statuses, InProgress
<1>6. job[w].kind = "cleanup" =>
        ops[job[w].subject].kind \notin Recoveries /\ Target(job[w].target)
  BY <1>1, <1>2, <1>3 DEF RichInv, Rows, BlockingOK, TargetsOK
<1>7. MenuOK(job[w].subject)
  BY <1>3 DEF RichInv, Rows
<1> QED
  BY <1>1, <1>2, <1>3, <1>4, <1>5, <1>6, <1>7

\* A table of operations with another status of one.
WithStatus(t, o, status) == [t EXCEPT ![o].status = status]

LEMMA SetStatus ==
  ASSUME NEW t \in [Ops -> Operation \cup {NoOperation}], NEW o \in Ops, t[o].kind \in Kinds,
         NEW status \in Statuses
  PROVE  LET u == WithStatus(t, o, status) IN
         /\ u \in [Ops -> Operation \cup {NoOperation}]
         /\ \A x \in Ops : x # o => u[x] = t[x]
         /\ u[o].status = status /\ u[o].kind = t[o].kind /\ u[o].stage = t[o].stage
         /\ u[o].target = t[o].target /\ u[o].subject = t[o].subject /\ u[o].rev = t[o].rev
<1> DEFINE p == [t[o] EXCEPT !.status = status]
<1>1. t[o] \in Operation
  BY DEF NoOperation, Kinds
<1>2. /\ p \in Operation /\ p.status = status /\ p.kind = t[o].kind /\ p.stage = t[o].stage
      /\ p.target = t[o].target /\ p.subject = t[o].subject /\ p.rev = t[o].rev
  BY <1>1 DEF Operation
<1>3. WithStatus(t, o, status) = [t EXCEPT ![o] = p]
  BY DEF WithStatus
<1> HIDE DEF p
<1> QED
  BY <1>2, <1>3

LEMMA RecoveryRows ==
  ASSUME RichInv, NEW w \in Workers, Working(w), job[w].kind \in Recoveries,
         NEW o \in Ops, job[w].op = o, NEW s \in Ops, job[w].subject = s,
         \A x \in Ops : x \notin {o, s} => ops'[x] = ops[x],
         \A x \in {o, s} : /\ ops'[x].kind = ops[x].kind /\ ops'[x].target = ops[x].target
                           /\ ops'[x].subject = ops[x].subject,
         ops'[o].status \in {"failed", "succeeded", "unknown"},
         state'.active = None, line' = line,
         \/ /\ ops'[o].status # "unknown" /\ ops'[s].status = ops[s].status
            /\ state'.blocking = s
         \/ /\ ops'[o].status # "unknown" /\ ops[s].kind \notin Recoveries
            /\ ops'[s].status \in {"cleanup_required", "succeeded"}
            /\ state'.blocking = IF ops'[s].status = "cleanup_required" THEN s ELSE None
         \/ /\ ops'[o].status = "unknown" /\ ops'[s].status = ops[s].status
            /\ state'.blocking = o,
         job[w].kind = "cleanup" /\ ops'[o].status # "unknown" =>
           \A m \in Ops : ~Coming("delete", m),
         \A m \in Ops : MenuOK(m)', CurrentOK'
  PROVE  Rows'
<1>0. None \notin Ops /\ Rows
  BY RichAssumption DEF RichInv
<1>1. /\ o # s /\ state.active = o /\ state.blocking = s
      /\ ops[o].kind \in Recoveries /\ ops[o].kind = job[w].kind /\ ops[o].status \in InProgress
      /\ ops[o].subject = s /\ ops[s].status \in {"unknown", "cleanup_required"}
      /\ \A x \in Ops : x # o => ops[x].status \notin InProgress
      /\ job[w].kind = "cleanup" => ops[s].status = "cleanup_required"
  BY RecoveryFacts DEF Recoveries
<1>2. ActiveOK'
  <2>1. \A x \in Ops : ops'[x].status \notin InProgress
    BY <1>1 DEF InProgress
  <2> QED
    BY <1>0, <2>1 DEF ActiveOK
<1>3. /\ \A x \in Ops : Unresolved(x) /\ x # s => DeadEnd
      /\ \A x \in Ops : ops[x].kind \in Recoveries => ops[x].status # "cleanup_required"
      /\ \A x \in Ops : Unresolved(x) =>
           x = s \/ \E r \in Ops : ops[r].subject = x /\ ops[r].status = "unknown"
      /\ DeadEnd <=> ops[s].kind \in Recoveries /\ ops[s].status = "unknown"
      /\ ~Unresolved(o) /\ Unresolved(s)
  BY <1>0, <1>1 DEF Rows, BlockingOK, DeadEnd, Unresolved, InProgress
<1>4. BlockingOK'
  <2>1. CASE /\ ops'[o].status # "unknown" /\ ops'[s].status = ops[s].status
             /\ state'.blocking = s
    <3>1. \A x \in Ops : Unresolved(x)' <=> Unresolved(x)
      BY <1>1, <1>3, <2>1 DEF Unresolved
    <3>2. DeadEnd' <=> DeadEnd
      BY <1>3, <2>1 DEF DeadEnd
    <3>3. \A r, x \in Ops : ops[r].subject = x /\ ops[r].status = "unknown" =>
            ops'[r].subject = x /\ ops'[r].status = "unknown"
      BY <1>1, <2>1 DEF InProgress
    <3> QED
      BY <1>0, <1>1, <1>3, <2>1, <3>1, <3>2, <3>3 DEF BlockingOK, Unresolved
  <2>2. CASE /\ ops'[o].status # "unknown" /\ ops[s].kind \notin Recoveries
             /\ ops'[s].status \in {"cleanup_required", "succeeded"}
             /\ state'.blocking = IF ops'[s].status = "cleanup_required" THEN s ELSE None
    <3>1. \A x \in Ops : Unresolved(x)' => x = s /\ ops'[s].status = "cleanup_required"
      BY <1>1, <1>3, <2>2 DEF Unresolved
    <3> QED
      BY <1>0, <1>1, <1>3, <2>2, <3>1 DEF BlockingOK, Unresolved
  <2>3. CASE /\ ops'[o].status = "unknown" /\ ops'[s].status = ops[s].status
             /\ state'.blocking = o
    <3>1. \A x \in Ops : Unresolved(x)' <=> x = o \/ Unresolved(x)
      BY <1>1, <1>3, <2>3 DEF Unresolved
    <3>2. DeadEnd'
      BY <1>1, <2>3 DEF DeadEnd
    <3>3. \A r, x \in Ops : ops[r].subject = x /\ ops[r].status = "unknown" =>
            ops'[r].subject = x /\ ops'[r].status = "unknown"
      BY <1>1, <2>3 DEF InProgress
    <3>4. ops'[o].subject = s /\ ops'[o].status = "unknown"
      BY <1>1, <2>3
    <3> QED
      BY <1>0, <1>1, <1>3, <2>3, <3>1, <3>2, <3>3, <3>4 DEF BlockingOK, Unresolved
  <2> QED
    BY <2>1, <2>2, <2>3
<1>5. TargetsOK'
  <2>1. \A x \in Ops : Applying(x)' => Applying(x)
    BY <1>1 DEF Applying, InProgress, Recoveries
  <2>2. \A x \in Ops : ops'[x].kind = ops[x].kind /\ ops'[x].target = ops[x].target
    OBVIOUS
  <2> QED
    BY <1>0, <2>1, <2>2 DEF Rows, TargetsOK, Target
<1>6. DeletionsOK'
  <2> SUFFICES ASSUME NEW m \in Ops, Coming("delete", m)
               PROVE  \E c \in Ops : /\ ops'[c].kind = "cleanup" /\ ops'[c].target = m
                                     /\ ops'[c].status = "unknown"
    BY DEF DeletionsOK, Coming
  <2>1. PICK c \in Ops : /\ ops[c].kind = "cleanup" /\ ops[c].target = m
                         /\ state.active = c \/ ops[c].status = "unknown"
    BY <1>0 DEF Rows, DeletionsOK
  <2>2. CASE c = o
    BY <1>1, <2>1, <2>2
  <2>3. CASE c # o
    BY <1>1, <2>1, <2>3 DEF Recoveries
  <2> QED
    BY <2>2, <2>3
<1> QED
  BY <1>2, <1>4, <1>5, <1>6 DEF Rows

\* A step of a recovery that leaves the tables and LINE alone.
LEMMA RecoveryMove ==
  ASSUME RichInv, NEW w \in Workers, Working(w), job[w].kind \in Recoveries,
         NEW pc \in Points \ {"idle", "accept"}, Go(w, pc),
         UNCHANGED <<channel, ops, menus, state, line, intent, task>>,
         job[w].kind = "recheck" => RecheckAt(job[w])',
         job[w].kind = "cleanup" => CleanupAt(job[w])'
  PROVE  RichInv'
<1>0. DeactivationTypeOK /\ Rows /\ WorkOK(w)
  BY DEF RichInv
<1>1. /\ job' \in [Workers -> Job] /\ \A v \in Workers : v # w => job'[v] = job[v]
      /\ job'[w].pc = pc /\ job'[w].kind = job[w].kind /\ job'[w].op = job[w].op
      /\ job'[w].target = job[w].target /\ job'[w].subject = job[w].subject
      /\ job'[w].rev = job[w].rev
  BY <1>0, GoIs
<1>2. DeactivationTypeOK'
  BY <1>0, <1>1 DEF DeactivationTypeOK, TypeOK
<1>3. Rows'
  BY <1>0, RowsFrame DEF Quiet
<1>4. NotReleased => NotReleased'
  BY DEF NotReleased
<1>5. WorkOK(w)'
  BY <1>0, <1>1 DEF WorkOK, Recoveries
<1> QED
  BY <1>1, <1>2, <1>3, <1>4, <1>5, WorkStep

LEMMA RecheckLookKeeps ==
  ASSUME RichInv, NEW w \in Workers, RecheckLook(w), UNCHANGED task
  PROVE  RichInv'
<1>0. /\ DeactivationTypeOK /\ Working(w) /\ job[w].pc = "recheck"
      /\ job[w].kind = "recheck" /\ job[w].kind \in Recoveries /\ Go(w, "reapply")
      /\ UNCHANGED <<channel, ops, menus, state, line, intent>>
  BY KindOfPoint DEF RichInv, RecheckLook, Working, Recoveries
<1>1. PICK s \in Ops : job[w].subject = s
  BY <1>0, RecoveryFacts
<1>2. /\ ops[s].kind = "apply" /\ ops[s].stage \in {"setting_default", "verifying"}
      /\ menus[s].bound /\ line.default = s
  BY <1>1 DEF RecheckLook, Confirmed
<1>3. MenuOK(s) /\ state.blocking = s
  BY <1>0, <1>1, RecoveryFacts
<1>4. s \in line.shown
  BY <1>2, <1>3 DEF MenuOK
<1>5. job'[w].pc = "reapply" /\ job'[w].subject = s
  BY <1>0, <1>1, GoIs DEF Points
<1>6. RecheckAt(job[w])'
  BY <1>0, <1>2, <1>3, <1>4, <1>5 DEF RecheckAt
<1> QED
  BY <1>0, <1>6, RecoveryMove DEF Points

LEMMA LookBeforeDeleteKeeps ==
  ASSUME RichInv, NEW w \in Workers, LookBeforeDelete(w), UNCHANGED task
  PROVE  RichInv'
<1>0. /\ DeactivationTypeOK /\ Working(w) /\ job[w].pc = "look"
      /\ job[w].kind = "cleanup" /\ job[w].kind \in Recoveries /\ Go(w, "delete")
      /\ UNCHANGED <<channel, ops, menus, state, line, intent>>
      /\ line.default # job[w].target /\ CleanupAt(job[w])
  BY KindOfPoint DEF RichInv, LookBeforeDelete, Working, Recoveries
<1>1. /\ job'[w].pc = "delete" /\ job'[w].target = job[w].target
      /\ job'[w].subject = job[w].subject
  BY <1>0, GoIs DEF Points
<1>2. CleanupAt(job[w])'
  BY <1>0, <1>1 DEF CleanupAt, Coming
<1> QED
  BY <1>0, <1>2, RecoveryMove DEF Points

LEMMA KeepFoundKeeps ==
  ASSUME RichInv, NEW w \in Workers, KeepFound(w), UNCHANGED task
  PROVE  RichInv'
<1>0. /\ DeactivationTypeOK /\ Working(w) /\ job[w].pc = "recheck" /\ WorkOK(w) /\ CurrentOK
      /\ job[w].kind = "recheck" /\ job[w].kind \in Recoveries /\ Go(w, "handoff")
      /\ UNCHANGED <<channel, ops, state, line, intent>>
  BY KindOfPoint DEF RichInv, KeepFound, Working, Recoveries, Rows
<1>1. PICK s \in Ops : job[w].subject = s
  BY <1>0, RecoveryFacts
<1>2. /\ ops[s].kind = "apply" /\ ops[s].stage \in {"creating", "uploading"}
      /\ ops[s].stage = "creating" => s \in line.menus
      /\ menus' = [menus EXCEPT ![s].life = "cleanup_required", ![s].bound = TRUE]
  BY <1>1 DEF KeepFound, Confirmed
<1>3. MenuOK(s) /\ state.blocking = s /\ ops[s].status = "unknown"
  BY <1>0, <1>1, RecoveryFacts
<1>4. Applying(s) /\ Begun(s) /\ menus[s].life \notin {"absent", "applied"}
  BY <1>2, <1>3 DEF Applying, MenuOK, Begun
<1>5. /\ ~Coming("create", s) /\ ~Coming("set", s) /\ ~Coming("delete", s)
      /\ s \notin line.shown /\ line.default # s
  BY <1>2, <1>3, <1>4 DEF MenuOK, Begun
<1> DEFINE n == [[menus[s] EXCEPT !.life = "cleanup_required"] EXCEPT !.bound = TRUE]
<1>6. menus \in [Ops -> Menu \cup {NoMenu}] /\ menus[s] \in Menu
  BY <1>0, <1>4 DEF DeactivationTypeOK, TypeOK, NoMenu
<1>7. /\ n \in Menu /\ n.life = "cleanup_required" /\ n.bound = TRUE
      /\ n.replacedBy = menus[s].replacedBy
  BY <1>6 DEF Menu, Lifecycles
<1>8. menus' = [menus EXCEPT ![s] = n]
  BY <1>2, <1>6
<1> HIDE DEF n
<1>9. /\ menus' \in [Ops -> Menu \cup {NoMenu}] /\ menus'[s] = n
      /\ \A x \in Ops : x # s => menus'[x] = menus[x]
  BY <1>6, <1>7, <1>8
<1>10. MenuOK(s)'
  <2>1. Applying(s)' /\ Begun(s)'
    BY <1>0, <1>2, <1>3, <1>4, <1>5, <1>7, <1>9 DEF Applying, Begun
  <2> QED
    BY <1>0, <1>2, <1>5, <1>7, <1>9, <2>1 DEF MenuOK, Coming
<1>11. CurrentOK'
  BY <1>0, <1>4, <1>7, <1>9 DEF CurrentOK
<1>12. NotReleased => NotReleased'
  BY <1>0, <1>7, <1>9 DEF NotReleased
<1>13. /\ job'[w].pc = "handoff" /\ job'[w].kind = "recheck" /\ job'[w].op = job[w].op
       /\ job'[w].target = job[w].target /\ job'[w].subject = s /\ job'[w].rev = job[w].rev
  BY <1>0, <1>1, GoIs DEF Points
<1>14. WorkOK(w)'
  <2>1. RecheckAt(job[w])'
    BY <1>0, <1>2, <1>3, <1>5, <1>7, <1>9, <1>13 DEF RecheckAt, Coming
  <2> QED
    BY <1>0, <1>1, <1>13, <2>1 DEF WorkOK
<1> QED
  BY <1>0, <1>9, <1>10, <1>11, <1>12, <1>14, MenuStep DEF Points, DeactivationTypeOK, TypeOK

\* A recovery ends and nothing but its own status tells it.
LEMMA RecoveryEnds ==
  ASSUME RichInv, NEW w \in Workers, Working(w), job[w].kind \in Recoveries,
         NEW o \in Ops, job[w].op = o, NEW status \in {"failed", "unknown"},
         ops' = [ops EXCEPT ![o].status = status],
         status = "failed" => job[w].kind = "recheck",
         state' \in [current : Ops \cup {None}, active : Ops \cup {None},
                     blocking : Ops \cup {None}, seen : Ops \cup {None}],
         state'.active = None, state'.current = state.current,
         state'.blocking = IF status = "unknown" THEN o ELSE job[w].subject,
         Over(w, "returned"), UNCHANGED <<channel, menus, line, intent, task>>
  PROVE  RichInv'
<1>0. /\ DeactivationTypeOK /\ Rows
      /\ ops \in [Ops -> Operation \cup {NoOperation}]
      /\ menus \in [Ops -> Menu \cup {NoMenu}]
  BY DEF RichInv, DeactivationTypeOK, TypeOK
<1>1. PICK s \in Ops : job[w].subject = s /\ s # o
  BY RecoveryFacts
<1>2. ops[o].kind \in Recoveries /\ ops[o].kind \in Kinds
  BY RecoveryFacts DEF Recoveries
<1>3. status \in Statuses /\ ops[o].stage \in Stages \cup {"none"}
  BY <1>0, <1>2 DEF Statuses, Operation, NoOperation
<1>9. ops' = Left(o, status, ops[o].stage)
  BY <1>0, <1>2, <1>3, StatusIs
<1>4. /\ ops' \in [Ops -> Operation \cup {NoOperation}]
      /\ \A x \in Ops : x # o => ops'[x] = ops[x]
      /\ ops'[o].status = status /\ ops'[o].kind = ops[o].kind
      /\ ops'[o].target = ops[o].target /\ ops'[o].subject = ops[o].subject
  BY <1>0, <1>2, <1>3, <1>9, LeftIs
<1>5. \A m \in Ops : MenuOK(m)'
  <2> TAKE m \in Ops
  <2>1. SameAtLine(m) /\ MenuOK(m)
    BY <1>0 DEF SameAtLine, Coming, Rows
  <2>2. ops'[m].kind = ops[m].kind /\ (ops[m].kind = "apply" => ops'[m] = ops[m])
    BY <1>2, <1>4 DEF Recoveries
  <2> QED
    BY <2>1, <2>2, MenuFrame
<1>6. CurrentOK'
  BY <1>0 DEF Rows, CurrentOK
<1>7. Rows'
  BY <1>1, <1>4, <1>5, <1>6, RecoveryRows
<1> QED
  BY <1>0, <1>4, <1>7, EndStep

LEMMA CompleteRecoveryKeeps ==
  ASSUME RichInv, NEW w \in Workers, CompleteRecovery(w), UNCHANGED task
  PROVE  RichInv'
<1>0. /\ DeactivationTypeOK /\ Working(w)
      /\ job[w].kind \in Recoveries /\ Over(w, "returned")
      /\ UNCHANGED <<channel, menus, line, intent>>
  BY KindOfPoint DEF RichInv, CompleteRecovery, Working, Recoveries
<1>1. PICK o \in Ops : job[w].op = o
  BY <1>0, RecoveryFacts
<1> DEFINE unknown == job[w].kind = "cleanup" \/ ops[job[w].subject].kind = "cleanup"
           status == IF unknown THEN "unknown" ELSE "failed"
           blocking == IF unknown THEN o ELSE job[w].subject
<1>2. ops' = [ops EXCEPT ![o].status = status] /\ state' = Freed(blocking)
  BY <1>1 DEF CompleteRecovery
<1>3. /\ status \in {"failed", "unknown"} /\ (status = "failed" => job[w].kind = "recheck")
      /\ blocking = IF status = "unknown" THEN o ELSE job[w].subject
      /\ blocking \in Ops
  BY <1>0, RecoveryFacts DEF Recoveries
<1> HIDE DEF unknown, status, blocking
<1>4. /\ state' \in [current : Ops \cup {None}, active : Ops \cup {None},
                     blocking : Ops \cup {None}, seen : Ops \cup {None}]
      /\ state'.active = None /\ state'.current = state.current /\ state'.blocking = blocking
  BY <1>0, <1>2, <1>3 DEF Freed, DeactivationTypeOK, TypeOK
<1> QED
  BY <1>0, <1>1, <1>2, <1>3, <1>4, RecoveryEnds

\* What was accepted for a revision that is no more.
LEMMA StaleRecoveryEnds ==
  ASSUME RichInv, NEW w \in Workers, Working(w), job[w].kind = "recheck",
         StaleRecovery(job[w].op), Over(w, "returned"),
         UNCHANGED <<channel, menus, line, intent, task>>
  PROVE  RichInv'
<1>1. job[w].kind \in Recoveries
  BY DEF Recoveries
<1>2. PICK o \in Ops : job[w].op = o
  BY <1>1, RecoveryFacts
<1>3. state.blocking = job[w].subject
  BY <1>1, RecoveryFacts
<1>4. ops' = [ops EXCEPT ![o].status = "failed"] /\ state' = [state EXCEPT !.active = None]
  BY <1>2 DEF StaleRecovery
<1>5. /\ state' \in [current : Ops \cup {None}, active : Ops \cup {None},
                     blocking : Ops \cup {None}, seen : Ops \cup {None}]
      /\ state'.active = None /\ state'.current = state.current
      /\ state'.blocking = state.blocking
  BY <1>4 DEF RichInv, DeactivationTypeOK, TypeOK
<1> QED
  BY <1>1, <1>2, <1>3, <1>4, <1>5, RecoveryEnds

LEMMA HandoffKeeps ==
  ASSUME RichInv, NEW w \in Workers, Handoff(w), UNCHANGED task
  PROVE  RichInv'
<1>0. /\ DeactivationTypeOK /\ Working(w) /\ job[w].pc = "handoff" /\ Rows
      /\ job[w].kind = "recheck" /\ job[w].kind \in Recoveries /\ Over(w, "returned")
      /\ UNCHANGED <<channel, menus, line, intent>> /\ RecheckAt(job[w])
  BY KindOfPoint DEF RichInv, Handoff, Working, Recoveries
<1>1. PICK o \in Ops, s \in Ops : job[w].op = o /\ job[w].subject = s
  BY <1>0, RecoveryFacts
<1>2. /\ o # s /\ ops[o].kind \in Kinds /\ ops[o].kind = "recheck" /\ MenuOK(s)
      /\ ops[s].status = "unknown"
  BY <1>0, <1>1, RecoveryFacts
<1>3. /\ ops[s].kind = "apply" /\ ops[s].kind \in Kinds
      /\ ops[s].stage \in {"creating", "uploading"}
      /\ menus[s].life = "cleanup_required" /\ ~Coming("create", s)
  BY <1>0, <1>1 DEF RecheckAt, Kinds
<1>4. CASE ~Matched(ops[o].rev)
  <2>1. StaleRecovery(job[w].op)
    BY <1>1, <1>4 DEF Handoff
  <2> QED
    BY <1>0, <2>1, StaleRecoveryEnds
<1>5. CASE Matched(ops[o].rev)
  <2> DEFINE t == Left(s, "cleanup_required", "cleaning")
  <2>1. /\ ops' = [t EXCEPT ![o].status = "succeeded"]
        /\ state' = Freed(s)
    BY <1>1, <1>5 DEF Handoff
  <2>2. /\ t \in [Ops -> Operation \cup {NoOperation}]
        /\ \A x \in Ops : x # s => t[x] = ops[x]
        /\ t[s].kind = ops[s].kind /\ t[s].status = "cleanup_required"
        /\ t[s].target = ops[s].target /\ t[s].subject = ops[s].subject
    BY <1>0, <1>3, LeftIs DEF Statuses, Stages
  <2> HIDE DEF t
  <2>3. /\ ops' \in [Ops -> Operation \cup {NoOperation}]
        /\ \A x \in Ops : x # o => ops'[x] = t[x]
        /\ ops'[o].status = "succeeded" /\ ops'[o].kind = t[o].kind
        /\ ops'[o].target = t[o].target /\ ops'[o].subject = t[o].subject
    <3>1. t[o].kind \in Kinds /\ "succeeded" \in Statuses
      BY <1>2, <2>2 DEF Statuses
    <3>2. ops' = WithStatus(t, o, "succeeded")
      BY <2>1 DEF WithStatus
    <3> QED
      BY <2>2, <3>1, <3>2, SetStatus
  <2>4. /\ state' \in [current : Ops \cup {None}, active : Ops \cup {None},
                       blocking : Ops \cup {None}, seen : Ops \cup {None}]
        /\ state'.active = None /\ state'.blocking = s /\ state'.current = state.current
    BY <1>0, <2>1 DEF Freed, DeactivationTypeOK, TypeOK
  <2>5. /\ \A x \in Ops : x \notin {o, s} => ops'[x] = ops[x]
        /\ ops'[o].kind = ops[o].kind /\ ops'[o].target = ops[o].target
        /\ ops'[o].subject = ops[o].subject /\ ops'[o].status = "succeeded"
        /\ ops'[s].kind = ops[s].kind /\ ops'[s].target = ops[s].target
        /\ ops'[s].subject = ops[s].subject /\ ops'[s].status = "cleanup_required"
    BY <1>2, <2>2, <2>3
  <2>6. \A m \in Ops : MenuOK(m)'
    <3> TAKE m \in Ops
    <3>1. SameAtLine(m) /\ MenuOK(m)
      BY <1>0 DEF SameAtLine, Coming, Rows
    <3>2. CASE m = s
      <4>1. Applying(s) /\ ~Applying(s)'
        BY <1>2, <1>3, <2>5 DEF Applying, InProgress
      <4>2. ~Coming("set", s) /\ ~Coming("delete", s)
        BY <1>2, <1>3, <4>1 DEF MenuOK
      <4> QED
        BY <1>0, <1>2, <1>3, <2>5, <3>2, <4>1, <4>2 DEF MenuOK, Coming
    <3>3. CASE m # s
      <4>1. ops'[m].kind = ops[m].kind /\ (ops[m].kind = "apply" => ops'[m] = ops[m])
        BY <1>2, <2>5, <3>3
      <4> QED
        BY <1>0, <3>1, <4>1, MenuFrame
    <3> QED
      BY <3>2, <3>3
  <2>7. CurrentOK'
    BY <1>0, <2>4 DEF Rows, CurrentOK
  <2>8. ops[s].kind \notin Recoveries
    BY <1>3 DEF Recoveries
  <2>9. Rows'
    BY <1>0, <1>1, <2>4, <2>5, <2>6, <2>7, <2>8, RecoveryRows
  <2>10. menus' \in [Ops -> Menu \cup {NoMenu}]
    BY <1>0 DEF DeactivationTypeOK, TypeOK
  <2> QED
    BY <1>0, <2>3, <2>4, <2>9, <2>10, EndStep
<1> QED
  BY <1>4, <1>5

LEMMA RecoverApplyKeeps ==
  ASSUME RichInv, NEW w \in Workers, RecoverApply(w), UNCHANGED task
  PROVE  RichInv'
<1>0. /\ DeactivationTypeOK /\ Working(w) /\ job[w].pc = "reapply" /\ Rows
      /\ job[w].kind = "recheck" /\ job[w].kind \in Recoveries
      /\ UNCHANGED <<channel, line, intent>> /\ RecheckAt(job[w])
  BY KindOfPoint DEF RichInv, RecoverApply, Working, Recoveries
<1>1. PICK o \in Ops, s \in Ops : job[w].op = o /\ job[w].subject = s
  BY <1>0, RecoveryFacts
<1>2. /\ o # s /\ ops[o].kind \in Kinds /\ ops[o].kind = "recheck" /\ MenuOK(s)
      /\ ops[s].status = "unknown"
  BY <1>0, <1>1, RecoveryFacts
<1>3. /\ ops[s].kind = "apply" /\ ops[s].kind \in Kinds
      /\ ops[s].stage \in {"setting_default", "verifying"}
      /\ menus[s].bound /\ s \in line.shown
  BY <1>0, <1>1 DEF RecheckAt, Kinds
<1>4. CASE ~Matched(ops[o].rev)
  <2>1. StaleRecovery(job[w].op) /\ Over(w, "returned") /\ UNCHANGED menus
    BY <1>1, <1>4 DEF RecoverApply
  <2> QED
    BY <1>0, <2>1, StaleRecoveryEnds
<1>5. CASE Matched(ops[o].rev) /\ ~Matched(ops[s].rev)
  <2>1. Over(w, "failed") /\ UNCHANGED <<ops, menus, state>>
    BY <1>1, <1>5 DEF RecoverApply
  <2>2. Rows'
    BY <1>0, <2>1, RowsFrame DEF Quiet
  <2>3. /\ ops \in [Ops -> Operation \cup {NoOperation}] /\ menus \in [Ops -> Menu \cup {NoMenu}]
        /\ state \in [current : Ops \cup {None}, active : Ops \cup {None},
                      blocking : Ops \cup {None}, seen : Ops \cup {None}]
    BY <1>0 DEF DeactivationTypeOK, TypeOK
  <2> QED
    BY <1>0, <2>1, <2>2, <2>3, EndStep DEF Statuses
<1>6. CASE Matched(ops[o].rev) /\ Matched(ops[s].rev)
  <2>1. Applying(s) /\ Begun(s)
    BY <1>2, <1>3 DEF Applying, MenuOK
  <2>2. /\ menus[s].life \in {"candidate", "cleanup_required"}
        /\ ~Coming("create", s) /\ ~Coming("set", s)
    BY <1>2, <1>3, <2>1 DEF MenuOK, Begun
  <2>3. PICK status \in {"succeeded", "cleanup_required"}, left \in Stages :
          /\ AppliedOp(s) = Left(s, status, left)
          /\ status = "succeeded" <=> state.current = None
    BY DEF AppliedOp, Stages
  <2> DEFINE t == Left(s, status, left)
  <2>4. /\ Applied(s) /\ ops' = [t EXCEPT ![o].status = "succeeded"] /\ Over(w, "returned")
    BY <1>1, <1>6, <2>3 DEF RecoverApply
  <2>5. status \in Statuses
    BY DEF Statuses
  <2>6. /\ t \in [Ops -> Operation \cup {NoOperation}]
        /\ \A x \in Ops : x # s => t[x] = ops[x]
        /\ t[s].kind = ops[s].kind /\ t[s].status = status
        /\ t[s].target = ops[s].target /\ t[s].subject = ops[s].subject
    BY <1>0, <1>3, <2>5, LeftIs
  <2> HIDE DEF t
  <2>7. /\ ops' \in [Ops -> Operation \cup {NoOperation}]
        /\ \A x \in Ops : x # o => ops'[x] = t[x]
        /\ ops'[o].status = "succeeded" /\ ops'[o].kind = t[o].kind
        /\ ops'[o].target = t[o].target /\ ops'[o].subject = t[o].subject
    <3>1. t[o].kind \in Kinds /\ "succeeded" \in Statuses
      BY <1>2, <2>6 DEF Statuses
    <3>2. ops' = WithStatus(t, o, "succeeded")
      BY <2>4 DEF WithStatus
    <3> QED
      BY <2>6, <3>1, <3>2, SetStatus
  <2>8. /\ \A x \in Ops : x \notin {o, s} => ops'[x] = ops[x]
        /\ ops'[o].kind = ops[o].kind /\ ops'[o].target = ops[o].target
        /\ ops'[o].subject = ops[o].subject /\ ops'[o].status = "succeeded"
        /\ ops'[s].kind = ops[s].kind /\ ops'[s].target = ops[s].target
        /\ ops'[s].subject = ops[s].subject /\ ops'[s].status = status
    BY <1>2, <2>6, <2>7
  <2>9. /\ menus' \in [Ops -> Menu \cup {NoMenu}]
        /\ menus'[s].life = "applied"
        /\ \A m \in Ops : m # s /\ m # state.current => menus'[m] = menus[m]
        /\ \A m \in Ops : m = state.current => m # s /\ menus'[m].life = "old"
        /\ state' \in [current : Ops \cup {None}, active : Ops \cup {None},
                       blocking : Ops \cup {None}, seen : Ops \cup {None}]
        /\ state'.active = None
        /\ state'.blocking = IF state.current = None THEN None ELSE s
    BY <1>0, <2>2, <2>4, AppliedIs DEF Rows
  <2>10. (\A m \in Ops : MenuOK(m)') /\ CurrentOK'
    <3>1. \A x \in Ops : x # s => /\ ops'[x].kind = ops[x].kind
                                  /\ ops[x].kind = "apply" => ops'[x] = ops[x]
      BY <1>2, <2>8
    <3> QED
      BY <1>0, <1>3, <2>1, <2>2, <2>4, <2>8, <3>1, AppliedMenus
  <2>11. ops[s].kind \notin Recoveries
    BY <1>3 DEF Recoveries
  <2>12. Rows'
    BY <1>0, <1>1, <2>3, <2>8, <2>9, <2>10, <2>11, RecoveryRows
  <2>13. \A m \in Ops : menus'[m].life = "released" => menus[m].life = "released"
    BY <2>9
  <2> QED
    BY <1>0, <2>4, <2>7, <2>9, <2>12, <2>13, EndStep
<1> QED
  BY <1>4, <1>5, <1>6

LEMMA DeleteMenuKeeps ==
  ASSUME RichInv, NEW w \in Workers, DeleteMenu(w), UNCHANGED task
  PROVE  RichInv'
<1>0. /\ DeactivationTypeOK /\ Working(w) /\ job[w].pc = "delete" /\ Rows /\ WorkOK(w)
      /\ job[w].kind = "cleanup" /\ job[w].kind \in Recoveries
      /\ UNCHANGED <<channel, ops, menus, state, intent>> /\ CleanupAt(job[w])
  BY KindOfPoint DEF RichInv, DeleteMenu, Working, Recoveries
<1>1. PICK o \in Ops : job[w].op = o
  BY <1>0, RecoveryFacts
<1>2. PICK m \in Ops : job[w].target = m
  BY <1>0, RecoveryFacts DEF Target
<1>3. /\ ops[o].kind = "cleanup" /\ ops[o].target = m /\ state.active = o
      /\ Target(m) /\ MenuOK(m)
  BY <1>0, <1>1, <1>2, RecoveryFacts DEF Rows
<1>4. /\ menus[m].life \in {"old", "cleanup_required"} /\ line.default # m
      /\ ~Coming("create", m) /\ ~Coming("delete", m)
      /\ state.blocking = job[w].subject
  BY <1>0, <1>2 DEF CleanupAt
<1>5. PICK a \in {"accepted", "rejected", "unknown"} :
        /\ Asked("delete", m, a)
        /\ Go(w, IF a = "accepted" THEN "deleted" ELSE "unresolved")
  BY <1>2 DEF DeleteMenu
<1>6. /\ line' \in [menus : SUBSET Ops, default : Ops \cup {None, External},
                    late : SUBSET (Calls \X Ops), shown : SUBSET Ops]
      /\ \A n \in Ops : n # m => SameAtLine(n)
      /\ line'.shown = line.shown /\ line'.default = line.default
      /\ \/ line'.late = line.late
         \/ a # "accepted" /\ line'.late = line.late \cup {<<"delete", m>>}
      /\ a = "accepted" => m \notin line'.menus
      /\ line'.menus \subseteq line.menus
  BY <1>0, <1>4, <1>5, AskedIs DEF Performed, PerformedAs, Underway
<1>7. \A call, n : Coming(call, n)' =>
        Coming(call, n) \/ (call = "delete" /\ n = m /\ a # "accepted")
  BY <1>6 DEF Coming
<1>8. MenuOK(m)'
  <2>1. ops[m].kind = "apply" /\ ~Applying(m) /\ ~Applying(m)'
    BY <1>0, <1>3 DEF Target, Applying
  <2> QED
    BY <1>0, <1>3, <1>4, <1>6, <1>7, <2>1 DEF MenuOK
<1>9. Rows'
  <2>1. \A n \in Ops : MenuOK(n)'
    <3> TAKE n \in Ops
    <3>1. CASE n # m
      BY <1>0, <1>6, <3>1, MenuFrame DEF Rows
    <3> QED
      BY <1>8, <3>1
  <2>2. ActiveOK' /\ BlockingOK' /\ CurrentOK' /\ TargetsOK'
    BY <1>0 DEF Rows, ActiveOK, BlockingOK, DeadEnd, Unresolved, CurrentOK, TargetsOK,
                Target, Applying
  <2>3. DeletionsOK'
    BY <1>0, <1>3, <1>7 DEF Rows, DeletionsOK
  <2> QED
    BY <2>1, <2>2, <2>3 DEF Rows
<1> DEFINE pc == IF a = "accepted" THEN "deleted" ELSE "unresolved"
<1>10. Go(w, pc) /\ pc \in Points /\ pc # "accept"
       /\ pc = IF a = "accepted" THEN "deleted" ELSE "unresolved"
  BY <1>5 DEF Points
<1> HIDE DEF pc
<1>11. /\ job' \in [Workers -> Job] /\ \A v \in Workers : v # w => job'[v] = job[v]
       /\ job'[w].pc = pc /\ job'[w].kind = "cleanup" /\ job'[w].op = o
       /\ job'[w].target = m /\ job'[w].subject = job[w].subject /\ job'[w].rev = job[w].rev
  BY <1>0, <1>1, <1>2, <1>10, GoIs
<1>12. DeactivationTypeOK'
  BY <1>0, <1>6, <1>11 DEF DeactivationTypeOK, TypeOK
<1>13. WorkOK(w)'
  <2>1. CleanupAt(job[w])'
    BY <1>0, <1>4, <1>6, <1>7, <1>10, <1>11 DEF CleanupAt
  <2> QED
    BY <1>0, <1>1, <1>2, <1>11, <2>1 DEF WorkOK
<1>14. NotReleased => NotReleased'
  BY <1>0, <1>6 DEF NotReleased
<1> QED
  BY <1>0, <1>9, <1>10, <1>11, <1>12, <1>13, <1>14, WorkStep

LEMMA MarkDeletedKeeps ==
  ASSUME RichInv, NEW w \in Workers, MarkDeleted(w), UNCHANGED task
  PROVE  RichInv'
<1>0. /\ DeactivationTypeOK /\ Working(w) /\ job[w].pc = "deleted" /\ Rows /\ WorkOK(w)
      /\ job[w].kind = "cleanup" /\ job[w].kind \in Recoveries /\ Go(w, "finish")
      /\ UNCHANGED <<channel, ops, state, line, intent>> /\ CleanupAt(job[w])
  BY KindOfPoint DEF RichInv, MarkDeleted, Working, Recoveries
<1>1. PICK m \in Ops : job[w].target = m
  BY <1>0, RecoveryFacts DEF Target
<1>2. Target(m) /\ MenuOK(m)
  BY <1>0, <1>1, RecoveryFacts DEF Rows
<1>3. /\ menus[m].life \in {"old", "cleanup_required"} /\ line.default # m
      /\ m \notin line.menus /\ ~Coming("create", m) /\ ~Coming("delete", m)
      /\ state.blocking = job[w].subject
  BY <1>0, <1>1 DEF CleanupAt
<1>4. menus' = [menus EXCEPT ![m].life = "deleted"]
  BY <1>1 DEF MarkDeleted
<1>5. /\ menus' \in [Ops -> Menu \cup {NoMenu}] /\ menus'[m].life = "deleted"
      /\ \A x \in Ops : x # m => menus'[x] = menus[x]
  BY <1>0, <1>3, <1>4, LifeIs DEF Lifecycles
<1>6. MenuOK(m)'
  <2>1. ops[m].kind = "apply" /\ ~Applying(m) /\ ~Applying(m)'
    BY <1>0, <1>2 DEF Target, Applying
  <2> QED
    BY <1>0, <1>2, <1>3, <1>5, <2>1 DEF MenuOK, Coming
<1>7. CurrentOK'
  BY <1>0, <1>3, <1>5 DEF Rows, CurrentOK
<1>8. NotReleased => NotReleased'
  BY <1>0, <1>5 DEF NotReleased
<1>9. /\ job'[w].pc = "finish" /\ job'[w].kind = "cleanup" /\ job'[w].op = job[w].op
      /\ job'[w].target = m /\ job'[w].subject = job[w].subject /\ job'[w].rev = job[w].rev
  BY <1>0, <1>1, GoIs DEF Points
<1>10. WorkOK(w)'
  <2>1. CleanupAt(job[w])'
    BY <1>0, <1>3, <1>5, <1>9 DEF CleanupAt, Coming
  <2> QED
    BY <1>0, <1>1, <1>9, <2>1 DEF WorkOK
<1> QED
  BY <1>0, <1>5, <1>6, <1>7, <1>8, <1>10, MenuStep DEF Points, DeactivationTypeOK, TypeOK

LEMMA FinishCleanupKeeps ==
  ASSUME RichInv, NEW w \in Workers, FinishCleanup(w), UNCHANGED task
  PROVE  RichInv'
<1>0. /\ DeactivationTypeOK /\ Working(w) /\ job[w].pc = "finish" /\ Rows
      /\ job[w].kind = "cleanup" /\ job[w].kind \in Recoveries /\ Over(w, "returned")
      /\ UNCHANGED <<channel, menus, line, intent>> /\ CleanupAt(job[w])
  BY KindOfPoint DEF RichInv, FinishCleanup, Working, Recoveries
<1>1. PICK o \in Ops, s \in Ops : job[w].op = o /\ job[w].subject = s
  BY <1>0, RecoveryFacts
<1>2. /\ o # s /\ ops[o].kind \in Kinds /\ ops[o].kind = "cleanup" /\ MenuOK(s)
      /\ ops[s].status = "cleanup_required" /\ ops[s].kind \in Kinds
      /\ ops[s].kind \notin Recoveries /\ state.active = o /\ state.blocking = s
      /\ ops[o].target = job[w].target
  BY <1>0, <1>1, RecoveryFacts
<1> DEFINE t == WithStatus(ops, o, "succeeded")
<1>3. ops' = WithStatus(t, s, "succeeded") /\ state' = Freed(None)
  BY <1>1 DEF FinishCleanup, WithStatus
<1>4. "succeeded" \in Statuses /\ ops \in [Ops -> Operation \cup {NoOperation}]
      /\ menus \in [Ops -> Menu \cup {NoMenu}]
  BY <1>0 DEF Statuses, DeactivationTypeOK, TypeOK
<1>5. /\ t \in [Ops -> Operation \cup {NoOperation}]
      /\ \A x \in Ops : x # o => t[x] = ops[x]
      /\ t[o].kind = ops[o].kind /\ t[o].status = "succeeded"
      /\ t[o].target = ops[o].target /\ t[o].subject = ops[o].subject
  BY <1>2, <1>4, SetStatus
<1> HIDE DEF t
<1>6. /\ ops' \in [Ops -> Operation \cup {NoOperation}]
      /\ \A x \in Ops : x # s => ops'[x] = t[x]
      /\ ops'[s].kind = t[s].kind /\ ops'[s].status = "succeeded"
      /\ ops'[s].target = t[s].target /\ ops'[s].subject = t[s].subject
  <2>1. t[s].kind \in Kinds
    BY <1>2, <1>5
  <2> QED
    BY <1>3, <1>4, <1>5, <2>1, SetStatus
<1>7. /\ \A x \in Ops : x \notin {o, s} => ops'[x] = ops[x]
      /\ ops'[o].kind = ops[o].kind /\ ops'[o].target = ops[o].target
      /\ ops'[o].subject = ops[o].subject /\ ops'[o].status = "succeeded"
      /\ ops'[s].kind = ops[s].kind /\ ops'[s].target = ops[s].target
      /\ ops'[s].subject = ops[s].subject /\ ops'[s].status = "succeeded"
  BY <1>2, <1>5, <1>6
<1>8. /\ state' \in [current : Ops \cup {None}, active : Ops \cup {None},
                     blocking : Ops \cup {None}, seen : Ops \cup {None}]
      /\ state'.active = None /\ state'.blocking = None /\ state'.current = state.current
  BY <1>0, <1>3 DEF Freed, DeactivationTypeOK, TypeOK
<1>9. \A m \in Ops : ~Coming("delete", m)
  <2> SUFFICES ASSUME NEW m \in Ops, Coming("delete", m)
               PROVE  FALSE
    OBVIOUS
  <2>1. PICK c \in Ops : /\ ops[c].kind = "cleanup" /\ ops[c].target = m
                         /\ state.active = c \/ ops[c].status = "unknown"
    BY <1>0 DEF Rows, DeletionsOK
  <2>2. CASE ops[c].status = "unknown"
    <3>1. Unresolved(c) /\ c # s
      BY <1>2, <2>2 DEF Unresolved
    <3>2. ~DeadEnd
      BY <1>2 DEF DeadEnd
    <3> QED
      BY <1>0, <1>2, <3>1, <3>2 DEF Rows, BlockingOK
  <2>3. CASE state.active = c
    BY <1>0, <1>2, <2>1, <2>3 DEF CleanupAt
  <2> QED
    BY <2>1, <2>2, <2>3
<1>10. \A m \in Ops : MenuOK(m)'
  <2> TAKE m \in Ops
  <2>1. SameAtLine(m) /\ MenuOK(m)
    BY <1>0 DEF SameAtLine, Coming, Rows
  <2>2. CASE m = s /\ ops[s].kind = "apply"
    <3>1. ~Applying(s) /\ ~Applying(s)'
      BY <1>2, <1>7 DEF Applying, InProgress
    <3> QED
      BY <1>0, <1>2, <1>7, <2>2, <3>1 DEF MenuOK, Coming
  <2>3. CASE ~(m = s /\ ops[s].kind = "apply")
    <3>1. ops'[m].kind = ops[m].kind /\ (ops[m].kind = "apply" => ops'[m] = ops[m])
      BY <1>2, <1>7, <2>3
    <3> QED
      BY <1>0, <2>1, <3>1, MenuFrame
  <2> QED
    BY <2>2, <2>3
<1>11. CurrentOK'
  BY <1>0, <1>8 DEF Rows, CurrentOK
<1>12. Rows'
  BY <1>0, <1>1, <1>2, <1>7, <1>8, <1>9, <1>10, <1>11, RecoveryRows
<1> QED
  BY <1>0, <1>4, <1>6, <1>8, <1>12, EndStep

LEMMA WorkKeeps ==
  ASSUME RichInv, NEW w \in Workers, Work(w), UNCHANGED task
  PROVE  RichInv'
BY AcceptKeeps, AcceptRecoveryKeeps, RefuseKeeps, CreateMenuKeeps, UploadImageKeeps,
   LookBeforeSetKeeps, SetDefaultKeeps, ClearDefaultKeeps, SkipClearKeeps, LookAfterKeeps,
   ReleaseMenuKeeps, SettleKeeps, CompleteStaleKeeps, CompleteRefusedKeeps,
   CompleteStageKeeps, RecheckLookKeeps, KeepFoundKeeps, HandoffKeeps, RecoverApplyKeeps,
   CompleteRecoveryKeeps, LookBeforeDeleteKeeps, DeleteMenuKeeps, MarkDeletedKeeps,
   FinishCleanupKeeps
DEF Work

-----------------------------------------------------------------------------
(* The coordinator of a deactivation                                        *)

LEMMA NoTaskIsTyped == NoTask \in Task /\ NoTask.pc = "none"
BY IdleIsTyped, RichAssumption DEF NoTask, Task

\* The coordinator in w takes a step of its own.
LEMMA TaskMove ==
  ASSUME RichInv, NEW w \in Workers, NEW t \in Task, task' = [task EXCEPT ![w] = t],
         t.pc # "reserved", UNCHANGED <<channel, job, intent>>, Quiet,
         state' \in [current : Ops \cup {None}, active : Ops \cup {None},
                     blocking : Ops \cup {None}, seen : Ops \cup {None}],
         TaskOK(w)'
  PROVE  RichInv'
<1>0. DeactivationTypeOK /\ task \in [Workers -> Task]
  BY DEF RichInv, DeactivationTypeOK
<1>1. /\ task' \in [Workers -> Task] /\ task'[w] = t
      /\ \A v \in Workers : v # w => task'[v] = task[v]
  BY <1>0
<1>2. DeactivationTypeOK'
  BY <1>0, <1>1 DEF Quiet, DeactivationTypeOK, TypeOK
<1>3. ChannelMoves
  BY DEF ChannelMoves
<1>4. WorkOK(w)' /\ AcceptOK(w)'
  BY <1>0, <1>3, WorkFrame, AcceptFrame DEF RichInv
<1>5. AtWork(w)' => AtWork(w)
  BY <1>1 DEF AtWork, Working
<1> QED
  BY <1>1, <1>2, <1>4, <1>5, QuietMove

LEMMA TaskGoesOn ==
  ASSUME RichInv, NEW w \in Workers, task[w].pc \notin {"none", "waiting"},
         NEW t \in Task, task' = [task EXCEPT ![w] = t],
         t.op = task[w].op, t.rev = task[w].rev, t.pc \notin {"none", "reserved"},
         t.pc \in {"decide", "reserve"} /\ t.seen.kind = "managed" => t.seen.menu \in Ops,
         t.pc = "reserve" => t.seen.kind = "managed",
         t.pc = "decide" /\ t.seen.kind = "none" => NotReleased,
         t.pc = "complete" /\ InForce(w) => NothingLeft,
         UNCHANGED <<channel, job, intent>>, Quiet,
         state' \in [current : Ops \cup {None}, active : Ops \cup {None},
                     blocking : Ops \cup {None}, seen : Ops \cup {None}]
  PROVE  RichInv'
<1>1. task'[w] = t /\ TaskOK(w)
  BY DEF RichInv, DeactivationTypeOK
<1>2. InForce(w)' <=> InForce(w)
  BY <1>1 DEF InForce
<1>3. (NotReleased => NotReleased') /\ (NothingLeft => NothingLeft')
  BY DEF NotReleased, NothingLeft, Quiet, Leftovers
<1>4. TaskOK(w)'
  BY <1>1, <1>2, <1>3 DEF TaskOK
<1> QED
  BY <1>4, TaskMove

\* What ToSave and Step leave of the coordinator's state.
LEMMA SaveTyped ==
  ASSUME DeactivationTypeOK, NEW w \in Workers,
         NEW reason \in {"none", "cleanup_required", "other"}, NEW subject \in Ops \cup {None},
         ToSave(w, reason, subject)
  PROVE  \E t \in Task : /\ task' = [task EXCEPT ![w] = t] /\ t.pc = "save"
                         /\ t.op = task[w].op /\ t.rev = task[w].rev
<1> DEFINE t == [[[[task[w] EXCEPT !.pc = "save"] EXCEPT !.reason = reason]
                     EXCEPT !.subject = subject] EXCEPT !.seen = Unseen]
<1>1. task \in [Workers -> Task] /\ task[w] \in Task /\ Unseen \in Observation
  BY IdleIsTyped DEF DeactivationTypeOK
<1>2. t \in Task /\ t.pc = "save" /\ t.op = task[w].op /\ t.rev = task[w].rev
  BY <1>1 DEF Task
<1>3. task' = [task EXCEPT ![w] = t]
  BY <1>1 DEF ToSave
<1> HIDE DEF t
<1> QED
  BY <1>2, <1>3

StepSeen(w, pc, seen) == task' = [task EXCEPT ![w].pc = pc, ![w].seen = seen]

LEMMA StepTyped ==
  ASSUME DeactivationTypeOK, NEW w \in Workers,
         NEW pc \in {"none", "look", "decide", "complete", "reserve", "reserved",
                     "waiting", "save", "stale"},
         NEW seen \in Observation,
         \/ Step(w, pc) /\ seen = task[w].seen
         \/ StepSeen(w, pc, seen)
  PROVE  \E t \in Task : /\ task' = [task EXCEPT ![w] = t] /\ t.pc = pc
                         /\ t.op = task[w].op /\ t.rev = task[w].rev /\ t.seen = seen
<1> DEFINE t == [[task[w] EXCEPT !.pc = pc] EXCEPT !.seen = seen]
<1>1. task \in [Workers -> Task] /\ task[w] \in Task
  BY DEF DeactivationTypeOK
<1>2. t \in Task /\ t.pc = pc /\ t.op = task[w].op /\ t.rev = task[w].rev /\ t.seen = seen
  BY <1>1 DEF Task
<1>3. task' = [task EXCEPT ![w] = t]
  <2>1. seen = task[w].seen => t = [task[w] EXCEPT !.pc = pc]
    BY <1>1 DEF Task
  <2> QED
    BY <1>1, <2>1 DEF Step, StepSeen
<1> HIDE DEF t
<1> QED
  BY <1>2, <1>3

LEMMA AssessLookKeeps ==
  ASSUME RichInv, NEW w \in Workers, AssessLook(w)
  PROVE  RichInv'
<1>0. /\ DeactivationTypeOK /\ task[w].pc = "look" /\ Quiet
      /\ UNCHANGED <<channel, job, intent>>
      /\ state' \in [current : Ops \cup {None}, active : Ops \cup {None},
                     blocking : Ops \cup {None}, seen : Ops \cup {None}]
  BY DEF RichInv, AssessLook, rich, Quiet, DeactivationTypeOK, TypeOK
<1>1. CASE Matched(task[w].rev)
  <2>1. PICK seen \in Looks : StepSeen(w, "decide", seen)
    BY <1>1 DEF AssessLook, StepSeen
  <2>2. /\ seen \in Observation /\ (seen.kind = "managed" => seen.menu \in Ops)
        /\ (seen.kind = "none" => NotReleased)
    BY <1>0, LooksTyped DEF NotReleased
  <2>3. PICK t \in Task : /\ task' = [task EXCEPT ![w] = t] /\ t.pc = "decide"
                          /\ t.op = task[w].op /\ t.rev = task[w].rev /\ t.seen = seen
    BY <1>0, <2>1, <2>2, StepTyped
  <2> QED
    BY <1>0, <2>2, <2>3, TaskGoesOn
<1>2. CASE ~Matched(task[w].rev)
  <2>1. ToSave(w, "other", None)
    BY <1>2 DEF AssessLook
  <2>2. PICK t \in Task : /\ task' = [task EXCEPT ![w] = t] /\ t.pc = "save"
                          /\ t.op = task[w].op /\ t.rev = task[w].rev
    BY <1>0, <2>1, SaveTyped
  <2> QED
    BY <1>0, <2>2, TaskGoesOn
<1> QED
  BY <1>1, <1>2

\* A menu LINE shows has left a trace in the rows, unless it was released.
LEMMA ShownLeavesATrace ==
  ASSUME RichInv, NotReleased, state.active = None, state.blocking = None,
         state.current = None, Leftovers = {}
  PROVE  line.default \notin Ops
<1> SUFFICES ASSUME NEW m \in Ops, line.default = m
             PROVE  FALSE
  OBVIOUS
<1>1. MenuOK(m) /\ menus[m] \in Menu \cup {NoMenu}
  BY Typed DEF RichInv, Rows
<1>2. ops[m].kind = "apply" /\ menus[m].life # "absent"
  BY <1>1 DEF MenuOK, NoTrace
<1>3. menus[m].life \in Lifecycles
  BY <1>1, <1>2 DEF Menu, NoMenu
<1>4. menus[m].life # "candidate"
  BY <1>1, ApplyingIsSeen DEF MenuOK
<1>5. menus[m].life # "applied"
  BY RichAssumption DEF RichInv, Rows, CurrentOK
<1>6. menus[m].life \notin {"old", "cleanup_required"}
  BY DEF Leftovers
<1>7. menus[m].life \notin {"deleted", "released"}
  BY <1>1 DEF MenuOK, NotReleased
<1> QED
  BY <1>3, <1>4, <1>5, <1>6, <1>7 DEF Lifecycles

LEMMA DecideKeeps ==
  ASSUME RichInv, NEW w \in Workers, Decide(w)
  PROVE  RichInv'
<1>0. /\ DeactivationTypeOK /\ task[w].pc = "decide" /\ TaskOK(w)
      /\ UNCHANGED <<channel, ops, menus, line, job, intent>>
      /\ task[w].seen \in Observation /\ Unseen \in Observation
      /\ state \in [current : Ops \cup {None}, active : Ops \cup {None},
                    blocking : Ops \cup {None}, seen : Ops \cup {None}]
  BY Typed, IdleIsTyped DEF RichInv, Decide, Task, DeactivationTypeOK, TypeOK
<1>1. /\ Quiet
      /\ state' \in [current : Ops \cup {None}, active : Ops \cup {None},
                     blocking : Ops \cup {None}, seen : Ops \cup {None}]
  <2>1. state' = state \/ state' = Recorded(task[w].seen)
    BY DEF Decide
  <2> QED
    BY <1>0, <2>1, RecordedIs DEF Quiet
<1>2. ASSUME NEW reason \in {"none", "cleanup_required", "other"},
             NEW subject \in Ops \cup {None}, ToSave(w, reason, subject)
      PROVE  RichInv'
  <2>1. PICK t \in Task : /\ task' = [task EXCEPT ![w] = t] /\ t.pc = "save"
                          /\ t.op = task[w].op /\ t.rev = task[w].rev
    BY <1>0, <1>2, SaveTyped
  <2> QED
    BY <1>0, <1>1, <2>1, TaskGoesOn
<1>3. CASE ~Matched(task[w].rev)
  BY <1>2, <1>3 DEF Decide
<1>4. CASE Matched(task[w].rev) /\ Leftovers # {}
  <2>1. ToSave(w, "cleanup_required", None)
    BY <1>4 DEF Decide
  <2> QED
    BY <1>2, <2>1
<1>5. CASE Matched(task[w].rev) /\ Leftovers = {} /\ state.blocking # None
  <2>1. ToSave(w, "other", state.blocking)
    BY <1>5 DEF Decide
  <2> QED
    BY <1>0, <1>2, <2>1
<1>6. CASE /\ Matched(task[w].rev) /\ Leftovers = {} /\ state.blocking = None
           /\ state.active # None
  <2>1. ToSave(w, "other", state.active)
    BY <1>6 DEF Decide
  <2> QED
    BY <1>0, <1>2, <2>1
<1>7. CASE /\ Matched(task[w].rev) /\ Leftovers = {} /\ state.blocking = None
           /\ state.active = None
  <2>1. IF task[w].seen.kind = "none" /\ state.current = None
        THEN StepSeen(w, "complete", Unseen)
        ELSE IF task[w].seen.kind = "managed" /\ task[w].seen.menu = state.current
                /\ ~task[w].again
        THEN Step(w, "reserve")
        ELSE ToSave(w, "other", None)
    BY <1>7 DEF Decide, StepSeen
  <2>2. CASE task[w].seen.kind = "none" /\ state.current = None
    <3>1. PICK t \in Task : /\ task' = [task EXCEPT ![w] = t] /\ t.pc = "complete"
                            /\ t.op = task[w].op /\ t.rev = task[w].rev /\ t.seen = Unseen
      BY <1>0, <2>1, <2>2, StepTyped
    <3>2. InForce(w) => NothingLeft
      BY <1>0, <1>7, <2>2, ShownLeavesATrace DEF TaskOK, NothingLeft
    <3> QED
      BY <1>0, <1>1, <3>1, <3>2, TaskGoesOn
  <2>3. CASE task[w].seen.kind = "managed" /\ Step(w, "reserve")
    <3>1. PICK t \in Task : /\ task' = [task EXCEPT ![w] = t] /\ t.pc = "reserve"
                            /\ t.op = task[w].op /\ t.rev = task[w].rev
                            /\ t.seen = task[w].seen
      BY <1>0, <2>3, StepTyped
    <3>2. t.seen.menu \in Ops
      BY <1>0, <2>3, <3>1 DEF TaskOK
    <3> QED
      BY <1>0, <1>1, <2>3, <3>1, <3>2, TaskGoesOn
  <2>4. CASE ToSave(w, "other", None)
    BY <1>2, <2>4
  <2> QED
    BY <2>1, <2>2, <2>3, <2>4
<1> QED
  BY <1>3, <1>4, <1>5, <1>6, <1>7

\* The coordinator in w is done; the intent keeps what others compare it with.
LEMMA IntentStep ==
  ASSUME RichInv, NEW w \in Workers, task' = [task EXCEPT ![w] = NoTask],
         UNCHANGED <<job, ops, menus, state, line>>, ChannelMoves,
         channel' \in [active : BOOLEAN, rev : Revisions],
         intent' \in Intent, intent'.op = intent.op, intent'.expected = intent.expected,
         intent'.recovery \in {intent.recovery, None}, IntentOK'
  PROVE  RichInv'
<1>0. DeactivationTypeOK /\ NoTask \in Task
  BY NoTaskIsTyped DEF RichInv
<1>1. /\ task' \in [Workers -> Task] /\ task'[w] = NoTask
      /\ \A v \in Workers : v # w => task'[v] = task[v]
  BY <1>0 DEF DeactivationTypeOK
<1>2. DeactivationTypeOK'
  BY <1>0, <1>1 DEF DeactivationTypeOK, TypeOK
<1>3. Quiet
  BY DEF Quiet
<1>4. \A v \in Workers : WorkOK(v)'
  BY <1>0, <1>3, WorkFrame DEF RichInv
<1>5. channel.rev \in Nat /\ channel.rev <= channel'.rev
  BY <1>0, Typed DEF ChannelMoves
<1>6. \A v \in Workers : AcceptOK(v)'
  <2> TAKE v \in Workers
  <2>1. AcceptOK(v) /\ job[v].rev \in Nat
    BY <1>0, Typed DEF RichInv
  <2> QED
    <3>1. channel'.rev \in Nat
      BY RichAssumption DEF Revisions
    <3>2. job[v].rev <= channel.rev => job[v].rev <= channel'.rev
      BY <1>5, <2>1, <3>1
    <3>3. job[v].op \in Ops => job[v].op # None
      BY RichAssumption
    <3> QED
      BY <2>1, <3>2, <3>3 DEF AcceptOK
<1>7. \A v \in Workers : TaskOK(v)'
  <2> TAKE v \in Workers
  <2>1. CASE v = w
    BY <1>1, <2>1 DEF TaskOK, NoTask
  <2>2. CASE v # w
    <3>1. TaskOK(v) /\ task[v].rev \in Nat /\ task'[v] = task[v]
      BY <1>0, <1>1, <2>2, Typed DEF RichInv
    <3>2. task[v].rev <= channel.rev => (InForce(v)' => InForce(v))
      <4>1. CASE channel' = channel
        BY <3>1, <4>1 DEF InForce
      <4>2. CASE channel'.rev = channel.rev + 1
        <5>1. task[v].rev <= channel.rev => task[v].rev # channel'.rev
          BY <1>5, <3>1, <4>2
        <5> QED
          BY <3>1, <5>1 DEF InForce
      <4> QED
        BY <4>1, <4>2 DEF ChannelMoves
    <3>3. (NotReleased => NotReleased') /\ (NothingLeft => NothingLeft')
      BY DEF NotReleased, NothingLeft, Leftovers
    <3>4. /\ task[v].rev <= channel.rev => task[v].rev <= channel'.rev
          /\ task[v].rev < channel.rev => task[v].rev < channel'.rev
      <4>1. channel'.rev \in Nat
        BY RichAssumption DEF Revisions
      <4> QED
        BY <1>5, <3>1, <4>1
    <3> QED
      BY <3>1, <3>2, <3>3, <3>4 DEF TaskOK, Accepted
  <2> QED
    BY <2>1, <2>2
<1>8. AtWork(w)' => AtWork(w)
  BY <1>1 DEF AtWork, Working, NoTask
<1> QED
  BY <1>1, <1>2, <1>3, <1>4, <1>6, <1>7, <1>8, QuietStep

LEMMA CompleteInactiveKeeps ==
  ASSUME RichInv, NEW w \in Workers, CompleteInactive(w)
  PROVE  RichInv'
<1>0. /\ DeactivationTypeOK /\ TaskOK(w) /\ task[w].pc = "complete" /\ IntentOK
      /\ intent.op = task[w].op /\ intent.expected = task[w].rev /\ channel.rev = task[w].rev
      /\ UNCHANGED <<job, ops, menus, state, line>>
      /\ task' = [task EXCEPT ![w] = NoTask]
  BY DEF RichInv, CompleteInactive, Mine, UpToDate, Done
<1>1. /\ channel' \in [active : BOOLEAN, rev : Revisions] /\ channel'.rev = channel.rev + 1
  <2>1. task[w].rev \in Revisions /\ task[w].rev < MaxRev
    BY <1>0 DEF TaskOK
  <2>2. task[w].rev + 1 \in Revisions
    BY <2>1, RichAssumption DEF Revisions
  <2> QED
    BY <1>0, <2>2 DEF CompleteInactive
<1>2. /\ intent' \in Intent /\ intent'.op = intent.op /\ intent'.expected = intent.expected
      /\ intent'.recovery = None /\ intent'.status = "completed"
  <2>1. intent \in Intent /\ intent' = [intent EXCEPT !.status = "completed", !.reason = "none",
                                          !.subject = None, !.recovery = None, !.ready = FALSE]
    BY <1>0 DEF DeactivationTypeOK, TypeOK, CompleteInactive
  <2> QED
    BY <2>1 DEF Intent
<1>3. IntentOK'
  <2>1. channel.rev \in Nat
    BY <1>0, Typed
  <2> QED
    BY <1>0, <1>1, <1>2, <2>1 DEF IntentOK, TaskOK
<1> QED
  BY <1>0, <1>1, <1>2, <1>3, IntentStep DEF ChannelMoves

LEMMA SaveResultKeeps ==
  ASSUME RichInv, NEW w \in Workers, SaveResult(w)
  PROVE  RichInv'
<1>0. /\ DeactivationTypeOK /\ IntentOK /\ TaskOK(w) /\ task[w] \in Task
      /\ task[w].pc = "save" /\ UNCHANGED <<channel, job, ops, menus, state, line>>
      /\ intent.op = task[w].op
      /\ task' = [task EXCEPT ![w] = NoTask]
  BY Typed DEF RichInv, SaveResult, Done, rich, Mine
<1> DEFINE ready == intent.ready \/ task[w].recovery # None
<1>1. /\ intent' \in Intent /\ intent'.op = intent.op /\ intent'.expected = intent.expected
      /\ intent'.recovery = intent.recovery /\ intent'.status = "confirmation_required"
  <2>1. intent \in Intent
    BY <1>0 DEF DeactivationTypeOK, TypeOK
  <2>2. intent' = [intent EXCEPT !.status = "confirmation_required",
                     !.reason = task[w].reason, !.subject = task[w].subject,
                     !.ready = ready]
    BY <2>1 DEF SaveResult
  <2>3. ready \in BOOLEAN /\ task[w].subject \in Ops \cup {None}
        /\ task[w].reason \in {"none", "cleanup_required", "other"}
    BY <1>0, <2>1 DEF Intent, Task
  <2> HIDE DEF ready
  <2> QED
    BY <2>1, <2>2, <2>3 DEF Intent
<1>2. IntentOK'
  BY <1>0, <1>1, RichAssumption DEF IntentOK, TaskOK
<1>3. channel' \in [active : BOOLEAN, rev : Revisions]
  BY <1>0, Typed
<1> QED
  BY <1>0, <1>1, <1>2, <1>3, IntentStep DEF ChannelMoves

LEMMA DoneMove ==
  ASSUME RichInv, NEW w \in Workers, Done(w), UNCHANGED <<rich, intent>>
  PROVE  RichInv'
<1>0. DeactivationTypeOK /\ NoTask \in Task /\ NoTask.pc = "none"
  BY NoTaskIsTyped DEF RichInv
<1>1. task' = [task EXCEPT ![w] = NoTask] /\ UNCHANGED <<channel, job, intent>> /\ Quiet
  BY DEF Done, rich, Quiet
<1>2. state' \in [current : Ops \cup {None}, active : Ops \cup {None},
                  blocking : Ops \cup {None}, seen : Ops \cup {None}]
  BY <1>0 DEF rich, DeactivationTypeOK, TypeOK
<1>3. TaskOK(w)'
  <2>1. task'[w] = NoTask
    BY <1>0, <1>1 DEF DeactivationTypeOK
  <2> QED
    BY <1>0, <2>1 DEF TaskOK
<1> QED
  BY <1>0, <1>1, <1>2, <1>3, TaskMove

LEMMA NotStoredKeeps ==
  ASSUME RichInv, NEW w \in Workers, NotStored(w)
  PROVE  RichInv'
<1>0. /\ DeactivationTypeOK /\ task[w].pc \in {"complete", "save"}
      /\ UNCHANGED <<rich, intent>> /\ task[w].seen \in Observation
  BY Typed DEF RichInv, NotStored, Task
<1>1. CASE Step(w, "stale")
  <2>1. PICK t \in Task : /\ task' = [task EXCEPT ![w] = t] /\ t.pc = "stale"
                          /\ t.op = task[w].op /\ t.rev = task[w].rev
    BY <1>0, <1>1, StepTyped
  <2>2. /\ Quiet /\ UNCHANGED <<channel, job, intent>>
        /\ state' \in [current : Ops \cup {None}, active : Ops \cup {None},
                       blocking : Ops \cup {None}, seen : Ops \cup {None}]
    BY <1>0 DEF rich, Quiet, DeactivationTypeOK, TypeOK
  <2> QED
    BY <1>0, <2>1, <2>2, TaskGoesOn
<1>2. CASE Done(w)
  BY <1>0, <1>2, DoneMove
<1> QED
  BY <1>1, <1>2 DEF NotStored

LEMMA RecordStaleKeeps ==
  ASSUME RichInv, NEW w \in Workers, RecordStale(w)
  PROVE  RichInv'
<1>0. /\ DeactivationTypeOK /\ IntentOK /\ TaskOK(w) /\ task[w].pc = "stale"
      /\ UNCHANGED rich /\ Done(w)
  BY DEF RichInv, RecordStale
<1>1. CASE ~Mine(w)
  BY <1>0, <1>1, DoneMove DEF RecordStale
<1>2. CASE Mine(w)
  <2> DEFINE ready == intent.ready \/ intent.recovery # None
  <2>1. intent \in Intent
    BY <1>0 DEF DeactivationTypeOK, TypeOK
  <2>2. intent' = [intent EXCEPT !.status = "confirmation_required",
                     !.reason = "other", !.ready = ready]
    BY <1>2, <2>1 DEF RecordStale
  <2>3. ready \in BOOLEAN
    BY <2>1 DEF Intent
  <2> HIDE DEF ready
  <2>4. /\ intent' \in Intent /\ intent'.op = intent.op /\ intent'.expected = intent.expected
        /\ intent'.recovery = intent.recovery /\ intent'.status = "confirmation_required"
    BY <2>1, <2>2, <2>3 DEF Intent
  <2>5. IntentOK'
    BY <1>0, <1>2, <2>4, RichAssumption DEF IntentOK, TaskOK, Mine, rich
  <2>6. channel' \in [active : BOOLEAN, rev : Revisions]
    BY <1>0, Typed DEF rich
  <2> QED
    BY <1>0, <2>4, <2>5, <2>6, IntentStep DEF ChannelMoves, rich, Done
<1> QED
  BY <1>1, <1>2

LEMMA ReturnedKeeps ==
  ASSUME RichInv, NEW w \in Workers, Returned(w)
  PROVE  RichInv'
<1>0. /\ DeactivationTypeOK /\ TaskOK(w) /\ task[w].pc = "waiting" /\ job[w].pc = "idle"
      /\ UNCHANGED <<channel, ops, menus, state, line, intent>>
      /\ job' = [job EXCEPT ![w] = Idle]
      /\ job \in [Workers -> Job] /\ task \in [Workers -> Task]
  BY DEF RichInv, Returned, DeactivationTypeOK, TypeOK
<1>1. PICK t \in Task : /\ task' = [task EXCEPT ![w] = t] /\ t.pc \in {"look", "save"}
                        /\ t.op = task[w].op /\ t.rev = task[w].rev
  <2>1. CASE task' = [task EXCEPT ![w].pc = "look", ![w].again = TRUE]
    <3> DEFINE t == [[task[w] EXCEPT !.pc = "look"] EXCEPT !.again = TRUE]
    <3>1. t \in Task /\ t.pc = "look" /\ t.op = task[w].op /\ t.rev = task[w].rev
      BY <1>0 DEF Task
    <3>2. task' = [task EXCEPT ![w] = t]
      BY <1>0, <2>1
    <3> HIDE DEF t
    <3> QED
      BY <3>1, <3>2
  <2>2. CASE Step(w, "look")
    <3>1. task[w].seen \in Observation
      BY <1>0 DEF Task
    <3> QED
      BY <1>0, <2>2, <3>1, StepTyped
  <2>3. CASE ToSave(w, "other", None)
    BY <1>0, <2>3, SaveTyped
  <2>4. CASE ToSave(w, "other", task[w].op)
    <3>1. task[w].op \in Ops
      BY <1>0 DEF TaskOK
    <3> QED
      BY <1>0, <2>4, <3>1, SaveTyped
  <2> QED
    BY <2>1, <2>2, <2>3, <2>4 DEF Returned
<1>2. /\ task' \in [Workers -> Task] /\ task'[w] = t
      /\ job' \in [Workers -> Job] /\ job'[w] = Idle
      /\ \A v \in Workers : v # w => task'[v] = task[v] /\ job'[v] = job[v]
  BY <1>0, <1>1, IdleIsTyped
<1>3. DeactivationTypeOK' /\ Quiet
  BY <1>0, <1>2 DEF DeactivationTypeOK, TypeOK, Quiet
<1>4. AcceptOK(w)' /\ WorkOK(w)' /\ ~AtWork(w)'
  BY <1>1, <1>2, IdleIsTyped DEF AcceptOK, WorkOK, AtWork, Working
<1>5. TaskOK(w)'
  BY <1>0, <1>1, <1>2 DEF TaskOK
<1> QED
  BY <1>0, <1>2, <1>3, <1>4, <1>5, QuietMove

LEMMA DieKeeps ==
  ASSUME RichInv, NEW w \in Workers, Die(w)
  PROVE  RichInv'
<1>0. /\ DeactivationTypeOK /\ UNCHANGED <<channel, ops, menus, state, line, intent>>
      /\ job' = [job EXCEPT ![w] = Idle] /\ task' = [task EXCEPT ![w] = NoTask]
      /\ job \in [Workers -> Job] /\ task \in [Workers -> Task]
      /\ NoTask \in Task /\ NoTask.pc = "none"
  BY NoTaskIsTyped DEF RichInv, Die, Done, DeactivationTypeOK, TypeOK
<1>1. /\ task' \in [Workers -> Task] /\ task'[w] = NoTask
      /\ job' \in [Workers -> Job] /\ job'[w] = Idle
      /\ \A v \in Workers : v # w => task'[v] = task[v] /\ job'[v] = job[v]
  BY <1>0, IdleIsTyped
<1>2. DeactivationTypeOK' /\ Quiet
  BY <1>0, <1>1 DEF DeactivationTypeOK, TypeOK, Quiet
<1>3. AcceptOK(w)' /\ WorkOK(w)' /\ ~AtWork(w)' /\ TaskOK(w)'
  BY <1>0, <1>1, IdleIsTyped DEF AcceptOK, WorkOK, AtWork, Working, TaskOK
<1> QED
  BY <1>0, <1>1, <1>2, <1>3, QuietMove

LEMMA DeactivateKeeps ==
  ASSUME RichInv, NEW w \in Workers, NEW o \in Ops, Deactivate(w, o)
  PROVE  RichInv'
<1>0. /\ DeactivationTypeOK /\ Idling(w) /\ Unused(o) /\ ~Pending /\ IntentOK
      /\ channel.rev < MaxRev /\ channel.rev \in Revisions
      /\ UNCHANGED rich /\ intent \in Intent
  BY Typed DEF RichInv, Deactivate, DeactivationTypeOK, TypeOK
<1>r. channel.rev \in 0..MaxRev
  BY <1>0, RichAssumption DEF Revisions
<1> DEFINE t == [NoTask EXCEPT !.pc = "look", !.op = o, !.rev = channel.rev]
<1>1. /\ t \in Task /\ t.pc = "look" /\ t.op = o /\ t.rev = channel.rev
  BY <1>r, NoTaskIsTyped DEF Task
<1>2. task' = [task EXCEPT ![w] = t]
  BY DEF Deactivate
<1> HIDE DEF t
<1>3. /\ task' \in [Workers -> Task] /\ task'[w] = t
      /\ \A v \in Workers : v # w => task'[v] = task[v]
  BY <1>0, <1>1, <1>2 DEF DeactivationTypeOK
<1>4. /\ intent' \in Intent /\ intent'.op = o /\ intent'.expected = channel.rev
      /\ intent'.status = "checking" /\ intent'.recovery = None
  <2>1. NoIntent \in Intent /\ NoIntent.recovery = None
    BY RichAssumption DEF NoIntent, Intent
  <2>2. intent' = [NoIntent EXCEPT !.status = "checking", !.op = o, !.expected = channel.rev]
    BY DEF Deactivate
  <2> QED
    BY <1>r, <2>1, <2>2 DEF Intent
<1>5. /\ Quiet /\ ChannelMoves /\ job' = job
      /\ DeactivationTypeOK'
  BY <1>0, <1>3, <1>4 DEF rich, Quiet, ChannelMoves, DeactivationTypeOK, TypeOK
<1>6. channel.rev \in Nat /\ channel' = channel /\ None \notin Ops
  BY <1>0, Typed DEF rich
<1>7. IntentOK'
  BY <1>4, <1>6 DEF IntentOK
<1>8. \A v \in Workers : AcceptOK(v)'
  <2> TAKE v \in Workers
  <2>1. AcceptOK(v) /\ job[v].op # o
    BY <1>0 DEF RichInv, Unused
  <2> QED
    BY <1>4, <1>5, <1>6, <2>1 DEF AcceptOK
<1>9. \A v \in Workers : TaskOK(v)'
  <2> TAKE v \in Workers
  <2>1. CASE v = w
    <3>1. job[w] = Idle
      BY <1>0 DEF Idling
    <3> QED
      BY <1>0, <1>1, <1>3, <1>4, <1>5, <1>6, <2>1, <3>1 DEF TaskOK
  <2>2. CASE v # w
    <3> SUFFICES ASSUME task[v].pc # "none"
                 PROVE  TaskOK(v)'
      BY <1>3, <2>2 DEF TaskOK
    <3>1. /\ TaskOK(v) /\ task[v].op # o /\ task'[v] = task[v] /\ task[v].rev \in Nat
          /\ intent.expected \in Nat
      BY <1>0, <1>3, <2>2, Typed, RichAssumption DEF RichInv, Unused, Intent
    <3>2. task[v].rev < channel.rev
      <4>1. CASE task[v].op # intent.op
        BY <3>1, <4>1 DEF TaskOK
      <4>2. CASE task[v].op = intent.op
        <5>1. intent.status = "completed"
          BY <1>0, <3>1 DEF TaskOK, IntentOK, Pending, Intent
        <5>2. intent.expected < channel.rev /\ task[v].rev <= intent.expected
          BY <1>0, <3>1, <4>2, <5>1 DEF TaskOK, IntentOK
        <5> QED
          BY <1>6, <3>1, <5>2
      <4> QED
        BY <4>1, <4>2
    <3>3. ~InForce(v)'
      BY <1>4, <3>1 DEF InForce
    <3> QED
      BY <1>0, <1>4, <1>5, <1>6, <3>1, <3>2, <3>3 DEF TaskOK, rich, Accepted
  <2> QED
    BY <2>1, <2>2
<1>10. WorkOK(w)' /\ (AtWork(w)' => AtWork(w))
  BY <1>0, <1>1, <1>3, <1>5, IdleIsTyped DEF WorkOK, AtWork, Working, Idling
<1> QED
  BY <1>3, <1>5, <1>7, <1>8, <1>9, <1>10, QuietStep

LEMMA RecheckDeactivationKeeps ==
  ASSUME RichInv, NEW w \in Workers, NEW r \in Ops, RecheckDeactivation(w, r)
  PROVE  RichInv'
<1>0. /\ DeactivationTypeOK /\ Idling(w) /\ Pending /\ IntentOK /\ None \notin Ops
      /\ channel.rev < MaxRev /\ channel.rev \in Revisions /\ channel.rev \in Nat
      /\ UNCHANGED <<channel, ops, menus, state, line>> /\ intent \in Intent
      /\ job \in [Workers -> Job] /\ task \in [Workers -> Task] /\ job[w] = Idle
  BY Typed DEF RichInv, RecheckDeactivation, DeactivationTypeOK, TypeOK, Idling
<1>r. channel.rev \in 0..MaxRev
  BY <1>0, RichAssumption DEF Revisions
<1>1. intent.op \in Ops
  BY <1>0 DEF IntentOK, Pending, Intent
<1> DEFINE pc == IF intent.subject = None THEN "look" ELSE "waiting"
           t == [NoTask EXCEPT !.pc = pc, !.op = intent.op, !.rev = channel.rev,
                               !.recovery = r, !.again = TRUE]
<1>2. pc \in {"look", "waiting"} /\ (pc = "look" => intent.subject = None)
  OBVIOUS
<1>3. task' = [task EXCEPT ![w] = t]
  BY DEF RecheckDeactivation
<1> HIDE DEF pc
<1>4. /\ t \in Task /\ t.pc = pc /\ t.op = intent.op /\ t.rev = channel.rev
  BY <1>r, <1>1, <1>2, NoTaskIsTyped DEF Task
<1> HIDE DEF t
<1>5. /\ task' \in [Workers -> Task] /\ task'[w] = t
      /\ \A v \in Workers : v # w => task'[v] = task[v]
  BY <1>0, <1>3, <1>4
<1>6. /\ intent' \in Intent /\ intent'.op = intent.op /\ intent'.expected = channel.rev
      /\ intent'.status = intent.status /\ intent'.recovery = r
  <2>1. intent' = [intent EXCEPT !.expected = channel.rev, !.recovery = r, !.ready = FALSE]
    BY DEF RecheckDeactivation
  <2> QED
    BY <1>0, <1>r, <2>1 DEF Intent
<1> DEFINE j == [Idle EXCEPT !.kind = "recheck", !.pc = "accept", !.op = r,
                   !.subject = intent.subject, !.rev = channel.rev, !.inner = TRUE]
<1>7. job' = IF intent.subject = None THEN job ELSE [job EXCEPT ![w] = j]
  BY DEF RecheckDeactivation
<1>8. /\ j \in Job /\ j.kind = "recheck" /\ j.pc = "accept" /\ j.op = r
      /\ j.subject = intent.subject /\ j.rev = channel.rev /\ j.target = None
  <2>1. intent.subject \in Ops \cup {None} /\ channel.rev \in 0..MaxRev
    BY <1>0 DEF Intent, Revisions
  <2>2. Idle.target = None
    BY DEF Idle
  <2> QED
    BY <2>1, <2>2, IdleIsTyped DEF Job, Kinds, Points
<1> HIDE DEF j
<1>9. /\ job' \in [Workers -> Job]
      /\ job'[w] = IF intent.subject = None THEN Idle ELSE j
      /\ \A v \in Workers : v # w => job'[v] = job[v]
  BY <1>0, <1>7, <1>8
<1>10. Quiet /\ ChannelMoves /\ DeactivationTypeOK'
  BY <1>0, <1>5, <1>6, <1>9 DEF Quiet, ChannelMoves, DeactivationTypeOK, TypeOK
<1>11. IntentOK'
  BY <1>0, <1>6 DEF IntentOK, Pending
<1>12. \A v \in Workers : AcceptOK(v)'
  <2> TAKE v \in Workers
  <2>1. CASE v = w /\ intent.subject = None
    BY <1>9, <2>1, IdleIsTyped DEF AcceptOK
  <2>2. CASE v = w /\ intent.subject # None
    <3>1. intent.subject \in Ops
      BY <1>0, <2>2 DEF Intent
    <3> QED
      BY <1>0, <1>8, <1>9, <2>2, <3>1 DEF AcceptOK, Kinds, Recoveries
  <2>3. CASE v # w
    <3>1. AcceptOK(v) /\ job'[v] = job[v]
      BY <1>9, <2>3 DEF RichInv
    <3>2. job[v].pc = "accept" /\ job[v].kind \notin Recoveries => job[v].op # r
      BY <3>1 DEF RecheckDeactivation, Unused, AcceptOK
    <3> QED
      BY <1>0, <1>6, <3>1, <3>2 DEF AcceptOK
  <2> QED
    BY <2>1, <2>2, <2>3
<1>13. \A v \in Workers : TaskOK(v)'
  <2> TAKE v \in Workers
  <2>1. CASE v = w
    BY <1>0, <1>1, <1>2, <1>4, <1>5, <1>6, <1>9, <2>1 DEF TaskOK
  <2>2. CASE v # w
    <3>1. TaskOK(v) /\ task'[v] = task[v] /\ job'[v] = job[v] /\ (InForce(v)' <=> InForce(v))
      BY <1>0, <1>5, <1>6, <1>9, <2>2 DEF RichInv, InForce
    <3>2. (NotReleased => NotReleased') /\ (NothingLeft => NothingLeft')
      BY <1>0 DEF NotReleased, NothingLeft, Leftovers
    <3> QED
      BY <1>0, <1>6, <3>1, <3>2 DEF TaskOK, Accepted
  <2> QED
    BY <2>1, <2>2
<1>14. WorkOK(w)' /\ ~AtWork(w)'
  BY <1>2, <1>4, <1>5, <1>8, <1>9, IdleIsTyped DEF WorkOK, AtWork, Working
<1> QED
  BY <1>5, <1>9, <1>10, <1>11, <1>12, <1>13, <1>14, QuietStep

LEMMA UnlinkLookKeeps ==
  ASSUME RichInv, NEW w \in Workers, UnlinkLook(w)
  PROVE  RichInv'
<1>0. /\ DeactivationTypeOK /\ TaskOK(w) /\ Rows
      /\ task[w].pc = "reserved" /\ task[w] \in Task
      /\ UNCHANGED <<channel, ops, menus, state, line, intent>>
      /\ job \in [Workers -> Job] /\ task \in [Workers -> Task]
  BY Typed DEF RichInv, UnlinkLook, DeactivationTypeOK, TypeOK
<1>1. PICK o \in Ops : task[w].op = o
  BY <1>0 DEF TaskOK
<1>2. /\ state.active = o /\ Accepted(o, "unlink") /\ ops[o].rev = task[w].rev
      /\ ops[o].subject = None /\ task[w].rev <= channel.rev /\ job[w] = Idle
  BY <1>0, <1>1 DEF TaskOK
<1>3. PICK m \in Ops : ops[o].target = m
  BY <1>0, <1>2 DEF Rows, TargetsOK, Target, Accepted
<1>4. PICK seen \in Looks :
        job' = [job EXCEPT ![w] =
          [Idle EXCEPT !.kind = "unlink", !.pc = "clearing_default", !.op = o,
                       !.target = m, !.rev = task[w].rev, !.inner = TRUE,
                       !.seen = IF seen.kind = "managed" /\ seen.menu = m
                                THEN seen ELSE Unseen]]
  BY <1>1, <1>3 DEF UnlinkLook
<1> DEFINE look == IF seen.kind = "managed" /\ seen.menu = m THEN seen ELSE Unseen
           j == [Idle EXCEPT !.kind = "unlink", !.pc = "clearing_default", !.op = o,
                   !.target = m, !.rev = task[w].rev, !.inner = TRUE, !.seen = look]
<1>5. look \in Observation
  BY <1>0, LooksTyped, IdleIsTyped
<1>6. job' = [job EXCEPT ![w] = j]
  BY <1>4
<1> HIDE DEF look
<1>7. /\ j \in Job /\ j.kind = "unlink" /\ j.pc = "clearing_default" /\ j.op = o
      /\ j.target = m /\ j.rev = task[w].rev /\ j.subject = None
  <2>1. task[w].rev \in 0..MaxRev
    BY <1>0 DEF Task
  <2>2. Idle.subject = None
    BY DEF Idle
  <2> QED
    BY <1>5, <2>1, <2>2, IdleIsTyped DEF Job, Kinds, Points, Stages
<1> HIDE DEF j
<1>8. PICK t \in Task : /\ task' = [task EXCEPT ![w] = t] /\ t.pc = "waiting"
                        /\ t.op = task[w].op /\ t.rev = task[w].rev
  <2>1. StepSeen(w, "waiting", Unseen)
    BY DEF UnlinkLook, StepSeen
  <2> QED
    BY <1>0, <2>1, IdleIsTyped, StepTyped
<1>9. /\ task' \in [Workers -> Task] /\ task'[w] = t
      /\ job' \in [Workers -> Job] /\ job'[w] = j
      /\ \A v \in Workers : v # w => task'[v] = task[v] /\ job'[v] = job[v]
  BY <1>0, <1>6, <1>7, <1>8
<1>10. DeactivationTypeOK' /\ Quiet
  BY <1>0, <1>9 DEF DeactivationTypeOK, TypeOK, Quiet
<1>11. AcceptOK(w)' /\ AtWork(w)
  BY <1>0, <1>7, <1>9 DEF AcceptOK, AtWork
<1>12. WorkOK(w)'
  <2>1. UnlinkAt(job[w])'
    BY <1>0, <1>2, <1>7, <1>9 DEF UnlinkAt, Accepted
  <2> QED
    BY <1>0, <1>2, <1>3, <1>7, <1>9, <2>1 DEF WorkOK, Accepted
<1>13. TaskOK(w)'
  BY <1>0, <1>8, <1>9 DEF TaskOK
<1> QED
  BY <1>0, <1>9, <1>10, <1>11, <1>12, <1>13, QuietMove

LEMMA ReserveUnlinkKeeps ==
  ASSUME RichInv, NEW w \in Workers, ReserveUnlink(w)
  PROVE  RichInv'
<1>0. /\ DeactivationTypeOK /\ TaskOK(w) /\ Rows /\ CurrentOK /\ IntentOK
      /\ task[w].pc = "reserve" /\ task[w] \in Task
      /\ UNCHANGED <<channel, menus, line, job, intent>>
      /\ task \in [Workers -> Task] /\ channel.rev \in Nat /\ None \notin Ops
  BY Typed DEF RichInv, ReserveUnlink, DeactivationTypeOK, Rows
<1>1. PICK o \in Ops : task[w].op = o
  BY <1>0 DEF TaskOK
<1>2. PICK m \in Ops : task[w].seen.menu = m
  BY <1>0 DEF TaskOK
<1>3. /\ task[w].rev \in Revisions /\ task[w].rev <= channel.rev /\ job[w] = Idle
      /\ task[w].seen \in Observation
  BY <1>0 DEF TaskOK, Task
<1> DEFINE agrees == /\ Matched(task[w].rev) /\ ops[o] = NoOperation
                     /\ state.active = None /\ state.blocking = None
                     /\ \A n \in Ops : menus[n].life # "cleanup_required"
                     /\ state.seen = m /\ state.current = m
<1>4. CASE ~agrees
  <2>1. ToSave(w, "other", None) /\ UNCHANGED <<ops, state>>
    BY <1>1, <1>2, <1>4 DEF ReserveUnlink
  <2>2. PICK t \in Task : /\ task' = [task EXCEPT ![w] = t] /\ t.pc = "save"
                          /\ t.op = task[w].op /\ t.rev = task[w].rev
    BY <1>0, <2>1, SaveTyped
  <2>3. /\ Quiet
        /\ state' \in [current : Ops \cup {None}, active : Ops \cup {None},
                       blocking : Ops \cup {None}, seen : Ops \cup {None}]
    BY <1>0, <2>1 DEF Quiet, DeactivationTypeOK, TypeOK
  <2> QED
    BY <1>0, <2>2, <2>3, TaskGoesOn
<1>5. CASE agrees
  <2> DEFINE p == [NoOperation EXCEPT !.kind = "unlink", !.status = "accepted",
                                      !.target = m, !.rev = task[w].rev]
  <2>1. /\ ops' = [ops EXCEPT ![o] = p] /\ state' = [state EXCEPT !.active = o]
        /\ Step(w, "reserved")
    BY <1>1, <1>2, <1>5 DEF ReserveUnlink
  <2>2. /\ p \in Operation /\ p.kind = "unlink" /\ p.status = "accepted" /\ p.stage = "none"
        /\ p.target = m /\ p.subject = None /\ p.rev = task[w].rev
    BY <1>3 DEF NoOperation, Operation, Statuses, InProgress, Kinds
  <2> HIDE DEF p
  <2>3. /\ state' \in [current : Ops \cup {None}, active : Ops \cup {None},
                       blocking : Ops \cup {None}, seen : Ops \cup {None}]
        /\ state'.active = o /\ state'.blocking = state.blocking
        /\ state'.current = state.current
    BY <1>0, <2>1 DEF DeactivationTypeOK, TypeOK
  <2>4. Target(m)
    <3>1. MenuOK(m) /\ menus[m].life = "applied"
      BY <1>0, <1>5 DEF Rows, CurrentOK
    <3> QED
      BY <3>1 DEF MenuOK, NoTrace, NoMenu, Begun, Target
  <2>5. Rows'
    BY <1>0, <1>5, <2>1, <2>2, <2>3, <2>4, NewOperation DEF InProgress, Recoveries
  <2>6. ops' \in [Ops -> Operation \cup {NoOperation}] /\ ops'[o] = p
    BY <1>0, <2>1, <2>2 DEF DeactivationTypeOK, TypeOK
  <2>7. PICK t \in Task : /\ task' = [task EXCEPT ![w] = t] /\ t.pc = "reserved"
                          /\ t.op = o /\ t.rev = task[w].rev
    BY <1>0, <1>1, <1>3, <2>1, StepTyped
  <2>8. /\ task' \in [Workers -> Task] /\ task'[w] = t
        /\ \A v \in Workers : v # w => task'[v] = task[v]
    BY <1>0, <2>7
  <2>9. DeactivationTypeOK'
    BY <1>0, <2>3, <2>6, <2>8 DEF DeactivationTypeOK, TypeOK
  <2>10. \A v \in Workers : ~AtWork(v)
    BY <1>5, NobodyAtWork
  <2>11. \A v \in Workers : WorkOK(v)' /\ AcceptOK(v)'
    BY <1>0, <2>10 DEF AtWork, Working, WorkOK, AcceptOK, RichInv
  <2>12. OneAtWork'
    BY <1>0, <2>8, <2>10 DEF OneAtWork, AtWork, Working
  <2>13. \A v \in Workers : TaskOK(v)'
    <3> TAKE v \in Workers
    <3>1. CASE v = w
      BY <1>0, <1>1, <1>3, <2>2, <2>3, <2>6, <2>7, <2>8, <3>1 DEF TaskOK, Accepted
    <3>2. CASE v # w
      <4>1. /\ TaskOK(v) /\ task'[v] = task[v] /\ task[v].pc # "reserved"
            /\ InForce(v)' <=> InForce(v)
        BY <1>0, <2>8, <2>10, <3>2 DEF RichInv, AtWork, InForce
      <4>2. ~NothingLeft
        BY <1>0, <1>5 DEF NothingLeft
      <4>3. NotReleased => NotReleased'
        BY <1>0, <2>2, <2>3, <2>6 DEF NotReleased
      <4> QED
        BY <1>0, <4>1, <4>2, <4>3 DEF TaskOK
    <3> QED
      BY <3>1, <3>2
  <2>14. IntentOK'
    BY <1>0 DEF IntentOK
  <2> QED
    BY <2>5, <2>9, <2>11, <2>12, <2>13, <2>14 DEF RichInv
<1> QED
  BY <1>4, <1>5

LEMMA ChannelSwitches ==
  ASSUME RichInv, Reactivate \/ SwitchOff
  PROVE  RichInv'
<1>0. DeactivationTypeOK /\ channel.rev \in Revisions
  BY Typed DEF RichInv
<1>1. /\ channel' \in [active : BOOLEAN, rev : Revisions] /\ channel'.rev = channel.rev + 1
      /\ UNCHANGED <<ops, menus, state, line, job, intent, task>>
  <2>1. channel.rev < MaxRev
    BY <1>0, RichAssumption DEF Reactivate, SwitchOff, Revisions
  <2> DEFINE r == channel.rev + 1
  <2>2. r \in Revisions
    BY <1>0, <2>1, RichAssumption DEF Revisions
  <2>3. /\ channel' \in [active : BOOLEAN, rev : Revisions] /\ channel'.rev = channel.rev + 1
        /\ UNCHANGED <<ops, menus, state, line, job, intent, task>>
    <3>1. \/ channel' = [active |-> TRUE, rev |-> r]
          \/ channel' = [active |-> FALSE, rev |-> r]
      BY DEF Reactivate, SwitchOff
    <3>2. UNCHANGED <<ops, menus, state, line, job, intent, task>>
      BY DEF Reactivate, SwitchOff
    <3>3. channel'.rev = r
      BY <3>1
    <3> HIDE DEF r
    <3>4. channel' \in [active : BOOLEAN, rev : Revisions]
      <4>1. CASE channel' = [active |-> TRUE, rev |-> r]
        BY <2>2, <4>1
      <4>2. CASE channel' = [active |-> FALSE, rev |-> r]
        BY <2>2, <4>2
      <4> QED
        BY <3>1, <4>1, <4>2
    <3> QED
      BY <3>2, <3>3, <3>4 DEF r
  <2> QED
    BY <2>3
<1>2. DeactivationTypeOK' /\ Quiet /\ ChannelMoves
  BY <1>0, <1>1 DEF DeactivationTypeOK, TypeOK, Quiet, ChannelMoves
<1> QED
  BY <1>1, <1>2, ChannelStep

-----------------------------------------------------------------------------
(* The specification                                                        *)

LEMMA RichInvAtFirst == DisableInit => RichInv
<1> SUFFICES ASSUME DisableInit
             PROVE  RichInv
  OBVIOUS
<1>1. DeactivationTypeOK
  <2>1. NoIntent \in Intent
    BY RichAssumption DEF NoIntent, Intent
  <2>2. 1 \in Revisions
    BY RichAssumption DEF Revisions
  <2> QED
    BY <2>1, <2>2, IdleIsTyped, NoTaskIsTyped
    DEF DisableInit, Init, DeactivationTypeOK, TypeOK
<1>2. \A o \in Ops : /\ ops[o].kind = "none" /\ ops[o].status = "none"
                     /\ menus[o] = NoMenu /\ menus[o].life = "absent"
  BY DEF DisableInit, Init, NoOperation, NoMenu
<1>3. /\ state.active = None /\ state.blocking = None /\ state.current = None
      /\ line.menus = {} /\ line.shown = {} /\ line.late = {} /\ line.default = None
  BY DEF DisableInit, Init
<1>4. \A m \in Ops : MenuOK(m)
  BY <1>2, <1>3, RichAssumption DEF MenuOK, NoTrace, Applying, Coming
<1>5. ActiveOK /\ BlockingOK /\ CurrentOK
  BY <1>2, <1>3, RichAssumption
  DEF ActiveOK, BlockingOK, CurrentOK, Unresolved, InProgress
<1>6. TargetsOK /\ DeletionsOK
  BY <1>2, <1>3 DEF TargetsOK, DeletionsOK, Coming
<1>7. \A w \in Workers : job[w].pc = "idle" /\ task[w].pc = "none"
  BY IdleIsTyped, NoTaskIsTyped DEF DisableInit, Init
<1>8. \A w \in Workers : WorkOK(w) /\ AcceptOK(w) /\ TaskOK(w) /\ ~AtWork(w)
  BY <1>7 DEF WorkOK, Working, AcceptOK, TaskOK, AtWork
<1>9. IntentOK
  BY DEF DisableInit, Init, NoIntent, IntentOK
<1> QED
  BY <1>1, <1>4, <1>5, <1>6, <1>8, <1>9 DEF RichInv, Rows, OneAtWork

LEMMA NextKeeps == RichInv /\ [Next]_vars => RichInv'
<1> SUFFICES ASSUME RichInv, [Next]_vars
             PROVE  RichInv'
  OBVIOUS
<1>1. CASE UNCHANGED vars
  <2>1. DeactivationTypeOK' /\ Quiet /\ ChannelMoves
    BY <1>1 DEF vars, RichInv, DeactivationTypeOK, TypeOK, Quiet, ChannelMoves
  <2> QED
    BY <1>1, <2>1, ChannelStep DEF vars
<1>2. CASE World /\ UNCHANGED task
  <2>1. CASE EditChannel \/ GetState
    BY <1>2, <2>1, WorldQuiet
  <2>2. ASSUME NEW m \in {None, External}, ChangeDefault(m)
        PROVE  RichInv'
    BY <1>2, <2>2, DefaultChanges
  <2>3. ASSUME NEW c \in Calls, NEW o \in Ops, Arrive(c, o)
        PROVE  RichInv'
    BY <1>2, <2>3, ArrivalKeeps
  <2> QED
    BY <1>2, <2>1, <2>2, <2>3 DEF World
<1>3. ASSUME NEW w \in Workers, task[w] = NoTask, Request(w), UNCHANGED task
      PROVE  RichInv'
  BY <1>3, RequestKeeps
<1>4. ASSUME NEW w \in Workers, Work(w), UNCHANGED task
      PROVE  RichInv'
  BY <1>4, WorkKeeps
<1>5. ASSUME NEW w \in Workers, NEW o \in Ops,
             Deactivate(w, o) \/ RecheckDeactivation(w, o)
      PROVE  RichInv'
  BY <1>5, DeactivateKeeps, RecheckDeactivationKeeps
<1>6. ASSUME NEW w \in Workers, Coordinate(w)
      PROVE  RichInv'
  BY <1>6, AssessLookKeeps, DecideKeeps, CompleteInactiveKeeps, SaveResultKeeps,
     NotStoredKeeps, RecordStaleKeeps, ReserveUnlinkKeeps, UnlinkLookKeeps, ReturnedKeeps
  DEF Coordinate
<1>7. ASSUME NEW w \in Workers, Die(w)
      PROVE  RichInv'
  BY <1>7, DieKeeps
<1>8. CASE Reactivate \/ SwitchOff
  BY <1>8, ChannelSwitches
<1> QED
  BY <1>1, <1>2, <1>3, <1>4, <1>5, <1>6, <1>7, <1>8 DEF Next

(* The inductive invariant: rows, LINE, requests and coordinators agree, in *)
(* any number of operations, requests and revisions.                        *)
THEOREM RichMenusIsInvariant == Spec => []RichInv
BY RichInvAtFirst, NextKeeps, PTL DEF Spec

(* Every row, every request and every coordinator stays within its type.    *)
THEOREM DeactivationTypes == Spec => []DeactivationTypeOK
<1>1. RichInv => DeactivationTypeOK
  BY DEF RichInv
<1> QED
  BY <1>1, RichMenusIsInvariant, PTL

(* An operation runs exactly when it is the active one, and what was left   *)
(* unknown or to be cleaned up blocks the channel, or is the subject of a   *)
(* recovery left so (linerichmenus/repository.py, active_operation and      *)
(* blocking_operation).                                                     *)
THEOREM NothingUnresolvedEscapes == Spec => []UnresolvedBlocks
<1>1. RichInv => UnresolvedBlocks
  BY DEF RichInv, Rows, ActiveOK, BlockingOK, UnresolvedBlocks
<1> QED
  BY <1>1, RichMenusIsInvariant, PTL

(* One menu at most is applied, the one the channel names, and only after   *)
(* LINE has shown it (complete_apply and complete_apply_recovery).          *)
THEOREM AppliedMenusWereShown == Spec => []AppliedWasShown
<1>1. RichInv => AppliedWasShown
  BY DEF RichInv, Rows, CurrentOK, MenuOK, AppliedWasShown
<1> QED
  BY <1>1, RichMenusIsInvariant, PTL

(* Every menu LINE holds for us has a row that takes care of it: none is    *)
(* marked deleted, and a candidate's operation is running or unresolved.    *)
THEOREM NoMenuIsForgotten == Spec => []NoMenuForgotten
<1>1. RichInv => NoMenuForgotten
  <2> SUFFICES ASSUME RichInv, NEW m \in line.menus
               PROVE  /\ menus[m].life \notin {"absent", "deleted"}
                      /\ menus[m].life = "candidate" =>
                           ops[m].status \in InProgress \cup {"unknown"}
    BY DEF NoMenuForgotten
  <2>1. m \in Ops
    BY DEF RichInv, DeactivationTypeOK, TypeOK
  <2>2. MenuOK(m)
    BY <2>1 DEF RichInv, Rows
  <2> QED
    BY <2>2 DEF MenuOK, NoTrace, Applying
<1> QED
  BY <1>1, RichMenusIsInvariant, PTL

-----------------------------------------------------------------------------
(* What a step may never do                                                 *)

LEMMA AskedKeepsMenus ==
  ASSUME RichInv, NEW call \in {"create", "upload", "set", "clear"}, NEW m \in Ops,
         NEW answer \in {"accepted", "rejected", "unknown"}, Asked(call, m, answer)
  PROVE  line.menus \subseteq line'.menus
BY AskedIs DEF RichInv, Performed, PerformedAs, Underway

\* LINE loses a menu only when it is asked to, at once or late.
LEMMA WhoDeletes ==
  ASSUME RichInv, Next
  PROVE  \/ line.menus \subseteq line'.menus
         \/ \E m \in Ops : Arrive("delete", m)
         \/ \E w \in Workers : DeleteMenu(w)
<1>0. DeactivationTypeOK
  BY DEF RichInv
<1>1. CASE World
  <2>1. CASE EditChannel \/ GetState
    BY <2>1 DEF EditChannel, GetState
  <2>2. ASSUME NEW m \in {None, External}, ChangeDefault(m)
        PROVE  line'.menus = line.menus
    BY <1>0, <2>2 DEF ChangeDefault, DeactivationTypeOK, TypeOK
  <2>3. ASSUME NEW c \in Calls, NEW o \in Ops, Arrive(c, o), c # "delete"
        PROVE  line.menus \subseteq line'.menus
    BY <1>0, <2>3, ArrivalIs DEF Calls
  <2> QED
    BY <1>1, <2>1, <2>2, <2>3 DEF World
<1>2. ASSUME NEW w \in Workers, Request(w)
      PROVE  line' = line
  BY <1>2 DEF Request, StartApply, StartUnlink, StartRelease, StartRecheck, StartCleanup
<1>3. ASSUME NEW w \in Workers, Work(w), ~DeleteMenu(w)
      PROVE  line.menus \subseteq line'.menus
  <2>1. ASSUME NEW stage, NEW call \in {"create", "upload", "set", "clear"}, NEW m \in Ops,
               NEW refused, CallLine(w, stage, call, m, refused)
        PROVE  line.menus \subseteq line'.menus
    <3>1. PICK a \in {"accepted", "rejected", "unknown"} : Asked(call, m, a)
      BY <2>1 DEF CallLine
    <3> QED
      BY <3>1, AskedKeepsMenus
  <2>2. CASE CreateMenu(w) \/ UploadImage(w) \/ ClearDefault(w)
    <3>1. Working(w) /\ job[w].op \in Ops
      BY <2>2, AtWorkAlone DEF CreateMenu, UploadImage, ClearDefault, Working
    <3>2. ClearDefault(w) => job[w].target \in Ops
      BY <3>1, KindOfPoint, WorkedOn DEF ClearDefault, Target
    <3> QED
      BY <2>1, <2>2, <3>1, <3>2 DEF CreateMenu, UploadImage, ClearDefault
  <2>3. CASE SetDefault(w)
    <3>1. job[w].op \in Ops
      BY <2>3, AtWorkAlone DEF SetDefault, Working
    <3> QED
      BY <2>1, <2>3, <3>1 DEF SetDefault
  <2>4. CASE Accept(w) \/ AcceptRecovery(w) \/ Refuse(w) \/ LookBeforeSet(w) \/ SkipClear(w)
             \/ LookAfter(w) \/ ReleaseMenu(w) \/ Settle(w)
    BY <2>4 DEF Accept, AcceptRecovery, Refuse, LookBeforeSet, SkipClear, LookAfter,
                ReleaseMenu, Settle
  <2>5. CASE CompleteStale(w) \/ CompleteRefused(w) \/ CompleteStage(w)
    BY <2>5 DEF CompleteStale, CompleteRefused, CompleteStage
  <2>6. CASE RecheckLook(w) \/ KeepFound(w) \/ Handoff(w) \/ RecoverApply(w)
             \/ CompleteRecovery(w) \/ LookBeforeDelete(w) \/ MarkDeleted(w) \/ FinishCleanup(w)
    BY <2>6 DEF RecheckLook, KeepFound, Handoff, RecoverApply, CompleteRecovery,
                LookBeforeDelete, MarkDeleted, FinishCleanup
  <2> QED
    BY <1>3, <2>2, <2>3, <2>4, <2>5, <2>6 DEF Work
<1>4. ASSUME NEW w \in Workers, NEW o \in Ops,
             Deactivate(w, o) \/ RecheckDeactivation(w, o)
      PROVE  line' = line
  BY <1>4 DEF Deactivate, RecheckDeactivation, rich
<1>5. ASSUME NEW w \in Workers, Coordinate(w) \/ Die(w)
      PROVE  line' = line
  BY <1>5 DEF Coordinate, Die, AssessLook, Decide, CompleteInactive, SaveResult, NotStored,
              RecordStale, ReserveUnlink, UnlinkLook, Returned, rich
<1>6. CASE Reactivate \/ SwitchOff
  BY <1>6 DEF Reactivate, SwitchOff
<1> QED
  BY <1>1, <1>2, <1>3, <1>4, <1>5, <1>6 DEF Next

(* A menu disappears from LINE only while it is not the default, and only   *)
(* one whose row awaits its cleanup, however late the deletion arrives.     *)
THEOREM NothingShownIsEverDeleted == Spec => NothingShownIsDeleted
<1>1. RichInv /\ [Next]_vars => DeleteStep
  <2> SUFFICES ASSUME RichInv, [Next]_vars, NEW m \in line.menus \ line'.menus
               PROVE  line.default # m /\ menus[m].life \in {"old", "cleanup_required"}
    BY DEF DeleteStep
  <2>1. Next
    BY DEF vars
  <2>2. m \in Ops /\ DeactivationTypeOK
    BY DEF RichInv, DeactivationTypeOK, TypeOK
  <2>3. ASSUME NEW n \in Ops, Arrive("delete", n)
        PROVE  line.default # m /\ menus[m].life \in {"old", "cleanup_required"}
    <3>1. Coming("delete", n) /\ line'.menus = line.menus \ {n}
      BY <2>2, <2>3, ArrivalIs DEF Calls
    <3>2. n = m /\ MenuOK(m)
      BY <2>2, <3>1 DEF RichInv, Rows
    <3> QED
      BY <3>1, <3>2 DEF MenuOK
  <2>4. ASSUME NEW w \in Workers, DeleteMenu(w)
        PROVE  line.default # m /\ menus[m].life \in {"old", "cleanup_required"}
    <3>1. Working(w) /\ job[w].pc = "delete"
      BY <2>4 DEF DeleteMenu, Working
    <3>2. job[w].kind = "cleanup" /\ CleanupAt(job[w])
      BY <3>1, KindOfPoint
    <3>3. job[w].kind \in Recoveries
      BY <3>2 DEF Recoveries
    <3>4. PICK n \in Ops : job[w].target = n
      BY <3>1, <3>2, <3>3, RecoveryFacts DEF Target
    <3>5. PICK a \in {"accepted", "rejected", "unknown"} : Asked("delete", n, a)
      BY <2>4, <3>4 DEF DeleteMenu
    <3>6. n = m
      BY <2>2, <3>5, AskedIs DEF SameAtLine
    <3> QED
      BY <3>1, <3>2, <3>4, <3>6 DEF CleanupAt
  <2> QED
    BY <2>1, <2>3, <2>4, WhoDeletes
<1> QED
  BY <1>1, RichMenusIsInvariant, PTL DEF Spec, NothingShownIsDeleted

\* The deactivation completes in one action only.
LEMMA WhoCompletes ==
  ASSUME RichInv, Next, intent'.status = "completed", intent.status # "completed"
  PROVE  \E w \in Workers : CompleteInactive(w)
<1>0. intent \in Intent
  BY DEF RichInv, DeactivationTypeOK, TypeOK
<1>1. CASE World
  BY <1>1 DEF World, EditChannel, GetState, ChangeDefault, Arrive
<1>2. ASSUME NEW w \in Workers, Request(w)
      PROVE  FALSE
  BY <1>2 DEF Request, StartApply, StartUnlink, StartRelease, StartRecheck, StartCleanup
<1>3. ASSUME NEW w \in Workers, Work(w)
      PROVE  FALSE
  <2>1. CASE Accept(w) \/ AcceptRecovery(w) \/ Refuse(w) \/ LookBeforeSet(w) \/ SkipClear(w)
             \/ LookAfter(w) \/ ReleaseMenu(w) \/ Settle(w)
    BY <2>1 DEF Accept, AcceptRecovery, Refuse, LookBeforeSet, SkipClear, LookAfter,
                ReleaseMenu, Settle
  <2>2. CASE CompleteStale(w) \/ CompleteRefused(w) \/ CompleteStage(w)
    BY <2>2 DEF CompleteStale, CompleteRefused, CompleteStage
  <2>3. CASE RecheckLook(w) \/ KeepFound(w) \/ Handoff(w) \/ RecoverApply(w)
             \/ CompleteRecovery(w) \/ LookBeforeDelete(w) \/ MarkDeleted(w) \/ FinishCleanup(w)
    BY <2>3 DEF RecheckLook, KeepFound, Handoff, RecoverApply, CompleteRecovery,
                LookBeforeDelete, MarkDeleted, FinishCleanup
  <2>4. CASE CreateMenu(w) \/ UploadImage(w) \/ SetDefault(w) \/ ClearDefault(w) \/ DeleteMenu(w)
    BY <2>4 DEF CreateMenu, UploadImage, SetDefault, ClearDefault, CallLine, DeleteMenu
  <2> QED
    BY <1>3, <2>1, <2>2, <2>3, <2>4 DEF Work
<1>4. ASSUME NEW w \in Workers, NEW o \in Ops,
             Deactivate(w, o) \/ RecheckDeactivation(w, o)
      PROVE  FALSE
  <2>1. CASE Deactivate(w, o)
    <3>1. intent' = [NoIntent EXCEPT !.status = "checking", !.op = o, !.expected = channel.rev]
      BY <2>1 DEF Deactivate
    <3> QED
      BY <3>1 DEF NoIntent
  <2>2. CASE RecheckDeactivation(w, o)
    <3>1. intent' = [intent EXCEPT !.expected = channel.rev, !.recovery = o, !.ready = FALSE]
      BY <2>2 DEF RecheckDeactivation
    <3> QED
      BY <1>0, <3>1 DEF Intent
  <2> QED
    BY <1>4, <2>1, <2>2
<1>5. ASSUME NEW w \in Workers, Coordinate(w) \/ Die(w), ~CompleteInactive(w)
      PROVE  FALSE
  <2>1. CASE SaveResult(w)
    <3>1. intent' = [intent EXCEPT !.status = "confirmation_required",
             !.reason = task[w].reason, !.subject = task[w].subject,
             !.ready = @ \/ task[w].recovery # None]
      BY <2>1 DEF SaveResult
    <3> QED
      BY <1>0, <3>1 DEF Intent
  <2>2. CASE RecordStale(w)
    BY <1>0, <2>2 DEF RecordStale, Intent
  <2> QED
    BY <1>5, <2>1, <2>2 DEF Coordinate, Die, AssessLook, Decide, NotStored, ReserveUnlink,
                            UnlinkLook, Returned, rich
<1>6. CASE Reactivate \/ SwitchOff
  BY <1>6 DEF Reactivate, SwitchOff
<1> QED
  BY <1>1, <1>2, <1>3, <1>4, <1>5, <1>6 DEF Next

(* When the deactivation switches the channel off nothing runs or blocks,   *)
(* no menu is applied or awaits its cleanup and LINE shows none of ours,    *)
(* although the coordinator read all of that several transactions earlier.  *)
THEOREM CompletionIsAlwaysClear == Spec => CompletionIsClear
<1>1. RichInv /\ [Next]_vars => CompletionStep
  <2> SUFFICES ASSUME RichInv, [Next]_vars, intent'.status = "completed",
                      intent.status # "completed"
               PROVE  NothingLeft
    BY DEF CompletionStep, NothingLeft
  <2>1. Next
    BY DEF vars
  <2>2. PICK w \in Workers : CompleteInactive(w)
    BY <2>1, WhoCompletes
  <2>3. InForce(w) /\ TaskOK(w) /\ task[w].pc = "complete"
    BY <2>2 DEF CompleteInactive, Mine, UpToDate, InForce, RichInv
  <2> QED
    BY <2>3 DEF TaskOK
<1> QED
  BY <1>1, RichMenusIsInvariant, PTL DEF Spec, CompletionIsClear

=============================================================================
