------------------------- MODULE InteractionsProofs -------------------------
(***************************************************************************)
(* The interaction handler keeps its promises (module Interactions), for    *)
(* any number of requests, events and batches, and whatever LINE and the    *)
(* database do: it is a handler the ingress counts on, an event has one     *)
(* effect, and the audit tells the truth.                                   *)
(*                                                                         *)
(* Its steps are steps of the ingress, so the ingress's invariant, proved   *)
(* in WebhookProofs, holds here too: an event is in the hands of one        *)
(* request, once.  On top of that the handler's call is described by what   *)
(* it has done so far, and an event not in hand by what was not.            *)
(***************************************************************************)
EXTENDS Interactions, FiniteSetTheorems, TLAPS

IngressProofs == INSTANCE WebhookProofs

(* Nothing was done for an event, and nothing is on record of it.           *)
Untouched(e) == audits[e] = NoRow /\ calls[e] = <<>>

(* What an audit row claims is true of the calls that were made.            *)
Truthful(row, made) ==
  LET did == \E i \in DOMAIN made : made[i].happened IN
  /\ row.reply = "accepted" \/ row.outcome = "action_succeeded" => did
  /\ row.reply # "not_started" => made # <<>>
  /\ row.outcome = "action_declined" => ~did
  /\ row.outcome \in {"no_op", "credential_unavailable", "deadline_exceeded"}
       => made = <<>>
  /\ \A i \in DOMAIN made : row.kind = made[i].kind

(* The time a reply may add to what the handler spends of its own.          *)
Extra(r) == Ingress!Allowance(Event(r), req[r].at, Pending(r)) - LocalReserve

(* What a handler call j has done and what the time allows it, by its phase, *)
(* with row on record and made the calls for its event.                     *)
Starting(r, j, row, made) ==
  j.phase \in {"none", "reserving"} =>
    /\ j = [NoJob EXCEPT !.phase = j.phase] /\ row = NoRow /\ made = <<>>
    /\ j.phase = "reserving" => Event(r) \in ExternalEvents

Prepared(r, j, row, made) ==
  j.phase \in {"credential", "replying", "acting"} =>
    /\ Event(r) \in IF j.phase = "acting" THEN Postbacks ELSE Messages
    /\ j.reserved /\ j.row = Fallback(r) /\ row = Fallback(r) /\ made = <<>>

Ending(r, j, row, made) ==
  j.phase = "finishing" =>
    /\ Event(r) \in ExternalEvents
    /\ IF j.reserved
       THEN row = Fallback(r) /\ Truthful(j.row, made)
       ELSE /\ row = NoRow /\ made = <<>>
            /\ j.row \in PutAside(Event(r))

InTime(r, j) ==
  /\ j.local <= LocalReserve + MaxOverrun
  /\ j.phase # "finishing" => j.spent = j.local
  /\ j.phase = "replying" => j.budget <= Extra(r)
  /\ j.phase = "finishing" => j.spent <= j.local + Extra(r)

Fits(r, j, row, made) ==
  /\ Starting(r, j, row, made) /\ Prepared(r, j, row, made)
  /\ Ending(r, j, row, made) /\ InTime(r, j)

JobOK(r) ==
  IF req[r].pc = "handling"
  THEN req[r].todo # {} /\ Fits(r, job[r], audits[Event(r)], calls[Event(r)])
  ELSE job[r] = NoJob

(* Of what a request still has to dispatch only the event it is at may have *)
(* been touched, by the handler call that is under way or has just returned.*)
InHand(r) ==
  \/ req[r].pc = "handling" /\ job[r].phase \notin {"none", "reserving"}
  \/ req[r].pc = "finalizing" /\ req[r].verdict # "dispatch_deadline_exceeded"

PendingOK(r) ==
  Ingress!Dispatching(r) =>
    \A i \in req[r].todo :
      ~Untouched(req[r].batch[i]) => Ingress!Foremost(req[r].todo, i) /\ InHand(r)

(* What was never handed over is untouched.                                 *)
RestIsUntouched ==
  \A e \in Events :
    \/ receipts[e].status \in {"absent", "unsupported"}
    \/ receipts[e].code = "dispatch_deadline_exceeded"
    => Untouched(e)

(* A call that succeeded left a success on record.                          *)
SuccessIsOnRecord ==
  \A x \in runs : x.ok /\ x.event \in ExternalEvents => Good(audits[x.event])

(* Each event's row is true, of one call at most.                           *)
EffectsOK == \A e \in Events : Truthful(audits[e], calls[e]) /\ Len(calls[e]) <= 1

HandlerTypes ==
  /\ job \in [Requests -> Job]
  /\ audits \in [Events -> Audit]
  /\ calls \in [Events -> Seq(Call)]

HandlerInv ==
  /\ HandlerTypes
  /\ \A r \in Requests : JobOK(r) /\ PendingOK(r)
  /\ RestIsUntouched /\ SuccessIsOnRecord /\ EffectsOK

InteractionsInv == Ingress!IngressInv /\ HandlerInv

-----------------------------------------------------------------------------
(* The ingress, as its own proofs know it *)

LEMMA SameCounts ==
  /\ \A S : IngressProofs!Cardinality(S) = Cardinality(S)
            /\ Ingress!Cardinality(S) = Cardinality(S)
  /\ \A S : IngressProofs!IsFiniteSet(S) = IsFiniteSet(S)
            /\ Ingress!IsFiniteSet(S) = IsFiniteSet(S)
<1>1. \A S : IngressProofs!IsFiniteSet(S) = IsFiniteSet(S)
             /\ Ingress!IsFiniteSet(S) = IsFiniteSet(S)
  BY Zenon DEF IngressProofs!IsFiniteSet, Ingress!IsFiniteSet, IsFiniteSet
<1>2. \A S : IngressProofs!Cardinality(S) = Cardinality(S)
             /\ Ingress!Cardinality(S) = Cardinality(S)
  BY Zenon DEF IngressProofs!Cardinality, Ingress!Cardinality, Cardinality
<1> QED
  BY <1>1, <1>2

LEMMA SameTimes ==
  /\ \A n : IngressProofs!Reserve(n) = Ingress!Reserve(n)
  /\ \A e, t, n : IngressProofs!Allowance(e, t, n) = Ingress!Allowance(e, t, n)
<1>1. \A n : IngressProofs!Reserve(n) = Ingress!Reserve(n)
  BY Zenon DEF IngressProofs!Reserve, Ingress!Reserve
<1>2. \A n : IngressProofs!Cutoff(n) = Ingress!Cutoff(n)
  BY <1>1, Zenon DEF IngressProofs!Cutoff, Ingress!Cutoff
<1>3. \A e, t, n : IngressProofs!Allowance(e, t, n) = Ingress!Allowance(e, t, n)
  BY <1>2, Zenon DEF IngressProofs!Allowance, Ingress!Allowance
<1> QED
  BY <1>1, <1>3

LEMMA SameInvariant == IngressProofs!IngressInv <=> Ingress!IngressInv
<1>1. IngressProofs!TypeOK <=> Ingress!TypeOK
  BY DEF IngressProofs!TypeOK, IngressProofs!Pcs, IngressProofs!Receipt,
       IngressProofs!Replies, IngressProofs!Request, IngressProofs!Run,
       IngressProofs!Statuses, IngressProofs!Verdicts, Ingress!TypeOK, Ingress!Pcs,
       Ingress!Receipt, Ingress!Replies, Ingress!Request, Ingress!Run, Ingress!Statuses,
       Ingress!Verdicts
<1>2. IngressProofs!HandledAtMostOnce <=> Ingress!HandledAtMostOnce
  BY DEF IngressProofs!HandledAtMostOnce, Ingress!HandledAtMostOnce
<1>3. IngressProofs!ReceiptsTellTheTruth <=> Ingress!ReceiptsTellTheTruth
  BY DEF IngressProofs!ReceiptsTellTheTruth, Ingress!ReceiptsTellTheTruth
<1>4. IngressProofs!AcceptedIsSettled <=> Ingress!AcceptedIsSettled
  BY DEF IngressProofs!AcceptedIsSettled, IngressProofs!Recorded,
       Ingress!AcceptedIsSettled, Ingress!Recorded
<1>5. IngressProofs!AnsweredInTime <=> Ingress!AnsweredInTime
  BY DEF IngressProofs!AnsweredInTime, Ingress!AnsweredInTime
<1>6. IngressProofs!TodoIsOwned <=> Ingress!TodoIsOwned
  BY DEF IngressProofs!TodoIsOwned, IngressProofs!Dispatching, IngressProofs!Foremost,
       IngressProofs!Handled, Ingress!TodoIsOwned, Ingress!Dispatching,
       Ingress!Foremost, Ingress!Handled
<1>7. IngressProofs!VerdictsAreTrue <=> Ingress!VerdictsAreTrue
  BY DEF IngressProofs!VerdictsAreTrue, IngressProofs!Foremost, Ingress!VerdictsAreTrue,
       Ingress!Foremost
<1>8. IngressProofs!RowsAreValid <=> Ingress!RowsAreValid
  BY DEF IngressProofs!RowsAreValid, IngressProofs!Absent, IngressProofs!Recorded,
       Ingress!RowsAreValid, Ingress!Absent, Ingress!Recorded
<1>9. IngressProofs!OpenIsPending <=> Ingress!OpenIsPending
  BY DEF IngressProofs!OpenIsPending, IngressProofs!Dispatching, IngressProofs!Recorded,
       Ingress!OpenIsPending, Ingress!Dispatching, Ingress!Recorded
<1>10. IngressProofs!TimeIsKept <=> Ingress!TimeIsKept
  BY SameCounts, SameTimes DEF IngressProofs!TimeIsKept, IngressProofs!Dispatching,
       Ingress!TimeIsKept, Ingress!Dispatching
<1>11. IngressProofs!Unanswered <=> Ingress!Unanswered
  BY DEF IngressProofs!Unanswered, Ingress!Unanswered
<1> QED
  BY <1>1, <1>2, <1>3, <1>4, <1>5, <1>6, <1>7, <1>8, <1>9, <1>10, <1>11
     DEF IngressProofs!IngressInv, Ingress!IngressInv

LEMMA SameSteps == IngressProofs!Next <=> Ingress!Next
<1>1. IngressProofs!Switch <=> Ingress!Switch
  BY DEF IngressProofs!Switch, Ingress!Switch
<1>2. ASSUME NEW r \in Requests
      PROVE  IngressProofs!Accept(r) <=> Ingress!Accept(r)
  <2> DEFINE b == req[r].batch
  <2>1. IngressProofs!Dispatchable(b) = Ingress!Dispatchable(b)
    BY DEF IngressProofs!Dispatchable, IngressProofs!First, IngressProofs!Recorded,
           IngressProofs!Supported, Ingress!Dispatchable, Ingress!First,
           Ingress!Recorded, Ingress!Supported
  <2>2. IngressProofs!Recording(r, b) = Ingress!Recording(r, b)
    BY DEF IngressProofs!Recording, IngressProofs!Recorded, IngressProofs!Supported,
           Ingress!Recording, Ingress!Recorded, Ingress!Supported
  <2>3. IngressProofs!Cardinality(Ingress!Dispatchable(b))
        = Ingress!Cardinality(Ingress!Dispatchable(b))
    BY SameCounts
  <2>4. IngressProofs!Answer(r, "storage_unavailable")
        <=> Ingress!Answer(r, "storage_unavailable")
    BY DEF IngressProofs!Answer, Ingress!Answer
  <2> QED
    BY <2>1, <2>2, <2>3, <2>4, Zenon DEF IngressProofs!Accept, Ingress!Accept
<1>3. \A r \in Requests : IngressProofs!Dispatch(r) <=> Ingress!Dispatch(r)
  BY SameCounts, SameTimes DEF IngressProofs!Dispatch, IngressProofs!OutOfTime,
       Ingress!Dispatch, Ingress!OutOfTime
<1>4. \A r \in Requests : IngressProofs!Finalize(r) <=> Ingress!Finalize(r)
  BY DEF IngressProofs!Finalize, IngressProofs!Foremost, IngressProofs!Settle,
       IngressProofs!Settled, Ingress!Finalize, Ingress!Foremost, Ingress!Settle,
       Ingress!Settled
<1>5. \A r \in Requests : IngressProofs!Respond(r) <=> Ingress!Respond(r)
  BY DEF IngressProofs!Respond, IngressProofs!Answer, IngressProofs!Result,
       Ingress!Respond, Ingress!Answer, Ingress!Result
<1>6. \A r \in Requests : IngressProofs!Crash(r) <=> Ingress!Crash(r)
  BY DEF IngressProofs!Crash, IngressProofs!Answer, Ingress!Crash, Ingress!Answer
<1>7. ASSUME NEW r \in Requests
      PROVE  IngressProofs!Handle(r) <=> Ingress!Handle(r)
  <2> DEFINE n == Ingress!Cardinality(req[r].todo)
  <2>1. IngressProofs!Cardinality(req[r].todo) = n
    BY SameCounts
  <2>2. ASSUME NEW e, NEW t
        PROVE  IngressProofs!Allowance(e, t, n) = Ingress!Allowance(e, t, n)
    BY SameTimes
  <2>3. ASSUME NEW i
        PROVE  IngressProofs!Foremost(req[r].todo, i) <=> Ingress!Foremost(req[r].todo, i)
    BY DEF IngressProofs!Foremost, Ingress!Foremost
  <2> QED
    BY <2>1, <2>2, <2>3, Zenon DEF IngressProofs!Handle, Ingress!Handle
<1>8. \A r \in Requests, b \in Batches :
        IngressProofs!Receive(r, b) <=> Ingress!Receive(r, b)
  BY DEF IngressProofs!Receive, IngressProofs!Answer, Ingress!Receive, Ingress!Answer
<1> QED
  BY <1>1, <1>2, <1>3, <1>4, <1>5, <1>6, <1>7, <1>8
     DEF IngressProofs!Next, Ingress!Next, IngressProofs!Ingest, Ingress!Ingest

(* Every step of the ingress keeps its invariant (WebhookProofs).           *)
LEMMA IngressKept ==
  ASSUME Ingress!IngressInv, Ingress!Next \/ UNCHANGED ingressVars
  PROVE  Ingress!IngressInv'
<1>1. IngressProofs!IngressInv /\ [IngressProofs!Next]_IngressProofs!vars
  BY SameInvariant, SameSteps DEF IngressProofs!vars, ingressVars
<1>2. IngressProofs!IngressInv'
  BY <1>1, IngressProofs!NextIngress, InteractionAssumption
<1>3. (IngressProofs!IngressInv <=> Ingress!IngressInv)'
  BY SameInvariant, PTL
<1> QED
  BY <1>2, <1>3

-----------------------------------------------------------------------------
(* What the ingress says of a request and its events *)

LEMMA RequestFacts ==
  ASSUME Ingress!IngressInv, NEW r \in Requests
  PROVE  /\ req \in [Requests -> Ingress!Request] /\ req[r] \in Ingress!Request
         /\ req[r].todo \in SUBSET Nat /\ req[r].at \in Nat
         /\ req[r].batch \in Seq(Events)
         /\ receipts \in [Events -> Ingress!Receipt]
         /\ runs \subseteq Ingress!Run /\ active \in BOOLEAN
<1>1. /\ req \in [Requests -> Ingress!Request] /\ receipts \in [Events -> Ingress!Receipt]
      /\ runs \subseteq Ingress!Run /\ active \in BOOLEAN
  BY DEF Ingress!IngressInv, Ingress!TypeOK
<1>2. PICK x \in Ingress!Request : x = req[r]
  BY <1>1
<1>3. x.todo \in SUBSET Nat /\ x.at \in Nat /\ x.batch \in Seq(Events)
  BY DEF Ingress!Request
<1> QED
  BY <1>1, <1>2, <1>3

(* The event at a position still to be dispatched is in the hands of this   *)
(* request alone, and at this position alone.                               *)
LEMMA OneRequestPerEvent ==
  ASSUME Ingress!IngressInv, NEW r \in Requests, Ingress!Dispatching(r),
         NEW i \in req[r].todo
  PROVE  /\ i \in Nat /\ i \in DOMAIN req[r].batch /\ req[r].batch[i] \in Events
         /\ receipts[req[r].batch[i]].status = "processing"
         /\ receipts[req[r].batch[i]].code \notin
              {"handler_failed", "dispatch_deadline_exceeded"}
         /\ \A j \in req[r].todo : req[r].batch[j] = req[r].batch[i] => i = j
         /\ \A s \in Requests \ {r} : Ingress!Dispatching(s) =>
              \A j \in req[s].todo : req[s].batch[j] # req[r].batch[i]
         /\ req[r].pc # "finalizing" => \A x \in runs : x.event # req[r].batch[i]
<1>1. i \in DOMAIN req[r].batch /\ i \in Nat /\ req[r].batch[i] \in Events
  <2>1. i \in DOMAIN req[r].batch
    BY DEF Ingress!IngressInv, Ingress!TodoIsOwned
  <2> QED
    BY <2>1, RequestFacts
<1>2. /\ receipts[req[r].batch[i]].status = "processing"
      /\ receipts[req[r].batch[i]].creator = r
      /\ \A j \in req[r].todo : req[r].batch[j] = req[r].batch[i] => i = j
      /\ req[r].pc # "finalizing" => \A x \in runs : x.event # req[r].batch[i]
  BY DEF Ingress!IngressInv, Ingress!TodoIsOwned, Ingress!Handled
<1>3. receipts[req[r].batch[i]].code \notin
        {"handler_failed", "dispatch_deadline_exceeded"}
  BY <1>1, <1>2 DEF Ingress!IngressInv, Ingress!RowsAreValid
<1>4. \A s \in Requests \ {r} : Ingress!Dispatching(s) =>
        \A j \in req[s].todo : req[s].batch[j] # req[r].batch[i]
  BY <1>2 DEF Ingress!IngressInv, Ingress!TodoIsOwned
<1> QED
  BY <1>1, <1>2, <1>3, <1>4

(* The event a request is at is the one at its foremost position.           *)
LEMMA AtEvent ==
  ASSUME Ingress!IngressInv, NEW r \in Requests, Ingress!Dispatching(r),
         req[r].todo # {}
  PROVE  /\ Position(r) \in req[r].todo /\ Position(r) \in Nat
         /\ Ingress!Foremost(req[r].todo, Position(r))
         /\ \A i : Ingress!Foremost(req[r].todo, i) => i = Position(r)
         /\ Event(r) = req[r].batch[Position(r)] /\ Event(r) \in Events
         /\ \A i \in req[r].todo : req[r].batch[i] = Event(r) => i = Position(r)
<1>1. req[r].todo \in SUBSET Nat
  BY RequestFacts
<1>2. PICK i \in req[r].todo : \A j \in req[r].todo : i <= j
  BY <1>1, IngressProofs!LeastNatural, InteractionAssumption
<1>3. Ingress!Foremost(req[r].todo, i)
  BY <1>2 DEF Ingress!Foremost
<1>4. Position(r) \in req[r].todo /\ Ingress!Foremost(req[r].todo, Position(r))
  BY <1>3 DEF Position
<1>5. \A k : Ingress!Foremost(req[r].todo, k) => k = Position(r)
  BY <1>1, <1>4 DEF Ingress!Foremost
<1>6. Event(r) = req[r].batch[Position(r)]
  BY DEF Event
<1> QED
  BY <1>1, <1>4, <1>5, <1>6, OneRequestPerEvent

(* What a request is at depends on its record alone.                        *)
LEMMA SameJob ==
  ASSUME NEW r \in Requests, req'[r] = req[r]
  PROVE  /\ Event(r)' = Event(r) /\ Position(r)' = Position(r)
         /\ Ingress!Dispatching(r)' <=> Ingress!Dispatching(r)
         /\ JobOK(r)' <=>
              IF req[r].pc = "handling"
              THEN req[r].todo # {}
                   /\ Fits(r, job'[r], audits'[Event(r)], calls'[Event(r)])
              ELSE job'[r] = NoJob
<1>1. Position(r)' = Position(r)
  BY DEF Position, Ingress!Foremost
<1>2. Event(r)' = Event(r)
  BY <1>1 DEF Event
<1>3. Fallback(r)' = Fallback(r)
  BY <1>2 DEF Fallback
<1>4. Extra(r)' = Extra(r)
  BY <1>2 DEF Extra, Pending
<1>5. JobOK(r)' <=>
        IF req[r].pc = "handling"
        THEN req[r].todo # {}
             /\ Fits(r, job'[r], audits'[Event(r)], calls'[Event(r)])
        ELSE job'[r] = NoJob
  BY <1>2, <1>3, <1>4 DEF JobOK, Fits, Starting, Prepared, Ending, InTime
<1>6. Ingress!Dispatching(r)' <=> Ingress!Dispatching(r)
  BY DEF Ingress!Dispatching
<1> QED
  BY <1>1, <1>2, <1>5, <1>6

-----------------------------------------------------------------------------
(* What a step leaves alone *)

LEMMA EventsDiffer ==
  ASSUME Ingress!IngressInv, NEW r \in Requests, NEW s \in Requests, r # s,
         Ingress!Dispatching(r), req[r].todo # {}, Ingress!Dispatching(s)
  PROVE  /\ \A i \in req[s].todo : req[s].batch[i] # Event(r)
         /\ req[s].todo # {} => Event(s) # Event(r)
<1>1. Position(r) \in req[r].todo /\ Event(r) = req[r].batch[Position(r)]
  BY AtEvent
<1>2. \A i \in req[s].todo : req[s].batch[i] # Event(r)
  BY <1>1, OneRequestPerEvent
<1>3. req[s].todo # {} => Event(s) # Event(r)
  BY <1>2, AtEvent
<1> QED
  BY <1>2, <1>3

(* A request that did not move, and whose pending events were left alone,   *)
(* is as it was.                                                            *)
LEMMA OtherKeeps ==
  ASSUME InteractionsInv, NEW s \in Requests, req'[s] = req[s], job'[s] = job[s],
         Ingress!Dispatching(s) =>
           \A i \in req[s].todo :
             audits'[req[s].batch[i]] = audits[req[s].batch[i]]
             /\ calls'[req[s].batch[i]] = calls[req[s].batch[i]]
  PROVE  JobOK(s)' /\ PendingOK(s)'
<1>1. JobOK(s) /\ PendingOK(s)
  BY DEF InteractionsInv, HandlerInv
<1>2. JobOK(s)'
  <2>1. CASE req[s].pc = "handling"
    <3>1. Ingress!Dispatching(s) /\ req[s].todo # {}
      BY <1>1, <2>1 DEF JobOK, Ingress!Dispatching
    <3>2. audits'[Event(s)] = audits[Event(s)] /\ calls'[Event(s)] = calls[Event(s)]
      BY <3>1, AtEvent DEF InteractionsInv
    <3> QED
      BY <1>1, <2>1, <3>1, <3>2, SameJob DEF JobOK
  <2>2. CASE req[s].pc # "handling"
    BY <1>1, <2>2, SameJob DEF JobOK
  <2> QED
    BY <2>1, <2>2
<1>3. PendingOK(s)'
  BY <1>1 DEF PendingOK, Untouched, InHand, Ingress!Dispatching, Ingress!Foremost
<1> QED
  BY <1>2, <1>3

(* A step of the handler that does not return.                              *)
LEMMA CallGoesOn ==
  ASSUME InteractionsInv, NEW r \in Requests, req[r].pc = "handling",
         UNCHANGED ingressVars,
         NEW j \in Job, j.phase # "none", job' = [job EXCEPT ![r] = j],
         NEW row \in Audit, audits' = [audits EXCEPT ![Event(r)] = row],
         NEW made \in Seq(Call), calls' = [calls EXCEPT ![Event(r)] = made],
         Fits(r, j, row, made), Truthful(row, made), Len(made) <= 1
  PROVE  InteractionsInv'
<1>1. Ingress!IngressInv' /\ UNCHANGED <<active, receipts, req, runs>>
  BY IngressKept DEF InteractionsInv, ingressVars
<1>2. Ingress!Dispatching(r) /\ req[r].todo # {} /\ Ingress!IngressInv
  BY DEF InteractionsInv, HandlerInv, JobOK, Ingress!Dispatching
<1>3. /\ Position(r) \in req[r].todo /\ Ingress!Foremost(req[r].todo, Position(r))
      /\ Event(r) = req[r].batch[Position(r)] /\ Event(r) \in Events
      /\ \A i \in req[r].todo : req[r].batch[i] = Event(r) => i = Position(r)
  BY <1>2, AtEvent
<1>4. /\ HandlerTypes'
      /\ audits'[Event(r)] = row /\ calls'[Event(r)] = made /\ job'[r] = j
      /\ \A e \in Events \ {Event(r)} : audits'[e] = audits[e] /\ calls'[e] = calls[e]
      /\ \A s \in Requests \ {r} : job'[s] = job[s]
  BY <1>3 DEF InteractionsInv, HandlerInv, HandlerTypes
<1>5. JobOK(r)' /\ PendingOK(r)'
  <2>1. JobOK(r)'
    BY <1>1, <1>2, <1>4, SameJob
  <2>2. PendingOK(r)'
    <3> SUFFICES ASSUME NEW i \in req[r].todo, ~(Untouched(req[r].batch[i])')
                 PROVE  (Ingress!Foremost(req[r].todo, i) /\ InHand(r))'
      BY <1>1 DEF PendingOK, Ingress!Dispatching
    <3>1. req[r].batch[i] \in Events
      BY <1>2, OneRequestPerEvent
    <3>2. CASE i = Position(r)
      <4>1. j.phase # "reserving"
        BY <1>1, <1>3, <1>4, <3>2 DEF Fits, Starting, Untouched
      <4> QED
        BY <1>1, <1>3, <1>4, <3>2, <4>1 DEF InHand, Ingress!Foremost
    <3>3. CASE i # Position(r)
      <4>1. req[r].batch[i] # Event(r)
        BY <1>3, <3>3
      <4>2. ~Untouched(req[r].batch[i])
        BY <1>1, <1>4, <3>1, <4>1 DEF Untouched
      <4>3. Ingress!Foremost(req[r].todo, i)
        BY <1>2, <4>2 DEF InteractionsInv, HandlerInv, PendingOK
      <4> QED
        BY <1>2, <3>3, <4>3, AtEvent
    <3> QED
      BY <3>2, <3>3
  <2> QED
    BY <2>1, <2>2
<1>6. ASSUME NEW s \in Requests, s # r
      PROVE  JobOK(s)' /\ PendingOK(s)'
  <2>1. ASSUME Ingress!Dispatching(s), NEW i \in req[s].todo
        PROVE  audits'[req[s].batch[i]] = audits[req[s].batch[i]]
               /\ calls'[req[s].batch[i]] = calls[req[s].batch[i]]
    BY <1>2, <1>4, <1>6, <2>1, EventsDiffer, OneRequestPerEvent
  <2> QED
    BY <1>1, <1>4, <1>6, <2>1, OtherKeeps
<1>7. receipts[Event(r)].status = "processing"
      /\ receipts[Event(r)].code # "dispatch_deadline_exceeded"
      /\ \A x \in runs : x.event # Event(r)
  BY <1>2, <1>3, OneRequestPerEvent
<1>8. RestIsUntouched'
  BY <1>1, <1>4, <1>7 DEF InteractionsInv, HandlerInv, RestIsUntouched, Untouched
<1>9. SuccessIsOnRecord'
  <2>1. \A x \in runs : x.event \in Events
    BY <1>2, RequestFacts DEF Ingress!Run
  <2> QED
    BY <1>1, <1>4, <1>7, <2>1 DEF InteractionsInv, HandlerInv, SuccessIsOnRecord
<1>10. EffectsOK'
  <2>1. \A e \in Events : Truthful(audits'[e], calls'[e]) /\ Len(calls'[e]) <= 1
    BY <1>4 DEF InteractionsInv, HandlerInv, EffectsOK
  <2> QED
    BY <2>1 DEF EffectsOK, Truthful
<1> QED
  BY <1>1, <1>4, <1>5, <1>6, <1>8, <1>9, <1>10 DEF InteractionsInv, HandlerInv

-----------------------------------------------------------------------------
(* The handler returns *)

(* What a reply may take is never negative, and never more than the ingress *)
(* counts on.                                                               *)
LEMMA ReplyFits ==
  ASSUME Ingress!IngressInv, NEW r \in Requests, Ingress!Dispatching(r),
         req[r].todo # {}
  PROVE  /\ Pending(r) \in Nat /\ Extra(r) \in Nat
         /\ Ingress!Cardinality(req[r].todo) = Pending(r)
         /\ Ingress!Allowance(Event(r), req[r].at, Pending(r))
              = LocalReserve + Extra(r)
         /\ Event(r) \in ExternalEvents /\ job[r].spent \in Nat /\ WorthReplying(r)
              => Remaining(r) \in 0..MaxReply /\ Remaining(r) <= Extra(r)
<1>1. Ingress!Cardinality(req[r].todo) = Pending(r) /\ IsFiniteSet(req[r].todo)
  BY SameCounts DEF Ingress!IngressInv, Ingress!TimeIsKept, Pending
<1>2. Pending(r) \in Nat
  BY <1>1, FS_CardinalityType DEF Pending
<1>3. req[r].at \in Nat
  BY RequestFacts
<1> DEFINE n == Pending(r)
           c == Ingress!Cutoff(n)
<1>4. c \in Int
  <2>1. Ingress!Reserve(n) \in Int
    BY <1>2, InteractionAssumption DEF Ingress!Reserve
  <2> QED
    BY <2>1, InteractionAssumption DEF Ingress!Cutoff
<1>5. /\ Extra(r) \in Nat
      /\ Ingress!Allowance(Event(r), req[r].at, n) = LocalReserve + Extra(r)
  BY <1>3, <1>4, InteractionAssumption DEF Extra, Ingress!Allowance
<1>6. ASSUME Event(r) \in ExternalEvents, job[r].spent \in Nat, WorthReplying(r)
      PROVE  Remaining(r) \in 0..MaxReply /\ Remaining(r) <= Extra(r)
  <2> DEFINE t == req[r].at
             p == job[r].spent
  <2>1. Remaining(r) = IF c - (t + p) < MaxReply THEN c - (t + p) ELSE MaxReply
    BY DEF Remaining
  <2>2. Extra(r) = (IF t + MinReply <= c
                    THEN LocalReserve + (IF t + MaxReply <= c THEN MaxReply ELSE c - t)
                    ELSE LocalReserve) - LocalReserve
    BY <1>6 DEF Extra, Ingress!Allowance
  <2>3. Remaining(r) >= MinReply
    BY <1>6 DEF WorthReplying
  <2>4. t \in Nat /\ p \in Nat /\ MinReply \in Nat /\ MaxReply \in Nat
        /\ LocalReserve \in Nat
    BY <1>3, <1>6, InteractionAssumption
  <2> HIDE DEF c, t, p
  <2> QED
    BY <1>4, <2>1, <2>2, <2>3, <2>4
<1> QED
  BY <1>1, <1>2, <1>5, <1>6

(* A return within the time is the step Handle of the ingress.              *)
LEMMA ReturnIsHandle ==
  ASSUME Ingress!IngressInv, NEW r \in Requests, req[r].pc = "handling",
         req[r].todo # {}, NEW ok \in BOOLEAN, NEW d \in Nat, job[r].spent \in Nat,
         job[r].spent + d <= LocalReserve + Extra(r) + MaxOverrun,
         Return(r, ok, d), UNCHANGED <<active, receipts>>
  PROVE  Ingress!Handle(r)
<1>1. Ingress!Dispatching(r)
  BY DEF Ingress!Dispatching
<1> DEFINE t == job[r].spent + d
<1>2. t \in 0..(Ingress!Allowance(req[r].batch[Position(r)], req[r].at,
                                 Ingress!Cardinality(req[r].todo)) + MaxOverrun)
  <2>1. Ingress!Allowance(req[r].batch[Position(r)], req[r].at,
                          Ingress!Cardinality(req[r].todo)) = LocalReserve + Extra(r)
        /\ Extra(r) \in Nat
    BY <1>1, ReplyFits, AtEvent
  <2> QED
    BY <2>1, InteractionAssumption
<1>3. req[r].at + job[r].spent + d = req[r].at + t
  BY RequestFacts
<1>4. req' = [req EXCEPT ![r].pc = "finalizing", ![r].at = @ + t,
                         ![r].verdict = IF ok THEN "succeeded" ELSE "handler_failed"]
  BY <1>3, Zenon DEF Return
<1>5. runs' = runs \cup {[request |-> r, position |-> Position(r),
                          event |-> req[r].batch[Position(r)], ok |-> ok]}
  BY <1>1, AtEvent DEF Return
<1>6. Position(r) \in req[r].todo /\ Ingress!Foremost(req[r].todo, Position(r))
  BY <1>1, AtEvent
<1> HIDE DEF t
<1> QED
  BY <1>2, <1>4, <1>5, <1>6, Zenon DEF Ingress!Handle

(* What the step Handle does to the request.                                *)
LEMMA AfterHandle ==
  ASSUME Ingress!IngressInv, NEW r \in Requests, Ingress!Handle(r)
  PROVE  /\ req[r].pc = "handling" /\ UNCHANGED <<active, receipts>>
         /\ \A s \in Requests \ {r} : req'[s] = req[s]
         /\ req'[r].pc = "finalizing" /\ req'[r].todo = req[r].todo
         /\ req'[r].batch = req[r].batch
         /\ req'[r].verdict \in {"succeeded", "handler_failed"}
         /\ \E ok \in BOOLEAN :
              runs' = runs \cup {[request |-> r, position |-> Position(r),
                                  event |-> Event(r), ok |-> ok]}
<1>1. req[r].pc = "handling" /\ UNCHANGED <<active, receipts>>
  BY DEF Ingress!Handle
<1>2. PICK i \in req[r].todo, ok \in BOOLEAN :
        /\ Ingress!Foremost(req[r].todo, i)
        /\ \E d : req' = [req EXCEPT ![r].pc = "finalizing", ![r].at = @ + d,
                            ![r].verdict = IF ok THEN "succeeded"
                                           ELSE "handler_failed"]
        /\ runs' = runs \cup {[request |-> r, position |-> i,
                               event |-> req[r].batch[i], ok |-> ok]}
  BY DEF Ingress!Handle
<1>3. Ingress!Dispatching(r)
  BY <1>1 DEF Ingress!Dispatching
<1>4. i = Position(r) /\ Event(r) = req[r].batch[i]
  BY <1>2, <1>3, AtEvent
<1>5. PICK d : req' = [req EXCEPT ![r] =
                 [[[@ EXCEPT !.pc = "finalizing"] EXCEPT !.at = req[r].at + d]
                   EXCEPT !.verdict = IF ok THEN "succeeded" ELSE "handler_failed"]]
  BY <1>2
<1>6. req \in [Requests -> Ingress!Request] /\ req[r] \in Ingress!Request
  BY RequestFacts
<1>7. /\ \A s \in Requests \ {r} : req'[s] = req[s]
      /\ req'[r] = [[[req[r] EXCEPT !.pc = "finalizing"] EXCEPT !.at = req[r].at + d]
                     EXCEPT !.verdict = IF ok THEN "succeeded" ELSE "handler_failed"]
  BY <1>5, <1>6
<1>8. /\ req'[r].pc = "finalizing" /\ req'[r].todo = req[r].todo
      /\ req'[r].batch = req[r].batch
      /\ req'[r].verdict \in {"succeeded", "handler_failed"}
  BY <1>6, <1>7 DEF Ingress!Request
<1> QED
  BY <1>1, <1>2, <1>4, <1>7, <1>8

(* The call is over: what is on record is true, and a success only if the   *)
(* ingress may say so.                                                      *)
LEMMA HandleKeeps ==
  ASSUME InteractionsInv, NEW r \in Requests, Ingress!Handle(r),
         job' = [job EXCEPT ![r] = NoJob], UNCHANGED calls,
         NEW row \in Audit, audits' = [audits EXCEPT ![Event(r)] = row],
         Truthful(row, calls[Event(r)]),
         \A x \in runs' \ runs :
           x.ok /\ Event(r) \in ExternalEvents => Good(row)
  PROVE  InteractionsInv'
<1>1. Ingress!IngressInv /\ Ingress!IngressInv' /\ HandlerInv
  BY IngressKept DEF InteractionsInv, Ingress!Next
<1>2. /\ req[r].pc = "handling" /\ UNCHANGED <<active, receipts>>
      /\ \A s \in Requests \ {r} : req'[s] = req[s]
      /\ req'[r].pc = "finalizing" /\ req'[r].todo = req[r].todo
      /\ req'[r].batch = req[r].batch
      /\ req'[r].verdict \in {"succeeded", "handler_failed"}
      /\ \E ok \in BOOLEAN :
           runs' = runs \cup {[request |-> r, position |-> Position(r),
                               event |-> Event(r), ok |-> ok]}
  BY <1>1, AfterHandle
<1>3. Ingress!Dispatching(r) /\ req[r].todo # {}
  BY <1>1, <1>2 DEF HandlerInv, JobOK, Ingress!Dispatching
<1>4. /\ Position(r) \in req[r].todo /\ Ingress!Foremost(req[r].todo, Position(r))
      /\ Event(r) = req[r].batch[Position(r)] /\ Event(r) \in Events
      /\ \A i \in req[r].todo : req[r].batch[i] = Event(r) => i = Position(r)
  BY <1>1, <1>3, AtEvent
<1>5. /\ HandlerTypes'
      /\ audits'[Event(r)] = row /\ job'[r] = NoJob
      /\ \A e \in Events \ {Event(r)} : audits'[e] = audits[e]
      /\ \A s \in Requests \ {r} : job'[s] = job[s]
  <2>1. NoJob \in Job
    BY InteractionAssumption
       DEF NoJob, Job, NoRow, Row, Audit, Phases, Kinds, Outcomes, ReplyOutcomes
  <2> QED
    BY <1>1, <1>4, <2>1 DEF HandlerInv, HandlerTypes
<1>6. JobOK(r)' /\ PendingOK(r)'
  <2>1. JobOK(r)'
    BY <1>2, <1>5 DEF JobOK
  <2>2. PendingOK(r)'
    <3> SUFFICES ASSUME NEW i \in req[r].todo, ~(Untouched(req[r].batch[i])')
                 PROVE  (Ingress!Foremost(req[r].todo, i) /\ InHand(r))'
      BY <1>2 DEF PendingOK, Ingress!Dispatching, Untouched
    <3>1. InHand(r)'
      BY <1>2 DEF InHand
    <3>2. CASE i # Position(r)
      <4>1. req[r].batch[i] # Event(r) /\ req[r].batch[i] \in Events
        BY <1>1, <1>3, <1>4, <3>2, OneRequestPerEvent
      <4>2. ~Untouched(req[r].batch[i])
        BY <1>2, <1>5, <4>1 DEF Untouched
      <4>3. Ingress!Foremost(req[r].todo, i)
        BY <1>1, <1>3, <4>2 DEF HandlerInv, PendingOK
      <4> QED
        BY <1>1, <1>3, <3>2, <4>3, AtEvent
    <3> QED
      BY <1>2, <1>4, <3>1, <3>2 DEF Ingress!Foremost
  <2> QED
    BY <2>1, <2>2
<1>7. ASSUME NEW s \in Requests, s # r
      PROVE  JobOK(s)' /\ PendingOK(s)'
  <2>1. ASSUME Ingress!Dispatching(s), NEW i \in req[s].todo
        PROVE  audits'[req[s].batch[i]] = audits[req[s].batch[i]]
               /\ calls'[req[s].batch[i]] = calls[req[s].batch[i]]
    BY <1>1, <1>3, <1>5, <1>7, <2>1, EventsDiffer, OneRequestPerEvent
  <2> QED
    BY <1>2, <1>5, <1>7, <2>1, OtherKeeps
<1>8. receipts[Event(r)].status = "processing"
      /\ receipts[Event(r)].code # "dispatch_deadline_exceeded"
      /\ \A x \in runs : x.event # Event(r) /\ x.event \in Events
  BY <1>1, <1>2, <1>3, <1>4, OneRequestPerEvent, RequestFacts DEF Ingress!Run
<1>9. RestIsUntouched'
  BY <1>1, <1>2, <1>5, <1>8 DEF HandlerInv, RestIsUntouched, Untouched
<1>10. SuccessIsOnRecord'
  <2> SUFFICES ASSUME NEW x \in runs', x.ok, x.event \in ExternalEvents
               PROVE  Good(audits'[x.event])
    BY DEF SuccessIsOnRecord, Good
  <2>1. CASE x \in runs
    BY <1>1, <1>5, <1>8, <2>1 DEF HandlerInv, SuccessIsOnRecord
  <2>2. CASE x \notin runs
    <3>1. x.event = Event(r)
      BY <1>2, <2>2
    <3> QED
      BY <1>5, <2>2, <3>1
  <2> QED
    BY <2>1, <2>2
<1>11. EffectsOK'
  <2>1. \A e \in Events : Truthful(audits'[e], calls[e]) /\ Len(calls[e]) <= 1
    BY <1>1, <1>5 DEF HandlerInv, EffectsOK
  <2> QED
    BY <2>1 DEF EffectsOK, Truthful
<1> QED
  BY <1>1, <1>5, <1>6, <1>7, <1>9, <1>10, <1>11 DEF InteractionsInv, HandlerInv

-----------------------------------------------------------------------------
(* The steps of the handler *)

LEMMA InTheHandler ==
  ASSUME InteractionsInv, NEW r \in Requests, req[r].pc = "handling"
  PROVE  /\ Ingress!IngressInv /\ Ingress!Dispatching(r) /\ req[r].todo # {}
         /\ Event(r) \in Events /\ job[r] \in Job
         /\ audits[Event(r)] \in Audit /\ calls[Event(r)] \in Seq(Call)
         /\ Truthful(audits[Event(r)], calls[Event(r)]) /\ Len(calls[Event(r)]) <= 1
         /\ Fits(r, job[r], audits[Event(r)], calls[Event(r)])
         /\ Fallback(r) \in Audit /\ Fallback(r) # NoRow
         /\ Extra(r) \in Nat /\ LocalReserve \in Nat /\ MaxOverrun \in Nat
<1>1. JobOK(r) /\ Ingress!IngressInv /\ Ingress!Dispatching(r)
  BY DEF InteractionsInv, HandlerInv, Ingress!Dispatching
<1>2. Event(r) \in Events
  BY <1>1, AtEvent DEF JobOK
<1>3. job[r] \in Job /\ audits[Event(r)] \in Audit /\ calls[Event(r)] \in Seq(Call)
  BY <1>2 DEF InteractionsInv, HandlerInv, HandlerTypes
<1>4. Truthful(audits[Event(r)], calls[Event(r)]) /\ Len(calls[Event(r)]) <= 1
  BY <1>2 DEF InteractionsInv, HandlerInv, EffectsOK
<1>5. Fallback(r) \in Audit /\ Fallback(r) # NoRow
  BY DEF Fallback, Audit, Row, NoRow, Outcomes, ReplyOutcomes, Kinds
<1> QED
  BY <1>1, <1>2, <1>3, <1>4, <1>5, ReplyFits, InteractionAssumption DEF JobOK

LEMMA JobFields ==
  ASSUME NEW j \in Job
  PROVE  /\ j.phase \in Phases /\ j.row \in Audit /\ j.reserved \in BOOLEAN
         /\ j.spent \in Nat /\ j.local \in Nat /\ j.budget \in 0..MaxReply
         /\ j = [phase |-> j.phase, row |-> j.row, reserved |-> j.reserved,
                 spent |-> j.spent, local |-> j.local, budget |-> j.budget]
  BY DEF Job

LEMMA NoJobIsJob ==
  /\ NoJob \in Job /\ NoJob.phase = "none" /\ NoJob.row = NoRow
  /\ NoJob.reserved = FALSE /\ NoJob.spent = 0 /\ NoJob.local = 0
<1>1. NoRow \in Audit
  BY DEF NoRow, Row, Audit, Kinds, Outcomes, ReplyOutcomes
<1> QED
  BY <1>1, InteractionAssumption DEF NoJob, Job, Phases

(* A row with these words is a row.                                         *)
LEMMA Rows ==
  ASSUME NEW kind \in Kinds, NEW outcome \in Outcomes, NEW reply \in ReplyOutcomes
  PROVE  /\ Row(kind, outcome, reply) \in Audit
         /\ Row(kind, outcome, reply).kind = kind
         /\ Row(kind, outcome, reply).outcome = outcome
         /\ Row(kind, outcome, reply).reply = reply
  BY DEF Row, Audit

LEMMA PutAsideIs ==
  ASSUME NEW e, NEW row \in PutAside(e)
  PROVE  row \in Audit /\ row.reply = "not_started" /\ row.outcome # "action_succeeded"
<1>1. CASE row \in {Row("none", outcome, "not_started") :
                     outcome \in {"no_op", "processing_failed"}}
  <2>1. PICK outcome \in {"no_op", "processing_failed"} :
          row = Row("none", outcome, "not_started")
    BY <1>1
  <2> QED
    BY <2>1, Rows DEF Kinds, Outcomes, ReplyOutcomes
<1>2. CASE row = Row("action", "handler_failed", "not_started")
  BY <1>2, Rows DEF Kinds, Outcomes, ReplyOutcomes
<1> QED
  BY <1>1, <1>2 DEF PutAside

LEMMA BeginStep ==
  ASSUME InteractionsInv, NEW r \in Requests, Begin(r)
  PROVE  InteractionsInv'
<1>1. /\ req[r].pc = "handling" /\ job[r].phase = "none" /\ Event(r) \in ExternalEvents
      /\ UNCHANGED <<ingressVars, audits, calls>>
  BY DEF Begin, In
<1> DEFINE row == audits[Event(r)]
           made == calls[Event(r)]
<1>2. /\ Event(r) \in Events /\ job[r] \in Job /\ row \in Audit /\ made \in Seq(Call)
      /\ Truthful(row, made) /\ Len(made) <= 1 /\ Fits(r, job[r], row, made)
      /\ Extra(r) \in Nat /\ LocalReserve \in Nat /\ MaxOverrun \in Nat
  BY <1>1, InTheHandler
<1>3. row = NoRow /\ made = <<>>
  BY <1>1, <1>2 DEF Fits, Starting
<1>4. /\ audits' = [audits EXCEPT ![Event(r)] = row]
      /\ calls' = [calls EXCEPT ![Event(r)] = made]
  BY <1>1, <1>2 DEF InteractionsInv, HandlerInv, HandlerTypes
<1> HIDE DEF row, made
<1>5. ASSUME NEW j \in Job, j.phase # "none", job' = [job EXCEPT ![r] = j],
             Fits(r, j, row, made)
      PROVE  InteractionsInv'
  BY <1>1, <1>2, <1>4, <1>5, CallGoesOn
<1>6. CASE Goto(r, "reserving", NoJob)
  <2> DEFINE j == [NoJob EXCEPT !.phase = "reserving"]
  <2>1. j \in Job /\ j.phase = "reserving" /\ j.spent = 0 /\ j.local = 0
    BY NoJobIsJob DEF Job, Phases
  <2>2. job' = [job EXCEPT ![r] = j]
    BY <1>6 DEF Goto
  <2>3. j = [NoJob EXCEPT !.phase = j.phase]
    BY <2>1
  <2> HIDE DEF j
  <2>4. Fits(r, j, row, made)
    BY <1>1, <1>2, <1>3, <2>1, <2>3 DEF Fits, Starting, Prepared, Ending, InTime
  <2> QED
    BY <1>5, <2>1, <2>2, <2>4
<1>7. ASSUME NEW k \in PutAside(Event(r)),
             Goto(r, "finishing", [NoJob EXCEPT !.row = k])
      PROVE  InteractionsInv'
  <2> DEFINE j == [[NoJob EXCEPT !.row = k] EXCEPT !.phase = "finishing"]
  <2>1. k \in Audit
    BY PutAsideIs
  <2>2. job' = [job EXCEPT ![r] = j]
    BY <1>7 DEF Goto
  <2>3. /\ j \in Job /\ j.phase = "finishing" /\ j.row = k /\ j.reserved = FALSE
        /\ j.spent = 0 /\ j.local = 0
    BY <2>1, NoJobIsJob DEF Job, Phases
  <2> HIDE DEF j
  <2>4. Fits(r, j, row, made)
    BY <1>1, <1>2, <1>3, <1>7, <2>3 DEF Fits, Starting, Prepared, Ending, InTime
  <2> QED
    BY <1>5, <2>2, <2>3, <2>4
<1> QED
  BY <1>6, <1>7 DEF Begin

(* The handler gives up or ends: it is the ingress's Handle, in time.       *)
LEMMA ReturnKeeps ==
  ASSUME InteractionsInv, NEW r \in Requests, req[r].pc = "handling",
         job[r].phase # "none", NEW d \in LocalTime(r), NEW ok \in BOOLEAN,
         Return(r, ok, d), UNCHANGED <<active, receipts, calls>>,
         NEW row \in Audit, audits' = [audits EXCEPT ![Event(r)] = row],
         Truthful(row, calls[Event(r)]),
         ok /\ Event(r) \in ExternalEvents => Good(row)
  PROVE  InteractionsInv' /\ Ingress!Handle(r)
<1>1. /\ Ingress!IngressInv /\ Ingress!Dispatching(r) /\ req[r].todo # {}
      /\ job[r] \in Job /\ Fits(r, job[r], audits[Event(r)], calls[Event(r)])
      /\ Extra(r) \in Nat /\ LocalReserve \in Nat /\ MaxOverrun \in Nat
  BY InTheHandler
<1>2. job[r].spent \in Nat /\ job[r].local \in Nat
  BY <1>1, JobFields
<1>3. d \in Nat /\ job[r].local + d <= LocalReserve + MaxOverrun
  BY <1>1, <1>2 DEF LocalTime, Fits, InTime
<1>4. job[r].spent <= job[r].local + Extra(r)
  BY <1>1, <1>2 DEF Fits, InTime
<1>5. Ingress!Handle(r)
  <2>1. job[r].spent + d <= LocalReserve + Extra(r) + MaxOverrun
    BY <1>1, <1>2, <1>3, <1>4
  <2> QED
    BY <1>1, <1>2, <1>3, <2>1, ReturnIsHandle
<1>6. \A x \in runs' \ runs : x.ok /\ Event(r) \in ExternalEvents => Good(row)
  BY DEF Return
<1>7. job' = [job EXCEPT ![r] = NoJob]
  BY DEF Return
<1> QED
  BY <1>5, <1>6, <1>7, HandleKeeps

(* Without a call a row is true that claims neither attempt nor effect.     *)
LEMMA NothingClaimed ==
  ASSUME NEW row \in Audit, row.reply = "not_started", row.outcome # "action_succeeded"
  PROVE  Truthful(row, <<>>)
  BY DEF Truthful

(* After one call a row is true that names it and claims what happened.     *)
LEMMA OneCall ==
  ASSUME NEW row, NEW c \in Call, row.kind = c.kind,
         row.reply = "accepted" \/ row.outcome = "action_succeeded" => c.happened,
         row.outcome = "action_declined" => ~c.happened,
         row.outcome \notin {"no_op", "credential_unavailable", "deadline_exceeded"}
  PROVE  /\ Append(<<>>, c) \in Seq(Call) /\ Len(Append(<<>>, c)) = 1
         /\ Truthful(row, Append(<<>>, c))
<1> DEFINE s == Append(<<>>, c)
<1>1. s = <<c>> /\ s \in Seq(Call) /\ Len(s) = 1 /\ DOMAIN s = {1} /\ s[1] = c
  OBVIOUS
<1> HIDE DEF s
<1>2. Truthful(row, s)
  BY <1>1 DEF Truthful
<1> QED
  BY <1>1, <1>2 DEF s

LEMMA ReserveAuditStep ==
  ASSUME InteractionsInv, NEW r \in Requests, ReserveAudit(r)
  PROVE  InteractionsInv' /\ (Ingress!Handle(r) \/ UNCHANGED ingressVars)
<1> DEFINE row == audits[Event(r)]
           made == calls[Event(r)]
<1>1. PICK written \in Written, d \in LocalTime(r) :
        /\ audits' = IF row = NoRow /\ written # "rolled_back"
                     THEN [audits EXCEPT ![Event(r)] = Fallback(r)]
                     ELSE audits
        /\ IF Reserved(row, written)
           THEN /\ Goto(r, IF Event(r) \in Messages THEN "credential" ELSE "acting",
                        [job[r] EXCEPT !.row = Fallback(r), !.reserved = TRUE,
                                       !.spent = job[r].spent + d,
                                       !.local = job[r].local + d])
                /\ UNCHANGED <<req, runs>>
           ELSE Return(r, FALSE, d)
  BY DEF ReserveAudit
<1>2. /\ req[r].pc = "handling" /\ job[r].phase = "reserving"
      /\ UNCHANGED <<active, receipts, calls>>
  BY DEF ReserveAudit, In
<1>3. /\ Event(r) \in Events /\ job[r] \in Job /\ row \in Audit /\ made \in Seq(Call)
      /\ Truthful(row, made) /\ Fits(r, job[r], row, made)
      /\ Fallback(r) \in Audit
      /\ Extra(r) \in Nat /\ LocalReserve \in Nat /\ MaxOverrun \in Nat
  BY <1>2, InTheHandler
<1>4. row = NoRow /\ made = <<>> /\ Event(r) \in ExternalEvents
  BY <1>2, <1>3 DEF Fits, Starting
<1>5. audits \in [Events -> Audit] /\ calls \in [Events -> Seq(Call)]
  BY DEF InteractionsInv, HandlerInv, HandlerTypes
<1>6. Truthful(Fallback(r), made)
  <2>1. Fallback(r).reply = "not_started" /\ Fallback(r).outcome # "action_succeeded"
    BY DEF Fallback, Row
  <2> QED
    BY <1>3, <1>4, <2>1, NothingClaimed
<1>7. job[r].spent \in Nat /\ job[r].local \in Nat /\ job[r].spent = job[r].local
      /\ d \in Nat /\ job[r].local + d <= LocalReserve + MaxOverrun
  BY <1>2, <1>3, JobFields DEF LocalTime, Fits, InTime
<1> HIDE DEF row, made
<1>8. CASE Reserved(row, written)
  <2> DEFINE s == job[r].spent + d
             l == job[r].local + d
             phase == IF Event(r) \in Messages THEN "credential" ELSE "acting"
             j == [[job[r] EXCEPT !.row = Fallback(r), !.reserved = TRUE,
                                  !.spent = s, !.local = l] EXCEPT !.phase = phase]
  <2>1. job' = [job EXCEPT ![r] = j] /\ UNCHANGED <<req, runs>>
    BY <1>1, <1>8, Zenon DEF Goto
  <2>2. audits' = [audits EXCEPT ![Event(r)] = Fallback(r)]
    BY <1>1, <1>8 DEF Reserved
  <2>3. s \in Nat /\ l \in Nat /\ s = l /\ l <= LocalReserve + MaxOverrun
    BY <1>7
  <2>4. /\ phase \in Phases /\ phase \notin {"none", "reserving", "replying", "finishing"}
        /\ phase = "acting" => Event(r) \in Postbacks
        /\ phase # "acting" => Event(r) \in Messages
    BY <1>4, InteractionAssumption DEF Phases
  <2> HIDE DEF s, l, phase
  <2>5. /\ j \in Job /\ j.phase = phase /\ j.row = Fallback(r) /\ j.reserved
        /\ j.spent = s /\ j.local = l
    BY <1>3, <2>3, <2>4 DEF Job
  <2> HIDE DEF j
  <2>6. Fits(r, j, Fallback(r), made)
    BY <1>4, <2>3, <2>4, <2>5 DEF Fits, Starting, Prepared, Ending, InTime
  <2>7. calls' = [calls EXCEPT ![Event(r)] = made] /\ UNCHANGED ingressVars
    BY <1>2, <1>5, <2>1 DEF made, ingressVars
  <2>8. Len(made) <= 1 /\ j.phase # "none"
    BY <1>4, <2>4, <2>5
  <2> QED
    BY <1>2, <1>3, <1>6, <2>1, <2>2, <2>5, <2>6, <2>7, <2>8, CallGoesOn
<1>9. CASE ~Reserved(row, written)
  <2>1. Return(r, FALSE, d)
    BY <1>1, <1>9
  <2> DEFINE new == IF written # "rolled_back" THEN Fallback(r) ELSE row
  <2>2. audits' = [audits EXCEPT ![Event(r)] = new]
    BY <1>1, <1>4, <1>5 DEF row
  <2>3. new \in Audit /\ Truthful(new, calls[Event(r)])
    BY <1>3, <1>6 DEF made
  <2> HIDE DEF new
  <2> QED
    BY <1>2, <2>1, <2>2, <2>3, ReturnKeeps
<1> QED
  BY <1>8, <1>9

(* The call goes on with the record j, for nothing more was done or         *)
(* recorded.                                                                *)
LEMMA GoesOn ==
  ASSUME InteractionsInv, NEW r \in Requests, req[r].pc = "handling",
         UNCHANGED <<ingressVars, audits, calls>>,
         NEW j \in Job, j.phase # "none", job' = [job EXCEPT ![r] = j],
         Fits(r, j, audits[Event(r)], calls[Event(r)])
  PROVE  InteractionsInv'
<1> DEFINE row == audits[Event(r)]
           made == calls[Event(r)]
<1>1. /\ row \in Audit /\ made \in Seq(Call) /\ Truthful(row, made) /\ Len(made) <= 1
      /\ Fits(r, j, row, made)
  BY InTheHandler
<1>2. audits' = [audits EXCEPT ![Event(r)] = row]
      /\ calls' = [calls EXCEPT ![Event(r)] = made]
  BY DEF InteractionsInv, HandlerInv, HandlerTypes
<1> HIDE DEF row, made
<1> QED
  BY <1>1, <1>2, CallGoesOn

LEMMA CredentialStep ==
  ASSUME InteractionsInv, NEW r \in Requests, Credential(r)
  PROVE  InteractionsInv'
<1>1. /\ req[r].pc = "handling" /\ job[r].phase = "credential"
      /\ UNCHANGED <<ingressVars, audits, calls>>
  BY DEF Credential, In
<1> DEFINE row == audits[Event(r)]
           made == calls[Event(r)]
<1>2. /\ job[r] \in Job /\ Fits(r, job[r], row, made)
      /\ Extra(r) \in Nat /\ LocalReserve \in Nat /\ MaxOverrun \in Nat
      /\ Ingress!IngressInv /\ Ingress!Dispatching(r) /\ req[r].todo # {}
  BY <1>1, InTheHandler
<1>3. /\ Event(r) \in Messages /\ job[r].reserved /\ job[r].row = Fallback(r)
      /\ row = Fallback(r) /\ made = <<>>
  BY <1>1, <1>2 DEF Fits, Prepared
<1>4. /\ job[r].spent \in Nat /\ job[r].local \in Nat /\ job[r].spent = job[r].local
      /\ job[r].local <= LocalReserve + MaxOverrun
  BY <1>1, <1>2, JobFields DEF Fits, InTime
<1> HIDE DEF row, made
<1>5. ASSUME NEW j \in Job, j.phase # "none", job' = [job EXCEPT ![r] = j],
             Fits(r, j, row, made)
      PROVE  InteractionsInv'
  BY <1>1, <1>5, GoesOn DEF row, made
<1>6. ASSUME NEW outcome \in {"credential_unavailable", "processing_failed",
                              "deadline_exceeded"},
             Goto(r, "finishing",
                  [job[r] EXCEPT !.row = Row("command", outcome, "not_started")])
      PROVE  InteractionsInv'
  <2> DEFINE k == Row("command", outcome, "not_started")
             j == [[job[r] EXCEPT !.row = k] EXCEPT !.phase = "finishing"]
  <2>1. /\ k \in Audit /\ k.reply = "not_started" /\ k.outcome # "action_succeeded"
    BY Rows DEF Kinds, Outcomes, ReplyOutcomes
  <2>2. Truthful(k, made)
    BY <1>3, <2>1, NothingClaimed
  <2>3. job' = [job EXCEPT ![r] = j]
    BY <1>6, Zenon DEF Goto
  <2> HIDE DEF k
  <2>4. /\ j \in Job /\ j.phase = "finishing" /\ j.row = k /\ j.reserved
        /\ j.spent = job[r].spent /\ j.local = job[r].local
    BY <1>2, <1>3, <2>1 DEF Job, Phases
  <2> HIDE DEF j
  <2>5. Event(r) \in ExternalEvents
    BY <1>3, InteractionAssumption
  <2>6. Fits(r, j, row, made)
    BY <1>2, <1>3, <1>4, <2>2, <2>4, <2>5
       DEF Fits, Starting, Prepared, Ending, InTime
  <2> QED
    BY <1>5, <2>3, <2>4, <2>6
<1>7. ASSUME WorthReplying(r),
             Goto(r, "replying", [job[r] EXCEPT !.budget = Remaining(r)])
      PROVE  InteractionsInv'
  <2> DEFINE b == Remaining(r)
             j == [[job[r] EXCEPT !.budget = b] EXCEPT !.phase = "replying"]
  <2>1. b \in 0..MaxReply /\ b <= Extra(r)
    BY <1>2, <1>3, <1>4, <1>7, ReplyFits, InteractionAssumption
  <2>2. job' = [job EXCEPT ![r] = j]
    BY <1>7, Zenon DEF Goto
  <2> HIDE DEF b
  <2>3. /\ j \in Job /\ j.phase = "replying" /\ j.row = job[r].row
        /\ j.reserved /\ j.spent = job[r].spent /\ j.local = job[r].local
        /\ j.budget = b
    BY <1>2, <1>3, <2>1 DEF Job, Phases
  <2> HIDE DEF j
  <2>4. Fits(r, j, row, made)
    BY <1>2, <1>3, <1>4, <2>1, <2>3 DEF Fits, Starting, Prepared, Ending, InTime
  <2> QED
    BY <1>5, <2>2, <2>3, <2>4
<1> QED
  BY <1>6, <1>7 DEF Credential

(* The effect: one call, recorded by what it is.                            *)
LEMMA EffectStep ==
  ASSUME InteractionsInv, NEW r \in Requests, req[r].pc = "handling",
         job[r].phase \in {"replying", "acting"},
         UNCHANGED <<ingressVars, audits>>, NEW c \in Call,
         c.kind = IF Event(r) \in Messages THEN "command" ELSE "action",
         calls' = [calls EXCEPT ![Event(r)] = Append(@, c)],
         NEW k \in Audit, Truthful(k, Append(<<>>, c)),
         NEW j \in Job, job' = [job EXCEPT ![r] = j],
         j.phase = "finishing", j.row = k, j.reserved, j.local = job[r].local,
         j.spent <= j.local + Extra(r)
  PROVE  InteractionsInv'
<1> DEFINE row == audits[Event(r)]
           made == Append(<<>>, c)
<1>1. /\ job[r] \in Job /\ Fits(r, job[r], row, calls[Event(r)])
      /\ row \in Audit /\ Event(r) \in Events
  BY InTheHandler
<1>2. /\ Event(r) \in ExternalEvents /\ row = Fallback(r) /\ calls[Event(r)] = <<>>
  BY <1>1, InteractionAssumption DEF Fits, Prepared
<1>3. j.local <= LocalReserve + MaxOverrun
  BY <1>1 DEF Fits, InTime
<1>4. Truthful(row, made) /\ made \in Seq(Call) /\ Len(made) = 1
  <2>1. row.kind = c.kind /\ row.reply = "not_started"
        /\ row.outcome \in {"processing_failed", "handler_failed"}
    BY <1>2 DEF Fallback, Row
  <2> QED
    BY <1>1, <2>1, OneCall
<1>5. /\ calls' = [calls EXCEPT ![Event(r)] = made]
      /\ audits' = [audits EXCEPT ![Event(r)] = row]
  BY <1>2 DEF InteractionsInv, HandlerInv, HandlerTypes
<1> HIDE DEF row, made
<1>6. Fits(r, j, row, made)
  BY <1>2, <1>3 DEF Fits, Starting, Prepared, Ending, InTime, made
<1>7. j.phase # "none" /\ Len(made) <= 1
  BY <1>4
<1> QED
  BY <1>1, <1>4, <1>5, <1>6, <1>7, CallGoesOn

LEMMA ReplyStep ==
  ASSUME InteractionsInv, NEW r \in Requests, Reply(r)
  PROVE  InteractionsInv'
<1>1. /\ req[r].pc = "handling" /\ job[r].phase = "replying"
      /\ UNCHANGED <<ingressVars, audits>>
  BY DEF Reply, In
<1>2. PICK happened \in BOOLEAN, d \in 0..job[r].budget :
        /\ calls' = [calls EXCEPT ![Event(r)] =
                       Append(@, [kind |-> "command", happened |-> happened])]
        /\ \E told \in Told(happened) :
             Goto(r, After(told),
                  [job[r] EXCEPT !.row = Row("command", "command_processed", told),
                                 !.spent = job[r].spent + d])
  BY DEF Reply
<1>21. PICK told \in Told(happened) :
        Goto(r, "finishing",
             [job[r] EXCEPT !.row = Row("command", "command_processed", told),
                            !.spent = job[r].spent + d])
  BY <1>2 DEF After
<1>3. /\ job[r] \in Job /\ Fits(r, job[r], audits[Event(r)], calls[Event(r)])
      /\ Extra(r) \in Nat
  BY <1>1, InTheHandler
<1>4. Event(r) \in Messages /\ job[r].reserved
  BY <1>1, <1>3 DEF Fits, Prepared
<1> DEFINE c == [kind |-> "command", happened |-> happened]
           k == Row("command", "command_processed", told)
           s == job[r].spent + d
           j == [[job[r] EXCEPT !.row = k, !.spent = s] EXCEPT !.phase = "finishing"]
<1>5. told \in ReplyOutcomes
  BY DEF Told, ReplyOutcomes
<1>6. c \in Call /\ c.kind = "command" /\ c.happened = happened
  BY DEF Call
<1>7. /\ k \in Audit /\ k.kind = "command" /\ k.outcome = "command_processed"
      /\ k.reply = told
  BY <1>5, Rows DEF Kinds, Outcomes
<1>8. s \in Nat /\ s <= job[r].local + Extra(r)
  <2>1. /\ job[r].spent \in Nat /\ job[r].local \in Nat /\ job[r].budget \in Nat
        /\ job[r].spent = job[r].local /\ job[r].budget <= Extra(r)
    BY <1>1, <1>3, JobFields, InteractionAssumption DEF Fits, InTime
  <2> QED
    BY <1>3, <2>1
<1>9. job' = [job EXCEPT ![r] = j]
  BY <1>21, Zenon DEF Goto
<1>10. calls' = [calls EXCEPT ![Event(r)] = Append(@, c)]
  BY <1>2
<1>11. Truthful(k, Append(<<>>, c))
  <2>1. k.reply = "accepted" => c.happened
    BY <1>6, <1>7 DEF Told
  <2> QED
    BY <1>6, <1>7, <2>1, OneCall
<1> HIDE DEF c, k, s
<1>12. /\ j \in Job /\ j.phase = "finishing" /\ j.row = k /\ j.reserved
       /\ j.spent = s /\ j.local = job[r].local
  BY <1>3, <1>4, <1>7, <1>8 DEF Job, Phases
<1> HIDE DEF j
<1>13. c.kind = IF Event(r) \in Messages THEN "command" ELSE "action"
  BY <1>4, <1>6
<1>14. j.spent <= j.local + Extra(r)
  BY <1>8, <1>12
<1> QED
  BY <1>1, <1>6, <1>7, <1>9, <1>10, <1>11, <1>12, <1>13, <1>14, EffectStep

LEMMA ActStep ==
  ASSUME InteractionsInv, NEW r \in Requests, Act(r)
  PROVE  InteractionsInv'
<1>1. /\ req[r].pc = "handling" /\ job[r].phase = "acting"
      /\ UNCHANGED <<ingressVars, audits>>
  BY DEF Act, In
<1>2. PICK happened \in BOOLEAN :
        /\ calls' = [calls EXCEPT ![Event(r)] =
                       Append(@, [kind |-> "action", happened |-> happened])]
        /\ \E outcome \in {"handler_failed"} \cup
                          IF happened THEN {"action_succeeded"}
                          ELSE {"action_declined"} :
             Goto(r, "finishing",
                  [job[r] EXCEPT !.row = Row("action", outcome, "not_started")])
  BY DEF Act
<1>3. PICK outcome \in {"handler_failed"} \cup
                       IF happened THEN {"action_succeeded"} ELSE {"action_declined"} :
        Goto(r, "finishing",
             [job[r] EXCEPT !.row = Row("action", outcome, "not_started")])
  BY <1>2
<1>4. /\ job[r] \in Job /\ Fits(r, job[r], audits[Event(r)], calls[Event(r)])
      /\ Extra(r) \in Nat
  BY <1>1, InTheHandler
<1>5. Event(r) \in Postbacks /\ Event(r) \notin Messages /\ job[r].reserved
  BY <1>1, <1>4, InteractionAssumption DEF Fits, Prepared
<1> DEFINE c == [kind |-> "action", happened |-> happened]
           k == Row("action", outcome, "not_started")
           j == [[job[r] EXCEPT !.row = k] EXCEPT !.phase = "finishing"]
<1>6. c \in Call /\ c.kind = "action" /\ c.happened = happened
  BY DEF Call
<1>7. /\ k \in Audit /\ k.kind = "action" /\ k.outcome = outcome
      /\ k.reply = "not_started"
  BY Rows DEF Kinds, Outcomes, ReplyOutcomes
<1>8. job' = [job EXCEPT ![r] = j]
  BY <1>3, Zenon DEF Goto
<1>9. calls' = [calls EXCEPT ![Event(r)] = Append(@, c)]
  BY <1>2
<1>10. Truthful(k, Append(<<>>, c))
  <2>1. k.outcome = "action_succeeded" => c.happened
    BY <1>6, <1>7
  <2>2. /\ k.outcome = "action_declined" => ~c.happened
        /\ k.outcome \notin {"no_op", "credential_unavailable", "deadline_exceeded"}
    BY <1>6, <1>7
  <2> QED
    BY <1>6, <1>7, <2>1, <2>2, OneCall
<1> HIDE DEF c, k
<1>11. /\ j \in Job /\ j.phase = "finishing" /\ j.row = k /\ j.reserved
       /\ j.spent = job[r].spent /\ j.local = job[r].local
  BY <1>4, <1>5, <1>7 DEF Job, Phases
<1> HIDE DEF j
<1>12. c.kind = IF Event(r) \in Messages THEN "command" ELSE "action"
  BY <1>5, <1>6
<1>13. j.spent <= j.local + Extra(r)
  BY <1>1, <1>4, <1>11, JobFields DEF Fits, InTime
<1> QED
  BY <1>1, <1>6, <1>7, <1>8, <1>9, <1>10, <1>11, <1>12, <1>13, EffectStep

LEMMA FinishStep ==
  ASSUME InteractionsInv, NEW r \in Requests, Finish(r)
  PROVE  InteractionsInv' /\ Ingress!Handle(r)
<1> DEFINE row == audits[Event(r)]
           made == calls[Event(r)]
<1>1. /\ req[r].pc = "handling" /\ job[r].phase = "finishing"
      /\ UNCHANGED <<active, receipts, calls>>
  BY DEF Finish, In
<1>2. PICK written \in Written, d \in LocalTime(r) :
        /\ audits' = IF Replaces(r) /\ written # "rolled_back"
                     THEN [audits EXCEPT ![Event(r)] = job[r].row]
                     ELSE audits
        /\ Return(r, Succeeded(job[r].row, Replaces(r) /\ written = "committed"), d)
  BY DEF Finish
<1>3. /\ job[r] \in Job /\ Fits(r, job[r], row, made) /\ row \in Audit
      /\ Truthful(row, made) /\ Event(r) \in Events /\ Fallback(r) # NoRow
  BY <1>1, InTheHandler
<1>4. job[r].row \in Audit /\ Replaces(r) /\ Truthful(job[r].row, made)
  <2>1. job[r].row \in Audit
    BY <1>3, JobFields
  <2>2. CASE job[r].reserved
    BY <1>1, <1>3, <2>1, <2>2 DEF Fits, Ending, Replaces
  <2>3. CASE ~job[r].reserved
    <3>1. /\ row = NoRow /\ made = <<>>
          /\ job[r].row \in PutAside(Event(r))
      BY <1>1, <1>3, <2>3 DEF Fits, Ending
    <3>2. job[r].row.reply = "not_started" /\ job[r].row.outcome # "action_succeeded"
      BY <3>1, PutAsideIs
    <3> QED
      BY <2>1, <2>3, <3>1, <3>2, NothingClaimed DEF Replaces
  <2> QED
    BY <2>2, <2>3
<1> DEFINE new == IF written # "rolled_back" THEN job[r].row ELSE row
           ok == Succeeded(job[r].row, Replaces(r) /\ written = "committed")
<1>5. audits' = [audits EXCEPT ![Event(r)] = new]
  BY <1>2, <1>3, <1>4 DEF InteractionsInv, HandlerInv, HandlerTypes
<1>6. new \in Audit /\ Truthful(new, calls[Event(r)])
  BY <1>3, <1>4
<1>7. ok \in BOOLEAN /\ (ok => Good(new))
  BY DEF Succeeded, Good
<1>8. Return(r, ok, d)
  BY <1>2
<1> HIDE DEF new, ok
<1> QED
  BY <1>1, <1>5, <1>6, <1>7, <1>8, ReturnKeeps

LEMMA HandleLocalStep ==
  ASSUME InteractionsInv, NEW r \in Requests, HandleLocal(r)
  PROVE  InteractionsInv'
<1> DEFINE row == audits[Event(r)]
<1>1. /\ req[r].pc = "handling" /\ job[r].phase = "none" /\ Event(r) \in LocalEvents
      /\ Ingress!Handle(r) /\ UNCHANGED <<job, audits, calls>>
  BY DEF HandleLocal, In
<1>2. /\ row \in Audit /\ Truthful(row, calls[Event(r)]) /\ Event(r) \in Events
      /\ Fits(r, job[r], row, calls[Event(r)]) /\ job[r] \in Job
  BY <1>1, InTheHandler
<1>3. job[r] = NoJob
  <2>1. job[r] = [NoJob EXCEPT !.phase = "none"]
    BY <1>1, <1>2 DEF Fits, Starting
  <2> QED
    BY <2>1 DEF NoJob
<1>4. /\ job' = [job EXCEPT ![r] = NoJob]
      /\ audits' = [audits EXCEPT ![Event(r)] = row]
  BY <1>1, <1>3 DEF InteractionsInv, HandlerInv, HandlerTypes
<1>5. Event(r) \notin ExternalEvents
  BY <1>1, InteractionAssumption
<1> HIDE DEF row
<1> QED
  BY <1>1, <1>2, <1>4, <1>5, HandleKeeps DEF row

-----------------------------------------------------------------------------
(* The ingress around the handler *)

(* A step of the ingress around one request keeps the invariant if it keeps *)
(* it of this request and of what was never handed over.                    *)
LEMMA AroundKeeps ==
  ASSUME InteractionsInv, NEW r \in Requests, Ingress!Next,
         UNCHANGED <<audits, calls, runs>>,
         \A s \in Requests \ {r} : req'[s] = req[s] /\ job'[s] = job[s],
         job' \in [Requests -> Job], JobOK(r)', PendingOK(r)', RestIsUntouched'
  PROVE  InteractionsInv'
<1>1. Ingress!IngressInv'
  BY IngressKept DEF InteractionsInv
<1>2. ASSUME NEW s \in Requests
      PROVE  JobOK(s)' /\ PendingOK(s)'
  BY OtherKeeps
<1>3. HandlerTypes' /\ EffectsOK' /\ SuccessIsOnRecord'
  BY DEF InteractionsInv, HandlerInv, HandlerTypes, EffectsOK, Truthful,
         SuccessIsOnRecord, Good
<1> QED
  BY <1>1, <1>2, <1>3 DEF InteractionsInv, HandlerInv

LEMMA AnswerIs ==
  ASSUME Ingress!IngressInv, NEW r \in Requests, NEW code, Ingress!Answer(r, code)
  PROVE  req'[r].pc = "done" /\ \A s \in Requests \ {r} : req'[s] = req[s]
<1>1. req \in [Requests -> Ingress!Request] /\ req[r] \in Ingress!Request
  BY RequestFacts
<1>2. PICK x \in Ingress!Request : x = req[r]
  BY <1>1
<1> DEFINE q == [x EXCEPT !.pc = "done", !.reply = code, !.todo = {}, !.verdict = "none"]
<1>3. q.pc = "done"
  BY DEF Ingress!Request
<1>4. req' = [req EXCEPT ![r] = q]
  BY <1>1, <1>2 DEF Ingress!Answer
<1> HIDE DEF q
<1> QED
  BY <1>1, <1>3, <1>4

(* A request that is not dispatching says nothing about the handler.        *)
LEMMA QuietKeeps ==
  ASSUME InteractionsInv, NEW r \in Requests, Ingress!Next,
         UNCHANGED <<audits, calls, runs>>,
         \A s \in Requests \ {r} : req'[s] = req[s],
         req'[r].pc \notin {"dispatching", "handling", "finalizing"},
         \/ job' = [job EXCEPT ![r] = NoJob]
         \/ job' = job /\ req[r].pc # "handling",
         RestIsUntouched'
  PROVE  InteractionsInv'
<1>1. job' = [job EXCEPT ![r] = NoJob]
  BY DEF InteractionsInv, HandlerInv, HandlerTypes, JobOK
<1>2. /\ \A s \in Requests \ {r} : job'[s] = job[s]
      /\ job' \in [Requests -> Job] /\ job'[r] = NoJob
  BY <1>1, NoJobIsJob DEF InteractionsInv, HandlerInv, HandlerTypes
<1>3. JobOK(r)' /\ PendingOK(r)'
  BY <1>2 DEF JobOK, PendingOK, Ingress!Dispatching
<1> QED
  BY <1>2, <1>3, AroundKeeps

LEMMA SameRest ==
  ASSUME InteractionsInv, UNCHANGED <<audits, calls, receipts>>
  PROVE  RestIsUntouched'
  BY DEF InteractionsInv, HandlerInv, RestIsUntouched, Untouched

(* What a batch adds to the receipts was not known before.                  *)
LEMMA RecordingRest ==
  ASSUME InteractionsInv, NEW r, NEW b, UNCHANGED <<audits, calls>>,
         receipts' = Ingress!Recording(r, b) \/ receipts' = receipts
  PROVE  RestIsUntouched'
<1>1. RestIsUntouched /\ receipts \in [Events -> Ingress!Receipt]
  BY DEF InteractionsInv, HandlerInv, Ingress!IngressInv, Ingress!TypeOK
<1>2. ASSUME NEW e \in Events, receipts'[e] # receipts[e]
      PROVE  receipts[e].status = "absent"
  BY <1>2 DEF Ingress!Recording, Ingress!Recorded
<1>3. ASSUME NEW e \in Events,
             \/ receipts'[e].status \in {"absent", "unsupported"}
             \/ receipts'[e].code = "dispatch_deadline_exceeded"
      PROVE  Untouched(e)
  BY <1>1, <1>2, <1>3 DEF RestIsUntouched
<1> QED
  BY <1>3 DEF RestIsUntouched, Untouched

LEMMA ReceiveKeeps ==
  ASSUME InteractionsInv, NEW r \in Requests, NEW b \in Batches,
         Ingress!Receive(r, b), UNCHANGED <<job, audits, calls>>
  PROVE  InteractionsInv'
<1>1. Ingress!Next
  BY DEF Ingress!Next, Ingress!Ingest
<1>2. req[r].pc = "idle" /\ UNCHANGED <<active, receipts, runs>>
  BY DEF Ingress!Receive
<1>3. /\ \A s \in Requests \ {r} : req'[s] = req[s]
      /\ req'[r].pc \in {"verified", "done"}
  <2>1. CASE \E code : Ingress!Answer(r, code)
    BY <2>1, AnswerIs DEF InteractionsInv
  <2>2. CASE req' = [req EXCEPT ![r].pc = "verified", ![r].batch = b]
    <3>1. req \in [Requests -> Ingress!Request] /\ req[r] \in Ingress!Request
      BY RequestFacts DEF InteractionsInv
    <3>2. req' = [req EXCEPT ![r] = [[req[r] EXCEPT !.pc = "verified"] EXCEPT !.batch = b]]
      BY <2>2
    <3> QED
      BY <3>1, <3>2 DEF Ingress!Request
  <2> QED
    BY <2>1, <2>2 DEF Ingress!Receive
<1> QED
  BY <1>1, <1>2, <1>3, SameRest, QuietKeeps

LEMMA RespondKeeps ==
  ASSUME InteractionsInv, NEW r \in Requests, Ingress!Respond(r),
         UNCHANGED <<job, audits, calls>>
  PROVE  InteractionsInv'
<1>1. Ingress!Next
  BY DEF Ingress!Next, Ingress!Ingest
<1>2. req[r].pc = "dispatching" /\ UNCHANGED <<active, receipts, runs>>
  BY DEF Ingress!Respond
<1>3. req'[r].pc = "done" /\ \A s \in Requests \ {r} : req'[s] = req[s]
  BY AnswerIs DEF Ingress!Respond, InteractionsInv
<1> QED
  BY <1>1, <1>2, <1>3, SameRest, QuietKeeps

LEMMA CrashKeeps ==
  ASSUME InteractionsInv, NEW r \in Requests, Crash(r)
  PROVE  InteractionsInv'
<1>1. Ingress!Next
  BY DEF Crash, Ingress!Next, Ingress!Ingest
<1>2. /\ UNCHANGED <<active, receipts, runs, audits, calls>>
      /\ job' = [job EXCEPT ![r] = NoJob]
  BY DEF Crash, Ingress!Crash
<1>3. req'[r].pc = "done" /\ \A s \in Requests \ {r} : req'[s] = req[s]
  BY AnswerIs DEF Crash, Ingress!Crash, InteractionsInv
<1> QED
  BY <1>1, <1>2, <1>3, SameRest, QuietKeeps

LEMMA SwitchKeeps ==
  ASSUME InteractionsInv, Switch
  PROVE  InteractionsInv'
<1>1. Ingress!Next /\ UNCHANGED <<receipts, req, runs, job, audits, calls>>
  BY DEF Switch, Ingress!Switch, Ingress!Next
<1>2. Ingress!IngressInv'
  BY <1>1, IngressKept DEF InteractionsInv
<1>3. \A s \in Requests : JobOK(s)' /\ PendingOK(s)'
  BY <1>1, OtherKeeps
<1>4. HandlerTypes' /\ EffectsOK' /\ SuccessIsOnRecord' /\ RestIsUntouched'
  BY <1>1, SameRest DEF InteractionsInv, HandlerInv, HandlerTypes, EffectsOK, Truthful,
         SuccessIsOnRecord, Good
<1> QED
  BY <1>2, <1>3, <1>4 DEF InteractionsInv, HandlerInv

(* A request that begins to dispatch has not touched its events.            *)
LEMMA AcceptKeeps ==
  ASSUME InteractionsInv, NEW r \in Requests, Ingress!Accept(r),
         UNCHANGED <<job, audits, calls>>
  PROVE  InteractionsInv'
<1> DEFINE b == req[r].batch
           D == Ingress!Dispatchable(b)
<1>1. Ingress!Next
  BY DEF Ingress!Next, Ingress!Ingest
<1>2. req[r].pc = "verified" /\ UNCHANGED <<active, runs>>
  BY DEF Ingress!Accept
<1>3. RestIsUntouched'
  BY RecordingRest DEF Ingress!Accept
<1>4. ASSUME Ingress!Answer(r, "storage_unavailable")
      PROVE  InteractionsInv'
  <2>1. req'[r].pc = "done" /\ \A s \in Requests \ {r} : req'[s] = req[s]
    BY <1>4, AnswerIs DEF InteractionsInv
  <2> QED
    BY <1>1, <1>2, <1>3, <2>1, QuietKeeps
<1>5. ASSUME NEW d \in 0..MaxAccept,
             req' = [req EXCEPT ![r].pc = "dispatching", ![r].todo = D,
                                ![r].at = d, ![r].opened = d,
                                ![r].count = Ingress!Cardinality(D)]
      PROVE  InteractionsInv'
  <2>1. req \in [Requests -> Ingress!Request] /\ req[r] \in Ingress!Request
    BY RequestFacts DEF InteractionsInv
  <2> DEFINE n == Ingress!Cardinality(D)
  <2>2. /\ req'[r].pc = "dispatching" /\ req'[r].todo = D /\ req'[r].batch = b
        /\ \A s \in Requests \ {r} : req'[s] = req[s]
    <3> HIDE DEF D, n
    <3>1. req' = [req EXCEPT ![r] =
            [[[[[req[r] EXCEPT !.pc = "dispatching"] EXCEPT !.todo = D] EXCEPT !.at = d]
               EXCEPT !.opened = d] EXCEPT !.count = n]]
      BY <1>5 DEF n
    <3> QED
      BY <2>1, <3>1 DEF Ingress!Request
  <2>3. JobOK(r)'
    BY <1>2, <2>2 DEF JobOK, InteractionsInv, HandlerInv
  <2>4. PendingOK(r)'
    <3> SUFFICES ASSUME NEW i \in D
                 PROVE  Untouched(b[i])'
      BY <2>2 DEF PendingOK, Untouched
    <3>1. receipts[b[i]].status = "absent" /\ b[i] \in Events
      BY RequestFacts
         DEF Ingress!Dispatchable, Ingress!Recorded, InteractionsInv
    <3> QED
      BY <2>2, <3>1 DEF InteractionsInv, HandlerInv, RestIsUntouched, Untouched
  <2> QED
    BY <1>1, <1>2, <1>3, <2>2, <2>3, <2>4, AroundKeeps
       DEF InteractionsInv, HandlerInv, HandlerTypes
<1> QED
  BY <1>4, <1>5 DEF Ingress!Accept

(* What is handed over was not touched before; what is given up is not      *)
(* touched at all.                                                          *)
LEMMA DispatchKeeps ==
  ASSUME InteractionsInv, NEW r \in Requests, Ingress!Dispatch(r),
         UNCHANGED <<job, audits, calls>>
  PROVE  InteractionsInv'
<1>1. Ingress!Next
  BY DEF Ingress!Next, Ingress!Ingest
<1>2. /\ req[r].pc = "dispatching" /\ req[r].todo # {}
      /\ UNCHANGED <<active, receipts, runs>>
  BY DEF Ingress!Dispatch
<1>3. /\ req \in [Requests -> Ingress!Request] /\ req[r] \in Ingress!Request
      /\ req[r].todo \in SUBSET Nat
  BY RequestFacts DEF InteractionsInv
<1>4. /\ req'[r].todo = req[r].todo /\ req'[r].batch = req[r].batch
      /\ \/ req'[r].pc = "handling"
         \/ req'[r].pc = "finalizing" /\ req'[r].verdict = "dispatch_deadline_exceeded"
      /\ \A s \in Requests \ {r} : req'[s] = req[s]
  <2>1. CASE req' = [req EXCEPT ![r].pc = "handling"]
    <3>1. req' = [req EXCEPT ![r] = [req[r] EXCEPT !.pc = "handling"]]
      BY <2>1
    <3> QED
      BY <1>3, <3>1 DEF Ingress!Request
  <2>2. CASE req' = [req EXCEPT ![r].pc = "finalizing", ![r].closed = TRUE,
                                ![r].verdict = "dispatch_deadline_exceeded"]
    <3>1. req' = [req EXCEPT ![r] =
            [[[req[r] EXCEPT !.pc = "finalizing"] EXCEPT !.closed = TRUE]
               EXCEPT !.verdict = "dispatch_deadline_exceeded"]]
      BY <2>2
    <3> QED
      BY <1>3, <3>1 DEF Ingress!Request
  <2> QED
    BY <2>1, <2>2 DEF Ingress!Dispatch
<1>5. job[r] = NoJob /\ Ingress!Dispatching(r) /\ Ingress!IngressInv
  BY <1>2 DEF InteractionsInv, HandlerInv, JobOK, Ingress!Dispatching
<1>6. \A i \in req[r].todo : Untouched(req[r].batch[i])
  BY <1>2, <1>5 DEF InteractionsInv, HandlerInv, PendingOK, InHand
<1>7. PendingOK(r)'
  BY <1>4, <1>6 DEF PendingOK, Untouched
<1>8. JobOK(r)'
  <2>1. CASE req'[r].pc = "handling"
    <3>1. Position(r)' = Position(r)
      BY <1>4 DEF Position, Ingress!Foremost
    <3>2. Event(r)' = Event(r)
      BY <1>4, <3>1 DEF Event
    <3>3. Untouched(Event(r))
      BY <1>2, <1>5, <1>6, AtEvent
    <3>4. /\ NoJob = [NoJob EXCEPT !.phase = "none"] /\ NoJob.phase = "none"
          /\ NoJob.local = 0 /\ NoJob.spent = 0
      BY NoJobIsJob DEF Job
    <3>5. 0 <= LocalReserve + MaxOverrun
      BY InteractionAssumption
    <3>6. Fits(r, job[r], audits[Event(r)], calls[Event(r)])'
      BY <1>5, <3>2, <3>3, <3>4, <3>5
         DEF Fits, Starting, Prepared, Ending, InTime, Untouched
    <3> QED
      BY <1>2, <1>4, <2>1, <3>6 DEF JobOK
  <2>2. CASE req'[r].pc # "handling"
    BY <1>5, <2>2 DEF JobOK
  <2> QED
    BY <2>1, <2>2
<1> QED
  BY <1>1, <1>2, <1>4, <1>7, <1>8, SameRest, AroundKeeps
     DEF InteractionsInv, HandlerInv, HandlerTypes

(* A receipt is settled: what is left was not touched, and what was given   *)
(* up neither.                                                              *)
LEMMA FinalizeKeeps ==
  ASSUME InteractionsInv, NEW r \in Requests, Ingress!Finalize(r),
         UNCHANGED <<job, audits, calls>>
  PROVE  InteractionsInv'
<1>1. Ingress!Next
  BY DEF Ingress!Next, Ingress!Ingest
<1>2. req[r].pc = "finalizing" /\ UNCHANGED <<active, runs>>
  BY DEF Ingress!Finalize
<1>3. PICK i \in req[r].todo :
        /\ Ingress!Foremost(req[r].todo, i)
        /\ \E d \in 0..FinalizeReserve, failed \in BOOLEAN :
             req' = [req EXCEPT ![r].pc = "dispatching",
                                ![r].todo = @ \ {i}, ![r].at = @ + d,
                                ![r].broken = @ \/ failed, ![r].verdict = "none"]
        /\ \/ Ingress!Settle(req[r].batch[i], req[r].verdict)
           \/ UNCHANGED receipts
  BY DEF Ingress!Finalize
<1>4. PICK d \in 0..FinalizeReserve, failed \in BOOLEAN :
        req' = [req EXCEPT ![r].pc = "dispatching",
                           ![r].todo = @ \ {i}, ![r].at = @ + d,
                           ![r].broken = @ \/ failed, ![r].verdict = "none"]
  BY <1>3
<1>5. /\ req \in [Requests -> Ingress!Request] /\ req[r] \in Ingress!Request
      /\ req[r].todo \in SUBSET Nat
      /\ receipts \in [Events -> Ingress!Receipt]
  BY RequestFacts DEF InteractionsInv
<1>6. /\ req'[r].pc = "dispatching" /\ req'[r].batch = req[r].batch
      /\ req'[r].todo = req[r].todo \ {i}
      /\ \A s \in Requests \ {r} : req'[s] = req[s]
  <2> DEFINE t == req[r].todo \ {i}
             a == req[r].at + d
             k == req[r].broken \/ failed
  <2>1. req' = [req EXCEPT ![r] =
          [[[[[req[r] EXCEPT !.pc = "dispatching"] EXCEPT !.todo = t] EXCEPT !.at = a]
             EXCEPT !.broken = k] EXCEPT !.verdict = "none"]]
    BY <1>4
  <2> HIDE DEF t, a, k
  <2>2. req'[r].pc = "dispatching" /\ req'[r].batch = req[r].batch
        /\ req'[r].todo = t /\ \A s \in Requests \ {r} : req'[s] = req[s]
    BY <1>5, <2>1 DEF Ingress!Request
  <2> QED
    BY <2>2 DEF t
<1>7. job[r] = NoJob /\ Ingress!Dispatching(r) /\ Ingress!IngressInv /\ PendingOK(r)
  BY <1>2 DEF InteractionsInv, HandlerInv, JobOK, Ingress!Dispatching
<1>8. JobOK(r)'
  BY <1>6, <1>7 DEF JobOK
<1>9. PendingOK(r)'
  <2> SUFFICES ASSUME NEW k \in req[r].todo \ {i}
               PROVE  Untouched(req[r].batch[k])
    BY <1>6 DEF PendingOK, Untouched
  <2>1. ~Ingress!Foremost(req[r].todo, k)
    BY <1>3, <1>5 DEF Ingress!Foremost
  <2> QED
    BY <1>7, <2>1 DEF PendingOK
<1>10. RestIsUntouched'
  <2> DEFINE e0 == req[r].batch[i]
  <2>1. /\ e0 \in Events /\ receipts[e0].status = "processing"
        /\ receipts[e0].code # "dispatch_deadline_exceeded"
    BY <1>7, OneRequestPerEvent
  <2>2. req[r].verdict = "dispatch_deadline_exceeded" => Untouched(e0)
    BY <1>2, <1>7 DEF PendingOK, InHand
  <2> HIDE DEF e0
  <2>3. ASSUME receipts' = [receipts EXCEPT ![e0] =
                              Ingress!Settled(receipts[e0], req[r].verdict)]
        PROVE  /\ \A e \in Events \ {e0} : receipts'[e] = receipts[e]
               /\ receipts'[e0].status \in {"processed", "failed"}
               /\ receipts'[e0].code = "dispatch_deadline_exceeded"
                    => req[r].verdict = "dispatch_deadline_exceeded"
    <3> DEFINE x == receipts[e0]
               v == req[r].verdict
    <3>1. x \in Ingress!Receipt
      BY <1>5, <2>1
    <3>2. Ingress!Settled(x, v) = IF v = "succeeded"
                                  THEN [x EXCEPT !.status = "processed"]
                                  ELSE [[x EXCEPT !.status = "failed"] EXCEPT !.code = v]
      BY Zenon DEF Ingress!Settled
    <3>3. receipts'[e0] = Ingress!Settled(x, v)
          /\ \A e \in Events \ {e0} : receipts'[e] = receipts[e]
      BY <1>5, <2>1, <2>3
    <3> HIDE DEF x, v
    <3>4. /\ receipts'[e0].status \in {"processed", "failed"}
          /\ receipts'[e0].code \in {x.code, v}
      BY <3>1, <3>2, <3>3 DEF Ingress!Receipt
    <3> QED
      BY <2>1, <3>3, <3>4 DEF x, v
  <2>4. CASE receipts' = receipts
    BY <2>4 DEF InteractionsInv, HandlerInv, RestIsUntouched, Untouched
  <2>5. CASE receipts' = [receipts EXCEPT ![e0] =
                            Ingress!Settled(receipts[e0], req[r].verdict)]
    <3>1. ASSUME NEW e \in Events,
                 \/ receipts'[e].status \in {"absent", "unsupported"}
                 \/ receipts'[e].code = "dispatch_deadline_exceeded"
          PROVE  Untouched(e)
      <4>1. CASE e = e0
        BY <2>2, <2>3, <2>5, <3>1, <4>1
      <4>2. CASE e # e0
        BY <2>3, <2>5, <3>1, <4>2 DEF InteractionsInv, HandlerInv, RestIsUntouched
      <4> QED
        BY <4>1, <4>2
    <3> QED
      BY <3>1 DEF RestIsUntouched, Untouched
  <2> QED
    BY <1>3, <2>1, <2>4, <2>5 DEF Ingress!Settle, e0
<1> QED
  BY <1>1, <1>2, <1>6, <1>8, <1>9, <1>10, AroundKeeps
     DEF InteractionsInv, HandlerInv, HandlerTypes

-----------------------------------------------------------------------------
(* The whole *)

LEMMA InitInteractions == Init => InteractionsInv
<1> SUFFICES ASSUME Init
             PROVE  InteractionsInv
  OBVIOUS
<1>1. Ingress!IngressInv
  <2>1. IngressProofs!Init
    BY DEF Init, Ingress!Init, Ingress!Absent, Ingress!Idle, IngressProofs!Init,
           IngressProofs!Absent, IngressProofs!Idle
  <2>2. IngressProofs!IngressInv
    BY <2>1, IngressProofs!InitIngress, InteractionAssumption
  <2> QED
    BY <2>2, SameInvariant
<1>2. /\ job = [r \in Requests |-> NoJob]
      /\ audits = [e \in Events |-> NoRow] /\ calls = [e \in Events |-> <<>>]
      /\ req = [r \in Requests |-> Ingress!Idle] /\ runs = {}
  BY DEF Init, Ingress!Init
<1>3. NoRow \in Audit /\ NoRow.reply = "not_started" /\ NoRow.outcome = "none"
  BY DEF NoRow, Row, Audit, Kinds, Outcomes, ReplyOutcomes
<1>4. HandlerTypes
  BY <1>2, <1>3, NoJobIsJob DEF HandlerTypes
<1>5. \A r \in Requests : JobOK(r) /\ PendingOK(r)
  BY <1>2 DEF JobOK, PendingOK, Ingress!Dispatching, Ingress!Idle
<1>6. RestIsUntouched /\ SuccessIsOnRecord
  BY <1>2 DEF RestIsUntouched, SuccessIsOnRecord, Untouched
<1>7. EffectsOK
  BY <1>2, <1>3, NothingClaimed DEF EffectsOK
<1> QED
  BY <1>1, <1>4, <1>5, <1>6, <1>7 DEF InteractionsInv, HandlerInv

LEMMA StutterInteractions == InteractionsInv /\ UNCHANGED vars => InteractionsInv'
<1> SUFFICES ASSUME InteractionsInv, UNCHANGED vars
             PROVE  InteractionsInv'
  OBVIOUS
<1>1. UNCHANGED <<active, receipts, req, runs, job, audits, calls>>
  BY DEF vars
<1>2. Ingress!IngressInv'
  BY <1>1, IngressKept DEF InteractionsInv, ingressVars
<1>3. \A s \in Requests : JobOK(s)' /\ PendingOK(s)'
  BY <1>1, OtherKeeps
<1>4. HandlerTypes' /\ EffectsOK' /\ SuccessIsOnRecord' /\ RestIsUntouched'
  BY <1>1, SameRest DEF InteractionsInv, HandlerInv, HandlerTypes, EffectsOK, Truthful,
         SuccessIsOnRecord, Good
<1> QED
  BY <1>2, <1>3, <1>4 DEF InteractionsInv, HandlerInv

LEMMA NextInteractions == InteractionsInv /\ [Next]_vars => InteractionsInv'
<1> SUFFICES ASSUME InteractionsInv, [Next]_vars
             PROVE  InteractionsInv'
  OBVIOUS
<1>1. CASE Switch
  BY <1>1, SwitchKeeps
<1>2. ASSUME NEW r \in Requests, Around(r)
      PROVE  InteractionsInv'
  BY <1>2, ReceiveKeeps, AcceptKeeps, DispatchKeeps, FinalizeKeeps, RespondKeeps
     DEF Around
<1>3. ASSUME NEW r \in Requests, HandleLocal(r)
      PROVE  InteractionsInv'
  BY <1>3, HandleLocalStep
<1>4. ASSUME NEW r \in Requests, Interact(r)
      PROVE  InteractionsInv'
  BY <1>4, BeginStep, ReserveAuditStep, CredentialStep, ReplyStep, ActStep, FinishStep
     DEF Interact
<1>5. ASSUME NEW r \in Requests, Crash(r)
      PROVE  InteractionsInv'
  BY <1>5, CrashKeeps
<1>6. CASE UNCHANGED vars
  BY <1>6, StutterInteractions
<1> QED
  BY <1>1, <1>2, <1>3, <1>4, <1>5, <1>6 DEF Next


(* Every step is one of the ingress, or none of its business.               *)
LEMMA StepOfIngress ==
  InteractionsInv /\ [Next]_vars => [Ingress!Next]_(Ingress!vars)
<1> SUFFICES ASSUME InteractionsInv, [Next]_vars
             PROVE  Ingress!Next \/ UNCHANGED ingressVars
  BY DEF ingressVars, Ingress!vars
<1>1. CASE Switch
  BY <1>1 DEF Switch, Ingress!Next
<1>2. ASSUME NEW r \in Requests, Around(r) \/ HandleLocal(r) \/ Crash(r)
      PROVE  Ingress!Next
  BY <1>2 DEF Around, HandleLocal, Crash, Ingress!Next, Ingress!Ingest
<1>3. ASSUME NEW r \in Requests, Begin(r) \/ Credential(r) \/ Reply(r) \/ Act(r)
      PROVE  UNCHANGED ingressVars
  BY <1>3 DEF Begin, Credential, Reply, Act
<1>4. ASSUME NEW r \in Requests, ReserveAudit(r) \/ Finish(r)
      PROVE  Ingress!Next \/ UNCHANGED ingressVars
  BY <1>4, ReserveAuditStep, FinishStep DEF Ingress!Next
<1>5. CASE UNCHANGED vars
  BY <1>5 DEF vars, ingressVars
<1> QED
  BY <1>1, <1>2, <1>3, <1>4, <1>5 DEF Next, Interact

(* The invariant holds in every behaviour.                                  *)
THEOREM InteractionsIsInvariant == Spec => []InteractionsInv
<1>1. Init => InteractionsInv
  BY InitInteractions
<1>2. InteractionsInv /\ [Next]_vars => InteractionsInv'
  BY NextInteractions
<1> QED
  BY <1>1, <1>2, PTL DEF Spec

(* Every variable of the handler and of the ingress around it holds what    *)
(* its table, request or call can hold.                                     *)
THEOREM InteractionsTypes == Spec => []TypeOK
<1>1. InteractionsInv => TypeOK
  BY DEF InteractionsInv, HandlerInv, HandlerTypes, Ingress!IngressInv, TypeOK
<1> QED
  BY <1>1, InteractionsIsInvariant, PTL

(* An event leads to one reply or one action at most (OneEffectPerEvent):   *)
(* an effect is only begun after the insert of an audit row that did not    *)
(* exist, by the one request that recorded the event, which calls its       *)
(* handler once and never repeats a call of its own.                        *)
THEOREM EventsHaveOneEffect == Spec => []OneEffectPerEvent
<1>1. InteractionsInv => OneEffectPerEvent
  BY DEF InteractionsInv, HandlerInv, EffectsOK, OneEffectPerEvent
<1> QED
  BY <1>1, InteractionsIsInvariant, PTL

(* What the audit says of the effects is true, and the receipts agree with  *)
(* it (AuditTellsTheTruth), whatever dies or fails between a row, its       *)
(* effect and its receipt.                                                  *)
THEOREM AuditIsTrue == Spec => []AuditTellsTheTruth
<1>1. InteractionsInv => EffectsOnRecord
  BY DEF InteractionsInv, HandlerInv, EffectsOK, Truthful, EffectsOnRecord
<1>2. InteractionsInv => ReceiptMatchesAudit
  <2> SUFFICES ASSUME InteractionsInv, NEW e \in ExternalEvents
               PROVE  /\ receipts[e].status = "processed" => Good(audits[e])
                      /\ receipts[e].status \in {"absent", "unsupported"}
                         \/ receipts[e].code = "dispatch_deadline_exceeded"
                         => audits[e] = NoRow
    BY DEF ReceiptMatchesAudit
  <2>1. e \in Events
    BY InteractionAssumption
  <2>2. ASSUME receipts[e].status = "processed"
        PROVE  Good(audits[e])
    <3>1. PICK x \in runs : x.event = e /\ x.ok
      BY <2>1, <2>2
         DEF InteractionsInv, Ingress!IngressInv, Ingress!ReceiptsTellTheTruth
    <3> QED
      BY <3>1 DEF InteractionsInv, HandlerInv, SuccessIsOnRecord
  <2>3. ASSUME receipts[e].status \in {"absent", "unsupported"}
               \/ receipts[e].code = "dispatch_deadline_exceeded"
        PROVE  audits[e] = NoRow
    BY <2>1, <2>3 DEF InteractionsInv, HandlerInv, RestIsUntouched, Untouched
  <2> QED
    BY <2>2, <2>3
<1>3. InteractionsInv => AuditTellsTheTruth
  BY <1>1, <1>2 DEF AuditTellsTheTruth
<1> QED
  BY <1>3, InteractionsIsInvariant, PTL

(* The handler with all its steps implements the ingress and the one step   *)
(* it gives it (ImplementsIngress): it returns once, within its reserve,    *)
(* the time the ingress leaves for LINE and one overrun.  So whatever is    *)
(* proved of WebhookIngress holds of the two together.                      *)
THEOREM HandlerImplementsIngress == Spec => ImplementsIngress
<1>1. Init => Ingress!Init
  BY DEF Init
<1>2. InteractionsInv /\ [Next]_vars => [Ingress!Next]_(Ingress!vars)
  BY StepOfIngress
<1> QED
  BY <1>1, <1>2, InteractionsIsInvariant, PTL DEF Spec, ImplementsIngress, Ingress!Spec

=============================================================================
