--------------------------- MODULE WebhookIngress ---------------------------
(***************************************************************************)
(* The webhook ingress (backend/linewebhooks): LINE posts batches of events *)
(* to a channel; each event is recorded once, in one transaction with the   *)
(* rest of its batch, and the events this request recorded are handed to    *)
(* their handlers, one after the other, while the two seconds LINE waits    *)
(* allow it.  LINE repeats a batch it got no 200 for, batches overlap, the  *)
(* database fails and workers die.                                          *)
(*                                                                         *)
(* Time is the time since the request came in.  Reserves and handler times  *)
(* are in one unit; lock waits are part of the time a step takes.           *)
(***************************************************************************)
EXTENDS Integers, Sequences, FiniteSets

CONSTANTS
  Requests,         \* HTTP calls to POST /api/line/webhook/<channel>
  Events,           \* webhookEventIds
  LocalEvents,      \* follow and unfollow: execution profile "local"
  ExternalEvents,   \* message and postback: "deadline_managed_external"
  Batches,          \* the bodies LINE may send: sequences of events
  Nobody,           \* no request
  Deadline,         \* _DEADLINE_SECONDS
  LocalReserve,     \* _LOCAL_HANDLER_RESERVE_SECONDS
  FinalizeReserve,  \* _RECEIPT_FINALIZE_RESERVE_SECONDS
  ResponseReserve,  \* _HTTP_RESPONSE_RESERVE_SECONDS
  MinReply,         \* _MINIMUM_REPLY_START_SECONDS
  MaxReply,         \* _MAXIMUM_REPLY_TOTAL_SECONDS
  MaxAccept,        \* bound on the time before the batch is recorded
  MaxOverrun,       \* bound on the time a handler exceeds its reserve by
  StorageFaults     \* whether the database may fail

ASSUME IngressAssumption ==
  /\ LocalEvents \subseteq Events /\ ExternalEvents \subseteq Events
  /\ LocalEvents \cap ExternalEvents = {}
  /\ Batches \subseteq Seq(Events)
  /\ Nobody \notin Requests
  /\ Deadline \in Nat /\ LocalReserve \in Nat /\ FinalizeReserve \in Nat
  /\ ResponseReserve \in Nat /\ ResponseReserve <= Deadline
  /\ MinReply \in Nat /\ MaxReply \in Nat
  /\ MaxAccept \in Nat /\ MaxOverrun \in Nat
  /\ StorageFaults \in BOOLEAN

VARIABLES
  active,   \* LineChannel.is_active
  receipts, \* table linewebhooks_event_receipt, by webhook_event_id
  req,      \* the requests being handled
  runs      \* the handler calls made so far

vars == <<active, receipts, req, runs>>

----------------------------------------------------------------------------
(* Types *)

Statuses == {"absent", "processing", "processed", "failed", "unsupported"}
Verdicts == {"succeeded", "handler_failed", "dispatch_deadline_exceeded"}
Replies == {"none", "accepted", "channel_unavailable", "rejected",
            "storage_unavailable", "lost"}
Pcs == {"idle", "verified", "dispatching", "handling", "finalizing", "done"}

(* creator is the request that inserted the row, code the failure_code.     *)
Receipt == [status : Statuses, code : Verdicts \cup {"none"},
            creator : Requests \cup {Nobody}]

(* todo holds the positions of the batch still to be dispatched, opened the *)
(* time dispatch began and count how many positions it began with.          *)
Request == [pc : Pcs, batch : Seq(Events), todo : SUBSET Nat, at : Nat,
            opened : Nat, count : Nat, closed : BOOLEAN, broken : BOOLEAN,
            verdict : Verdicts \cup {"none"}, reply : Replies]

Run == [request : Requests, position : Nat, event : Events, ok : BOOLEAN]

TypeOK ==
  /\ active \in BOOLEAN
  /\ receipts \in [Events -> Receipt]
  /\ req \in [Requests -> Request]
  /\ runs \subseteq Run

----------------------------------------------------------------------------
(* Helpers *)

Absent == [status |-> "absent", code |-> "none", creator |-> Nobody]
Idle == [pc |-> "idle", batch |-> <<>>, todo |-> {}, at |-> 0, opened |-> 0,
         count |-> 0, closed |-> FALSE, broken |-> FALSE, verdict |-> "none",
         reply |-> "none"]

Recorded(e) == receipts[e].status # "absent"
Supported(e) == e \in LocalEvents \cup ExternalEvents

Answer(r, code) ==
  req' = [req EXCEPT ![r].pc = "done", ![r].reply = code, ![r].todo = {},
                     ![r].verdict = "none"]

(* Position i is the first of its event, so that accept_batch finds no      *)
(* decision for it in decisions_by_event_id.                                *)
First(b, i) == \A j \in DOMAIN b : b[j] = b[i] => i <= j

(* Mutant: an event that is twice in a batch is dispatched twice.           *)
Dispatchable_Repeated(b) ==
  {i \in DOMAIN b : ~Recorded(b[i]) /\ Supported(b[i])}

(* The positions this request records and dispatches.                       *)
Dispatchable(b) ==
  {i \in DOMAIN b : First(b, i) /\ ~Recorded(b[i]) /\ Supported(b[i])}

Foremost(todo, i) == i \in todo /\ \A j \in todo : i <= j

(* required_reserve of n pending dispatches.                                *)
Reserve(n) == n * (LocalReserve + FinalizeReserve) + ResponseReserve

----------------------------------------------------------------------------
(* Before anything is recorded *)

(* ingest up to accept_batch: the channel's credential, then the signature, *)
(* then the payload; an empty batch, LINE's connectivity test, is answered  *)
(* at once.                                                                 *)
Receive(r, b) ==
  /\ req[r].pc = "idle"
  /\ \/ active /\ b # <<>>
        /\ req' = [req EXCEPT ![r].pc = "verified", ![r].batch = b]
     \/ active /\ b = <<>> /\ Answer(r, "accepted")
     \/ active /\ Answer(r, "rejected")
     \/ ~active /\ Answer(r, "channel_unavailable")
  /\ UNCHANGED <<active, receipts, runs>>

(* The rows after the batch: a new event is inserted as processing, or as   *)
(* unsupported if no handler is registered for it; a known one is read.     *)
Recording(r, b) ==
  [e \in Events |->
     IF ~Recorded(e) /\ \E i \in DOMAIN b : b[i] = e
     THEN [status |-> IF Supported(e) THEN "processing" ELSE "unsupported",
           code |-> "none", creator |-> r]
     ELSE receipts[e]]

(* accept_batch: one transaction under the channel lock.  When the database *)
(* fails nothing is known of the commit: the rows may be there.             *)
Accept(r) ==
  LET b == req[r].batch IN
  /\ req[r].pc = "verified"
  /\ \/ \E d \in 0..MaxAccept :
          /\ receipts' = Recording(r, b)
          /\ req' = [req EXCEPT ![r].pc = "dispatching",
                                ![r].todo = Dispatchable(b),
                                ![r].at = d, ![r].opened = d,
                                ![r].count = Cardinality(Dispatchable(b))]
     \/ /\ StorageFaults
        /\ receipts' \in {receipts, Recording(r, b)}
        /\ Answer(r, "storage_unavailable")
  /\ UNCHANGED <<active, runs>>

----------------------------------------------------------------------------
(* _dispatch *)

(* Mutant: the clock is compared once, when the first event is dispatched.  *)
OutOfTime_First(r) ==
  \/ req[r].closed
  \/ /\ Cardinality(req[r].todo) = req[r].count
     /\ req[r].at + Reserve(Cardinality(req[r].todo)) > Deadline

(* dispatch_closed: once the rest does not fit, nothing is dispatched any   *)
(* more.                                                                    *)
OutOfTime(r) ==
  \/ req[r].closed
  \/ req[r].at + Reserve(Cardinality(req[r].todo)) > Deadline

(* The next event is handed over, or given up for lack of time.             *)
Dispatch(r) ==
  /\ req[r].pc = "dispatching" /\ req[r].todo # {}
  /\ req' = IF OutOfTime(r)
            THEN [req EXCEPT ![r].pc = "finalizing", ![r].closed = TRUE,
                             ![r].verdict = "dispatch_deadline_exceeded"]
            ELSE [req EXCEPT ![r].pc = "handling"]
  /\ UNCHANGED <<active, receipts, runs>>

(* external_io_deadline_monotonic: what follows this event keeps its time.  *)
Cutoff(n) == Deadline - Reserve(n)

(* The time a handler may take that keeps its contract: its local reserve,  *)
(* and an external call only up to the cutoff, if it is worth starting.     *)
Allowance(e, now, n) ==
  IF e \in ExternalEvents /\ now + MinReply <= Cutoff(n)
  THEN LocalReserve + (IF now + MaxReply <= Cutoff(n) THEN MaxReply
                       ELSE Cutoff(n) - now)
  ELSE LocalReserve

(* handler.handle: HandlerSucceeded, or HandlerFailed or an exception.      *)
Handle(r) ==
  LET n == Cardinality(req[r].todo) IN
  /\ req[r].pc = "handling"
  /\ \E i \in req[r].todo, ok \in BOOLEAN :
       /\ Foremost(req[r].todo, i)
       /\ \E d \in 0..(Allowance(req[r].batch[i], req[r].at, n) + MaxOverrun) :
            req' = [req EXCEPT ![r].pc = "finalizing", ![r].at = @ + d,
                      ![r].verdict = IF ok THEN "succeeded"
                                     ELSE "handler_failed"]
       /\ runs' = runs \cup {[request |-> r, position |-> i,
                              event |-> req[r].batch[i], ok |-> ok]}
  /\ UNCHANGED <<active, receipts>>

(* Mutant: the outcome of the handler is not looked at.                     *)
Settled_Unread(row, verdict) ==
  IF verdict = "dispatch_deadline_exceeded"
  THEN [row EXCEPT !.status = "failed", !.code = verdict]
  ELSE [row EXCEPT !.status = "processed"]

(* mark_processed and mark_failed on a processing row.                      *)
Settled(row, verdict) ==
  IF verdict = "succeeded" THEN [row EXCEPT !.status = "processed"]
  ELSE [row EXCEPT !.status = "failed", !.code = verdict]

(* _conditional_update, WHERE status = 'processing'.                        *)
Settle(e, verdict) ==
  receipts' = IF receipts[e].status = "processing"
              THEN [receipts EXCEPT ![e] = Settled(@, verdict)]
              ELSE receipts

(* The update of the receipt; a database error is remembered, the loop goes *)
(* on.                                                                      *)
Finalize(r) ==
  /\ req[r].pc = "finalizing"
  /\ \E i \in req[r].todo :
       /\ Foremost(req[r].todo, i)
       /\ \E d \in 0..FinalizeReserve, failed \in BOOLEAN :
            /\ failed => StorageFaults
            /\ req' = [req EXCEPT ![r].pc = "dispatching",
                                  ![r].todo = @ \ {i}, ![r].at = @ + d,
                                  ![r].broken = @ \/ failed,
                                  ![r].verdict = "none"]
            /\ \/ Settle(req[r].batch[i], req[r].verdict)
               \/ failed /\ UNCHANGED receipts
  /\ UNCHANGED <<active, runs>>

(* Mutant: a failed update of a receipt is not reported.                    *)
Result_Accepted(r) == "accepted"

(* The response once every event is dispatched: 200, or 503 if a receipt    *)
(* could not be settled.                                                    *)
Result(r) == IF req[r].broken THEN "storage_unavailable" ELSE "accepted"

Respond(r) ==
  /\ req[r].pc = "dispatching" /\ req[r].todo = {}
  /\ Answer(r, Result(r))
  /\ UNCHANGED <<active, receipts, runs>>

(* The worker dies.                                                         *)
Crash(r) ==
  /\ req[r].pc \notin {"idle", "done"}
  /\ Answer(r, "lost")
  /\ UNCHANGED <<active, receipts, runs>>

(* The channel is switched off or on in the meantime.                       *)
Switch == active' = ~active /\ UNCHANGED <<receipts, req, runs>>

----------------------------------------------------------------------------
(* Specification *)

Init ==
  /\ active = TRUE
  /\ receipts = [e \in Events |-> Absent]
  /\ req = [r \in Requests |-> Idle]
  /\ runs = {}

Ingest(r) ==
  \/ \E b \in Batches : Receive(r, b)
  \/ Accept(r) \/ Dispatch(r) \/ Finalize(r) \/ Respond(r) \/ Crash(r)

Next == Switch \/ \E r \in Requests : Ingest(r) \/ Handle(r)

Spec == Init /\ [][Next]_vars

----------------------------------------------------------------------------
(* Properties *)

(* An event is handed to its handler at most once, whether it comes twice   *)
(* in a batch, in two batches at the same time, again after a failure or    *)
(* after the death of the worker that recorded it (accept_batch).           *)
HandledAtMostOnce == \A x, y \in runs : x.event = y.event => x = y

(* A settled receipt says what happened to its event: processed, that its   *)
(* handler succeeded; failed, that it ran and did not, or never ran for     *)
(* lack of time; unsupported, that no handler saw it.                       *)
ReceiptsTellTheTruth ==
  \A e \in Events :
    /\ receipts[e].status = "processed" => \E x \in runs : x.event = e /\ x.ok
    /\ receipts[e].code = "handler_failed" =>
         \E x \in runs : x.event = e /\ ~x.ok
    /\ receipts[e].code = "dispatch_deadline_exceeded" =>
         \A x \in runs : x.event # e
    /\ receipts[e].status \in {"absent", "unsupported"} =>
         \A x \in runs : x.event # e

(* 200 is only answered when every event of the batch is on record and none *)
(* that this request recorded is left in processing.                        *)
AcceptedIsSettled ==
  \A r \in Requests : req[r].reply = "accepted" =>
    /\ \A i \in DOMAIN req[r].batch : Recorded(req[r].batch[i])
    /\ \A e \in Events :
         receipts[e].creator = r => receipts[e].status # "processing"

(* The deadline is kept with the response reserve to spare, or missed by no *)
(* more than one handler's overrun, since every dispatch looks at the clock *)
(* again; a batch recorded too late costs the updates of its receipts.      *)
AnsweredInTime ==
  \A r \in Requests : req[r].reply \in {"accepted", "storage_unavailable"} =>
    \/ req[r].at + ResponseReserve <= Deadline + MaxOverrun
    \/ req[r].at <= req[r].opened + req[r].count * FinalizeReserve

----------------------------------------------------------------------------
(* The inductive invariant behind the properties above *)

Dispatching(r) == req[r].pc \in {"dispatching", "handling", "finalizing"}

(* The event a request is dispatching, and whether it has been handled.     *)
Handled(r, i) ==
  /\ req[r].pc = "finalizing" /\ Foremost(req[r].todo, i)
  /\ req[r].verdict # "dispatch_deadline_exceeded"

(* What is still to be dispatched was recorded by its request, once, and is *)
(* in processing; it was handled only if its verdict waits to be written.   *)
TodoIsOwned ==
  \A r \in Requests : Dispatching(r) =>
    \A i \in req[r].todo :
      /\ i \in DOMAIN req[r].batch
      /\ receipts[req[r].batch[i]].status = "processing"
      /\ receipts[req[r].batch[i]].creator = r
      /\ \A j \in req[r].todo : req[r].batch[j] = req[r].batch[i] => i = j
      /\ (\E x \in runs : x.event = req[r].batch[i]) => Handled(r, i)

(* A pending verdict is the outcome of the call.                            *)
VerdictsAreTrue ==
  \A r \in Requests : req[r].pc = "finalizing" =>
    /\ req[r].todo # {} /\ req[r].verdict # "none"
    /\ \A i \in req[r].todo : Foremost(req[r].todo, i) =>
         /\ req[r].verdict = "succeeded" =>
              \E x \in runs : x.event = req[r].batch[i] /\ x.ok
         /\ req[r].verdict = "handler_failed" =>
              \E x \in runs : x.event = req[r].batch[i] /\ ~x.ok

(* What the rows say of themselves (linewh_receipt_status_consistent).      *)
RowsAreValid ==
  /\ \A e \in Events :
       /\ receipts[e].status = "absent" => receipts[e] = Absent
       /\ receipts[e].status = "failed" <=>
            receipts[e].code \in {"handler_failed", "dispatch_deadline_exceeded"}
       /\ receipts[e].code # "succeeded"
       /\ receipts[e].creator # Nobody =>
            req[receipts[e].creator].pc \notin {"idle", "verified"}
  /\ \A x \in runs : Recorded(x.event)

(* What a request recorded and has not settled is still to be dispatched,   *)
(* or the request is broken or gone.                                        *)
OpenIsPending ==
  \A r \in Requests :
    /\ Dispatching(r) /\ ~req[r].broken =>
         \A e \in Events :
           receipts[e].creator = r /\ receipts[e].status = "processing"
             => \E i \in req[r].todo : req[r].batch[i] = e
    /\ Dispatching(r) =>
         \A i \in DOMAIN req[r].batch : Recorded(req[r].batch[i])

(* The time needed to settle what is pending is still there.                *)
TimeIsKept ==
  \A r \in Requests : Dispatching(r) =>
    LET n == Cardinality(req[r].todo) IN
    /\ IsFiniteSet(req[r].todo)
    /\ req[r].pc = "handling" => req[r].at + Reserve(n) <= Deadline
    /\ \/ req[r].at + n * FinalizeReserve + ResponseReserve
            <= Deadline + MaxOverrun
       \/ req[r].at + n * FinalizeReserve
            <= req[r].opened + req[r].count * FinalizeReserve

(* A request that waits has no answer, and has spent no time before the     *)
(* batch is recorded.                                                       *)
Unanswered ==
  \A r \in Requests :
    /\ req[r].pc # "done" => req[r].reply = "none"
    /\ req[r].pc = "idle" => req[r].batch = <<>>
    /\ req[r].pc \in {"idle", "verified"} => req[r].at = 0

IngressInv ==
  /\ TypeOK
  /\ Unanswered /\ TodoIsOwned /\ VerdictsAreTrue /\ RowsAreValid /\ OpenIsPending
  /\ TimeIsKept
  /\ HandledAtMostOnce /\ ReceiptsTellTheTruth /\ AcceptedIsSettled
  /\ AnsweredInTime
=============================================================================
