---------------------------- MODULE Interactions ----------------------------
(***************************************************************************)
(* The interaction handler (backend/lineinteractions) inside the webhook    *)
(* ingress: a text message may be the command that is replied to, once, by  *)
(* the reply API; a postback may name an action that is carried out, once.  *)
(* A row of the audit is reserved before the effect and replaced after it,  *)
(* each in a transaction of its own that may fail, and what the handler     *)
(* returns settles the receipt of the event.                                *)
(*                                                                         *)
(* This module refines one step of WebhookIngress, Handle.                  *)
(***************************************************************************)
EXTENDS Integers, Sequences, FiniteSets

CONSTANTS
  Requests, Events, LocalEvents, ExternalEvents, Batches, Nobody,
  Deadline, LocalReserve, FinalizeReserve, ResponseReserve,
  MinReply, MaxReply, MaxAccept, MaxOverrun, StorageFaults,
  Messages,         \* the external events that are messages
  Postbacks         \* the external events that are postbacks

ASSUME InteractionAssumption ==
  /\ ExternalEvents = Messages \cup Postbacks
  /\ Messages \cap Postbacks = {}
  /\ LocalEvents \subseteq Events /\ ExternalEvents \subseteq Events
  /\ LocalEvents \cap ExternalEvents = {}
  /\ Batches \subseteq Seq(Events)
  /\ Nobody \notin Requests
  /\ Deadline \in Nat /\ LocalReserve \in Nat /\ FinalizeReserve \in Nat
  /\ ResponseReserve \in Nat /\ ResponseReserve <= Deadline
  /\ MinReply \in Nat /\ MaxReply \in Nat
  /\ MaxAccept \in Nat /\ MaxOverrun \in Nat
  /\ StorageFaults \in BOOLEAN

VARIABLES
  active, receipts, req, runs,  \* of WebhookIngress
  job,     \* the handler call of each request
  audits,  \* table lineinteractions_interaction_audit, by webhook_event_id
  calls    \* the calls of the reply API and of action handlers, per event

Ingress == INSTANCE WebhookIngress

ingressVars == <<active, receipts, req, runs>>
vars == <<active, receipts, req, runs, job, audits, calls>>

----------------------------------------------------------------------------
(* Types *)

(* InteractionOutcome. no_op stands for unknown, invalid, out_of_scope and  *)
(* unlinked, action_declined for action_no_change and action_rejected: they *)
(* are recorded and answered alike.                                         *)
Outcomes == {"none", "no_op", "command_processed", "processing_failed",
             "credential_unavailable", "deadline_exceeded",
             "action_succeeded", "action_declined", "handler_failed"}
ReplyOutcomes == {"accepted", "rejected", "unknown", "not_started"}
Kinds == {"none", "command", "action"}

Audit == [kind : Kinds, outcome : Outcomes, reply : ReplyOutcomes]

Phases == {"none", "reserving", "credential", "replying", "acting", "finishing"}

(* row is what _finish will write, spent the time used so far, local the    *)
(* part of it that was not spent waiting for LINE, budget what a reply may  *)
(* take.                                                                    *)
Job == [phase : Phases, row : Audit, reserved : BOOLEAN, spent : Nat,
        local : Nat, budget : 0..MaxReply]

(* happened: the reply was accepted by LINE, the action took effect.        *)
Call == [kind : {"command", "action"}, happened : BOOLEAN]

TypeOK ==
  /\ Ingress!TypeOK
  /\ job \in [Requests -> Job]
  /\ audits \in [Events -> Audit]
  /\ calls \in [Events -> Seq(Call)]

----------------------------------------------------------------------------
(* Helpers *)

Row(kind, outcome, reply) == [kind |-> kind, outcome |-> outcome, reply |-> reply]
NoRow == Row("none", "none", "not_started")
NoJob == [phase |-> "none", row |-> NoRow, reserved |-> FALSE, spent |-> 0,
          local |-> 0, budget |-> 0]

Position(r) == CHOOSE i \in req[r].todo : Ingress!Foremost(req[r].todo, i)
Event(r) == req[r].batch[Position(r)]
Pending(r) == Cardinality(req[r].todo)

In(r, phase) == req[r].pc = "handling" /\ job[r].phase = phase

(* The time the handler may spend without waiting for LINE: its reserve,    *)
(* and what a slow database adds to it.                                     *)
LocalTime(r) == 0..(LocalReserve + MaxOverrun - job[r].local)

(* The audit row is reserved and the effect is next.                        *)
Goto(r, phase, fields) ==
  job' = [job EXCEPT ![r] = [fields EXCEPT !.phase = phase]]

(* handle returns to the ingress, d after the last step.                    *)
Return(r, ok, d) ==
  /\ req' = [req EXCEPT ![r].pc = "finalizing",
                        ![r].at = @ + job[r].spent + d,
                        ![r].verdict = IF ok THEN "succeeded"
                                       ELSE "handler_failed"]
  /\ runs' = runs \cup {[request |-> r, position |-> Position(r),
                         event |-> Event(r), ok |-> ok]}
  /\ job' = [job EXCEPT ![r] = NoJob]

----------------------------------------------------------------------------
(* The handler *)

(* What is said of an event put aside: it names no operation, something on  *)
(* the way to one failed, or what is registered for an action cannot be     *)
(* called.                                                                  *)
PutAside(e) ==
  {Row("none", outcome, "not_started") : outcome \in {"no_op", "processing_failed"}}
  \cup {Row("action", "handler_failed", "not_started") : x \in {e} \cap Postbacks}

(* parse, the directories and the registries: an event put aside is         *)
(* finished, the command and the registered actions go on.                  *)
Begin(r) ==
  /\ In(r, "none") /\ Event(r) \in ExternalEvents
  /\ \/ \E row \in PutAside(Event(r)) : Goto(r, "finishing", [NoJob EXCEPT !.row = row])
     \/ Goto(r, "reserving", NoJob)
  /\ UNCHANGED <<ingressVars, audits, calls>>

(* Mutant: the effect does not depend on the reservation.                   *)
Reserved_Always(row, written) == TRUE

(* _reserve_external_audit: only an insert that is known to be committed    *)
(* lets the effect begin.                                                   *)
Reserved(row, written) == row = NoRow /\ written = "committed"

(* record, the row before the effect: its unique key is the event.          *)
Fallback(r) ==
  IF Event(r) \in Messages
  THEN Row("command", "processing_failed", "not_started")
  ELSE Row("action", "handler_failed", "not_started")

(* What a transaction on the audit comes to: of one that fails nothing is   *)
(* known, and the channel it locks may be gone.                             *)
Written == {"committed"} \cup
           IF StorageFaults THEN {"rolled_back", "unacknowledged"} ELSE {}

ReserveAudit(r) ==
  /\ In(r, "reserving")
  /\ \E written \in Written, d \in LocalTime(r) :
       /\ audits' = IF audits[Event(r)] = NoRow /\ written # "rolled_back"
                    THEN [audits EXCEPT ![Event(r)] = Fallback(r)]
                    ELSE audits
       /\ IF Reserved(audits[Event(r)], written)
          THEN /\ Goto(r, IF Event(r) \in Messages THEN "credential" ELSE "acting",
                       [job[r] EXCEPT !.row = Fallback(r), !.reserved = TRUE,
                                      !.spent = job[r].spent + d,
                                      !.local = job[r].local + d])
               /\ UNCHANGED <<req, runs>>
          ELSE Return(r, FALSE, d)
  /\ UNCHANGED <<active, receipts, calls>>

(* Mutant: the reply may last until the response is due.                    *)
Remaining_Deadline(r) == Deadline - (req[r].at + job[r].spent)

(* What is left for a reply: not beyond external_io_deadline_monotonic.     *)
Remaining(r) ==
  LET left == Ingress!Cutoff(Pending(r)) - (req[r].at + job[r].spent) IN
  IF left < MaxReply THEN left ELSE MaxReply

(* There is the time to get an answer from LINE.                            *)
WorthReplying(r) == Remaining(r) >= MinReply

(* get_access_token, and the look at the clock right before the reply.      *)
Credential(r) ==
  /\ In(r, "credential")
  /\ \/ \E outcome \in {"credential_unavailable", "processing_failed"} :
          Goto(r, "finishing",
               [job[r] EXCEPT !.row = Row("command", outcome, "not_started")])
     \/ /\ WorthReplying(r)
        /\ Goto(r, "replying", [job[r] EXCEPT !.budget = Remaining(r)])
     \/ /\ ~WorthReplying(r)
        /\ Goto(r, "finishing",
                [job[r] EXCEPT
                   !.row = Row("command", "deadline_exceeded", "not_started")])
  /\ UNCHANGED <<ingressVars, audits, calls>>

(* Mutant: a reply whose fate is not known is sent again.                   *)
After_Retried(told) == IF told = "unknown" THEN "replying" ELSE "finishing"

(* Whatever LINE says of it, a reply is not repeated.                       *)
After(told) == "finishing"

(* What the gateway learns: 200 is accepted, another status rejected, and   *)
(* anything else, the watchdog included, unknown.  A status of 5xx may      *)
(* follow a reply that LINE accepted, so only 200 says what happened.       *)
Told(happened) == {"unknown", "rejected"} \cup IF happened THEN {"accepted"} ELSE {}

(* reply_text                                                               *)
Reply(r) ==
  /\ In(r, "replying")
  /\ \E happened \in BOOLEAN, d \in 0..job[r].budget :
       /\ calls' = [calls EXCEPT ![Event(r)] =
                      Append(@, [kind |-> "command", happened |-> happened])]
       /\ \E told \in Told(happened) :
            Goto(r, After(told),
                 [job[r] EXCEPT !.row = Row("command", "command_processed", told),
                                !.spent = job[r].spent + d])
  /\ UNCHANGED <<ingressVars, audits>>

(* The action handler's answer; after an exception it may have taken effect *)
(* or not.                                                                  *)
Act(r) ==
  /\ In(r, "acting")
  /\ \E happened \in BOOLEAN :
       /\ calls' = [calls EXCEPT ![Event(r)] =
                      Append(@, [kind |-> "action", happened |-> happened])]
       /\ \E outcome \in {"handler_failed"} \cup
                         IF happened THEN {"action_succeeded"}
                         ELSE {"action_declined"} :
            Goto(r, "finishing",
                 [job[r] EXCEPT !.row = Row("action", outcome, "not_started")])
  /\ UNCHANGED <<ingressVars, audits>>

(* record inserts the only row of the event, replace_reserved updates it.   *)
Replaces(r) == job[r].reserved <=> audits[Event(r)] # NoRow

(* What counts as success.                                                  *)
Good(row) ==
  \/ row.outcome \in {"no_op", "action_succeeded", "action_declined"}
  \/ row.outcome = "command_processed" /\ row.reply = "accepted"

(* HandlerSucceeded: it went well and that is on record.                    *)
Succeeded(row, recorded) == recorded /\ Good(row)

(* _finish                                                                  *)
Finish(r) ==
  /\ In(r, "finishing")
  /\ \E written \in Written, d \in LocalTime(r) :
       /\ audits' = IF Replaces(r) /\ written # "rolled_back"
                    THEN [audits EXCEPT ![Event(r)] = job[r].row]
                    ELSE audits
       /\ Return(r, Succeeded(job[r].row, Replaces(r) /\ written = "committed"), d)
  /\ UNCHANGED <<active, receipts, calls>>

----------------------------------------------------------------------------
(* The ingress around it *)

(* friendship_handler takes follow and unfollow.                            *)
HandleLocal(r) ==
  /\ In(r, "none") /\ Event(r) \in LocalEvents
  /\ Ingress!Handle(r)
  /\ UNCHANGED <<job, audits, calls>>

Around(r) ==
  /\ \/ \E b \in Batches : Ingress!Receive(r, b)
     \/ Ingress!Accept(r) \/ Ingress!Dispatch(r)
     \/ Ingress!Finalize(r) \/ Ingress!Respond(r)
  /\ UNCHANGED <<job, audits, calls>>

(* The worker dies, in the middle of the handler too.                       *)
Crash(r) ==
  /\ Ingress!Crash(r)
  /\ job' = [job EXCEPT ![r] = NoJob]
  /\ UNCHANGED <<audits, calls>>

Switch == Ingress!Switch /\ UNCHANGED <<job, audits, calls>>

----------------------------------------------------------------------------
(* Specification *)

Init ==
  /\ Ingress!Init
  /\ job = [r \in Requests |-> NoJob]
  /\ audits = [e \in Events |-> NoRow]
  /\ calls = [e \in Events |-> <<>>]

Interact(r) ==
  \/ Begin(r) \/ ReserveAudit(r) \/ Credential(r) \/ Reply(r) \/ Act(r)
  \/ Finish(r)

Next ==
  \/ Switch
  \/ \E r \in Requests :
       Around(r) \/ HandleLocal(r) \/ Interact(r) \/ Crash(r)

Spec == Init /\ [][Next]_vars

----------------------------------------------------------------------------
(* Properties *)

(* One event leads to one reply or to one action at most, although batches  *)
(* are repeated, answers of LINE are lost, audits fail and workers die      *)
(* between any two steps of the handler.                                    *)
OneEffectPerEvent == \A e \in Events : Len(calls[e]) <= 1

(* No effect is without an audit row that names its operation, and what the *)
(* row claims happened: an accepted reply was accepted, a reply that has a  *)
(* result was attempted, an action succeeded took effect, one declined did  *)
(* not, and for an event put aside, without credential or too late nothing  *)
(* was attempted.  (Of a reply that is rejected or unknown the row does not *)
(* say whether LINE accepted it.)                                           *)
EffectsOnRecord ==
  \A e \in Events :
    LET row == audits[e]
        did == \E i \in DOMAIN calls[e] : calls[e][i].happened IN
    /\ row.reply = "accepted" \/ row.outcome = "action_succeeded" => did
    /\ row.reply # "not_started" => calls[e] # <<>>
    /\ row.outcome = "action_declined" => ~did
    /\ row.outcome \in {"no_op", "credential_unavailable", "deadline_exceeded"}
         => calls[e] = <<>>
    /\ \A i \in DOMAIN calls[e] : row.kind = calls[e][i].kind

(* The receipt and the audit agree: an interaction processed is on record   *)
(* with an outcome that is a success, in particular a command with its      *)
(* reply accepted, and no row says so of an event never handled.            *)
ReceiptMatchesAudit ==
  \A e \in ExternalEvents :
    /\ receipts[e].status = "processed" => Good(audits[e])
    /\ receipts[e].status \in {"absent", "unsupported"}
         \/ receipts[e].code = "dispatch_deadline_exceeded" => audits[e] = NoRow

(* The audit tells the truth, about the effects and beside the receipts,    *)
(* whatever died or failed between a row, its effect and its receipt.       *)
AuditTellsTheTruth == EffectsOnRecord /\ ReceiptMatchesAudit

(* The handler is one that the ingress counts on: for all its steps it      *)
(* takes the time that was reserved, whatever LINE does, it is called once  *)
(* and gives its answer once.                                               *)
ImplementsIngress == Ingress!Spec

(* The requirement on the audit (requirements.md, 6.1): a reply that was    *)
(* not started can be told from one that was.                               *)
NotStartedIsNotSent ==
  \A e \in Messages :
    /\ \A r \in Requests : req[r].pc = "done"
    /\ receipts[e].status = "failed" /\ audits[e].kind = "command"
    /\ audits[e].reply = "not_started"
    => calls[e] = <<>>
=============================================================================
