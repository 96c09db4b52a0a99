------------------------------ MODULE Delivery ------------------------------
(***************************************************************************)
(* The life of a delivery attempt (backend/delivery): an owner previews a  *)
(* message, confirms it and sends it; the backend stores one attempt, makes *)
(* at most one push to LINE for it outside any database transaction, and    *)
(* settles the stored row by compare-and-set.  Concurrent sends, a status   *)
(* check that expires a silent attempt, the recipient's receipt, changes of *)
(* the target and the death of a worker interleave between any two steps.   *)
(*                                                                         *)
(* One channel and one recipient are modelled.  A content is a message with *)
(* its receipt option: with the target fixed it is exactly what the request *)
(* fingerprint identifies.  Every deadline is the time that remains to it.  *)
(***************************************************************************)
EXTENDS Naturals, FiniteSets

CONSTANTS
  Requests,          \* HTTP calls to POST /api/deliveries/
  Operations,        \* operation ids the clients draw
  Contents,          \* message and receipt option, i.e. request fingerprints
  ReceiptContents,   \* the contents that ask for a receipt
  Taps,              \* webhook events carrying a receipt postback
  None,              \* no operation, no content, no webhook event
  ProcessingTimeout, \* PROCESSING_TIMEOUT, 30 s in the code
  ConfirmationMaxAge,\* CONFIRMATION_MAX_AGE, 10 min in the code
  ReceiptMaxAge,     \* RECEIPT_MAX_AGE, 24 h in the code
  StorageFaults,     \* whether the database may fail
  MaxRevision,       \* bound on the changes of the target
  MaxTokens          \* bound on the confirmations issued

ASSUME ConstantAssumption ==
  /\ ReceiptContents \subseteq Contents
  /\ None \notin Operations \cup Contents \cup Taps
  /\ ProcessingTimeout \in Nat
  /\ ConfirmationMaxAge \in Nat
  /\ ReceiptMaxAge \in Nat
  /\ ConfirmationMaxAge < ReceiptMaxAge
  /\ StorageFaults \in BOOLEAN
  /\ MaxRevision \in Nat
  /\ MaxTokens \in Nat

VARIABLES
  target,    \* what TargetDirectory.resolve reads of channel and recipient
  tokens,    \* the signed confirmations clients hold
  attempts,  \* table delivery_deliveryattempt, by operation_id
  req,       \* the send requests being handled
  expiring,  \* operations whose status check has read an expired processing row
  taps,      \* the receipt postbacks being handled
  pushed,    \* pushes handed to LINE, with what the worker knew of the target
  line       \* what LINE did with the push of an operation

vars == <<target, tokens, attempts, req, expiring, taps, pushed, line>>

----------------------------------------------------------------------------
(* Types *)

Statuses == {"absent", "processing", "succeeded", "failed", "unknown"}
Failures == {"none", "configuration", "target_changed", "rejected",
             "push_unknown", "processing_expired"}
PushResults == {"accepted", "rejected", "push_unknown"}
PrePushFailures == {"configuration", "target_changed"}
Replies == {"target_not_available", "target_not_deliverable",
            "confirmation_expired", "confirmation_stale",
            "operation_id_reused", "existing", "created",
            "storage_unavailable", "lost"}

Target == [linked : BOOLEAN, channel : BOOLEAN, available : BOOLEAN,
           revision : 0..MaxRevision]
Token == [content : Contents, revision : 0..MaxRevision,
          age : 0..(ConfirmationMaxAge + 1)]
Attempt == [status : Statuses, failure : Failures,
            content : Contents \cup {None}, active : Contents \cup {None},
            left : 0..ProcessingTimeout, receiptLeft : 0..ReceiptMaxAge,
            receipt : Taps \cup {None}]
Request == [pc : {"idle", "confirmed", "resolved", "fresh", "collided",
                  "unclaimed", "accepted", "credentialed", "checked",
                  "waiting", "settling", "done"},
            op : Operations \cup {None}, content : Contents \cup {None},
            revision : 0..MaxRevision, left : 0..ProcessingTimeout,
            receiptLeft : 0..ReceiptMaxAge,
            result : PushResults \cup PrePushFailures \cup Replies \cup {"none"}]
Push == [request : Requests, op : Operations, content : Contents,
         revision : 0..MaxRevision]

TypeOK ==
  /\ target \in Target
  /\ tokens \subseteq Token
  /\ attempts \in [Operations -> Attempt]
  /\ req \in [Requests -> Request]
  /\ expiring \subseteq Operations
  /\ taps \in [Taps -> [pc : {"idle", "classified", "done"},
                        op : Operations \cup {None}]]
  /\ pushed \subseteq Push
  /\ line \in [Operations -> {"idle", "sent", "accepted", "refused"}]

----------------------------------------------------------------------------
(* Helpers *)

Absent == [status |-> "absent", failure |-> "none", content |-> None,
           active |-> None, left |-> 0, receiptLeft |-> 0, receipt |-> None]

Empty(pc, result) ==
  [pc |-> pc, op |-> None, content |-> None, revision |-> 0, left |-> 0,
   receiptLeft |-> 0, result |-> result]
Idle == Empty("idle", "none")
Done(reply) == Empty("done", reply)

Exists(op) == attempts[op].status # "absent"
Terminal(op) == attempts[op].status \in {"succeeded", "failed", "unknown"}

(* LiveDeliveryTarget.delivery_available of a target that can be resolved.  *)
Deliverable == target.linked /\ target.available

(* Mutant: a row past its deadline no longer holds its fingerprint.         *)
ActiveTwin_Lapsed(c) ==
  \E op \in Operations : attempts[op].active = c /\ attempts[op].left > 0

(* The unique columns: operation_id and active_request_fingerprint.         *)
ActiveTwin(c) == \E op \in Operations : attempts[op].active = c

Reply(r, code) == req' = [req EXCEPT ![r] = Done(code)]
Goto(r, label) == req' = [req EXCEPT ![r].pc = label]

----------------------------------------------------------------------------
(* Preview and confirmation *)

(* PreviewAPIView.post: only a deliverable target is confirmed; the token   *)
(* carries the target's revision and the content.                           *)
Preview(c) ==
  /\ Deliverable
  /\ Cardinality(tokens) < MaxTokens
  /\ tokens' = tokens \cup
       {[content |-> c, revision |-> target.revision, age |-> 0]}
  /\ UNCHANGED <<target, attempts, req, expiring, taps, pushed, line>>

(* ConfirmationService.verify_request on the target the view resolved.      *)
Verified(t, c) ==
  /\ t.age <= ConfirmationMaxAge
  /\ t.content = c
  /\ t.revision = target.revision
  /\ c \in ReceiptContents => t.age < ReceiptMaxAge

Refusal(t) ==
  IF ~target.linked THEN "target_not_available"
  ELSE IF ~target.available THEN "target_not_deliverable"
  ELSE IF t.age > ConfirmationMaxAge THEN "confirmation_expired"
  ELSE "confirmation_stale"

(* What the verified token restores; the receipt deadline comes from it too. *)
Confirmed(op, t) ==
  [pc |-> "confirmed", op |-> op, content |-> t.content,
   revision |-> t.revision, left |-> 0,
   receiptLeft |-> IF t.content \in ReceiptContents
                   THEN ReceiptMaxAge - t.age ELSE 0,
   result |-> "none"]

(* DeliveryAPIView.post up to the call of the service.                      *)
Submit(r, op, c, t) ==
  /\ req[r].pc = "idle"
  /\ IF Deliverable /\ Verified(t, c)
     THEN req' = [req EXCEPT ![r] = Confirmed(op, t)]
     ELSE Reply(r, Refusal(t))
  /\ UNCHANGED <<target, tokens, attempts, expiring, taps, pushed, line>>

----------------------------------------------------------------------------
(* accept_confirmed and AttemptRepository.accept *)

(* The target is resolved again; any difference from what was confirmed     *)
(* refuses the send before a row exists.                                    *)
Reconfirm(r) ==
  /\ req[r].pc = "confirmed"
  /\ IF ~target.linked \/ target.revision # req[r].revision
     THEN Reply(r, "target_not_available")
     ELSE IF ~target.available THEN Reply(r, "target_not_deliverable")
          ELSE Goto(r, "resolved")
  /\ UNCHANGED <<target, tokens, attempts, expiring, taps, pushed, line>>

(* _classify_operation: the row of this operation_id answers the request.   *)
Classify(op, c) ==
  IF attempts[op].content = c THEN "existing" ELSE "operation_id_reused"

(* The lookup by operation_id; when it finds nothing the clock is read, and *)
(* the processing deadline runs from here, before the channel lock is held. *)
Lookup(r) ==
  /\ req[r].pc = "resolved"
  /\ IF Exists(req[r].op)
     THEN Reply(r, Classify(req[r].op, req[r].content))
     ELSE req' = [req EXCEPT ![r].pc = "fresh", ![r].left = ProcessingTimeout]
  /\ UNCHANGED <<target, tokens, attempts, expiring, taps, pushed, line>>

NewAttempt(q) ==
  [status |-> "processing", failure |-> "none", content |-> q.content,
   active |-> q.content, left |-> q.left, receiptLeft |-> q.receiptLeft,
   receipt |-> None]

(* Mutant: the insert is an upsert.                                         *)
Insert_Upsert(r) ==
  /\ req[r].pc = "fresh"
  /\ IF ~target.channel
     THEN Reply(r, "target_not_available") /\ UNCHANGED attempts
     ELSE IF ActiveTwin(req[r].content)
          THEN Goto(r, "collided") /\ UNCHANGED attempts
          ELSE /\ attempts' = [attempts EXCEPT ![req[r].op] = NewAttempt(req[r])]
               /\ req' = [req EXCEPT ![r].pc = "accepted"]
  /\ UNCHANGED <<target, tokens, expiring, taps, pushed, line>>

(* The transaction: channel reference fence, then an INSERT under the two   *)
(* unique columns.                                                          *)
Insert(r) ==
  /\ req[r].pc = "fresh"
  /\ IF ~target.channel
     THEN Reply(r, "target_not_available") /\ UNCHANGED attempts
     ELSE IF Exists(req[r].op) \/ ActiveTwin(req[r].content)
          THEN Goto(r, "collided") /\ UNCHANGED attempts
          ELSE /\ attempts' = [attempts EXCEPT ![req[r].op] = NewAttempt(req[r])]
               /\ req' = [req EXCEPT ![r].pc = "accepted", ![r].left = 0,
                                       ![r].receiptLeft = 0]
  /\ UNCHANGED <<target, tokens, expiring, taps, pushed, line>>

(* except IntegrityError: first the row of this operation_id ...            *)
RereadOperation(r) ==
  /\ req[r].pc = "collided"
  /\ IF Exists(req[r].op)
     THEN Reply(r, Classify(req[r].op, req[r].content))
     ELSE Goto(r, "unclaimed")
  /\ UNCHANGED <<target, tokens, attempts, expiring, taps, pushed, line>>

(* ... then the row that holds the fingerprint; if it was settled meanwhile *)
(* the IntegrityError is raised again, and the view answers 503.            *)
RereadActive(r) ==
  /\ req[r].pc = "unclaimed"
  /\ Reply(r, IF ActiveTwin(req[r].content) THEN "existing"
              ELSE "storage_unavailable")
  /\ UNCHANGED <<target, tokens, attempts, expiring, taps, pushed, line>>

----------------------------------------------------------------------------
(* push_accepted, the gateway and LINE *)

Settling(r, result) ==
  req' = [req EXCEPT ![r].pc = "settling", ![r].result = result]

(* The stored access token is readable or not.                              *)
FetchCredential(r) ==
  /\ req[r].pc = "accepted"
  /\ Goto(r, "credentialed") \/ Settling(r, "configuration")
  /\ UNCHANGED <<target, tokens, attempts, expiring, taps, pushed, line>>

(* The target read last is the one that is pushed to.                       *)
Checked(r) ==
  req' = [req EXCEPT ![r].pc = "checked", ![r].revision = target.revision]

(* Mutant: any deliverable target will do.                                  *)
Recheck_AnyRevision(r) ==
  /\ req[r].pc = "credentialed"
  /\ IF Deliverable THEN Checked(r) ELSE Settling(r, "target_changed")
  /\ UNCHANGED <<target, tokens, attempts, expiring, taps, pushed, line>>

(* _same_push_target: the last look at the target before the push.          *)
Recheck(r) ==
  /\ req[r].pc = "credentialed"
  /\ IF Deliverable /\ target.revision = req[r].revision
     THEN Checked(r)
     ELSE Settling(r, "target_changed")
  /\ UNCHANGED <<target, tokens, attempts, expiring, taps, pushed, line>>

(* One HTTP call, no client retry, the operation id as X-Line-Retry-Key.    *)
PushOnce(r) ==
  LET op == req[r].op IN
  /\ req[r].pc = "checked"
  /\ pushed' = pushed \cup
       {[request |-> r, op |-> op, content |-> req[r].content,
         revision |-> req[r].revision]}
  /\ line' = IF line[op] = "idle" THEN [line EXCEPT ![op] = "sent"] ELSE line
  /\ Goto(r, "waiting")
  /\ UNCHANGED <<target, tokens, attempts, expiring, taps>>

(* LINE takes or refuses a push it received, or never receives it; it may   *)
(* do so after the worker has stopped waiting.                              *)
LineDecides(op) ==
  /\ line[op] = "sent"
  /\ \E verdict \in {"accepted", "refused"} :
       line' = [line EXCEPT ![op] = verdict]
  /\ UNCHANGED <<target, tokens, attempts, req, expiring, taps, pushed>>

(* The gateway's three results: 200 (or 409 with an accepted id), 4xx, and  *)
(* everything that leaves the outcome open: 5xx, timeout, reset, malformed. *)
Receive(r) ==
  LET op == req[r].op IN
  /\ req[r].pc = "waiting"
  /\ \/ line[op] = "accepted" /\ Settling(r, "accepted")
     \/ line[op] = "refused" /\ Settling(r, "rejected")
     \/ Settling(r, "push_unknown")
  /\ UNCHANGED <<target, tokens, attempts, expiring, taps, pushed, line>>

----------------------------------------------------------------------------
(* Settling the row *)

(* The columns that make a row terminal and give up its fingerprint.        *)
Closed(row, status, failure) ==
  [row EXCEPT !.status = status, !.failure = failure, !.active = None]

(* Mutant: no answer from LINE counts as a refusal.                         *)
Outcome_Guessed(row, result) ==
  IF result = "accepted" THEN Closed(row, "succeeded", "none")
  ELSE Closed(row, "failed", result)

(* The terminal columns finalize writes for a result.                       *)
Outcome(row, result) ==
  IF result = "accepted" THEN Closed(row, "succeeded", "none")
  ELSE IF result = "push_unknown" THEN Closed(row, "unknown", result)
       ELSE Closed(row, "failed", result)

(* finalize: UPDATE ... WHERE status = 'processing', then the stored row,   *)
(* whoever wrote it, is the answer.                                         *)
Finalize(r) ==
  LET op == req[r].op IN
  /\ req[r].pc = "settling"
  /\ attempts' = IF attempts[op].status = "processing"
                 THEN [attempts EXCEPT ![op] = Outcome(@, req[r].result)]
                 ELSE attempts
  /\ Reply(r, "created")
  /\ UNCHANGED <<target, tokens, expiring, taps, pushed, line>>

(* Mutant: the comparison with the deadline is the wrong way round.         *)
CheckStatus_Early(op) ==
  /\ attempts[op].status = "processing"
  /\ attempts[op].left > 0
  /\ op \notin expiring
  /\ expiring' = expiring \cup {op}
  /\ UNCHANGED <<target, tokens, attempts, req, taps, pushed, line>>

(* get_for_owner reads the row and the clock ...                            *)
CheckStatus(op) ==
  /\ attempts[op].status = "processing"
  /\ attempts[op].left = 0
  /\ op \notin expiring
  /\ expiring' = expiring \cup {op}
  /\ UNCHANGED <<target, tokens, attempts, req, taps, pushed, line>>

(* Mutant: the row read before is expired, whatever it is now.              *)
Expire_Blind(op) ==
  /\ op \in expiring
  /\ expiring' = expiring \ {op}
  /\ attempts' = [attempts EXCEPT ![op] =
                    Closed(@, "unknown", "processing_expired")]
  /\ UNCHANGED <<target, tokens, req, taps, pushed, line>>

(* ... and expires it only if it is still processing.                       *)
Expire(op) ==
  /\ op \in expiring
  /\ expiring' = expiring \ {op}
  /\ attempts' = IF attempts[op].status = "processing"
                 THEN [attempts EXCEPT ![op] =
                         Closed(@, "unknown", "processing_expired")]
                 ELSE attempts
  /\ UNCHANGED <<target, tokens, req, taps, pushed, line>>

(* A database error after a statement was sent: the view answers 503 and    *)
(* the row, if there is one, stays as it is.                                *)
StorageFails(r) ==
  /\ StorageFaults
  /\ req[r].pc \in {"confirmed", "resolved", "fresh", "collided", "unclaimed",
                    "credentialed", "settling"}
  /\ Reply(r, "storage_unavailable")
  /\ UNCHANGED <<target, tokens, attempts, expiring, taps, pushed, line>>

(* The worker dies; whatever it had not written is gone.                    *)
Crash(r) ==
  /\ req[r].pc \notin {"idle", "done"}
  /\ Reply(r, "lost")
  /\ UNCHANGED <<target, tokens, attempts, expiring, taps, pushed, line>>

----------------------------------------------------------------------------
(* The recipient's receipt *)

(* The capability is only in the pushed message, so a postback follows an   *)
(* accepted push; confirm_receipt classifies the row by the time the        *)
(* handler read.                                                            *)
Tap(e, op) ==
  /\ taps[e].pc = "idle"
  /\ line[op] = "accepted" /\ attempts[op].content \in ReceiptContents
  /\ target.linked
  /\ taps' = [taps EXCEPT ![e] =
       IF \/ attempts[op].receipt # None
          \/ attempts[op].receiptLeft = 0
          \/ attempts[op].status = "failed"
       THEN [pc |-> "done", op |-> op]
       ELSE [pc |-> "classified", op |-> op]]
  /\ UNCHANGED <<target, tokens, attempts, req, expiring, pushed, line>>

(* The conditional UPDATE: unconfirmed and not failed; occurred_at was in   *)
(* time when the row was classified and does not move.                      *)
RecordReceipt(e) ==
  LET op == taps[e].op IN
  /\ taps[e].pc = "classified"
  /\ taps' = [taps EXCEPT ![e].pc = "done"]
  /\ attempts' =
       IF /\ attempts[op].receipt = None
          /\ attempts[op].status \in {"processing", "succeeded", "unknown"}
       THEN [attempts EXCEPT ![op].receipt = e]
       ELSE attempts
  /\ UNCHANGED <<target, tokens, req, expiring, pushed, line>>

----------------------------------------------------------------------------
(* The target's owners (accounts, friendship, channels) and the clock *)

(* Any write to the channel or the recipient row: updated_at moves, so the  *)
(* revision does, whether or not deliverability changes.                    *)
ChangeTarget ==
  /\ target.linked /\ target.revision < MaxRevision
  /\ \E a \in BOOLEAN :
       target' = [target EXCEPT !.available = a, !.revision = @ + 1]
  /\ UNCHANGED <<tokens, attempts, req, expiring, taps, pushed, line>>

Unlink ==
  /\ target.linked
  /\ target' = [target EXCEPT !.linked = FALSE, !.available = FALSE]
  /\ UNCHANGED <<tokens, attempts, req, expiring, taps, pushed, line>>

(* A recipient registered anew is a new row with a revision of its own.     *)
Relink ==
  /\ ~target.linked /\ target.channel /\ target.revision < MaxRevision
  /\ \E a \in BOOLEAN :
       target' = [target EXCEPT !.linked = TRUE, !.available = a,
                                !.revision = @ + 1]
  /\ UNCHANGED <<tokens, attempts, req, expiring, taps, pushed, line>>

(* A channel is deleted only while no recipient and no attempt refers to it *)
(* (DjangoDeliveryReferenceProbe).                                          *)
DeleteChannel ==
  /\ target.channel /\ ~target.linked
  /\ \A op \in Operations : ~Exists(op)
  /\ target' = [target EXCEPT !.channel = FALSE]
  /\ UNCHANGED <<tokens, attempts, req, expiring, taps, pushed, line>>

Down(n) == IF n > 0 THEN n - 1 ELSE 0

Tick ==
  /\ tokens' = {[t EXCEPT !.age = IF @ <= ConfirmationMaxAge THEN @ + 1 ELSE @]
                : t \in tokens}
  /\ attempts' = [op \in Operations |->
       [attempts[op] EXCEPT !.left = Down(@), !.receiptLeft = Down(@)]]
  /\ req' = [r \in Requests |->
       [req[r] EXCEPT !.left = Down(@), !.receiptLeft = Down(@)]]
  /\ UNCHANGED <<target, expiring, taps, pushed, line>>

----------------------------------------------------------------------------
(* Specification *)

Init ==
  /\ target = [linked |-> TRUE, channel |-> TRUE, available |-> TRUE,
               revision |-> 0]
  /\ tokens = {}
  /\ attempts = [op \in Operations |-> Absent]
  /\ req = [r \in Requests |-> Idle]
  /\ expiring = {}
  /\ taps = [e \in Taps |-> [pc |-> "idle", op |-> None]]
  /\ pushed = {}
  /\ line = [op \in Operations |-> "idle"]

(* The steps a worker takes by itself once a request is in.                 *)
Work(r) ==
  \/ Reconfirm(r) \/ Lookup(r) \/ Insert(r)
  \/ RereadOperation(r) \/ RereadActive(r)
  \/ FetchCredential(r) \/ Recheck(r) \/ PushOnce(r) \/ Receive(r)
  \/ Finalize(r)

Send(r) ==
  \E op \in Operations, c \in Contents, t \in tokens : Submit(r, op, c, t)

Worker(r) == Send(r) \/ Work(r) \/ StorageFails(r) \/ Crash(r)
StatusCheck(op) == CheckStatus(op) \/ Expire(op)
Receipt(e) == RecordReceipt(e) \/ \E op \in Operations : Tap(e, op)
Directory == ChangeTarget \/ Unlink \/ Relink \/ DeleteChannel

Next ==
  \/ \E c \in Contents : Preview(c)
  \/ \E r \in Requests : Worker(r)
  \/ \E op \in Operations : StatusCheck(op) \/ LineDecides(op)
  \/ \E e \in Taps : Receipt(e)
  \/ Directory
  \/ Tick

Spec == Init /\ [][Next]_vars

(* The clock runs, and the owner keeps asking for the status of what was    *)
(* sent.  Nothing is assumed of the workers, of LINE or of the recipient.   *)
Fairness ==
  /\ WF_vars(Tick)
  /\ \A op \in Operations : WF_vars(CheckStatus(op)) /\ WF_vars(Expire(op))

FairSpec == Spec /\ Fairness

----------------------------------------------------------------------------
(* Properties *)

Owning(r) == req[r].pc \in {"accepted", "credentialed", "checked", "waiting",
                            "settling"}

(* LINE is handed an operation at most once, however often its send request *)
(* is repeated and whoever handles it: only the request that inserted the   *)
(* row pushes (DeliveryService.push_accepted).                              *)
AtMostOnePush == \A p, q \in pushed : p.op = q.op => p = q

(* What is pushed is what the owner confirmed: the stored content, to the   *)
(* target in the very revision a preview showed with that content.          *)
PushedAsConfirmed ==
  \A p \in pushed :
    /\ attempts[p.op].content = p.content
    /\ \E t \in tokens : t.content = p.content /\ t.revision = p.revision

(* The stored outcome is never a guess: succeeded means LINE has accepted   *)
(* the message, failed that it has not and never will                       *)
(* (finalize_linked_push, _prevent_linked_push).                            *)
OutcomeTruthful ==
  \A op \in Operations :
    /\ attempts[op].status = "succeeded" => line[op] = "accepted"
    /\ attempts[op].status = "failed" => line[op] \in {"idle", "refused"}

(* Two workers are between accept and finalize with the same content only   *)
(* if one of them outlived its deadline and was expired by a status check   *)
(* (active_request_fingerprint).                                            *)
NoParallelTwins ==
  \A r, s \in Requests :
    r # s /\ Owning(r) /\ Owning(s) /\ req[r].content = req[s].content
      => \E q \in {r, s} :
           attempts[req[q].op].failure = "processing_expired"

(* A receipt is recorded only for a message that asked for one and that     *)
(* LINE accepted, and the row never says failed beside it.                  *)
ReceiptTruthful ==
  \A op \in Operations :
    attempts[op].receipt # None =>
      /\ attempts[op].content \in ReceiptContents
      /\ line[op] = "accepted"
      /\ attempts[op].status # "failed"

(* The first terminal outcome stands: neither a late finalize nor a late    *)
(* expiry rewrites it, and its content is never replaced.                   *)
TerminalIsFinal ==
  [][\A op \in Operations :
       /\ Terminal(op) =>
            /\ attempts'[op].status = attempts[op].status
            /\ attempts'[op].failure = attempts[op].failure
       /\ Exists(op) => attempts'[op].content = attempts[op].content]_vars

(* The first receipt stands, and no later postback or finalize erases it.   *)
FirstReceiptKept ==
  [][\A op \in Operations :
       attempts[op].receipt # None =>
         attempts'[op].receipt = attempts[op].receipt]_vars

(* requirements 6.4 (.kiro/specs/linked-recipient-delivery): a send whose   *)
(* content is already being processed converges to that attempt's state.    *)
(* With a database that never fails no send may then end without a result.  *)
DuplicateConverges ==
  ~StorageFaults =>
    \A r \in Requests : req[r].result # "storage_unavailable"

(* An attempt somebody asks about does not stay in processing: its worker   *)
(* settles it or the status check expires it, even if the worker is dead.   *)
AttemptSettles ==
  \A op \in Operations :
    attempts[op].status = "processing" ~> Terminal(op)

Stage == [op \in Operations |->
            CASE attempts[op].status = "absent" -> "none"
              [] attempts[op].status = "processing" -> "open"
              [] OTHER -> attempts[op].status]
Copies == [op \in Operations |-> IF line[op] = "accepted" THEN 1 ELSE 0]
Confirmations == [op \in Operations |-> attempts[op].receipt # None]

Promise == INSTANCE DeliveryPromise WITH
  stage <- Stage, copies <- Copies, confirmed <- Confirmations

(* The detailed protocol keeps the promise of DeliveryPromise: what the     *)
(* owner reads of an operation moves once from nothing to open to closed,   *)
(* and no interleaving, crash or lost reply yields a second copy.           *)
KeepsPromise == Promise!Spec

----------------------------------------------------------------------------
(* The inductive invariant behind the properties above *)

Working(r) == req[r].pc \notin {"idle", "done"}

(* Who works holds a confirmed operation, content and revision.             *)
WorkIsConfirmed ==
  \A r \in Requests : Working(r) =>
    /\ req[r].op \in Operations
    /\ \E t \in tokens :
         t.content = req[r].content /\ t.revision = req[r].revision

(* Between accept and finalize a worker owns the row it inserted, alone, and *)
(* the row is processing unless a status check has expired it.              *)
OwnersAreAlone ==
  /\ \A r \in Requests : Owning(r) =>
       /\ attempts[req[r].op].content = req[r].content
       /\ \/ attempts[req[r].op].status = "processing"
          \/ attempts[req[r].op].failure = "processing_expired"
  /\ \A r, s \in Requests :
       Owning(r) /\ Owning(s) /\ req[r].op = req[s].op => r = s

(* What the rows say of themselves (delivery_attempt_valid_state).          *)
RowsAreValid ==
  /\ \A op \in Operations :
       /\ attempts[op].status = "absent" => attempts[op] = Absent
       /\ attempts[op].status = "processing" =>
            attempts[op].active = attempts[op].content
       /\ Exists(op) => attempts[op].content \in Contents
       /\ attempts[op].failure = "processing_expired" =>
            attempts[op].status = "unknown"
  /\ \A o1, o2 \in Operations :
       attempts[o1].active = attempts[o2].active /\ o1 # o2 =>
         attempts[o1].active = None

(* A push belongs to a row, and its worker is past PushOnce.                *)
PushesAreOwned ==
  /\ \A p \in pushed :
       /\ Exists(p.op)
       /\ \A r \in Requests : Owning(r) /\ req[r].op = p.op =>
            req[r].pc \in {"waiting", "settling"}
  /\ \A op \in Operations :
       line[op] # "idle" => \E p \in pushed : p.op = op

(* What a worker is about to store is what LINE did.                        *)
ResultsAreTrue ==
  \A r \in Requests : req[r].pc = "settling" =>
    /\ req[r].result \in PushResults \cup PrePushFailures
    /\ req[r].result = "accepted" => line[req[r].op] = "accepted"
    /\ req[r].result = "rejected" => line[req[r].op] = "refused"
    /\ req[r].result \in PrePushFailures => line[req[r].op] = "idle"

(* Nobody is left to push for a failed operation.                           *)
FailedIsAbandoned ==
  \A op \in Operations : attempts[op].status = "failed" =>
    \A r \in Requests : ~(Owning(r) /\ req[r].op = op)

TapsFollowDelivery ==
  \A e \in Taps : taps[e].pc = "classified" =>
    /\ taps[e].op \in Operations
    /\ line[taps[e].op] = "accepted"
    /\ attempts[taps[e].op].content \in ReceiptContents

IInv ==
  /\ TypeOK
  /\ WorkIsConfirmed /\ OwnersAreAlone /\ RowsAreValid /\ PushesAreOwned
  /\ ResultsAreTrue /\ FailedIsAbandoned /\ TapsFollowDelivery
  /\ AtMostOnePush /\ PushedAsConfirmed /\ OutcomeTruthful /\ ReceiptTruthful
=============================================================================
