--------------------------- MODULE DeliveryProofs ---------------------------
(***************************************************************************)
(* Proofs about Delivery for every number of requests, operations,         *)
(* contents and webhook events and every length of the deadlines: its      *)
(* types, that LINE is handed an operation at most once, that the stored   *)
(* outcomes are true, and the abstract promise.                            *)
(***************************************************************************)
EXTENDS Delivery, TLAPS

(* All of the invariant but the types.                                      *)
Parts ==
  /\ WorkIsConfirmed /\ OwnersAreAlone /\ RowsAreValid /\ PushesAreOwned
  /\ ResultsAreTrue /\ FailedIsAbandoned /\ TapsFollowDelivery
  /\ AtMostOnePush /\ PushedAsConfirmed /\ OutcomeTruthful /\ ReceiptTruthful

Others == <<target, tokens, attempts, expiring, taps, pushed, line>>

(* Answered and untouched requests are well typed.                          *)
LEMMA DoneIsRequest ==
  ASSUME NEW code \in Replies \cup {"none"}
  PROVE  /\ Done(code) \in Request
         /\ Idle \in Request
BY ConstantAssumption DEF Done, Idle, Empty, Request, Replies

(* The records a worker moves to.                                           *)
LEMMA SettlingRecord ==
  ASSUME NEW x \in Request, NEW result \in PushResults \cup PrePushFailures
  PROVE  LET q == [x EXCEPT !.pc = "settling", !.result = result] IN
         /\ q \in Request /\ q.pc = "settling" /\ q.result = result
         /\ q.op = x.op /\ q.content = x.content /\ q.revision = x.revision
BY DEF Request

(* A request that found no row of its operation.                            *)
LEMMA FreshRecord ==
  ASSUME NEW x \in Request
  PROVE  LET q == [x EXCEPT !.pc = "fresh", !.left = ProcessingTimeout] IN
         /\ q \in Request /\ q.pc = "fresh"
         /\ q.op = x.op /\ q.content = x.content /\ q.revision = x.revision
<1>1. ProcessingTimeout \in 0..ProcessingTimeout
  BY ConstantAssumption
<1> QED
  BY <1>1 DEF Request

(* A request that inserted its row.                                         *)
LEMMA AcceptedRecord ==
  ASSUME NEW x \in Request
  PROVE  LET q == [x EXCEPT !.pc = "accepted", !.left = 0, !.receiptLeft = 0] IN
         /\ q \in Request /\ q.pc = "accepted"
         /\ q.op = x.op /\ q.content = x.content /\ q.revision = x.revision
<1>1. 0 \in 0..ProcessingTimeout /\ 0 \in 0..ReceiptMaxAge
  BY ConstantAssumption
<1> QED
  BY <1>1 DEF Request

(* The terminal row: everything but outcome and fingerprint is kept.        *)
LEMMA ClosedRecord ==
  ASSUME NEW x \in Attempt, NEW failure \in Failures,
         NEW status \in {"succeeded", "failed", "unknown"}
  PROVE  LET a == Closed(x, status, failure) IN
         /\ a \in Attempt /\ a.status = status /\ a.failure = failure
         /\ a.active = None /\ a.content = x.content /\ a.receipt = x.receipt
BY DEF Closed, Attempt, Statuses

(* The initial state satisfies the invariant.                               *)
LEMMA InitInvariant == Init => IInv
<1> SUFFICES ASSUME Init PROVE IInv
  OBVIOUS
<1>1. Idle \in Request /\ Idle.pc = "idle"
  BY DoneIsRequest DEF Idle, Empty
<1>2. Absent \in Attempt
  BY ConstantAssumption DEF Absent, Attempt, Statuses, Failures
<1>3. TypeOK
  BY <1>1, <1>2, ConstantAssumption DEF Init, TypeOK, Target
<1>4. Parts
  BY <1>1 DEF Init, Parts, Absent, WorkIsConfirmed, Working, OwnersAreAlone,
     Owning, RowsAreValid, Exists, PushesAreOwned, ResultsAreTrue,
     FailedIsAbandoned, TapsFollowDelivery, AtMostOnePush, PushedAsConfirmed,
     OutcomeTruthful, ReceiptTruthful
<1> QED
  BY <1>3, <1>4 DEF IInv, Parts

(* A request that ends takes nothing with it.                               *)
LEMMA Retire ==
  ASSUME IInv, NEW r \in Requests, NEW code \in Replies,
         Reply(r, code), UNCHANGED Others
  PROVE  IInv'
<1>1. req' \in [Requests -> Request] /\ req'[r].pc = "done"
      /\ \A s \in Requests : s # r => req'[s] = req[s]
  BY DoneIsRequest DEF IInv, TypeOK, Reply, Done, Empty
<1>2. TypeOK'
  BY <1>1 DEF IInv, TypeOK, Others
<1>3. \A s \in Requests : Owning(s)' => Owning(s) /\ s # r
  BY <1>1 DEF Owning
<1>4. Parts'
  BY <1>1, <1>3 DEF IInv, Parts, Others, WorkIsConfirmed, Working,
     OwnersAreAlone, Owning, RowsAreValid, Exists, PushesAreOwned,
     ResultsAreTrue, FailedIsAbandoned, TapsFollowDelivery, AtMostOnePush,
     PushedAsConfirmed, OutcomeTruthful, ReceiptTruthful
<1> QED
  BY <1>2, <1>4 DEF IInv, Parts

(* A worker that goes on with the same operation, and neither becomes an    *)
(* owner nor falls behind its push, keeps the invariant.                    *)
LEMMA Advance ==
  ASSUME IInv, NEW r \in Requests, NEW q \in Request,
         req' = [req EXCEPT ![r] = q], UNCHANGED Others,
         Working(r), q.op = req[r].op, q.content = req[r].content,
         q.revision = req[r].revision,
         q.pc \in {"accepted", "credentialed", "checked", "waiting", "settling"}
           => Owning(r),
         req[r].pc \in {"waiting", "settling"} => q.pc = "settling",
         q.pc = "settling" =>
           /\ q.result \in PushResults \cup PrePushFailures
           /\ q.result = "accepted" => line[q.op] = "accepted"
           /\ q.result = "rejected" => line[q.op] = "refused"
           /\ q.result \in PrePushFailures => line[q.op] = "idle"
  PROVE  IInv'
<1>1. req' \in [Requests -> Request] /\ req'[r] = q
      /\ \A s \in Requests : s # r => req'[s] = req[s]
  BY DEF IInv, TypeOK
<1>2. TypeOK'
  BY <1>1 DEF IInv, TypeOK, Others
<1>3. \A s \in Requests : /\ Owning(s)' => Owning(s)
                          /\ req'[s].op = req[s].op
                          /\ req'[s].content = req[s].content
  BY <1>1 DEF Owning
<1>4. WorkIsConfirmed' /\ ResultsAreTrue'
  BY <1>1 DEF IInv, WorkIsConfirmed, ResultsAreTrue, Working, Others
<1>5. OwnersAreAlone' /\ FailedIsAbandoned'
  BY <1>3 DEF IInv, OwnersAreAlone, FailedIsAbandoned, Others
<1>6. PushesAreOwned'
  BY <1>1, <1>3 DEF IInv, PushesAreOwned, Owning, Exists, Others
<1>7. /\ RowsAreValid' /\ TapsFollowDelivery' /\ AtMostOnePush'
      /\ PushedAsConfirmed' /\ OutcomeTruthful' /\ ReceiptTruthful'
  BY DEF IInv, Others, RowsAreValid, Exists, TapsFollowDelivery,
     AtMostOnePush, PushedAsConfirmed, OutcomeTruthful, ReceiptTruthful
<1> QED
  BY <1>2, <1>4, <1>5, <1>6, <1>7 DEF IInv

----------------------------------------------------------------------------
(* The actions of a worker *)

(* DeliveryAPIView.post keeps the invariant.                                *)
LEMMA SubmitStep ==
  ASSUME IInv, NEW r \in Requests, NEW op \in Operations, NEW c \in Contents,
         NEW t \in tokens, Submit(r, op, c, t)
  PROVE  IInv'
<1>1. CASE ~(Deliverable /\ Verified(t, c))
  <2>1. Refusal(t) \in Replies
    BY DEF Refusal, Replies
  <2> QED
    BY <1>1, <2>1, Retire DEF Submit, Others
<1>2. CASE Deliverable /\ Verified(t, c)
  <2> DEFINE q == Confirmed(op, t)
  <2>1. t \in Token /\ t.content = c
    BY <1>2 DEF IInv, TypeOK, Verified
  <2>2. /\ q \in Request /\ q.pc = "confirmed" /\ q.op = op
        /\ q.content = t.content /\ q.revision = t.revision
    BY <1>2, <2>1, ConstantAssumption DEF Confirmed, Verified, Token, Request
  <2>5. req' = [req EXCEPT ![r] = q]
    BY <1>2 DEF Submit
  <2> HIDE DEF q
  <2>6. req' \in [Requests -> Request] /\ req'[r] = q
        /\ \A s \in Requests : s # r => req'[s] = req[s]
    BY <2>2, <2>5 DEF IInv, TypeOK
  <2>7. TypeOK'
    BY <2>6 DEF IInv, TypeOK, Submit
  <2>8. \A s \in Requests : Owning(s)' => Owning(s) /\ s # r
    BY <2>2, <2>6 DEF Owning
  <2>9. WorkIsConfirmed' /\ ResultsAreTrue'
    BY <2>1, <2>2, <2>6 DEF IInv, WorkIsConfirmed, ResultsAreTrue, Working, Submit
  <2>10. OwnersAreAlone' /\ FailedIsAbandoned' /\ PushesAreOwned'
    BY <2>2, <2>6, <2>8 DEF IInv, OwnersAreAlone, FailedIsAbandoned, PushesAreOwned,
       Exists, Submit
  <2>11. /\ RowsAreValid' /\ TapsFollowDelivery' /\ AtMostOnePush'
         /\ PushedAsConfirmed' /\ OutcomeTruthful' /\ ReceiptTruthful'
    BY DEF IInv, Submit, RowsAreValid, Exists, TapsFollowDelivery,
       AtMostOnePush, PushedAsConfirmed, OutcomeTruthful, ReceiptTruthful
  <2> QED
    BY <2>7, <2>9, <2>10, <2>11 DEF IInv
<1> QED
  BY <1>1, <1>2

(* Moving to another label that is neither the push nor the settling.       *)
LEMMA GotoStep ==
  ASSUME IInv, NEW r \in Requests, UNCHANGED Others,
         NEW label \in {"resolved", "collided", "unclaimed", "credentialed",
                        "checked"},
         Goto(r, label),
         Working(r), req[r].pc \notin {"waiting", "settling"},
         label \in {"credentialed", "checked"} => Owning(r)
  PROVE  IInv'
<1> DEFINE q == [req[r] EXCEPT !.pc = label]
<1>1. q \in Request /\ q.pc = label /\ q.op = req[r].op
      /\ q.content = req[r].content /\ q.revision = req[r].revision
  BY DEF IInv, TypeOK, Request
<1>2. req' = [req EXCEPT ![r] = q]
  BY DEF Goto
<1> HIDE DEF q
<1> QED
  BY <1>1, <1>2, Advance

(* A worker that has a result to store keeps the invariant.                 *)
LEMMA SettlingStep ==
  ASSUME IInv, NEW r \in Requests, UNCHANGED Others, Owning(r),
         NEW result \in PushResults \cup PrePushFailures, Settling(r, result),
         result = "accepted" => line[req[r].op] = "accepted",
         result = "rejected" => line[req[r].op] = "refused",
         result \in PrePushFailures => line[req[r].op] = "idle"
  PROVE  IInv'
<1> DEFINE q == [req[r] EXCEPT !.pc = "settling", !.result = result]
<1>0. req[r] \in Request
  BY DEF IInv, TypeOK
<1>1. q \in Request /\ q.pc = "settling" /\ q.result = result
      /\ q.op = req[r].op /\ q.content = req[r].content
      /\ q.revision = req[r].revision
  BY <1>0, SettlingRecord
<1>2. req' = [req EXCEPT ![r] = q]
  BY DEF Settling
<1>3. Working(r)
  BY DEF Owning, Working
<1> HIDE DEF q
<1> QED
  BY <1>1, <1>2, <1>3, Advance

(* A worker that has not pushed yet finds LINE untouched.                   *)
LEMMA BeforePush ==
  ASSUME IInv, NEW r \in Requests,
         req[r].pc \in {"accepted", "credentialed", "checked"}
  PROVE  /\ req[r].op \in Operations
         /\ Owning(r) /\ Working(r)
         /\ line[req[r].op] = "idle"
         /\ \A p \in pushed : p.op # req[r].op
BY DEF IInv, WorkIsConfirmed, Working, Owning, PushesAreOwned

(* The steps of accept that write no row keep the invariant.                *)
LEMMA AcceptSteps ==
  ASSUME IInv, NEW r \in Requests,
         Reconfirm(r) \/ Lookup(r) \/ RereadOperation(r) \/ RereadActive(r)
  PROVE  IInv'
<1>1. ASSUME Reconfirm(r) PROVE IInv'
  <2>1. Working(r) /\ UNCHANGED Others
    BY <1>1 DEF Reconfirm, Working, Others
  <2> QED
    BY <1>1, <2>1, Retire, GotoStep DEF Reconfirm, Replies
<1>2. ASSUME Lookup(r) PROVE IInv'
  <2>1. Working(r) /\ UNCHANGED Others
    BY <1>2 DEF Lookup, Working, Others
  <2>2. CASE Exists(req[r].op)
    BY <1>2, <2>1, <2>2, Retire DEF Lookup, Classify, Replies
  <2>3. CASE ~Exists(req[r].op)
    <3> DEFINE q == [req[r] EXCEPT !.pc = "fresh", !.left = ProcessingTimeout]
    <3>0. req[r] \in Request
      BY DEF IInv, TypeOK
    <3>1. q \in Request /\ q.pc = "fresh" /\ q.op = req[r].op
          /\ q.content = req[r].content /\ q.revision = req[r].revision
      BY <3>0, FreshRecord
    <3>2. req' = [req EXCEPT ![r] = q] /\ req[r].pc = "resolved"
      BY <1>2, <2>3 DEF Lookup
    <3> HIDE DEF q
    <3> QED
      BY <2>1, <3>1, <3>2, Advance
  <2> QED
    BY <2>2, <2>3
<1>3. ASSUME RereadOperation(r) PROVE IInv'
  <2>1. Working(r) /\ UNCHANGED Others
    BY <1>3 DEF RereadOperation, Working, Others
  <2> QED
    BY <1>3, <2>1, Retire, GotoStep DEF RereadOperation, Classify, Replies
<1>4. ASSUME RereadActive(r) PROVE IInv'
  BY <1>4, Retire DEF RereadActive, Replies, Others
<1> QED
  BY <1>1, <1>2, <1>3, <1>4

(* The only step that creates a row, and with it an owner.                  *)
LEMMA InsertStep ==
  ASSUME IInv, NEW r \in Requests, Insert(r)
  PROVE  IInv'
<1> DEFINE op == req[r].op
           c == req[r].content
<1>1. Working(r) /\ op \in Operations /\ req[r].pc = "fresh"
  BY DEF Insert, Working, IInv, WorkIsConfirmed
<1>2. PICK t \in tokens : t.content = c /\ t.revision = req[r].revision
  BY <1>1 DEF IInv, WorkIsConfirmed
<1>3. c \in Contents
  BY <1>2 DEF IInv, TypeOK, Token
<1>4. CASE ~target.channel
  BY <1>4, Retire DEF Insert, Replies, Others
<1>5. CASE target.channel /\ (Exists(op) \/ ActiveTwin(c))
  BY <1>1, <1>5, GotoStep DEF Insert, Others
<1>6. CASE target.channel /\ ~Exists(op) /\ ~ActiveTwin(c)
  <2> DEFINE a == NewAttempt(req[r])
             q == [req[r] EXCEPT !.pc = "accepted", !.left = 0,
                                 !.receiptLeft = 0]
  <2>1. /\ attempts' = [attempts EXCEPT ![op] = a]
        /\ req' = [req EXCEPT ![r] = q]
        /\ UNCHANGED <<target, tokens, expiring, taps, pushed, line>>
    BY <1>6 DEF Insert
  <2>0. req[r] \in Request
    BY DEF IInv, TypeOK
  <2>2. a \in Attempt /\ a.status = "processing" /\ a.failure = "none"
        /\ a.content = c /\ a.active = c /\ a.receipt = None
    BY <1>3, <2>0 DEF Request, NewAttempt, Attempt, Statuses, Failures
  <2>3. q \in Request /\ q.pc = "accepted" /\ q.op = op /\ q.content = c
        /\ q.revision = req[r].revision
    BY <2>0, AcceptedRecord
  <2> HIDE DEF a, q
  <2>4. attempts' \in [Operations -> Attempt] /\ attempts'[op] = a
        /\ \A o \in Operations : o # op => attempts'[o] = attempts[o]
    BY <1>1, <2>1, <2>2 DEF IInv, TypeOK
  <2>5. req' \in [Requests -> Request] /\ req'[r] = q
        /\ \A s \in Requests : s # r => req'[s] = req[s]
    BY <2>1, <2>3 DEF IInv, TypeOK
  <2>6. TypeOK'
    BY <2>1, <2>4, <2>5 DEF IInv, TypeOK
  <2>7. \A s \in Requests : Owning(s) => req[s].op # op
    <3>1. attempts[op].status = "absent" /\ attempts[op].failure = "none"
      BY <1>1, <1>6 DEF IInv, RowsAreValid, Exists, Absent
    <3> QED
      BY <3>1 DEF IInv, OwnersAreAlone
  <2>8. /\ \A p \in pushed : p.op # op
        /\ line[op] = "idle"
    BY <1>1, <1>6 DEF IInv, PushesAreOwned
  <2>9. \A s \in Requests : Owning(s)' => s = r \/ Owning(s)
    BY <2>5 DEF Owning
  <2>10. WorkIsConfirmed' /\ ResultsAreTrue'
    BY <1>1, <2>1, <2>3, <2>5 DEF IInv, WorkIsConfirmed, ResultsAreTrue, Working
  <2>11. OwnersAreAlone'
    <3>1. \A s \in Requests : Owning(s)' =>
            /\ attempts'[req'[s].op].content = req'[s].content
            /\ \/ attempts'[req'[s].op].status = "processing"
               \/ attempts'[req'[s].op].failure = "processing_expired"
      BY <2>2, <2>3, <2>4, <2>5, <2>7, <2>9
         DEF IInv, OwnersAreAlone, WorkIsConfirmed, Working, Owning
    <3>2. \A s, u \in Requests :
            Owning(s)' /\ Owning(u)' /\ req'[s].op = req'[u].op => s = u
      BY <2>3, <2>5, <2>7, <2>9 DEF IInv, OwnersAreAlone
    <3> QED
      BY <3>1, <3>2 DEF OwnersAreAlone
  <2>12. RowsAreValid'
    BY <1>3, <1>6, <2>2, <2>4 DEF IInv, RowsAreValid, Exists, ActiveTwin
  <2>13. PushesAreOwned'
    BY <2>1, <2>2, <2>3, <2>4, <2>5, <2>7, <2>8, <2>9
       DEF IInv, PushesAreOwned, Exists, TypeOK, Push, Owning
  <2>14. FailedIsAbandoned'
    BY <2>2, <2>3, <2>4, <2>5, <2>9 DEF IInv, FailedIsAbandoned
  <2>15. TapsFollowDelivery'
    BY <2>1, <2>4, <2>8 DEF IInv, TapsFollowDelivery
  <2>16. AtMostOnePush' /\ PushedAsConfirmed'
    BY <2>1, <2>4, <2>8 DEF IInv, AtMostOnePush, PushedAsConfirmed, TypeOK, Push
  <2>17. OutcomeTruthful' /\ ReceiptTruthful'
    BY <2>1, <2>2, <2>4 DEF IInv, OutcomeTruthful, ReceiptTruthful
  <2> QED
    BY <2>6, <2>10, <2>11, <2>12, <2>13, <2>14, <2>15, <2>16, <2>17 DEF IInv
<1> QED
  BY <1>4, <1>5, <1>6

(* Credential and last look at the target keep the invariant.               *)
LEMMA PrepareSteps ==
  ASSUME IInv, NEW r \in Requests, FetchCredential(r) \/ Recheck(r)
  PROVE  IInv'
<1>1. ASSUME FetchCredential(r) PROVE IInv'
  <2>1. UNCHANGED Others /\ req[r].pc = "accepted"
    BY <1>1 DEF FetchCredential, Others
  <2> QED
    BY <1>1, <2>1, BeforePush, GotoStep, SettlingStep
       DEF FetchCredential, PrePushFailures
<1>2. ASSUME Recheck(r) PROVE IInv'
  <2>1. UNCHANGED Others /\ req[r].pc = "credentialed"
    BY <1>2 DEF Recheck, Others
  <2>2. CASE Deliverable /\ target.revision = req[r].revision
    <3> DEFINE q == [req[r] EXCEPT !.pc = "checked",
                                   !.revision = target.revision]
    <3>1. PICK x \in Request : x = req[r]
      BY DEF IInv, TypeOK
    <3>2. q = [x EXCEPT !.pc = "checked"]
      BY <2>2, <3>1 DEF Request
    <3> HIDE DEF q
    <3>3. /\ q \in Request /\ q.pc = "checked" /\ q.op = req[r].op
          /\ q.content = req[r].content /\ q.revision = req[r].revision
      BY <3>1, <3>2 DEF Request
    <3>4. req' = [req EXCEPT ![r] = q]
      BY <1>2, <2>2 DEF Recheck, Checked, q
    <3> QED
      BY <2>1, <3>3, <3>4, BeforePush, Advance
  <2>3. CASE ~(Deliverable /\ target.revision = req[r].revision)
    BY <1>2, <2>1, <2>3, BeforePush, SettlingStep DEF Recheck, PrePushFailures
  <2> QED
    BY <2>2, <2>3
<1> QED
  BY <1>1, <1>2

----------------------------------------------------------------------------
(* The push and what comes back *)

(* A worker pushes for the row it owns, and nobody else ever did.           *)
LEMMA PushStep ==
  ASSUME IInv, NEW r \in Requests, PushOnce(r)
  PROVE  IInv'
<1> DEFINE op == req[r].op
           p == [request |-> r, op |-> op, content |-> req[r].content,
                 revision |-> req[r].revision]
           q == [req[r] EXCEPT !.pc = "waiting"]
<1>1. /\ op \in Operations /\ Owning(r) /\ Working(r) /\ line[op] = "idle"
      /\ \A o \in pushed : o.op # op
  BY BeforePush DEF PushOnce
<1>2. req[r] \in Request
  BY DEF IInv, TypeOK
<1>3. PICK t \in tokens :
        t.content = req[r].content /\ t.revision = req[r].revision
  BY <1>1 DEF IInv, WorkIsConfirmed
<1>4. p \in Push
  BY <1>1, <1>2, <1>3 DEF IInv, TypeOK, Token, Push, Request
<1>5. q \in Request /\ q.pc = "waiting" /\ q.op = op
      /\ q.content = req[r].content /\ q.revision = req[r].revision
  BY <1>2 DEF Request
<1>6. /\ pushed' = pushed \cup {p}
      /\ line' = [line EXCEPT ![op] = "sent"]
      /\ req' = [req EXCEPT ![r] = q]
      /\ UNCHANGED <<target, tokens, attempts, expiring, taps>>
  BY <1>1 DEF PushOnce, Goto
<1>7. p.op = op /\ p.content = req[r].content /\ p.revision = req[r].revision
  OBVIOUS
<1> HIDE DEF p, q
<1>8. req' \in [Requests -> Request] /\ req'[r] = q
      /\ \A s \in Requests : s # r => req'[s] = req[s]
  BY <1>5, <1>6 DEF IInv, TypeOK
<1>9. line' \in [Operations -> {"idle", "sent", "accepted", "refused"}]
      /\ line'[op] = "sent"
      /\ \A o \in Operations : o # op => line'[o] = line[o]
  BY <1>1, <1>6 DEF IInv, TypeOK
<1>10. TypeOK'
  BY <1>4, <1>6, <1>8, <1>9 DEF IInv, TypeOK
<1>11. \A s \in Requests : /\ Owning(s)' = Owning(s)
                            /\ Working(s)' = Working(s)
                            /\ req'[s].op = req[s].op
                            /\ req'[s].content = req[s].content
                            /\ req'[s].revision = req[s].revision
  BY <1>1, <1>5, <1>8 DEF Owning, Working
<1>12. WorkIsConfirmed'
  BY <1>6, <1>11 DEF IInv, WorkIsConfirmed
<1>13. OwnersAreAlone' /\ RowsAreValid' /\ FailedIsAbandoned'
  BY <1>6, <1>11 DEF IInv, OwnersAreAlone, RowsAreValid, FailedIsAbandoned,
     Exists
<1>14. Exists(op) /\ attempts[op].content = req[r].content
       /\ attempts[op].status # "failed" /\ attempts[op].receipt = None
       /\ attempts[op].status # "succeeded"
  BY <1>1 DEF IInv, OwnersAreAlone, RowsAreValid, FailedIsAbandoned, Exists,
     ReceiptTruthful, OutcomeTruthful
<1>15. PushesAreOwned'
  <2>1. \A o \in pushed' : Exists(o.op)'
    BY <1>6, <1>7, <1>14 DEF IInv, PushesAreOwned, Exists
  <2>2. \A o \in pushed' : \A s \in Requests :
          Owning(s)' /\ req'[s].op = o.op => req'[s].pc \in {"waiting", "settling"}
    BY <1>1, <1>5, <1>6, <1>7, <1>8, <1>11 DEF IInv, PushesAreOwned, OwnersAreAlone
  <2>3. \A o \in Operations : line'[o] # "idle" => \E u \in pushed' : u.op = o
    BY <1>6, <1>7, <1>9 DEF IInv, PushesAreOwned
  <2> QED
    BY <2>1, <2>2, <2>3 DEF PushesAreOwned
<1>16. ResultsAreTrue'
  BY <1>1, <1>5, <1>8, <1>9, <1>11
     DEF IInv, ResultsAreTrue, OwnersAreAlone, WorkIsConfirmed, Owning, Working
<1>17. TapsFollowDelivery'
  BY <1>1, <1>6, <1>9 DEF IInv, TapsFollowDelivery
<1>18. AtMostOnePush'
  BY <1>1, <1>6, <1>7 DEF IInv, AtMostOnePush
<1>19. PushedAsConfirmed'
  BY <1>3, <1>6, <1>7, <1>14 DEF IInv, PushedAsConfirmed
<1>20. OutcomeTruthful' /\ ReceiptTruthful'
  BY <1>6, <1>9, <1>14 DEF IInv, OutcomeTruthful, ReceiptTruthful
<1> QED
  BY <1>10, <1>12, <1>13, <1>15, <1>16, <1>17, <1>18, <1>19, <1>20 DEF IInv

(* LINE's verdict on a push it was handed keeps the invariant.              *)
LEMMA LineDecidesStep ==
  ASSUME IInv, NEW op \in Operations, LineDecides(op)
  PROVE  IInv'
<1>1. line[op] = "sent"
      /\ UNCHANGED <<target, tokens, attempts, req, expiring, taps, pushed>>
  BY DEF LineDecides
<1>2. line' \in [Operations -> {"idle", "sent", "accepted", "refused"}]
      /\ line'[op] # "idle"
      /\ \A o \in Operations : o # op => line'[o] = line[o]
  BY DEF LineDecides, IInv, TypeOK
<1>3. attempts[op].status \notin {"succeeded", "failed"}
      /\ attempts[op].receipt = None
  BY <1>1 DEF IInv, OutcomeTruthful, ReceiptTruthful
<1>4. TypeOK'
  BY <1>1, <1>2 DEF IInv, TypeOK
<1>5. WorkIsConfirmed' /\ OwnersAreAlone' /\ RowsAreValid'
      /\ FailedIsAbandoned' /\ AtMostOnePush' /\ PushedAsConfirmed'
  BY <1>1 DEF IInv, WorkIsConfirmed, OwnersAreAlone, RowsAreValid,
     FailedIsAbandoned, AtMostOnePush, PushedAsConfirmed, Exists, Owning,
     Working
<1>6. PushesAreOwned'
  BY <1>1, <1>2 DEF IInv, PushesAreOwned, Exists, Owning
<1>7. ResultsAreTrue'
  BY <1>1, <1>2 DEF IInv, ResultsAreTrue, WorkIsConfirmed, Working
<1>8. TapsFollowDelivery' /\ OutcomeTruthful' /\ ReceiptTruthful'
  BY <1>1, <1>2, <1>3 DEF IInv, TapsFollowDelivery, OutcomeTruthful,
     ReceiptTruthful
<1> QED
  BY <1>4, <1>5, <1>6, <1>7, <1>8 DEF IInv

(* The result of the push is what LINE did, or open.                        *)
LEMMA ReceiveStep ==
  ASSUME IInv, NEW r \in Requests, Receive(r)
  PROVE  IInv'
<1>1. UNCHANGED Others /\ Owning(r)
  BY DEF Receive, Others, Owning
<1> QED
  BY <1>1, SettlingStep DEF Receive, PushResults, PrePushFailures

----------------------------------------------------------------------------
(* Settling a row *)

(* Closing a processing row: its active fingerprint goes, and everything    *)
(* else that the invariant reads of it stays.                               *)
LEMMA CloseRow ==
  ASSUME IInv, NEW op \in Operations, attempts[op].status = "processing",
         NEW status \in {"succeeded", "failed", "unknown"},
         NEW failure \in Failures,
         attempts' = [attempts EXCEPT ![op] = Closed(attempts[op], status, failure)],
         expiring' \subseteq Operations,
         UNCHANGED <<target, tokens, taps, pushed, line>>,
         failure = "processing_expired" => status = "unknown",
         status = "succeeded" => line[op] = "accepted",
         status = "failed" => line[op] \in {"idle", "refused"},
         \/ UNCHANGED req /\ failure = "processing_expired"
         \/ \E r \in Requests :
              Owning(r) /\ req[r].op = op /\ Reply(r, "created")
  PROVE  IInv'
<1> DEFINE a == Closed(attempts[op], status, failure)
<1>1. attempts[op] \in Attempt /\ attempts[op].content \in Contents
  BY DEF IInv, TypeOK, RowsAreValid, Exists
<1>2. /\ a \in Attempt /\ a.status = status /\ a.failure = failure
      /\ a.active = None /\ a.content = attempts[op].content
      /\ a.receipt = attempts[op].receipt
  BY <1>1, ClosedRecord
<1>3. attempts' = [attempts EXCEPT ![op] = a]
  OBVIOUS
<1> HIDE DEF a
<1>4. attempts' \in [Operations -> Attempt] /\ attempts'[op] = a
      /\ \A o \in Operations : o # op => attempts'[o] = attempts[o]
  BY <1>2, <1>3 DEF IInv, TypeOK
<1>5. /\ req' \in [Requests -> Request]
      /\ \A s \in Requests :
           /\ Owning(s)' => Owning(s) /\ req'[s] = req[s]
           /\ Working(s)' => Working(s) /\ req'[s] = req[s]
           /\ req'[s].pc = "settling" => req'[s] = req[s]
           /\ Owning(s)' /\ req'[s].op = op => failure = "processing_expired"
  <2>1. CASE UNCHANGED req /\ failure = "processing_expired"
    BY <2>1 DEF Owning, Working, IInv, TypeOK
  <2>2. ASSUME NEW r \in Requests, Owning(r), req[r].op = op, Reply(r, "created")
        PROVE  /\ req' \in [Requests -> Request]
               /\ req'[r].pc = "done"
               /\ \A s \in Requests : s # r => req'[s] = req[s]
               /\ \A s \in Requests : s # r /\ Owning(s) => req[s].op # op
    <3>1. Done("created") \in Request /\ Done("created").pc = "done"
      BY DoneIsRequest DEF Replies, Done, Empty
    <3>2. \A s \in Requests : s # r /\ Owning(s) => req[s].op # op
      BY <2>2 DEF IInv, OwnersAreAlone
    <3> QED
      BY <2>2, <3>1, <3>2 DEF IInv, TypeOK, Reply
  <2>3. ASSUME NEW r \in Requests, Owning(r), req[r].op = op, Reply(r, "created")
        PROVE  <1>5
    BY <2>2, <2>3 DEF Owning, Working
  <2> QED
    BY <2>1, <2>3
<1>6. \A s \in Requests :
        Owning(s)' /\ req'[s].op = op => failure = "processing_expired"
  BY <1>5
<1>7. TypeOK'
  BY <1>4, <1>5 DEF IInv, TypeOK
<1>8. WorkIsConfirmed' /\ ResultsAreTrue'
  BY <1>5 DEF IInv, WorkIsConfirmed, ResultsAreTrue
<1>9. OwnersAreAlone'
  BY <1>2, <1>4, <1>5, <1>6
     DEF IInv, OwnersAreAlone, WorkIsConfirmed, Owning, Working
<1>10. RowsAreValid'
  BY <1>1, <1>2, <1>4 DEF IInv, RowsAreValid, Exists
<1>11. PushesAreOwned'
  BY <1>2, <1>4, <1>5 DEF IInv, PushesAreOwned, Exists, TypeOK, Push
<1>12. FailedIsAbandoned'
  BY <1>2, <1>4, <1>5, <1>6 DEF IInv, FailedIsAbandoned
<1>13. TapsFollowDelivery'
  BY <1>2, <1>4 DEF IInv, TapsFollowDelivery
<1>14. AtMostOnePush' /\ PushedAsConfirmed'
  BY <1>2, <1>4 DEF IInv, AtMostOnePush, PushedAsConfirmed, TypeOK, Push
<1>15. OutcomeTruthful'
  BY <1>2, <1>4 DEF IInv, OutcomeTruthful
<1>16. ReceiptTruthful'
  BY <1>2, <1>4 DEF IInv, ReceiptTruthful
<1> QED
  BY <1>7, <1>8, <1>9, <1>10, <1>11, <1>12, <1>13, <1>14, <1>15, <1>16 DEF IInv

(* finalize keeps the invariant, whoever settled the row first.             *)
LEMMA FinalizeStep ==
  ASSUME IInv, NEW r \in Requests, Finalize(r)
  PROVE  IInv'
<1>1. /\ Owning(r) /\ req[r].op \in Operations /\ req[r].pc = "settling"
      /\ UNCHANGED <<target, tokens, expiring, taps, pushed, line>>
  BY DEF Finalize, Owning, Working, IInv, WorkIsConfirmed
<1>2. PICK op \in Operations : op = req[r].op
  BY <1>1
<1>4. \E s \in Requests : Owning(s) /\ req[s].op = op /\ Reply(s, "created")
  BY <1>1, <1>2 DEF Finalize
<1>5. CASE attempts[op].status # "processing"
  BY <1>1, <1>2, <1>5, Retire DEF Finalize, Others, Replies
<1>6. CASE attempts[op].status = "processing"
  <2>1. PICK result \in PushResults \cup PrePushFailures :
          /\ result = req[r].result
          /\ result = "accepted" => line[op] = "accepted"
          /\ result = "rejected" => line[op] = "refused"
          /\ result \in PrePushFailures => line[op] = "idle"
    BY <1>1, <1>2 DEF IInv, ResultsAreTrue
  <2>2. PICK status, failure :
          /\ status = IF result = "accepted" THEN "succeeded"
                      ELSE IF result = "push_unknown" THEN "unknown" ELSE "failed"
          /\ failure = IF result = "accepted" THEN "none" ELSE result
    OBVIOUS
  <2>3. attempts' = [attempts EXCEPT ![op] = Closed(attempts[op], status, failure)]
    BY <1>2, <1>6, <2>1, <2>2 DEF Finalize, Outcome
  <2>4. /\ status \in {"succeeded", "failed", "unknown"}
        /\ failure \in Failures /\ failure # "processing_expired"
        /\ status = "succeeded" => line[op] = "accepted"
        /\ status = "failed" => line[op] \in {"idle", "refused"}
    BY <2>1, <2>2 DEF Failures, PushResults, PrePushFailures
  <2>5. expiring' \subseteq Operations
    BY <1>1 DEF IInv, TypeOK
  <2> QED
    BY <1>1, <1>4, <1>6, <2>3, <2>4, <2>5, CloseRow
<1> QED
  BY <1>5, <1>6

(* Looking at a row, and expiring it.                                       *)
LEMMA StatusCheckStep ==
  ASSUME IInv, NEW op \in Operations, CheckStatus(op) \/ Expire(op)
  PROVE  IInv'
<1>1. expiring' \subseteq Operations
  BY DEF CheckStatus, Expire, IInv, TypeOK
<1>2. CASE UNCHANGED <<target, tokens, attempts, req, taps, pushed, line>>
  BY <1>1, <1>2 DEF IInv, TypeOK, WorkIsConfirmed, OwnersAreAlone,
     RowsAreValid, PushesAreOwned, ResultsAreTrue, FailedIsAbandoned,
     TapsFollowDelivery, AtMostOnePush, PushedAsConfirmed, OutcomeTruthful,
     ReceiptTruthful, Working, Owning, Exists
<1>3. CASE Expire(op) /\ attempts[op].status = "processing"
  <2>1. /\ attempts' = [attempts EXCEPT ![op] =
                         Closed(attempts[op], "unknown", "processing_expired")]
        /\ UNCHANGED <<target, tokens, req, taps, pushed, line>>
    BY <1>3 DEF Expire
  <2> QED
    BY <1>1, <1>3, <2>1, CloseRow DEF Failures
<1> QED
  BY <1>2, <1>3 DEF CheckStatus, Expire

----------------------------------------------------------------------------
(* Receipts, the target and the clock *)

(* Classifying a postback keeps the invariant.                              *)
LEMMA TapStep ==
  ASSUME IInv, NEW e \in Taps, NEW op \in Operations, Tap(e, op)
  PROVE  IInv'
<1>1. /\ line[op] = "accepted" /\ attempts[op].content \in ReceiptContents
      /\ UNCHANGED <<target, tokens, attempts, req, expiring, pushed, line>>
  BY DEF Tap
<1>2. PICK x \in [pc : {"idle", "classified", "done"},
                  op : Operations \cup {None}] :
        x.op = op /\ taps' = [taps EXCEPT ![e] = x]
  <2>1. [pc |-> "done", op |-> op].op = op
        /\ [pc |-> "classified", op |-> op].op = op
    OBVIOUS
  <2> QED
    BY <2>1 DEF Tap
<1>3. taps' \in [Taps -> [pc : {"idle", "classified", "done"},
                          op : Operations \cup {None}]]
      /\ taps'[e].op = op /\ \A d \in Taps : d # e => taps'[d] = taps[d]
  BY <1>2 DEF IInv, TypeOK
<1>4. TypeOK' /\ TapsFollowDelivery'
  BY <1>1, <1>3 DEF IInv, TypeOK, TapsFollowDelivery
<1> QED
  BY <1>1, <1>4 DEF IInv, WorkIsConfirmed, OwnersAreAlone, RowsAreValid,
     PushesAreOwned, ResultsAreTrue, FailedIsAbandoned, AtMostOnePush,
     PushedAsConfirmed, OutcomeTruthful, ReceiptTruthful, Working, Owning, Exists

(* The conditional update of the receipt keeps the invariant.               *)
LEMMA RecordReceiptStep ==
  ASSUME IInv, NEW e \in Taps, RecordReceipt(e)
  PROVE  IInv'
<1>1. PICK op \in Operations :
        /\ op = taps[e].op /\ line[op] = "accepted"
        /\ attempts[op].content \in ReceiptContents
        /\ UNCHANGED <<target, tokens, req, expiring, pushed, line>>
  BY DEF RecordReceipt, IInv, TapsFollowDelivery
<1>2. PICK x \in [pc : {"idle", "classified", "done"},
                  op : Operations \cup {None}] :
        x.pc = "done" /\ taps' = [taps EXCEPT ![e] = x]
  BY DEF RecordReceipt, IInv, TypeOK
<1>3. taps' \in [Taps -> [pc : {"idle", "classified", "done"},
                          op : Operations \cup {None}]]
      /\ taps'[e].pc = "done" /\ \A d \in Taps : d # e => taps'[d] = taps[d]
  BY <1>2 DEF IInv, TypeOK
<1>4. PICK a \in Attempt :
        /\ attempts' = [attempts EXCEPT ![op] = a]
        /\ a.status = attempts[op].status /\ a.failure = attempts[op].failure
        /\ a.content = attempts[op].content /\ a.active = attempts[op].active
        /\ \/ a = attempts[op]
           \/ attempts[op].status \in {"processing", "succeeded", "unknown"}
  <2>1. attempts[op] \in Attempt
    BY DEF IInv, TypeOK
  <2>2. CASE attempts' = attempts
    BY <2>1, <2>2 DEF IInv, TypeOK
  <2>3. CASE attempts' # attempts
    <3>1. PICK w \in Attempt : w = attempts[op]
      BY <2>1
    <3> DEFINE y == [w EXCEPT !.receipt = e]
    <3>4. /\ y \in Attempt
          /\ y.status = w.status /\ y.failure = w.failure
          /\ y.content = w.content /\ y.active = w.active
      BY DEF Attempt
    <3>2. PICK a \in Attempt :
            /\ a = [w EXCEPT !.receipt = e]
            /\ a.status = w.status /\ a.failure = w.failure
            /\ a.content = w.content /\ a.active = w.active
      BY <3>4
    <3>3. /\ attempts' = [attempts EXCEPT ![op] = a]
          /\ w.status \in {"processing", "succeeded", "unknown"}
      BY <1>1, <2>3, <3>1, <3>2 DEF RecordReceipt
    <3> QED
      BY <3>1, <3>2, <3>3
  <2> QED
    BY <2>2, <2>3
<1>5. attempts' \in [Operations -> Attempt] /\ attempts'[op] = a
      /\ \A o \in Operations : o # op => attempts'[o] = attempts[o]
  BY <1>4 DEF IInv, TypeOK
<1>6. \A o \in Operations :
        /\ attempts'[o].status = attempts[o].status
        /\ attempts'[o].failure = attempts[o].failure
        /\ attempts'[o].content = attempts[o].content
        /\ attempts'[o].active = attempts[o].active
        /\ attempts[o].status = "absent" => attempts'[o] = attempts[o]
  BY <1>4, <1>5
<1>7. TypeOK' /\ TapsFollowDelivery'
  BY <1>1, <1>3, <1>5, <1>6 DEF IInv, TypeOK, TapsFollowDelivery
<1>8. WorkIsConfirmed' /\ ResultsAreTrue' /\ AtMostOnePush'
  BY <1>1 DEF IInv, WorkIsConfirmed, ResultsAreTrue, AtMostOnePush, Working
<1>9. OwnersAreAlone' /\ FailedIsAbandoned'
  BY <1>1, <1>6 DEF IInv, OwnersAreAlone, FailedIsAbandoned, Owning,
     WorkIsConfirmed, Working
<1>10. RowsAreValid' /\ OutcomeTruthful'
  BY <1>1, <1>6 DEF IInv, RowsAreValid, Exists, OutcomeTruthful
<1>11. PushesAreOwned' /\ PushedAsConfirmed'
  BY <1>1, <1>6 DEF IInv, PushesAreOwned, PushedAsConfirmed, Exists, Owning,
     TypeOK, Push
<1>12. ReceiptTruthful'
  BY <1>1, <1>4, <1>5, <1>6 DEF IInv, ReceiptTruthful
<1> QED
  BY <1>7, <1>8, <1>9, <1>10, <1>11, <1>12 DEF IInv

(* Changes of the target reach no row and no worker.                        *)
LEMMA DirectoryStep ==
  ASSUME IInv, Directory
  PROVE  IInv'
<1>1. UNCHANGED <<tokens, attempts, req, expiring, taps, pushed, line>>
  BY DEF Directory, ChangeTarget, Unlink, Relink, DeleteChannel
<1>2. target' \in Target
  <2>1. PICK x \in Target : x = target
    BY DEF IInv, TypeOK
  <2>2. ASSUME NEW a \in BOOLEAN, x.revision < MaxRevision
        PROVE  /\ [x EXCEPT !.available = a, !.revision = @ + 1] \in Target
               /\ [x EXCEPT !.linked = TRUE, !.available = a,
                            !.revision = @ + 1] \in Target
    <3>1. x.revision + 1 \in 0..MaxRevision
      BY <2>2, ConstantAssumption DEF Target
    <3>2. [x EXCEPT !.available = a, !.revision = x.revision + 1] \in Target
      BY <3>1 DEF Target
    <3>3. [x EXCEPT !.linked = TRUE, !.available = a,
                    !.revision = x.revision + 1] \in Target
      BY <3>1 DEF Target
    <3> QED
      BY <3>2, <3>3
  <2>3. /\ [x EXCEPT !.linked = FALSE, !.available = FALSE] \in Target
        /\ [x EXCEPT !.channel = FALSE] \in Target
    BY DEF Target
  <2> QED
    BY <2>1, <2>2, <2>3
       DEF Directory, ChangeTarget, Unlink, Relink, DeleteChannel
<1> QED
  BY <1>1, <1>2 DEF IInv, TypeOK, WorkIsConfirmed, OwnersAreAlone,
     RowsAreValid, PushesAreOwned, ResultsAreTrue, FailedIsAbandoned,
     TapsFollowDelivery, AtMostOnePush, PushedAsConfirmed, OutcomeTruthful,
     ReceiptTruthful, Working, Owning, Exists

(* A new confirmation keeps the invariant.                                  *)
LEMMA PreviewStep ==
  ASSUME IInv, NEW c \in Contents, Preview(c)
  PROVE  IInv'
<1>1. UNCHANGED <<target, attempts, req, expiring, taps, pushed, line>>
      /\ tokens \subseteq tokens'
  BY DEF Preview
<1>2. tokens' \subseteq Token
  BY ConstantAssumption DEF Preview, IInv, TypeOK, Token, Target
<1> QED
  BY <1>1, <1>2 DEF IInv, TypeOK, WorkIsConfirmed, OwnersAreAlone,
     RowsAreValid, PushesAreOwned, ResultsAreTrue, FailedIsAbandoned,
     TapsFollowDelivery, AtMostOnePush, PushedAsConfirmed, OutcomeTruthful,
     ReceiptTruthful, Working, Owning, Exists

(* Time only shortens deadlines.                                            *)
LEMMA TickStep ==
  ASSUME IInv, Tick
  PROVE  IInv'
<1>1. UNCHANGED <<target, expiring, taps, pushed, line>>
  BY DEF Tick
<1>2. \A o \in Operations :
        /\ attempts'[o] \in Attempt
        /\ attempts'[o].status = attempts[o].status
        /\ attempts'[o].failure = attempts[o].failure
        /\ attempts'[o].content = attempts[o].content
        /\ attempts'[o].active = attempts[o].active
        /\ attempts'[o].receipt = attempts[o].receipt
        /\ attempts[o] = Absent => attempts'[o] = attempts[o]
  <2> SUFFICES ASSUME NEW o \in Operations, NEW x \in Attempt, x = attempts[o]
               PROVE  LET y == [x EXCEPT !.left = Down(@), !.receiptLeft = Down(@)]
                      IN /\ y \in Attempt
                         /\ y.status = x.status /\ y.failure = x.failure
                         /\ y.content = x.content /\ y.active = x.active
                         /\ y.receipt = x.receipt
                         /\ x = Absent => y = x
    BY DEF IInv, TypeOK, Tick
  <2>1. Down(x.left) \in 0..ProcessingTimeout
        /\ Down(x.receiptLeft) \in 0..ReceiptMaxAge
    BY ConstantAssumption DEF Down, Attempt
  <2>2. x = Absent => Down(x.left) = x.left /\ Down(x.receiptLeft) = x.receiptLeft
    BY DEF Down, Absent
  <2> QED
    BY <2>1, <2>2 DEF Attempt
<1>3. \A r \in Requests :
        /\ req'[r] \in Request
        /\ req'[r].pc = req[r].pc /\ req'[r].op = req[r].op
        /\ req'[r].content = req[r].content
        /\ req'[r].revision = req[r].revision
        /\ req'[r].result = req[r].result
  <2> SUFFICES ASSUME NEW r \in Requests, NEW x \in Request, x = req[r]
               PROVE  LET y == [x EXCEPT !.left = Down(@), !.receiptLeft = Down(@)]
                      IN /\ y \in Request
                         /\ y.pc = x.pc /\ y.op = x.op /\ y.content = x.content
                         /\ y.revision = x.revision /\ y.result = x.result
    <3>1. req \in [Requests -> Request]
      BY DEF IInv, TypeOK
    <3> QED
      BY <3>1 DEF Tick
  <2>1. Down(x.left) \in 0..ProcessingTimeout
        /\ Down(x.receiptLeft) \in 0..ReceiptMaxAge
    BY ConstantAssumption DEF Down, Request
  <2> QED
    BY <2>1 DEF Request
<1>4. /\ tokens' \subseteq Token
      /\ \A t \in tokens : \E u \in tokens' :
           u.content = t.content /\ u.revision = t.revision
  <2> DEFINE aged(t) ==
        [t EXCEPT !.age = IF @ <= ConfirmationMaxAge THEN @ + 1 ELSE @]
  <2>1. \A t \in Token : /\ aged(t) \in Token
                          /\ aged(t).content = t.content
                          /\ aged(t).revision = t.revision
    BY ConstantAssumption DEF Token
  <2>2. tokens' = {aged(t) : t \in tokens} /\ tokens \subseteq Token
    BY DEF Tick, IInv, TypeOK
  <2> HIDE DEF aged
  <2> QED
    BY <2>1, <2>2
<1>5. TypeOK'
  <2>1. attempts' \in [Operations -> Attempt]
    BY <1>2 DEF Tick
  <2>2. req' \in [Requests -> Request]
    BY <1>3 DEF Tick
  <2> QED
    BY <1>1, <1>4, <2>1, <2>2 DEF IInv, TypeOK
<1>6. WorkIsConfirmed' /\ ResultsAreTrue'
  BY <1>1, <1>3, <1>4 DEF IInv, WorkIsConfirmed, ResultsAreTrue, Working
<1>7. OwnersAreAlone' /\ FailedIsAbandoned'
  BY <1>2, <1>3 DEF IInv, OwnersAreAlone, FailedIsAbandoned, Owning,
     WorkIsConfirmed, Working
<1>8. RowsAreValid' /\ OutcomeTruthful' /\ ReceiptTruthful'
  BY <1>1, <1>2 DEF IInv, RowsAreValid, Exists, OutcomeTruthful, ReceiptTruthful
<1>9. PushesAreOwned'
  BY <1>1, <1>2, <1>3 DEF IInv, PushesAreOwned, Exists, Owning, TypeOK, Push
<1>10. TapsFollowDelivery' /\ AtMostOnePush'
  BY <1>1, <1>2 DEF IInv, TapsFollowDelivery, AtMostOnePush
<1>11. PushedAsConfirmed'
  BY <1>1, <1>2, <1>4 DEF IInv, PushedAsConfirmed, TypeOK, Push
<1> QED
  BY <1>5, <1>6, <1>7, <1>8, <1>9, <1>10, <1>11 DEF IInv

----------------------------------------------------------------------------
(* The invariant *)

(* Every step keeps the inductive invariant.                                *)
LEMMA NextInvariant == IInv /\ [Next]_vars => IInv'
<1> SUFFICES ASSUME IInv, [Next]_vars PROVE IInv'
  OBVIOUS
<1>1. CASE UNCHANGED vars
  BY <1>1 DEF vars, IInv, TypeOK, WorkIsConfirmed, OwnersAreAlone,
     RowsAreValid, PushesAreOwned, ResultsAreTrue, FailedIsAbandoned,
     TapsFollowDelivery, AtMostOnePush, PushedAsConfirmed, OutcomeTruthful,
     ReceiptTruthful, Working, Owning, Exists
<1>2. ASSUME NEW r \in Requests, Worker(r) PROVE IInv'
  <2>1. CASE Send(r)
    BY <2>1, SubmitStep DEF Send
  <2>2. CASE StorageFails(r) \/ Crash(r)
    BY <2>2, Retire DEF StorageFails, Crash, Others, Replies
  <2>3. CASE Work(r)
    BY <2>3, AcceptSteps, InsertStep, PrepareSteps, PushStep, ReceiveStep,
       FinalizeStep DEF Work
  <2> QED
    BY <1>2, <2>1, <2>2, <2>3 DEF Worker
<1>3. ASSUME NEW op \in Operations, StatusCheck(op) \/ LineDecides(op)
      PROVE  IInv'
  BY <1>3, StatusCheckStep, LineDecidesStep DEF StatusCheck
<1>4. ASSUME NEW e \in Taps, Receipt(e) PROVE IInv'
  BY <1>4, TapStep, RecordReceiptStep DEF Receipt
<1> QED
  BY <1>1, <1>2, <1>3, <1>4, PreviewStep, DirectoryStep, TickStep DEF Next

(* The inductive invariant holds in every reachable state.                  *)
THEOREM Invariance == Spec => []IInv
<1>1. Init => IInv
  BY InitInvariant
<1>2. IInv /\ [Next]_vars => IInv'
  BY NextInvariant
<1> QED
  BY <1>1, <1>2, PTL DEF Spec

(* Every variable keeps its type, whatever the lengths of the deadlines.    *)
THEOREM TypeCorrect == Spec => []TypeOK
<1>1. IInv => TypeOK
  BY DEF IInv
<1> QED
  BY <1>1, Invariance, PTL

(* LINE is handed an operation at most once.                                *)
THEOREM PushesOnce == Spec => []AtMostOnePush
<1>1. IInv => AtMostOnePush
  BY DEF IInv
<1> QED
  BY <1>1, Invariance, PTL

(* What is pushed is what the owner confirmed, to the confirmed target.     *)
THEOREM PushesConfirmed == Spec => []PushedAsConfirmed
<1>1. IInv => PushedAsConfirmed
  BY DEF IInv
<1> QED
  BY <1>1, Invariance, PTL

(* succeeded means accepted by LINE, failed that it never will be.          *)
THEOREM OutcomesAreTrue == Spec => []OutcomeTruthful
<1>1. IInv => OutcomeTruthful
  BY DEF IInv
<1> QED
  BY <1>1, Invariance, PTL

(* A receipt stands only beside an accepted message that asked for it.      *)
THEOREM ReceiptsAreTrue == Spec => []ReceiptTruthful
<1>1. IInv => ReceiptTruthful
  BY DEF IInv
<1> QED
  BY <1>1, Invariance, PTL

(* Two owners of one content: at least one row has been expired, for two    *)
(* processing rows cannot hold the same fingerprint.                        *)
THEOREM TwinsAreExpired == Spec => []NoParallelTwins
<1>1. IInv => NoParallelTwins
  <2> SUFFICES ASSUME IInv, NEW r \in Requests, NEW s \in Requests, r # s,
                      Owning(r), Owning(s), req[r].content = req[s].content,
                      \A q \in {r, s} :
                        attempts[req[q].op].failure # "processing_expired"
               PROVE  FALSE
    BY DEF NoParallelTwins
  <2>1. req[r].op \in Operations /\ req[s].op \in Operations
    BY DEF IInv, WorkIsConfirmed, Working, Owning
  <2>2. /\ attempts[req[r].op].status = "processing"
        /\ attempts[req[s].op].status = "processing"
        /\ attempts[req[r].op].content = attempts[req[s].op].content
        /\ req[r].op # req[s].op
    BY DEF IInv, OwnersAreAlone
  <2>3. /\ attempts[req[r].op].active = attempts[req[s].op].active
        /\ attempts[req[r].op].active \in Contents
    BY <2>1, <2>2 DEF IInv, RowsAreValid, Exists
  <2> QED
    BY <2>1, <2>2, <2>3, ConstantAssumption DEF IInv, RowsAreValid
<1> QED
  BY <1>1, Invariance, PTL

-----------------------------------------------------------------------------
(* What one step of Delivery may do to the rows: the action properties, and *)
(* that every step is a step of DeliveryPromise or none.                    *)

(* The four things that can happen to a row.                                *)
Same(op) ==
  /\ attempts'[op].status = attempts[op].status
  /\ attempts'[op].failure = attempts[op].failure
  /\ attempts'[op].content = attempts[op].content
  /\ attempts'[op].receipt = attempts[op].receipt

Opened(op) ==
  /\ ~Exists(op)
  /\ attempts'[op].status = "processing"
  /\ attempts'[op].receipt = None

Settled(op) ==
  /\ attempts[op].status = "processing"
  /\ attempts'[op].status \in {"succeeded", "failed", "unknown"}
  /\ attempts'[op].status = "succeeded" => line[op] = "accepted"
  /\ attempts'[op].status = "failed" => line[op] \in {"idle", "refused"}
  /\ attempts'[op].content = attempts[op].content
  /\ attempts'[op].receipt = attempts[op].receipt

Acknowledged(op) ==
  /\ attempts[op].status \in {"processing", "succeeded", "unknown"}
  /\ attempts[op].receipt = None
  /\ attempts'[op].receipt # None
  /\ line[op] = "accepted"
  /\ attempts'[op].status = attempts[op].status
  /\ attempts'[op].failure = attempts[op].failure
  /\ attempts'[op].content = attempts[op].content

Decided(op) ==
  /\ line[op] = "sent"
  /\ line'[op] \in {"accepted", "refused"}
  /\ \A o \in Operations : o # op => line'[o] = line[o]

Written(op) == Opened(op) \/ Settled(op) \/ Acknowledged(op)

(* A step leaves the rows alone, or writes one of them and not LINE.        *)
RowStep ==
  \/ /\ \A o \in Operations : Same(o)
     /\ \/ \A o \in Operations : (line'[o] = "accepted") <=> (line[o] = "accepted")
        \/ \E op \in Operations : Decided(op)
  \/ /\ UNCHANGED line
     /\ \E op \in Operations :
          /\ \A o \in Operations : o # op => Same(o)
          /\ Written(op)

(* accept opens the row of its own operation, or none.                      *)
LEMMA InsertRow ==
  ASSUME IInv, NEW r \in Requests, Insert(r)
  PROVE  RowStep
<1>1. PICK op \in Operations : op = req[r].op
  BY DEF Insert, Working, IInv, WorkIsConfirmed
<1>2. CASE UNCHANGED attempts
  BY <1>2 DEF Insert, RowStep, Same
<1>3. CASE ~UNCHANGED attempts
  <2> DEFINE a == NewAttempt(req[r])
  <2>1. a.status = "processing" /\ a.receipt = None
    BY DEF NewAttempt
  <2>2. /\ attempts' = [attempts EXCEPT ![op] = a]
        /\ ~Exists(op) /\ UNCHANGED line
    BY <1>1, <1>3 DEF Insert
  <2> HIDE DEF a
  <2>3. Opened(op) /\ \A o \in Operations : o # op => Same(o)
    BY <2>1, <2>2 DEF IInv, TypeOK, Opened, Same
  <2> QED
    BY <2>2, <2>3 DEF RowStep, Written
<1> QED
  BY <1>2, <1>3

(* Closing a processing row is the only write of finalize and expiry.       *)
LEMMA CloseRowStep ==
  ASSUME IInv, NEW op \in Operations, attempts[op].status = "processing",
         NEW status \in {"succeeded", "failed", "unknown"},
         NEW failure \in Failures,
         attempts' = [attempts EXCEPT ![op] = Closed(attempts[op], status, failure)],
         UNCHANGED line,
         status = "succeeded" => line[op] = "accepted",
         status = "failed" => line[op] \in {"idle", "refused"}
  PROVE  RowStep
<1> DEFINE a == Closed(attempts[op], status, failure)
<1>1. attempts[op] \in Attempt
  BY DEF IInv, TypeOK
<1>2. /\ a.status = status /\ a.content = attempts[op].content
      /\ a.receipt = attempts[op].receipt
  BY <1>1, ClosedRecord
<1> HIDE DEF a
<1>3. attempts'[op] = a /\ \A o \in Operations : o # op => attempts'[o] = attempts[o]
  BY DEF IInv, TypeOK, a
<1>4. Settled(op) /\ \A o \in Operations : o # op => Same(o)
  BY <1>2, <1>3 DEF Settled, Same
<1> QED
  BY <1>4 DEF RowStep, Written

(* finalize settles its own row, truthfully, or leaves it.                  *)
LEMMA FinalizeRow ==
  ASSUME IInv, NEW r \in Requests, Finalize(r)
  PROVE  RowStep
<1>1. /\ req[r].op \in Operations /\ req[r].pc = "settling" /\ UNCHANGED line
  BY DEF Finalize, Working, IInv, WorkIsConfirmed
<1>2. PICK op \in Operations : op = req[r].op
  BY <1>1
<1>3. CASE attempts[op].status # "processing"
  BY <1>1, <1>2, <1>3 DEF Finalize, RowStep, Same
<1>4. CASE attempts[op].status = "processing"
  <2>1. PICK result \in PushResults \cup PrePushFailures :
          /\ result = req[r].result
          /\ result = "accepted" => line[op] = "accepted"
          /\ result = "rejected" => line[op] = "refused"
          /\ result \in PrePushFailures => line[op] = "idle"
    BY <1>1, <1>2 DEF IInv, ResultsAreTrue
  <2>2. PICK status, failure :
          /\ status = IF result = "accepted" THEN "succeeded"
                      ELSE IF result = "push_unknown" THEN "unknown" ELSE "failed"
          /\ failure = IF result = "accepted" THEN "none" ELSE result
    OBVIOUS
  <2>3. attempts' = [attempts EXCEPT ![op] = Closed(attempts[op], status, failure)]
    BY <1>2, <1>4, <2>1, <2>2 DEF Finalize, Outcome
  <2>4. /\ status \in {"succeeded", "failed", "unknown"}
        /\ failure \in Failures
        /\ status = "succeeded" => line[op] = "accepted"
        /\ status = "failed" => line[op] \in {"idle", "refused"}
    BY <2>1, <2>2 DEF Failures, PushResults, PrePushFailures
  <2> QED
    BY <1>1, <1>4, <2>3, <2>4, CloseRowStep
<1> QED
  BY <1>3, <1>4

(* The status check settles a row as unknown, or leaves it.                 *)
LEMMA ExpireRow ==
  ASSUME IInv, NEW op \in Operations, Expire(op)
  PROVE  RowStep
<1>1. CASE attempts[op].status # "processing"
  BY <1>1 DEF Expire, RowStep, Same
<1>2. CASE attempts[op].status = "processing"
  BY <1>2, CloseRowStep DEF Expire, Failures
<1> QED
  BY <1>1, <1>2

(* A postback fills an empty receipt of an accepted message, or nothing.    *)
LEMMA ReceiptRow ==
  ASSUME IInv, NEW e \in Taps, RecordReceipt(e)
  PROVE  RowStep
<1>1. PICK op \in Operations :
        op = taps[e].op /\ line[op] = "accepted" /\ UNCHANGED line
  BY DEF RecordReceipt, IInv, TapsFollowDelivery
<1>2. CASE UNCHANGED attempts
  BY <1>1, <1>2 DEF RowStep, Same
<1>3. CASE ~UNCHANGED attempts
  <2>1. PICK x \in Attempt : x = attempts[op]
    BY DEF IInv, TypeOK
  <2> DEFINE a == [x EXCEPT !.receipt = e]
  <2>2. /\ a.status = x.status /\ a.failure = x.failure
        /\ a.content = x.content /\ a.receipt = e
    BY DEF Attempt
  <2>3. /\ attempts' = [attempts EXCEPT ![op] = a]
        /\ x.status \in {"processing", "succeeded", "unknown"}
        /\ x.receipt = None
    BY <1>1, <1>3, <2>1 DEF RecordReceipt
  <2> HIDE DEF a
  <2>4. attempts'[op] = a /\ \A o \in Operations : o # op => attempts'[o] = attempts[o]
    BY <2>3 DEF IInv, TypeOK
  <2>5. Acknowledged(op) /\ \A o \in Operations : o # op => Same(o)
    BY <1>1, <2>1, <2>2, <2>3, <2>4, ConstantAssumption DEF Acknowledged, Same
  <2> QED
    BY <1>1, <2>5 DEF RowStep, Written
<1> QED
  BY <1>2, <1>3

(* A push is only made of an operation that LINE does not know.             *)
LEMMA PushRow ==
  ASSUME IInv, NEW r \in Requests, PushOnce(r)
  PROVE  RowStep
<1>1. req[r].op \in Operations /\ line[req[r].op] = "idle"
  BY BeforePush DEF PushOnce
<1>2. /\ line' = [line EXCEPT ![req[r].op] = "sent"]
      /\ UNCHANGED attempts
  BY <1>1 DEF PushOnce
<1> QED
  BY <1>1, <1>2 DEF IInv, TypeOK, RowStep, Same

(* LINE decides on one operation and reads no row.                          *)
LEMMA LineRow ==
  ASSUME IInv, NEW op \in Operations, LineDecides(op)
  PROVE  RowStep
<1>1. Decided(op) /\ UNCHANGED attempts
  BY DEF LineDecides, Decided, IInv, TypeOK
<1> QED
  BY <1>1 DEF RowStep, Same

(* Time changes only what is left of the deadlines.                         *)
LEMMA TickRow ==
  ASSUME IInv, Tick
  PROVE  RowStep
<1>1. ASSUME NEW o \in Operations PROVE Same(o)
  <2>1. PICK x \in Attempt : x = attempts[o]
    BY DEF IInv, TypeOK
  <2>2. attempts'[o] = [x EXCEPT !.left = Down(@), !.receiptLeft = Down(@)]
    BY <2>1 DEF Tick
  <2> QED
    BY <2>1, <2>2 DEF Same, Attempt
<1>2. UNCHANGED line
  BY DEF Tick
<1> QED
  BY <1>1, <1>2 DEF RowStep

(* Every step is a row step.                                                *)
LEMMA NextRow == IInv /\ [Next]_vars => RowStep
<1> SUFFICES ASSUME IInv, [Next]_vars PROVE RowStep
  OBVIOUS
<1>1. CASE UNCHANGED <<attempts, line>>
  BY <1>1 DEF RowStep, Same
<1>2. ASSUME NEW r \in Requests, Worker(r) PROVE RowStep
  <2>1. CASE Insert(r) \/ PushOnce(r) \/ Finalize(r)
    BY <2>1, InsertRow, PushRow, FinalizeRow
  <2>2. CASE ~(Insert(r) \/ PushOnce(r) \/ Finalize(r))
    <3>1. UNCHANGED <<attempts, line>>
      BY <1>2, <2>2 DEF Worker, Send, Work, Submit, StorageFails, Crash,
         Reconfirm, Lookup, RereadOperation, RereadActive, FetchCredential,
         Recheck, Receive
    <3> QED
      BY <1>1, <3>1
  <2> QED
    BY <2>1, <2>2
<1>3. ASSUME NEW op \in Operations, StatusCheck(op) \/ LineDecides(op)
      PROVE  RowStep
  <2>1. CASE CheckStatus(op)
    BY <1>1, <2>1 DEF CheckStatus
  <2> QED
    BY <1>3, <2>1, ExpireRow, LineRow DEF StatusCheck
<1>4. ASSUME NEW e \in Taps, Receipt(e) PROVE RowStep
  <2>1. CASE \E op \in Operations : Tap(e, op)
    BY <1>1, <2>1 DEF Tap
  <2> QED
    BY <1>4, <2>1, ReceiptRow DEF Receipt
<1>5. CASE Directory \/ \E c \in Contents : Preview(c)
  BY <1>1, <1>5 DEF Directory, ChangeTarget, Unlink, Relink, DeleteChannel,
     Preview
<1>6. CASE UNCHANGED vars
  BY <1>1, <1>6 DEF vars
<1> QED
  BY <1>2, <1>3, <1>4, <1>5, <1>6, TickRow DEF Next

----------------------------------------------------------------------------
(* Neither a late finalize nor a late expiry rewrites a terminal outcome.   *)
THEOREM OutcomesAreFinal == Spec => TerminalIsFinal
<1> DEFINE A == \A op \in Operations :
                  /\ Terminal(op) =>
                       /\ attempts'[op].status = attempts[op].status
                       /\ attempts'[op].failure = attempts[op].failure
                  /\ Exists(op) => attempts'[op].content = attempts[op].content
<1>1. IInv /\ [Next]_vars => [A]_vars
  BY NextRow DEF RowStep, Same, Written, Opened, Settled, Acknowledged,
     Terminal, Exists
<1> QED
  BY <1>1, Invariance, PTL DEF Spec, TerminalIsFinal

(* The first receipt is never replaced or erased.                           *)
THEOREM ReceiptsAreKept == Spec => FirstReceiptKept
<1> DEFINE A == \A op \in Operations :
                  attempts[op].receipt # None =>
                    attempts'[op].receipt = attempts[op].receipt
<1>1. IInv /\ [Next]_vars => [A]_vars
  <2>1. IInv => \A op \in Operations :
                  ~Exists(op) => attempts[op].receipt = None
    BY DEF IInv, RowsAreValid, Exists, Absent
  <2> QED
    BY <2>1, NextRow DEF RowStep, Same, Written, Opened, Settled, Acknowledged
<1> QED
  BY <1>1, Invariance, PTL DEF Spec, FirstReceiptKept

----------------------------------------------------------------------------
(* The promise *)

(* The initial state is one of the promise.                                 *)
LEMMA InitPromise == Init => Promise!Init
<1> SUFFICES ASSUME Init PROVE Promise!Init
  OBVIOUS
<1>1. Absent.status = "absent" /\ Absent.receipt = None
  BY DEF Absent
<1>2. \A op \in Operations : /\ attempts[op].status = "absent"
                             /\ attempts[op].receipt = None
                             /\ line[op] = "idle"
  BY <1>1 DEF Init
<1> QED
  BY <1>2 DEF Promise!Init, Stage, Copies, Confirmations

(* Every row step is a step of the promise, or none that it sees.           *)
LEMMA StepPromise == IInv /\ [Next]_vars => [Promise!Next]_(Promise!vars)
<1> SUFFICES ASSUME IInv, [Next]_vars PROVE [Promise!Next]_(Promise!vars)
  OBVIOUS
<1>1. RowStep
  BY NextRow
<1>2. CASE /\ \A o \in Operations : Same(o)
           /\ \A o \in Operations : (line'[o] = "accepted") <=> (line[o] = "accepted")
  BY <1>2 DEF Same, Promise!vars, Stage, Copies, Confirmations
<1>3. ASSUME NEW op \in Operations, Decided(op), \A o \in Operations : Same(o)
      PROVE  [Promise!Next]_(Promise!vars)
  <2>1. Stage' = Stage /\ Confirmations' = Confirmations
    BY <1>3 DEF Same, Stage, Confirmations
  <2>2. CASE line'[op] = "refused"
    BY <1>3, <2>1, <2>2 DEF Decided, Promise!vars, Copies
  <2>3. CASE line'[op] = "accepted"
    <3>1. Copies' = [Copies EXCEPT ![op] = 1] /\ Copies[op] = 0
      BY <1>3, <2>3 DEF Decided, Copies
    <3>2. Stage[op] \in {"open", "unknown"}
      BY <1>3 DEF Decided, Stage, IInv, TypeOK, Attempt, Statuses,
         OutcomeTruthful, PushesAreOwned, Exists
    <3> QED
      BY <2>1, <3>1, <3>2 DEF Promise!Next, Promise!Deliver
  <2> QED
    BY <1>3, <2>2, <2>3 DEF Decided
<1>4. ASSUME NEW op \in Operations, UNCHANGED line,
             \A o \in Operations : o # op => Same(o), Written(op)
      PROVE  [Promise!Next]_(Promise!vars)
  <2>1. Copies' = Copies
    BY <1>4 DEF Copies
  <2>2. attempts[op].status = "absent" => attempts[op].receipt = None
    BY DEF IInv, RowsAreValid, Absent
  <2>3. CASE Opened(op)
    <3>1. Stage' = [Stage EXCEPT ![op] = "open"] /\ Stage[op] = "none"
      BY <1>4, <2>3 DEF Opened, Same, Stage, Exists
    <3>2. Confirmations' = Confirmations
      BY <1>4, <2>2, <2>3 DEF Opened, Same, Confirmations, Exists
    <3> QED
      BY <2>1, <3>1, <3>2 DEF Promise!Next, Promise!Accept
  <2>4. CASE Settled(op)
    <3>1. PICK outcome \in {"succeeded", "failed", "unknown"} :
            outcome = attempts'[op].status
      BY <2>4 DEF Settled
    <3>2. Stage' = [Stage EXCEPT ![op] = outcome] /\ Stage[op] = "open"
      BY <1>4, <2>4, <3>1 DEF Settled, Same, Stage
    <3>3. Confirmations' = Confirmations
      BY <1>4, <2>4 DEF Settled, Same, Confirmations
    <3>4. /\ outcome = "succeeded" => Copies[op] = 1
          /\ outcome = "failed" => Copies[op] = 0 /\ ~Confirmations[op]
      BY <2>4, <3>1 DEF Settled, Copies, Confirmations, IInv, ReceiptTruthful
    <3> QED
      BY <2>1, <3>2, <3>3, <3>4 DEF Promise!Next, Promise!Close
  <2>5. CASE Acknowledged(op)
    <3>1. Stage' = Stage
      BY <1>4, <2>5 DEF Acknowledged, Same, Stage
    <3>2. /\ Confirmations' = [Confirmations EXCEPT ![op] = TRUE]
          /\ ~Confirmations[op] /\ Copies[op] = 1 /\ Stage[op] # "failed"
      BY <1>4, <2>5 DEF Acknowledged, Same, Confirmations, Copies, Stage
    <3> QED
      BY <2>1, <3>1, <3>2 DEF Promise!Next, Promise!Confirm
  <2> QED
    BY <1>4, <2>3, <2>4, <2>5 DEF Written
<1> QED
  BY <1>1, <1>2, <1>3, <1>4 DEF RowStep

(* Delivery implements DeliveryPromise.                                     *)
THEOREM PromiseKept == Spec => KeepsPromise
<1>1. Init => Promise!Init
  BY InitPromise
<1>2. IInv /\ [Next]_vars => [Promise!Next]_(Promise!vars)
  BY StepPromise
<1> QED
  BY <1>1, <1>2, Invariance, PTL DEF Spec, KeepsPromise, Promise!Spec
=============================================================================
