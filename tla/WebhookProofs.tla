--------------------------- MODULE WebhookProofs ----------------------------
(***************************************************************************)
(* The webhook ingress for any number of requests, events and batches, any  *)
(* batch length and any deadline: no event is handled twice, receipts and   *)
(* responses tell the truth, and the response is late by one overrun at     *)
(* most.                                                                    *)
(***************************************************************************)
EXTENDS WebhookIngress, FiniteSetTheorems, WellFoundedInduction, TLAPS

----------------------------------------------------------------------------
(* Arithmetic of the reserves *)

(* The reserve of n dispatches, multiplied out.                             *)
LEMMA ReserveIs ==
  ASSUME NEW n \in Nat
  PROVE  /\ n * FinalizeReserve \in Nat /\ n * LocalReserve \in Nat
         /\ Reserve(n) = n * LocalReserve + n * FinalizeReserve + ResponseReserve
         /\ n > 0 => n * LocalReserve >= LocalReserve
         /\ n > 0 => (n - 1) * FinalizeReserve + FinalizeReserve
                       = n * FinalizeReserve
<1>1. LocalReserve \in Nat /\ FinalizeReserve \in Nat /\ ResponseReserve \in Nat
  BY IngressAssumption
<1>2. n * FinalizeReserve \in Nat /\ n * LocalReserve \in Nat
  BY <1>1
<1>3. n * (LocalReserve + FinalizeReserve)
        = n * LocalReserve + n * FinalizeReserve
  BY <1>1
<1>4. n > 0 => n * LocalReserve >= LocalReserve
  <2> SUFFICES ASSUME n > 0 PROVE n * LocalReserve >= LocalReserve
    OBVIOUS
  <2>1. n - 1 \in Nat
    OBVIOUS
  <2>2. n * LocalReserve = (n - 1) * LocalReserve + LocalReserve
    BY <1>1
  <2>3. (n - 1) * LocalReserve \in Nat
    BY <1>1, <2>1
  <2> QED
    BY <1>1, <1>2, <2>2, <2>3
<1>5. (n - 1) * FinalizeReserve + FinalizeReserve = n * FinalizeReserve
  BY <1>1
<1> QED
  BY <1>1, <1>2, <1>3, <1>4, <1>5 DEF Reserve

(* A handler that started in time and keeps to its allowance but for one    *)
(* overrun leaves the time to settle what is pending.                       *)
LEMMA HandlerTime ==
  ASSUME NEW n \in Nat, n > 0, NEW at \in Nat, NEW e \in Events,
         at + Reserve(n) <= Deadline,
         NEW d \in 0..(Allowance(e, at, n) + MaxOverrun)
  PROVE  /\ d \in Nat
         /\ at + d + n * FinalizeReserve + ResponseReserve
              <= Deadline + MaxOverrun
<1>1. /\ LocalReserve \in Nat /\ FinalizeReserve \in Nat
      /\ ResponseReserve \in Nat /\ Deadline \in Nat /\ MaxOverrun \in Nat
      /\ MinReply \in Nat /\ MaxReply \in Nat
  BY IngressAssumption
<1> DEFINE F == n * FinalizeReserve
           L == n * LocalReserve
           R == Reserve(n)
<1>2. /\ F \in Nat /\ L \in Nat /\ L >= LocalReserve
      /\ R = L + F + ResponseReserve
  BY ReserveIs
<1>3. Allowance(e, at, n) \in Int
      /\ at + Allowance(e, at, n) <= LocalReserve + (Deadline - R)
  <2>1. Cutoff(n) = Deadline - R /\ at + R <= Deadline /\ R \in Nat
    BY <1>1, <1>2 DEF Cutoff
  <2> HIDE DEF R
  <2> QED
    BY <1>1, <2>1 DEF Allowance
<1> HIDE DEF F, L, R
<1>4. d \in Nat /\ d <= Allowance(e, at, n) + MaxOverrun
  BY <1>1, <1>3
<1>5. at + d + F + ResponseReserve <= Deadline + MaxOverrun
  BY <1>1, <1>2, <1>3, <1>4
<1> QED
  BY <1>4, <1>5 DEF F

----------------------------------------------------------------------------
(* Positions of a batch *)

(* A set of natural numbers that is not empty has a least element.          *)
LEMMA LeastNatural ==
  ASSUME NEW S \in SUBSET Nat, S # {}
  PROVE  \E i \in S : \A j \in S : i <= j
<1> DEFINE R == {ss \in Nat \X Nat : ss[1] < ss[2]}
<1>1. \A i, j \in Nat : i < j => <<i, j>> \in R
  OBVIOUS
<1>2. IsWellFoundedOn(R, Nat)
  BY NatLessThanWellFounded DEF OpToRel
<1> HIDE DEF R
<1>3. PICK i \in S : \A j \in S : <<j, i>> \notin R
  BY <1>2, WFMin
<1>4. \A j \in S : j \in Nat /\ i \in Nat /\ ~(j < i)
  BY <1>1, <1>3
<1>5. \A j \in S : i <= j
  BY <1>4
<1> QED
  BY <1>5

(* Every event of a batch has a first position.                             *)
LEMMA FirstExists ==
  ASSUME NEW b \in Seq(Events), NEW k \in DOMAIN b
  PROVE  \E i \in DOMAIN b : b[i] = b[k] /\ First(b, i)
<1> DEFINE S == {i \in DOMAIN b : b[i] = b[k]}
<1>1. S \in SUBSET Nat /\ S # {}
  OBVIOUS
<1>2. PICK i \in S : \A j \in S : i <= j
  BY <1>1, LeastNatural
<1> QED
  BY <1>2 DEF First

(* A request has finitely many positions to dispatch.                       *)
LEMMA DispatchableIsFinite ==
  ASSUME NEW b \in Seq(Events)
  PROVE  /\ Dispatchable(b) \in SUBSET Nat /\ IsFiniteSet(Dispatchable(b))
         /\ Cardinality(Dispatchable(b)) \in Nat
<1>1. Dispatchable(b) \in SUBSET (1..Len(b)) /\ Len(b) \in Int
  BY DEF Dispatchable
<1>2. IsFiniteSet(Dispatchable(b))
  BY <1>1, FS_Interval, FS_Subset
<1> QED
  BY <1>1, <1>2, FS_CardinalityType

----------------------------------------------------------------------------
(* Requests *)

(* The first position still to be dispatched is one.                        *)
LEMMA ForemostIsUnique ==
  ASSUME NEW todo \in SUBSET Nat, NEW i \in Nat, NEW j \in Nat,
         Foremost(todo, i), Foremost(todo, j)
  PROVE  i = j
BY DEF Foremost

(* A batch holds events.                                                    *)
LEMMA BatchEvents ==
  ASSUME IngressInv, NEW r \in Requests, NEW i \in DOMAIN req[r].batch
  PROVE  req[r].batch[i] \in Events
<1>1. PICK x \in Request : x = req[r]
  BY DEF IngressInv, TypeOK
<1>2. x.batch \in Seq(Events)
  BY DEF Request
<1> QED
  BY <1>1, <1>2

(* The initial state satisfies the invariant.                               *)
LEMMA InitIngress == Init => IngressInv
<1> SUFFICES ASSUME Init PROVE IngressInv
  OBVIOUS
<1>1. Idle \in Request /\ Absent \in Receipt
  <2>1. <<>> \in Seq(Events)
    OBVIOUS
  <2> QED
    BY <2>1 DEF Idle, Request, Pcs, Verdicts, Replies, Absent, Receipt, Statuses
<1>2. TypeOK
  BY <1>1 DEF Init, TypeOK
<1>3. \A r \in Requests : /\ req[r].pc = "idle" /\ req[r].reply = "none"
                          /\ req[r].batch = <<>> /\ req[r].at = 0
  BY DEF Init, Idle
<1>4. \A e \in Events : /\ receipts[e] = Absent /\ receipts[e].status = "absent"
                        /\ receipts[e].code = "none"
                        /\ receipts[e].creator = Nobody
  BY DEF Init, Absent
<1>5. runs = {}
  BY DEF Init
<1>6. Unanswered /\ TodoIsOwned /\ VerdictsAreTrue /\ OpenIsPending
      /\ TimeIsKept /\ AcceptedIsSettled /\ AnsweredInTime
  BY <1>3 DEF Unanswered, TodoIsOwned, VerdictsAreTrue, OpenIsPending,
     TimeIsKept, AcceptedIsSettled, AnsweredInTime, Dispatching
<1>7. RowsAreValid /\ HandledAtMostOnce /\ ReceiptsTellTheTruth
  BY <1>4, <1>5 DEF RowsAreValid, HandledAtMostOnce, ReceiptsTellTheTruth
<1> QED
  BY <1>2, <1>6, <1>7 DEF IngressInv

(* A request that ends with an answer it may give keeps the invariant.      *)
LEMMA Answered ==
  ASSUME IngressInv, NEW r \in Requests, NEW q \in Request,
         req' = [req EXCEPT ![r] = q],
         UNCHANGED <<receipts, runs>>, active' \in BOOLEAN,
         q.pc = "done", q.batch = req[r].batch,
         q.at = req[r].at, q.opened = req[r].opened, q.count = req[r].count,
         q.reply = "accepted" =>
           /\ \A i \in DOMAIN req[r].batch : Recorded(req[r].batch[i])
           /\ \A e \in Events :
                receipts[e].creator = r => receipts[e].status # "processing",
         q.reply \in {"accepted", "storage_unavailable"} =>
           \/ req[r].at + ResponseReserve <= Deadline + MaxOverrun
           \/ req[r].at <= req[r].opened + req[r].count * FinalizeReserve
  PROVE  IngressInv'
<1>1. /\ req' \in [Requests -> Request] /\ req'[r] = q
      /\ \A s \in Requests : s # r => req'[s] = req[s]
  BY DEF IngressInv, TypeOK
<1>2. TypeOK'
  BY <1>1 DEF IngressInv, TypeOK
<1>3. Unanswered' /\ TodoIsOwned' /\ VerdictsAreTrue' /\ TimeIsKept'
  BY <1>1 DEF IngressInv, Unanswered, TodoIsOwned, VerdictsAreTrue, TimeIsKept,
     Dispatching, Handled, Reserve
<1>4. RowsAreValid' /\ OpenIsPending'
  BY <1>1 DEF IngressInv, RowsAreValid, OpenIsPending, Dispatching, Recorded
<1>5. HandledAtMostOnce' /\ ReceiptsTellTheTruth'
  BY DEF IngressInv, HandledAtMostOnce, ReceiptsTellTheTruth
<1>6. AcceptedIsSettled' /\ AnsweredInTime'
  BY <1>1 DEF IngressInv, AcceptedIsSettled, AnsweredInTime, Recorded
<1> QED
  BY <1>2, <1>3, <1>4, <1>5, <1>6 DEF IngressInv

(* What Answer makes of a request.                                          *)
LEMMA AnswerRecord ==
  ASSUME IngressInv, NEW r \in Requests, NEW code \in Replies, Answer(r, code)
  PROVE  \E q \in Request :
           /\ req' = [req EXCEPT ![r] = q]
           /\ q.pc = "done" /\ q.reply = code /\ q.batch = req[r].batch
           /\ q.at = req[r].at /\ q.opened = req[r].opened
           /\ q.count = req[r].count /\ q.todo = {}
<1>1. PICK x \in Request : x = req[r]
  BY DEF IngressInv, TypeOK
<1> DEFINE q == [x EXCEPT !.pc = "done", !.reply = code, !.todo = {},
                          !.verdict = "none"]
<1>2. /\ q \in Request
      /\ q.pc = "done" /\ q.reply = code /\ q.batch = x.batch /\ q.at = x.at
      /\ q.opened = x.opened /\ q.count = x.count /\ q.todo = {}
  BY DEF Request, Pcs
<1>3. req' = [req EXCEPT ![r] = q]
  BY <1>1 DEF Answer, IngressInv, TypeOK
<1> HIDE DEF q
<1> QED
  BY <1>1, <1>2, <1>3

(* A refused, lost or broken request keeps the invariant.                   *)
LEMMA RefusedStep ==
  ASSUME IngressInv, NEW r \in Requests,
         NEW code \in {"rejected", "channel_unavailable", "lost"},
         Answer(r, code), UNCHANGED <<active, receipts, runs>>
  PROVE  IngressInv'
<1>1. code \in Replies
  BY DEF Replies
<1>2. PICK q \in Request :
         /\ req' = [req EXCEPT ![r] = q]
         /\ q.pc = "done" /\ q.reply = code /\ q.batch = req[r].batch
         /\ q.at = req[r].at /\ q.opened = req[r].opened
         /\ q.count = req[r].count /\ q.todo = {}
  BY <1>1, AnswerRecord
<1>3. active' \in BOOLEAN
  BY DEF IngressInv, TypeOK
<1> QED
  BY <1>2, <1>3, Answered

(* ingest up to accept_batch keeps the invariant.                           *)
LEMMA ReceiveStep ==
  ASSUME IngressInv, NEW r \in Requests, NEW b \in Batches, Receive(r, b)
  PROVE  IngressInv'
<1>1. b \in Seq(Events)
  BY IngressAssumption
<1>2. CASE req' = [req EXCEPT ![r].pc = "verified", ![r].batch = b]
  <2>1. PICK x \in Request : x = req[r]
    BY DEF IngressInv, TypeOK
  <2>2. PICK q \in Request :
          /\ req' = [req EXCEPT ![r] = q]
          /\ q.pc = "verified" /\ q.batch = b /\ q.reply = x.reply
          /\ q.at = x.at
    <3> DEFINE q == [x EXCEPT !.pc = "verified", !.batch = b]
    <3>1. /\ q \in Request /\ q.pc = "verified" /\ q.batch = b
          /\ q.reply = x.reply /\ q.at = x.at
      BY <1>1 DEF Request, Pcs
    <3>2. req' = [req EXCEPT ![r] = q]
      BY <1>2, <2>1 DEF IngressInv, TypeOK
    <3> HIDE DEF q
    <3> QED
      BY <3>1, <3>2
  <2>3. /\ req' \in [Requests -> Request] /\ req'[r] = q
        /\ \A s \in Requests : s # r => req'[s] = req[s]
        /\ UNCHANGED <<active, receipts, runs>>
    BY <2>2 DEF IngressInv, TypeOK, Receive
  <2>4. req[r].pc = "idle" /\ req[r].reply = "none" /\ req[r].at = 0
    BY DEF Receive, IngressInv, Unanswered
  <2>5. TypeOK' /\ Unanswered'
    BY <2>1, <2>2, <2>3, <2>4 DEF IngressInv, TypeOK, Unanswered
  <2>6. TodoIsOwned' /\ VerdictsAreTrue' /\ TimeIsKept' /\ OpenIsPending'
    BY <2>2, <2>3 DEF IngressInv, TodoIsOwned, VerdictsAreTrue, TimeIsKept,
       OpenIsPending, Dispatching, Handled, Reserve, Recorded
  <2>7. RowsAreValid' /\ HandledAtMostOnce' /\ ReceiptsTellTheTruth'
    BY <2>2, <2>3, <2>4 DEF IngressInv, RowsAreValid, HandledAtMostOnce,
       ReceiptsTellTheTruth, Recorded
  <2>8. AcceptedIsSettled' /\ AnsweredInTime'
    BY <2>1, <2>2, <2>3, <2>4 DEF IngressInv, AcceptedIsSettled,
       AnsweredInTime, Recorded
  <2> QED
    BY <2>5, <2>6, <2>7, <2>8 DEF IngressInv
<1>3. CASE Answer(r, "accepted")
  <2>1. PICK q \in Request :
           /\ req' = [req EXCEPT ![r] = q]
           /\ q.pc = "done" /\ q.reply = "accepted" /\ q.batch = req[r].batch
           /\ q.at = req[r].at /\ q.opened = req[r].opened
           /\ q.count = req[r].count /\ q.todo = {}
    BY <1>3, AnswerRecord DEF Replies
  <2>2. /\ req[r].pc = "idle" /\ req[r].batch = <<>> /\ req[r].at = 0
        /\ UNCHANGED <<active, receipts, runs>> /\ active' \in BOOLEAN
    BY DEF Receive, IngressInv, Unanswered, TypeOK
  <2>3. \A e \in Events : receipts[e].creator # r
    BY <2>2, IngressAssumption DEF IngressInv, RowsAreValid
  <2>4. DOMAIN req[r].batch = {}
    BY <2>2
  <2>5. req[r].at + ResponseReserve <= Deadline + MaxOverrun
    BY <2>2, IngressAssumption
  <2> QED
    BY <2>1, <2>2, <2>3, <2>4, <2>5, Answered
<1>4. CASE Answer(r, "rejected") \/ Answer(r, "channel_unavailable")
  BY <1>4, RefusedStep DEF Receive
<1> QED
  BY <1>2, <1>3, <1>4 DEF Receive

(* A worker may die anywhere.                                               *)
LEMMA CrashStep ==
  ASSUME IngressInv, NEW r \in Requests, Crash(r)
  PROVE  IngressInv'
BY RefusedStep DEF Crash

(* The response: everything is dispatched, and settled unless it broke.     *)
LEMMA RespondStep ==
  ASSUME IngressInv, NEW r \in Requests, Respond(r)
  PROVE  IngressInv'
<1>1. /\ req[r].pc = "dispatching" /\ req[r].todo = {} /\ Dispatching(r)
      /\ UNCHANGED <<active, receipts, runs>> /\ active' \in BOOLEAN
  BY DEF Respond, Dispatching, IngressInv, TypeOK
<1>2. Result(r) \in Replies /\ (Result(r) = "accepted" => ~req[r].broken)
  BY DEF Result, Replies
<1>3. PICK q \in Request :
         /\ req' = [req EXCEPT ![r] = q]
         /\ q.pc = "done" /\ q.reply = Result(r) /\ q.batch = req[r].batch
         /\ q.at = req[r].at /\ q.opened = req[r].opened
         /\ q.count = req[r].count /\ q.todo = {}
  BY <1>2, AnswerRecord DEF Respond
<1>4. q.reply = "accepted" =>
        /\ \A i \in DOMAIN req[r].batch : Recorded(req[r].batch[i])
        /\ \A e \in Events :
             receipts[e].creator = r => receipts[e].status # "processing"
  BY <1>1, <1>2, <1>3 DEF IngressInv, OpenIsPending
<1>5. \/ req[r].at + ResponseReserve <= Deadline + MaxOverrun
      \/ req[r].at <= req[r].opened + req[r].count * FinalizeReserve
  <2>1. Cardinality(req[r].todo) = 0
    BY <1>1, FS_EmptySet
  <2>2. \/ req[r].at + 0 * FinalizeReserve + ResponseReserve
             <= Deadline + MaxOverrun
        \/ req[r].at + 0 * FinalizeReserve
             <= req[r].opened + req[r].count * FinalizeReserve
    BY <1>1, <2>1 DEF IngressInv, TimeIsKept
  <2>3. req[r].at \in Nat /\ ResponseReserve \in Nat
    BY IngressAssumption DEF IngressInv, TypeOK, Request
  <2>4. req[r].at + 0 * FinalizeReserve = req[r].at
    BY <2>3, IngressAssumption
  <2> QED
    BY <2>2, <2>4
<1> QED
  BY <1>1, <1>3, <1>4, <1>5, Answered

(* Switching the channel touches no request.                                *)
LEMMA SwitchStep == IngressInv /\ Switch => IngressInv'
<1> SUFFICES ASSUME IngressInv, Switch PROVE IngressInv'
  OBVIOUS
<1>1. UNCHANGED <<receipts, req, runs>> /\ active' \in BOOLEAN
  BY DEF Switch, IngressInv, TypeOK
<1>2. TypeOK' /\ Unanswered'
  BY <1>1 DEF IngressInv, TypeOK, Unanswered
<1>3. TodoIsOwned' /\ VerdictsAreTrue' /\ TimeIsKept'
  BY <1>1 DEF IngressInv, TodoIsOwned, VerdictsAreTrue, TimeIsKept,
     Dispatching, Handled, Reserve, Foremost
<1>4. RowsAreValid' /\ OpenIsPending'
  BY <1>1 DEF IngressInv, RowsAreValid, OpenIsPending, Dispatching, Recorded
<1>5. /\ HandledAtMostOnce' /\ ReceiptsTellTheTruth'
      /\ AcceptedIsSettled' /\ AnsweredInTime'
  BY <1>1 DEF IngressInv, HandledAtMostOnce, ReceiptsTellTheTruth,
     AcceptedIsSettled, AnsweredInTime, Recorded
<1> QED
  BY <1>2, <1>3, <1>4, <1>5 DEF IngressInv

----------------------------------------------------------------------------
(* _dispatch *)

(* The next event is handed over only if there is time for all that are     *)
(* pending, and is given up otherwise.                                      *)
LEMMA DispatchStep ==
  ASSUME IngressInv, NEW r \in Requests, Dispatch(r)
  PROVE  IngressInv'
<1>1. PICK x \in Request : x = req[r]
  BY DEF IngressInv, TypeOK
<1>2. /\ x.pc = "dispatching" /\ x.todo # {} /\ x.reply = "none"
      /\ Dispatching(r) /\ UNCHANGED <<active, receipts, runs>>
  BY <1>1 DEF Dispatch, Dispatching, IngressInv, Unanswered
<1>3. PICK q \in Request :
        /\ req' = [req EXCEPT ![r] = q]
        /\ q.batch = x.batch /\ q.todo = x.todo /\ q.at = x.at
        /\ q.opened = x.opened /\ q.count = x.count /\ q.broken = x.broken
        /\ q.reply = x.reply
        /\ \/ /\ q.pc = "finalizing" /\ q.closed
              /\ q.verdict = "dispatch_deadline_exceeded"
           \/ q.pc = "handling" /\ ~OutOfTime(r)
  <2>1. CASE OutOfTime(r)
    <3> DEFINE q == [x EXCEPT !.pc = "finalizing", !.closed = TRUE,
                              !.verdict = "dispatch_deadline_exceeded"]
    <3>1. /\ q \in Request /\ q.batch = x.batch /\ q.todo = x.todo
          /\ q.at = x.at /\ q.opened = x.opened /\ q.count = x.count
          /\ q.broken = x.broken /\ q.reply = x.reply
          /\ q.pc = "finalizing" /\ q.closed
          /\ q.verdict = "dispatch_deadline_exceeded"
      BY DEF Request, Pcs, Verdicts
    <3>2. req' = [req EXCEPT ![r] = q]
      BY <1>1, <2>1 DEF Dispatch, IngressInv, TypeOK
    <3> HIDE DEF q
    <3> QED
      BY <3>1, <3>2
  <2>2. CASE ~OutOfTime(r)
    <3> DEFINE q == [x EXCEPT !.pc = "handling"]
    <3>1. /\ q \in Request /\ q.batch = x.batch /\ q.todo = x.todo
          /\ q.at = x.at /\ q.opened = x.opened /\ q.count = x.count
          /\ q.broken = x.broken /\ q.reply = x.reply
          /\ q.pc = "handling"
      BY DEF Request, Pcs
    <3>2. req' = [req EXCEPT ![r] = q]
      BY <1>1, <2>2 DEF Dispatch, IngressInv, TypeOK
    <3> HIDE DEF q
    <3> QED
      BY <2>2, <3>1, <3>2
  <2> QED
    BY <2>1, <2>2
<1>4. /\ req' \in [Requests -> Request] /\ req'[r] = q
      /\ \A s \in Requests : s # r => req'[s] = req[s]
  BY <1>3 DEF IngressInv, TypeOK
<1>5. TypeOK' /\ Unanswered'
  BY <1>2, <1>3, <1>4 DEF IngressInv, TypeOK, Unanswered
<1>6. TodoIsOwned'
  <2>1. \A i \in x.todo : /\ i \in DOMAIN x.batch
           /\ receipts[x.batch[i]].status = "processing"
           /\ receipts[x.batch[i]].creator = r
           /\ \A j \in x.todo : x.batch[j] = x.batch[i] => i = j
           /\ ~\E y \in runs : y.event = x.batch[i]
    BY <1>1, <1>2 DEF IngressInv, TodoIsOwned, Handled
  <2> QED
    BY <1>2, <1>3, <1>4, <2>1 DEF IngressInv, TodoIsOwned, Handled, Dispatching
<1>7. VerdictsAreTrue'
  BY <1>2, <1>3, <1>4 DEF IngressInv, VerdictsAreTrue
<1>8. RowsAreValid' /\ OpenIsPending'
  BY <1>1, <1>2, <1>3, <1>4 DEF IngressInv, RowsAreValid, OpenIsPending,
     Dispatching, Recorded
<1>9. TimeIsKept'
  <2>1. q.pc = "handling" => q.at + Reserve(Cardinality(q.todo)) <= Deadline
    <3>1. IsFiniteSet(x.todo)
      BY <1>1, <1>2 DEF IngressInv, TimeIsKept
    <3>2. Cardinality(x.todo) \in Nat
      BY <3>1, FS_CardinalityType
    <3>3. /\ Reserve(Cardinality(x.todo)) \in Int /\ x.at \in Int
          /\ Deadline \in Int
      BY <3>2, IngressAssumption DEF Reserve, Request
    <3> QED
      BY <1>1, <1>3, <3>3 DEF OutOfTime
  <2>2. \A s \in Requests : s # r => (Dispatching(s)' <=> Dispatching(s))
    BY <1>4 DEF Dispatching
  <2> QED
    BY <1>1, <1>2, <1>3, <1>4, <2>1, <2>2
    DEF IngressInv, TimeIsKept, Dispatching, Reserve
<1>10. HandledAtMostOnce' /\ ReceiptsTellTheTruth'
  BY <1>2 DEF IngressInv, HandledAtMostOnce, ReceiptsTellTheTruth
<1>11. AcceptedIsSettled' /\ AnsweredInTime'
  BY <1>2, <1>3, <1>4 DEF IngressInv, AcceptedIsSettled, AnsweredInTime,
     Recorded
<1> QED
  BY <1>5, <1>6, <1>7, <1>8, <1>9, <1>10, <1>11 DEF IngressInv

(* A handler call is the first of its event, and leaves the time to settle  *)
(* what is pending but for one overrun.                                     *)
LEMMA HandleStep ==
  ASSUME IngressInv, NEW r \in Requests, Handle(r)
  PROVE  IngressInv'
<1>1. PICK x \in Request : x = req[r]
  BY DEF IngressInv, TypeOK
<1>2. /\ x.pc = "handling" /\ x.reply = "none" /\ Dispatching(r)
      /\ UNCHANGED <<active, receipts>>
  BY <1>1 DEF Handle, Dispatching, IngressInv, Unanswered
<1>3. PICK i \in x.todo, ok \in BOOLEAN :
        /\ Foremost(x.todo, i)
        /\ \E d \in 0..(Allowance(x.batch[i], x.at, Cardinality(x.todo))
                        + MaxOverrun) :
             req' = [req EXCEPT ![r].pc = "finalizing", ![r].at = @ + d,
                       ![r].verdict = IF ok THEN "succeeded"
                                      ELSE "handler_failed"]
        /\ runs' = runs \cup {[request |-> r, position |-> i,
                               event |-> x.batch[i], ok |-> ok]}
  BY <1>1 DEF Handle
<1>4. PICK d \in 0..(Allowance(x.batch[i], x.at, Cardinality(x.todo))
                     + MaxOverrun) :
        req' = [req EXCEPT ![r].pc = "finalizing", ![r].at = @ + d,
                  ![r].verdict = IF ok THEN "succeeded" ELSE "handler_failed"]
  BY <1>3
<1> DEFINE e == x.batch[i]
           y == [request |-> r, position |-> i, event |-> e, ok |-> ok]
<1>5. /\ i \in Nat /\ i \in DOMAIN x.batch /\ e \in Events
      /\ receipts[e].status = "processing" /\ receipts[e].creator = r
      /\ \A z \in runs : z.event # e
      /\ y \in Run /\ runs' = runs \cup {y}
  <2>1. x.todo \subseteq Nat /\ x.batch \in Seq(Events)
    BY DEF Request
  <2>2. /\ i \in DOMAIN x.batch /\ receipts[e].status = "processing"
        /\ receipts[e].creator = r /\ \A z \in runs : z.event # e
    BY <1>1, <1>2, <1>3 DEF IngressInv, TodoIsOwned, Handled
  <2>3. i \in Nat /\ e \in Events
    BY <2>1, <2>2
  <2> QED
    BY <1>3, <2>2, <2>3 DEF Run
<1>6. /\ d \in Nat
      /\ IsFiniteSet(x.todo) /\ Cardinality(x.todo) \in Nat
      /\ x.at + d + Cardinality(x.todo) * FinalizeReserve + ResponseReserve
           <= Deadline + MaxOverrun
  <2>1. /\ IsFiniteSet(x.todo)
        /\ x.at + Reserve(Cardinality(x.todo)) <= Deadline
    BY <1>1, <1>2 DEF IngressInv, TimeIsKept
  <2>2. Cardinality(x.todo) \in Nat
    BY <2>1, FS_CardinalityType
  <2>3. Cardinality(x.todo) > 0
    BY <1>3, <2>1, <2>2, FS_EmptySet
  <2>4. x.at \in Nat
    BY DEF Request
  <2> QED
    BY <1>5, <2>1, <2>2, <2>3, <2>4, HandlerTime
<1> HIDE DEF e
<1>7. PICK q \in Request :
        /\ req' = [req EXCEPT ![r] = q]
        /\ q.batch = x.batch /\ q.todo = x.todo /\ q.at = x.at + d
        /\ q.opened = x.opened /\ q.count = x.count /\ q.broken = x.broken
        /\ q.reply = x.reply /\ q.pc = "finalizing"
        /\ q.verdict = IF ok THEN "succeeded" ELSE "handler_failed"
  <2> DEFINE q == [x EXCEPT !.pc = "finalizing", !.at = x.at + d,
                     !.verdict = IF ok THEN "succeeded" ELSE "handler_failed"]
  <2>1. x.at + d \in Nat
    BY <1>6 DEF Request
  <2>2. /\ q \in Request /\ q.batch = x.batch /\ q.todo = x.todo
        /\ q.at = x.at + d /\ q.opened = x.opened /\ q.count = x.count
        /\ q.broken = x.broken /\ q.reply = x.reply /\ q.pc = "finalizing"
        /\ q.verdict = IF ok THEN "succeeded" ELSE "handler_failed"
    BY <2>1 DEF Request, Pcs, Verdicts
  <2>3. req' = [req EXCEPT ![r] = q]
    BY <1>1, <1>4 DEF IngressInv, TypeOK
  <2> HIDE DEF q
  <2> QED
    BY <2>2, <2>3
<1>8. /\ req' \in [Requests -> Request] /\ req'[r] = q
      /\ \A s \in Requests : s # r => req'[s] = req[s]
  BY <1>7 DEF IngressInv, TypeOK
<1>9. TypeOK' /\ Unanswered'
  BY <1>2, <1>5, <1>7, <1>8 DEF IngressInv, TypeOK, Unanswered
<1>10. TodoIsOwned'
  <2>1. ASSUME NEW s \in Requests, Dispatching(s)', NEW j \in req[s].todo
        PROVE  /\ Dispatching(s) /\ j \in DOMAIN req[s].batch
               /\ receipts[req[s].batch[j]].status = "processing"
               /\ receipts[req[s].batch[j]].creator = s
               /\ \A k \in req[s].todo :
                    req[s].batch[k] = req[s].batch[j] => j = k
               /\ (\E z \in runs : z.event = req[s].batch[j])
                    => Handled(s, j)
    BY <1>2, <1>8, <2>1 DEF Dispatching, IngressInv, TodoIsOwned
  <2>2. ASSUME NEW j \in x.todo, \E z \in runs' : z.event = x.batch[j]
        PROVE  Handled(r, j)'
    <3>1. \A z \in runs : z.event # x.batch[j]
      BY <1>1, <1>2 DEF IngressInv, TodoIsOwned, Handled
    <3>2. x.batch[j] = e
      BY <1>5, <2>2, <3>1
    <3>3. j = i
      BY <1>1, <1>2, <1>3, <3>2 DEF IngressInv, TodoIsOwned, e
    <3> QED
      BY <1>3, <1>7, <1>8, <3>3 DEF Handled
  <2>3. ASSUME NEW s \in Requests, s # r, Dispatching(s)',
               NEW j \in req[s].todo,
               \E z \in runs' : z.event = req[s].batch[j]
        PROVE  Handled(s, j)'
    <3>1. receipts[req[s].batch[j]].creator = s
      BY <2>1, <2>3
    <3>2. \E z \in runs : z.event = req[s].batch[j]
      BY <1>5, <2>3, <3>1
    <3> QED
      BY <1>8, <2>1, <2>3, <3>2 DEF Handled
  <2>4. receipts' = receipts /\ q.todo = x.todo /\ q.batch = x.batch
    BY <1>2, <1>7
  <2>5. ASSUME NEW s \in Requests
        PROVE  req'[s].todo = req[s].todo /\ req'[s].batch = req[s].batch
    BY <1>1, <1>8, <2>4
  <2> QED
    BY <1>1, <2>1, <2>2, <2>3, <2>4, <2>5 DEF TodoIsOwned
<1>11. VerdictsAreTrue'
  <2>1. \A z \in runs : z \in runs'
    BY <1>5
  <2>2. ASSUME NEW j \in q.todo, Foremost(q.todo, j)
        PROVE  \E z \in runs' : z.event = q.batch[j] /\ z.ok = ok
    <3>1. j = i
      BY <1>3, <1>5, <1>7, <2>2, ForemostIsUnique DEF Request
    <3>2. y \in runs' /\ y.event = q.batch[j] /\ y.ok = ok
      BY <1>5, <1>7, <3>1 DEF e
    <3> HIDE DEF y
    <3> QED
      BY <3>2
  <2>3. /\ q.verdict # "none" /\ (q.verdict = "succeeded" <=> ok)
        /\ (q.verdict = "handler_failed" <=> ~ok) /\ q.todo # {}
    BY <1>3, <1>7
  <2> QED
    BY <1>8, <2>1, <2>2, <2>3 DEF IngressInv, VerdictsAreTrue
<1>12. RowsAreValid' /\ OpenIsPending'
  <2>1. Recorded(e)' /\ receipts' = receipts
    BY <1>2, <1>5 DEF Recorded
  <2>2. RowsAreValid'
    BY <1>1, <1>2, <1>5, <1>7, <1>8, <2>1 DEF IngressInv, RowsAreValid, Recorded
  <2>3. OpenIsPending'
    BY <1>1, <1>2, <1>7, <1>8 DEF IngressInv, OpenIsPending, Dispatching,
       Recorded
  <2> QED
    BY <2>2, <2>3
<1>13. TimeIsKept'
  BY <1>6, <1>7, <1>8
  DEF IngressInv, TimeIsKept, Dispatching, Reserve
<1>14. HandledAtMostOnce' /\ ReceiptsTellTheTruth'
  <2>1. HandledAtMostOnce'
    BY <1>5 DEF IngressInv, HandledAtMostOnce
  <2>2. \A f \in Events : receipts[f].status # "processing" => f # e
    BY <1>5
  <2>3. receipts[e].code \notin {"handler_failed", "dispatch_deadline_exceeded"}
    BY <1>5 DEF IngressInv, RowsAreValid
  <2>4. ReceiptsTellTheTruth'
    BY <1>2, <1>5, <2>2, <2>3 DEF IngressInv, ReceiptsTellTheTruth
  <2> QED
    BY <2>1, <2>4
<1>15. AcceptedIsSettled' /\ AnsweredInTime'
  BY <1>2, <1>7, <1>8 DEF IngressInv, AcceptedIsSettled, AnsweredInTime,
     Recorded
<1> QED
  BY <1>9, <1>10, <1>11, <1>12, <1>13, <1>14, <1>15 DEF IngressInv

(* Settling a receipt writes the verdict of its own event, in the time that *)
(* was reserved for it.                                                     *)
LEMMA FinalizeStep ==
  ASSUME IngressInv, NEW r \in Requests, Finalize(r)
  PROVE  IngressInv'
<1>1. PICK x \in Request : x = req[r]
  BY DEF IngressInv, TypeOK
<1>2. /\ x.pc = "finalizing" /\ x.reply = "none" /\ Dispatching(r)
      /\ UNCHANGED <<active, runs>>
  BY <1>1 DEF Finalize, Dispatching, IngressInv, Unanswered
<1>3. PICK i \in x.todo, d \in 0..FinalizeReserve, failed \in BOOLEAN :
        /\ Foremost(x.todo, i)
        /\ req' = [req EXCEPT ![r].pc = "dispatching", ![r].todo = @ \ {i},
                     ![r].at = @ + d, ![r].broken = @ \/ failed,
                     ![r].verdict = "none"]
        /\ \/ Settle(x.batch[i], x.verdict)
           \/ failed /\ UNCHANGED receipts
  BY <1>1 DEF Finalize
<1> DEFINE e == x.batch[i]
<1>4. /\ i \in Nat /\ i \in DOMAIN x.batch /\ e \in Events
      /\ receipts[e].status = "processing" /\ receipts[e].creator = r
      /\ \A j \in x.todo : j # i => x.batch[j] # e
      /\ \A j \in x.todo : j # i => \A z \in runs : z.event # x.batch[j]
  <2>1. x.todo \subseteq Nat /\ x.batch \in Seq(Events)
    BY DEF Request
  <2>2. /\ i \in DOMAIN x.batch /\ receipts[e].status = "processing"
        /\ receipts[e].creator = r
        /\ \A j \in x.todo : j # i => x.batch[j] # e
    BY <1>1, <1>2, <1>3 DEF IngressInv, TodoIsOwned
  <2>3. i \in Nat /\ e \in Events
    BY <2>1, <2>2
  <2>4. ASSUME NEW j \in x.todo, j # i
        PROVE  \A z \in runs : z.event # x.batch[j]
    <3>1. ~Foremost(x.todo, j)
      BY <1>3, <2>1, <2>4, ForemostIsUnique
    <3> QED
      BY <1>1, <1>2, <3>1 DEF IngressInv, TodoIsOwned, Handled
  <2> QED
    BY <2>2, <2>3, <2>4
<1>5. /\ x.verdict \in Verdicts
      /\ x.verdict = "succeeded" => \E z \in runs : z.event = e /\ z.ok
      /\ x.verdict = "handler_failed" => \E z \in runs : z.event = e /\ ~z.ok
      /\ x.verdict = "dispatch_deadline_exceeded" =>
           \A z \in runs : z.event # e
  <2>1. /\ x.verdict # "none"
        /\ x.verdict = "succeeded" => \E z \in runs : z.event = e /\ z.ok
        /\ x.verdict = "handler_failed" =>
             \E z \in runs : z.event = e /\ ~z.ok
    BY <1>1, <1>2, <1>3 DEF IngressInv, VerdictsAreTrue
  <2>2. x.verdict = "dispatch_deadline_exceeded" =>
          \A z \in runs : z.event # e
    BY <1>1, <1>2, <1>3 DEF IngressInv, TodoIsOwned, Handled
  <2> QED
    BY <2>1, <2>2 DEF Request
<1>6. /\ receipts' \in [Events -> Receipt]
      /\ \A f \in Events : f # e => receipts'[f] = receipts[f]
      /\ receipts'[e].creator = r
      /\ \/ failed /\ receipts'[e] = receipts[e]
         \/ /\ receipts'[e].status = "processed"
            /\ receipts'[e].code = receipts[e].code
            /\ x.verdict = "succeeded"
         \/ /\ receipts'[e].status = "failed"
            /\ receipts'[e].code = x.verdict /\ x.verdict # "succeeded"
  <2>1. PICK row \in Receipt : row = receipts[e]
    BY <1>4 DEF IngressInv, TypeOK
  <2>2. CASE Settle(e, x.verdict)
    <3> DEFINE new == Settled(row, x.verdict)
    <3>1. /\ new \in Receipt /\ new.creator = row.creator
          /\ \/ /\ new.status = "processed" /\ new.code = row.code
                /\ x.verdict = "succeeded"
             \/ /\ new.status = "failed" /\ new.code = x.verdict
                /\ x.verdict # "succeeded"
      BY <1>5 DEF Settled, Receipt, Statuses
    <3>2. receipts' = [receipts EXCEPT ![e] = new]
      BY <1>4, <2>1, <2>2 DEF Settle, IngressInv, TypeOK
    <3> HIDE DEF new
    <3> QED
      BY <1>4, <2>1, <3>1, <3>2 DEF IngressInv, TypeOK
  <2>3. CASE failed /\ UNCHANGED receipts
    BY <1>4, <2>3 DEF IngressInv, TypeOK
  <2> QED
    BY <1>3, <2>2, <2>3
<1>7. /\ IsFiniteSet(x.todo) /\ Cardinality(x.todo) \in Nat
      /\ IsFiniteSet(x.todo \ {i}) /\ Cardinality(x.todo) > 0
      /\ Cardinality(x.todo \ {i}) = Cardinality(x.todo) - 1
  <2>1. IsFiniteSet(x.todo)
    BY <1>1, <1>2 DEF IngressInv, TimeIsKept
  <2>2. Cardinality(x.todo) \in Nat
    BY <2>1, FS_CardinalityType
  <2>3. /\ IsFiniteSet(x.todo \ {i})
        /\ Cardinality(x.todo \ {i}) = Cardinality(x.todo) - 1
    BY <1>3, <2>1, FS_RemoveElement
  <2>4. Cardinality(x.todo) > 0
    BY <1>3, <2>1, <2>2, FS_EmptySet
  <2> QED
    BY <2>1, <2>2, <2>3, <2>4
<1> HIDE DEF e
<1>8. PICK q \in Request :
        /\ req' = [req EXCEPT ![r] = q]
        /\ q.batch = x.batch /\ q.todo = x.todo \ {i} /\ q.at = x.at + d
        /\ q.opened = x.opened /\ q.count = x.count
        /\ q.broken = (x.broken \/ failed)
        /\ q.reply = x.reply /\ q.pc = "dispatching"
  <2> DEFINE q == [x EXCEPT !.pc = "dispatching", !.todo = x.todo \ {i},
                     !.at = x.at + d, !.broken = x.broken \/ failed,
                     !.verdict = "none"]
  <2>1. x.at + d \in Nat /\ x.todo \ {i} \in SUBSET Nat
        /\ (x.broken \/ failed) \in BOOLEAN
    BY IngressAssumption DEF Request
  <2>2. /\ q \in Request /\ q.batch = x.batch /\ q.todo = x.todo \ {i}
        /\ q.at = x.at + d /\ q.opened = x.opened /\ q.count = x.count
        /\ q.broken = (x.broken \/ failed)
        /\ q.reply = x.reply /\ q.pc = "dispatching"
    BY <2>1 DEF Request, Pcs
  <2>3. req' = [req EXCEPT ![r] = q]
    BY <1>1, <1>3 DEF IngressInv, TypeOK
  <2> HIDE DEF q
  <2> QED
    BY <2>2, <2>3
<1>9. /\ req' \in [Requests -> Request] /\ req'[r] = q
      /\ \A s \in Requests : s # r => req'[s] = req[s]
  BY <1>8 DEF IngressInv, TypeOK
<1>10. TypeOK' /\ Unanswered'
  BY <1>2, <1>6, <1>8, <1>9 DEF IngressInv, TypeOK, Unanswered
<1>11. \A f \in Events : receipts[f].creator # r =>
         receipts'[f] = receipts[f]
  BY <1>4, <1>6
<1>12. TodoIsOwned'
  <2>1. ASSUME NEW j \in q.todo
        PROVE  /\ j \in DOMAIN q.batch
               /\ receipts'[q.batch[j]].status = "processing"
               /\ receipts'[q.batch[j]].creator = r
               /\ \A k \in q.todo : q.batch[k] = q.batch[j] => j = k
               /\ ~\E z \in runs' : z.event = q.batch[j]
    <3>1. j \in x.todo /\ j # i
      BY <1>8, <2>1
    <3>2. /\ j \in DOMAIN x.batch
          /\ receipts[x.batch[j]].status = "processing"
          /\ receipts[x.batch[j]].creator = r
          /\ \A k \in x.todo : x.batch[k] = x.batch[j] => j = k
      BY <1>1, <1>2, <3>1 DEF IngressInv, TodoIsOwned
    <3>3. x.batch[j] \in Events /\ x.batch[j] # e
      BY <1>4, <3>1, <3>2 DEF Request
    <3>4. \A z \in runs : z.event # x.batch[j]
      BY <1>4, <3>1
    <3> QED
      BY <1>2, <1>6, <1>8, <3>1, <3>2, <3>3, <3>4
  <2>2. ASSUME NEW s \in Requests, s # r, Dispatching(s)',
               NEW j \in req[s].todo
        PROVE  /\ j \in DOMAIN req[s].batch
               /\ receipts'[req[s].batch[j]].status = "processing"
               /\ receipts'[req[s].batch[j]].creator = s
               /\ \A k \in req[s].todo :
                    req[s].batch[k] = req[s].batch[j] => j = k
               /\ (\E z \in runs' : z.event = req[s].batch[j])
                    => Handled(s, j)'
    <3>1. Dispatching(s)
      BY <1>9, <2>2 DEF Dispatching
    <3>2. /\ j \in DOMAIN req[s].batch
          /\ receipts[req[s].batch[j]].status = "processing"
          /\ receipts[req[s].batch[j]].creator = s
          /\ \A k \in req[s].todo :
               req[s].batch[k] = req[s].batch[j] => j = k
          /\ (\E z \in runs : z.event = req[s].batch[j]) => Handled(s, j)
      BY <2>2, <3>1 DEF IngressInv, TodoIsOwned
    <3>3. req[s].batch[j] \in Events
      BY <2>2, <3>2, BatchEvents
    <3>4. Handled(s, j) => Handled(s, j)'
      BY <1>9, <2>2 DEF Handled
    <3> QED
      BY <1>2, <1>11, <2>2, <3>2, <3>3, <3>4
  <2> QED
    BY <1>9, <2>1, <2>2 DEF TodoIsOwned
<1>13. VerdictsAreTrue'
  BY <1>2, <1>8, <1>9 DEF IngressInv, VerdictsAreTrue
<1>14. \A f \in Events : Recorded(f) => Recorded(f)'
  BY <1>6, <1>4 DEF Recorded
<1>15. RowsAreValid'
  <2>1. ASSUME NEW f \in Events
        PROVE  /\ receipts'[f].status = "absent" => receipts'[f] = Absent
               /\ receipts'[f].status = "failed" <=> receipts'[f].code \in
                    {"handler_failed", "dispatch_deadline_exceeded"}
               /\ receipts'[f].code # "succeeded"
               /\ receipts'[f].creator # Nobody =>
                    req'[receipts'[f].creator].pc \notin {"idle", "verified"}
    <3>1. /\ receipts[f].status = "absent" => receipts[f] = Absent
          /\ receipts[f].status = "failed" <=> receipts[f].code \in
               {"handler_failed", "dispatch_deadline_exceeded"}
          /\ receipts[f].code # "succeeded"
          /\ receipts[f].creator # Nobody =>
               /\ req[receipts[f].creator].pc \notin {"idle", "verified"}
               /\ receipts[f].creator \in Requests
      BY <2>1 DEF IngressInv, RowsAreValid, TypeOK, Receipt
    <3>2. CASE f # e
      BY <1>6, <1>8, <1>9, <3>1, <3>2
    <3>3. CASE f = e
      BY <1>4, <1>5, <1>6, <1>8, <1>9, <3>1, <3>3 DEF Verdicts
    <3> QED
      BY <3>2, <3>3
  <2>2. \A z \in runs : z.event \in Events /\ Recorded(z.event)
    BY DEF IngressInv, RowsAreValid, TypeOK, Run
  <2> QED
    BY <1>2, <1>14, <2>1, <2>2 DEF RowsAreValid
<1>16. OpenIsPending'
  <2>1. ASSUME NEW s \in Requests, Dispatching(s)',
               NEW j \in DOMAIN req'[s].batch
        PROVE  Recorded(req[s].batch[j])' /\ req'[s].batch = req[s].batch
    <3>1. Dispatching(s) /\ req'[s].batch = req[s].batch
      BY <1>1, <1>2, <1>8, <1>9, <2>1 DEF Dispatching
    <3>2. req[s].batch[j] \in Events /\ Recorded(req[s].batch[j])
      <4>1. j \in DOMAIN req[s].batch
        BY <2>1, <3>1
      <4> QED
        BY <3>1, <4>1, BatchEvents DEF IngressInv, OpenIsPending
    <3>3. receipts'[req[s].batch[j]].status # "absent"
      BY <1>14, <3>2 DEF Recorded
    <3>4. Recorded(req[s].batch[j])' <=>
            receipts'[(req[s].batch[j])'].status # "absent"
      BY DEF Recorded
    <3>5. (req[s].batch[j])' = req[s].batch[j]
      BY <3>1
    <3> QED
      BY <3>1, <3>3, <3>4, <3>5
  <2>2. ASSUME NEW f \in Events, ~q.broken, receipts'[f].creator = r,
               receipts'[f].status = "processing"
        PROVE  \E j \in q.todo : q.batch[j] = f
    <3>1. ~x.broken /\ ~failed
      BY <1>8, <2>2
    <3>2. f # e
      BY <1>6, <2>2, <3>1
    <3>3. receipts[f].creator = r /\ receipts[f].status = "processing"
      BY <1>6, <2>2, <3>2
    <3>4. PICK j \in x.todo : x.batch[j] = f
      BY <1>1, <1>2, <3>1, <3>3 DEF IngressInv, OpenIsPending
    <3>5. j # i
      BY <3>2, <3>4 DEF e
    <3> QED
      BY <1>8, <3>4, <3>5
  <2>3. ASSUME NEW s \in Requests, s # r, Dispatching(s)', ~req[s].broken,
               NEW f \in Events, receipts'[f].creator = s,
               receipts'[f].status = "processing"
        PROVE  \E j \in req[s].todo : req[s].batch[j] = f
    <3>1. Dispatching(s) /\ receipts[f] = receipts'[f]
      BY <1>6, <1>9, <2>3 DEF Dispatching
    <3> QED
      BY <2>3, <3>1 DEF IngressInv, OpenIsPending
  <2> QED
    BY <1>9, <2>1, <2>2, <2>3 DEF OpenIsPending
<1>17. TimeIsKept'
  <2> DEFINE n == Cardinality(x.todo)
             F == FinalizeReserve
  <2>1. /\ (n - 1) * F \in Nat /\ n * F \in Nat
        /\ (n - 1) * F + F = n * F
    <3>1. n \in Nat /\ n - 1 \in Nat
      BY <1>7
    <3> QED
      BY <1>7, <3>1, ReserveIs
  <2>2. \/ x.at + n * F + ResponseReserve <= Deadline + MaxOverrun
        \/ x.at + n * F <= x.opened + x.count * F
    BY <1>1, <1>2 DEF IngressInv, TimeIsKept
  <2>3. \/ x.at + d + (n - 1) * F + ResponseReserve <= Deadline + MaxOverrun
        \/ x.at + d + (n - 1) * F <= x.opened + x.count * F
    <3>1. x.at \in Nat /\ x.opened \in Nat /\ x.count \in Nat
      BY DEF Request
    <3>2. /\ F \in Nat /\ ResponseReserve \in Nat /\ Deadline \in Nat
          /\ MaxOverrun \in Nat
      BY IngressAssumption
    <3> DEFINE A == (n - 1) * F
               B == n * F
               C == x.count * F
    <3>3. A \in Nat /\ B \in Nat /\ A + F = B /\ C \in Nat
      BY <2>1, <3>1, <3>2
    <3>4. \/ x.at + B + ResponseReserve <= Deadline + MaxOverrun
          \/ x.at + B <= x.opened + C
      BY <2>2
    <3>5. d \in Nat /\ d <= F
      BY <3>2
    <3> HIDE DEF A, B, C, F
    <3>6. \/ x.at + d + A + ResponseReserve <= Deadline + MaxOverrun
          \/ x.at + d + A <= x.opened + C
      BY <3>1, <3>2, <3>3, <3>4, <3>5
    <3> QED
      BY <3>6 DEF A, C
  <2>4. Cardinality(q.todo) = n - 1 /\ IsFiniteSet(q.todo)
    BY <1>7, <1>8
  <2> HIDE DEF n
  <2> QED
    BY <1>8, <1>9, <2>3, <2>4
    DEF IngressInv, TimeIsKept, Dispatching, Reserve
<1>18. HandledAtMostOnce'
  BY <1>2 DEF IngressInv, HandledAtMostOnce
<1>19. ReceiptsTellTheTruth'
  <2>1. ASSUME NEW f \in Events
        PROVE  /\ receipts'[f].status = "processed" =>
                    \E z \in runs : z.event = f /\ z.ok
               /\ receipts'[f].code = "handler_failed" =>
                    \E z \in runs : z.event = f /\ ~z.ok
               /\ receipts'[f].code = "dispatch_deadline_exceeded" =>
                    \A z \in runs : z.event # f
               /\ receipts'[f].status \in {"absent", "unsupported"} =>
                    \A z \in runs : z.event # f
    <3>1. CASE f # e
      BY <1>6, <3>1 DEF IngressInv, ReceiptsTellTheTruth
    <3>2. CASE f = e
      <4>1. receipts[e].code \notin
              {"handler_failed", "dispatch_deadline_exceeded"}
        BY <1>4 DEF IngressInv, RowsAreValid
      <4> QED
        BY <1>4, <1>5, <1>6, <3>2, <4>1
    <3> QED
      BY <3>1, <3>2
  <2> QED
    BY <1>2, <2>1 DEF ReceiptsTellTheTruth
<1>20. AcceptedIsSettled' /\ AnsweredInTime'
  <2>1. ASSUME NEW s \in Requests, req'[s].reply \in {"accepted", "storage_unavailable"}
        PROVE  s # r /\ req'[s] = req[s]
    BY <1>2, <1>8, <1>9, <2>1
  <2>2. AnsweredInTime'
    BY <2>1 DEF IngressInv, AnsweredInTime
  <2>3. ASSUME NEW s \in Requests, s # r, req[s].reply = "accepted"
        PROVE  /\ \A j \in DOMAIN req[s].batch :
                    receipts'[req[s].batch[j]].status # "absent"
               /\ \A f \in Events : receipts'[f].creator = s =>
                    receipts'[f].status # "processing"
    <3>1. \A j \in DOMAIN req[s].batch : req[s].batch[j] \in Events
      BY BatchEvents
    <3>2. /\ \A j \in DOMAIN req[s].batch : Recorded(req[s].batch[j])
          /\ \A f \in Events : receipts[f].creator = s =>
               receipts[f].status # "processing"
      BY <2>3 DEF IngressInv, AcceptedIsSettled
    <3> QED
      BY <1>6, <1>14, <2>3, <3>1, <3>2 DEF Recorded
  <2>4. AcceptedIsSettled'
    BY <2>1, <2>3 DEF AcceptedIsSettled, Recorded
  <2> QED
    BY <2>2, <2>4
<1> QED
  BY <1>10, <1>12, <1>13, <1>15, <1>16, <1>17, <1>18, <1>19, <1>20
  DEF IngressInv

----------------------------------------------------------------------------
(* accept_batch *)

(* What the transaction makes of the rows: those on record stay, the others *)
(* of the batch are inserted by this request.                               *)
LEMMA RecordingIs ==
  ASSUME IngressInv, NEW r \in Requests, NEW b \in Seq(Events),
         receipts' = Recording(r, b)
  PROVE  /\ receipts' \in [Events -> Receipt]
         /\ \A e \in Events :
              \/ receipts'[e] = receipts[e]
              \/ /\ ~Recorded(e) /\ \E i \in DOMAIN b : b[i] = e
                 /\ receipts'[e].creator = r /\ receipts'[e].code = "none"
                 /\ receipts'[e].status = IF Supported(e) THEN "processing"
                                          ELSE "unsupported"
         /\ \A i \in DOMAIN b : receipts'[b[i]].status # "absent"
         /\ \A i \in DOMAIN b : ~Recorded(b[i]) =>
              /\ receipts'[b[i]].creator = r
              /\ Supported(b[i]) => receipts'[b[i]].status = "processing"
<1> DEFINE New(e) == [status |-> IF Supported(e) THEN "processing"
                                 ELSE "unsupported",
                      code |-> "none", creator |-> r]
<1>1. \A e \in Events : New(e) \in Receipt
  BY DEF Receipt, Statuses
<1>2. \A e \in Events :
        receipts'[e] = IF ~Recorded(e) /\ \E i \in DOMAIN b : b[i] = e
                       THEN New(e) ELSE receipts[e]
  BY DEF Recording
<1>3. /\ \A e \in Events : New(e).creator = r /\ New(e).code = "none"
      /\ \A e \in Events : New(e).status = IF Supported(e) THEN "processing"
                                           ELSE "unsupported"
  OBVIOUS
<1>4. receipts' = [e \in Events |-> receipts'[e]]
  BY DEF Recording
<1>5. receipts \in [Events -> Receipt]
  BY DEF IngressInv, TypeOK
<1> HIDE DEF New
<1>6. \A e \in Events : receipts'[e] \in Receipt
  BY <1>1, <1>2, <1>5
<1>7. \A i \in DOMAIN b : b[i] \in Events
  OBVIOUS
<1>8. receipts' \in [Events -> Receipt]
  BY <1>4, <1>6
<1>9. \A e \in Events :
        \/ receipts'[e] = receipts[e]
        \/ /\ ~Recorded(e) /\ \E i \in DOMAIN b : b[i] = e
           /\ receipts'[e].creator = r /\ receipts'[e].code = "none"
           /\ receipts'[e].status = IF Supported(e) THEN "processing"
                                    ELSE "unsupported"
  BY <1>2, <1>3
<1>10. ASSUME NEW i \in DOMAIN b
       PROVE  /\ receipts'[b[i]].status # "absent"
              /\ ~Recorded(b[i]) =>
                   /\ receipts'[b[i]].creator = r
                   /\ Supported(b[i]) => receipts'[b[i]].status = "processing"
  <2>1. b[i] \in Events /\ \E j \in DOMAIN b : b[j] = b[i]
    BY <1>7
  <2>2. CASE Recorded(b[i])
    BY <1>2, <2>1, <2>2 DEF Recorded
  <2>3. CASE ~Recorded(b[i])
    BY <1>2, <1>3, <2>1, <2>3
  <2> QED
    BY <2>2, <2>3
<1> QED
  BY <1>8, <1>9, <1>10

(* Facts on a request that waits for its batch to be recorded.              *)
LEMMA VerifiedRequest ==
  ASSUME IngressInv, NEW r \in Requests, req[r].pc = "verified"
  PROVE  /\ req[r].reply = "none" /\ req[r].at = 0 /\ ~Dispatching(r)
         /\ req[r].batch \in Seq(Events)
         /\ \A e \in Events : receipts[e].creator # r
<1>1. req[r].reply = "none" /\ req[r].at = 0 /\ ~Dispatching(r)
  BY DEF IngressInv, Unanswered, Dispatching
<1>2. req[r].batch \in Seq(Events)
  BY DEF IngressInv, TypeOK, Request
<1>3. \A e \in Events : receipts[e].creator # r
  BY IngressAssumption DEF IngressInv, RowsAreValid
<1> QED
  BY <1>1, <1>2, <1>3

(* What holds of the other requests, of the rows and of the calls when a    *)
(* request records its batch, whatever the answer.                          *)
LEMMA RecordedRows ==
  ASSUME IngressInv, NEW r \in Requests, req[r].pc = "verified",
         NEW q \in Request, req' = [req EXCEPT ![r] = q],
         q.pc \notin {"idle", "verified", "handling", "finalizing"},
         receipts' = receipts \/ receipts' = Recording(r, req[r].batch),
         UNCHANGED <<active, runs>>
  PROVE  /\ TypeOK' /\ RowsAreValid'
         /\ HandledAtMostOnce' /\ ReceiptsTellTheTruth'
         /\ VerdictsAreTrue'
         /\ \A e \in Events : Recorded(e) => receipts'[e] = receipts[e]
         /\ \A e \in Events : receipts'[e].status = "absent" => ~Recorded(e)
         /\ \A e \in Events :
              receipts'[e].creator # r => receipts'[e] = receipts[e]
<1>1. /\ req' \in [Requests -> Request] /\ req'[r] = q
      /\ \A s \in Requests : s # r => req'[s] = req[s]
  BY DEF IngressInv, TypeOK
<1>2. req[r].batch \in Seq(Events)
  BY VerifiedRequest
<1>3. /\ receipts' \in [Events -> Receipt]
      /\ \A e \in Events :
           \/ receipts'[e] = receipts[e]
           \/ /\ ~Recorded(e)
              /\ receipts'[e].creator = r /\ receipts'[e].code = "none"
              /\ receipts'[e].status \in {"processing", "unsupported"}
  <2>1. CASE receipts' = receipts
    BY <2>1 DEF IngressInv, TypeOK
  <2>2. CASE receipts' = Recording(r, req[r].batch)
    BY <1>2, <2>2, RecordingIs
  <2> QED
    BY <2>1, <2>2
<1>4. TypeOK'
  BY <1>1, <1>3 DEF IngressInv, TypeOK
<1>5. \A e \in Events : ~Recorded(e) => \A x \in runs : x.event # e
  BY DEF IngressInv, RowsAreValid
<1>6. RowsAreValid'
  <2>1. ASSUME NEW e \in Events
        PROVE  /\ receipts'[e].status = "absent" => receipts'[e] = Absent
               /\ receipts'[e].status = "failed" <=> receipts'[e].code \in
                    {"handler_failed", "dispatch_deadline_exceeded"}
               /\ receipts'[e].code # "succeeded"
               /\ receipts'[e].creator # Nobody =>
                    req'[receipts'[e].creator].pc \notin {"idle", "verified"}
    <3>1. CASE receipts'[e] = receipts[e]
      <4>1. receipts[e].creator \in Requests \cup {Nobody}
        BY DEF IngressInv, TypeOK, Receipt
      <4> QED
        BY <1>1, <3>1, <4>1 DEF IngressInv, RowsAreValid
    <3>2. CASE receipts'[e] # receipts[e]
      BY <1>1, <1>3, <3>2
    <3> QED
      BY <3>1, <3>2
  <2>2. ASSUME NEW x \in runs
        PROVE  receipts'[x.event].status # "absent"
    <3>1. x.event \in Events /\ Recorded(x.event)
      BY DEF IngressInv, RowsAreValid, TypeOK, Run
    <3> QED
      BY <1>3, <3>1 DEF Recorded
  <2> QED
    BY <2>1, <2>2 DEF RowsAreValid, Recorded
<1>7. HandledAtMostOnce'
  BY DEF IngressInv, HandledAtMostOnce
<1>8. ReceiptsTellTheTruth'
  BY <1>3, <1>5 DEF IngressInv, ReceiptsTellTheTruth
<1>9. VerdictsAreTrue'
  BY <1>1 DEF IngressInv, VerdictsAreTrue
<1>10. /\ \A e \in Events : Recorded(e) => receipts'[e] = receipts[e]
       /\ \A e \in Events : receipts'[e].status = "absent" => ~Recorded(e)
       /\ \A e \in Events :
            receipts'[e].creator # r => receipts'[e] = receipts[e]
  BY <1>3 DEF Recorded
<1> QED
  BY <1>4, <1>6, <1>7, <1>8, <1>9, <1>10

(* The batch is recorded: what it recorded, and nothing else, is handed to  *)
(* the dispatch.                                                            *)
LEMMA AcceptedBatch ==
  ASSUME IngressInv, NEW r \in Requests, req[r].pc = "verified",
         UNCHANGED <<active, runs>>,
         receipts' = Recording(r, req[r].batch),
         NEW q \in Request, req' = [req EXCEPT ![r] = q],
         q.pc = "dispatching", q.batch = req[r].batch,
         q.todo = Dispatchable(q.batch), q.count = Cardinality(q.todo),
         q.at = q.opened, q.reply = req[r].reply
  PROVE  IngressInv'
<1> DEFINE b == q.batch
           D == Dispatchable(b)
<1>2. /\ q.reply = "none" /\ b \in Seq(Events)
      /\ \A e \in Events : receipts[e].creator # r
  BY VerifiedRequest
<1>3. D \in SUBSET Nat /\ IsFiniteSet(D) /\ Cardinality(D) \in Nat
  BY <1>2, DispatchableIsFinite
<1>4. /\ \A i \in D : /\ i \in DOMAIN b /\ First(b, i)
                      /\ ~Recorded(b[i]) /\ Supported(b[i])
      /\ \A i \in DOMAIN b : First(b, i) /\ ~Recorded(b[i]) /\ Supported(b[i])
           => i \in D
  BY DEF Dispatchable
<1>5. q.todo = D /\ q.count = Cardinality(D)
  OBVIOUS
<1> HIDE DEF D
<1>6. /\ req' \in [Requests -> Request] /\ req'[r] = q
      /\ \A s \in Requests : s # r => req'[s] = req[s]
  BY DEF IngressInv, TypeOK
<1>7. /\ TypeOK' /\ RowsAreValid' /\ HandledAtMostOnce'
      /\ ReceiptsTellTheTruth' /\ VerdictsAreTrue'
      /\ \A e \in Events : Recorded(e) => receipts'[e] = receipts[e]
      /\ \A e \in Events : receipts'[e].status = "absent" => ~Recorded(e)
      /\ \A e \in Events :
           receipts'[e].creator # r => receipts'[e] = receipts[e]
  BY RecordedRows
<1>8. /\ \A e \in Events :
           \/ receipts'[e] = receipts[e]
           \/ /\ ~Recorded(e) /\ \E i \in DOMAIN b : b[i] = e
              /\ receipts'[e].status = IF Supported(e) THEN "processing"
                                       ELSE "unsupported"
      /\ \A i \in DOMAIN b : receipts'[b[i]].status # "absent"
      /\ \A i \in DOMAIN b : ~Recorded(b[i]) =>
           /\ receipts'[b[i]].creator = r
           /\ Supported(b[i]) => receipts'[b[i]].status = "processing"
  BY <1>2, RecordingIs
<1>9. \A i \in DOMAIN b : b[i] \in Events
  BY <1>2
<1>10. \A e \in Events : ~Recorded(e) => \A z \in runs : z.event # e
  BY DEF IngressInv, RowsAreValid
<1> HIDE DEF b
<1>11. Unanswered'
  BY <1>2, <1>6 DEF IngressInv, Unanswered
<1>12. TodoIsOwned'
  <2>1. ASSUME NEW i \in D
        PROVE  /\ i \in DOMAIN b
               /\ receipts'[b[i]].status = "processing"
               /\ receipts'[b[i]].creator = r
               /\ \A j \in D : b[j] = b[i] => i = j
               /\ ~\E z \in runs' : z.event = b[i]
    <3>1. \A j \in D : b[j] = b[i] => i = j
      <4>1. ASSUME NEW j \in D, b[j] = b[i]
            PROVE  i = j
        <5>1. i \in Nat /\ j \in Nat /\ i <= j /\ j <= i
          BY <1>3, <1>4, <4>1 DEF First
        <5> QED
          BY <5>1
      <4> QED
        BY <4>1
    <3> QED
      BY <1>4, <1>8, <1>9, <1>10, <3>1
  <2>2. ASSUME NEW s \in Requests, s # r, Dispatching(s)',
               NEW j \in req[s].todo
        PROVE  /\ j \in DOMAIN req[s].batch
               /\ receipts'[req[s].batch[j]].status = "processing"
               /\ receipts'[req[s].batch[j]].creator = s
               /\ \A k \in req[s].todo :
                    req[s].batch[k] = req[s].batch[j] => j = k
               /\ (\E z \in runs' : z.event = req[s].batch[j])
                    => Handled(s, j)'
    <3>1. Dispatching(s)
      BY <1>6, <2>2 DEF Dispatching
    <3>2. /\ j \in DOMAIN req[s].batch
          /\ receipts[req[s].batch[j]].status = "processing"
          /\ receipts[req[s].batch[j]].creator = s
          /\ \A k \in req[s].todo :
               req[s].batch[k] = req[s].batch[j] => j = k
          /\ (\E z \in runs : z.event = req[s].batch[j]) => Handled(s, j)
      BY <2>2, <3>1 DEF IngressInv, TodoIsOwned
    <3>3. req[s].batch[j] \in Events
      BY <2>2, <3>2, BatchEvents
    <3>4. Handled(s, j) => Handled(s, j)'
      BY <1>6, <2>2 DEF Handled
    <3> QED
      BY <1>7, <2>2, <3>2, <3>3, <3>4 DEF Recorded
  <2> SUFFICES ASSUME NEW s \in Requests, Dispatching(s)',
                      NEW j \in req'[s].todo
               PROVE  /\ j \in DOMAIN req'[s].batch
                      /\ receipts'[req'[s].batch[j]].status = "processing"
                      /\ receipts'[req'[s].batch[j]].creator = s
                      /\ \A k \in req'[s].todo :
                           req'[s].batch[k] = req'[s].batch[j] => j = k
                      /\ (\E z \in runs' : z.event = req'[s].batch[j])
                           => Handled(s, j)'
    BY DEF TodoIsOwned
  <2>3. CASE s = r
    <3>1. req'[s].todo = D /\ req'[s].batch = b
      BY <1>5, <1>6, <2>3 DEF b
    <3> QED
      BY <2>1, <2>3, <3>1
  <2>4. CASE s # r
    <3>1. req'[s] = req[s]
      BY <1>6, <2>4
    <3> QED
      BY <2>2, <2>4, <3>1
  <2> QED
    BY <2>3, <2>4
<1>13. OpenIsPending'
  <2>1. ASSUME NEW s \in Requests, s # r, Dispatching(s)'
        PROVE  /\ ~req[s].broken =>
                    \A e \in Events :
                      receipts'[e].creator = s
                        /\ receipts'[e].status = "processing"
                        => \E i \in req[s].todo : req[s].batch[i] = e
               /\ \A i \in DOMAIN req[s].batch :
                    receipts'[req[s].batch[i]].status # "absent"
    <3>1. Dispatching(s)
      BY <1>6, <2>1 DEF Dispatching
    <3>2. /\ ~req[s].broken =>
               \A e \in Events :
                 receipts[e].creator = s /\ receipts[e].status = "processing"
                   => \E i \in req[s].todo : req[s].batch[i] = e
          /\ \A i \in DOMAIN req[s].batch : Recorded(req[s].batch[i])
      BY <2>1, <3>1 DEF IngressInv, OpenIsPending
    <3>3. \A i \in DOMAIN req[s].batch : req[s].batch[i] \in Events
      BY <2>1, BatchEvents
    <3> QED
      BY <1>7, <2>1, <3>2, <3>3 DEF Recorded
  <2>2. ASSUME NEW e \in Events, receipts'[e].creator = r,
               receipts'[e].status = "processing"
        PROVE  \E i \in D : b[i] = e
    <3>1. /\ ~Recorded(e) /\ Supported(e)
          /\ \E i \in DOMAIN b : b[i] = e
      BY <1>2, <1>8, <2>2
    <3>2. PICK k \in DOMAIN b : b[k] = e
      BY <3>1
    <3>3. PICK i \in DOMAIN b : b[i] = e /\ First(b, i)
      BY <1>2, <3>2, FirstExists DEF b
    <3> QED
      BY <1>4, <3>1, <3>3
  <2> SUFFICES ASSUME NEW s \in Requests, Dispatching(s)'
               PROVE  /\ ~req'[s].broken =>
                           \A e \in Events :
                             receipts'[e].creator = s
                               /\ receipts'[e].status = "processing"
                               => \E i \in req'[s].todo : req'[s].batch[i] = e
                      /\ \A i \in DOMAIN req'[s].batch :
                           receipts'[req'[s].batch[i]].status # "absent"
    BY DEF OpenIsPending, Recorded
  <2>3. CASE s = r
    <3>1. req'[s].todo = D /\ req'[s].batch = b
      BY <1>5, <1>6, <2>3 DEF b
    <3> QED
      BY <1>8, <2>2, <2>3, <3>1
  <2>4. CASE s # r
    <3>1. req'[s] = req[s]
      BY <1>6, <2>4
    <3> QED
      BY <2>1, <2>4, <3>1
  <2> QED
    BY <2>3, <2>4
<1>14. TimeIsKept'
  <2>1. q.at + Cardinality(q.todo) * FinalizeReserve
          <= q.opened + q.count * FinalizeReserve
    <3>1. Cardinality(D) * FinalizeReserve \in Nat /\ q.opened \in Nat
      BY <1>3, IngressAssumption DEF Request
    <3> QED
      BY <1>5, <3>1
  <2>2. IsFiniteSet(q.todo) /\ q.pc # "handling"
    BY <1>3, <1>5
  <2> QED
    BY <1>6, <2>1, <2>2 DEF IngressInv, TimeIsKept, Dispatching, Reserve
<1>15. AcceptedIsSettled' /\ AnsweredInTime'
  <2>1. ASSUME NEW s \in Requests,
               req'[s].reply \in {"accepted", "storage_unavailable"}
        PROVE  s # r /\ req'[s] = req[s]
    BY <1>2, <1>6, <2>1
  <2>2. AnsweredInTime'
    BY <2>1 DEF IngressInv, AnsweredInTime
  <2>3. ASSUME NEW s \in Requests, s # r, req[s].reply = "accepted"
        PROVE  /\ \A j \in DOMAIN req[s].batch :
                    receipts'[req[s].batch[j]].status # "absent"
               /\ \A f \in Events : receipts'[f].creator = s =>
                    receipts'[f].status # "processing"
    <3>1. \A j \in DOMAIN req[s].batch : req[s].batch[j] \in Events
      BY <2>3, BatchEvents
    <3>2. /\ \A j \in DOMAIN req[s].batch : Recorded(req[s].batch[j])
          /\ \A f \in Events : receipts[f].creator = s =>
               receipts[f].status # "processing"
      BY <2>3 DEF IngressInv, AcceptedIsSettled
    <3> QED
      BY <1>7, <2>3, <3>1, <3>2 DEF Recorded
  <2>4. AcceptedIsSettled'
    BY <2>1, <2>3 DEF AcceptedIsSettled, Recorded
  <2> QED
    BY <2>2, <2>4
<1> QED
  BY <1>7, <1>11, <1>12, <1>13, <1>14, <1>15 DEF IngressInv

(* accept_batch keeps the invariant: committed and answered for, or failed  *)
(* with the commit unknown.                                                 *)
LEMMA AcceptStep ==
  ASSUME IngressInv, NEW r \in Requests, Accept(r)
  PROVE  IngressInv'
<1>1. PICK x \in Request : x = req[r]
  BY DEF IngressInv, TypeOK
<1>2. x.pc = "verified" /\ x.batch \in Seq(Events) /\ UNCHANGED <<active, runs>>
  BY <1>1 DEF Accept, Request
<1>3. ASSUME NEW d \in 0..MaxAccept, receipts' = Recording(r, x.batch),
             req' = [req EXCEPT ![r].pc = "dispatching",
                                ![r].todo = Dispatchable(x.batch),
                                ![r].at = d, ![r].opened = d,
                                ![r].count = Cardinality(Dispatchable(x.batch))]
      PROVE  IngressInv'
  <2> DEFINE D == Dispatchable(x.batch)
             q == [x EXCEPT !.pc = "dispatching", !.todo = D, !.at = d,
                     !.opened = d, !.count = Cardinality(D)]
  <2>1. d \in Nat /\ D \in SUBSET Nat /\ Cardinality(D) \in Nat
    BY <1>2, DispatchableIsFinite, IngressAssumption
  <2>2. req' = [req EXCEPT ![r] = q]
    BY <1>1, <1>3 DEF IngressInv, TypeOK
  <2> HIDE DEF D
  <2>3. /\ q \in Request /\ q.pc = "dispatching" /\ q.batch = x.batch
        /\ q.todo = D /\ q.count = Cardinality(D) /\ q.at = q.opened
        /\ q.reply = x.reply
    BY <2>1 DEF Request, Pcs
  <2> HIDE DEF q
  <2> QED
    <3>1. /\ req[r].pc = "verified" /\ UNCHANGED <<active, runs>>
          /\ receipts' = Recording(r, req[r].batch)
      BY <1>1, <1>2, <1>3
    <3>2. q.batch = req[r].batch /\ q.reply = req[r].reply
      BY <1>1, <2>3
    <3>3. q.todo = Dispatchable(q.batch) /\ q.count = Cardinality(q.todo)
      BY <2>3 DEF D
    <3> QED
      BY <2>2, <2>3, <3>1, <3>2, <3>3, AcceptedBatch
<1>4. ASSUME receipts' \in {receipts, Recording(r, x.batch)},
             Answer(r, "storage_unavailable")
      PROVE  IngressInv'
  <2>1. PICK q \in Request :
           /\ req' = [req EXCEPT ![r] = q]
           /\ q.pc = "done" /\ q.reply = "storage_unavailable"
           /\ q.batch = req[r].batch /\ q.at = req[r].at
           /\ q.opened = req[r].opened /\ q.count = req[r].count
           /\ q.todo = {}
    BY <1>4, AnswerRecord DEF Replies
  <2>2. /\ req' \in [Requests -> Request] /\ req'[r] = q
        /\ \A s \in Requests : s # r => req'[s] = req[s]
    BY <2>1 DEF IngressInv, TypeOK
  <2>3. /\ TypeOK' /\ RowsAreValid' /\ HandledAtMostOnce'
        /\ ReceiptsTellTheTruth' /\ VerdictsAreTrue'
        /\ \A e \in Events : Recorded(e) => receipts'[e] = receipts[e]
        /\ \A e \in Events : receipts'[e].status = "absent" => ~Recorded(e)
        /\ \A e \in Events :
             receipts'[e].creator # r => receipts'[e] = receipts[e]
    <3>1. req[r].pc = "verified" /\ UNCHANGED <<active, runs>>
      BY <1>1, <1>2
    <3>2. receipts' = receipts \/ receipts' = Recording(r, req[r].batch)
      BY <1>1, <1>4
    <3>3. q.pc \notin {"idle", "verified", "handling", "finalizing"}
      BY <2>1
    <3> QED
      BY <2>1, <3>1, <3>2, <3>3, RecordedRows
  <2>4. ASSUME NEW s \in Requests, s # r
        PROVE  /\ \A j \in DOMAIN req[s].batch :
                    Recorded(req[s].batch[j]) =>
                      receipts'[req[s].batch[j]] = receipts[req[s].batch[j]]
               /\ \A f \in Events :
                    receipts'[f].creator = s => receipts'[f] = receipts[f]
    BY <2>3, <2>4, BatchEvents
  <2>5. Unanswered'
    BY <2>1, <2>2 DEF IngressInv, Unanswered
  <2>6. TodoIsOwned'
    <3> SUFFICES ASSUME NEW s \in Requests, Dispatching(s)',
                        NEW j \in req'[s].todo
                 PROVE  /\ j \in DOMAIN req'[s].batch
                        /\ receipts'[req'[s].batch[j]].status = "processing"
                        /\ receipts'[req'[s].batch[j]].creator = s
                        /\ \A k \in req'[s].todo :
                             req'[s].batch[k] = req'[s].batch[j] => j = k
                        /\ (\E z \in runs' : z.event = req'[s].batch[j])
                             => Handled(s, j)'
      BY DEF TodoIsOwned
    <3>1. s # r /\ req'[s] = req[s] /\ Dispatching(s) /\ runs' = runs
      BY <1>2, <2>1, <2>2 DEF Dispatching
    <3>2. Handled(s, j) => Handled(s, j)'
      BY <3>1 DEF Handled
    <3>3. /\ j \in DOMAIN req[s].batch
          /\ receipts[req[s].batch[j]].status = "processing"
          /\ receipts[req[s].batch[j]].creator = s
          /\ \A k \in req[s].todo :
               req[s].batch[k] = req[s].batch[j] => j = k
          /\ (\E z \in runs : z.event = req[s].batch[j]) => Handled(s, j)
      BY <3>1 DEF IngressInv, TodoIsOwned
    <3> QED
      BY <2>4, <3>1, <3>2, <3>3 DEF Recorded
  <2>7. OpenIsPending'
    <3> SUFFICES ASSUME NEW s \in Requests, Dispatching(s)'
                 PROVE  /\ ~req'[s].broken =>
                             \A e \in Events :
                               receipts'[e].creator = s
                                 /\ receipts'[e].status = "processing"
                                 => \E i \in req'[s].todo :
                                      req'[s].batch[i] = e
                        /\ \A i \in DOMAIN req'[s].batch :
                             receipts'[req'[s].batch[i]].status # "absent"
      BY DEF OpenIsPending, Recorded
    <3>1. s # r /\ req'[s] = req[s] /\ Dispatching(s)
      BY <2>1, <2>2 DEF Dispatching
    <3>2. /\ ~req[s].broken =>
               \A e \in Events :
                 receipts[e].creator = s /\ receipts[e].status = "processing"
                   => \E i \in req[s].todo : req[s].batch[i] = e
          /\ \A i \in DOMAIN req[s].batch : Recorded(req[s].batch[i])
      BY <3>1 DEF IngressInv, OpenIsPending
    <3> QED
      BY <2>4, <3>1, <3>2 DEF Recorded
  <2>8. TimeIsKept'
    BY <2>1, <2>2 DEF IngressInv, TimeIsKept, Dispatching, Reserve
  <2>9. AcceptedIsSettled'
    <3>1. ASSUME NEW s \in Requests, req'[s].reply = "accepted"
          PROVE  /\ s # r /\ req'[s] = req[s]
                 /\ \A j \in DOMAIN req[s].batch : Recorded(req[s].batch[j])
                 /\ \A f \in Events : receipts[f].creator = s =>
                      receipts[f].status # "processing"
      BY <2>1, <2>2, <3>1 DEF IngressInv, AcceptedIsSettled
    <3> QED
      BY <2>4, <3>1 DEF AcceptedIsSettled, Recorded
  <2>10. AnsweredInTime'
    <3>1. q.at = 0 /\ q.at + ResponseReserve <= Deadline + MaxOverrun
      BY <1>1, <1>2, <2>1, VerifiedRequest, IngressAssumption
    <3> QED
      BY <2>2, <3>1 DEF IngressInv, AnsweredInTime
  <2> QED
    BY <2>3, <2>5, <2>6, <2>7, <2>8, <2>9, <2>10 DEF IngressInv
<1> QED
  BY <1>1, <1>3, <1>4 DEF Accept

----------------------------------------------------------------------------
(* Theorems *)

(* Every step of the ingress keeps the invariant.                           *)
LEMMA NextIngress == IngressInv /\ [Next]_vars => IngressInv'
<1> SUFFICES ASSUME IngressInv, [Next]_vars PROVE IngressInv'
  OBVIOUS
<1>1. CASE Switch
  BY <1>1, SwitchStep
<1>2. ASSUME NEW r \in Requests, NEW b \in Batches, Receive(r, b)
      PROVE  IngressInv'
  BY <1>2, ReceiveStep
<1>3. ASSUME NEW r \in Requests, Accept(r) PROVE IngressInv'
  BY <1>3, AcceptStep
<1>4. ASSUME NEW r \in Requests, Dispatch(r) PROVE IngressInv'
  BY <1>4, DispatchStep
<1>5. ASSUME NEW r \in Requests, Handle(r) PROVE IngressInv'
  BY <1>5, HandleStep
<1>6. ASSUME NEW r \in Requests, Finalize(r) PROVE IngressInv'
  BY <1>6, FinalizeStep
<1>7. ASSUME NEW r \in Requests, Respond(r) PROVE IngressInv'
  BY <1>7, RespondStep
<1>8. ASSUME NEW r \in Requests, Crash(r) PROVE IngressInv'
  BY <1>8, CrashStep
<1>9. CASE UNCHANGED vars
  <2>1. UNCHANGED <<active, receipts, req, runs>>
    BY <1>9 DEF vars
  <2>2. TypeOK' /\ Unanswered'
    BY <2>1 DEF IngressInv, TypeOK, Unanswered
  <2>3. TodoIsOwned' /\ VerdictsAreTrue' /\ TimeIsKept'
    BY <2>1 DEF IngressInv, TodoIsOwned, VerdictsAreTrue, TimeIsKept,
       Dispatching, Handled, Reserve, Foremost
  <2>4. RowsAreValid' /\ OpenIsPending'
    BY <2>1 DEF IngressInv, RowsAreValid, OpenIsPending, Dispatching, Recorded
  <2>5. /\ HandledAtMostOnce' /\ ReceiptsTellTheTruth'
        /\ AcceptedIsSettled' /\ AnsweredInTime'
    BY <2>1 DEF IngressInv, HandledAtMostOnce, ReceiptsTellTheTruth,
       AcceptedIsSettled, AnsweredInTime, Recorded
  <2> QED
    BY <2>2, <2>3, <2>4, <2>5 DEF IngressInv
<1> QED
  BY <1>1, <1>2, <1>3, <1>4, <1>5, <1>6, <1>7, <1>8, <1>9 DEF Next, Ingest

(* The inductive invariant holds of every behaviour of the ingress.         *)
THEOREM IngressIsInvariant == Spec => []IngressInv
<1>1. Init => IngressInv
  BY InitIngress
<1>2. IngressInv /\ [Next]_vars => IngressInv'
  BY NextIngress
<1> QED
  BY <1>1, <1>2, PTL DEF Spec

(* Receipts, requests and handler calls keep their types.                   *)
THEOREM IngressTypes == Spec => []TypeOK
<1>1. IngressInv => TypeOK
  BY DEF IngressInv
<1> QED
  BY <1>1, IngressIsInvariant, PTL

(* No event is handed to its handler twice, however batches overlap and are *)
(* repeated and whichever worker dies or transaction fails (accept_batch).  *)
THEOREM NoEventHandledTwice == Spec => []HandledAtMostOnce
<1>1. IngressInv => HandledAtMostOnce
  BY DEF IngressInv
<1> QED
  BY <1>1, IngressIsInvariant, PTL

(* A settled receipt says what happened to its event (mark_processed,       *)
(* mark_failed).                                                            *)
THEOREM ReceiptsAreTrue == Spec => []ReceiptsTellTheTruth
<1>1. IngressInv => ReceiptsTellTheTruth
  BY DEF IngressInv
<1> QED
  BY <1>1, IngressIsInvariant, PTL

(* 200 is only answered for a batch on record whose events this request has *)
(* settled (ingest, storage_failed).                                        *)
THEOREM AcceptedMeansSettled == Spec => []AcceptedIsSettled
<1>1. IngressInv => AcceptedIsSettled
  BY DEF IngressInv
<1> QED
  BY <1>1, IngressIsInvariant, PTL

(* The deadline is missed by one handler's overrun at most, unless the      *)
(* batch was recorded too late (_dispatch, required_reserve).               *)
THEOREM ResponsesKeepTheDeadline == Spec => []AnsweredInTime
<1>1. IngressInv => AnsweredInTime
  BY DEF IngressInv
<1> QED
  BY <1>1, IngressIsInvariant, PTL

=============================================================================
