---------------------------- MODULE JudgmentLab ----------------------------
(***************************************************************************)
(* The text judgment lab: its page and the gate in front of it (frontend,   *)
(* TextJudgmentLabAuthGate.tsx, useTextJudgmentLab.ts), and the server's    *)
(* check of the access, its limits and its call of the judge (backend,      *)
(* textjudgmentlab).  Time passes in ticks, for the page and the server     *)
(* alike; timers fire late.  A text and what was judged of it are the       *)
(* number of the submission; what a verdict says is left out.               *)
(***************************************************************************)
EXTENDS Naturals, FiniteSets, Sequences

CONSTANTS
  Lifetime,       \* of an id token
  Timeout,        \* 15 s: how long the page waits for a verdict
  Window,         \* 60 s
  MaxStarts,      \* 10 judgments in a window
  MaxSubmissions, \* bound on the submissions in a life of the page
  EndOfTime       \* bound on the clock

ASSUME JudgmentLabAssumption ==
  {Lifetime, Timeout, Window, MaxStarts, MaxSubmissions, EndOfTime}
    \subseteq Nat \ {0}

VARIABLES
  clock,
  expires,   \* when the token of this life of the page does
  access,    \* LabAccessState
  token,     \* the page has a token
  until,     \* how long it takes the token to be valid, 0 if it does not
  checks,    \* the check of the access under way; an older one is not listened to
  composer,  \* LabComposer
  entries,   \* LabEntry: what became of each submission
  jobs,      \* judgments asked for, until the server is done with them
  starts,    \* _OwnerState: when judgments were begun
  judging    \* _OwnerState.running

judgmentLabVars == <<clock, expires, access, token, until, checks, composer,
                     entries, jobs, starts, judging>>
labPageVars == <<composer, entries>>
labGateVars == <<access, token, until, checks>>
labServerVars == <<starts, judging>>

----------------------------------------------------------------------------
(* Types *)

Submissions == 1..MaxSubmissions
Times == 0..EndOfTime

LabAccessState == {"initializing", "authorized", "reauthentication_required",
                   "denied", "unavailable", "away"}
AccessCheck == [sent : Times, left : 0..Lifetime,
                answer : ({"none"} \cup LabAccessState) \ {"initializing", "away"}]
LabComposer == [kind : {"editing", "pending"}, id : 0..MaxSubmissions]

(* "late": the verdict was taken when the token had expired.                *)
LabEntry == [outcome : {"none", "pending", "succeeded", "failed"},
             verdict : 0..MaxSubmissions, late : BOOLEAN]
LabJob == [id : Submissions, running : BOOLEAN, heard : BOOLEAN, started : Times, now : Times,
        step : {"sent", "admitted", "judging", "answered"},
        answer : {"none", "verdict", "unauthorized", "unavailable", "failed"}]

JudgmentLabTypeOK ==
  /\ clock \in Times /\ expires \in 0..(EndOfTime + Lifetime)
  /\ access \in LabAccessState /\ token \in BOOLEAN
  /\ until \in 0..(EndOfTime + Lifetime)
  /\ checks \subseteq AccessCheck
  /\ composer \in LabComposer
  /\ entries \in [Submissions -> LabEntry]
  /\ jobs \subseteq LabJob
  /\ starts \in Seq(Times) /\ Len(starts) <= MaxStarts
  /\ judging \in BOOLEAN

LabBlank == [kind |-> "editing", id |-> 0]
Unsubmitted == [outcome |-> "none", verdict |-> 0, late |-> FALSE]

JudgmentLabInit ==
  /\ clock = 0 /\ expires = Lifetime
  /\ access = "initializing" /\ token = FALSE /\ until = 0 /\ checks = {}
  /\ composer = LabBlank /\ entries = [i \in Submissions |-> Unsubmitted]
  /\ jobs = {}
  /\ starts = <<>> /\ judging = FALSE

Tick ==
  /\ clock < EndOfTime /\ clock' = clock + 1
  /\ UNCHANGED <<expires, labGateVars, labPageVars, jobs, labServerVars>>

----------------------------------------------------------------------------
(* The gate *)

(* fail: the job that is running ends with a message.                       *)
Interrupted(js) == {[j EXCEPT !.running = FALSE, !.heard = FALSE, !.started = 0] : j \in js}

(* updatePending with a failure: the text may be edited again.              *)
FailedWith ==
  /\ composer' = IF composer.kind = "pending"
                 THEN [composer EXCEPT !.kind = "editing"] ELSE composer
  /\ entries' = IF composer.kind = "pending"
                THEN [entries EXCEPT ![composer.id].outcome = "failed"] ELSE entries

(* setAccess; whatever is not authorized interrupts the job.                *)
Becomes(kind, js) ==
  /\ access' = kind
  /\ IF kind = "authorized" THEN jobs' = js /\ UNCHANGED labPageVars
     ELSE jobs' = Interrupted(js) /\ FailedWith

(* requireReauthentication *)
RequireReauthentication(js) ==
  token' = FALSE /\ until' = 0 /\ Becomes("reauthentication_required", js)

CheckSent == [sent |-> clock, left |-> 0, answer |-> "none"]

(* checkAccess: first of all, on coming back to the page, or on request;    *)
(* the timer of the expiry goes on.                                         *)
CheckAccess ==
  /\ access # "away"
  /\ \/ access = "initializing" /\ checks = {} /\ token' = TRUE /\ UNCHANGED <<access, labPageVars, jobs>>
     \/ token /\ UNCHANGED token /\ Becomes("initializing", jobs)
  /\ checks' = {CheckSent}
  /\ UNCHANGED <<clock, expires, until, labServerVars>>

(* checkAccess on request, without a token.                                 *)
CheckNothing ==
  /\ access = "unavailable" /\ ~token
  /\ RequireReauthentication(jobs) /\ checks' = {}
  /\ UNCHANGED <<clock, expires, labServerVars>>

(* No token, or no LIFF: nothing can be checked.                            *)
NoAccess ==
  /\ access = "initializing" /\ ~token
  /\ access' \in {"reauthentication_required", "unavailable"}
  /\ UNCHANGED <<clock, expires, token, until, checks, labPageVars, jobs, labServerVars>>

(* LabBearerAuthentication and IsLabOwner: what the token says of its time, *)
(* or that it is none for this channel, this owner, or LINE cannot tell.    *)
AnswerCheck(c) ==
  /\ c.answer = "none"
  /\ \E answer \in {"authorized", "reauthentication_required", "denied", "unavailable"} :
       /\ answer = "authorized" => clock < expires
       /\ checks' = {[c EXCEPT !.answer = answer,
                                !.left = IF answer = "authorized" THEN expires - clock ELSE 0]}
  /\ UNCHANGED <<clock, expires, access, token, until, labPageVars, jobs, labServerVars>>

(* Mutant: the time that the answer took is not taken off.                  *)
Remaining_Whole(c) == c.left

(* What is left, less all the time that the answer took.                    *)
Remaining(c) == IF c.left > clock - c.sent THEN c.left - (clock - c.sent) ELSE 0

TakeCheck(c) ==
  /\ c.answer # "none"
  /\ checks' = {}
  /\ IF c.answer = "authorized" /\ Remaining(c) > 0
     THEN /\ until' = clock + Remaining(c)
          /\ UNCHANGED token /\ Becomes("authorized", jobs)
     ELSE IF c.answer \in {"authorized", "reauthentication_required"}
     THEN RequireReauthentication(jobs)
     ELSE /\ token' = (token /\ c.answer # "denied") /\ until' = 0
          /\ Becomes(c.answer, jobs)
  /\ UNCHANGED <<clock, expires, labServerVars>>

(* The timer of the expiry, which may be late, and may go off while a check *)
(* is under way; what that check answers is still listened to.              *)
ExpireAccess ==
  /\ until # 0 /\ until <= clock
  /\ RequireReauthentication(jobs)
  /\ UNCHANGED <<clock, expires, checks, labServerVars>>

(* reauthenticate: the page is left for LINE, and loaded again, if the SDK  *)
(* can.                                                                     *)
ReauthenticateLab ==
  /\ access = "reauthentication_required" /\ checks' = {}
  /\ \/ /\ access' = "away" /\ jobs' = Interrupted(jobs)
        /\ composer' = LabBlank /\ entries' = [i \in Submissions |-> Unsubmitted]
     \/ access' = "unavailable" /\ UNCHANGED <<labPageVars, jobs>>
  /\ UNCHANGED <<clock, expires, token, until, labServerVars>>

LoadLab ==
  /\ access = "away"
  /\ access' = "initializing" /\ expires' = clock + Lifetime
  /\ UNCHANGED <<clock, token, until, checks, labPageVars, jobs, labServerVars>>

----------------------------------------------------------------------------
(* The page *)

Running == \E j \in jobs : j.running
EditableLab == access = "authorized" /\ ~Running /\ composer.kind = "editing"

(* getValidIdToken *)
HasValidToken == token /\ clock < until

Fresh == {i \in Submissions : entries[i].outcome = "none" /\ \A j \in jobs : j.id # i}

SubmitText(i) ==
  /\ EditableLab
  /\ i \in Fresh /\ \A k \in Fresh : i <= k
  /\ IF HasValidToken
     THEN /\ composer' = [composer EXCEPT !.kind = "pending", !.id = i]
          /\ entries' = [entries EXCEPT ![i].outcome = "pending"]
          /\ jobs' = jobs \cup {[id |-> i, running |-> TRUE, heard |-> TRUE, started |-> clock,
                                 now |-> 0, step |-> "sent", answer |-> "none"]}
          /\ UNCHANGED labGateVars
     ELSE RequireReauthentication(jobs) /\ UNCHANGED checks
  /\ UNCHANGED <<clock, expires, labServerVars>>

(* The timer of the job, which may be late; the server goes on without it.  *)
GiveUp(j) ==
  /\ j.running /\ clock >= j.started + Timeout
  /\ jobs' = (jobs \ {j}) \cup Interrupted({j})
  /\ FailedWith
  /\ UNCHANGED <<clock, expires, labGateVars, labServerVars>>

(* completionAllowed; what becomes of a job that is not in time or not      *)
(* allowed any more, ExpireAccess or GiveUp say.                            *)
CompletionAllowed(j) ==
  /\ j.running /\ access = "authorized" /\ HasValidToken
  /\ clock < j.started + Timeout

TakeVerdict(j) ==
  /\ j.step = "answered" /\ j.heard /\ CompletionAllowed(j)
  /\ IF j.answer = "verdict"
     THEN /\ jobs' = jobs \ {j}
          /\ entries' = [entries EXCEPT ![composer.id].outcome = "succeeded",
                           ![composer.id].verdict = j.id,
                           ![composer.id].late = clock >= expires]
          /\ composer' = LabBlank
          /\ UNCHANGED <<access, token, until>>
     ELSE IF j.answer = "unauthorized" THEN RequireReauthentication(jobs \ {j})
     ELSE IF j.answer = "unavailable"
     THEN until' = 0 /\ UNCHANGED token /\ Becomes("unavailable", jobs \ {j})
     ELSE FailedWith /\ jobs' = jobs \ {j} /\ UNCHANGED <<access, token, until>>
  /\ UNCHANGED <<clock, expires, checks, labServerVars>>

----------------------------------------------------------------------------
(* The server's judgment *)

AnswersJob(j, answer) ==
  jobs' = (jobs \ {j}) \cup
            (IF j.heard THEN {[j EXCEPT !.step = "answered", !.answer = answer]} ELSE {})

(* LabAPIView.initial and the authentication; the time is read before the   *)
(* mutex of the limits is taken.                                            *)
Admit(j) ==
  /\ j.step = "sent"
  /\ \/ clock < expires /\ jobs' = (jobs \ {j}) \cup {[j EXCEPT !.step = "admitted", !.now = clock]}
     \/ AnswersJob(j, IF clock < expires THEN "unavailable" ELSE "unauthorized")
  /\ UNCHANGED <<clock, expires, labGateVars, labPageVars, labServerVars>>

(* The starts that the window has left behind, from the front.              *)
Forgotten(now) ==
  CHOOSE n \in 0..Len(starts) :
    /\ \A k \in 1..n : starts[k] + Window <= now
    /\ n < Len(starts) => starts[n + 1] + Window > now

(* One judgment of an owner runs at a time.                                 *)
PermitFree == ~judging

(* LabLimits.acquire *)
Acquire(j) ==
  /\ j.step = "admitted"
  /\ LET recent == SubSeq(starts, Forgotten(j.now) + 1, Len(starts))
     IN IF PermitFree /\ Len(recent) < MaxStarts
        THEN /\ starts' = Append(recent, j.now) /\ judging' = TRUE
             /\ jobs' = (jobs \ {j}) \cup {[j EXCEPT !.step = "judging", !.now = 0]}
        ELSE starts' = recent /\ AnswersJob(j, "failed") /\ UNCHANGED judging
  /\ UNCHANGED <<clock, expires, labGateVars, labPageVars>>

(* The judge's answer, or none in time; the permit is given back in any     *)
(* case, and nothing is answered to an access that has expired meanwhile.   *)
JudgeText(j) ==
  /\ j.step = "judging"
  /\ judging' = FALSE
  /\ \E answer \in {"verdict", "failed"} :
       AnswersJob(j, IF clock < expires THEN answer ELSE "unauthorized")
  /\ UNCHANGED <<clock, expires, labGateVars, labPageVars, starts>>

(* The connection breaks; the server may go on.                             *)
BreakJob(j) ==
  /\ j.heard /\ j.answer # "failed"
  /\ \E rest \in SUBSET Interrupted({j}) :
       /\ j.step \in {"admitted", "judging"} => rest # {}
       /\ j.step = "answered" => rest = {}
       /\ jobs' = (jobs \ {j}) \cup {[j EXCEPT !.step = "answered", !.answer = "failed"]} \cup rest
  /\ UNCHANGED <<clock, expires, labGateVars, labPageVars, labServerVars>>

----------------------------------------------------------------------------
JudgmentLabNext ==
  \/ Tick \/ CheckAccess \/ CheckNothing \/ NoAccess \/ ExpireAccess
  \/ ReauthenticateLab \/ LoadLab
  \/ \E c \in checks : AnswerCheck(c) \/ TakeCheck(c)
  \/ \E i \in Submissions : SubmitText(i)
  \/ \E j \in jobs :
       \/ GiveUp(j) \/ TakeVerdict(j) \/ Admit(j) \/ Acquire(j) \/ JudgeText(j) \/ BreakJob(j)

JudgmentLabSpec == JudgmentLabInit /\ [][JudgmentLabNext]_judgmentLabVars

----------------------------------------------------------------------------
(* Property *)

(* A verdict stands beside the text it was given for, and is taken only     *)
(* while the token it was asked for with is valid, although the page knows  *)
(* of that only how long it was to be when the server answered, a while ago *)
(* (useTextJudgmentLab.ts, completionAllowed; TextJudgmentLabAuthGate.tsx,  *)
(* checkAccess).                                                            *)
VerdictInTime ==
  \A i \in Submissions : entries[i].outcome = "succeeded" =>
    entries[i].verdict = i /\ ~entries[i].late
=============================================================================
