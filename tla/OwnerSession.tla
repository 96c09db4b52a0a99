---------------------------- MODULE OwnerSession ----------------------------
(***************************************************************************)
(* The gate in front of the owner's pages (frontend, AuthGate.tsx) with the *)
(* account page behind it (AccountConsole.tsx, UnlinkRecoveryPanel.tsx),    *)
(* LINE Login as the LIFF SDK offers it, and the server's sessions.         *)
(*                                                                         *)
(* The gate counts generations: a flow goes on after an await only if none  *)
(* has begun since, which is what "current" says of it here.  A flow of a   *)
(* page that was unloaded is "gone": nobody hears its answer, but a request *)
(* on its way still arrives.  Paths, profiles and messages are left out.    *)
(***************************************************************************)
EXTENDS Naturals, FiniteSets

CONSTANT MaxFlows  \* bound on what the browser waits for at one time

ASSUME OwnerSessionAssumption == MaxFlows \in Nat \ {0}

VARIABLES
  client,  \* the page runs in LINE's own browser, where one is always logged in
  auth,    \* AuthState
  ready,   \* unlinkReauthenticationReady
  flag,    \* unlinkReauthenticationPending in sessionStorage
  liff,    \* the SDK holds a login and its tokens
  fresh,   \* that login is younger than the last request to log in again
  preview, \* the account page shows what would be deleted
  flows,   \* flows of the gate, and calls of its pages
  cookie,  \* the browser's cookie names a session that is valid
  account, \* the owner's account
  out      \* the last the server did was to end the session for the current logout

ownerSessionVars == <<client, auth, ready, flag, liff, fresh, preview, flows,
                      cookie, account, out>>

----------------------------------------------------------------------------
(* Types *)

Stages == {"deauthorization_pending", "local_deletion_pending"}
Sessions == {"anonymous", "authenticated"} \cup Stages

AuthState == Sessions \cup {"initializing", "login_required", "verifying",
                            "error", "final_error", "away"}

GateFlows == {"authenticate", "refresh", "logout"}
Flow == [kind : GateFlows \cup {"work", "preview", "unlink", "resume"},
         step : {"init", "session", "permission", "login", "sent"},
         life : {"current", "stale", "gone"},
         answer : Sessions \cup {"none", "done", "invalid", "no_proof", "stale",
                                 "in_progress", "error"}]

OwnerSessionTypeOK ==
  /\ {client, ready, flag, liff, fresh, preview, cookie, out} \subseteq BOOLEAN
  /\ auth \in AuthState
  /\ flows \subseteq Flow
  /\ account \in {"active"} \cup Stages

Begun(kind, step) ==
  [kind |-> kind, step |-> step, life |-> "current", answer |-> "none"]

OwnerSessionInit ==
  /\ client \in BOOLEAN /\ liff = client
  /\ auth = "initializing" /\ flows = {Begun("authenticate", "init")}
  /\ account = "active"
  /\ ready = FALSE /\ flag = FALSE /\ fresh = FALSE
  /\ preview = FALSE /\ cookie = FALSE /\ out = FALSE

----------------------------------------------------------------------------
(* Generations and lifetimes *)

Room == Cardinality(flows) < MaxFlows

Ended(q, condition) == IF condition THEN [q EXCEPT !.life = "stale"] ELSE q

(* ++generation.current *)
Superseded(fs) ==
  {Ended(q, q.kind \in GateFlows /\ q.life = "current") : q \in fs}

(* lifetime.current += 1, when the account page goes.                       *)
Abandoned(fs) ==
  {Ended(q, q.kind \in {"preview", "unlink"} /\ q.life = "current") : q \in fs}

(* What is still on its way when the page is unloaded.                      *)
OnTheirWay(fs) ==
  {[q EXCEPT !.life = "gone"] :
     q \in {q \in fs : q.step \in {"login", "sent"} /\ q.answer = "none"}}

(* transitionAuth: the state the gate shows next, and what it then mounts.  *)
Shows(kind, fs) ==
  /\ auth' = kind
  /\ IF kind = "authenticated"
     THEN flows' = fs /\ UNCHANGED preview
     ELSE flows' = Abandoned(fs) /\ preview' = FALSE

Served(q, answer) ==
  flows' = (flows \ {q}) \cup
             (IF q.life = "gone" THEN {} ELSE {[q EXCEPT !.answer = answer]})

serverVars == <<cookie, account, out>>
lineVars == <<client, liff, fresh>>

----------------------------------------------------------------------------
(* The server *)

SessionNow == IF ~cookie THEN "anonymous"
              ELSE IF account = "active" THEN "authenticated" ELSE account

(* GET /api/account/session/ *)
AnswerSession(q) ==
  /\ q.step = "session" /\ q.answer = "none"
  /\ \E answer \in {SessionNow, "error"} : Served(q, answer)
  /\ UNCHANGED <<auth, ready, flag, preview, lineVars, serverVars>>

(* POST /api/account/session/line/ *)
AnswerLogin(q) ==
  /\ q.step = "login" /\ q.answer = "none"
  /\ \/ /\ cookie' = TRUE /\ out' = FALSE
        /\ Served(q, IF account = "active" THEN "authenticated" ELSE account)
     \/ /\ \E answer \in {"invalid", "error"} : Served(q, answer)
        /\ UNCHANGED <<cookie, out>>
  /\ UNCHANGED <<auth, ready, flag, preview, lineVars, account>>

(* DELETE /api/account/session/ *)
AnswerLogout(q) ==
  /\ q.kind = "logout" /\ q.answer = "none"
  /\ \/ cookie /\ cookie' = FALSE /\ out' = (q.life = "current") /\ Served(q, "anonymous")
     \/ ~cookie /\ Served(q, "invalid") /\ UNCHANGED <<cookie, out>>
     \/ Served(q, "error") /\ UNCHANGED <<cookie, out>>
  /\ UNCHANGED <<auth, ready, flag, preview, lineVars, account>>

(* Any call of a page, a preview of the unlink among them.                  *)
AnswerWork(q) ==
  /\ q.kind \in {"work", "preview"} /\ q.answer = "none"
  /\ Served(q, IF ~cookie THEN "invalid"
               ELSE IF account # "active" THEN "in_progress" ELSE "done")
  /\ UNCHANGED <<auth, ready, flag, preview, lineVars, serverVars>>

(* POST /api/account/unlink/: it is started or resumed and gets as far as   *)
(* it gets, or is refused.  Done, it ends the session.                      *)
AnswerUnlink(q) ==
  /\ q.kind \in {"unlink", "resume"} /\ q.answer = "none"
  /\ \/ ~cookie /\ Served(q, "invalid") /\ UNCHANGED serverVars
     \/ /\ cookie /\ (q.kind = "unlink") = (account = "active")
        /\ \E stage \in Stages :
             /\ account = "local_deletion_pending" => stage = account
             /\ account' = stage /\ Served(q, stage) /\ UNCHANGED <<cookie, out>>
     \/ /\ cookie /\ (q.kind = "unlink") = (account = "active")
        /\ account' = "active" /\ cookie' = FALSE /\ Served(q, "anonymous")
        /\ UNCHANGED out
     \/ /\ cookie /\ UNCHANGED serverVars
        /\ \E answer \in {"no_proof", "stale", "in_progress", "error"} : Served(q, answer)
  /\ UNCHANGED <<auth, ready, flag, preview, lineVars>>

(* A session ends by time, or is revoked from elsewhere.                    *)
ExpireSession ==
  /\ cookie /\ cookie' = FALSE
  /\ UNCHANGED <<auth, ready, flag, preview, flows, lineVars, account, out>>

(* The connection breaks: the request has had its effect, or it never will, *)
(* or it is still on its way.                                               *)
LoseAnswer(q) ==
  /\ q.step \notin {"init", "permission"} /\ q.life # "gone"
  /\ q.answer \notin {"error", "invalid"}
  /\ \E rest \in SUBSET OnTheirWay({q}) :
       /\ rest # {} => Room
       /\ flows' = (flows \ {q}) \cup {[q EXCEPT !.answer = "error"]} \cup rest
  /\ UNCHANGED <<auth, ready, flag, preview, lineVars, serverVars>>

----------------------------------------------------------------------------
(* authenticate *)

(* The page is loaded: by the owner, or coming back from LINE.              *)
Load ==
  /\ Cardinality(OnTheirWay(flows)) < MaxFlows
  /\ auth' = "initializing" /\ ready' = FALSE /\ preview' = FALSE
  /\ flows' = OnTheirWay(flows) \cup {Begun("authenticate", "init")}

Reload ==
  /\ auth # "away" /\ Load
  /\ UNCHANGED <<flag, lineVars, serverVars>>

(* The owner has logged in at LINE, or has gone back without doing so.      *)
Return ==
  /\ auth = "away" /\ Load
  /\ \/ liff' = TRUE /\ fresh' = TRUE
     \/ UNCHANGED <<liff, fresh>>
  /\ UNCHANGED <<client, flag, serverVars>>

(* The button of an error that may be tried again.                          *)
Authenticate ==
  /\ auth = "error" /\ Room
  /\ ready' = FALSE
  /\ Shows("initializing", Superseded(flows) \cup {Begun("authenticate", "init")})
  /\ UNCHANGED <<flag, lineVars, serverVars>>

(* The end of a flow in an error, if it is current; what a stale flow hears *)
(* it ignores.                                                              *)
FlowFails(q) ==
  /\ q.kind \in GateFlows /\ q.life # "gone"
  /\ q.step \in {"init", "permission"} \/ q.answer = "error" \/ q.life = "stale"
  /\ q.answer = "none" => q.step = "init"
  /\ q.answer # "invalid"
  /\ IF q.life = "current" THEN Shows("error", flows \ {q})
     ELSE flows' = flows \ {q} /\ UNCHANGED <<auth, preview>>
  /\ UNCHANGED <<ready, flag, lineVars, serverVars>>

Initialized(q) ==
  /\ q.step = "init" /\ q.life = "current"
  /\ flows' = (flows \ {q}) \cup {[q EXCEPT !.step = "session"]}
  /\ UNCHANGED <<auth, ready, flag, preview, lineVars, serverVars>>

(* Mutant: the request for a login is not looked at any more.               *)
Received_Unasked(q, session) ==
  /\ flag' = FALSE
  /\ ready' = (ready \/ (session = "deauthorization_pending" /\ liff))
  /\ Shows(session, flows \ {q})
  /\ UNCHANGED <<lineVars, serverVars>>

(* The session is shown; a login at LINE that was asked for is noticed once.*)
Received(q, session) ==
  /\ flag' = FALSE
  /\ ready' = (ready \/ (session = "deauthorization_pending" /\ flag /\ liff))
  /\ Shows(session, flows \ {q})
  /\ UNCHANGED <<lineVars, serverVars>>

TakeSession(q) ==
  /\ q.kind = "authenticate" /\ q.step = "session" /\ q.life = "current"
  /\ q.answer \in Sessions
  /\ IF liff
     THEN /\ flows' = (flows \ {q}) \cup {[q EXCEPT !.step = "permission"]}
          /\ UNCHANGED <<auth, ready, flag, preview, lineVars, serverVars>>
     ELSE IF q.answer # "anonymous" THEN Received(q, q.answer)
     ELSE /\ Shows("login_required", flows \ {q})
          /\ UNCHANGED <<ready, flag, lineVars, serverVars>>

(* ensureProfilePermission; without a session the id token is then sent.    *)
Permitted(q) ==
  /\ q.step = "permission" /\ q.life = "current"
  /\ IF q.answer # "anonymous" THEN Received(q, q.answer)
     ELSE /\ Shows("verifying",
                   (flows \ {q}) \cup {[q EXCEPT !.step = "login", !.answer = "none"]})
          /\ UNCHANGED <<ready, flag, lineVars, serverVars>>

(* Mutant: an answer counts whichever flow it belongs to.                   *)
TakeStatusAnswer_Stale(q) ==
  /\ q.kind = "refresh" \/ q.step = "login"
  /\ q.life # "gone" /\ q.answer \in Sessions
  /\ Shows(q.answer, flows \ {q})
  /\ UNCHANGED <<ready, flag, lineVars, serverVars>>

(* The answer to a login, or to refreshSession.                             *)
TakeStatusAnswer(q) ==
  /\ q.kind = "refresh" \/ q.step = "login"
  /\ q.life = "current" /\ q.answer \in Sessions
  /\ Shows(q.answer, flows \ {q})
  /\ UNCHANGED <<ready, flag, lineVars, serverVars>>

----------------------------------------------------------------------------
(* What the gate offers its pages *)

(* onSessionInvalid: for a call of the gate's own, whichever it is, there   *)
(* is nobody to be shown; a call of a page has the session looked into.     *)
TakeInvalid(q) ==
  /\ q.answer = "invalid" /\ q.life # "gone"
  /\ IF q.kind \in GateFlows THEN Shows("login_required", Superseded(flows \ {q}))
     ELSE /\ flows' = Superseded(flows \ {q}) \cup {Begun("refresh", "session")}
          /\ UNCHANGED <<auth, preview>>
  /\ UNCHANGED <<ready, flag, lineVars, serverVars>>

(* The SDK leaves for LINE; in LINE's own browser there is nowhere to go.   *)
StartLogin ==
  /\ auth \in {"login_required", "anonymous"}
  /\ IF client THEN Shows("error", Superseded(flows))
     ELSE Shows("away", OnTheirWay(flows))
  /\ UNCHANGED <<ready, flag, lineVars, serverVars>>

Logout ==
  /\ auth = "authenticated" /\ Room
  /\ Shows("verifying", Superseded(flows) \cup {Begun("logout", "sent")})
  /\ UNCHANGED <<ready, flag, lineVars, serverVars>>

(* finishOwnerSession: LINE's login ends as well, if the SDK can.           *)
TakeLogout(q) ==
  /\ q.kind = "logout" /\ q.life = "current" /\ q.answer = "anonymous"
  /\ \/ liff' = client /\ Shows("anonymous", flows \ {q})
     \/ UNCHANGED liff /\ Shows("final_error", flows \ {q})
  /\ flag' = FALSE /\ ready' = FALSE
  /\ UNCHANGED <<client, fresh, serverVars>>

(* onSessionReceived *)
Adopt(q, session) ==
  /\ ready' = FALSE
  /\ flag' = (flag /\ session # "anonymous")
  /\ Shows(session, Superseded(flows \ {q}))
  /\ UNCHANGED <<lineVars, serverVars>>

(* adapter.reauthenticate: LINE's login is ended before it is asked for     *)
(* again, either of which may fail; in LINE's own browser the page is       *)
(* loaded anew.                                                             *)
Departs ==
  IF client THEN Load /\ UNCHANGED liff
  ELSE \/ liff' = FALSE /\ Shows("away", OnTheirWay(flows))
       \/ liff' \in {liff, FALSE} /\ Shows("error", Superseded(flows))

Reauthenticate ==
  /\ Departs
  /\ ready' = (ready /\ auth' = "error")
  /\ UNCHANGED <<client, fresh, flag, serverVars>>

ReauthenticateForUnlink ==
  /\ Departs
  /\ ready' = FALSE /\ flag' = (auth' # "error") /\ fresh' = FALSE
  /\ UNCHANGED <<client, serverVars>>

(* refreshSession, asked for by the account page.                           *)
RefreshFor(q) ==
  /\ flows' = Superseded(flows \ {q}) \cup {Begun("refresh", "session")}
  /\ UNCHANGED <<auth, ready, flag, preview, lineVars, serverVars>>

----------------------------------------------------------------------------
(* The pages *)

Calls(kind) ==
  /\ Room /\ flows' = flows \cup {Begun(kind, "sent")}
  /\ UNCHANGED <<auth, ready, flag, preview, lineVars, serverVars>>

(* operation # null *)
Occupied == \E q \in flows : q.kind \in {"preview", "unlink"} /\ q.life = "current"

Work == auth = "authenticated" /\ Calls("work")
PreviewUnlink == auth = "authenticated" /\ ~Occupied /\ Calls("preview")

(* executeInitialUnlink *)
Unlink ==
  /\ auth = "authenticated" /\ preview /\ ~Occupied
  /\ IF liff THEN Calls("unlink") ELSE Reauthenticate

(* resume, on the panel that is shown while the account is being unlinked.  *)
Resume ==
  /\ auth \in Stages
  /\ ~\E q \in flows : q.kind = "resume" /\ q.life # "gone"
  /\ IF auth = "deauthorization_pending" /\ ~(ready /\ liff)
     THEN ReauthenticateForUnlink ELSE Calls("resume")

(* The owner goes to another page, or another call of a page has ended.     *)
LeavePage ==
  /\ auth = "authenticated"
  /\ preview' = FALSE /\ flows' = Abandoned(flows)
  /\ UNCHANGED <<auth, ready, flag, lineVars, serverVars>>

(* What a page makes of its answer concerns the gate only here: the initial *)
(* unlink while its page is still there, a resumed one in any case.         *)
TakeUnlink(q) ==
  /\ \/ q.kind = "unlink" /\ q.life = "current"
     \/ q.kind = "resume" /\ q.life # "gone"
  /\ \/ q.answer \in Sessions /\ Adopt(q, q.answer)
     \/ q.answer = "no_proof" /\ q.kind = "unlink" /\ Reauthenticate
     \/ q.answer = "no_proof" /\ q.kind = "resume" /\ ReauthenticateForUnlink
     \/ q.answer = "in_progress" /\ RefreshFor(q)

TakePageAnswer(q) ==
  /\ q.kind \notin GateFlows /\ q.life # "gone" /\ q.answer \notin {"none", "invalid"}
  /\ \/ q.kind \in {"work", "preview"}
     \/ q.kind = "unlink" /\ q.life = "stale"
     \/ q.answer \in {"stale", "error"}
  /\ flows' = flows \ {q}
  /\ preview' = IF q.life = "stale" \/ q.kind \in {"work", "resume"} THEN preview
                ELSE IF q.kind = "preview" THEN preview \/ q.answer = "done"
                ELSE preview /\ q.answer # "stale"
  /\ UNCHANGED <<auth, ready, flag, lineVars, serverVars>>

----------------------------------------------------------------------------
OwnerSessionNext ==
  \/ Reload \/ Return \/ Authenticate \/ StartLogin \/ Logout \/ ExpireSession
  \/ Work \/ PreviewUnlink \/ Unlink \/ Resume \/ LeavePage
  \/ \E q \in flows :
       \/ AnswerSession(q) \/ AnswerLogin(q) \/ AnswerLogout(q) \/ AnswerWork(q)
       \/ AnswerUnlink(q) \/ LoseAnswer(q)
       \/ FlowFails(q) \/ Initialized(q) \/ TakeSession(q) \/ Permitted(q)
       \/ TakeStatusAnswer(q) \/ TakeInvalid(q) \/ TakeLogout(q)
       \/ TakeUnlink(q) \/ TakePageAnswer(q)

OwnerSessionSpec == OwnerSessionInit /\ [][OwnerSessionNext]_ownerSessionVars

----------------------------------------------------------------------------
(* Properties *)

(* The account is unlinked with a token of a login at LINE that is younger  *)
(* than the request for it, however often the owner leaves, comes back      *)
(* without having logged in, or loads the page again in between             *)
(* (AuthGate.tsx, authenticate; liffClient.ts, reauthenticate).  In LINE's  *)
(* own browser there is no such login.                                      *)
ReadyIsFresh == ready /\ liff /\ ~client => fresh

(* Once the server has ended a session on request and the page knows, no    *)
(* late answer of a refresh or of a login brings the owner's pages back     *)
(* (AuthGate.tsx, generation).                                              *)
LogoutIsSeen ==
  out /\ (\A q \in flows : q.kind = "logout" => q.life = "gone") => auth # "authenticated"
=============================================================================
