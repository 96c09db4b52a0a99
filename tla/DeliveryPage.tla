---------------------------- MODULE DeliveryPage ----------------------------
(***************************************************************************)
(* The page on which the owner writes, confirms and sends a message         *)
(* (frontend, deliveryState.ts and DeliveryForm.tsx), with the server it    *)
(* calls.  Answers may be late, lost or refused; the page may be left,      *)
(* reloaded or lose its session at any time, and keeps the id of the        *)
(* operation it sent in the browser's session storage.                      *)
(*                                                                         *)
(* What the form holds (channel, recipient, text, receipt wanted or not) is *)
(* one model value, and a confirmation token is the content it was issued   *)
(* for.  All drafts are for one target: previewMatchesInput, which compares *)
(* targets, holds of any two of them.                                       *)
(***************************************************************************)
EXTENDS Naturals, FiniteSets

CONSTANTS
  Drafts,    \* what may be written in the form
  Sends,     \* operation ids that the browser makes up
  Nothing,   \* an empty form, no operation
  MaxAsked   \* bound on the previews asked for in a life of the page

ASSUME DeliveryPageAssumption ==
  Nothing \notin Drafts \cup Sends /\ MaxAsked \in Nat \ {0}

VARIABLES
  form,    \* LinkedDeliveryUIState
  asked,   \* previewRequestSequence
  stored,  \* the operation id in sessionStorage
  calls,   \* calls of the page that it still waits for, and sends on their way
  attempt, \* the attempts the server has, by operation id
  used,    \* operation ids used so far
  told     \* operations the owner was told the outcome of, or gave up

deliveryPageVars == <<form, asked, stored, calls, attempt, used, told>>

----------------------------------------------------------------------------
(* Types *)

Terminals == {"succeeded", "failed", "unknown"}
Results == {"processing"} \cup Terminals

Form == [phase : {"closed", "editing", "previewing", "preview", "submitting",
                  "checking", "uncertain", "rejected"} \cup Results,
         input : Drafts \cup {Nothing}, request : 0..MaxAsked,
         preview : Drafts \cup {Nothing}, op : Sends \cup {Nothing},
         result : Results \cup {"none"}]

(* initialLinkedDeliveryState *)
Blank == [phase |-> "editing", input |-> Nothing, request |-> 0,
          preview |-> Nothing, op |-> Nothing, result |-> "none"]
Closed == [Blank EXCEPT !.phase = "closed"]

(* What a call asks for, and what came back: "sent" is none yet.            *)
Answers == {"sent", "preview", "refused", "expired", "missing", "network"} \cup Results
Call == [kind : {"preview", "send", "recheck", "status", "hydrate"}, request : 0..MaxAsked,
         draft : Drafts \cup {Nothing}, token : Drafts \cup {Nothing},
         op : Sends \cup {Nothing}, heard : BOOLEAN, answer : Answers]

DeliveryPageTypeOK ==
  /\ form \in Form
  /\ asked \in 0..MaxAsked
  /\ stored \in Sends \cup {Nothing}
  /\ calls \subseteq Call
  /\ attempt \in [Sends -> Results \cup {"none"}]
  /\ used \subseteq Sends
  /\ told \subseteq Sends

DeliveryPageInit ==
  /\ form = Closed
  /\ asked = 0
  /\ stored = Nothing
  /\ calls = {}
  /\ attempt = [o \in Sends |-> "none"]
  /\ used = {}
  /\ told = {}

----------------------------------------------------------------------------
(* Calls *)

Request(kind, o) ==
  [kind |-> kind, request |-> 0, draft |-> Nothing, token |-> Nothing,
   op |-> o, heard |-> TRUE, answer |-> "sent"]

(* A page that is gone hears no answer; a send that left it still arrives.  *)
Orphaned ==
  {[q EXCEPT !.heard = FALSE] : q \in {q \in calls : q.kind = "send" /\ q.answer = "sent"}}

Answered(q, answer) ==
  calls' = (calls \ {q}) \cup (IF q.heard THEN {[q EXCEPT !.answer = answer]} ELSE {})

----------------------------------------------------------------------------
(* The server, as far as the page can tell *)

AnswerPreview(q) ==
  /\ q.kind = "preview" /\ q.answer = "sent"
  /\ \E answer \in {"preview", "refused", "expired"} : Answered(q, answer)
  /\ UNCHANGED <<form, asked, stored, attempt, used, told>>

(* A send is refused, or recorded once if its token is that of its content. *)
Arrive(q) ==
  /\ q.kind = "send" /\ q.answer = "sent"
  /\ attempt[q.op] = "none" /\ q.token = q.draft
  /\ attempt' = [attempt EXCEPT ![q.op] = "processing"]
  /\ UNCHANGED <<form, asked, stored, calls, used, told>>

ConcludeAttempt(o) ==
  /\ attempt[o] = "processing"
  /\ \E result \in Terminals : attempt' = [attempt EXCEPT ![o] = result]
  /\ UNCHANGED <<form, asked, stored, calls, used, told>>

(* The answer to a send or a status check is the attempt as it is then.  An *)
(* error may be answered whether or not there is one: 503 after a push      *)
(* whose result could not be stored.                                        *)
AnswerStatus(q) ==
  /\ q.kind # "preview" /\ q.answer = "sent"
  /\ \/ attempt[q.op] # "none" /\ Answered(q, attempt[q.op])
     \/ attempt[q.op] = "none" /\ q.kind # "send" /\ Answered(q, "missing")
     \/ \E answer \in {"refused", "expired"} : Answered(q, answer)
  /\ UNCHANGED <<form, asked, stored, attempt, used, told>>

(* The connection breaks, before the request arrives or after; a send may   *)
(* still be on its way.                                                     *)
Break(q) ==
  /\ q.answer = "sent" /\ q.heard
  /\ \E rest \in SUBSET {[q EXCEPT !.heard = FALSE]} :
       /\ q.kind # "send" => rest = {}
       /\ calls' = (calls \ {q}) \cup {[q EXCEPT !.answer = "network"]} \cup rest
  /\ UNCHANGED <<form, asked, stored, attempt, used, told>>

----------------------------------------------------------------------------
(* The page comes and goes *)

(* With an operation in the storage the page asks for its status first.     *)
Mount ==
  /\ form.phase = "closed"
  /\ asked' = 0
  /\ IF stored = Nothing
     THEN form' = Blank /\ UNCHANGED calls
     ELSE /\ form' = [Blank EXCEPT !.phase = "checking", !.op = stored]
          /\ calls' = calls \cup {Request("hydrate", stored)}
  /\ UNCHANGED <<stored, attempt, used, told>>

(* Another page, a reload, a session that is no longer valid.               *)
Unmount ==
  /\ form.phase # "closed"
  /\ form' = Closed /\ calls' = Orphaned
  /\ UNCHANGED <<asked, stored, attempt, used, told>>

(* clearAll, at the end of an owner's session: he gives up what he sent.    *)
ClearAll ==
  /\ form.phase = "closed" /\ stored # Nothing
  /\ stored' = Nothing /\ told' = used
  /\ UNCHANGED <<form, asked, calls, attempt, used>>

----------------------------------------------------------------------------
(* Writing and confirming *)

Editable == {"editing", "previewing", "preview"}

(* editLinkedInput *)
Edit(d) ==
  /\ form.phase \in Editable /\ d # form.input
  /\ form' = [Blank EXCEPT !.input = d]
  /\ UNCHANGED <<asked, stored, calls, attempt, used, told>>

AskPreview ==
  /\ form.phase = "editing" /\ form.input # Nothing /\ asked < MaxAsked
  /\ asked' = asked + 1
  /\ form' = [form EXCEPT !.phase = "previewing", !.request = asked + 1]
  /\ calls' = calls \cup {[Request("preview", Nothing) EXCEPT
                            !.request = asked + 1, !.draft = form.input]}
  /\ UNCHANGED <<stored, attempt, used, told>>

(* Mutant: the preview on the screen is the one that was answered last.     *)
Awaited_Any(q) == form.phase = "previewing"

(* previewSucceeded, previewRejected: only for the request made last.       *)
Awaited(q) == form.phase = "previewing" /\ form.request = q.request

TakePreview(q) ==
  /\ q.kind = "preview" /\ q.heard /\ q.answer # "sent"
  /\ calls' = calls \ {q}
  /\ form' = IF ~Awaited(q) THEN form
             ELSE IF q.answer = "preview"
             THEN [form EXCEPT !.phase = "preview", !.request = 0, !.preview = q.draft]
             ELSE [form EXCEPT !.phase = "editing", !.request = 0]
  /\ UNCHANGED <<asked, stored, attempt, used, told>>

BackToEditing ==
  /\ form.phase \in {"preview", "rejected"}
  /\ form' = [Blank EXCEPT !.input = form.input]
  /\ UNCHANGED <<asked, stored, calls, attempt, used, told>>

----------------------------------------------------------------------------
(* Sending *)

(* Mutant: the id is stored with the answer, not before the request.        *)
Submit_StoredLater(o) ==
  /\ form.phase = "preview" /\ o \notin used
  /\ form' = [form EXCEPT !.phase = "submitting", !.op = o]
  /\ used' = used \cup {o}
  /\ calls' = calls \cup {[Request("send", o) EXCEPT !.draft = form.input,
                                                  !.token = form.preview]}
  /\ UNCHANGED <<asked, stored, attempt, told>>

(* submit: a fresh id is stored before the request leaves.                  *)
Submit(o) ==
  /\ form.phase = "preview" /\ o \notin used
  /\ stored' = o
  /\ form' = [form EXCEPT !.phase = "submitting", !.op = o]
  /\ used' = used \cup {o}
  /\ calls' = calls \cup {[Request("send", o) EXCEPT !.draft = form.input,
                                                  !.token = form.preview]}
  /\ UNCHANGED <<asked, attempt, told>>

(* linkedResultState *)
Showing(phase) ==
  /\ form' = [form EXCEPT !.phase = phase,
                 !.result = IF phase \in Results THEN phase ELSE "none"]
  /\ told' = IF phase \in Terminals \cup {"rejected"} THEN told \cup {form.op} ELSE told

(* deliveryUpdated: an answer for the operation on the page.                *)
Updated(q) ==
  /\ form.phase \in {"submitting", "checking"} /\ form.op = q.op
  /\ q.answer \in Results
  /\ Showing(q.answer)

(* Mutant: a check without an answer loses what was known before it.        *)
NetworkFailed_Forgets == Showing("uncertain")

(* networkFailed: a check without an answer leaves what was known before.   *)
NetworkFailed ==
  Showing(IF form.result # "none" THEN form.result ELSE "uncertain")

(* api.send asks for the status once when the connection breaks.            *)
SendBroken(q) ==
  /\ q.kind = "send" /\ q.heard /\ q.answer = "network"
  /\ calls' = (calls \ {q}) \cup {Request("recheck", q.op)}
  /\ UNCHANGED <<form, asked, stored, attempt, used, told>>

(* The end of submit: whatever is no status and no broken connection is     *)
(* shown as a refusal.                                                      *)
TakeSend(q) ==
  /\ q.heard /\ q.answer # "sent"
  /\ \/ q.kind = "send" /\ q.answer # "network"
     \/ q.kind = "recheck"
  /\ calls' = calls \ {q}
  /\ \/ Updated(q)
     \/ q.answer \in {"refused", "expired", "missing"} /\ Showing("rejected")
     \/ q.answer = "network" /\ NetworkFailed
  /\ UNCHANGED <<asked, stored, attempt, used>>

----------------------------------------------------------------------------
(* Asking for the status *)

(* A session that has expired (401) is looked into by AuthGate, and the     *)
(* page waits to be unmounted.                                              *)

Check ==
  /\ form.phase \in {"processing", "unknown", "succeeded", "uncertain"}
  /\ form' = [form EXCEPT !.phase = "checking"]
  /\ calls' = calls \cup {Request("status", form.op)}
  /\ UNCHANGED <<asked, stored, attempt, used, told>>

TakeStatus(q) ==
  /\ q.kind = "status" /\ q.heard /\ q.answer # "sent"
  /\ calls' = calls \ {q}
  /\ \/ Updated(q)
     \/ q.answer = "missing" /\ Showing("uncertain")
     \/ q.answer \in {"refused", "network"} /\ NetworkFailed
     \/ q.answer = "expired" /\ UNCHANGED <<form, told>>
  /\ UNCHANGED <<asked, stored, attempt, used>>

(* The status asked for by Mount; an operation the server does not know is  *)
(* forgotten, and the owner told so.                                        *)
TakeHydrated(q) ==
  /\ q.kind = "hydrate" /\ q.heard /\ q.answer # "sent"
  /\ calls' = calls \ {q}
  /\ \/ Updated(q) /\ UNCHANGED stored
     \/ /\ q.answer = "missing"
        /\ stored' = Nothing /\ form' = Blank /\ told' = told \cup {q.op}
     \/ q.answer \in {"refused", "network"} /\ NetworkFailed /\ UNCHANGED stored
     \/ q.answer = "expired" /\ UNCHANGED <<form, told, stored>>
  /\ UNCHANGED <<asked, attempt, used>>

NewDelivery ==
  /\ form.phase \in {"succeeded", "failed", "rejected"}
  /\ stored' = Nothing /\ form' = Blank
  /\ UNCHANGED <<asked, calls, attempt, used, told>>

----------------------------------------------------------------------------
DeliveryPageNext ==
  \/ Mount \/ Unmount \/ ClearAll
  \/ AskPreview \/ BackToEditing \/ Check \/ NewDelivery
  \/ \E d \in Drafts : Edit(d)
  \/ \E o \in Sends : Submit(o) \/ ConcludeAttempt(o)
  \/ \E q \in calls :
       \/ AnswerPreview(q) \/ Arrive(q) \/ AnswerStatus(q) \/ Break(q)
       \/ TakePreview(q) \/ SendBroken(q) \/ TakeSend(q) \/ TakeStatus(q)
       \/ TakeHydrated(q)

DeliveryPageSpec == DeliveryPageInit /\ [][DeliveryPageNext]_deliveryPageVars

----------------------------------------------------------------------------
(* Properties *)

(* What the owner confirms and sends is what the preview on the screen      *)
(* shows, although previews are answered out of order and the form may be   *)
(* changed while they are under way (deliveryState.ts, previewSucceeded).   *)
SentAsShown ==
  /\ form.phase \in {"preview", "submitting"} => form.preview = form.input
  /\ \A q \in calls : q.kind = "send" => q.token = q.draft

(* An outcome on the page is the outcome of the attempt, for good, however  *)
(* the send, its checks and the reloads of the page interleave; and a       *)
(* result is never replaced by doubt (deliveryState.ts, linkedResultState). *)
OutcomeShown ==
  /\ [](form.result \in Terminals => attempt[form.op] = form.result)
  /\ [][form.result # "none" /\ form'.op = form.op
          => form'.result # "none"]_deliveryPageVars

(* In one owner's session nothing is sent while the outcome of what was     *)
(* sent before has not been told to him, be the page left or reloaded in    *)
(* between (DeliveryForm.tsx, submit and the effect on storedOperationId).  *)
SendsKnowingly ==
  form.phase \in {"preview", "previewing", "editing"} => used \subseteq told
=============================================================================
