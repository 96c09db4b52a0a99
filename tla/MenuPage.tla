------------------------------ MODULE MenuPage ------------------------------
(***************************************************************************)
(* The page of one channel's rich menu (frontend, useRichMenuAdmin.ts and   *)
(* richMenuAdminState.ts) with the server it calls.  The page reads the     *)
(* channel and its menu, has a draft previewed, starts operations and       *)
(* follows them, and stops, resumes or deletes the channel; it may be left  *)
(* at any time, and answers may be late, lost or refused.                   *)
(*                                                                         *)
(* A call whose generation has passed is dropped at once: its answer is     *)
(* void.  Drafts, templates, images and history are left out; a menu is     *)
(* what its operations have concluded, and a channel whose deactivation is  *)
(* pending one that has an unsettled operation.                             *)
(***************************************************************************)
EXTENDS Naturals, FiniteSets

CONSTANTS
  Operations,    \* operation ids that the browser makes up
  NoOperation,
  MaxRevision,   \* bound on the revisions of the channel
  MaxWaits       \* bound on what the browser waits for at one time

ASSUME MenuPageAssumption ==
  NoOperation \notin Operations /\ {MaxRevision, MaxWaits} \subseteq Nat \ {0}

VARIABLES
  menu,      \* RichMenuAdminState
  waits,     \* calls the page waits for, and those on their way without it
  channel,   \* the channel as the server has it
  operation, \* the operations the server has
  started    \* operations started in this life of the page

menuPageVars == <<menu, waits, channel, operation, started>>

----------------------------------------------------------------------------
(* Types *)

OperationStatus == {"none", "processing", "settled", "unsettled"}
Concluded == {"settled", "unsettled"}
Nowhere == [o \in Operations |-> "none"]

MenuState ==
  [current : {"closed", "loading", "ready", "failed", "refresh_required"},
   seen : [Operations -> OperationStatus],
   revision : 0..MaxRevision, active : BOOLEAN,
   operation : {"idle", "submitting", "tracking", "transport_unknown"} \cup Concluded,
   id : Operations \cup {NoOperation},
   editor : {"viewing", "editing", "previewing", "confirming", "preview_invalid"},
   previewed : 0..MaxRevision]

(* initialRichMenuAdminState *)
InitialMenu ==
  [current |-> "closed", seen |-> Nowhere, revision |-> 0, active |-> FALSE,
   operation |-> "idle", id |-> NoOperation, editor |-> "viewing", previewed |-> 0]

(* "holds": the latch of mutations is open only when this call is over.     *)
Wait ==
  [kind : {"channel", "current", "preview", "start", "track", "change"},
   heard : BOOLEAN, holds : BOOLEAN,
   id : Operations \cup {NoOperation}, revision : 0..MaxRevision,
   answer : {"none", "done", "changed", "failed"} \cup Concluded \cup {"processing"},
   active : BOOLEAN, seen : [Operations -> OperationStatus]]

MenuPageTypeOK ==
  /\ menu \in MenuState
  /\ waits \subseteq Wait
  /\ channel \in [revision : 1..MaxRevision, active : BOOLEAN]
  /\ operation \in [Operations -> OperationStatus]
  /\ started \subseteq Operations

MenuPageInit ==
  /\ menu = InitialMenu
  /\ waits = {}
  /\ channel = [revision |-> 1, active |-> TRUE]
  /\ operation = Nowhere
  /\ started = {}

----------------------------------------------------------------------------
(* Calls *)

Asks(kind, o, revision, holds) ==
  [kind |-> kind, heard |-> TRUE, holds |-> holds, id |-> o, revision |-> revision,
   answer |-> "none", active |-> FALSE, seen |-> Nowhere]

MenuRoom == Cardinality(waits) < MaxWaits

(* ++editorGeneration *)
Reedited(ws) == {q \in ws : q.kind # "preview"}

(* A new read aborts the one before it, a new status check likewise.        *)
Reads == {"channel", "current"}
Unread(ws) == {q \in ws : q.kind \notin Reads}
Untracked(ws) == {q \in ws : q.kind # "track"}

(* What the server still gets when nobody waits for the answer any more.    *)
Underway(ws) ==
  {[q EXCEPT !.heard = FALSE] :
     q \in {w \in ws : /\ w.kind \in {"start", "change"} /\ w.answer = "none"
                       /\ w.kind = "start" => operation[w.id] = "none"}}

(* mutationLatch *)
Latched == \E q \in waits : q.holds /\ q.heard

Replied(q, reply) == waits' = (waits \ {q}) \cup (IF q.heard THEN {reply} ELSE {})

----------------------------------------------------------------------------
(* The server, as far as the page can tell *)

(* GET of the channel, then of its menu at that channel's revision.         *)
AnswerRead(q) ==
  /\ q.kind \in Reads /\ q.answer = "none"
  /\ \/ /\ q.kind = "channel"
        /\ Replied(q, [q EXCEPT !.answer = "done", !.revision = channel.revision,
                                !.active = channel.active])
     \/ /\ q.kind = "current" /\ q.revision = channel.revision
        /\ Replied(q, [q EXCEPT !.answer = "done", !.seen = operation])
     \/ /\ q.kind = "current" /\ q.revision # channel.revision
        /\ Replied(q, [q EXCEPT !.answer = "changed"])
  /\ UNCHANGED <<menu, channel, operation, started>>

AnswerMenuPreview(q) ==
  /\ q.kind = "preview" /\ q.answer = "none"
  /\ Replied(q, [q EXCEPT !.answer =
                   IF q.revision = channel.revision THEN "done" ELSE "changed"])
  /\ UNCHANGED <<menu, channel, operation, started>>

(* An operation is accepted for the channel as it was shown.                *)
Accept(q) ==
  /\ q.kind = "start" /\ q.answer = "none" /\ operation[q.id] = "none"
  /\ q.revision = channel.revision /\ channel.active
  /\ operation' = [operation EXCEPT ![q.id] = "processing"]
  /\ waits' = IF q.heard THEN waits ELSE waits \ {q}
  /\ UNCHANGED <<menu, channel, started>>

(* It comes to its end, now or after a recovery.                            *)
Settle(o) ==
  /\ operation[o] \in {"processing", "unsettled"}
  /\ \E status \in Concluded \ {operation[o]} :
       operation' = [operation EXCEPT ![o] = status]
  /\ UNCHANGED <<menu, waits, channel, started>>

(* The operation as it is; an error if there is none, or it is refused.     *)
AnswerOperation(q) ==
  /\ q.kind \in {"start", "track"} /\ q.answer = "none"
  /\ Replied(q, [q EXCEPT !.answer =
                   IF operation[q.id] = "none" THEN "failed" ELSE operation[q.id]])
  /\ UNCHANGED <<menu, channel, operation, started>>

(* The channel is stopped, resumed or otherwise changed: by this page, or   *)
(* by another one.                                                          *)
Changed ==
  /\ channel.revision < MaxRevision
  /\ \E active \in BOOLEAN :
       channel' = [revision |-> channel.revision + 1, active |-> active]
  /\ UNCHANGED operation

ChangeChannel(q) ==
  /\ q.kind = "change" /\ q.answer = "none"
  /\ q.revision = channel.revision /\ Changed
  /\ Replied(q, [q EXCEPT !.answer = "done"])
  /\ UNCHANGED <<menu, started>>

ChangeElsewhere == Changed /\ UNCHANGED <<menu, waits, started>>

(* An error, or a connection that breaks before or after the effect.        *)
FailCall(q) ==
  /\ q.heard /\ q.answer # "failed"
  /\ \E rest \in SUBSET Underway({q}) :
       /\ rest # {} => MenuRoom
       /\ waits' = (waits \ {q}) \cup {[q EXCEPT !.answer = "failed"]} \cup rest
  /\ UNCHANGED <<menu, channel, operation, started>>

----------------------------------------------------------------------------
(* Reading *)

Invalidated(m) ==
  [m EXCEPT !.editor = IF @ = "viewing" THEN @ ELSE "preview_invalid", !.previewed = 0]

(* current is anything but ready: what was read is no longer shown.         *)
Unshown(m, current) == [m EXCEPT !.current = current, !.seen = Nowhere]

(* load: the channel first, unless it has just been chosen.                 *)
Loads(m, ws, kind, holds) ==
  /\ menu' = Unshown(Invalidated(m), "loading")
  /\ waits' = Reedited(Unread(ws)) \cup {Asks(kind, NoOperation, m.revision, holds)}

OpenMenu ==
  /\ menu.current = "closed" /\ MenuRoom
  /\ Loads([InitialMenu EXCEPT !.revision = channel.revision, !.active = channel.active],
           waits, "current", FALSE)
  /\ started' = {}
  /\ UNCHANGED <<channel, operation>>

(* clear: the page is left, or its session or its channel is gone.          *)
ClearMenu ==
  /\ menu.current # "closed"
  /\ menu' = InitialMenu /\ waits' = Underway(waits)
  /\ UNCHANGED <<channel, operation, started>>

Refresh ==
  /\ menu.current # "closed" /\ ~Latched /\ MenuRoom
  /\ Loads(menu, waits, "channel", FALSE)
  /\ UNCHANGED <<channel, operation, started>>

RefreshRequired(m) == Unshown(Invalidated(m), "refresh_required")

(* channelUpdated *)
TakeChannel(q) ==
  /\ q.kind = "channel" /\ q.heard /\ q.answer = "done"
  /\ menu' = LET m == [menu EXCEPT !.revision = q.revision, !.active = q.active]
             IN Unshown(IF q.active = menu.active THEN Invalidated(m)
                        ELSE [m EXCEPT !.editor = "viewing", !.previewed = 0], "loading")
  /\ waits' = Reedited(waits \ {q}) \cup {Asks("current", NoOperation, q.revision, q.holds)}
  /\ UNCHANGED <<channel, operation, started>>

(* currentSucceeded, currentFailed: only the read that is being waited for. *)
TakeCurrent(q) ==
  /\ q.kind \in Reads /\ q.heard
  /\ q.answer # "none" /\ (q.kind = "channel" => q.answer = "failed")
  /\ waits' = IF q.answer = "changed" THEN Reedited(waits \ {q}) ELSE waits \ {q}
  /\ menu' = IF q.answer = "changed" THEN RefreshRequired(menu)
             ELSE IF menu.current # "loading" THEN menu
             ELSE IF q.answer = "failed" THEN [menu EXCEPT !.current = "failed"]
             ELSE [menu EXCEPT !.current = "ready", !.seen = q.seen,
                               !.editor = IF menu.active THEN @ ELSE "viewing"]
  /\ UNCHANGED <<channel, operation, started>>

----------------------------------------------------------------------------
(* Editing *)

Unoccupied == menu.operation \notin {"submitting", "tracking", "transport_unknown"}

(* allowedRichMenuActions: any, and those of a channel that is in order.    *)
Allowed == menu.active /\ menu.current = "ready" /\ Unoccupied

InOrder ==
  /\ menu.operation # "unsettled"
  /\ \A o \in Operations : menu.seen[o] \notin {"processing", "unsettled"}

(* beginEdit and its like, draftChanged, backToEdit; cancelEdit             *)
EditMenu ==
  /\ menu.current # "closed"
  /\ \E editor \in {"editing", "viewing"} :
       /\ editor = "editing" /\ menu.editor = "viewing" => Allowed /\ InOrder /\ ~Latched
       /\ menu' = [menu EXCEPT !.editor = editor, !.previewed = 0]
  /\ waits' = Reedited(waits)
  /\ UNCHANGED <<channel, operation, started>>

(* A preview that has become invalid is asked for once more when all has    *)
(* been read again (Refresh), which the code does by itself.                *)
PreviewMenu ==
  /\ MenuRoom /\ ~Latched /\ Allowed /\ InOrder
  /\ menu.editor \in {"editing", "preview_invalid"}
  /\ menu' = [menu EXCEPT !.editor = "previewing"]
  /\ waits' = waits \cup {Asks("preview", NoOperation, menu.revision, FALSE)}
  /\ UNCHANGED <<channel, operation, started>>

(* previewSucceeded, previewFailed, for the draft that is still there.      *)
TakeMenuPreview(q) ==
  /\ q.kind = "preview" /\ q.heard /\ q.answer # "none"
  /\ IF q.answer = "changed"
     THEN menu' = RefreshRequired(menu) /\ waits' = Reedited(waits \ {q})
     ELSE /\ menu' = IF q.answer = "failed" THEN [menu EXCEPT !.editor = "editing"]
                     ELSE IF q.revision # menu.revision THEN Invalidated(menu)
                     ELSE [menu EXCEPT !.editor = "confirming", !.previewed = q.revision]
          /\ waits' = waits \ {q}
  /\ UNCHANGED <<channel, operation, started>>

ExpirePreview ==
  /\ menu.editor = "confirming"
  /\ menu' = Invalidated(menu) /\ waits' = Reedited(waits)
  /\ UNCHANGED <<channel, operation, started>>

----------------------------------------------------------------------------
(* Operations *)

(* Mutant: an operation nothing was heard of does not bar the next one.     *)
CanStart_Unheard(kind) ==
  /\ menu.active /\ menu.current = "ready"
  /\ menu.operation \notin {"submitting", "tracking"}

(* canStartOperation: an apply as confirmed, the end of what is there, or a *)
(* recovery of what it refers to.                                           *)
CanStart(kind) ==
  /\ Allowed
  /\ kind = "apply" => menu.editor = "confirming" /\ menu.previewed = menu.revision
  /\ \/ InOrder
     \/ kind = "recover" /\ \E o \in Operations : menu.seen[o] \in {"processing", "unsettled"}

(* mutate *)
StartOperation(o) ==
  /\ MenuRoom /\ ~Latched
  /\ \E kind \in {"apply", "unlink", "recover"} : CanStart(kind)
  /\ operation[o] = "none" /\ \A q \in waits : q.id # o
  /\ menu' = [Unshown(menu, "refresh_required") EXCEPT
                !.operation = "submitting", !.id = o, !.editor = "viewing", !.previewed = 0]
  /\ waits' = Reedited(waits) \cup {Asks("start", o, menu.revision, TRUE)}
  /\ started' = started \cup {o}
  /\ UNCHANGED <<channel, operation>>

(* trackingResumed, and the status asked for.                               *)
Tracks(m, o, ws, holds) ==
  /\ menu' = [m EXCEPT !.operation = "tracking", !.id = o]
  /\ waits' = Untracked(ws) \cup {Asks("track", o, 0, holds)}

(* Mutant: the menu is not read again when an operation has come to its end.*)
OperationReceived_NotRead(q) ==
  IF q.answer = "processing"
  THEN menu' = [Unshown(menu, "refresh_required") EXCEPT !.operation = "tracking"]
       /\ waits' = waits \ {q}
  ELSE menu' = [menu EXCEPT !.operation = q.answer] /\ waits' = waits \ {q}

(* operationReceived: when it has come to its end, all is read again.       *)
OperationReceived(q) ==
  IF q.answer = "processing"
  THEN menu' = [Unshown(menu, "refresh_required") EXCEPT !.operation = "tracking"]
       /\ waits' = waits \ {q}
  ELSE Loads([menu EXCEPT !.operation = q.answer], waits \ {q}, "channel", q.holds)

(* A start that did not settle is followed; whatever error it met, nothing  *)
(* is known of it.                                                          *)
TakeStart(q) ==
  /\ q.kind = "start" /\ q.heard /\ q.answer # "none"
  /\ menu.operation = "submitting" /\ menu.id = q.id
  /\ IF q.answer \in Concluded THEN OperationReceived(q)
     ELSE Tracks(IF q.answer = "failed" THEN menu
                 ELSE Unshown(menu, "refresh_required"), q.id, waits \ {q}, TRUE)
  /\ UNCHANGED <<channel, operation, started>>

TakeTrack(q) ==
  /\ q.kind = "track" /\ q.heard /\ q.answer # "none"
  /\ IF q.answer = "failed"
     THEN menu' = [menu EXCEPT !.operation = "transport_unknown"] /\ waits' = waits \ {q}
     ELSE OperationReceived(q)
  /\ UNCHANGED <<channel, operation, started>>

(* By the owner, or for an operation that the menu read first refers to.    *)
TrackOperation(o) ==
  /\ \/ menu.operation \notin {"idle", "submitting"} /\ menu.id = o
     \/ /\ menu.operation = "idle" /\ menu.current = "ready"
        /\ menu.seen[o] \in {"processing", "unsettled"}
  /\ MenuRoom /\ Tracks(menu, o, waits, FALSE)
  /\ UNCHANGED <<channel, operation, started>>

----------------------------------------------------------------------------
(* Stopping, resuming and deleting the channel *)

LifecycleChange ==
  /\ MenuRoom /\ ~Latched /\ menu.current = "ready" /\ Unoccupied
  /\ menu' = [RefreshRequired(menu) EXCEPT !.editor = "viewing"]
  /\ waits' = Reedited(waits) \cup {Asks("change", NoOperation, menu.revision, TRUE)}
  /\ UNCHANGED <<channel, operation, started>>

(* What was changed is read again; after an error the owner has to ask.     *)
TakeChange(q) ==
  /\ q.kind = "change" /\ q.heard /\ q.answer # "none"
  /\ IF q.answer = "done" THEN Loads(menu, waits \ {q}, "channel", TRUE)
     ELSE menu' = menu /\ waits' = waits \ {q}
  /\ UNCHANGED <<channel, operation, started>>

----------------------------------------------------------------------------
MenuPageNext ==
  \/ OpenMenu \/ ClearMenu \/ Refresh \/ EditMenu \/ PreviewMenu \/ ExpirePreview
  \/ LifecycleChange \/ ChangeElsewhere
  \/ \E o \in Operations : StartOperation(o) \/ TrackOperation(o) \/ Settle(o)
  \/ \E q \in waits :
       \/ AnswerRead(q) \/ AnswerMenuPreview(q) \/ Accept(q) \/ AnswerOperation(q)
       \/ ChangeChannel(q) \/ FailCall(q)
       \/ TakeChannel(q) \/ TakeCurrent(q) \/ TakeMenuPreview(q) \/ TakeStart(q)
       \/ TakeTrack(q) \/ TakeChange(q)

MenuPageSpec == MenuPageInit /\ [][MenuPageNext]_menuPageVars

----------------------------------------------------------------------------
(* Properties *)

(* While it is open the page never has two operations under way of which it *)
(* does not know the end, whatever was lost or came late                    *)
(* (useRichMenuAdmin.ts, mutationLatch and transport_unknown).              *)
OneAtATime ==
  menu.current # "closed" =>
    Cardinality({o \in started :
      \/ operation[o] = "processing"
      \/ operation[o] = "none" /\ \E q \in waits : q.kind = "start" /\ q.id = o
                                                    /\ q.answer = "none"}) <= 1

(* Once the page shows the end of an operation, the menu beside it was read *)
(* after that end, never before (useRichMenuAdmin.ts, load and reads).      *)
ShownWithItsEnd ==
  menu.current = "ready" /\ menu.operation \in Concluded => menu.seen[menu.id] \in Concluded
=============================================================================
