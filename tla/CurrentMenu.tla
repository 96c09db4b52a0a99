----------------------------- MODULE CurrentMenu -----------------------------
(***************************************************************************)
(* What the owner is shown of a channel's menu (linerichmenus,              *)
(* current_service.py).  One request reads the database in a transaction,   *)
(* LINE outside of any, and the database once more: it holds no lock while  *)
(* LINE is asked, and answers only if nothing has changed meanwhile.        *)
(*                                                                         *)
(* The operations on the menus are module RichMenus; here they are an       *)
(* environment that moves the rows and the default at LINE.  Every row a    *)
(* read compares has its time of change, so rows that have changed differ:  *)
(* stamp stands for those times.                                            *)
(***************************************************************************)
EXTENDS Naturals

CONSTANTS
  Resources,   \* managed menus, each with its id at LINE
  NoMenu,      \* no default, no current menu
  Foreign,     \* a default that is not ours, or that LINE does not let us see
  MaxChanges   \* bound on the changes of the rows

ASSUME CurrentMenuAssumption ==
  NoMenu \notin Resources /\ Foreign \notin Resources /\ NoMenu # Foreign /\ MaxChanges \in Nat

VARIABLES
  default,  \* the default menu at LINE
  kept,     \* the rows of the channel's state, menus, operations and deactivation
  seat,     \* the row of the channel and its owner
  latest,   \* the observation recorded last
  reading   \* the request

currentMenuVars == <<default, kept, seat, latest, reading>>

----------------------------------------------------------------------------
(* Types *)

(* "gone": not made yet, deleted or released; "left": old, cleanup_required *)
Lives == {"gone", "candidate", "applied", "left"}
Works == {"none", "active", "unknown", "cleanup_required"}
Sights == {"none", "external", "managed", "other"}
Contents == {"managed", "unset", "external", "attention", "inactive"}
Offers == {"recheck", "cleanup", "apply", "unlink", "release"}

(* CurrentReadSnapshot *)
Kept ==
  [current : Resources \cup {NoMenu}, life : [Resources -> Lives], work : Works,
   stopping : {"no", "waiting", "cleanup_required"}, stamp : 0..MaxChanges]

(* truth, fit: what a look at LINE and the database in one moment would     *)
(* have found, at the last observation and at the answer.                   *)
Reading ==
  [phase : {"idle", "captured", "downloading", "downloaded", "checked", "answered"},
   revision : 1..2, owner : {"first", "second", "gone"}, captured : Kept,
   sight : Sights, image : {"available", "unavailable", "different"},
   content : Contents, offers : SUBSET Offers,
   truth : {"managed", "unset", "external", "attention"}, fit : BOOLEAN]

CurrentMenuTypeOK ==
  /\ default \in Resources \cup {NoMenu, Foreign}
  /\ kept \in Kept
  /\ seat \in [revision : 1..2, active : BOOLEAN, owner : {"first", "second", "gone"}]
  /\ latest \in Sights \cup {"never"}
  /\ reading \in Reading

Untouched ==
  [current |-> NoMenu, life |-> [r \in Resources |-> "gone"], work |-> "none",
   stopping |-> "no", stamp |-> 0]

NoReading ==
  [phase |-> "idle", revision |-> 1, owner |-> "first", captured |-> Untouched,
   sight |-> "none", image |-> "unavailable", content |-> "attention", offers |-> {},
   truth |-> "attention", fit |-> FALSE]

(* A channel without a menu of ours, or with one that is shown.             *)
CurrentMenuInit ==
  /\ \/ default \in {NoMenu, Foreign} /\ kept = Untouched
     \/ /\ default \in Resources
        /\ kept = [Untouched EXCEPT !.current = default, !.life[default] = "applied"]
  /\ seat = [revision |-> 1, active |-> TRUE, owner |-> "first"]
  /\ latest = "never"
  /\ reading = NoReading

----------------------------------------------------------------------------
(* The others *)

RowsBecome(current, life, work) ==
  kept' = [kept EXCEPT !.current = current, !.life = life, !.work = work, !.stamp = @ + 1]

LeftBehind(life, which) == [r \in Resources |-> IF life[r] \in which THEN "left" ELSE life[r]]

(* An operation is accepted, comes to one of its ends, or is cleaned up.    *)
OperationMoves ==
  /\ kept.stamp < MaxChanges
  /\ \/ /\ kept.work = "none"
        /\ \E made \in SUBSET {r \in Resources : kept.life[r] = "gone"} :
             RowsBecome(kept.current,
                        [r \in Resources |-> IF r \in made THEN "candidate" ELSE kept.life[r]],
                        "active")
     \/ /\ kept.work \in {"active", "unknown"}
        /\ \/ \E r \in Resources, work \in {"none", "cleanup_required"} :
                /\ kept.life[r] = "candidate"
                /\ RowsBecome(r, [LeftBehind(kept.life, {"applied"}) EXCEPT ![r] = "applied"], work)
           \/ RowsBecome(NoMenu, LeftBehind(kept.life, {"applied", "candidate"}),
                         "cleanup_required")
           \/ \E work \in {"unknown", "cleanup_required"} :
                RowsBecome(kept.current, kept.life, work)
     \/ /\ kept.work = "cleanup_required"
        /\ RowsBecome(kept.current,
                      [r \in Resources |-> IF kept.life[r] \in {"left", "candidate"} THEN "gone"
                                           ELSE kept.life[r]], "none")
  /\ UNCHANGED <<default, seat, latest, reading>>

(* A deactivation is asked for, gets stuck, or is over.                     *)
DeactivationMoves ==
  /\ kept.stamp < MaxChanges
  /\ \E stopping \in {"no", "waiting", "cleanup_required"} \ {kept.stopping} :
       kept' = [kept EXCEPT !.stopping = stopping, !.stamp = @ + 1]
  /\ UNCHANGED <<default, seat, latest, reading>>

(* By a call of an operation, however late, or by whoever else has access.  *)
DefaultMoves ==
  /\ default' \in {r \in Resources : kept.life[r] # "gone"} \cup {NoMenu, Foreign}
  /\ UNCHANGED <<kept, seat, latest, reading>>

(* The channel is edited, stopped or resumed; the owner is replaced or goes.*)
SeatMoves ==
  /\ \/ /\ seat.revision = 1
        /\ \E active \in BOOLEAN : seat' = [seat EXCEPT !.revision = 2, !.active = active]
     \/ seat.owner = "first" /\ \E who \in {"second", "gone"} : seat' = [seat EXCEPT !.owner = who]
  /\ UNCHANGED <<default, kept, latest, reading>>

----------------------------------------------------------------------------
(* The read *)

(* capture_current, mapped: the current menu is applied, by an operation of *)
(* this channel that is over.                                               *)
Mapped(k) == k.current # NoMenu /\ k.life[k.current] = "applied"

(* observe_channel: the default d, as the rows k explain it.                *)
Sight(k, d) ==
  IF d = NoMenu THEN "none"
  ELSE IF d = Foreign \/ k.life[d] = "gone" THEN "external"
  ELSE IF d = k.current THEN "managed" ELSE "other"

(* busy, uncertain *)
InDoubt(k) == k.work \in {"active", "unknown"}

ContentOf(k, sight) ==
  IF sight = "managed" /\ Mapped(k) /\ ~InDoubt(k) THEN "managed"
  ELSE IF k.current # NoMenu \/ InDoubt(k) \/ sight \in {"managed", "other"} THEN "attention"
  ELSE IF sight = "none" THEN "unset" ELSE "external"

(* capture_current, recovery_targets *)
Recoverable(k) == \E r \in Resources \ {k.current} : k.life[r] \in {"candidate", "left"}

(* _actions, those that change something; the channel is active.            *)
OffersOf(k, sight) ==
  LET release == IF Mapped(k) THEN {"release"} ELSE {}
  IN CASE k.work = "active" -> {}
       [] k.work = "unknown" -> IF k.stopping = "no" THEN {"recheck"} ELSE {}
       [] k.work = "cleanup_required" ->
            IF Recoverable(k) /\ k.stopping # "waiting" THEN {"cleanup"} ELSE {}
       [] OTHER ->
            IF k.stopping # "no" \/ \E r \in Resources : k.life[r] = "left" THEN {}
            ELSE IF sight = "managed"
                 THEN IF Mapped(k) THEN {"apply", "unlink", "release"} ELSE {}
            ELSE IF (k.current = NoMenu /\ sight = "other") \/ (k.current # NoMenu /\ ~Mapped(k))
                 THEN {}
            ELSE {"apply"} \cup release

(* An answer that shows nothing: refused, changed meanwhile, not available. *)
GiveNothing == reading' = NoReading /\ UNCHANGED latest

(* _authorize *)
Authorized(revision) == seat.owner # "gone" /\ seat.revision = revision

(* The first transaction: a stopped channel is answered from the rows.      *)
Capture(revision) ==
  /\ reading.phase = "idle" /\ Authorized(revision)
  /\ reading' = [NoReading EXCEPT
       !.phase = IF seat.active THEN "captured" ELSE "answered",
       !.content = IF seat.active THEN "attention" ELSE "inactive",
       !.revision = revision, !.owner = seat.owner, !.captured = kept]
  /\ UNCHANGED <<default, kept, seat, latest>>

(* _observe: what is not known ends the read.                               *)
Observe ==
  /\ reading.phase = "captured"
  /\ \/ GiveNothing
     \/ LET sight == Sight(reading.captured, default)
            content == ContentOf(reading.captured, sight)
        IN /\ reading' = [reading EXCEPT
                !.phase = IF content = "managed" THEN "downloading" ELSE "checked",
                !.sight = sight, !.content = content, !.truth = ContentOf(kept, Sight(kept, default))]
           /\ UNCHANGED latest
  /\ UNCHANGED <<default, kept, seat>>

(* download_content: the image of the menu, not the one we made, or none.   *)
Download ==
  /\ reading.phase = "downloading"
  /\ \E image \in {"available", "unavailable", "different"} :
       reading' = [reading EXCEPT !.phase = "downloaded", !.image = image]
  /\ UNCHANGED <<default, kept, seat, latest>>

(* The image belongs to what is shown only if the same menu still is.       *)
ObserveAgain ==
  /\ reading.phase = "downloaded"
  /\ \/ GiveNothing
     \/ /\ Sight(reading.captured, default) = reading.sight /\ reading.image # "different"
        /\ reading' = [reading EXCEPT !.phase = "checked",
                                      !.truth = ContentOf(kept, Sight(kept, default))]
        /\ UNCHANGED latest
  /\ UNCHANGED <<default, kept, seat>>

(* Mutant: the rows are not compared with those read at first.              *)
LockUnchanged_Assumed(captured) == TRUE

(* lock_current_unchanged *)
LockUnchanged(captured) == kept = captured

(* The second transaction, which keeps the observation and answers.         *)
Answer ==
  /\ reading.phase = "checked"
  /\ \/ GiveNothing
     \/ /\ Authorized(reading.revision) /\ seat.owner = reading.owner /\ seat.active
        /\ LockUnchanged(reading.captured)
        /\ latest' = reading.sight
        /\ reading' = [reading EXCEPT
             !.phase = "answered", !.offers = OffersOf(reading.captured, reading.sight),
             !.fit = (kept.work = "none" /\ kept.stopping = "no" /\ seat.active)]
  /\ UNCHANGED <<default, kept, seat>>

ReadAgain ==
  /\ reading.phase = "answered" /\ reading' = NoReading
  /\ UNCHANGED <<default, kept, seat, latest>>

----------------------------------------------------------------------------
CurrentMenuNext ==
  \/ OperationMoves \/ DeactivationMoves \/ DefaultMoves \/ SeatMoves
  \/ \E revision \in 1..2 : Capture(revision)
  \/ Observe \/ Download \/ ObserveAgain \/ Answer \/ ReadAgain

CurrentMenuSpec == CurrentMenuInit /\ [][CurrentMenuNext]_currentMenuVars

----------------------------------------------------------------------------
(* Property *)

(* What is shown was true of LINE and the database in one moment of the     *)
(* read, although no lock was held: the menu is ours and shown, or there is *)
(* none, or it is foreign.  A change of the menu is offered only if, at the *)
(* answer, no operation or deactivation stood in its way (get_current).     *)
ShownAsItWas ==
  reading.phase = "answered" =>
    /\ reading.content \in {"managed", "unset", "external"} => reading.truth = reading.content
    /\ reading.offers \cap {"apply", "unlink", "release"} # {} => reading.fit
    /\ "unlink" \in reading.offers => reading.truth = "managed"
=============================================================================
