---------------------------- MODULE ConsoleProofs ----------------------------
(***************************************************************************)
(* Proofs about the small systems that are checked together in MCConsole:   *)
(* the view of the current menu, the repair of old menus, the delivery      *)
(* form, the owner's session, the rich menu page and the text judgment lab. *)
(* They share no variable, and each part below speaks of one of them.       *)
(***************************************************************************)
EXTENDS CurrentMenu, MenuRepair, DeliveryPage, OwnerSession, MenuPage, JudgmentLab,
        FiniteSetTheorems, WellFoundedInduction, TLAPS

-----------------------------------------------------------------------------
(* CurrentMenu.  What is shown of the current menu was true in one moment,  *)
(* for any number of menus and changes.  The time of change carries the     *)
(* argument: it never goes back, and rows of the same time are the same     *)
(* rows.  So if the rows are at the answer what they were at first, they    *)
(* were so at every look at LINE in between.                                *)

Observed == {"downloading", "downloaded", "checked"}

StampsTell ==
  reading.phase \in {"captured"} \cup Observed =>
    /\ reading.captured.stamp <= kept.stamp
    /\ reading.captured.stamp = kept.stamp => reading.captured = kept

ObservedThen ==
  reading.phase \in Observed =>
    /\ reading.content = ContentOf(reading.captured, reading.sight)
    /\ reading.captured.stamp = kept.stamp => reading.truth = reading.content

ReadingInv == CurrentMenuTypeOK /\ StampsTell /\ ObservedThen /\ ShownAsItWas

----------------------------------------------------------------------------
(* Types *)

LEMMA UntouchedType == Untouched \in Kept /\ NoReading \in Reading
<1>1. Untouched \in Kept
  BY CurrentMenuAssumption DEF Untouched, Kept, Lives, Works
<1> QED
  BY <1>1 DEF NoReading, Reading, Sights, Contents, Offers

LEMMA SightTypes ==
  ASSUME NEW k \in Kept, NEW d, NEW sight
  PROVE  /\ Sight(k, d) \in Sights
         /\ ContentOf(k, sight) \in {"managed", "unset", "external", "attention"}
         /\ OffersOf(k, sight) \subseteq Offers
<1>1. Sight(k, d) \in Sights
  BY DEF Sight, Sights
<1>2. ContentOf(k, sight) \in {"managed", "unset", "external", "attention"}
  BY DEF ContentOf
<1>3. OffersOf(k, sight) \subseteq Offers
  <2>1. k.work \in {"none", "active", "unknown", "cleanup_required"}
    BY DEF Kept, Works
  <2> QED
    BY <2>1 DEF OffersOf, Offers
<1> QED
  BY <1>1, <1>2, <1>3

(* The rows after a change of theirs, and the time it is given.             *)
LEMMA RowsMove ==
  ASSUME CurrentMenuTypeOK, OperationMoves \/ DeactivationMoves
  PROVE  /\ kept' \in Kept /\ kept'.stamp = kept.stamp + 1
         /\ UNCHANGED <<default, seat, latest, reading>>
<1>1. kept.stamp \in 0..MaxChanges /\ kept \in Kept
  BY DEF CurrentMenuTypeOK, Kept
<1>2. CASE DeactivationMoves
  <2>1. PICK stopping \in {"no", "waiting", "cleanup_required"} :
          kept' = [kept EXCEPT !.stopping = stopping, !.stamp = kept.stamp + 1]
    BY <1>2 DEF DeactivationMoves
  <2>2. kept.stamp + 1 \in 0..MaxChanges
    <3>1. kept.stamp < MaxChanges
      BY <1>2 DEF DeactivationMoves
    <3> QED
      BY <1>1, <3>1, CurrentMenuAssumption
  <2>3. kept' \in Kept /\ kept'.stamp = kept.stamp + 1
    BY <1>1, <2>1, <2>2 DEF Kept
  <2> QED
    BY <1>2, <2>3 DEF DeactivationMoves
<1>3. CASE OperationMoves
  <2>1. ASSUME NEW current \in Resources \cup {NoMenu}, NEW lives \in [Resources -> Lives],
               NEW work \in Works, RowsBecome(current, lives, work), kept.stamp < MaxChanges
        PROVE  kept' \in Kept /\ kept'.stamp = kept.stamp + 1
    <3>1. kept.stamp + 1 \in 0..MaxChanges
      BY <1>1, <2>1, CurrentMenuAssumption
    <3>2. kept' = [kept EXCEPT !.current = current, !.life = lives, !.work = work,
                               !.stamp = kept.stamp + 1]
      BY <2>1 DEF RowsBecome
    <3> QED
      BY <1>1, <3>1, <3>2 DEF Kept
  <2>2. ASSUME NEW lives \in [Resources -> Lives], NEW which
        PROVE  LeftBehind(lives, which) \in [Resources -> Lives]
    BY DEF LeftBehind, Lives
  <2>3. kept.stamp < MaxChanges /\ UNCHANGED <<default, seat, latest, reading>>
    BY <1>3 DEF OperationMoves
  <2>4. kept.life \in [Resources -> Lives] /\ kept.current \in Resources \cup {NoMenu}
    BY <1>1 DEF Kept
  <2>5. CASE \E added \in SUBSET {r \in Resources : kept.life[r] = "gone"} :
               RowsBecome(kept.current,
                          [r \in Resources |-> IF r \in added THEN "candidate" ELSE kept.life[r]],
                          "active")
    BY <2>1, <2>3, <2>4, <2>5 DEF Lives, Works
  <2>6. CASE \E r \in Resources, work \in {"none", "cleanup_required"} :
               RowsBecome(r, [LeftBehind(kept.life, {"applied"}) EXCEPT ![r] = "applied"], work)
    <3>1. PICK r \in Resources, work \in {"none", "cleanup_required"} :
            RowsBecome(r, [LeftBehind(kept.life, {"applied"}) EXCEPT ![r] = "applied"], work)
      BY <2>6
    <3>2. [LeftBehind(kept.life, {"applied"}) EXCEPT ![r] = "applied"] \in [Resources -> Lives]
      BY <2>2, <2>4 DEF Lives
    <3> QED
      BY <2>1, <2>3, <3>1, <3>2 DEF Works
  <2>7. CASE RowsBecome(NoMenu, LeftBehind(kept.life, {"applied", "candidate"}), "cleanup_required")
    BY <2>1, <2>2, <2>3, <2>4, <2>7 DEF Works
  <2>8. CASE \E work \in {"unknown", "cleanup_required"} : RowsBecome(kept.current, kept.life, work)
    BY <2>1, <2>3, <2>4, <2>8 DEF Works
  <2>9. CASE RowsBecome(kept.current,
                        [r \in Resources |-> IF kept.life[r] \in {"left", "candidate"} THEN "gone"
                                             ELSE kept.life[r]], "none")
    BY <2>1, <2>3, <2>4, <2>9 DEF Lives, Works
  <2> QED
    BY <1>3, <2>3, <2>5, <2>6, <2>7, <2>8, <2>9 DEF OperationMoves
<1> QED
  BY <1>2, <1>3

----------------------------------------------------------------------------
(* The steps of the read *)

(* A change of the rows parts them from what was captured, for good.        *)
LEMMA RowsKeep ==
  ASSUME ReadingInv, OperationMoves \/ DeactivationMoves
  PROVE  ReadingInv'
<1>1. kept' \in Kept /\ kept'.stamp = kept.stamp + 1 /\ UNCHANGED <<default, seat, latest, reading>>
  BY RowsMove DEF ReadingInv
<1>2. kept.stamp \in Nat /\ reading.captured.stamp \in Nat
  BY CurrentMenuAssumption DEF ReadingInv, CurrentMenuTypeOK, Kept, Reading
<1> QED
  BY <1>1, <1>2 DEF ReadingInv, CurrentMenuTypeOK, StampsTell, ObservedThen, ShownAsItWas

LEMMA OthersKeep ==
  ASSUME ReadingInv, DefaultMoves \/ SeatMoves
  PROVE  ReadingInv'
<1>1. kept' = kept /\ reading' = reading /\ latest' = latest
  BY DEF DefaultMoves, SeatMoves
<1>2. default' \in Resources \cup {NoMenu, Foreign}
  BY DEF DefaultMoves, SeatMoves, ReadingInv, CurrentMenuTypeOK
<1>3. seat' \in [revision : 1..2, active : BOOLEAN, owner : {"first", "second", "gone"}]
  <2>1. seat \in [revision : 1..2, active : BOOLEAN, owner : {"first", "second", "gone"}]
    BY DEF ReadingInv, CurrentMenuTypeOK
  <2>2. CASE \E active \in BOOLEAN : seat' = [seat EXCEPT !.revision = 2, !.active = active]
    <3>1. PICK active \in BOOLEAN : seat' = [seat EXCEPT !.revision = 2, !.active = active]
      BY <2>2
    <3>2. 2 \in 1..2
      OBVIOUS
    <3> HIDE <2>2
    <3> QED
      BY <2>1, <3>1, <3>2
  <2>3. CASE \E who \in {"second", "gone"} : seat' = [seat EXCEPT !.owner = who]
    BY <2>1, <2>3
  <2> QED
    BY <2>1, <2>2, <2>3 DEF DefaultMoves, SeatMoves
<1>4. CurrentMenuTypeOK'
  BY <1>1, <1>2, <1>3 DEF ReadingInv, CurrentMenuTypeOK
<1>5. StampsTell'
  BY <1>1 DEF ReadingInv, StampsTell
<1>6. ObservedThen'
  BY <1>1 DEF ReadingInv, ObservedThen
<1>7. ShownAsItWas'
  BY <1>1 DEF ReadingInv, ShownAsItWas
<1> QED
  BY <1>4, <1>5, <1>6, <1>7 DEF ReadingInv

LEMMA NothingKeeps ==
  ASSUME ReadingInv, reading' = NoReading, UNCHANGED <<default, kept, seat, latest>>
  PROVE  ReadingInv'
BY UntouchedType DEF ReadingInv, CurrentMenuTypeOK, StampsTell, ObservedThen, ShownAsItWas,
   NoReading, Observed

LEMMA CaptureKeeps ==
  ASSUME ReadingInv, NEW revision \in 1..2, Capture(revision)
  PROVE  ReadingInv'
<1>1. /\ reading' \in Reading /\ reading'.captured = kept
      /\ reading'.phase \in {"captured", "answered"} /\ reading'.offers = {}
      /\ reading'.content \in {"attention", "inactive"}
  BY UntouchedType DEF Capture, NoReading, ReadingInv, CurrentMenuTypeOK, Reading, Contents
<1>2. kept.stamp \in Nat /\ UNCHANGED <<default, kept, seat, latest>>
  BY CurrentMenuAssumption DEF ReadingInv, CurrentMenuTypeOK, Kept, Capture
<1> QED
  BY <1>1, <1>2 DEF ReadingInv, CurrentMenuTypeOK, StampsTell, ObservedThen, ShownAsItWas, Observed

LEMMA ObserveKeeps ==
  ASSUME ReadingInv, Observe
  PROVE  ReadingInv'
<1>1. CASE GiveNothing
  BY <1>1, NothingKeeps DEF GiveNothing, Observe
<1>2. CASE ~GiveNothing
  <2> DEFINE sight == Sight(reading.captured, default)
             content == ContentOf(reading.captured, sight)
             truth == ContentOf(kept, Sight(kept, default))
  <2>1. /\ reading' = [reading EXCEPT !.phase = IF content = "managed" THEN "downloading" ELSE "checked",
                             !.sight = sight, !.content = content, !.truth = truth]
        /\ reading.phase = "captured"
        /\ UNCHANGED <<default, kept, seat, latest>>
    BY <1>2 DEF Observe
  <2>2. reading \in Reading /\ reading.captured \in Kept /\ kept \in Kept
    BY DEF ReadingInv, CurrentMenuTypeOK, Reading
  <2>3. /\ sight \in Sights /\ content \in Contents
        /\ truth \in {"managed", "unset", "external", "attention"}
    BY <2>2, SightTypes DEF Contents
  <2>4. reading.captured = kept => content = truth
    OBVIOUS
  <2> HIDE DEF sight, content, truth
  <2>5. /\ reading' \in Reading
        /\ reading'.phase \in {"downloading", "checked"}
        /\ reading'.sight = sight /\ reading'.content = content /\ reading'.truth = truth
        /\ reading'.captured = reading.captured
    BY <2>1, <2>2, <2>3 DEF Reading
  <2>6. content = ContentOf(reading'.captured, reading'.sight)
    BY <2>5 DEF content
  <2> QED
    BY <2>1, <2>4, <2>5, <2>6 DEF ReadingInv, CurrentMenuTypeOK, StampsTell, ObservedThen,
       ShownAsItWas, Observed
<1> QED
  BY <1>1, <1>2

LEMMA DownloadKeeps ==
  ASSUME ReadingInv, Download
  PROVE  ReadingInv'
<1>1. PICK image \in {"available", "unavailable", "different"} :
        reading' = [reading EXCEPT !.phase = "downloaded", !.image = image]
  BY DEF Download
<1>2. reading \in Reading /\ reading.phase = "downloading"
      /\ UNCHANGED <<default, kept, seat, latest>>
  BY DEF Download, ReadingInv, CurrentMenuTypeOK
<1>3. /\ reading' \in Reading /\ reading'.phase = "downloaded"
      /\ reading'.sight = reading.sight /\ reading'.content = reading.content
      /\ reading'.truth = reading.truth /\ reading'.captured = reading.captured
  BY <1>1, <1>2 DEF Reading
<1> QED
  BY <1>2, <1>3 DEF ReadingInv, CurrentMenuTypeOK, StampsTell, ObservedThen, ShownAsItWas, Observed

(* The menu on the second look is the one on the first.                     *)
LEMMA ObserveAgainKeeps ==
  ASSUME ReadingInv, ObserveAgain
  PROVE  ReadingInv'
<1>1. CASE GiveNothing
  BY <1>1, NothingKeeps DEF GiveNothing, ObserveAgain
<1>2. CASE ~GiveNothing
  <2> DEFINE truth == ContentOf(kept, Sight(kept, default))
  <2>1. /\ reading' = [reading EXCEPT !.phase = "checked", !.truth = truth]
        /\ reading.phase = "downloaded" /\ Sight(reading.captured, default) = reading.sight
        /\ UNCHANGED <<default, kept, seat, latest>>
    BY <1>2 DEF ObserveAgain
  <2>2. reading \in Reading /\ kept \in Kept
    BY DEF ReadingInv, CurrentMenuTypeOK
  <2>3. truth \in {"managed", "unset", "external", "attention"}
    BY <2>2, SightTypes
  <2>4. reading.captured = kept => truth = ContentOf(reading.captured, reading.sight)
    BY <2>1
  <2> HIDE DEF truth
  <2>5. /\ reading' \in Reading /\ reading'.phase = "checked" /\ reading'.truth = truth
        /\ reading'.sight = reading.sight /\ reading'.content = reading.content
        /\ reading'.captured = reading.captured
    BY <2>1, <2>2, <2>3 DEF Reading
  <2> QED
    BY <2>1, <2>4, <2>5 DEF ReadingInv, CurrentMenuTypeOK, StampsTell, ObservedThen,
       ShownAsItWas, Observed
<1> QED
  BY <1>1, <1>2

(* What is offered, and of what rows.                                       *)
LEMMA OffersFit ==
  ASSUME NEW k \in Kept, NEW sight \in Sights
  PROVE  /\ OffersOf(k, sight) \cap {"apply", "unlink", "release"} # {}
              => k.work = "none" /\ k.stopping = "no"
         /\ "unlink" \in OffersOf(k, sight) => ContentOf(k, sight) = "managed"
<1>1. /\ k.work \in {"none", "active", "unknown", "cleanup_required"}
      /\ k.stopping \in {"no", "waiting", "cleanup_required"}
  BY DEF Kept, Works
<1>2. CASE k.work # "none"
  BY <1>1, <1>2 DEF OffersOf
<1>3. CASE k.work = "none"
  BY <1>1, <1>3 DEF OffersOf, ContentOf, InDoubt
<1> QED
  BY <1>2, <1>3

LEMMA AnswerKeeps ==
  ASSUME ReadingInv, Answer
  PROVE  ReadingInv'
<1>1. CASE GiveNothing
  BY <1>1, NothingKeeps DEF GiveNothing, Answer
<1>2. CASE ~GiveNothing
  <2> DEFINE offers == OffersOf(kept, reading.sight)
             fit == kept.work = "none" /\ kept.stopping = "no"
  <2>1. /\ reading.phase = "checked" /\ reading.captured = kept /\ seat.active
        /\ latest' = reading.sight
        /\ UNCHANGED <<default, kept, seat>>
    BY <1>2 DEF Answer, LockUnchanged
  <2>2. reading' = [reading EXCEPT !.phase = "answered", !.offers = offers, !.fit = fit]
    BY <1>2, <2>1 DEF Answer
  <2>3. reading \in Reading /\ kept \in Kept /\ reading.sight \in Sights
    BY DEF ReadingInv, CurrentMenuTypeOK, Reading
  <2>4. offers \subseteq Offers /\ fit \in BOOLEAN
    BY <2>3, SightTypes
  <2>5. /\ offers \cap {"apply", "unlink", "release"} # {} => fit
        /\ "unlink" \in offers => ContentOf(kept, reading.sight) = "managed"
    BY <2>3, OffersFit
  <2>6. reading.content = ContentOf(kept, reading.sight) /\ reading.truth = reading.content
    BY <2>1 DEF ReadingInv, ObservedThen, Observed
  <2> HIDE DEF offers, fit
  <2>7. /\ reading' \in Reading /\ reading'.phase = "answered"
        /\ reading'.offers = offers /\ reading'.fit = fit
        /\ reading'.content = reading.content /\ reading'.truth = reading.truth
    BY <2>2, <2>3, <2>4 DEF Reading
  <2> QED
    BY <2>1, <2>3, <2>5, <2>6, <2>7 DEF ReadingInv, CurrentMenuTypeOK, StampsTell, ObservedThen,
       ShownAsItWas, Observed
<1> QED
  BY <1>1, <1>2

----------------------------------------------------------------------------
(* The invariant *)

LEMMA ReadingInvInit == CurrentMenuInit => ReadingInv
<1> SUFFICES ASSUME CurrentMenuInit PROVE ReadingInv
  OBVIOUS
<1>1. reading = NoReading /\ reading \in Reading
  BY UntouchedType DEF CurrentMenuInit
<1>2. kept \in Kept
  <2>1. CASE kept = Untouched
    BY <2>1, UntouchedType
  <2>2. CASE default \in Resources
             /\ kept = [Untouched EXCEPT !.current = default, !.life[default] = "applied"]
    BY <2>2, UntouchedType DEF Kept, Lives
  <2> QED
    BY <2>1, <2>2 DEF CurrentMenuInit
<1> QED
  BY <1>1, <1>2 DEF CurrentMenuInit, ReadingInv, CurrentMenuTypeOK, StampsTell, ObservedThen,
     ShownAsItWas, NoReading, Observed

LEMMA ReadingInvNext == ReadingInv /\ [CurrentMenuNext]_currentMenuVars => ReadingInv'
<1> SUFFICES ASSUME ReadingInv, [CurrentMenuNext]_currentMenuVars
             PROVE  ReadingInv'
  OBVIOUS
<1>1. CASE UNCHANGED currentMenuVars
  BY <1>1 DEF currentMenuVars, ReadingInv, CurrentMenuTypeOK, StampsTell, ObservedThen, ShownAsItWas
<1>2. CASE OperationMoves \/ DeactivationMoves
  BY <1>2, RowsKeep
<1>3. CASE DefaultMoves \/ SeatMoves
  BY <1>3, OthersKeep
<1>4. CASE \E revision \in 1..2 : Capture(revision)
  BY <1>4, CaptureKeeps
<1>5. CASE Observe
  BY <1>5, ObserveKeeps
<1>6. CASE Download
  BY <1>6, DownloadKeeps
<1>7. CASE ObserveAgain
  BY <1>7, ObserveAgainKeeps
<1>8. CASE Answer
  BY <1>8, AnswerKeeps
<1>9. CASE ReadAgain
  BY <1>9, NothingKeeps DEF ReadAgain
<1> QED
  BY <1>1, <1>2, <1>3, <1>4, <1>5, <1>6, <1>7, <1>8, <1>9 DEF CurrentMenuNext

(* The current menu is shown, and changes of it are offered, as they were   *)
(* in one moment of the read (get_current; ShownAsItWas), for any number of *)
(* menus and of changes by others.                                          *)
THEOREM ShowsAsItWas == CurrentMenuSpec => [](CurrentMenuTypeOK /\ ShownAsItWas)
<1>1. ReadingInv => CurrentMenuTypeOK /\ ShownAsItWas
  BY DEF ReadingInv
<1> QED
  BY <1>1, ReadingInvInit, ReadingInvNext, PTL DEF CurrentMenuSpec

-----------------------------------------------------------------------------
(* MenuRepair.  A proof lasts until it was used, for any number of menus.   *)
(* ProofLasts alone is not inductive: the menu that a cleanup deletes must  *)
(* not be the successor of another one that is left.  Before the upgrade    *)
(* nothing is cleaned up; after it, either the menus it had replaced were   *)
(* given up when its successor was applied, or the repair has looked.       *)

(* Menus are numbered as they are made.                                     *)
NotMadeYet == \A r \in Menus : r > made => life[r] = "none" /\ r \notin standing

OneInPlace == \A r, s \in InPlace : r = s

(* The heir of an old menu was made after it, and by one apply.             *)
HeirsAreLater ==
  \A r \in Old : heir[r] \in Menus /\ heir[r] <= made /\ heir[r] > r
HeirsDiffer == \A r, s \in Old : heir[r] = heir[s] => r = s

(* What is blocked for, no menu that is left depends upon, but those that   *)
(* were given up.                                                           *)
BlockedIsEldest ==
  blocker # 0 => \A r \in Old : heir[r] = blocker => HeldBy(r) \subseteq abandoned
CleanedIsBlocked ==
  cleaning # 0 => blocker # 0 /\ cleaning \in Old /\ heir[cleaning] = blocker

RepairInv ==
  /\ MenuRepairTypeOK
  /\ NotMadeYet /\ OneInPlace
  /\ HeirsAreLater /\ HeirsDiffer
  /\ BlockedIsEldest /\ CleanedIsBlocked
  /\ ProofLasts

----------------------------------------------------------------------------
(* Types *)

LEMMA RepairTypes ==
  ASSUME MenuRepairTypeOK, MenuRepairNext
  PROVE  MenuRepairTypeOK'
<1> USE DEF MenuRepairTypeOK, Menus
<1>1. CASE ApplyMenu
  <2>1. made + 1 \in Menus
    BY <1>1, MenuRepairAssumption DEF ApplyMenu
  <2>2. abandoned' \subseteq Menus
    BY <1>1 DEF ApplyMenu, HeldBy, Old
  <2> QED
    BY <1>1, <2>1, <2>2, MenuRepairAssumption DEF ApplyMenu, InPlace
<1>2. CASE Upgrade
  BY <1>2 DEF Upgrade
<1>3. CASE TakeDown
  BY <1>3 DEF TakeDown, HeldBy, Old
<1>4. CASE DeleteAtLine
  <2>1. cleaning' \in 0..MaxMenus /\ standing' \subseteq standing
    BY <1>4, MenuRepairAssumption DEF DeleteAtLine
  <2> QED
    BY <1>4, <2>1 DEF DeleteAtLine
<1>5. CASE FinishCleanup
  <2>1. life' \in [Menus -> {"none", "applied", "old", "deleted", "released"}]
    BY <1>5 DEF FinishCleanup
  <2>2. outcome' \in [Menus -> {"none", "succeeded", "cleanup_required", "cleaned"}]
    BY <1>5 DEF FinishCleanup
  <2>3. {blocker', cleaning'} \subseteq 0..MaxMenus
    BY <1>5, MenuRepairAssumption DEF FinishCleanup
  <2> QED
    BY <1>5, <2>1, <2>2, <2>3 DEF FinishCleanup
<1>6. CASE PurgeHistory
  BY <1>6, MenuRepairAssumption DEF PurgeHistory
<1>7. CASE \E r \in Menus : AcceptCleanup(r)
  BY <1>7 DEF AcceptCleanup
<1>8. CASE \E r, s \in Menus : Repair(r, s)
  BY <1>8 DEF Repair
<1> QED
  BY <1>1, <1>2, <1>3, <1>4, <1>5, <1>6, <1>7, <1>8 DEF MenuRepairNext

----------------------------------------------------------------------------
(* The steps that disturb more than the types *)

LEMMA ApplyKeeps ==
  ASSUME RepairInv, MenuRepairTypeOK', ApplyMenu
  PROVE  RepairInv'
<1> DEFINE new == made + 1
<1>1. new \in Menus /\ new \notin Old \cup InPlace /\ blocker = 0 /\ cleaning = 0
  BY MenuRepairAssumption DEF ApplyMenu, RepairInv, MenuRepairTypeOK, NotMadeYet, Menus, Old,
     InPlace, Acceptable
<1>2. /\ made' = new
      /\ \A r \in Menus : life'[r] = IF r = new THEN "applied"
                                    ELSE IF r \in InPlace THEN "old" ELSE life[r]
      /\ \A r \in Menus : heir'[r] = IF r \in InPlace THEN new ELSE heir[r]
      /\ standing' = standing \cup {new} /\ abandoned \subseteq abandoned'
      /\ ~legacy => \A r \in InPlace, p \in Old : heir[p] = r => p \in abandoned'
      /\ cleaning' = 0
  BY <1>1 DEF ApplyMenu, HeldBy
<1>3. Old' = Old \cup InPlace /\ InPlace' = {new}
  BY <1>1, <1>2 DEF Old, InPlace
<1>4. /\ \A r \in Old : heir'[r] = heir[r] /\ heir[r] \in Menus /\ heir[r] <= made
      /\ \A r \in InPlace : heir'[r] = new /\ r < new
  BY <1>2 DEF Old, InPlace, RepairInv, NotMadeYet, HeirsAreLater, MenuRepairTypeOK, Menus
<1> HIDE DEF new
<1>5. NotMadeYet'
  BY <1>1, <1>2 DEF new, NotMadeYet, RepairInv, MenuRepairTypeOK, Menus, InPlace
<1>6. OneInPlace'
  BY <1>3 DEF OneInPlace
<1>7. HeirsAreLater'
  BY <1>1, <1>2, <1>3, <1>4 DEF new, HeirsAreLater, RepairInv, MenuRepairTypeOK, Menus, Old, InPlace
<1>8. HeirsDiffer'
  BY <1>1, <1>3, <1>4 DEF new, HeirsDiffer, OneInPlace, RepairInv, MenuRepairTypeOK, Menus, Old, InPlace
<1>9. BlockedIsEldest'
  <2>1. CASE legacy
    BY <2>1 DEF ApplyMenu, BlockedIsEldest
  <2>2. ASSUME ~legacy, NEW r \in Old', heir'[r] = new,
               NEW p \in Old', heir'[p] = r
        PROVE  p \in abandoned'
    <3>1. r \in InPlace
      BY <1>1, <1>3, <1>4, <2>2, MenuRepairAssumption DEF new, RepairInv, MenuRepairTypeOK, Menus
    <3>2. p \in Old /\ heir[p] = r
      BY <1>1, <1>3, <1>4, <2>2, <3>1 DEF new, InPlace, Old
    <3> QED
      BY <1>2, <2>2, <3>1, <3>2
  <2>3. blocker' # 0 => ~legacy /\ blocker' = new
    BY DEF ApplyMenu, new
  <2> QED
    BY <2>2, <2>3 DEF BlockedIsEldest, HeldBy
<1>10. CleanedIsBlocked'
  BY <1>2 DEF CleanedIsBlocked
<1>11. ProofLasts'
  <2> SUFFICES ASSUME NEW r \in standing', life'[r] # "applied"
               PROVE  r \in Old' /\ (r \in abandoned' \/ life'[heir'[r]] \in {"applied", "old"})
    BY DEF ProofLasts
  <2>1. r \in standing /\ r \in Menus /\ r # new
    BY <1>1, <1>2 DEF RepairInv, MenuRepairTypeOK
  <2>2. CASE r \in InPlace
    BY <1>1, <1>2, <1>3, <1>4, <2>2
  <2>3. CASE r \notin InPlace
    <3>1. r \in Old /\ (r \in abandoned \/ life[heir[r]] \in {"applied", "old"})
      BY <1>2, <2>1, <2>3 DEF RepairInv, ProofLasts, InPlace
    <3> QED
      BY <1>2, <1>3, <1>4, <3>1
  <2> QED
    BY <2>2, <2>3
<1> QED
  BY <1>5, <1>6, <1>7, <1>8, <1>9, <1>10, <1>11 DEF RepairInv

LEMMA TakeDownKeeps ==
  ASSUME RepairInv, MenuRepairTypeOK', TakeDown
  PROVE  RepairInv'
<1>1. PICK r \in InPlace, end \in {"deleted", "released"} :
        /\ life' = [life EXCEPT ![r] = end]
        /\ standing' = standing \ {r}
        /\ abandoned' = abandoned \cup {p \in Old : heir[p] = r}
  BY DEF TakeDown, HeldBy
<1>2. heir' = heir /\ made' = made /\ blocker' = 0 /\ cleaning' = 0
  BY DEF TakeDown, Acceptable
<1>3. r \in Menus /\ r \notin Old
      /\ \A q \in Menus : life'[q] = IF q = r THEN end ELSE life[q]
  BY <1>1 DEF InPlace, Old, RepairInv, MenuRepairTypeOK
<1>4. Old' = Old /\ InPlace' = InPlace \ {r}
  BY <1>3 DEF Old, InPlace
<1>5. NotMadeYet' /\ OneInPlace'
  BY <1>1, <1>2, <1>3, <1>4 DEF RepairInv, NotMadeYet, OneInPlace, InPlace
<1>6. HeirsAreLater' /\ HeirsDiffer'
  BY <1>2, <1>4 DEF RepairInv, HeirsAreLater, HeirsDiffer
<1>7. BlockedIsEldest' /\ CleanedIsBlocked'
  BY <1>2 DEF BlockedIsEldest, CleanedIsBlocked
<1>8. ProofLasts'
  BY <1>1, <1>2, <1>3, <1>4 DEF RepairInv, ProofLasts, HeirsAreLater, MenuRepairTypeOK
<1> QED
  BY <1>5, <1>6, <1>7, <1>8 DEF RepairInv

LEMMA RepairKeeps ==
  ASSUME RepairInv, MenuRepairTypeOK', NEW r \in Menus, NEW s \in Menus, Repair(r, s)
  PROVE  RepairInv'
<1>1. /\ made' = made /\ life' = life /\ heir' = heir /\ standing' = standing
      /\ abandoned' = abandoned /\ cleaning' = 0 /\ blocker' = s
      /\ Old' = Old /\ InPlace' = InPlace
  BY DEF Repair, Old, InPlace
<1>2. BlockedIsEldest'
  BY <1>1 DEF RepairInv, HeirsDiffer, BlockedIsEldest, HeldBy, Repair, Proven, Eldest
<1> QED
  BY <1>1, <1>2 DEF RepairInv, NotMadeYet, OneInPlace, HeirsAreLater, HeirsDiffer,
     CleanedIsBlocked, ProofLasts

(* No menu that is left was replaced by the one that is deleted.            *)
LEMMA FinishKeeps ==
  ASSUME RepairInv, MenuRepairTypeOK', FinishCleanup
  PROVE  RepairInv'
<1>1. /\ cleaning \in Old /\ heir[cleaning] = blocker /\ blocker # 0
      /\ cleaning \in Menus /\ cleaning \notin standing
      /\ \A p \in Old : heir[p] = cleaning => p \in abandoned
  BY DEF RepairInv, CleanedIsBlocked, BlockedIsEldest, HeldBy, FinishCleanup, Old
<1>2. /\ made' = made /\ heir' = heir /\ standing' = standing /\ abandoned' = abandoned
      /\ blocker' = 0 /\ cleaning' = 0
      /\ \A q \in Menus : life'[q] = IF q = cleaning THEN "deleted" ELSE life[q]
  BY <1>1 DEF FinishCleanup, RepairInv, MenuRepairTypeOK
<1>3. Old' = Old \ {cleaning} /\ InPlace' = InPlace
  BY <1>1, <1>2 DEF Old, InPlace
<1>4. NotMadeYet' /\ OneInPlace'
  BY <1>1, <1>2, <1>3 DEF RepairInv, NotMadeYet, OneInPlace, Old
<1>5. HeirsAreLater' /\ HeirsDiffer'
  BY <1>2, <1>3 DEF RepairInv, HeirsAreLater, HeirsDiffer
<1>6. BlockedIsEldest' /\ CleanedIsBlocked'
  BY <1>2 DEF BlockedIsEldest, CleanedIsBlocked
<1>7. ProofLasts'
  BY <1>1, <1>2, <1>3 DEF RepairInv, ProofLasts, HeirsAreLater, MenuRepairTypeOK
<1> QED
  BY <1>4, <1>5, <1>6, <1>7 DEF RepairInv

(* Nothing that stands is forgotten with the history.                       *)
LEMMA PurgeKeeps ==
  ASSUME RepairInv, MenuRepairTypeOK', PurgeHistory
  PROVE  RepairInv'
<1>1. standing = {} /\ standing' = {} /\ blocker' = 0 /\ cleaning' = 0
  BY DEF PurgeHistory, InUse, RepairInv, ProofLasts, MenuRepairTypeOK, Old
<1>2. Old' = {} /\ InPlace' = {} /\ \A r \in Menus : life'[r] = "none"
  BY DEF PurgeHistory, Old, InPlace
<1> QED
  BY <1>1, <1>2 DEF RepairInv, NotMadeYet, OneInPlace, HeirsAreLater, HeirsDiffer,
     BlockedIsEldest, CleanedIsBlocked, ProofLasts

----------------------------------------------------------------------------
(* The invariant *)

LEMMA RepairInvInit == MenuRepairInit => RepairInv
BY MenuRepairAssumption DEF MenuRepairInit, RepairInv, MenuRepairTypeOK, NotMadeYet, OneInPlace,
   HeirsAreLater, HeirsDiffer, BlockedIsEldest, CleanedIsBlocked, ProofLasts, Old, InPlace, Menus

LEMMA RepairInvNext == RepairInv /\ [MenuRepairNext]_menuRepairVars => RepairInv'
<1> SUFFICES ASSUME RepairInv, [MenuRepairNext]_menuRepairVars
             PROVE  RepairInv'
  OBVIOUS
<1>1. CASE UNCHANGED menuRepairVars
  BY <1>1 DEF menuRepairVars, RepairInv, MenuRepairTypeOK, NotMadeYet, OneInPlace, HeirsAreLater,
     HeirsDiffer, BlockedIsEldest, CleanedIsBlocked, ProofLasts, Old, InPlace, HeldBy
<1>2. CASE MenuRepairNext
  <2>1. MenuRepairTypeOK'
    BY <1>2, RepairTypes DEF RepairInv
  <2>2. CASE ApplyMenu
    BY <2>1, <2>2, ApplyKeeps
  <2>3. CASE TakeDown
    BY <2>1, <2>3, TakeDownKeeps
  <2>4. CASE FinishCleanup
    BY <2>1, <2>4, FinishKeeps
  <2>5. CASE PurgeHistory
    BY <2>1, <2>5, PurgeKeeps
  <2>6. CASE \E r, s \in Menus : Repair(r, s)
    BY <2>1, <2>6, RepairKeeps
  <2>7. CASE Upgrade \/ DeleteAtLine \/ \E r \in Menus : AcceptCleanup(r)
    <3>1. /\ made' = made /\ life' = life /\ heir' = heir /\ abandoned' = abandoned
          /\ blocker' = blocker /\ standing' \subseteq standing
          /\ cleaning' \in {cleaning, 0} \/ (cleaning' \in Old /\ heir[cleaning'] = blocker
                                             /\ blocker # 0)
      BY <2>7 DEF Upgrade, DeleteAtLine, AcceptCleanup
    <3>2. Old' = Old /\ InPlace' = InPlace
      BY <3>1 DEF Old, InPlace
    <3> QED
      BY <2>1, <3>1, <3>2 DEF RepairInv, NotMadeYet, OneInPlace, HeirsAreLater, HeirsDiffer,
         BlockedIsEldest, CleanedIsBlocked, ProofLasts, HeldBy
  <2> QED
    BY <1>2, <2>2, <2>3, <2>4, <2>5, <2>6, <2>7 DEF MenuRepairNext
<1> QED
  BY <1>1, <1>2

(* However menus are replaced, repaired, cleaned up, taken down and purged, *)
(* a menu of ours that is at LINE is in place or provably replaced, unless  *)
(* an operation took or replaced its proof while it was left                *)
(* (cleanup_repair.py; ProofLasts), for any number of menus.                *)
THEOREM ProofsLast == MenuRepairSpec => [](MenuRepairTypeOK /\ ProofLasts)
<1>1. RepairInv => MenuRepairTypeOK /\ ProofLasts
  BY DEF RepairInv
<1> QED
  BY <1>1, RepairInvInit, RepairInvNext, PTL DEF MenuRepairSpec

-----------------------------------------------------------------------------
(* DeliveryPage.  What a page sends is what it showed, and the owner learns  *)
(* of each send, for any number of drafts and sends.  The page waits for one *)
(* call about an operation at a time, the one it shows; and what was sent    *)
(* is what the storage names, or the owner was told of it.                   *)

(* The page waits for an answer about an operation.                         *)
Awaits(q) == q.heard /\ q.kind # "preview"

(* One such call at most is out, it is about the operation on the page, and *)
(* what the page forgot is a send on its way.                               *)
CallsOK ==
  /\ \A p, q \in calls : Awaits(p) /\ Awaits(q) => p = q
  /\ \A q \in calls : Awaits(q) =>
       /\ q.op = form.op
       /\ q.kind \in {"send", "recheck"} => form.phase = "submitting"
       /\ q.kind \in {"status", "hydrate"} => form.phase = "checking"
  /\ \A q \in calls :
       /\ q.kind # "preview" => q.op \in Sends
       /\ ~q.heard => q.kind = "send" /\ q.answer = "sent"
       /\ form.phase = "closed" => ~q.heard
       /\ q.kind = "send" => q.token = q.draft

(* What was sent is what the storage names, or the owner was told of it.    *)
FormOK ==
  /\ form.phase \in Editable \cup {"closed"} => form.op = Nothing /\ form.result = "none"
  /\ form.phase \notin Editable \cup {"closed"} => form.op \in Sends /\ stored = form.op
  /\ form.phase = "submitting" => form.result = "none"
  /\ form.phase \in Terminals \cup {"rejected"} => form.op \in told
  /\ used \subseteq told \cup {stored}
  /\ form.phase \in Editable => used \subseteq told

(* The preview awaited is the one asked for last.                           *)
PreviewsOK ==
  /\ \A q \in calls : q.kind = "preview" => q.request <= asked
  /\ form.phase = "previewing" =>
       \A q \in calls : q.kind = "preview" /\ q.request = form.request => q.draft = form.input
  /\ form.phase \in {"preview", "submitting"} => form.preview = form.input

(* What an answer says of an attempt, and the page of it, stays true.       *)
Known(o, result) ==
  /\ result \in Results => attempt[o] # "none"
  /\ result \in Terminals => attempt[o] = result

KnownOK ==
  /\ \A q \in calls : q.kind # "preview" => Known(q.op, q.answer)
  /\ \A q \in calls : Awaits(q) /\ q.answer = "missing" => form.result = "none"
  /\ form.result \in Results => Known(form.op, form.result)

PageInv == DeliveryPageTypeOK /\ CallsOK /\ FormOK /\ PreviewsOK /\ KnownOK

(* A result is not replaced by doubt.                                       *)
NoDoubt == form.result # "none" /\ form'.op = form.op => form'.result # "none"

LEMMA PageTypes ==
  ASSUME DeliveryPageTypeOK
  PROVE  /\ form \in Form /\ asked \in Nat /\ MaxAsked \in Nat /\ asked <= MaxAsked
         /\ calls \subseteq Call /\ stored \in Sends \cup {Nothing}
         /\ attempt \in [Sends -> Results \cup {"none"}]
         /\ used \subseteq Sends /\ told \subseteq Sends
         /\ Nothing \notin Drafts /\ Nothing \notin Sends
         /\ \A q \in calls : q.request \in Nat
BY DeliveryPageAssumption DEF DeliveryPageTypeOK, Call

LEMMA BlankIs ==
  /\ Blank \in Form /\ Blank.phase = "editing" /\ Blank.op = Nothing
  /\ Blank.result = "none"
  /\ Closed \in Form /\ Closed.phase = "closed" /\ Closed.op = Nothing
  /\ Closed.result = "none"
<1>1. 0 \in 0..MaxAsked
  BY DeliveryPageAssumption
<1> QED
  BY <1>1 DEF Blank, Closed, Form

LEMMA RequestIs ==
  ASSUME NEW kind \in {"preview", "send", "recheck", "status", "hydrate"},
         NEW o \in Sends \cup {Nothing}
  PROVE  /\ Request(kind, o) \in Call /\ Request(kind, o).kind = kind
         /\ Request(kind, o).op = o /\ Request(kind, o).heard
         /\ Request(kind, o).answer = "sent" /\ Request(kind, o).request = 0
<1>1. 0 \in 0..MaxAsked
  BY DeliveryPageAssumption
<1> QED
  BY <1>1 DEF Request, Call, Answers

(* A call with another answer is the same call.                             *)
SameCall(x, q) ==
  /\ x \in Call /\ x.kind = q.kind /\ x.request = q.request /\ x.draft = q.draft
  /\ x.token = q.token /\ x.op = q.op

LEMMA AnsweredIs ==
  ASSUME DeliveryPageTypeOK, NEW q \in calls, NEW answer \in Answers, Answered(q, answer)
  PROVE  \A x \in calls' :
           \/ x \in calls \ {q}
           \/ q.heard /\ x.heard /\ SameCall(x, q) /\ x.answer = answer
<1> DEFINE k == [q EXCEPT !.answer = answer]
<1>1. SameCall(k, q) /\ k.heard = q.heard /\ k.answer = answer
  BY PageTypes DEF SameCall, Call
<1>2. calls' = (calls \ {q}) \cup (IF q.heard THEN {k} ELSE {})
  BY DEF Answered
<1> HIDE DEF k
<1> QED
  BY <1>1, <1>2

LEMMA ShowingIs ==
  ASSUME DeliveryPageTypeOK,
         NEW phase \in {"uncertain", "rejected"} \cup Results, Showing(phase)
  PROVE  /\ form' \in Form /\ form'.phase = phase /\ form'.op = form.op
         /\ form'.result = IF phase \in Results THEN phase ELSE "none"
         /\ told' = IF phase \in Terminals \cup {"rejected"} THEN told \cup {form.op} ELSE told
<1> DEFINE result == IF phase \in Results THEN phase ELSE "none"
           f == [form EXCEPT !.phase = phase, !.result = result]
<1>1. result \in Results \cup {"none"}
  OBVIOUS
<1> HIDE DEF result
<1>2. f \in Form /\ f.phase = phase /\ f.op = form.op /\ f.result = result
  BY <1>1, PageTypes DEF Form
<1>3. form' = f
  BY DEF Showing, result
<1> HIDE DEF f
<1> QED
  BY <1>2, <1>3 DEF result, Showing

-----------------------------------------------------------------------------
(* The server                                                               *)

(* The calls after an answer to one of them: still about what they were.    *)
LEMMA AnswerKeepsCalls ==
  ASSUME PageInv, NEW q \in calls, NEW answer \in Answers, Answered(q, answer),
         UNCHANGED <<form, asked, stored, attempt, used, told>>,
         q.kind # "preview" => Known(q.op, answer),
         Awaits(q) /\ answer = "missing" => form.result = "none"
  PROVE  PageInv' /\ NoDoubt
<1>1. \A x \in calls' :
        \/ x \in calls \ {q}
        \/ q.heard /\ x.heard /\ SameCall(x, q) /\ x.answer = answer
  BY AnsweredIs DEF PageInv
<1>2. \A x, y \in calls' : x \notin calls \ {q} /\ y \notin calls \ {q} => x = y
  BY DEF Answered
<1>3. DeliveryPageTypeOK'
  BY <1>1 DEF PageInv, DeliveryPageTypeOK, SameCall
<1>4. CallsOK'
  <2>1. \A x \in calls' : Awaits(x) =>
          \E y \in calls : Awaits(y) /\ y.op = x.op /\ y.kind = x.kind
                           /\ (x \in calls \ {q} => y = x) /\ (x \notin calls \ {q} => y = q)
    BY <1>1 DEF Awaits, SameCall
  <2>2. \A x, y \in calls' : Awaits(x) /\ Awaits(y) => x = y
    BY <1>2, <2>1 DEF PageInv, CallsOK
  <2>3. \A x \in calls' : Awaits(x) =>
          /\ x.op = form.op
          /\ x.kind \in {"send", "recheck"} => form.phase = "submitting"
          /\ x.kind \in {"status", "hydrate"} => form.phase = "checking"
    BY <2>1 DEF PageInv, CallsOK
  <2>4. \A x \in calls' :
          /\ x.kind # "preview" => x.op \in Sends
          /\ ~x.heard => x.kind = "send" /\ x.answer = "sent"
          /\ form.phase = "closed" => ~x.heard
          /\ x.kind = "send" => x.token = x.draft
    BY <1>1 DEF PageInv, CallsOK, SameCall
  <2> QED
    BY <2>2, <2>3, <2>4 DEF CallsOK, Awaits
<1>5. FormOK'
  BY DEF PageInv, FormOK
<1>6. PreviewsOK'
  BY <1>1 DEF PageInv, PreviewsOK, SameCall
<1>7. KnownOK'
  <2>1. \A x \in calls' : x.kind # "preview" => Known(x.op, x.answer)
    BY <1>1 DEF PageInv, KnownOK, SameCall
  <2>2. \A x \in calls' : Awaits(x) /\ x.answer = "missing" => form.result = "none"
    BY <1>1 DEF PageInv, KnownOK, SameCall, Awaits
  <2> QED
    BY <2>1, <2>2 DEF PageInv, KnownOK, Known, Awaits
<1> QED
  BY <1>3, <1>4, <1>5, <1>6, <1>7 DEF PageInv, NoDoubt

LEMMA AnswerPreviewKeeps ==
  ASSUME PageInv, NEW q \in calls, AnswerPreview(q)
  PROVE  PageInv' /\ NoDoubt
<1>1. PICK answer \in {"preview", "refused", "expired"} : Answered(q, answer)
  BY DEF AnswerPreview
<1>2. answer \in Answers
  BY DEF Answers
<1> QED
  BY <1>1, <1>2, AnswerKeepsCalls DEF AnswerPreview, Awaits

LEMMA AnswerStatusKeeps ==
  ASSUME PageInv, NEW q \in calls, AnswerStatus(q)
  PROVE  PageInv' /\ NoDoubt
<1>1. /\ q.kind # "preview" /\ q.op \in Sends /\ attempt[q.op] \in Results \cup {"none"}
      /\ UNCHANGED <<form, asked, stored, attempt, used, told>>
  BY PageTypes DEF AnswerStatus, PageInv, CallsOK
<1>2. CASE attempt[q.op] # "none" /\ Answered(q, attempt[q.op])
  BY <1>1, <1>2, AnswerKeepsCalls DEF Answers, Known, Results, Terminals
<1>3. CASE attempt[q.op] = "none" /\ q.kind # "send" /\ Answered(q, "missing")
  <2>1. Awaits(q) => form.result = "none"
    <3>1. form.result \in Results \cup {"none"}
      BY PageTypes DEF PageInv, Form
    <3> QED
      BY <1>3, <3>1 DEF PageInv, KnownOK, CallsOK, Known
  <2>2. "missing" \in Answers /\ Known(q.op, "missing")
    BY DEF Answers, Known, Results, Terminals
  <2> QED
    BY <1>1, <1>3, <2>1, <2>2, AnswerKeepsCalls
<1>4. CASE \E answer \in {"refused", "expired"} : Answered(q, answer)
  <2>1. PICK answer \in {"refused", "expired"} : Answered(q, answer)
    BY <1>4
  <2>2. answer \in Answers /\ Known(q.op, answer)
    BY DEF Answers, Known, Results, Terminals
  <2> QED
    BY <1>1, <2>1, <2>2, AnswerKeepsCalls
<1> QED
  BY <1>2, <1>3, <1>4 DEF AnswerStatus

(* The attempt is recorded, or it comes to its end.                         *)
LEMMA AttemptKeeps ==
  ASSUME PageInv, NEW o \in Sends, NEW status \in Results,
         attempt' = [attempt EXCEPT ![o] = status], attempt[o] \in {"none", "processing"},
         UNCHANGED <<form, asked, stored, calls, used, told>>
  PROVE  PageInv' /\ NoDoubt
<1>1. /\ attempt \in [Sends -> Results \cup {"none"}] /\ attempt' \in [Sends -> Results \cup {"none"}]
      /\ attempt'[o] = status /\ \A p \in Sends : p # o => attempt'[p] = attempt[p]
  BY PageTypes DEF PageInv
<1>2. status # "none" /\ attempt[o] \notin Terminals
  BY DEF Results, Terminals
<1>3. ASSUME NEW p \in Sends, NEW result, Known(p, result)
      PROVE  Known(p, result)'
  BY <1>1, <1>2, <1>3 DEF Known
<1>4. DeliveryPageTypeOK'
  BY <1>1 DEF PageInv, DeliveryPageTypeOK
<1>5. CallsOK' /\ FormOK' /\ PreviewsOK'
  BY DEF PageInv, CallsOK, FormOK, PreviewsOK, Awaits
<1>6. \A q \in calls : q.kind # "preview" => Known(q.op, q.answer)'
  BY <1>3 DEF PageInv, KnownOK, CallsOK
<1>7. form.result \in Results => Known(form.op, form.result)'
  <2>1. form.result \in Results => form.op \in Sends
    BY DEF PageInv, FormOK, Results, Terminals
  <2> QED
    BY <1>3, <2>1 DEF PageInv, KnownOK
<1>8. KnownOK'
  BY <1>6, <1>7 DEF PageInv, KnownOK, Known, Awaits
<1> QED
  BY <1>4, <1>5, <1>8 DEF PageInv, NoDoubt

LEMMA BreakKeeps ==
  ASSUME PageInv, NEW q \in calls, Break(q)
  PROVE  PageInv' /\ NoDoubt
<1> DEFINE k == [q EXCEPT !.answer = "network"]
           l == [q EXCEPT !.heard = FALSE]
<1>1. /\ SameCall(k, q) /\ k.heard /\ k.answer = "network" /\ q.heard /\ q.answer = "sent"
      /\ SameCall(l, q) /\ ~l.heard /\ l.answer = "sent"
  BY PageTypes DEF SameCall, Call, Break, Answers, PageInv
<1>2. /\ \A x \in calls' : x \in calls \ {q} \/ x = k \/ (x = l /\ q.kind = "send")
      /\ UNCHANGED <<form, asked, stored, attempt, used, told>>
  BY DEF Break
<1> HIDE DEF k, l
<1>3. DeliveryPageTypeOK'
  BY <1>1, <1>2 DEF PageInv, DeliveryPageTypeOK, SameCall
<1>4. CallsOK'
  <2>1. \A x \in calls' : Awaits(x) => (x = k /\ Awaits(q)) \/ (x # k /\ x \in calls \ {q})
    BY <1>1, <1>2 DEF Awaits, SameCall
  <2>2. \A x, y \in calls' : Awaits(x) /\ Awaits(y) => x = y
    BY <2>1 DEF PageInv, CallsOK
  <2>3. \A x \in calls' : Awaits(x) =>
          /\ x.op = form.op
          /\ x.kind \in {"send", "recheck"} => form.phase = "submitting"
          /\ x.kind \in {"status", "hydrate"} => form.phase = "checking"
    BY <1>1, <2>1 DEF PageInv, CallsOK, SameCall
  <2>4. \A x \in calls' :
          /\ x.kind # "preview" => x.op \in Sends
          /\ ~x.heard => x.kind = "send" /\ x.answer = "sent"
          /\ form.phase = "closed" => ~x.heard
          /\ x.kind = "send" => x.token = x.draft
    BY <1>1, <1>2 DEF PageInv, CallsOK, SameCall
  <2> QED
    BY <1>2, <2>2, <2>3, <2>4 DEF CallsOK, Awaits
<1>5. FormOK'
  BY <1>2 DEF PageInv, FormOK
<1>6. PreviewsOK'
  BY <1>1, <1>2 DEF PageInv, PreviewsOK, SameCall
<1>7. KnownOK'
  <2>1. \A x \in calls' : x.kind # "preview" => Known(x.op, x.answer)
    BY <1>1, <1>2 DEF PageInv, KnownOK, SameCall, Known, Results, Terminals
  <2>2. \A x \in calls' : Awaits(x) /\ x.answer = "missing" => form.result = "none"
    BY <1>1, <1>2 DEF PageInv, KnownOK, SameCall, Awaits
  <2> QED
    BY <1>2, <2>1, <2>2 DEF PageInv, KnownOK, Known, Awaits
<1> QED
  BY <1>2, <1>3, <1>4, <1>5, <1>6, <1>7 DEF PageInv, NoDoubt

-----------------------------------------------------------------------------
(* The page comes and goes                                                  *)

LEMMA MountKeeps ==
  ASSUME PageInv, Mount
  PROVE  PageInv' /\ NoDoubt
<1>1. /\ form.phase = "closed" /\ asked' = 0 /\ UNCHANGED <<stored, attempt, used, told>>
      /\ \A q \in calls : ~q.heard /\ q.kind = "send"
      /\ 0 \in 0..MaxAsked
  BY DeliveryPageAssumption DEF Mount, PageInv, CallsOK
<1>2. CASE stored = Nothing
  <2>1. form' = Blank /\ UNCHANGED calls
    BY <1>2 DEF Mount
  <2>2. used \subseteq told
    BY <1>2, PageTypes DEF PageInv, FormOK
  <2>3. DeliveryPageTypeOK'
    BY <1>1, <2>1, BlankIs DEF PageInv, DeliveryPageTypeOK
  <2>4. CallsOK' /\ PreviewsOK'
    BY <1>1, <2>1, BlankIs DEF PageInv, CallsOK, PreviewsOK, Awaits
  <2>5. FormOK'
    BY <1>1, <2>1, <2>2, BlankIs DEF PageInv, FormOK, Editable, Terminals
  <2>6. KnownOK'
    BY <1>1, <2>1, BlankIs DEF PageInv, KnownOK, Known, Awaits, Results, Terminals
  <2> QED
    BY <1>1, <2>1, <2>3, <2>4, <2>5, <2>6 DEF PageInv, NoDoubt, FormOK
<1>3. CASE stored # Nothing
  <2> DEFINE f == [Blank EXCEPT !.phase = "checking", !.op = stored]
             r == Request("hydrate", stored)
  <2>1. stored \in Sends
    BY <1>3, PageTypes DEF PageInv
  <2>2. f \in Form /\ f.phase = "checking" /\ f.op = stored /\ f.result = "none"
    BY <2>1, BlankIs DEF Form
  <2>3. r \in Call /\ r.kind = "hydrate" /\ r.op = stored /\ r.heard /\ r.answer = "sent"
    BY <2>1, RequestIs
  <2>4. form' = f /\ calls' = calls \cup {r}
    BY <1>3 DEF Mount
  <2> HIDE DEF f, r
  <2>5. DeliveryPageTypeOK'
    BY <1>1, <2>2, <2>3, <2>4 DEF PageInv, DeliveryPageTypeOK
  <2>6. CallsOK' /\ PreviewsOK'
    BY <1>1, <2>1, <2>2, <2>3, <2>4 DEF PageInv, CallsOK, PreviewsOK, Awaits
  <2>7. FormOK'
    BY <1>1, <2>1, <2>2, <2>4 DEF PageInv, FormOK, Editable, Terminals
  <2>8. KnownOK'
    BY <1>1, <2>2, <2>3, <2>4 DEF PageInv, KnownOK, Known, Awaits, Results, Terminals
  <2> QED
    BY <1>1, <2>5, <2>6, <2>7, <2>8 DEF PageInv, NoDoubt, FormOK
<1> QED
  BY <1>2, <1>3

LEMMA UnmountKeeps ==
  ASSUME PageInv, Unmount
  PROVE  PageInv' /\ NoDoubt
<1>1. form.phase # "closed" /\ form' = Closed /\ calls' = Orphaned
      /\ UNCHANGED <<asked, stored, attempt, used, told>>
  BY DEF Unmount
<1>2. \A x \in calls' : \E q \in calls : q.kind = "send" /\ q.answer = "sent"
                          /\ SameCall(x, q) /\ ~x.heard /\ x.answer = "sent"
  <2>1. ASSUME NEW q \in calls
        PROVE  /\ SameCall([q EXCEPT !.heard = FALSE], q) /\ ~[q EXCEPT !.heard = FALSE].heard
               /\ [q EXCEPT !.heard = FALSE].answer = q.answer
    BY PageTypes DEF SameCall, Call, PageInv
  <2> QED
    BY <1>1, <2>1 DEF Orphaned
<1>3. DeliveryPageTypeOK'
  BY <1>1, <1>2, BlankIs DEF PageInv, DeliveryPageTypeOK, SameCall
<1>4. CallsOK' /\ PreviewsOK'
  BY <1>1, <1>2, BlankIs DEF PageInv, CallsOK, PreviewsOK, Awaits, SameCall
<1>5. FormOK'
  BY <1>1, BlankIs DEF PageInv, FormOK, Editable, Terminals
<1>6. KnownOK'
  BY <1>1, <1>2, BlankIs DEF PageInv, KnownOK, Known, Awaits, Results, Terminals, SameCall
<1>7. NoDoubt
  <2>1. form'.op = form.op => form.phase \in Editable \cup {"closed"}
    BY <1>1, BlankIs, PageTypes DEF PageInv, FormOK
  <2> QED
    BY <2>1 DEF NoDoubt, PageInv, FormOK
<1> QED
  BY <1>3, <1>4, <1>5, <1>6, <1>7 DEF PageInv

LEMMA ClearAllKeeps ==
  ASSUME PageInv, ClearAll
  PROVE  PageInv' /\ NoDoubt
<1>1. /\ form.phase = "closed" /\ stored' = Nothing /\ told' = used
      /\ UNCHANGED <<form, asked, calls, attempt, used>>
  BY DEF ClearAll
<1>2. DeliveryPageTypeOK'
  BY <1>1 DEF PageInv, DeliveryPageTypeOK
<1>3. CallsOK' /\ PreviewsOK' /\ KnownOK'
  BY <1>1 DEF PageInv, CallsOK, PreviewsOK, KnownOK, Known, Awaits
<1>4. FormOK'
  BY <1>1 DEF PageInv, FormOK, Editable, Terminals
<1> QED
  BY <1>1, <1>2, <1>3, <1>4 DEF PageInv, NoDoubt

-----------------------------------------------------------------------------
(* Writing and confirming                                                   *)

(* Back to the form: nothing is waited for but previews that come too late. *)
LEMMA WritesKeep ==
  ASSUME PageInv, NEW f \in Form, form' = f, f.phase = "editing", f.op = Nothing,
         f.result = "none", form.phase \in Editable \cup {"succeeded", "failed", "rejected"},
         stored' \in {stored, Nothing}, UNCHANGED <<asked, calls, attempt, used, told>>
  PROVE  PageInv' /\ NoDoubt
<1>1. used \subseteq told
  BY DEF PageInv, FormOK, Terminals, Editable
<1>2. DeliveryPageTypeOK'
  BY PageTypes DEF PageInv, DeliveryPageTypeOK
<1>3. CallsOK'
  BY DEF PageInv, CallsOK, Awaits, Editable, Call, DeliveryPageTypeOK
<1>4. PreviewsOK'
  BY DEF PageInv, PreviewsOK
<1>5. KnownOK'
  BY DEF PageInv, KnownOK, Known, Awaits, Results, Terminals
<1>6. FormOK'
  BY <1>1 DEF PageInv, FormOK, Editable, Terminals
<1>7. NoDoubt
  BY PageTypes DEF PageInv, FormOK, NoDoubt
<1> QED
  BY <1>2, <1>3, <1>4, <1>5, <1>6, <1>7 DEF PageInv

LEMMA WritingKeeps ==
  ASSUME PageInv, (\E d \in Drafts : Edit(d)) \/ BackToEditing \/ NewDelivery
  PROVE  PageInv' /\ NoDoubt
<1>1. ASSUME NEW d \in Drafts \cup {Nothing}
      PROVE  LET f == [Blank EXCEPT !.input = d] IN
             f \in Form /\ f.phase = "editing" /\ f.op = Nothing /\ f.result = "none"
  BY BlankIs DEF Form
<1>2. CASE \E d \in Drafts : Edit(d)
  BY <1>1, <1>2, WritesKeep DEF Edit
<1>3. CASE BackToEditing
  <2>1. form.input \in Drafts \cup {Nothing}
    BY PageTypes DEF PageInv, Form
  <2> QED
    BY <1>1, <1>3, <2>1, WritesKeep DEF BackToEditing, Editable
<1>4. CASE NewDelivery
  BY <1>4, BlankIs, WritesKeep DEF NewDelivery
<1> QED
  BY <1>2, <1>3, <1>4

LEMMA AskPreviewKeeps ==
  ASSUME PageInv, AskPreview
  PROVE  PageInv' /\ NoDoubt
<1> DEFINE f == [form EXCEPT !.phase = "previewing", !.request = asked + 1]
           r == [Request("preview", Nothing) EXCEPT !.request = asked + 1, !.draft = form.input]
<1>1. /\ form.phase = "editing" /\ asked' = asked + 1 /\ form' = f /\ calls' = calls \cup {r}
      /\ UNCHANGED <<stored, attempt, used, told>>
  BY DEF AskPreview
<1>2. asked + 1 \in 0..MaxAsked /\ asked \in Nat
  BY PageTypes DEF AskPreview, PageInv
<1>3. /\ f \in Form /\ f.phase = "previewing" /\ f.request = asked + 1 /\ f.op = form.op
      /\ f.result = form.result /\ f.input = form.input
  BY <1>2, PageTypes DEF Form, PageInv
<1>4. r \in Call /\ r.kind = "preview" /\ r.request = asked + 1 /\ r.draft = form.input /\ r.heard
  <2>1. form.input \in Drafts \cup {Nothing}
    BY PageTypes DEF Form, PageInv
  <2>2. Request("preview", Nothing) \in Call /\ Request("preview", Nothing).kind = "preview"
        /\ Request("preview", Nothing).heard
    BY RequestIs
  <2> QED
    BY <1>2, <2>1, <2>2 DEF Call
<1> HIDE DEF f, r
<1>5. DeliveryPageTypeOK'
  BY <1>1, <1>2, <1>3, <1>4 DEF PageInv, DeliveryPageTypeOK
<1>6. CallsOK'
  BY <1>1, <1>3, <1>4 DEF PageInv, CallsOK, Awaits
<1>7. PreviewsOK'
  BY <1>1, <1>2, <1>3, <1>4, PageTypes DEF PageInv, PreviewsOK
<1>8. KnownOK' /\ FormOK' /\ NoDoubt
  BY <1>1, <1>3, <1>4
     DEF PageInv, KnownOK, Known, Awaits, FormOK, Editable, Terminals, NoDoubt
<1> QED
  BY <1>5, <1>6, <1>7, <1>8 DEF PageInv

LEMMA TakePreviewKeeps ==
  ASSUME PageInv, NEW q \in calls, TakePreview(q)
  PROVE  PageInv' /\ NoDoubt
<1>1. /\ q.kind = "preview" /\ q.heard /\ calls' = calls \ {q}
      /\ UNCHANGED <<asked, stored, attempt, used, told>>
  BY DEF TakePreview
<1>2. /\ form' \in Form /\ form'.op = form.op /\ form'.result = form.result
      /\ \/ form' = form
         \/ /\ form.phase = "previewing"
            /\ \/ form'.phase = "preview" /\ form'.preview = form'.input
               \/ form'.phase = "editing"
  <2>1. CASE ~Awaited(q)
    BY <2>1, PageTypes DEF TakePreview, PageInv
  <2>2. CASE Awaited(q) /\ q.answer = "preview"
    <3>1. form' = [form EXCEPT !.phase = "preview", !.request = 0, !.preview = q.draft]
      BY <2>2 DEF TakePreview
    <3>2. 0 \in 0..MaxAsked /\ q.draft \in Drafts \cup {Nothing}
      BY DeliveryPageAssumption, PageTypes DEF PageInv, Call
    <3>3. form.phase = "previewing" /\ q.draft = form.input
      BY <1>1, <2>2 DEF Awaited, PageInv, PreviewsOK
    <3> QED
      BY <3>1, <3>2, <3>3, PageTypes DEF Form, PageInv
  <2>3. CASE Awaited(q) /\ q.answer # "preview"
    <3>1. form' = [form EXCEPT !.phase = "editing", !.request = 0]
      BY <2>3 DEF TakePreview
    <3>2. 0 \in 0..MaxAsked
      BY DeliveryPageAssumption
    <3> QED
      BY <2>3, <3>1, <3>2, PageTypes DEF Form, PageInv, Awaited
  <2> QED
    BY <2>1, <2>2, <2>3
<1>3. DeliveryPageTypeOK'
  BY <1>1, <1>2 DEF PageInv, DeliveryPageTypeOK
<1>4. CallsOK'
  BY <1>1, <1>2 DEF PageInv, CallsOK, Awaits
<1>5. PreviewsOK' /\ KnownOK' /\ FormOK' /\ NoDoubt
  BY <1>1, <1>2
     DEF PageInv, PreviewsOK, KnownOK, Known, Awaits, FormOK, Editable, Terminals, NoDoubt
<1> QED
  BY <1>3, <1>4, <1>5 DEF PageInv

-----------------------------------------------------------------------------
(* Sending and asking for the status                                        *)

(* In these phases the page waits for nothing but previews.                 *)
LEMMA NothingAwaited ==
  ASSUME PageInv, form.phase \notin {"submitting", "checking"}
  PROVE  \A q \in calls : ~Awaits(q)
<1>1. \A q \in calls : q.kind \in {"preview", "send", "recheck", "status", "hydrate"}
  BY PageTypes DEF PageInv, Call
<1> QED
  BY <1>1 DEF PageInv, CallsOK, Awaits

(* The page asks about its operation, and waits for the answer.             *)
LEMMA AsksKeep ==
  ASSUME PageInv, NEW f \in Form, NEW r \in Call, form' = f, calls' = calls \cup {r},
         \A q \in calls : ~Awaits(q),
         form.phase # "closed",
         f.op \in Sends, r.op = f.op, r.heard, r.answer = "sent", f.result = form.result,
         f.op # form.op => f.result = "none",
         \/ r.kind = "status" /\ f.phase = "checking"
         \/ r.kind = "send" /\ f.phase = "submitting" /\ r.token = r.draft
            /\ f.preview = f.input /\ f.result = "none",
         stored' = f.op, used' \in SUBSET Sends, used' \subseteq told \cup {stored'},
         UNCHANGED <<asked, attempt, told>>
  PROVE  PageInv' /\ NoDoubt
<1>1. DeliveryPageTypeOK'
  BY DEF PageInv, DeliveryPageTypeOK
<1>2. CallsOK'
  BY DEF PageInv, CallsOK, Awaits
<1>3. FormOK'
  BY DEF PageInv, FormOK, Editable, Terminals
<1>4. PreviewsOK'
  BY DEF PageInv, PreviewsOK
<1>5. KnownOK'
  <2>1. \A q \in calls' : q.kind # "preview" => Known(q.op, q.answer)'
    BY DEF PageInv, KnownOK, Known, Results, Terminals
  <2>2. \A q \in calls' : ~(Awaits(q) /\ q.answer = "missing")
    OBVIOUS
  <2>3. (form.result \in Results => Known(form.op, form.result))'
    BY DEF PageInv, KnownOK, Known, Results, Terminals
  <2> QED
    BY <2>1, <2>2, <2>3 DEF KnownOK, Known, Awaits
<1> QED
  BY <1>1, <1>2, <1>3, <1>4, <1>5 DEF PageInv, NoDoubt

LEMMA SubmitKeeps ==
  ASSUME PageInv, NEW o \in Sends, Submit(o)
  PROVE  PageInv' /\ NoDoubt
<1> DEFINE f == [form EXCEPT !.phase = "submitting", !.op = o]
           r == [Request("send", o) EXCEPT !.draft = form.input, !.token = form.preview]
<1>1. /\ form.phase = "preview" /\ stored' = o /\ form' = f /\ used' = used \cup {o}
      /\ calls' = calls \cup {r} /\ UNCHANGED <<asked, attempt, told>>
  BY DEF Submit
<1>2. form.preview = form.input /\ form.result = "none" /\ used \subseteq told
  BY <1>1 DEF PageInv, PreviewsOK, FormOK, Editable
<1>3. /\ f \in Form /\ f.phase = "submitting" /\ f.op = o /\ f.preview = form.preview
      /\ f.input = form.input /\ f.result = form.result
      /\ form.input \in Drafts \cup {Nothing} /\ form.preview \in Drafts \cup {Nothing}
  BY PageTypes DEF PageInv, Form
<1>4. /\ r \in Call /\ r.kind = "send" /\ r.op = o /\ r.heard /\ r.answer = "sent"
      /\ r.draft = form.input /\ r.token = form.preview
  <2>1. /\ Request("send", o) \in Call /\ Request("send", o).kind = "send"
        /\ Request("send", o).op = o /\ Request("send", o).heard
        /\ Request("send", o).answer = "sent"
    BY RequestIs
  <2> QED
    BY <1>3, <2>1 DEF Call
<1> HIDE DEF f, r
<1>5. used' \in SUBSET Sends /\ used' \subseteq told \cup {stored'}
  BY <1>1, <1>2, PageTypes DEF PageInv
<1>6. \A q \in calls : ~Awaits(q)
  BY <1>1, NothingAwaited
<1> QED
  BY <1>1, <1>2, <1>3, <1>4, <1>5, <1>6, AsksKeep

LEMMA CheckKeeps ==
  ASSUME PageInv, Check
  PROVE  PageInv' /\ NoDoubt
<1> DEFINE f == [form EXCEPT !.phase = "checking"]
           r == Request("status", form.op)
<1>1. /\ form.phase \in {"processing", "unknown", "succeeded", "uncertain"}
      /\ form' = f /\ calls' = calls \cup {r}
      /\ UNCHANGED <<asked, stored, attempt, used, told>>
  BY DEF Check
<1>2. form.op \in Sends /\ stored = form.op /\ used \subseteq told \cup {stored}
      /\ form.phase # "closed"
  BY <1>1 DEF PageInv, FormOK, Editable
<1>3. f \in Form /\ f.phase = "checking" /\ f.op = form.op /\ f.result = form.result
  BY PageTypes DEF PageInv, Form
<1>4. r \in Call /\ r.kind = "status" /\ r.op = form.op /\ r.heard /\ r.answer = "sent"
  BY <1>2, RequestIs
<1> HIDE DEF f, r
<1>5. \A q \in calls : ~Awaits(q)
  BY <1>1, NothingAwaited
<1>6. used' \in SUBSET Sends /\ used' \subseteq told \cup {stored'} /\ stored' = f.op
  BY <1>1, <1>2, <1>3, PageTypes DEF PageInv
<1> QED
  BY <1>1, <1>2, <1>3, <1>4, <1>5, <1>6, AsksKeep

LEMMA SendBrokenKeeps ==
  ASSUME PageInv, NEW q \in calls, SendBroken(q)
  PROVE  PageInv' /\ NoDoubt
<1> DEFINE r == Request("recheck", q.op)
<1>1. /\ q.kind = "send" /\ q.heard /\ calls' = (calls \ {q}) \cup {r}
      /\ UNCHANGED <<form, asked, stored, attempt, used, told>>
  BY DEF SendBroken
<1>2. /\ Awaits(q) /\ q.op \in Sends /\ form.phase = "submitting" /\ q.op = form.op
      /\ \A p \in calls \ {q} : ~Awaits(p)
  BY <1>1 DEF Awaits, PageInv, CallsOK
<1>3. r \in Call /\ r.kind = "recheck" /\ r.op = q.op /\ r.heard /\ r.answer = "sent"
  BY <1>2, RequestIs
<1> HIDE DEF r
<1>4. DeliveryPageTypeOK'
  BY <1>1, <1>3 DEF PageInv, DeliveryPageTypeOK
<1>5. CallsOK'
  BY <1>1, <1>2, <1>3 DEF PageInv, CallsOK, Awaits
<1>6. FormOK' /\ PreviewsOK' /\ NoDoubt
  BY <1>1, <1>3 DEF PageInv, FormOK, PreviewsOK, NoDoubt
<1>7. KnownOK'
  BY <1>1, <1>3 DEF PageInv, KnownOK, Known, Awaits, Results, Terminals
<1> QED
  BY <1>4, <1>5, <1>6, <1>7 DEF PageInv

(* The answer awaited is taken, and the page shows what it says.            *)
LEMMA TakesKeep ==
  ASSUME PageInv, NEW q \in calls, Awaits(q), calls' = calls \ {q},
         NEW phase \in {"uncertain", "rejected"} \cup Results, Showing(phase),
         phase \in Results => Known(form.op, phase),
         form.result # "none" => phase \in Results,
         UNCHANGED <<asked, stored, attempt, used>>
  PROVE  PageInv' /\ NoDoubt
<1>1. /\ form' \in Form /\ form'.phase = phase /\ form'.op = form.op
      /\ form'.result = IF phase \in Results THEN phase ELSE "none"
      /\ told' = IF phase \in Terminals \cup {"rejected"} THEN told \cup {form.op} ELSE told
  BY ShowingIs DEF PageInv
<1>2. \A p \in calls' : ~Awaits(p)
  BY DEF PageInv, CallsOK
<1>3. form.op \in Sends /\ stored = form.op
  BY DEF PageInv, CallsOK, FormOK, Awaits, Editable, Call, DeliveryPageTypeOK
<1>4. DeliveryPageTypeOK'
  BY <1>1, <1>3 DEF PageInv, DeliveryPageTypeOK
<1>5. CallsOK'
  BY <1>1, <1>2 DEF PageInv, CallsOK, Awaits, Results, Terminals
<1>6. FormOK'
  BY <1>1, <1>3 DEF PageInv, FormOK, Editable, Terminals, Results
<1>7. PreviewsOK'
  BY <1>1 DEF PageInv, PreviewsOK, Results, Terminals
<1>8. KnownOK'
  <2>1. \A p \in calls' : p.kind # "preview" => Known(p.op, p.answer)'
    BY DEF PageInv, KnownOK, Known
  <2>2. (form.result \in Results => Known(form.op, form.result))'
    BY <1>1 DEF Known, Results, Terminals
  <2> QED
    BY <1>2, <2>1, <2>2 DEF KnownOK, Known, Awaits
<1>9. NoDoubt
  BY <1>1 DEF NoDoubt, Results, Terminals
<1> QED
  BY <1>4, <1>5, <1>6, <1>7, <1>8, <1>9 DEF PageInv

LEMMA UpdatedKeeps ==
  ASSUME PageInv, NEW q \in calls, Awaits(q), calls' = calls \ {q}, Updated(q),
         UNCHANGED <<asked, stored, attempt, used>>
  PROVE  PageInv' /\ NoDoubt
<1>1. form.op = q.op /\ q.answer \in Results /\ Showing(q.answer) /\ Known(q.op, q.answer)
  BY DEF Updated, PageInv, KnownOK, Awaits
<1> QED
  BY <1>1, TakesKeep

LEMMA NetworkFailedKeeps ==
  ASSUME PageInv, NEW q \in calls, Awaits(q), calls' = calls \ {q}, NetworkFailed,
         UNCHANGED <<asked, stored, attempt, used>>
  PROVE  PageInv' /\ NoDoubt
<1>1. form.result \in Results \cup {"none"}
  BY PageTypes DEF PageInv, Form
<1>2. CASE form.result # "none"
  <2>1. form.result \in Results /\ Showing(form.result) /\ Known(form.op, form.result)
    BY <1>1, <1>2 DEF NetworkFailed, PageInv, KnownOK
  <2> QED
    BY <2>1, TakesKeep
<1>3. CASE form.result = "none"
  <2>1. Showing("uncertain") /\ "uncertain" \notin Results
    BY <1>3 DEF NetworkFailed, Results, Terminals
  <2> QED
    BY <1>3, <2>1, TakesKeep
<1> QED
  BY <1>2, <1>3

(* The session has expired: the page waits to be unmounted.                 *)
LEMMA ExpiredKeeps ==
  ASSUME PageInv, NEW q \in calls, Awaits(q), calls' = calls \ {q},
         UNCHANGED <<form, told, stored, asked, attempt, used>>
  PROVE  PageInv' /\ NoDoubt
<1>1. DeliveryPageTypeOK' /\ CallsOK'
  BY DEF PageInv, DeliveryPageTypeOK, CallsOK, Awaits
<1>2. FormOK' /\ PreviewsOK' /\ KnownOK' /\ NoDoubt
  BY DEF PageInv, FormOK, PreviewsOK, KnownOK, Known, Awaits, NoDoubt
<1> QED
  BY <1>1, <1>2 DEF PageInv

LEMMA TakeSendKeeps ==
  ASSUME PageInv, NEW q \in calls, TakeSend(q)
  PROVE  PageInv' /\ NoDoubt
<1>1. /\ Awaits(q) /\ q.kind \in {"send", "recheck"} /\ calls' = calls \ {q}
      /\ UNCHANGED <<asked, stored, attempt, used>>
  BY DEF TakeSend, Awaits
<1>2. form.result = "none"
  BY <1>1 DEF PageInv, CallsOK, FormOK
<1>3. CASE Showing("rejected")
  <2>1. "rejected" \notin Results
    BY DEF Results, Terminals
  <2> QED
    BY <1>1, <1>2, <1>3, <2>1, TakesKeep
<1> QED
  BY <1>1, <1>3, UpdatedKeeps, NetworkFailedKeeps DEF TakeSend

LEMMA TakeStatusKeeps ==
  ASSUME PageInv, NEW q \in calls, TakeStatus(q)
  PROVE  PageInv' /\ NoDoubt
<1>1. Awaits(q) /\ calls' = calls \ {q} /\ UNCHANGED <<asked, stored, attempt, used>>
  BY DEF TakeStatus, Awaits
<1>2. CASE q.answer = "missing" /\ Showing("uncertain")
  <2>1. "uncertain" \notin Results /\ form.result = "none"
    BY <1>1, <1>2 DEF Results, Terminals, PageInv, KnownOK
  <2> QED
    BY <1>1, <1>2, <2>1, TakesKeep
<1> QED
  BY <1>1, <1>2, UpdatedKeeps, NetworkFailedKeeps, ExpiredKeeps DEF TakeStatus

LEMMA TakeHydratedKeeps ==
  ASSUME PageInv, NEW q \in calls, TakeHydrated(q)
  PROVE  PageInv' /\ NoDoubt
<1>1. Awaits(q) /\ q.kind = "hydrate" /\ calls' = calls \ {q} /\ UNCHANGED <<asked, attempt, used>>
  BY DEF TakeHydrated, Awaits
<1>2. CASE q.answer = "missing" /\ stored' = Nothing /\ form' = Blank /\ told' = told \cup {q.op}
  <2>1. q.op = form.op /\ q.op \in Sends /\ form.phase = "checking" /\ stored = form.op
    BY <1>1 DEF PageInv, CallsOK, FormOK, Awaits, Editable
  <2>2. \A p \in calls' : ~Awaits(p)
    BY <1>1 DEF PageInv, CallsOK
  <2>3. DeliveryPageTypeOK'
    BY <1>1, <1>2, <2>1, BlankIs DEF PageInv, DeliveryPageTypeOK
  <2>4. CallsOK'
    BY <1>1, <1>2, <2>2, BlankIs DEF PageInv, CallsOK, Awaits
  <2>5. FormOK'
    BY <1>1, <1>2, <2>1, BlankIs DEF PageInv, FormOK, Editable, Terminals
  <2>6. PreviewsOK'
    BY <1>1, <1>2, BlankIs DEF PageInv, PreviewsOK
  <2>7. KnownOK'
    BY <1>1, <1>2, <2>2, BlankIs DEF PageInv, KnownOK, Known, Awaits, Results, Terminals
  <2>8. NoDoubt
    BY <1>2, <2>1, BlankIs, PageTypes DEF NoDoubt, PageInv
  <2> QED
    BY <2>3, <2>4, <2>5, <2>6, <2>7, <2>8 DEF PageInv
<1> QED
  BY <1>1, <1>2, UpdatedKeeps, NetworkFailedKeeps, ExpiredKeeps DEF TakeHydrated

-----------------------------------------------------------------------------

LEMMA PageAtFirst == DeliveryPageInit => PageInv
<1> SUFFICES ASSUME DeliveryPageInit PROVE PageInv
  OBVIOUS
<1>1. DeliveryPageTypeOK
  BY DeliveryPageAssumption, BlankIs DEF DeliveryPageInit, DeliveryPageTypeOK
<1>2. CallsOK /\ FormOK /\ PreviewsOK /\ KnownOK
  BY BlankIs
     DEF DeliveryPageInit, CallsOK, FormOK, PreviewsOK, KnownOK, Editable, Terminals, Results
<1> QED
  BY <1>1, <1>2 DEF PageInv

LEMMA PageNextKeeps ==
  ASSUME PageInv, DeliveryPageNext
  PROVE  PageInv' /\ NoDoubt
<1>1. CASE Mount \/ Unmount \/ ClearAll
  BY <1>1, MountKeeps, UnmountKeeps, ClearAllKeeps
<1>2. CASE AskPreview \/ Check
  BY <1>2, AskPreviewKeeps, CheckKeeps
<1>3. CASE BackToEditing \/ NewDelivery \/ \E d \in Drafts : Edit(d)
  BY <1>3, WritingKeeps
<1>4. CASE \E o \in Sends : Submit(o) \/ ConcludeAttempt(o)
  <2>1. ASSUME NEW o \in Sends, ConcludeAttempt(o)
        PROVE  PageInv' /\ NoDoubt
    BY <2>1, AttemptKeeps DEF ConcludeAttempt, Results
  <2> QED
    BY <1>4, <2>1, SubmitKeeps
<1>5. CASE \E q \in calls : AnswerPreview(q) \/ Arrive(q) \/ AnswerStatus(q) \/ Break(q)
  <2>1. ASSUME NEW q \in calls, Arrive(q)
        PROVE  PageInv' /\ NoDoubt
    <3>1. q.op \in Sends /\ "processing" \in Results
      BY <2>1 DEF Arrive, PageInv, CallsOK, Results
    <3> QED
      BY <2>1, <3>1, AttemptKeeps DEF Arrive
  <2> QED
    BY <1>5, <2>1, AnswerPreviewKeeps, AnswerStatusKeeps, BreakKeeps
<1>6. CASE \E q \in calls : TakePreview(q) \/ SendBroken(q) \/ TakeSend(q) \/ TakeStatus(q)
                            \/ TakeHydrated(q)
  BY <1>6, TakePreviewKeeps, SendBrokenKeeps, TakeSendKeeps, TakeStatusKeeps, TakeHydratedKeeps
<1> QED
  BY <1>1, <1>2, <1>3, <1>4, <1>5, <1>6 DEF DeliveryPageNext

LEMMA PageStepKeeps ==
  ASSUME PageInv, [DeliveryPageNext]_deliveryPageVars
  PROVE  PageInv'
<1>1. CASE UNCHANGED deliveryPageVars
  BY <1>1 DEF deliveryPageVars, PageInv, DeliveryPageTypeOK, CallsOK, FormOK, PreviewsOK,
              KnownOK, Known, Awaits
<1> QED
  BY <1>1, PageNextKeeps

LEMMA PageIsInvariant == DeliveryPageSpec => []PageInv
BY PageAtFirst, PageStepKeeps, PTL DEF DeliveryPageSpec

(* For any drafts and operations, what the owner sends is what the preview  *)
(* on the screen shows.                                                     *)
THEOREM SendsWhatIsShown == DeliveryPageSpec => []SentAsShown
<1>1. PageInv => SentAsShown
  BY DEF PageInv, PreviewsOK, CallsOK, SentAsShown
<1> QED
  BY <1>1, PageIsInvariant, PTL

(* Nothing is sent before the owner was told of what was sent before.       *)
THEOREM NothingSentUnknowingly == DeliveryPageSpec => []SendsKnowingly
<1>1. PageInv => SendsKnowingly
  BY DEF PageInv, FormOK, SendsKnowingly, Editable
<1> QED
  BY <1>1, PageIsInvariant, PTL

(* An outcome on the page is that of the attempt, and gives way to no doubt.*)
THEOREM OutcomesShown == DeliveryPageSpec => OutcomeShown
<1>1. PageInv => (form.result \in Terminals => attempt[form.op] = form.result)
  BY DEF PageInv, KnownOK, Known, Results
<1>2. PageInv /\ [DeliveryPageNext]_deliveryPageVars
        => [form.result # "none" /\ form'.op = form.op
              => form'.result # "none"]_deliveryPageVars
  BY PageNextKeeps DEF NoDoubt
<1> QED
  BY <1>1, <1>2, PageIsInvariant, PTL DEF DeliveryPageSpec, OutcomeShown

-----------------------------------------------------------------------------
(* OwnerSession.  A session is ready on a fresh login only, and a logout is  *)
(* not undone by a late answer.  The gate heeds one flow at a time, and      *)
(* after the server has ended a session none it heeds says otherwise.        *)

(* A flow of the gate that it still listens to.                             *)
Heeded(q) == q.kind \in GateFlows /\ q.life = "current"

FlowOK(q) ==
  /\ q.kind \notin GateFlows => q.answer # "authenticated"
  /\ q.step # "sent" => q.kind \in {"authenticate", "refresh"}
  /\ q.step = "permission" => q.answer \in Sessions

(* The gate listens to one flow at most.                                    *)
FlowsOK(fs) ==
  /\ fs \subseteq Flow
  /\ \A q \in fs : FlowOK(q)
  /\ \A p, q \in fs : Heeded(p) /\ Heeded(q) => p = q

(* When the server has ended the session on request, nobody the gate        *)
(* listens to says otherwise; and while it logs out it shows no page.       *)
LogoutOK ==
  out => /\ ~cookie /\ auth # "authenticated"
         /\ \A q \in flows : Heeded(q) => q.answer # "authenticated"
LeavingOK == \A q \in flows : Heeded(q) /\ q.kind = "logout" => auth # "authenticated"

(* A login that was asked for and is noticed is a fresh one.                *)
FreshOK == ReadyIsFresh /\ (flag /\ liff /\ ~client => fresh)

SessionInv == OwnerSessionTypeOK /\ FlowsOK(flows) /\ LogoutOK /\ LeavingOK /\ FreshOK

GateKept == FlowsOK(flows)' /\ LogoutOK' /\ LeavingOK'
TheRestKept ==
  /\ client' \in BOOLEAN /\ ready' \in BOOLEAN /\ flag' \in BOOLEAN /\ liff' \in BOOLEAN
  /\ fresh' \in BOOLEAN /\ preview' \in BOOLEAN /\ cookie' \in BOOLEAN /\ out' \in BOOLEAN
  /\ auth' \in AuthState /\ account' \in {"active"} \cup Stages /\ FreshOK'

LEMMA SessionTypes ==
  ASSUME SessionInv
  PROVE  /\ client \in BOOLEAN /\ ready \in BOOLEAN /\ flag \in BOOLEAN /\ liff \in BOOLEAN
         /\ fresh \in BOOLEAN /\ preview \in BOOLEAN /\ cookie \in BOOLEAN /\ out \in BOOLEAN
         /\ auth \in AuthState /\ flows \subseteq Flow /\ account \in {"active"} \cup Stages
BY DEF SessionInv, OwnerSessionTypeOK

LEMMA SessionParts ==
  ASSUME GateKept, TheRestKept
  PROVE  SessionInv'
BY DEF GateKept, TheRestKept, SessionInv, OwnerSessionTypeOK, FlowsOK

(* Nothing but the flows, the state shown and the preview changes.          *)
LEMMA RestIsQuiet ==
  ASSUME SessionInv, auth' \in AuthState, preview' \in BOOLEAN,
         UNCHANGED <<ready, flag, lineVars, serverVars>>
  PROVE  TheRestKept
BY SessionTypes DEF SessionInv, TheRestKept, lineVars, serverVars, FreshOK, ReadyIsFresh

-----------------------------------------------------------------------------
(* Flows                                                                    *)

LEMMA BegunIs ==
  ASSUME NEW kind \in GateFlows \cup {"work", "preview", "unlink", "resume"},
         NEW step \in {"init", "session", "permission", "login", "sent"},
         step # "sent" => kind \in {"authenticate", "refresh"}, step # "permission"
  PROVE  /\ Begun(kind, step) \in Flow /\ FlowOK(Begun(kind, step))
         /\ Begun(kind, step).kind = kind /\ Begun(kind, step).step = step
         /\ Begun(kind, step).answer = "none"
BY DEF Begun, Flow, FlowOK

LEMMA FewerFlows ==
  ASSUME NEW fs, FlowsOK(fs), NEW gs \in SUBSET fs
  PROVE  FlowsOK(gs)
BY DEF FlowsOK

LEMMA EndedIs ==
  ASSUME NEW q \in Flow, NEW condition \in BOOLEAN
  PROVE  /\ Ended(q, condition) \in Flow /\ Ended(q, condition).kind = q.kind
         /\ FlowOK(q) => FlowOK(Ended(q, condition))
         /\ Heeded(Ended(q, condition)) => ~condition /\ Ended(q, condition) = q
BY DEF Ended, Flow, FlowOK, Heeded

LEMMA SupersededIs ==
  ASSUME NEW fs, FlowsOK(fs)
  PROVE  FlowsOK(Superseded(fs)) /\ \A x \in Superseded(fs) : ~Heeded(x)
<1>1. ASSUME NEW q \in fs
      PROVE  LET x == Ended(q, q.kind \in GateFlows /\ q.life = "current") IN
             x \in Flow /\ FlowOK(x) /\ ~Heeded(x)
  <2>1. q \in Flow /\ FlowOK(q) /\ (q.kind \in GateFlows /\ q.life = "current") \in BOOLEAN
    BY DEF FlowsOK
  <2> QED
    BY <2>1, EndedIs DEF Heeded
<1> QED
  BY <1>1 DEF Superseded, FlowsOK

LEMMA AbandonedIs ==
  ASSUME NEW fs, FlowsOK(fs)
  PROVE  FlowsOK(Abandoned(fs)) /\ \A x \in Abandoned(fs) : Heeded(x) => x \in fs
<1>1. ASSUME NEW q \in fs
      PROVE  LET x == Ended(q, q.kind \in {"preview", "unlink"} /\ q.life = "current") IN
             x \in Flow /\ FlowOK(x) /\ (Heeded(x) => x = q)
  <2>1. q \in Flow /\ FlowOK(q)
        /\ (q.kind \in {"preview", "unlink"} /\ q.life = "current") \in BOOLEAN
    BY DEF FlowsOK
  <2> QED
    BY <2>1, EndedIs
<1> QED
  BY <1>1 DEF Abandoned, FlowsOK

LEMMA OnTheirWayIs ==
  ASSUME NEW fs, FlowsOK(fs)
  PROVE  FlowsOK(OnTheirWay(fs)) /\ \A x \in OnTheirWay(fs) : ~Heeded(x)
<1>1. ASSUME NEW q \in fs
      PROVE  LET x == [q EXCEPT !.life = "gone"] IN x \in Flow /\ FlowOK(x) /\ ~Heeded(x)
  <2>1. q \in Flow /\ FlowOK(q)
    BY DEF FlowsOK
  <2> QED
    BY <2>1 DEF Flow, FlowOK, Heeded
<1> QED
  BY <1>1 DEF OnTheirWay, FlowsOK

LEMMA ShowsIs ==
  ASSUME SessionInv, NEW kind, NEW fs, FlowsOK(fs), Shows(kind, fs)
  PROVE  /\ auth' = kind /\ FlowsOK(flows)' /\ preview' \in BOOLEAN
         /\ \A x \in flows' : Heeded(x) => x \in fs
<1>1. CASE kind = "authenticated"
  BY <1>1, SessionTypes DEF Shows, FlowsOK
<1>2. CASE kind # "authenticated"
  <2>1. flows' = Abandoned(fs) /\ preview' = FALSE /\ auth' = kind
    BY <1>2 DEF Shows
  <2> QED
    BY <2>1, AbandonedIs DEF FlowsOK
<1> QED
  BY <1>1, <1>2

(* Flow q goes on as another one.                                           *)
LEMMA GoesOn ==
  ASSUME SessionInv, NEW q \in flows, NEW fs,
         \A x \in fs : \/ x \in flows \ {q}
                       \/ x \in Flow /\ FlowOK(x) /\ (Heeded(x) => Heeded(q)),
         \A x, y \in fs \ (flows \ {q}) : Heeded(x) /\ Heeded(y) => x = y
  PROVE  FlowsOK(fs)
<1>1. FlowsOK(flows)
  BY DEF SessionInv
<1>2. fs \subseteq Flow /\ \A x \in fs : FlowOK(x)
  BY <1>1 DEF FlowsOK
<1>3. ASSUME NEW x \in fs, NEW y \in fs, Heeded(x), Heeded(y)
      PROVE  x = y
  <2>1. CASE x \in flows \ {q} /\ y \in flows \ {q}
    BY <1>1, <1>3, <2>1 DEF FlowsOK
  <2>2. CASE x \notin flows \ {q} /\ y \notin flows \ {q}
    BY <1>3, <2>2
  <2>3. CASE x \in flows \ {q} /\ y \notin flows \ {q}
    <3>1. Heeded(q)
      BY <1>3, <2>3
    <3> QED
      BY <1>1, <1>3, <2>3, <3>1 DEF FlowsOK
  <2>4. CASE x \notin flows \ {q} /\ y \in flows \ {q}
    <3>1. Heeded(q)
      BY <1>3, <2>4
    <3> QED
      BY <1>1, <1>3, <2>4, <3>1 DEF FlowsOK
  <2> QED
    BY <2>1, <2>2, <2>3, <2>4
<1> QED
  BY <1>2, <1>3 DEF FlowsOK

SessionAnswers ==
  Sessions \cup {"none", "done", "invalid", "no_proof", "stale", "in_progress", "error"}

LEMMA ServedIs ==
  ASSUME SessionInv, NEW q \in flows, NEW answer \in SessionAnswers, Served(q, answer),
         q.step # "permission",
         q.kind \notin GateFlows => answer # "authenticated"
  PROVE  /\ FlowsOK(flows)'
         /\ \A x \in flows' : Heeded(x) =>
              \/ x \in flows \ {q}
              \/ Heeded(q) /\ x.answer = answer /\ x.kind = q.kind
<1> DEFINE k == [q EXCEPT !.answer = answer]
<1>1. /\ k \in Flow /\ k.answer = answer /\ k.kind = q.kind /\ FlowOK(k)
      /\ (Heeded(k) => Heeded(q))
  BY SessionTypes DEF Flow, FlowOK, Heeded, SessionAnswers, SessionInv, FlowsOK
<1>2. flows' = (flows \ {q}) \cup (IF q.life = "gone" THEN {} ELSE {k})
  BY DEF Served
<1> HIDE DEF k
<1>3. FlowsOK(flows')
  BY <1>1, <1>2, GoesOn
<1> QED
  BY <1>1, <1>2, <1>3 DEF FlowsOK

(* No page is shown after the step: the gate listens to nobody new who says *)
(* that there is a session.                                                 *)
LEMMA HiddenKeeps ==
  ASSUME SessionInv, FlowsOK(flows)', auth' # "authenticated", UNCHANGED <<cookie, out>>,
         \A x \in flows' : Heeded(x) => x \in flows \/ x.answer # "authenticated"
  PROVE  GateKept
BY DEF GateKept, SessionInv, LogoutOK, LeavingOK

(* What is shown does not change.                                           *)
LEMMA ShownKeeps ==
  ASSUME SessionInv, FlowsOK(flows)', UNCHANGED <<auth, cookie, out>>,
         \A x \in flows' : Heeded(x) =>
           \/ x \in flows
           \/ x.kind # "logout" /\ x.answer # "authenticated"
  PROVE  GateKept
BY DEF GateKept, SessionInv, LogoutOK, LeavingOK

(* The flow the gate listens to ends in a session, or in none.              *)
LEMMA EndKeeps ==
  ASSUME SessionInv, NEW q \in flows, Heeded(q), q.kind # "logout", NEW kind,
         kind = "authenticated" => q.answer = "authenticated",
         Shows(kind, flows \ {q}), UNCHANGED <<cookie, out>>
  PROVE  GateKept /\ auth' = kind /\ preview' \in BOOLEAN
<1>1. FlowsOK(flows \ {q}) /\ \A x \in flows \ {q} : ~Heeded(x)
  BY FewerFlows DEF SessionInv, FlowsOK
<1>2. /\ auth' = kind /\ FlowsOK(flows)' /\ preview' \in BOOLEAN
      /\ \A x \in flows' : ~Heeded(x)
  BY <1>1, ShowsIs
<1>3. out => q.answer # "authenticated" /\ ~cookie
  BY DEF SessionInv, LogoutOK
<1> QED
  BY <1>2, <1>3 DEF GateKept, LogoutOK, LeavingOK

-----------------------------------------------------------------------------
(* The server                                                               *)

LEMMA AnswerSessionKeeps ==
  ASSUME SessionInv, NEW q \in flows, AnswerSession(q)
  PROVE  SessionInv'
<1>1. /\ q.step = "session" /\ q.kind \in {"authenticate", "refresh"} /\ q.kind \in GateFlows
      /\ UNCHANGED <<auth, ready, flag, preview, lineVars, serverVars>>
  BY DEF AnswerSession, SessionInv, FlowsOK, FlowOK, GateFlows
<1>2. PICK answer \in {SessionNow, "error"} : Served(q, answer)
  BY DEF AnswerSession
<1>3. answer \in SessionAnswers /\ (out => answer # "authenticated")
  BY SessionTypes DEF SessionNow, SessionAnswers, Sessions, SessionInv, LogoutOK
<1>4. /\ FlowsOK(flows)'
      /\ \A x \in flows' : Heeded(x) =>
           x \in flows \ {q} \/ (x.answer = answer /\ x.kind = q.kind)
  BY <1>1, <1>2, <1>3, ServedIs
<1>5. GateKept
  BY <1>1, <1>3, <1>4 DEF GateKept, SessionInv, LogoutOK, LeavingOK, serverVars
<1> QED
  BY <1>1, <1>5, SessionTypes, RestIsQuiet, SessionParts

LEMMA AnswerLoginKeeps ==
  ASSUME SessionInv, NEW q \in flows, AnswerLogin(q)
  PROVE  SessionInv'
<1>1. /\ q.kind \in {"authenticate", "refresh"} /\ q.kind \in GateFlows /\ q.kind # "logout"
      /\ q.step = "login"
      /\ UNCHANGED <<auth, ready, flag, preview, lineVars, account>>
  BY DEF AnswerLogin, SessionInv, FlowsOK, FlowOK, GateFlows
<1>2. CASE cookie' = TRUE /\ out' = FALSE
           /\ Served(q, IF account = "active" THEN "authenticated" ELSE account)
  <2>1. (IF account = "active" THEN "authenticated" ELSE account) \in SessionAnswers
    BY SessionTypes DEF SessionAnswers, Sessions
  <2>2. /\ FlowsOK(flows)'
        /\ \A x \in flows' : Heeded(x) => x \in flows \ {q} \/ x.kind = q.kind
    BY <1>1, <1>2, <2>1, ServedIs
  <2>3. GateKept
    BY <1>1, <1>2, <2>2 DEF GateKept, SessionInv, LogoutOK, LeavingOK
  <2>4. TheRestKept
    BY <1>1, <1>2, SessionTypes DEF TheRestKept, SessionInv, lineVars, FreshOK, ReadyIsFresh
  <2> QED
    BY <2>3, <2>4, SessionParts
<1>3. CASE (\E answer \in {"invalid", "error"} : Served(q, answer)) /\ UNCHANGED <<cookie, out>>
  <2>1. PICK answer \in {"invalid", "error"} : Served(q, answer)
    BY <1>3
  <2>2. /\ FlowsOK(flows)'
        /\ \A x \in flows' : Heeded(x) => x \in flows \ {q} \/ (x.answer = answer /\ x.kind = q.kind)
    BY <1>1, <2>1, ServedIs DEF SessionAnswers
  <2>3. GateKept
    BY <1>1, <1>3, <2>1, <2>2, ShownKeeps
  <2>4. TheRestKept
    BY <1>1, <1>3, SessionTypes, RestIsQuiet DEF serverVars
  <2> QED
    BY <2>3, <2>4, SessionParts
<1> QED
  BY <1>2, <1>3 DEF AnswerLogin

LEMMA AnswerLogoutKeeps ==
  ASSUME SessionInv, NEW q \in flows, AnswerLogout(q)
  PROVE  SessionInv'
<1>1. /\ q.kind = "logout" /\ q.kind \in GateFlows /\ q.step # "permission"
      /\ UNCHANGED <<auth, ready, flag, preview, lineVars, account>>
  BY DEF AnswerLogout, GateFlows, SessionInv, FlowsOK, FlowOK
<1>2. CASE cookie /\ cookie' = FALSE /\ out' = (q.life = "current") /\ Served(q, "anonymous")
  <2>1. /\ FlowsOK(flows)'
        /\ \A x \in flows' : Heeded(x) => x \in flows \ {q} \/ (x.answer = "anonymous" /\ Heeded(q))
    BY <1>1, <1>2, ServedIs DEF SessionAnswers, Sessions
  <2>2. Heeded(q) => auth # "authenticated" /\ \A x \in flows \ {q} : ~Heeded(x)
    BY <1>1 DEF SessionInv, LeavingOK, FlowsOK
  <2>3. LogoutOK'
    <3>1. CASE q.life = "current"
      <4>1. Heeded(q)
        BY <1>1, <3>1 DEF Heeded
      <4> QED
        BY <1>1, <1>2, <2>1, <2>2, <4>1 DEF LogoutOK
    <3>2. CASE q.life # "current"
      BY <1>2, <3>2 DEF LogoutOK
    <3> QED
      BY <3>1, <3>2
  <2>4. LeavingOK'
    BY <1>1, <2>1, <2>2 DEF SessionInv, LeavingOK
  <2>5. TheRestKept
    <3>1. out' \in BOOLEAN
      BY <1>2
    <3> QED
      BY <1>1, <1>2, <3>1, SessionTypes DEF TheRestKept, SessionInv, lineVars, FreshOK, ReadyIsFresh
  <2> QED
    BY <2>1, <2>3, <2>4, <2>5, SessionParts DEF GateKept
<1>3. ASSUME NEW answer \in {"invalid", "error"}, Served(q, answer), UNCHANGED <<cookie, out>>
      PROVE  SessionInv'
  <2>1. /\ FlowsOK(flows)'
        /\ \A x \in flows' : Heeded(x) => x \in flows \ {q} \/ (x.answer = answer /\ Heeded(q))
    BY <1>1, <1>3, ServedIs DEF SessionAnswers
  <2>2. GateKept
    BY <1>1, <1>3, <2>1 DEF GateKept, SessionInv, LogoutOK, LeavingOK
  <2>3. TheRestKept
    BY <1>1, <1>3, SessionTypes, RestIsQuiet DEF serverVars
  <2> QED
    BY <2>2, <2>3, SessionParts
<1> QED
  BY <1>2, <1>3 DEF AnswerLogout

LEMMA AnswerPagesKeep ==
  ASSUME SessionInv, NEW q \in flows, AnswerWork(q) \/ AnswerUnlink(q)
  PROVE  SessionInv'
<1>1. /\ q.kind \notin GateFlows /\ ~Heeded(q) /\ q.step # "permission"
      /\ UNCHANGED <<auth, ready, flag, preview, lineVars>>
  BY DEF AnswerWork, AnswerUnlink, GateFlows, Heeded, SessionInv, FlowsOK, FlowOK
<1>2. \E answer \in SessionAnswers \ {"authenticated"} : Served(q, answer)
  <2>1. CASE AnswerWork(q)
    BY <2>1 DEF AnswerWork, SessionAnswers, Sessions
  <2>2. CASE AnswerUnlink(q)
    BY <2>2 DEF AnswerUnlink, SessionAnswers, Sessions, Stages
  <2> QED
    BY <2>1, <2>2
<1>3. FlowsOK(flows)' /\ \A x \in flows' : Heeded(x) => x \in flows
  BY <1>1, <1>2, ServedIs
<1>4. /\ cookie' = cookie \/ cookie' = FALSE
      /\ out' = out /\ account' \in {"active"} \cup Stages
  <2>1. CASE AnswerWork(q)
    BY <2>1, SessionTypes DEF AnswerWork, serverVars
  <2>2. CASE AnswerUnlink(q)
    BY <2>2, SessionTypes DEF AnswerUnlink, serverVars
  <2> QED
    BY <2>1, <2>2
<1>5. GateKept
  <2>1. LogoutOK'
    BY <1>1, <1>3, <1>4 DEF SessionInv, LogoutOK
  <2>2. LeavingOK'
    BY <1>1, <1>3 DEF SessionInv, LeavingOK
  <2> QED
    BY <1>3, <2>1, <2>2 DEF GateKept
<1>6. TheRestKept
  BY <1>1, <1>4, SessionTypes DEF TheRestKept, SessionInv, lineVars, FreshOK, ReadyIsFresh
<1> QED
  BY <1>5, <1>6, SessionParts

LEMMA ExpireSessionKeeps ==
  ASSUME SessionInv, ExpireSession
  PROVE  SessionInv'
<1>1. cookie' = FALSE /\ UNCHANGED <<auth, ready, flag, preview, flows, lineVars, account, out>>
  BY DEF ExpireSession
<1>2. GateKept
  BY <1>1 DEF GateKept, SessionInv, LogoutOK, LeavingOK, FlowsOK
<1>3. TheRestKept
  BY <1>1, SessionTypes DEF TheRestKept, SessionInv, lineVars, FreshOK, ReadyIsFresh
<1> QED
  BY <1>2, <1>3, SessionParts

LEMMA LoseAnswerKeeps ==
  ASSUME SessionInv, NEW q \in flows, LoseAnswer(q)
  PROVE  SessionInv'
<1> DEFINE k == [q EXCEPT !.answer = "error"]
<1>1. UNCHANGED <<auth, ready, flag, preview, lineVars, serverVars>>
  BY DEF LoseAnswer
<1>2. PICK rest \in SUBSET OnTheirWay({q}) : flows' = (flows \ {q}) \cup {k} \cup rest
  BY DEF LoseAnswer
<1>3. /\ k \in Flow /\ FlowOK(k) /\ k.answer = "error" /\ k.kind = q.kind
      /\ (Heeded(k) => Heeded(q))
  BY SessionTypes DEF Flow, FlowOK, Heeded, SessionInv, FlowsOK, LoseAnswer
<1>4. \A x \in rest : x \in Flow /\ FlowOK(x) /\ ~Heeded(x)
  <2>1. FlowsOK({q})
    BY DEF SessionInv, FlowsOK
  <2> QED
    BY <2>1, OnTheirWayIs DEF FlowsOK
<1> HIDE DEF k
<1>5. \A x \in flows' : \/ x \in flows \ {q}
                        \/ x \in Flow /\ FlowOK(x) /\ (Heeded(x) => Heeded(q) /\ x = k)
  BY <1>2, <1>3, <1>4
<1>6. FlowsOK(flows')
  BY <1>5, GoesOn
<1>7. LeavingOK'
  <2>1. \A x \in flows' : Heeded(x) => \E y \in flows : Heeded(y) /\ y.kind = x.kind
    BY <1>3, <1>5
  <2> QED
    BY <1>1, <2>1 DEF SessionInv, LeavingOK
<1>8. LogoutOK'
  BY <1>1, <1>3, <1>5 DEF SessionInv, LogoutOK, serverVars
<1>9. GateKept
  BY <1>6, <1>7, <1>8 DEF GateKept, FlowsOK
<1> QED
  BY <1>1, <1>9, SessionTypes, RestIsQuiet, SessionParts

-----------------------------------------------------------------------------
(* The gate                                                                 *)

LEMMA LoadIs ==
  ASSUME SessionInv, Load
  PROVE  /\ auth' = "initializing" /\ ready' = FALSE /\ preview' = FALSE
         /\ FlowsOK(flows)' /\ \A x \in flows' : Heeded(x) => x.answer # "authenticated"
<1>1. /\ auth' = "initializing" /\ ready' = FALSE /\ preview' = FALSE
      /\ flows' = OnTheirWay(flows) \cup {Begun("authenticate", "init")}
  BY DEF Load
<1>2. FlowsOK(OnTheirWay(flows)) /\ \A x \in OnTheirWay(flows) : ~Heeded(x)
  BY OnTheirWayIs DEF SessionInv
<1>3. /\ Begun("authenticate", "init") \in Flow /\ FlowOK(Begun("authenticate", "init"))
      /\ Begun("authenticate", "init").answer = "none"
  BY BegunIs DEF GateFlows
<1> QED
  BY <1>1, <1>2, <1>3 DEF FlowsOK

LEMMA LoadsKeep ==
  ASSUME SessionInv, Reload \/ Return
  PROVE  SessionInv'
<1>1. Load /\ UNCHANGED <<client, flag, serverVars>>
      /\ (UNCHANGED <<liff, fresh>> \/ (liff' = TRUE /\ fresh' = TRUE))
  BY DEF Reload, Return, lineVars
<1>2. /\ auth' = "initializing" /\ ready' = FALSE /\ preview' = FALSE
      /\ FlowsOK(flows)' /\ \A x \in flows' : Heeded(x) => x.answer # "authenticated"
  BY <1>1, LoadIs
<1>3. GateKept
  BY <1>1, <1>2, HiddenKeeps DEF serverVars
<1>4. FreshOK' /\ liff' \in BOOLEAN /\ fresh' \in BOOLEAN
  <2>1. CASE UNCHANGED <<liff, fresh>>
    BY <1>1, <1>2, <2>1, SessionTypes DEF SessionInv, FreshOK, ReadyIsFresh
  <2>2. CASE liff' = TRUE /\ fresh' = TRUE
    BY <2>2 DEF FreshOK, ReadyIsFresh
  <2> QED
    BY <1>1, <2>1, <2>2
<1>5. TheRestKept
  BY <1>1, <1>2, <1>4, SessionTypes DEF TheRestKept, serverVars, AuthState
<1> QED
  BY <1>3, <1>5, SessionParts

(* A new flow of the gate, which listens to no other any more.              *)
LEMMA NewFlowIs ==
  ASSUME SessionInv, NEW gs \in SUBSET flows, NEW kind \in GateFlows,
         NEW step \in {"init", "session", "sent"},
         step # "sent" => kind \in {"authenticate", "refresh"}
  PROVE  LET fs == Superseded(gs) \cup {Begun(kind, step)} IN
         FlowsOK(fs) /\ \A x \in fs : Heeded(x) => x.answer = "none" /\ x.kind = kind
<1>1. FlowsOK(Superseded(gs)) /\ \A x \in Superseded(gs) : ~Heeded(x)
  BY FewerFlows, SupersededIs DEF SessionInv
<1>2. /\ Begun(kind, step) \in Flow /\ FlowOK(Begun(kind, step))
      /\ Begun(kind, step).answer = "none" /\ Begun(kind, step).kind = kind
  BY BegunIs
<1> QED
  BY <1>1, <1>2 DEF FlowsOK

LEMMA BeginningsKeep ==
  ASSUME SessionInv, Authenticate \/ Logout
  PROVE  SessionInv'
<1>1. UNCHANGED <<flag, lineVars, serverVars>> /\ ready' \in {ready, FALSE}
  BY DEF Authenticate, Logout
<1>2. ASSUME NEW kind \in {"authenticate", "logout"}, NEW step \in {"init", "sent"},
             NEW shown \in {"initializing", "verifying"}, step = "init" => kind = "authenticate",
             Shows(shown, Superseded(flows) \cup {Begun(kind, step)})
      PROVE  GateKept /\ auth' = shown /\ preview' \in BOOLEAN
  <2> DEFINE fs == Superseded(flows) \cup {Begun(kind, step)}
  <2>1. /\ kind \in GateFlows /\ step \in {"init", "session", "sent"}
        /\ step # "sent" => kind \in {"authenticate", "refresh"}
    BY <1>2 DEF GateFlows
  <2>2. FlowsOK(fs) /\ \A x \in fs : Heeded(x) => x.answer = "none" /\ x.kind = kind
    BY <2>1, NewFlowIs
  <2>3. Shows(shown, fs)
    BY <1>2
  <2> HIDE DEF fs
  <2>4. /\ auth' = shown /\ FlowsOK(flows)' /\ preview' \in BOOLEAN
        /\ \A x \in flows' : Heeded(x) => x.answer = "none"
    BY <2>2, <2>3, ShowsIs
  <2> QED
    BY <1>1, <2>4, HiddenKeeps DEF serverVars
<1>3. GateKept /\ auth' \in {"initializing", "verifying"} /\ preview' \in BOOLEAN
  BY <1>2 DEF Authenticate, Logout
<1>4. ready' \in BOOLEAN /\ FreshOK'
  <2>1. CASE ready' = ready
    BY <1>1, <2>1, SessionTypes DEF SessionInv, FreshOK, ReadyIsFresh, lineVars
  <2>2. CASE ready' = FALSE
    BY <1>1, <2>2, SessionTypes DEF SessionInv, FreshOK, ReadyIsFresh, lineVars
  <2> QED
    BY <1>1, <2>1, <2>2
<1>5. TheRestKept
  BY <1>1, <1>3, <1>4, SessionTypes DEF TheRestKept, serverVars, lineVars, AuthState
<1> QED
  BY <1>3, <1>5, SessionParts

LEMMA FlowFailsKeeps ==
  ASSUME SessionInv, NEW q \in flows, FlowFails(q)
  PROVE  SessionInv'
<1>1. UNCHANGED <<ready, flag, lineVars, serverVars>>
  BY DEF FlowFails
<1>2. FlowsOK(flows \ {q})
  BY FewerFlows DEF SessionInv
<1>3. CASE q.life = "current"
  <2>1. /\ auth' = "error" /\ FlowsOK(flows)' /\ preview' \in BOOLEAN
        /\ \A x \in flows' : Heeded(x) => x \in flows \ {q}
    BY <1>2, <1>3, ShowsIs DEF FlowFails
  <2>2. GateKept
    BY <1>1, <2>1, HiddenKeeps DEF serverVars
  <2> QED
    BY <1>1, <2>1, <2>2, RestIsQuiet, SessionParts DEF AuthState
<1>4. CASE q.life # "current"
  <2>1. flows' = flows \ {q} /\ UNCHANGED <<auth, preview>>
    BY <1>4 DEF FlowFails
  <2>2. GateKept
    BY <1>1, <1>2, <2>1, ShownKeeps DEF serverVars
  <2> QED
    BY <1>1, <2>1, <2>2, SessionTypes, RestIsQuiet, SessionParts
<1> QED
  BY <1>3, <1>4

(* The flow of the gate goes on to another step.                            *)
LEMMA StepKeeps ==
  ASSUME SessionInv, NEW q \in flows, q.step # "sent",
         NEW step \in {"session", "permission"}, step = "permission" => q.answer \in Sessions,
         flows' = (flows \ {q}) \cup {[q EXCEPT !.step = step]},
         UNCHANGED <<auth, ready, flag, preview, lineVars, serverVars>>
  PROVE  SessionInv'
<1> DEFINE k == [q EXCEPT !.step = step]
<1>1. /\ k \in Flow /\ FlowOK(k) /\ k.answer = q.answer /\ k.kind = q.kind
      /\ (Heeded(k) => Heeded(q)) /\ k.kind # "logout"
  BY SessionTypes DEF Flow, FlowOK, Heeded, SessionInv, FlowsOK
<1>2. flows' = (flows \ {q}) \cup {k}
  OBVIOUS
<1> HIDE DEF k
<1>3. FlowsOK(flows')
  BY <1>1, <1>2, GoesOn
<1>4. GateKept
  BY <1>1, <1>2, <1>3 DEF GateKept, SessionInv, LogoutOK, LeavingOK, FlowsOK, serverVars
<1> QED
  BY <1>4, SessionTypes, RestIsQuiet, SessionParts

(* The session that is received is shown.                                   *)
LEMMA ReceivedKeeps ==
  ASSUME SessionInv, NEW q \in flows, q.step # "sent", q.life = "current",
         q.answer \in Sessions, Received(q, q.answer)
  PROVE  SessionInv'
<1>1. Heeded(q) /\ q.kind # "logout"
  BY DEF Heeded, SessionInv, FlowsOK, FlowOK, GateFlows
<1>2. /\ flag' = FALSE /\ Shows(q.answer, flows \ {q}) /\ UNCHANGED <<lineVars, serverVars>>
      /\ ready' = (ready \/ (q.answer = "deauthorization_pending" /\ flag /\ liff))
  BY DEF Received
<1>3. GateKept /\ auth' = q.answer /\ preview' \in BOOLEAN
  BY <1>1, <1>2, EndKeeps DEF serverVars
<1>4. ready' \in BOOLEAN /\ FreshOK'
  BY <1>2, SessionTypes DEF SessionInv, FreshOK, ReadyIsFresh, lineVars
<1>5. TheRestKept
  BY <1>2, <1>3, <1>4, SessionTypes DEF TheRestKept, lineVars, serverVars, AuthState
<1> QED
  BY <1>3, <1>5, SessionParts

LEMMA TakeSessionKeeps ==
  ASSUME SessionInv, NEW q \in flows, TakeSession(q)
  PROVE  SessionInv'
<1>1. /\ q.step = "session" /\ q.kind = "authenticate" /\ Heeded(q) /\ q.life = "current"
      /\ q.answer \in Sessions
  BY DEF TakeSession, Heeded, GateFlows
<1>2. CASE liff
  BY <1>1, <1>2, StepKeeps DEF TakeSession
<1>3. CASE ~liff /\ q.answer # "anonymous"
  BY <1>1, <1>3, ReceivedKeeps DEF TakeSession
<1>4. CASE ~liff /\ q.answer = "anonymous"
  <2>1. Shows("login_required", flows \ {q}) /\ UNCHANGED <<ready, flag, lineVars, serverVars>>
    BY <1>4 DEF TakeSession
  <2>2. GateKept /\ auth' = "login_required" /\ preview' \in BOOLEAN
    BY <1>1, <2>1, EndKeeps DEF serverVars
  <2> QED
    BY <2>1, <2>2, RestIsQuiet, SessionParts DEF AuthState
<1> QED
  BY <1>2, <1>3, <1>4

(* A session is at hand when the permission is asked for.                   *)
LEMMA PermittedKeeps ==
  ASSUME SessionInv, NEW q \in flows, Permitted(q)
  PROVE  SessionInv'
<1>1. q.step = "permission" /\ q.life = "current" /\ Heeded(q) /\ q.kind # "logout"
  BY DEF Permitted, Heeded, SessionInv, FlowsOK, FlowOK, GateFlows
<1>2. CASE q.answer # "anonymous"
  <2>1. q.answer \in Sessions
    BY <1>1 DEF SessionInv, FlowsOK, FlowOK
  <2> QED
    BY <1>1, <1>2, <2>1, ReceivedKeeps DEF Permitted
<1>3. CASE q.answer = "anonymous"
  <2> DEFINE k == [q EXCEPT !.step = "login", !.answer = "none"]
             fs == (flows \ {q}) \cup {k}
  <2>1. Shows("verifying", fs) /\ UNCHANGED <<ready, flag, lineVars, serverVars>>
    BY <1>3 DEF Permitted
  <2>2. k \in Flow /\ FlowOK(k) /\ k.answer = "none" /\ (Heeded(k) => Heeded(q))
    BY <1>1, SessionTypes DEF Flow, FlowOK, Heeded, SessionInv, FlowsOK
  <2> HIDE DEF k
  <2>3. FlowsOK(fs)
    BY <2>2, GoesOn
  <2>4. \A x \in fs : x \in flows \/ x.answer # "authenticated"
    BY <2>2
  <2> HIDE DEF fs
  <2>5. /\ auth' = "verifying" /\ FlowsOK(flows)' /\ preview' \in BOOLEAN
        /\ \A x \in flows' : Heeded(x) => x \in fs
    BY <2>1, <2>3, ShowsIs
  <2>6. GateKept
    BY <2>1, <2>4, <2>5, HiddenKeeps DEF serverVars
  <2> QED
    BY <2>1, <2>5, <2>6, RestIsQuiet, SessionParts DEF AuthState
<1> QED
  BY <1>2, <1>3

LEMMA TakeStatusAnswerKeeps ==
  ASSUME SessionInv, NEW q \in flows, TakeStatusAnswer(q)
  PROVE  SessionInv'
<1>1. Heeded(q) /\ q.kind # "logout" /\ q.answer \in Sessions
      /\ Shows(q.answer, flows \ {q}) /\ UNCHANGED <<ready, flag, lineVars, serverVars>>
  BY DEF TakeStatusAnswer, Heeded, SessionInv, FlowsOK, FlowOK, GateFlows
<1>2. GateKept /\ auth' = q.answer /\ preview' \in BOOLEAN
  BY <1>1, EndKeeps DEF serverVars
<1> QED
  BY <1>1, <1>2, RestIsQuiet, SessionParts DEF AuthState

LEMMA RefreshesKeep ==
  ASSUME SessionInv, NEW q \in flows,
         flows' = Superseded(flows \ {q}) \cup {Begun("refresh", "session")},
         UNCHANGED <<auth, ready, flag, preview, lineVars, serverVars>>
  PROVE  SessionInv'
<1>1. FlowsOK(flows') /\ \A x \in flows' : Heeded(x) => x.answer = "none" /\ x.kind = "refresh"
  BY NewFlowIs DEF GateFlows
<1>2. GateKept
  BY <1>1, ShownKeeps DEF FlowsOK, serverVars
<1> QED
  BY <1>2, SessionTypes, RestIsQuiet, SessionParts

LEMMA TakeInvalidKeeps ==
  ASSUME SessionInv, NEW q \in flows, TakeInvalid(q)
  PROVE  SessionInv'
<1>1. UNCHANGED <<ready, flag, lineVars, serverVars>>
  BY DEF TakeInvalid
<1>2. CASE q.kind \in GateFlows
  <2>1. FlowsOK(Superseded(flows \ {q})) /\ \A x \in Superseded(flows \ {q}) : ~Heeded(x)
    BY FewerFlows, SupersededIs DEF SessionInv
  <2>2. /\ auth' = "login_required" /\ FlowsOK(flows)' /\ preview' \in BOOLEAN
        /\ \A x \in flows' : ~Heeded(x)
    BY <1>2, <2>1, ShowsIs DEF TakeInvalid
  <2>3. GateKept
    BY <1>1, <2>2, HiddenKeeps DEF serverVars
  <2> QED
    BY <1>1, <2>2, <2>3, RestIsQuiet, SessionParts DEF AuthState
<1>3. CASE q.kind \notin GateFlows
  <2>1. /\ flows' = Superseded(flows \ {q}) \cup {Begun("refresh", "session")}
        /\ UNCHANGED <<auth, preview>>
    BY <1>3 DEF TakeInvalid
  <2>2. UNCHANGED <<auth, ready, flag, preview, lineVars, serverVars>>
    BY <1>1, <2>1
  <2> QED
    BY <2>1, <2>2, RefreshesKeep
<1> QED
  BY <1>2, <1>3

LEMMA StartLoginKeeps ==
  ASSUME SessionInv, StartLogin
  PROVE  SessionInv'
<1>1. UNCHANGED <<ready, flag, lineVars, serverVars>>
  BY DEF StartLogin
<1>2. \E kind \in {"error", "away"}, fs \in {Superseded(flows), OnTheirWay(flows)} :
        Shows(kind, fs)
  BY DEF StartLogin
<1>3. /\ auth' \in {"error", "away"} /\ FlowsOK(flows)' /\ preview' \in BOOLEAN
      /\ \A x \in flows' : ~Heeded(x)
  BY <1>2, SupersededIs, OnTheirWayIs, ShowsIs DEF SessionInv
<1>4. GateKept
  BY <1>1, <1>3, HiddenKeeps DEF serverVars
<1> QED
  BY <1>1, <1>3, <1>4, RestIsQuiet, SessionParts DEF AuthState

LEMMA TakeLogoutKeeps ==
  ASSUME SessionInv, NEW q \in flows, TakeLogout(q)
  PROVE  SessionInv'
<1>1. /\ liff' \in {client, liff} /\ flag' = FALSE /\ ready' = FALSE
      /\ UNCHANGED <<client, fresh, serverVars>>
      /\ \E kind \in {"anonymous", "final_error"} : Shows(kind, flows \ {q})
  BY DEF TakeLogout
<1>2. FlowsOK(flows \ {q})
  BY FewerFlows DEF SessionInv
<1>3. /\ auth' \in {"anonymous", "final_error"} /\ FlowsOK(flows)' /\ preview' \in BOOLEAN
      /\ \A x \in flows' : Heeded(x) => x \in flows
  BY <1>1, <1>2, ShowsIs
<1>4. GateKept
  BY <1>1, <1>3, HiddenKeeps DEF serverVars
<1>5. TheRestKept
  BY <1>1, <1>3, SessionTypes
     DEF TheRestKept, serverVars, FreshOK, ReadyIsFresh, AuthState, Sessions
<1> QED
  BY <1>4, <1>5, SessionParts

(* The page leaves for LINE, or is loaded anew.                             *)
LEMMA DepartsIs ==
  ASSUME SessionInv, Departs, UNCHANGED <<client, serverVars>>
  PROVE  /\ GateKept /\ auth' \in AuthState /\ preview' \in BOOLEAN
         /\ client => liff' = liff
         /\ ~client => liff' \in {liff, FALSE} /\ (auth' # "error" => liff' = FALSE)
<1>1. CASE client
  <2>1. Load /\ UNCHANGED liff
    BY <1>1 DEF Departs
  <2>2. /\ auth' = "initializing" /\ preview' = FALSE
        /\ FlowsOK(flows)' /\ \A x \in flows' : Heeded(x) => x.answer # "authenticated"
    BY <2>1, LoadIs
  <2> QED
    BY <1>1, <2>1, <2>2, HiddenKeeps DEF serverVars, AuthState
<1>2. CASE ~client
  <2>1. /\ liff' \in {liff, FALSE}
        /\ \/ liff' = FALSE /\ Shows("away", OnTheirWay(flows))
           \/ Shows("error", Superseded(flows))
    BY <1>2 DEF Departs
  <2>2. \/ liff' = FALSE /\ auth' = "away"
        \/ auth' = "error"
    BY <2>1, SupersededIs, OnTheirWayIs, ShowsIs DEF SessionInv
  <2>3. /\ FlowsOK(flows)' /\ preview' \in BOOLEAN
        /\ \A x \in flows' : ~Heeded(x)
    BY <2>1, SupersededIs, OnTheirWayIs, ShowsIs DEF SessionInv
  <2> QED
    BY <1>2, <2>1, <2>2, <2>3, HiddenKeeps DEF serverVars, AuthState
<1> QED
  BY <1>1, <1>2

LEMMA ReauthenticatesKeep ==
  ASSUME SessionInv, Reauthenticate \/ ReauthenticateForUnlink
  PROVE  SessionInv'
<1>1. Departs /\ UNCHANGED <<client, serverVars>>
  BY DEF Reauthenticate, ReauthenticateForUnlink
<1>2. /\ GateKept /\ auth' \in AuthState /\ preview' \in BOOLEAN
      /\ client => liff' = liff
      /\ ~client => liff' \in {liff, FALSE} /\ (auth' # "error" => liff' = FALSE)
  BY <1>1, DepartsIs
<1>3. liff' \in BOOLEAN /\ client \in BOOLEAN
  BY <1>2, SessionTypes
<1>4. ready' \in BOOLEAN /\ flag' \in BOOLEAN /\ fresh' \in BOOLEAN /\ FreshOK'
  <2>1. CASE Reauthenticate
    <3>1. ready' = (ready /\ auth' = "error") /\ UNCHANGED <<fresh, flag, client>>
      BY <2>1 DEF Reauthenticate
    <3> QED
      BY <1>2, <1>3, <3>1, SessionTypes DEF SessionInv, FreshOK, ReadyIsFresh
  <2>2. CASE ReauthenticateForUnlink
    <3>1. /\ ready' = FALSE /\ flag' = (auth' # "error") /\ fresh' = FALSE
          /\ UNCHANGED client
      BY <2>2 DEF ReauthenticateForUnlink
    <3> QED
      BY <1>2, <1>3, <3>1 DEF FreshOK, ReadyIsFresh
  <2> QED
    BY <2>1, <2>2
<1>5. TheRestKept
  BY <1>1, <1>2, <1>3, <1>4, SessionTypes DEF TheRestKept, serverVars
<1> QED
  BY <1>2, <1>5, SessionParts

-----------------------------------------------------------------------------
(* The pages                                                                *)

LEMMA CallsKeep ==
  ASSUME SessionInv, NEW kind \in {"work", "preview", "unlink", "resume"}, Calls(kind)
  PROVE  SessionInv'
<1>1. /\ flows' = flows \cup {Begun(kind, "sent")}
      /\ UNCHANGED <<auth, ready, flag, preview, lineVars, serverVars>>
  BY DEF Calls
<1>2. /\ Begun(kind, "sent") \in Flow /\ FlowOK(Begun(kind, "sent"))
      /\ Begun(kind, "sent").kind = kind /\ kind \notin GateFlows
  BY BegunIs DEF GateFlows
<1>3. FlowsOK(flows)' /\ \A x \in flows' : Heeded(x) => x \in flows
  BY <1>1, <1>2 DEF SessionInv, FlowsOK, Heeded
<1>4. GateKept
  BY <1>1, <1>3, ShownKeeps DEF serverVars
<1> QED
  BY <1>1, <1>4, SessionTypes, RestIsQuiet, SessionParts

LEMMA LeavePageKeeps ==
  ASSUME SessionInv, LeavePage
  PROVE  SessionInv'
<1>1. /\ preview' = FALSE /\ flows' = Abandoned(flows)
      /\ UNCHANGED <<auth, ready, flag, lineVars, serverVars>>
  BY DEF LeavePage
<1>2. FlowsOK(flows') /\ \A x \in flows' : Heeded(x) => x \in flows
  BY <1>1, AbandonedIs DEF SessionInv
<1>3. GateKept
  BY <1>1, <1>2, ShownKeeps DEF serverVars, FlowsOK
<1> QED
  BY <1>1, <1>3, SessionTypes, RestIsQuiet, SessionParts

LEMMA TakeUnlinkKeeps ==
  ASSUME SessionInv, NEW q \in flows, TakeUnlink(q)
  PROVE  SessionInv'
<1>1. q.kind \notin GateFlows /\ q.answer # "authenticated"
  BY DEF TakeUnlink, GateFlows, SessionInv, FlowsOK, FlowOK
<1>2. CASE q.answer \in Sessions /\ Adopt(q, q.answer)
  <2>1. /\ ready' = FALSE /\ flag' = (flag /\ q.answer # "anonymous")
        /\ Shows(q.answer, Superseded(flows \ {q})) /\ UNCHANGED <<lineVars, serverVars>>
    BY <1>2 DEF Adopt
  <2>2. FlowsOK(Superseded(flows \ {q})) /\ \A x \in Superseded(flows \ {q}) : ~Heeded(x)
    BY FewerFlows, SupersededIs DEF SessionInv
  <2>3. /\ auth' = q.answer /\ FlowsOK(flows)' /\ preview' \in BOOLEAN
        /\ \A x \in flows' : ~Heeded(x)
    BY <2>1, <2>2, ShowsIs
  <2>4. GateKept
    BY <1>1, <2>1, <2>3, HiddenKeeps DEF serverVars
  <2>5. flag' \in BOOLEAN /\ FreshOK'
    BY <2>1, SessionTypes DEF SessionInv, FreshOK, ReadyIsFresh, lineVars
  <2>6. TheRestKept
    BY <1>2, <2>1, <2>3, <2>5, SessionTypes DEF TheRestKept, lineVars, serverVars, AuthState
  <2> QED
    BY <2>4, <2>6, SessionParts
<1>3. CASE RefreshFor(q)
  BY <1>3, RefreshesKeep DEF RefreshFor
<1> QED
  BY <1>2, <1>3, ReauthenticatesKeep DEF TakeUnlink

LEMMA TakePageAnswerKeeps ==
  ASSUME SessionInv, NEW q \in flows, TakePageAnswer(q)
  PROVE  SessionInv'
<1>1. flows' = flows \ {q} /\ UNCHANGED <<auth, ready, flag, lineVars, serverVars>>
  BY DEF TakePageAnswer
<1>2. preview' \in BOOLEAN
  <2>1. \/ preview' = preview
        \/ preview' = (preview \/ q.answer = "done")
        \/ preview' = (preview /\ q.answer # "stale")
    BY DEF TakePageAnswer
  <2> QED
    BY <2>1, SessionTypes
<1>3. FlowsOK(flows)'
  <2>1. FlowsOK(flows \ {q})
    BY FewerFlows DEF SessionInv
  <2> QED
    BY <1>1, <2>1 DEF FlowsOK
<1>4. GateKept
  BY <1>1, <1>3, ShownKeeps DEF serverVars
<1> QED
  BY <1>1, <1>2, <1>4, SessionTypes, RestIsQuiet, SessionParts

-----------------------------------------------------------------------------

LEMMA SessionAtFirst == OwnerSessionInit => SessionInv
<1> SUFFICES ASSUME OwnerSessionInit PROVE SessionInv
  OBVIOUS
<1>1. /\ Begun("authenticate", "init") \in Flow /\ FlowOK(Begun("authenticate", "init"))
      /\ Begun("authenticate", "init").kind = "authenticate"
  BY BegunIs DEF GateFlows
<1>2. FlowsOK(flows)
  BY <1>1 DEF OwnerSessionInit, FlowsOK
<1> QED
  BY <1>1, <1>2
     DEF OwnerSessionInit, SessionInv, OwnerSessionTypeOK, LogoutOK, LeavingOK, FreshOK,
         ReadyIsFresh, AuthState, FlowsOK

LEMMA SessionNextKeeps ==
  ASSUME SessionInv, [OwnerSessionNext]_ownerSessionVars
  PROVE  SessionInv'
<1>1. CASE UNCHANGED ownerSessionVars
  <2>1. GateKept
    BY <1>1 DEF ownerSessionVars, GateKept, SessionInv, LogoutOK, LeavingOK, FlowsOK
  <2>2. TheRestKept
    BY <1>1, SessionTypes
       DEF ownerSessionVars, SessionInv, TheRestKept, FreshOK, ReadyIsFresh
  <2> QED
    BY <2>1, <2>2, SessionParts
<1>2. CASE Reload \/ Return \/ Authenticate \/ StartLogin \/ Logout \/ ExpireSession
  BY <1>2, LoadsKeep, BeginningsKeep, StartLoginKeeps, ExpireSessionKeeps
<1>3. CASE Work \/ PreviewUnlink \/ Unlink \/ Resume \/ LeavePage
  BY <1>3, CallsKeep, ReauthenticatesKeep, LeavePageKeeps
     DEF Work, PreviewUnlink, Unlink, Resume
<1>4. ASSUME NEW q \in flows,
             \/ AnswerSession(q) \/ AnswerLogin(q) \/ AnswerLogout(q) \/ AnswerWork(q)
             \/ AnswerUnlink(q) \/ LoseAnswer(q)
      PROVE  SessionInv'
  BY <1>4, AnswerSessionKeeps, AnswerLoginKeeps, AnswerLogoutKeeps, AnswerPagesKeep,
     LoseAnswerKeeps
<1>5. ASSUME NEW q \in flows, Initialized(q)
      PROVE  SessionInv'
  BY <1>5, StepKeeps DEF Initialized
<1>6. ASSUME NEW q \in flows,
             \/ FlowFails(q) \/ TakeSession(q) \/ Permitted(q)
             \/ TakeStatusAnswer(q) \/ TakeInvalid(q) \/ TakeLogout(q)
             \/ TakeUnlink(q) \/ TakePageAnswer(q)
      PROVE  SessionInv'
  BY <1>6, FlowFailsKeeps, TakeSessionKeeps, PermittedKeeps, TakeStatusAnswerKeeps,
     TakeInvalidKeeps, TakeLogoutKeeps, TakeUnlinkKeeps, TakePageAnswerKeeps
<1> QED
  BY <1>1, <1>2, <1>3, <1>4, <1>5, <1>6 DEF OwnerSessionNext

LEMMA SessionIsInvariant == OwnerSessionSpec => []SessionInv
BY SessionAtFirst, SessionNextKeeps, PTL DEF OwnerSessionSpec

(* However often the owner leaves, comes back or loads the page, he unlinks *)
(* with a login that is younger than the request for it.                    *)
THEOREM UnlinksWithAFreshLogin == OwnerSessionSpec => []ReadyIsFresh
<1>1. SessionInv => ReadyIsFresh
  BY DEF SessionInv, FreshOK
<1> QED
  BY <1>1, SessionIsInvariant, PTL

(* No late answer brings the owner's pages back after his logout, for any   *)
(* number of flows.                                                         *)
THEOREM LogoutsAreSeen == OwnerSessionSpec => []LogoutIsSeen
<1>1. SessionInv => LogoutIsSeen
  BY DEF SessionInv, LogoutOK, LogoutIsSeen
<1> QED
  BY <1>1, SessionIsInvariant, PTL

-----------------------------------------------------------------------------
(* MenuPage.  One operation at a time, and its end with the menu after it,   *)
(* for any number of operations.  Of those started in this life of the page  *)
(* all but the one it shows have come to their end.                          *)

(* What a call may be while the page shows m and the server has operations  *)
(* op: one that is not heard is on its way, a status check is for the       *)
(* operation on the page, and an end that was read or answered has come.    *)
WaitOK(q, m, op) ==
  /\ q.kind \in {"start", "track"} =>
       /\ q.id \in Operations
       /\ q.answer \in {"none", "failed", "processing"} \cup Concluded
       /\ q.answer \in Concluded => op[q.id] \in Concluded
  /\ q.kind = "current" =>
       /\ q.answer \in {"none", "done", "changed", "failed"}
       /\ q.answer = "done" /\ m.operation \in Concluded => q.seen[m.id] \in Concluded
  /\ ~q.heard => q.kind \in {"start", "change"}
  /\ m.current = "closed" => ~q.heard
  /\ q.kind = "track" => m.operation = "tracking" /\ m.id = q.id

(* What the page may show: of the operations started in this life it does   *)
(* not know the end of the last one at most.                                *)
ShownOK(m, op, st) ==
  /\ m.current = "closed" => m.operation = "idle"
  /\ m.operation \in Concluded => m.id \in Operations /\ op[m.id] \in Concluded
  /\ m.current # "closed" /\ m.operation = "idle" => st = {}
  /\ m.current # "closed" => \A o \in st : o # m.id => op[o] \in Concluded
  /\ m.current = "ready" /\ m.operation \in Concluded => m.seen[m.id] \in Concluded

OneTrack(ws) == \A p, q \in ws : p.kind = "track" /\ q.kind = "track" => p = q

MenuInv ==
  /\ MenuPageTypeOK
  /\ \A q \in waits : WaitOK(q, menu, operation)
  /\ OneTrack(waits)
  /\ ShownOK(menu, operation, started)

LEMMA MenuTypes ==
  ASSUME MenuInv
  PROVE  /\ menu \in MenuState /\ waits \subseteq Wait
         /\ channel \in [revision : 1..MaxRevision, active : BOOLEAN]
         /\ operation \in [Operations -> OperationStatus] /\ started \subseteq Operations
         /\ MaxRevision \in Nat /\ 0 \in 0..MaxRevision /\ 1 \in 1..MaxRevision
         /\ \A n \in 1..MaxRevision : n \in 0..MaxRevision
         /\ NoOperation \notin Operations
BY MenuPageAssumption DEF MenuInv, MenuPageTypeOK

LEMMA NowhereIs == Nowhere \in [Operations -> OperationStatus]
BY DEF Nowhere, OperationStatus

LEMMA AsksIs ==
  ASSUME NEW kind \in {"channel", "current", "preview", "start", "track", "change"},
         NEW o \in Operations \cup {NoOperation}, NEW revision \in 0..MaxRevision,
         NEW holds \in BOOLEAN
  PROVE  /\ Asks(kind, o, revision, holds) \in Wait
         /\ Asks(kind, o, revision, holds).kind = kind /\ Asks(kind, o, revision, holds).id = o
         /\ Asks(kind, o, revision, holds).heard
         /\ Asks(kind, o, revision, holds).answer = "none"
BY NowhereIs DEF Asks, Wait

(* m is shown less, but what it says of the operation is the same.          *)
SameWork(n, m) ==
  /\ n \in MenuState /\ n.operation = m.operation /\ n.id = m.id
  /\ n.revision = m.revision /\ n.active = m.active

LEMMA InitialMenuIs ==
  ASSUME NEW revision \in 0..MaxRevision, NEW active \in BOOLEAN
  PROVE  LET n == [InitialMenu EXCEPT !.revision = revision, !.active = active] IN
         /\ InitialMenu \in MenuState /\ InitialMenu.current = "closed"
         /\ InitialMenu.operation = "idle"
         /\ n \in MenuState /\ n.operation = "idle" /\ n.revision = revision
<1>1. 0 \in 0..MaxRevision
  BY MenuPageAssumption
<1> QED
  BY <1>1, NowhereIs DEF InitialMenu, MenuState

LEMMA InvalidatedIs ==
  ASSUME NEW m \in MenuState
  PROVE  SameWork(Invalidated(m), m) /\ Invalidated(m).current = m.current
         /\ Invalidated(m).seen = m.seen
<1> DEFINE editor == IF m.editor = "viewing" THEN m.editor ELSE "preview_invalid"
<1>1. editor \in {"viewing", "preview_invalid"} /\ 0 \in 0..MaxRevision
  BY MenuPageAssumption
<1>2. Invalidated(m) = [m EXCEPT !.editor = editor, !.previewed = 0]
  BY DEF Invalidated
<1> HIDE DEF editor
<1> QED
  BY <1>1, <1>2 DEF MenuState, SameWork

LEMMA UnshownIs ==
  ASSUME NEW m \in MenuState,
         NEW current \in {"closed", "loading", "ready", "failed", "refresh_required"}
  PROVE  SameWork(Unshown(m, current), m) /\ Unshown(m, current).current = current
<1> DEFINE nowhere == Nowhere
<1>1. nowhere \in [Operations -> OperationStatus]
  BY NowhereIs
<1>2. Unshown(m, current) = [m EXCEPT !.current = current, !.seen = nowhere]
  BY DEF Unshown
<1> HIDE DEF nowhere
<1> QED
  BY <1>1, <1>2 DEF MenuState, SameWork

LEMMA RefreshRequiredIs ==
  ASSUME NEW m \in MenuState
  PROVE  SameWork(RefreshRequired(m), m) /\ RefreshRequired(m).current = "refresh_required"
<1>1. SameWork(Invalidated(m), m)
  BY InvalidatedIs
<1>2. SameWork(Unshown(Invalidated(m), "refresh_required"), Invalidated(m))
      /\ Unshown(Invalidated(m), "refresh_required").current = "refresh_required"
  BY <1>1, UnshownIs DEF SameWork
<1> QED
  BY <1>1, <1>2 DEF SameWork, RefreshRequired

(* A call that was just made and is no operation's.                         *)
Plain(x) ==
  /\ x \in Wait /\ x.heard /\ x.answer = "none" /\ x.kind \notin {"start", "track"}

LEMMA LoadsIs ==
  ASSUME NEW m \in MenuState, NEW ws \in SUBSET Wait, NEW kind \in Reads,
         NEW holds \in BOOLEAN, Loads(m, ws, kind, holds)
  PROVE  /\ SameWork(menu', m) /\ menu'.current = "loading"
         /\ \A x \in waits' : (x \in ws /\ x.kind \notin Reads) \/ Plain(x)
<1>1. menu' = Unshown(Invalidated(m), "loading")
      /\ waits' = Reedited(Unread(ws)) \cup {Asks(kind, NoOperation, m.revision, holds)}
  BY DEF Loads
<1>2. SameWork(Invalidated(m), m)
  BY InvalidatedIs
<1>3. SameWork(Unshown(Invalidated(m), "loading"), Invalidated(m))
      /\ Unshown(Invalidated(m), "loading").current = "loading"
  BY <1>2, UnshownIs DEF SameWork
<1>4. m.revision \in 0..MaxRevision /\ kind \in {"channel", "current", "preview", "start", "track", "change"}
  BY DEF MenuState, Reads
<1>5. Plain(Asks(kind, NoOperation, m.revision, holds))
  BY <1>4, AsksIs DEF Plain, Reads
<1> QED
  BY <1>1, <1>2, <1>3, <1>5 DEF SameWork, Reedited, Unread

-----------------------------------------------------------------------------
(* The server                                                               *)

(* What has come to its end has come to it for good.                        *)
EndsStay ==
  /\ operation' \in [Operations -> OperationStatus]
  /\ \A o \in Operations : operation[o] \in Concluded => operation'[o] \in Concluded

(* A call with its answer, or one that goes on unheard.                     *)
SameWait(x, q) ==
  x \in Wait /\ x.kind = q.kind /\ x.id = q.id

LEMMA ShownStays ==
  ASSUME MenuInv, EndsStay, UNCHANGED <<menu, started>>
  PROVE  ShownOK(menu, operation, started)'
<1>1. started \subseteq Operations
  BY MenuTypes
<1> QED
  BY <1>1 DEF MenuInv, ShownOK, EndsStay

LEMMA WaitStays ==
  ASSUME MenuInv, EndsStay, UNCHANGED menu, NEW x \in waits
  PROVE  WaitOK(x, menu, operation)'
BY DEF MenuInv, WaitOK, EndsStay

LEMMA FewerWaitsKeep ==
  ASSUME MenuInv, EndsStay, UNCHANGED <<menu, started>>, waits' \subseteq waits,
         channel' \in [revision : 1..MaxRevision, active : BOOLEAN]
  PROVE  MenuInv'
<1>1. MenuPageTypeOK'
  BY DEF MenuInv, MenuPageTypeOK, EndsStay
<1>2. (\A q \in waits : WaitOK(q, menu, operation))'
  BY WaitStays
<1>3. OneTrack(waits)'
  BY DEF MenuInv, OneTrack
<1> QED
  BY <1>1, <1>2, <1>3, ShownStays DEF MenuInv

(* One call is answered.                                                    *)
LEMMA RepliedKeeps ==
  ASSUME MenuInv, NEW q \in waits, NEW reply, Replied(q, reply),
         SameWait(reply, q), reply.heard = q.heard,
         q.heard => WaitOK(reply, menu, operation),
         UNCHANGED <<menu, operation, started>>,
         channel' \in [revision : 1..MaxRevision, active : BOOLEAN]
  PROVE  MenuInv'
<1>1. \A x \in waits' : x \in waits \ {q} \/ (x = reply /\ q.heard)
  BY DEF Replied
<1>2. EndsStay
  BY MenuTypes DEF EndsStay
<1>3. MenuPageTypeOK'
  BY <1>1 DEF MenuInv, MenuPageTypeOK, SameWait
<1>4. (\A x \in waits : WaitOK(x, menu, operation))'
  BY <1>1 DEF MenuInv, WaitOK
<1>5. OneTrack(waits)'
  BY <1>1 DEF MenuInv, OneTrack, SameWait
<1> QED
  BY <1>2, <1>3, <1>4, <1>5, ShownStays DEF MenuInv

LEMMA AnswerReadKeeps ==
  ASSUME MenuInv, NEW q \in waits, AnswerRead(q)
  PROVE  MenuInv'
<1>1. /\ q.kind \in Reads /\ q \in Wait /\ UNCHANGED <<menu, channel, operation, started>>
      /\ channel' \in [revision : 1..MaxRevision, active : BOOLEAN]
  BY MenuTypes DEF AnswerRead
<1>2. q.heard /\ menu.current # "closed"
  BY <1>1 DEF MenuInv, WaitOK, Reads
<1>3. CASE q.kind = "channel" /\ Replied(q, [q EXCEPT !.answer = "done",
              !.revision = channel.revision, !.active = channel.active])
  <2> DEFINE reply == [q EXCEPT !.answer = "done", !.revision = channel.revision,
                                !.active = channel.active]
  <2>1. channel.revision \in 0..MaxRevision /\ channel.active \in BOOLEAN
    BY MenuTypes
  <2>2. SameWait(reply, q) /\ reply.heard = q.heard /\ reply.kind = "channel"
    BY <1>1, <1>3, <2>1 DEF Wait, SameWait
  <2>3. Replied(q, reply)
    BY <1>3
  <2> HIDE DEF reply
  <2>4. WaitOK(reply, menu, operation)
    BY <1>2, <2>2 DEF WaitOK
  <2> QED
    BY <1>1, <2>2, <2>3, <2>4, RepliedKeeps
<1>4. CASE q.kind = "current" /\ Replied(q, [q EXCEPT !.answer = "done", !.seen = operation])
  <2> DEFINE reply == [q EXCEPT !.answer = "done", !.seen = operation]
  <2>1. SameWait(reply, q) /\ reply.heard = q.heard /\ reply.kind = "current"
        /\ reply.answer = "done" /\ reply.seen = operation
    BY <1>1, <1>4, MenuTypes DEF Wait, SameWait
  <2>2. Replied(q, reply)
    BY <1>4
  <2> HIDE DEF reply
  <2>3. WaitOK(reply, menu, operation)
    BY <1>2, <2>1 DEF WaitOK, MenuInv, ShownOK
  <2> QED
    BY <1>1, <2>1, <2>2, <2>3, RepliedKeeps
<1>5. CASE q.kind = "current" /\ Replied(q, [q EXCEPT !.answer = "changed"])
  <2> DEFINE reply == [q EXCEPT !.answer = "changed"]
  <2>1. SameWait(reply, q) /\ reply.heard = q.heard /\ reply.kind = "current"
        /\ reply.answer = "changed"
    BY <1>1, <1>5 DEF Wait, SameWait
  <2>2. Replied(q, reply)
    BY <1>5
  <2> HIDE DEF reply
  <2>3. WaitOK(reply, menu, operation)
    BY <1>2, <2>1 DEF WaitOK
  <2> QED
    BY <1>1, <2>1, <2>2, <2>3, RepliedKeeps
<1> QED
  BY <1>3, <1>4, <1>5 DEF AnswerRead

(* The answer to a call that is not a read.                                 *)
LEMMA AnsweredKeeps ==
  ASSUME MenuInv, NEW q \in waits, q.kind \notin Reads,
         NEW answer \in {"done", "changed", "failed", "processing"} \cup Concluded,
         q.kind \in {"start", "track"} =>
           /\ answer \in {"failed", "processing"} \cup Concluded
           /\ answer \in Concluded => operation[q.id] \in Concluded,
         Replied(q, [q EXCEPT !.answer = answer]), UNCHANGED <<menu, operation, started>>,
         channel' \in [revision : 1..MaxRevision, active : BOOLEAN]
  PROVE  MenuInv'
<1> DEFINE reply == [q EXCEPT !.answer = answer]
<1>1. q \in Wait /\ WaitOK(q, menu, operation)
  BY MenuTypes DEF MenuInv
<1>2. SameWait(reply, q) /\ reply.heard = q.heard /\ reply.answer = answer
  BY <1>1 DEF Wait, SameWait
<1>3. Replied(q, reply)
  OBVIOUS
<1> HIDE DEF reply
<1>4. WaitOK(reply, menu, operation)
  BY <1>1, <1>2 DEF WaitOK, SameWait, Reads
<1> QED
  BY <1>2, <1>3, <1>4, RepliedKeeps

LEMMA AnswerMenuPreviewKeeps ==
  ASSUME MenuInv, NEW q \in waits, AnswerMenuPreview(q)
  PROVE  MenuInv'
<1> DEFINE answer == IF q.revision = channel.revision THEN "done" ELSE "changed"
<1>1. /\ q.kind = "preview" /\ Replied(q, [q EXCEPT !.answer = answer])
      /\ UNCHANGED <<menu, channel, operation, started>>
  BY DEF AnswerMenuPreview
<1>2. answer \in {"done", "changed"}
  OBVIOUS
<1> HIDE DEF answer
<1> QED
  BY <1>1, <1>2, MenuTypes, AnsweredKeeps DEF Reads

LEMMA AnswerOperationKeeps ==
  ASSUME MenuInv, NEW q \in waits, AnswerOperation(q)
  PROVE  MenuInv'
<1> DEFINE answer == IF operation[q.id] = "none" THEN "failed" ELSE operation[q.id]
<1>1. /\ q.kind \in {"start", "track"} /\ Replied(q, [q EXCEPT !.answer = answer])
      /\ UNCHANGED <<menu, channel, operation, started>> /\ q.id \in Operations
  BY DEF AnswerOperation, MenuInv, WaitOK
<1>2. answer \in {"failed", "processing"} \cup Concluded
      /\ (answer \in Concluded => operation[q.id] \in Concluded)
  BY <1>1, MenuTypes DEF OperationStatus, Concluded
<1> HIDE DEF answer
<1> QED
  BY <1>1, <1>2, MenuTypes, AnsweredKeeps DEF Reads

LEMMA ChangedIs ==
  ASSUME MenuInv, Changed
  PROVE  UNCHANGED operation /\ channel' \in [revision : 1..MaxRevision, active : BOOLEAN]
<1>1. channel.revision \in 1..MaxRevision /\ MaxRevision \in Nat /\ channel.revision < MaxRevision
  BY MenuTypes DEF Changed
<1>2. channel.revision + 1 \in 1..MaxRevision
  BY <1>1
<1> QED
  BY <1>2 DEF Changed

LEMMA ChangesKeep ==
  ASSUME MenuInv, ChangeElsewhere \/ \E q \in waits : ChangeChannel(q)
  PROVE  MenuInv'
<1>1. UNCHANGED operation /\ channel' \in [revision : 1..MaxRevision, active : BOOLEAN]
  BY ChangedIs DEF ChangeElsewhere, ChangeChannel
<1>2. CASE ChangeElsewhere
  BY <1>1, <1>2, MenuTypes, FewerWaitsKeep DEF ChangeElsewhere, EndsStay
<1>3. ASSUME NEW q \in waits, ChangeChannel(q)
      PROVE  MenuInv'
  <2>1. q.kind = "change" /\ Replied(q, [q EXCEPT !.answer = "done"]) /\ UNCHANGED <<menu, started>>
    BY <1>3 DEF ChangeChannel
  <2> QED
    BY <1>1, <2>1, AnsweredKeeps DEF Reads
<1> QED
  BY <1>2, <1>3

LEMMA ProgressKeeps ==
  ASSUME MenuInv, (\E q \in waits : Accept(q)) \/ (\E o \in Operations : Settle(o))
  PROVE  MenuInv'
<1>1. ASSUME NEW q \in waits, Accept(q)
      PROVE  EndsStay /\ waits' \subseteq waits
  <2>1. q.id \in Operations
    BY <1>1 DEF Accept, MenuInv, WaitOK
  <2> QED
    BY <1>1, <2>1, MenuTypes DEF Accept, EndsStay, OperationStatus, Concluded
<1>2. ASSUME NEW o \in Operations, Settle(o)
      PROVE  EndsStay /\ waits' \subseteq waits
  <2>1. PICK status \in Concluded : operation' = [operation EXCEPT ![o] = status]
    BY <1>2 DEF Settle
  <2> QED
    BY <1>2, <2>1, MenuTypes DEF Settle, EndsStay, OperationStatus, Concluded
<1>3. UNCHANGED <<menu, channel, started>>
  BY DEF Accept, Settle
<1> QED
  BY <1>1, <1>2, <1>3, MenuTypes, FewerWaitsKeep

(* What goes on unheard is a start or a change that was not answered.       *)
LEMMA UnderwayIs ==
  ASSUME MenuInv, NEW ws \in SUBSET waits, NEW m, m.current \in {"closed", menu.current}
  PROVE  \A x \in Underway(ws) :
           /\ x \in Wait /\ ~x.heard /\ x.kind # "track"
           /\ WaitOK(x, m, operation)
<1>1. ASSUME NEW q \in ws, q.kind \in {"start", "change"}, q.answer = "none"
      PROVE  LET x == [q EXCEPT !.heard = FALSE] IN
             x \in Wait /\ ~x.heard /\ x.kind # "track" /\ WaitOK(x, m, operation)
  <2> DEFINE x == [q EXCEPT !.heard = FALSE]
  <2>1. q \in Wait /\ WaitOK(q, menu, operation)
    BY MenuTypes DEF MenuInv
  <2>2. x \in Wait /\ ~x.heard /\ x.kind = q.kind /\ x.answer = "none" /\ x.id = q.id
    BY <1>1, <2>1 DEF Wait
  <2> HIDE DEF x
  <2>3. WaitOK(x, m, operation)
    BY <1>1, <2>1, <2>2 DEF WaitOK, Concluded
  <2> QED
    BY <1>1, <2>2, <2>3 DEF x
<1>2. ASSUME NEW x \in Underway(ws)
      PROVE  x \in Wait /\ ~x.heard /\ x.kind # "track" /\ WaitOK(x, m, operation)
  <2>1. PICK q \in ws : /\ q.kind \in {"start", "change"} /\ q.answer = "none"
                        /\ x = [q EXCEPT !.heard = FALSE]
    BY <1>2 DEF Underway
  <2> QED
    BY <1>1, <2>1
<1> QED
  BY <1>2

LEMMA FailCallKeeps ==
  ASSUME MenuInv, NEW q \in waits, FailCall(q)
  PROVE  MenuInv'
<1> DEFINE k == [q EXCEPT !.answer = "failed"]
<1>1. q.heard /\ UNCHANGED <<menu, channel, operation, started>>
  BY DEF FailCall
<1>2. PICK rest \in SUBSET Underway({q}) : waits' = (waits \ {q}) \cup {k} \cup rest
  BY DEF FailCall
<1>3. q \in Wait /\ WaitOK(q, menu, operation)
  BY MenuTypes DEF MenuInv
<1>4. k \in Wait /\ k.kind = q.kind /\ k.id = q.id /\ k.heard /\ k.answer = "failed"
  BY <1>1, <1>3 DEF Wait
<1> HIDE DEF k
<1>5. WaitOK(k, menu, operation)
  BY <1>1, <1>3, <1>4 DEF WaitOK, Concluded
<1>6. \A x \in rest : x \in Wait /\ x.kind # "track" /\ WaitOK(x, menu, operation)
  BY UnderwayIs
<1>7. MenuPageTypeOK'
  BY <1>1, <1>2, <1>4, <1>6 DEF MenuInv, MenuPageTypeOK
<1>8. (\A x \in waits : WaitOK(x, menu, operation))'
  BY <1>1, <1>2, <1>5, <1>6 DEF MenuInv, WaitOK
<1>9. OneTrack(waits)'
  BY <1>2, <1>4, <1>6 DEF MenuInv, OneTrack
<1>10. ShownOK(menu, operation, started)'
  BY <1>1 DEF MenuInv, ShownOK
<1> QED
  BY <1>7, <1>8, <1>9, <1>10 DEF MenuInv

-----------------------------------------------------------------------------
(* The page                                                                 *)

(* The page shows no more than before, and asks for nothing but reads,      *)
(* previews and changes.                                                    *)
LEMMA QuietKeeps ==
  ASSUME MenuInv, NEW n \in MenuState, menu' = n, menu.current # "closed", n.current # "closed",
         n.operation = menu.operation, n.id = menu.id,
         n.current = "ready" => menu.current = "ready" /\ n.seen = menu.seen,
         \A x \in waits' : x \in waits \/ Plain(x),
         UNCHANGED <<channel, operation, started>>
  PROVE  MenuInv'
<1>1. MenuPageTypeOK'
  BY DEF MenuInv, MenuPageTypeOK, Plain
<1>2. (\A x \in waits : WaitOK(x, menu, operation))'
  BY DEF MenuInv, WaitOK, Plain, Wait
<1>3. OneTrack(waits)'
  BY DEF MenuInv, OneTrack, Plain
<1>4. ShownOK(menu, operation, started)'
  BY DEF MenuInv, ShownOK
<1> QED
  BY <1>1, <1>2, <1>3, <1>4 DEF MenuInv

LEMMA HeardIsOpen ==
  ASSUME MenuInv, NEW q \in waits, q.heard
  PROVE  menu.current # "closed"
BY DEF MenuInv, WaitOK

LEMMA OpenMenuKeeps ==
  ASSUME MenuInv, OpenMenu
  PROVE  MenuInv'
<1> DEFINE m == [InitialMenu EXCEPT !.revision = channel.revision, !.active = channel.active]
<1>1. /\ menu.current = "closed" /\ Loads(m, waits, "current", FALSE) /\ started' = {}
      /\ UNCHANGED <<channel, operation>>
  BY DEF OpenMenu
<1>2. channel.revision \in 0..MaxRevision /\ channel.active \in BOOLEAN
  BY MenuTypes
<1>3. m \in MenuState /\ m.operation = "idle"
  BY <1>2, InitialMenuIs
<1> HIDE DEF m
<1>4. /\ SameWork(menu', m) /\ menu'.current = "loading"
      /\ \A x \in waits' : (x \in waits /\ x.kind \notin Reads) \/ Plain(x)
  BY <1>1, <1>3, MenuTypes, LoadsIs DEF Reads
<1>5. \A x \in waits : ~x.heard /\ x.kind \in {"start", "change"}
  BY <1>1 DEF MenuInv, WaitOK
<1>6. MenuPageTypeOK'
  BY <1>1, <1>4 DEF MenuInv, MenuPageTypeOK, Plain, SameWork
<1>7. (\A x \in waits : WaitOK(x, menu, operation))'
  BY <1>1, <1>3, <1>4, <1>5 DEF MenuInv, WaitOK, Plain, SameWork, Wait, Concluded
<1>8. OneTrack(waits)'
  BY <1>4, <1>5 DEF OneTrack, Plain
<1>9. ShownOK(menu, operation, started)'
  BY <1>1, <1>3, <1>4 DEF ShownOK, SameWork, Concluded
<1> QED
  BY <1>6, <1>7, <1>8, <1>9 DEF MenuInv

LEMMA ClearMenuKeeps ==
  ASSUME MenuInv, ClearMenu
  PROVE  MenuInv'
<1>1. menu' = InitialMenu /\ waits' = Underway(waits) /\ UNCHANGED <<channel, operation, started>>
  BY DEF ClearMenu
<1>2. InitialMenu \in MenuState /\ InitialMenu.current = "closed" /\ InitialMenu.operation = "idle"
  BY MenuTypes, InitialMenuIs
<1>3. \A x \in waits' : x \in Wait /\ x.kind # "track" /\ WaitOK(x, InitialMenu, operation)
  BY <1>1, <1>2, UnderwayIs
<1>4. MenuPageTypeOK' /\ OneTrack(waits)' /\ ShownOK(menu, operation, started)'
  BY <1>1, <1>2, <1>3 DEF MenuInv, MenuPageTypeOK, OneTrack, ShownOK, Concluded
<1> QED
  BY <1>1, <1>3, <1>4 DEF MenuInv

LEMMA ReadsAgainKeep ==
  ASSUME MenuInv, menu.current # "closed", NEW ws \in SUBSET waits, NEW holds \in BOOLEAN,
         Loads(menu, ws, "channel", holds), UNCHANGED <<channel, operation, started>>
  PROVE  MenuInv'
<1>1. /\ SameWork(menu', menu) /\ menu'.current = "loading"
      /\ \A x \in waits' : (x \in ws /\ x.kind \notin Reads) \/ Plain(x)
  <2>1. ws \in SUBSET Wait /\ menu \in MenuState
    BY MenuTypes
  <2>2. "channel" \in Reads
    BY DEF Reads
  <2> QED
    BY <2>1, <2>2, LoadsIs
<1> QED
  BY <1>1, QuietKeeps DEF SameWork

LEMMA TakeChannelKeeps ==
  ASSUME MenuInv, NEW q \in waits, TakeChannel(q)
  PROVE  MenuInv'
<1> DEFINE m == [menu EXCEPT !.revision = q.revision, !.active = q.active]
           n == IF q.active = menu.active THEN Invalidated(m)
                ELSE [m EXCEPT !.editor = "viewing", !.previewed = 0]
           r == Asks("current", NoOperation, q.revision, q.holds)
<1>1. /\ q.heard /\ menu' = Unshown(n, "loading") /\ waits' = Reedited(waits \ {q}) \cup {r}
      /\ UNCHANGED <<channel, operation, started>>
  BY DEF TakeChannel
<1>2. q \in Wait /\ q.revision \in 0..MaxRevision /\ q.active \in BOOLEAN /\ q.holds \in BOOLEAN
  BY MenuTypes DEF Wait
<1>3. m \in MenuState /\ m.operation = menu.operation /\ m.id = menu.id
  BY <1>2, MenuTypes DEF MenuState
<1> HIDE DEF m
<1>4. n \in MenuState /\ n.operation = menu.operation /\ n.id = menu.id
  <2>1. CASE q.active = menu.active
    BY <1>3, <2>1, InvalidatedIs DEF SameWork
  <2>2. CASE q.active # menu.active
    BY <1>3, <2>2, MenuTypes DEF MenuState
  <2> QED
    BY <2>1, <2>2
<1> HIDE DEF n
<1>5. SameWork(Unshown(n, "loading"), n) /\ Unshown(n, "loading").current = "loading"
  BY <1>4, UnshownIs
<1>6. Plain(r)
  BY <1>2, AsksIs DEF Plain
<1> HIDE DEF r
<1>7. \A x \in waits' : x \in waits \/ Plain(x)
  BY <1>1, <1>6 DEF Reedited
<1> QED
  BY <1>1, <1>4, <1>5, <1>7, HeardIsOpen, QuietKeeps DEF SameWork

(* The menu is read: what it shows of the operation was so after its end.   *)
LEMMA TakeCurrentKeeps ==
  ASSUME MenuInv, NEW q \in waits, TakeCurrent(q)
  PROVE  MenuInv'
<1>1. /\ q.kind \in Reads /\ q.heard /\ q.answer # "none" /\ (q.kind = "channel" => q.answer = "failed")
      /\ UNCHANGED <<channel, operation, started>> /\ waits' \subseteq waits
      /\ menu \in MenuState /\ menu.current # "closed"
  BY MenuTypes, HeardIsOpen DEF TakeCurrent, Reedited
<1>2. CASE q.answer = "changed"
  BY <1>1, <1>2, RefreshRequiredIs, QuietKeeps DEF TakeCurrent, SameWork
<1>3. CASE q.answer # "changed" /\ menu.current # "loading"
  BY <1>1, <1>3, QuietKeeps DEF TakeCurrent
<1>4. CASE q.answer = "failed" /\ menu.current = "loading"
  <2> DEFINE n == [menu EXCEPT !.current = "failed"]
  <2>1. menu' = n
    BY <1>4 DEF TakeCurrent
  <2>2. n \in MenuState /\ n.current = "failed" /\ n.operation = menu.operation /\ n.id = menu.id
    BY <1>1 DEF MenuState
  <2> HIDE DEF n
  <2> QED
    BY <1>1, <2>1, <2>2, QuietKeeps
<1>5. CASE q.answer \notin {"changed", "failed"} /\ menu.current = "loading"
  <2> DEFINE editor == IF menu.active THEN menu.editor ELSE "viewing"
             n == [menu EXCEPT !.current = "ready", !.seen = q.seen, !.editor = editor]
  <2>1. q \in Wait /\ WaitOK(q, menu, operation)
    BY MenuTypes DEF MenuInv
  <2>2. q.kind = "current" /\ q.answer = "done" /\ q.seen \in [Operations -> OperationStatus]
    BY <1>1, <1>5, <2>1 DEF WaitOK, Reads, Wait
  <2>3. menu' = n
    BY <1>5 DEF TakeCurrent
  <2>4. /\ n \in MenuState /\ n.current = "ready" /\ n.operation = menu.operation
        /\ n.id = menu.id /\ n.seen = q.seen
    <3>1. editor \in {"viewing", "editing", "previewing", "confirming", "preview_invalid"}
      BY <1>1 DEF MenuState
    <3> HIDE DEF editor
    <3> QED
      BY <1>1, <2>2, <3>1 DEF MenuState
  <2> HIDE DEF n
  <2>5. MenuPageTypeOK'
    BY <1>1, <2>3, <2>4 DEF MenuInv, MenuPageTypeOK
  <2>6. (\A x \in waits : WaitOK(x, menu, operation))'
    BY <1>1, <2>3, <2>4 DEF MenuInv, WaitOK
  <2>7. OneTrack(waits)'
    BY <1>1 DEF MenuInv, OneTrack
  <2>8. ShownOK(menu, operation, started)'
    BY <1>1, <2>1, <2>2, <2>3, <2>4 DEF MenuInv, ShownOK, WaitOK
  <2> QED
    BY <2>5, <2>6, <2>7, <2>8 DEF MenuInv
<1> QED
  BY <1>2, <1>3, <1>4, <1>5

(* The draft alone changes.                                                 *)
LEMMA DraftKeeps ==
  ASSUME MenuInv, menu.current # "closed",
         NEW editor \in {"viewing", "editing", "previewing", "confirming", "preview_invalid"},
         NEW previewed \in 0..MaxRevision,
         menu' = [menu EXCEPT !.editor = editor, !.previewed = previewed],
         \A x \in waits' : x \in waits \/ Plain(x),
         UNCHANGED <<channel, operation, started>>
  PROVE  MenuInv'
<1> DEFINE n == [menu EXCEPT !.editor = editor, !.previewed = previewed]
<1>1. /\ n \in MenuState /\ n.current = menu.current /\ n.operation = menu.operation
      /\ n.id = menu.id /\ n.seen = menu.seen
  BY MenuTypes DEF MenuState
<1>2. menu' = n
  OBVIOUS
<1> HIDE DEF n
<1> QED
  BY <1>1, <1>2, QuietKeeps

LEMMA InvalidKeeps ==
  ASSUME MenuInv, menu.current # "closed", menu' = Invalidated(menu), waits' \subseteq waits,
         UNCHANGED <<channel, operation, started>>
  PROVE  MenuInv'
BY MenuTypes, InvalidatedIs, QuietKeeps DEF SameWork

LEMMA DraftsKeep ==
  ASSUME MenuInv, EditMenu \/ PreviewMenu \/ ExpirePreview
  PROVE  MenuInv'
<1>1. menu \in MenuState /\ menu.previewed \in 0..MaxRevision /\ menu.revision \in 0..MaxRevision
      /\ 0 \in 0..MaxRevision
  BY MenuTypes DEF MenuState
<1>2. CASE EditMenu
  <2>1. PICK editor \in {"editing", "viewing"} :
          menu' = [menu EXCEPT !.editor = editor, !.previewed = 0]
    BY <1>2 DEF EditMenu
  <2>2. menu.current # "closed" /\ waits' \subseteq waits /\ UNCHANGED <<channel, operation, started>>
    BY <1>2 DEF EditMenu, Reedited
  <2> QED
    BY <1>1, <2>1, <2>2, DraftKeeps
<1>3. CASE PreviewMenu
  <2> DEFINE r == Asks("preview", NoOperation, menu.revision, FALSE)
             n == [menu EXCEPT !.editor = "previewing"]
  <2>1. /\ menu.current = "ready" /\ menu' = n /\ waits' = waits \cup {r}
        /\ UNCHANGED <<channel, operation, started>>
    BY <1>3 DEF PreviewMenu, Allowed
  <2>2. Plain(r)
    BY <1>1, NowhereIs DEF Plain, Asks, Wait
  <2>3. /\ n \in MenuState /\ n.current = menu.current /\ n.operation = menu.operation
        /\ n.id = menu.id /\ n.seen = menu.seen
    BY <1>1 DEF MenuState
  <2> HIDE DEF r, n
  <2> QED
    BY <2>1, <2>2, <2>3, QuietKeeps
<1>4. CASE ExpirePreview
  <2>1. menu.editor = "confirming" /\ menu' = Invalidated(menu) /\ waits' \subseteq waits
        /\ UNCHANGED <<channel, operation, started>>
    BY <1>4 DEF ExpirePreview, Reedited
  <2>2. CASE menu.current # "closed"
    BY <2>1, <2>2, InvalidKeeps
  <2>3. CASE menu.current = "closed"
    <3>1. SameWork(menu', menu) /\ menu'.current = "closed"
      BY <1>1, <2>1, <2>3, InvalidatedIs
    <3>2. MenuPageTypeOK' /\ OneTrack(waits)'
      BY <2>1, <3>1 DEF MenuInv, MenuPageTypeOK, OneTrack, SameWork
    <3>3. (\A x \in waits : WaitOK(x, menu, operation))'
      BY <2>1, <2>3, <3>1 DEF MenuInv, WaitOK, SameWork
    <3>4. ShownOK(menu, operation, started)'
      BY <2>1, <2>3, <3>1 DEF MenuInv, ShownOK, SameWork
    <3> QED
      BY <3>2, <3>3, <3>4 DEF MenuInv
  <2> QED
    BY <2>2, <2>3
<1> QED
  BY <1>2, <1>3, <1>4

LEMMA TakeMenuPreviewKeeps ==
  ASSUME MenuInv, NEW q \in waits, TakeMenuPreview(q)
  PROVE  MenuInv'
<1>1. /\ menu.current # "closed" /\ menu \in MenuState /\ waits' \subseteq waits
      /\ UNCHANGED <<channel, operation, started>> /\ q.revision \in 0..MaxRevision
  BY MenuTypes, HeardIsOpen DEF TakeMenuPreview, Reedited, Wait
<1>2. CASE q.answer = "changed"
  BY <1>1, <1>2, RefreshRequiredIs, QuietKeeps DEF TakeMenuPreview, SameWork
<1>3. CASE q.answer = "failed"
  <2> DEFINE n == [menu EXCEPT !.editor = "editing"]
  <2>1. menu' = n
    BY <1>3 DEF TakeMenuPreview
  <2>2. /\ n \in MenuState /\ n.current = menu.current /\ n.operation = menu.operation
        /\ n.id = menu.id /\ n.seen = menu.seen
    BY <1>1 DEF MenuState
  <2> HIDE DEF n
  <2> QED
    BY <1>1, <2>1, <2>2, QuietKeeps
<1>4. CASE q.answer \notin {"changed", "failed"} /\ q.revision # menu.revision
  BY <1>1, <1>4, InvalidKeeps DEF TakeMenuPreview
<1>5. CASE q.answer \notin {"changed", "failed"} /\ q.revision = menu.revision
  BY <1>1, <1>5, DraftKeeps DEF TakeMenuPreview
<1> QED
  BY <1>2, <1>3, <1>4, <1>5

LEMMA LifecycleKeeps ==
  ASSUME MenuInv, LifecycleChange \/ \E q \in waits : TakeChange(q)
  PROVE  MenuInv'
<1>1. CASE LifecycleChange
  <2> DEFINE n == [RefreshRequired(menu) EXCEPT !.editor = "viewing"]
             r == Asks("change", NoOperation, menu.revision, TRUE)
  <2>1. /\ menu.current = "ready" /\ menu' = n /\ waits' = Reedited(waits) \cup {r}
        /\ UNCHANGED <<channel, operation, started>>
    BY <1>1 DEF LifecycleChange
  <2>2. menu.revision \in 0..MaxRevision
    BY MenuTypes DEF MenuState
  <2>3. Plain(r)
    BY <2>2, NowhereIs DEF Plain, Asks, Wait
  <2>4. SameWork(RefreshRequired(menu), menu) /\ RefreshRequired(menu).current = "refresh_required"
    BY MenuTypes, RefreshRequiredIs
  <2>5. /\ n \in MenuState /\ n.current = "refresh_required" /\ n.operation = menu.operation
        /\ n.id = menu.id
    BY <2>4 DEF MenuState, SameWork
  <2> HIDE DEF r, n
  <2>6. \A x \in waits' : x \in waits \/ Plain(x)
    BY <2>1, <2>3 DEF Reedited
  <2> QED
    BY <2>1, <2>5, <2>6, QuietKeeps
<1>2. ASSUME NEW q \in waits, TakeChange(q)
      PROVE  MenuInv'
  <2>1. menu.current # "closed" /\ UNCHANGED <<channel, operation, started>>
    BY <1>2, HeardIsOpen DEF TakeChange
  <2>2. CASE q.answer = "done"
    BY <1>2, <2>1, <2>2, ReadsAgainKeep DEF TakeChange
  <2>3. CASE q.answer # "done"
    <3>1. EndsStay
      BY <2>1, MenuTypes DEF EndsStay
    <3> QED
      BY <1>2, <2>1, <2>3, <3>1, MenuTypes, FewerWaitsKeep DEF TakeChange
  <2> QED
    BY <2>2, <2>3
<1> QED
  BY <1>1, <1>2

-----------------------------------------------------------------------------
(* Operations                                                               *)

(* An operation is started when the ones before it are known to be over.    *)
LEMMA StartOperationKeeps ==
  ASSUME MenuInv, NEW o \in Operations, StartOperation(o)
  PROVE  MenuInv'
<1> DEFINE r == Asks("start", o, menu.revision, TRUE)
           n == [Unshown(menu, "refresh_required") EXCEPT
                  !.operation = "submitting", !.id = o, !.editor = "viewing", !.previewed = 0]
<1>1. /\ menu.current = "ready" /\ menu.operation \notin {"submitting", "tracking", "transport_unknown"}
      /\ menu' = n /\ waits' = Reedited(waits) \cup {r} /\ started' = started \cup {o}
      /\ UNCHANGED <<channel, operation>>
  BY DEF StartOperation, CanStart, Allowed, Unoccupied
<1>2. menu.revision \in 0..MaxRevision /\ menu.operation \in {"idle"} \cup Concluded
      /\ 0 \in 0..MaxRevision
  BY <1>1, MenuTypes DEF MenuState
<1>3. r \in Wait /\ r.kind = "start" /\ r.id = o /\ r.heard /\ r.answer = "none"
  BY <1>2, NowhereIs DEF Asks, Wait
<1>4. SameWork(Unshown(menu, "refresh_required"), menu)
      /\ Unshown(menu, "refresh_required").current = "refresh_required"
  BY MenuTypes, UnshownIs
<1>5. /\ n \in MenuState /\ n.current = "refresh_required" /\ n.operation = "submitting"
      /\ n.id = o
  BY <1>2, <1>4 DEF MenuState, SameWork
<1> HIDE DEF r, n
<1>6. \A p \in started : operation[p] \in Concluded
  BY <1>1, <1>2 DEF MenuInv, ShownOK
<1>7. \A x \in waits : x.kind # "track"
  BY <1>1 DEF MenuInv, WaitOK
<1>8. MenuPageTypeOK'
  BY <1>1, <1>3, <1>5 DEF MenuInv, MenuPageTypeOK, Reedited
<1>9. (\A x \in waits : WaitOK(x, menu, operation))'
  BY <1>1, <1>3, <1>5, <1>7 DEF MenuInv, WaitOK, Reedited, Concluded
<1>10. OneTrack(waits)'
  BY <1>1, <1>3, <1>7 DEF OneTrack, Reedited
<1>11. ShownOK(menu, operation, started)'
  BY <1>1, <1>5, <1>6 DEF ShownOK, Concluded
<1> QED
  BY <1>8, <1>9, <1>10, <1>11 DEF MenuInv

(* The status of the operation on the page is asked for.                    *)
LEMMA TracksKeeps ==
  ASSUME MenuInv, menu.current # "closed", NEW m \in MenuState, NEW o \in Operations,
         NEW ws \in SUBSET waits, NEW holds \in BOOLEAN, Tracks(m, o, ws, holds),
         m.current \in {menu.current, "refresh_required"},
         (menu.id = o /\ menu.operation # "idle") \/ started = {},
         UNCHANGED <<channel, operation, started>>
  PROVE  MenuInv'
<1> DEFINE n == [m EXCEPT !.operation = "tracking", !.id = o]
           r == Asks("track", o, 0, holds)
<1>1. menu' = n /\ waits' = Untracked(ws) \cup {r}
  BY DEF Tracks
<1>2. n \in MenuState /\ n.current = m.current /\ n.operation = "tracking" /\ n.id = o
  BY DEF MenuState
<1>3. r \in Wait /\ r.kind = "track" /\ r.id = o /\ r.heard /\ r.answer = "none"
  BY MenuTypes, AsksIs
<1> HIDE DEF n, r
<1>4. MenuPageTypeOK'
  BY <1>1, <1>2, <1>3, MenuTypes DEF MenuInv, MenuPageTypeOK, Untracked
<1>5. (\A x \in waits : WaitOK(x, menu, operation))'
  BY <1>1, <1>2, <1>3 DEF MenuInv, WaitOK, Untracked, Concluded
<1>6. OneTrack(waits)'
  BY <1>1, <1>3 DEF OneTrack, Untracked
<1>7. ShownOK(menu, operation, started)'
  BY <1>1, <1>2 DEF MenuInv, ShownOK, Concluded
<1> QED
  BY <1>4, <1>5, <1>6, <1>7 DEF MenuInv

LEMMA TrackOperationKeeps ==
  ASSUME MenuInv, NEW o \in Operations, TrackOperation(o)
  PROVE  MenuInv'
<1>1. Tracks(menu, o, waits, FALSE) /\ UNCHANGED <<channel, operation, started>>
  BY DEF TrackOperation
<1>2. CASE menu.operation \notin {"idle", "submitting"} /\ menu.id = o
  <2>1. menu.current # "closed"
    BY <1>2 DEF MenuInv, ShownOK
  <2> QED
    BY <1>1, <1>2, <2>1, MenuTypes, TracksKeeps
<1>3. CASE menu.operation = "idle" /\ menu.current = "ready"
  <2>1. started = {}
    BY <1>3 DEF MenuInv, ShownOK
  <2> QED
    BY <1>1, <1>3, <2>1, MenuTypes, TracksKeeps
<1> QED
  BY <1>2, <1>3 DEF TrackOperation

(* The page learns of the operation it shows.                               *)
LEMMA OperationReceivedKeeps ==
  ASSUME MenuInv, NEW q \in waits, q.heard, q.kind \in {"start", "track"}, q.id = menu.id,
         menu.operation \in {"submitting", "tracking"},
         q.kind = "start" => menu.operation = "submitting" /\ q.answer \in Concluded,
         q.answer \in {"processing"} \cup Concluded,
         OperationReceived(q), UNCHANGED <<channel, operation, started>>
  PROVE  MenuInv'
<1>1. /\ menu \in MenuState /\ menu.current # "closed" /\ q \in Wait /\ q.id \in Operations
      /\ WaitOK(q, menu, operation) /\ q.holds \in BOOLEAN
  BY MenuTypes, HeardIsOpen DEF MenuInv, WaitOK, Wait
<1>2. \A x \in waits \ {q} : x.kind # "track"
  <2>1. CASE q.kind = "track"
    BY <2>1 DEF MenuInv, OneTrack
  <2>2. CASE q.kind = "start"
    BY <2>2 DEF MenuInv, WaitOK
  <2> QED
    BY <2>1, <2>2
<1>3. CASE q.answer = "processing"
  <2> DEFINE n == [Unshown(menu, "refresh_required") EXCEPT !.operation = "tracking"]
  <2>1. menu' = n /\ waits' = waits \ {q}
    BY <1>3 DEF OperationReceived
  <2>2. SameWork(Unshown(menu, "refresh_required"), menu)
        /\ Unshown(menu, "refresh_required").current = "refresh_required"
    BY <1>1, UnshownIs
  <2>3. /\ n \in MenuState /\ n.current = "refresh_required" /\ n.operation = "tracking"
        /\ n.id = menu.id
    BY <2>2 DEF MenuState, SameWork
  <2> HIDE DEF n
  <2>4. MenuPageTypeOK' /\ OneTrack(waits)'
    BY <2>1, <2>3 DEF MenuInv, MenuPageTypeOK, OneTrack
  <2>5. (\A x \in waits : WaitOK(x, menu, operation))'
    BY <1>1, <1>2, <2>1, <2>3 DEF MenuInv, WaitOK, Concluded
  <2>6. ShownOK(menu, operation, started)'
    BY <1>1, <2>1, <2>3 DEF MenuInv, ShownOK, Concluded
  <2> QED
    BY <2>4, <2>5, <2>6 DEF MenuInv
<1>4. CASE q.answer \in Concluded
  <2> DEFINE m == [menu EXCEPT !.operation = q.answer]
  <2>1. Loads(m, waits \ {q}, "channel", q.holds)
    BY <1>4 DEF OperationReceived, Concluded
  <2>2. m \in MenuState /\ m.operation = q.answer /\ m.id = menu.id
    BY <1>1, <1>4 DEF MenuState
  <2> HIDE DEF m
  <2>3. /\ SameWork(menu', m) /\ menu'.current = "loading"
        /\ \A x \in waits' : (x \in waits \ {q} /\ x.kind \notin Reads) \/ Plain(x)
    BY <1>1, <2>1, <2>2, MenuTypes, LoadsIs DEF Reads
  <2>4. operation[q.id] \in Concluded
    BY <1>1, <1>4 DEF WaitOK
  <2>5. MenuPageTypeOK' /\ OneTrack(waits)'
    BY <1>2, <2>3 DEF MenuInv, MenuPageTypeOK, OneTrack, SameWork, Plain
  <2>6. (\A x \in waits : WaitOK(x, menu, operation))'
    BY <1>1, <1>2, <2>2, <2>3 DEF MenuInv, WaitOK, SameWork, Plain, Reads, Wait
  <2>7. ShownOK(menu, operation, started)'
    BY <1>1, <1>4, <2>2, <2>3, <2>4 DEF MenuInv, ShownOK, SameWork, Concluded
  <2> QED
    BY <2>5, <2>6, <2>7 DEF MenuInv
<1> QED
  BY <1>3, <1>4

LEMMA TakeStartKeeps ==
  ASSUME MenuInv, NEW q \in waits, TakeStart(q)
  PROVE  MenuInv'
<1>1. /\ q.kind = "start" /\ q.heard /\ menu.operation = "submitting" /\ menu.id = q.id
      /\ UNCHANGED <<channel, operation, started>> /\ q.id \in Operations
      /\ menu.current # "closed" /\ menu \in MenuState
  BY MenuTypes, HeardIsOpen DEF TakeStart, MenuInv, WaitOK
<1>2. CASE q.answer \in Concluded
  BY <1>1, <1>2, OperationReceivedKeeps DEF TakeStart
<1>3. CASE q.answer \notin Concluded
  <2> DEFINE m == IF q.answer = "failed" THEN menu ELSE Unshown(menu, "refresh_required")
  <2>1. Tracks(m, q.id, waits \ {q}, TRUE)
    BY <1>3 DEF TakeStart
  <2>2. m \in MenuState /\ m.current \in {menu.current, "refresh_required"}
    BY <1>1, UnshownIs DEF SameWork
  <2> HIDE DEF m
  <2>3. waits \ {q} \in SUBSET waits
    OBVIOUS
  <2> QED
    BY <1>1, <2>1, <2>2, <2>3, TracksKeeps
<1> QED
  BY <1>2, <1>3

LEMMA TakeTrackKeeps ==
  ASSUME MenuInv, NEW q \in waits, TakeTrack(q)
  PROVE  MenuInv'
<1>1. /\ q.kind = "track" /\ q.heard /\ menu.operation = "tracking" /\ menu.id = q.id
      /\ UNCHANGED <<channel, operation, started>> /\ menu.current # "closed"
      /\ q.answer \in {"failed", "processing"} \cup Concluded
  BY HeardIsOpen DEF TakeTrack, MenuInv, WaitOK
<1>2. CASE q.answer = "failed"
  <2> DEFINE n == [menu EXCEPT !.operation = "transport_unknown"]
  <2>1. menu' = n /\ waits' = waits \ {q}
    BY <1>2 DEF TakeTrack
  <2>2. /\ n \in MenuState /\ n.current = menu.current /\ n.operation = "transport_unknown"
        /\ n.id = menu.id
    BY MenuTypes DEF MenuState
  <2> HIDE DEF n
  <2>3. \A x \in waits' : x \in waits /\ x.kind # "track"
    BY <1>1, <2>1 DEF MenuInv, OneTrack
  <2>4. MenuPageTypeOK' /\ OneTrack(waits)'
    BY <1>1, <2>1, <2>2 DEF MenuInv, MenuPageTypeOK, OneTrack
  <2>5. (\A x \in waits : WaitOK(x, menu, operation))'
    BY <1>1, <2>1, <2>2, <2>3 DEF MenuInv, WaitOK, Concluded
  <2>6. ShownOK(menu, operation, started)'
    BY <1>1, <2>1, <2>2 DEF MenuInv, ShownOK, Concluded
  <2> QED
    BY <2>4, <2>5, <2>6 DEF MenuInv
<1>3. CASE q.answer # "failed"
  BY <1>1, <1>3, OperationReceivedKeeps DEF TakeTrack
<1> QED
  BY <1>2, <1>3

-----------------------------------------------------------------------------

LEMMA MenuAtFirst == MenuPageInit => MenuInv
<1> SUFFICES ASSUME MenuPageInit PROVE MenuInv
  OBVIOUS
<1>1. 0 \in 0..MaxRevision /\ 1 \in 1..MaxRevision
  BY MenuPageAssumption
<1>2. InitialMenu \in MenuState /\ InitialMenu.current = "closed" /\ InitialMenu.operation = "idle"
  BY <1>1, InitialMenuIs
<1>3. MenuPageTypeOK
  BY <1>1, <1>2, NowhereIs DEF MenuPageInit, MenuPageTypeOK
<1> QED
  BY <1>2, <1>3 DEF MenuPageInit, MenuInv, OneTrack, ShownOK, Concluded

LEMMA MenuNextKeeps ==
  ASSUME MenuInv, [MenuPageNext]_menuPageVars
  PROVE  MenuInv'
<1>1. CASE UNCHANGED menuPageVars
  <2>1. EndsStay
    BY <1>1, MenuTypes DEF EndsStay, menuPageVars
  <2> QED
    BY <1>1, <2>1, MenuTypes, FewerWaitsKeep DEF menuPageVars
<1>2. CASE OpenMenu \/ ClearMenu \/ Refresh
  <2>1. CASE Refresh
    BY <2>1, ReadsAgainKeep DEF Refresh
  <2> QED
    BY <1>2, <2>1, OpenMenuKeeps, ClearMenuKeeps
<1>3. CASE EditMenu \/ PreviewMenu \/ ExpirePreview \/ LifecycleChange \/ ChangeElsewhere
  BY <1>3, DraftsKeep, LifecycleKeeps, ChangesKeep
<1>4. CASE \E o \in Operations : StartOperation(o) \/ TrackOperation(o) \/ Settle(o)
  BY <1>4, StartOperationKeeps, TrackOperationKeeps, ProgressKeeps
<1>5. CASE \E q \in waits : AnswerRead(q) \/ AnswerMenuPreview(q) \/ Accept(q)
                            \/ AnswerOperation(q) \/ ChangeChannel(q) \/ FailCall(q)
  BY <1>5, AnswerReadKeeps, AnswerMenuPreviewKeeps, ProgressKeeps, AnswerOperationKeeps,
     ChangesKeep, FailCallKeeps
<1>6. CASE \E q \in waits : TakeChannel(q) \/ TakeCurrent(q) \/ TakeMenuPreview(q)
                            \/ TakeStart(q) \/ TakeTrack(q) \/ TakeChange(q)
  BY <1>6, TakeChannelKeeps, TakeCurrentKeeps, TakeMenuPreviewKeeps, TakeStartKeeps,
     TakeTrackKeeps, LifecycleKeeps
<1> QED
  BY <1>1, <1>2, <1>3, <1>4, <1>5, <1>6 DEF MenuPageNext

LEMMA MenuPageIsInvariant == MenuPageSpec => []MenuInv
BY MenuAtFirst, MenuNextKeeps, PTL DEF MenuPageSpec

(* The page never has two operations under way whose end it does not know.  *)
THEOREM StartsOneAtATime == MenuPageSpec => []OneAtATime
<1>1. ASSUME MenuInv PROVE OneAtATime
  <2> DEFINE S == {o \in started :
                     \/ operation[o] = "processing"
                     \/ operation[o] = "none" /\ \E q \in waits : q.kind = "start" /\ q.id = o
                                                                  /\ q.answer = "none"}
  <2>1. menu.current # "closed" => S \subseteq {menu.id}
    BY <1>1 DEF MenuInv, ShownOK, Concluded
  <2>2. IsFiniteSet({menu.id}) /\ Cardinality({menu.id}) = 1
    BY FS_Singleton
  <2> HIDE DEF S
  <2>3. menu.current # "closed" => Cardinality(S) <= 1
    BY <2>1, <2>2, FS_Subset
  <2> QED
    BY <2>3 DEF OneAtATime, S
<1> QED
  BY <1>1, MenuPageIsInvariant, PTL

(* The menu beside an end on the page was read after that end.              *)
THEOREM EndsShowWithTheirMenu == MenuPageSpec => []ShownWithItsEnd
<1>1. MenuInv => ShownWithItsEnd
  BY DEF MenuInv, ShownOK, ShownWithItsEnd
<1> QED
  BY <1>1, MenuPageIsInvariant, PTL

-----------------------------------------------------------------------------
(* JudgmentLab.  A verdict stands beside its text and was asked for with a   *)
(* valid token, for any times and any number of submissions.  The page takes *)
(* its token for no longer valid than it is, and waits for the job that runs.*)

(* The job that runs is the one the composer waits for, and there is one.   *)
OneJob ==
  /\ \A j, k \in jobs : j.running /\ k.running => j = k
  /\ \A j \in jobs : j.running => composer.kind = "pending" /\ composer.id = j.id
  /\ composer.kind = "pending" => composer.id \in Submissions

(* The page never takes a token for longer valid than it is.                *)
UntilTold ==
  /\ expires <= clock + Lifetime
  /\ until <= expires
  /\ \A c \in checks : c.sent <= clock
                       /\ (c.answer = "authorized" => c.sent + c.left <= expires)

JudgmentLabInv == JudgmentLabTypeOK /\ OneJob /\ UntilTold /\ VerdictInTime

LEMMA LabNaturals ==
  ASSUME JudgmentLabTypeOK
  PROVE  /\ clock \in Nat /\ expires \in Nat /\ until \in Nat /\ Lifetime \in Nat /\ EndOfTime \in Nat
         /\ MaxSubmissions \in Nat /\ Timeout \in Nat /\ Window \in Nat /\ MaxStarts \in Nat
         /\ Lifetime > 0 /\ clock <= EndOfTime
         /\ 0 \in Times /\ clock \in Times /\ 0 \in 0..MaxSubmissions
         /\ \A i \in Submissions : i \in 0..MaxSubmissions
BY JudgmentLabAssumption DEF JudgmentLabTypeOK, Times, Submissions

LEMMA LabBlankTypes ==
  ASSUME JudgmentLabTypeOK
  PROVE  LabBlank \in LabComposer /\ Unsubmitted \in LabEntry
BY LabNaturals DEF LabBlank, LabComposer, Unsubmitted, LabEntry

LEMMA InterruptedTypes ==
  ASSUME JudgmentLabTypeOK, NEW js \in SUBSET LabJob
  PROVE  Interrupted(js) \subseteq LabJob /\ \A j \in Interrupted(js) : ~j.running
<1>1. ASSUME NEW j \in js
      PROVE  /\ [j EXCEPT !.running = FALSE, !.heard = FALSE, !.started = 0] \in LabJob
             /\ ~[j EXCEPT !.running = FALSE, !.heard = FALSE, !.started = 0].running
  BY LabNaturals DEF LabJob
<1> QED
  BY <1>1 DEF Interrupted

(* A failure of what the composer waits for, if it waits.                   *)
LEMMA FailedKeeps ==
  ASSUME JudgmentLabInv, FailedWith
  PROVE  /\ composer' \in LabComposer /\ composer'.kind # "pending"
         /\ entries' \in [Submissions -> LabEntry]
         /\ \A i \in Submissions : entries'[i].outcome = "succeeded" => entries'[i] = entries[i]
<1>1. composer \in LabComposer /\ entries \in [Submissions -> LabEntry]
  BY DEF JudgmentLabInv, JudgmentLabTypeOK
<1>2. CASE composer.kind = "pending"
  <2>1. composer' \in LabComposer /\ composer'.kind # "pending"
    BY <1>1, <1>2 DEF FailedWith, LabComposer
  <2>2. composer.id \in Submissions
    BY <1>2 DEF JudgmentLabInv, OneJob
  <2> DEFINE e == [entries[composer.id] EXCEPT !.outcome = "failed"]
  <2>3. e \in LabEntry /\ e.outcome = "failed"
    BY <1>1, <2>2 DEF LabEntry
  <2>4. entries' = [entries EXCEPT ![composer.id] = e]
    BY <1>2 DEF FailedWith
  <2> HIDE DEF e
  <2> QED
    BY <1>1, <2>1, <2>2, <2>3, <2>4
<1>3. CASE composer.kind # "pending"
  BY <1>1, <1>3 DEF FailedWith
<1> QED
  BY <1>2, <1>3

(* What the page holds and its jobs may do in a step.                       *)
LabPageKept ==
  /\ composer' \in LabComposer
  /\ entries' \in [Submissions -> LabEntry]
  /\ jobs' \subseteq LabJob
  /\ OneJob' /\ VerdictInTime'

LEMMA StillsKeep ==
  ASSUME JudgmentLabInv, FailedWith, NEW js \in SUBSET LabJob, jobs' = js,
         \A j \in js : ~j.running
  PROVE  LabPageKept
<1>1. /\ composer' \in LabComposer /\ composer'.kind # "pending"
      /\ entries' \in [Submissions -> LabEntry]
      /\ \A i \in Submissions : entries'[i].outcome = "succeeded" => entries'[i] = entries[i]
  BY FailedKeeps
<1>2. OneJob'
  BY <1>1 DEF OneJob
<1>3. VerdictInTime'
  BY <1>1 DEF VerdictInTime, JudgmentLabInv
<1> QED
  BY <1>1, <1>2, <1>3 DEF LabPageKept

LEMMA FewerKeep ==
  ASSUME JudgmentLabInv, NEW js \in SUBSET jobs, jobs' = js, UNCHANGED labPageVars
  PROVE  LabPageKept
BY DEF LabPageKept, JudgmentLabInv, JudgmentLabTypeOK, OneJob, VerdictInTime, labPageVars

LEMMA BecomesKeeps ==
  ASSUME JudgmentLabInv, NEW kind \in LabAccessState \ {"away"}, NEW js \in SUBSET jobs,
         Becomes(kind, js)
  PROVE  LabPageKept /\ access' \in LabAccessState
<1>1. js \subseteq LabJob
  BY DEF JudgmentLabInv, JudgmentLabTypeOK
<1>2. CASE kind = "authorized"
  BY <1>2, FewerKeep DEF Becomes
<1>3. CASE kind # "authorized"
  <2>1. Interrupted(js) \subseteq LabJob /\ \A j \in Interrupted(js) : ~j.running
    BY <1>1, InterruptedTypes DEF JudgmentLabInv
  <2>2. jobs' = Interrupted(js) /\ FailedWith
    BY <1>3 DEF Becomes
  <2> QED
    BY <2>1, <2>2, StillsKeep DEF Becomes
<1> QED
  BY <1>2, <1>3 DEF Becomes

(* One job is replaced by another of the same submission that runs no more  *)
(* than it did, and by others that do not run.                              *)
LEMMA ReplacedKeeps ==
  ASSUME JudgmentLabInv, NEW j \in jobs,
         \A x \in jobs' : \/ x \in jobs \ {j}
                          \/ x \in LabJob /\ (x.running => j.running /\ x.id = j.id),
         \A x, y \in jobs' \ (jobs \ {j}) : x.running /\ y.running => x = y,
         UNCHANGED labPageVars
  PROVE  LabPageKept
<1>1. /\ jobs \subseteq LabJob /\ composer' = composer /\ entries' = entries
      /\ OneJob /\ VerdictInTime /\ composer \in LabComposer
      /\ entries \in [Submissions -> LabEntry]
  BY DEF JudgmentLabInv, JudgmentLabTypeOK, labPageVars
<1>2. \A x \in jobs' : x.running => \E y \in jobs : y.running /\ y.id = x.id
  OBVIOUS
<1>3. \A x \in jobs' : x.running => composer.kind = "pending" /\ composer.id = x.id
  BY <1>1, <1>2 DEF OneJob
<1>4. ASSUME NEW x \in jobs', NEW y \in jobs', x.running, y.running
      PROVE  x = y
  <2>1. CASE x \in jobs \ {j}
    <3>1. ~j.running
      BY <1>1, <1>4, <2>1 DEF OneJob
    <3>2. y \in jobs \ {j}
      BY <1>4, <3>1
    <3> QED
      BY <1>1, <1>4, <2>1, <3>2 DEF OneJob
  <2>2. CASE y \in jobs \ {j}
    <3>1. ~j.running
      BY <1>1, <1>4, <2>2 DEF OneJob
    <3>2. x \in jobs \ {j}
      BY <1>4, <3>1
    <3> QED
      BY <1>1, <1>4, <2>2, <3>2 DEF OneJob
  <2> QED
    BY <1>4, <2>1, <2>2
<1>5. OneJob'
  BY <1>1, <1>3, <1>4 DEF OneJob
<1>6. jobs' \subseteq LabJob
  BY <1>1
<1>7. VerdictInTime'
  BY <1>1 DEF VerdictInTime
<1> QED
  BY <1>1, <1>5, <1>6, <1>7 DEF LabPageKept

(* The rest of the invariant: the gate, the clock and the server.           *)
LabGateKept ==
  /\ clock' \in Times /\ expires' \in 0..(EndOfTime + Lifetime)
  /\ access' \in LabAccessState /\ token' \in BOOLEAN
  /\ until' \in 0..(EndOfTime + Lifetime)
  /\ checks' \subseteq AccessCheck
  /\ UntilTold'

LabServerKept ==
  /\ starts' \in Seq(Times) /\ Len(starts') <= MaxStarts
  /\ judging' \in BOOLEAN

LEMMA LabParts ==
  ASSUME LabPageKept, LabGateKept, LabServerKept
  PROVE  JudgmentLabInv'
BY DEF LabPageKept, LabGateKept, LabServerKept, JudgmentLabInv, JudgmentLabTypeOK

(* Of the gate only what it offers changes, and no check is added.          *)
LEMMA GateKeeps ==
  ASSUME JudgmentLabInv, UNCHANGED <<clock, expires>>, access' \in LabAccessState,
         token' \in BOOLEAN, until' \in {0, until}, checks' \subseteq checks
  PROVE  LabGateKept
BY LabNaturals DEF LabGateKept, JudgmentLabInv, JudgmentLabTypeOK, UntilTold

LEMMA SameLab ==
  ASSUME JudgmentLabInv, UNCHANGED labPageVars, UNCHANGED jobs
  PROVE  LabPageKept
BY DEF LabPageKept, JudgmentLabInv, JudgmentLabTypeOK, OneJob, VerdictInTime, labPageVars

LEMMA SameServer ==
  ASSUME JudgmentLabInv, UNCHANGED labServerVars
  PROVE  LabServerKept
BY DEF LabServerKept, JudgmentLabInv, JudgmentLabTypeOK, labServerVars

LEMMA ReauthenticationKeeps ==
  ASSUME JudgmentLabInv, NEW js \in SUBSET jobs, RequireReauthentication(js)
  PROVE  LabPageKept /\ token' = FALSE /\ until' = 0 /\ access' \in LabAccessState
<1>1. "reauthentication_required" \in LabAccessState \ {"away"}
  BY DEF LabAccessState
<1> QED
  BY <1>1, BecomesKeeps DEF RequireReauthentication

-----------------------------------------------------------------------------
(* The gate                                                                 *)

LEMMA TickKeeps ==
  ASSUME JudgmentLabInv, Tick
  PROVE  JudgmentLabInv'
<1>1. LabGateKept
  BY LabNaturals
     DEF Tick, labGateVars, LabGateKept, JudgmentLabInv, JudgmentLabTypeOK, UntilTold, Times, AccessCheck
<1> QED
  BY <1>1, LabParts, SameLab, SameServer DEF Tick

LEMMA CheckAccessKeeps ==
  ASSUME JudgmentLabInv, CheckAccess
  PROVE  JudgmentLabInv'
<1>1. access' \in LabAccessState /\ token' \in BOOLEAN /\ LabPageKept
  <2>1. CASE access = "initializing" /\ checks = {} /\ token' = TRUE
             /\ UNCHANGED <<access, labPageVars, jobs>>
    BY <2>1, SameLab DEF JudgmentLabInv, JudgmentLabTypeOK
  <2>2. CASE token /\ UNCHANGED token /\ Becomes("initializing", jobs)
    <3>1. "initializing" \in LabAccessState \ {"away"}
      BY DEF LabAccessState
    <3> QED
      BY <2>2, <3>1, BecomesKeeps DEF JudgmentLabInv, JudgmentLabTypeOK
  <2> QED
    BY <2>1, <2>2 DEF CheckAccess
<1>2. CheckSent \in AccessCheck /\ CheckSent.sent = clock /\ CheckSent.answer = "none"
  BY LabNaturals DEF CheckSent, AccessCheck, Times, JudgmentLabInv
<1>3. checks' = {CheckSent} /\ UNCHANGED <<clock, expires, until, labServerVars>>
  BY DEF CheckAccess
<1>4. LabGateKept
  BY <1>1, <1>2, <1>3, LabNaturals DEF LabGateKept, JudgmentLabInv, JudgmentLabTypeOK, UntilTold
<1> QED
  BY <1>1, <1>3, <1>4, LabParts, SameServer

LEMMA AnswerCheckKeeps ==
  ASSUME JudgmentLabInv, NEW c \in checks, AnswerCheck(c)
  PROVE  JudgmentLabInv'
<1>1. PICK answer \in {"authorized", "reauthentication_required", "denied", "unavailable"} :
        /\ answer = "authorized" => clock < expires
        /\ checks' = {[c EXCEPT !.answer = answer,
                                !.left = IF answer = "authorized" THEN expires - clock ELSE 0]}
  BY DEF AnswerCheck
<1> DEFINE left == IF answer = "authorized" THEN expires - clock ELSE 0
           d == [c EXCEPT !.answer = answer, !.left = left]
<1>2. c \in AccessCheck /\ c.sent <= clock /\ c.sent \in Nat
  BY LabNaturals DEF JudgmentLabInv, JudgmentLabTypeOK, UntilTold, AccessCheck, Times
<1>3. left \in 0..Lifetime
  BY <1>1, LabNaturals DEF JudgmentLabInv, UntilTold
<1>4. answer = "authorized" => c.sent + left <= expires
  BY <1>1, <1>2, LabNaturals DEF JudgmentLabInv
<1> HIDE DEF left
<1>5. d \in AccessCheck /\ d.sent = c.sent /\ d.left = left /\ d.answer = answer
  BY <1>2, <1>3 DEF AccessCheck, LabAccessState
<1>6. checks' = {d}
  BY <1>1 DEF left
<1> HIDE DEF d
<1>7. UNCHANGED <<clock, expires, access, token, until, labPageVars, jobs, labServerVars>>
  BY DEF AnswerCheck
<1>8. LabGateKept
  BY <1>2, <1>4, <1>5, <1>6, <1>7 DEF LabGateKept, JudgmentLabInv, JudgmentLabTypeOK, UntilTold
<1> QED
  BY <1>7, <1>8, LabParts, SameLab, SameServer

LEMMA TakeCheckKeeps ==
  ASSUME JudgmentLabInv, NEW c \in checks, TakeCheck(c)
  PROVE  JudgmentLabInv'
<1>1. UNCHANGED <<clock, expires, labServerVars>> /\ checks' = {}
  BY DEF TakeCheck
<1>2. CASE c.answer = "authorized" /\ Remaining(c) > 0
  <2>1. c \in AccessCheck /\ c.sent <= clock /\ c.sent \in Nat /\ c.left \in Nat
        /\ c.sent + c.left <= expires
    BY <1>2, LabNaturals DEF JudgmentLabInv, JudgmentLabTypeOK, UntilTold, AccessCheck, Times
  <2>2. clock + Remaining(c) \in Nat /\ clock + Remaining(c) <= expires
    BY <1>2, <2>1, LabNaturals DEF Remaining, JudgmentLabInv
  <2>3. until' = clock + Remaining(c) /\ UNCHANGED token /\ Becomes("authorized", jobs)
    BY <1>2 DEF TakeCheck
  <2>4. "authorized" \in LabAccessState \ {"away"}
    BY DEF LabAccessState
  <2>5. LabPageKept /\ access' \in LabAccessState
    BY <2>3, <2>4, BecomesKeeps
  <2>6. LabGateKept
    BY <1>1, <2>2, <2>3, <2>5, LabNaturals
       DEF LabGateKept, JudgmentLabInv, JudgmentLabTypeOK, UntilTold
  <2> QED
    BY <1>1, <2>5, <2>6, LabParts, SameServer
<1>3. CASE ~(c.answer = "authorized" /\ Remaining(c) > 0)
  <2>1. /\ until' = 0 /\ token' \in BOOLEAN
        /\ \E kind \in LabAccessState \ {"away"} : Becomes(kind, jobs)
    <3>1. c.answer \in (LabAccessState \ {"initializing", "away"}) /\ token \in BOOLEAN
      BY DEF TakeCheck, JudgmentLabInv, JudgmentLabTypeOK, AccessCheck, LabAccessState
    <3>2. CASE c.answer \in {"authorized", "reauthentication_required"}
      <4>1. RequireReauthentication(jobs)
        BY <1>3, <3>2 DEF TakeCheck
      <4> QED
        BY <4>1 DEF RequireReauthentication, LabAccessState
    <3>3. CASE c.answer \notin {"authorized", "reauthentication_required"}
      <4>1. token' = (token /\ c.answer # "denied") /\ until' = 0 /\ Becomes(c.answer, jobs)
        BY <1>3, <3>3 DEF TakeCheck
      <4>2. token' \in BOOLEAN
        BY <4>1
      <4> QED
        BY <3>1, <4>1, <4>2
    <3> QED
      BY <3>2, <3>3
  <2>2. LabPageKept /\ access' \in LabAccessState
    BY <2>1, BecomesKeeps
  <2>3. LabGateKept
    BY <1>1, <2>1, <2>2, GateKeeps
  <2> QED
    BY <1>1, <2>2, <2>3, LabParts, SameServer
<1> QED
  BY <1>2, <1>3

LEMMA GateActionsKeep ==
  ASSUME JudgmentLabInv,
         CheckNothing \/ NoAccess \/ ExpireAccess \/ ReauthenticateLab \/ LoadLab
  PROVE  JudgmentLabInv'
<1>1. access \in LabAccessState /\ token \in BOOLEAN /\ jobs \subseteq LabJob
  BY DEF JudgmentLabInv, JudgmentLabTypeOK
<1>2. CASE NoAccess
  <2>1. /\ access' \in LabAccessState
        /\ UNCHANGED <<clock, expires, token, until, checks, labPageVars, jobs, labServerVars>>
    BY <1>2 DEF NoAccess, LabAccessState
  <2> QED
    BY <1>1, <2>1, GateKeeps, LabParts, SameLab, SameServer
<1>3. CASE ExpireAccess
  <2>1. RequireReauthentication(jobs) /\ UNCHANGED <<clock, expires, checks, labServerVars>>
    BY <1>3 DEF ExpireAccess
  <2> QED
    BY <2>1, ReauthenticationKeeps, GateKeeps, LabParts, SameServer
<1>4. CASE ReauthenticateLab
  <2>1. /\ checks' = {} /\ UNCHANGED <<clock, expires, token, until, labServerVars>>
        /\ access' \in {"away", "unavailable"}
    BY <1>4 DEF ReauthenticateLab
  <2>2. LabPageKept
    <3>1. CASE /\ jobs' = Interrupted(jobs)
               /\ composer' = LabBlank /\ entries' = [i \in Submissions |-> Unsubmitted]
      <4>1. LabBlank \in LabComposer /\ Unsubmitted \in LabEntry
        BY LabBlankTypes DEF JudgmentLabInv
      <4>2. jobs' \subseteq LabJob /\ \A j \in jobs' : ~j.running
        BY <1>1, <3>1, InterruptedTypes DEF JudgmentLabInv
      <4> QED
        BY <3>1, <4>1, <4>2 DEF LabPageKept, OneJob, VerdictInTime, LabBlank, Unsubmitted
    <3>2. CASE UNCHANGED <<labPageVars, jobs>>
      BY <3>2, SameLab
    <3> QED
      BY <1>4, <3>1, <3>2 DEF ReauthenticateLab
  <2>3. LabGateKept
    BY <1>1, <2>1, GateKeeps DEF LabAccessState
  <2> QED
    BY <2>1, <2>2, <2>3, LabParts, SameServer
<1>5. CASE LoadLab
  <2>1. /\ access' = "initializing" /\ expires' = clock + Lifetime
        /\ UNCHANGED <<clock, token, until, checks, labPageVars, jobs, labServerVars>>
    BY <1>5 DEF LoadLab
  <2>2. expires' \in 0..(EndOfTime + Lifetime) /\ expires <= expires'
    BY <2>1, LabNaturals DEF JudgmentLabInv, UntilTold
  <2>3. UntilTold'
    <3>1. \A c \in checks : c.sent \in Nat /\ c.left \in Nat
      BY LabNaturals DEF JudgmentLabInv, JudgmentLabTypeOK, AccessCheck, Times
    <3> QED
      BY <2>1, <2>2, <3>1, LabNaturals DEF JudgmentLabInv, UntilTold
  <2>4. LabGateKept
    BY <2>1, <2>2, <2>3 DEF LabGateKept, JudgmentLabInv, JudgmentLabTypeOK, LabAccessState
  <2> QED
    BY <2>1, <2>4, LabParts, SameLab, SameServer
<1>6. CASE CheckNothing
  <2>1. /\ RequireReauthentication(jobs) /\ checks' = {}
        /\ UNCHANGED <<clock, expires, labServerVars>>
    BY <1>6 DEF CheckNothing
  <2> QED
    BY <2>1, ReauthenticationKeeps, GateKeeps, LabParts, SameServer
<1> QED
  BY <1>2, <1>3, <1>4, <1>5, <1>6

-----------------------------------------------------------------------------
(* The page                                                                 *)

LEMMA SubmitTextKeeps ==
  ASSUME JudgmentLabInv, NEW i \in Submissions, SubmitText(i)
  PROVE  JudgmentLabInv'
<1>1. UNCHANGED <<clock, expires, labServerVars>>
  BY DEF SubmitText
<1>2. CASE HasValidToken
  <2> DEFINE c == [composer EXCEPT !.kind = "pending", !.id = i]
             j == [id |-> i, running |-> TRUE, heard |-> TRUE, started |-> clock,
                   now |-> 0, step |-> "sent", answer |-> "none"]
             e == [entries[i] EXCEPT !.outcome = "pending"]
  <2>1. c \in LabComposer /\ c.kind = "pending" /\ c.id = i
    BY LabNaturals DEF JudgmentLabInv, JudgmentLabTypeOK, LabComposer
  <2>2. j \in LabJob /\ j.running /\ j.id = i
    BY LabNaturals DEF JudgmentLabInv, JudgmentLabTypeOK, LabJob, Times
  <2>3. entries \in [Submissions -> LabEntry] /\ jobs \subseteq LabJob
    BY DEF JudgmentLabInv, JudgmentLabTypeOK
  <2>4. e \in LabEntry /\ e.outcome = "pending"
    BY <2>3 DEF LabEntry
  <2>5. /\ composer' = c /\ jobs' = jobs \cup {j} /\ entries' = [entries EXCEPT ![i] = e]
        /\ UNCHANGED labGateVars
    BY <1>2 DEF SubmitText
  <2>6. \A k \in jobs : ~k.running
    BY DEF SubmitText, EditableLab, Running
  <2> HIDE DEF c, j, e
  <2>7. OneJob'
    BY <2>1, <2>2, <2>5, <2>6 DEF OneJob
  <2>8. VerdictInTime'
    BY <2>3, <2>4, <2>5 DEF VerdictInTime, JudgmentLabInv
  <2>9. LabPageKept
    BY <2>1, <2>2, <2>3, <2>4, <2>5, <2>7, <2>8 DEF LabPageKept
  <2>10. LabGateKept
    BY <1>1, <2>5, GateKeeps DEF labGateVars, JudgmentLabInv, JudgmentLabTypeOK
  <2> QED
    BY <1>1, <2>9, <2>10, LabParts, SameServer
<1>3. CASE ~HasValidToken
  <2>1. RequireReauthentication(jobs) /\ UNCHANGED checks
    BY <1>3 DEF SubmitText
  <2> QED
    BY <1>1, <2>1, ReauthenticationKeeps, GateKeeps, LabParts, SameServer
<1> QED
  BY <1>2, <1>3

LEMMA GiveUpKeeps ==
  ASSUME JudgmentLabInv, NEW j \in jobs, GiveUp(j)
  PROVE  JudgmentLabInv'
<1>1. /\ j.running /\ jobs' = (jobs \ {j}) \cup Interrupted({j}) /\ FailedWith
      /\ UNCHANGED <<clock, expires, labGateVars, labServerVars>>
  BY DEF GiveUp
<1>2. j \in LabJob /\ jobs \subseteq LabJob
  BY DEF JudgmentLabInv, JudgmentLabTypeOK
<1>3. Interrupted({j}) \subseteq LabJob /\ \A k \in Interrupted({j}) : ~k.running
  BY <1>2, InterruptedTypes DEF JudgmentLabInv
<1>4. \A k \in jobs \ {j} : ~k.running
  BY <1>1 DEF JudgmentLabInv, OneJob
<1>5. LabPageKept
  BY <1>1, <1>2, <1>3, <1>4, StillsKeep
<1>6. LabGateKept
  BY <1>1, GateKeeps DEF labGateVars, JudgmentLabInv, JudgmentLabTypeOK
<1> QED
  BY <1>1, <1>5, <1>6, LabParts, SameServer

LEMMA TakeVerdictKeeps ==
  ASSUME JudgmentLabInv, NEW j \in jobs, TakeVerdict(j)
  PROVE  JudgmentLabInv'
<1>1. /\ j.running /\ token /\ clock < until
      /\ UNCHANGED <<clock, expires, checks, labServerVars>>
  BY DEF TakeVerdict, CompletionAllowed, HasValidToken
<1>2. /\ jobs \subseteq LabJob /\ entries \in [Submissions -> LabEntry]
      /\ access \in LabAccessState /\ token \in BOOLEAN
  BY DEF JudgmentLabInv, JudgmentLabTypeOK
<1>3. CASE j.answer = "verdict"
  <2>1. composer.kind = "pending" /\ composer.id = j.id /\ j.id \in Submissions
    BY <1>1, <1>2 DEF JudgmentLabInv, OneJob, LabJob
  <2>2. ~(clock >= expires)
    BY <1>1, LabNaturals DEF JudgmentLabInv, UntilTold
  <2> DEFINE e == [entries[j.id] EXCEPT !.outcome = "succeeded", !.verdict = j.id,
                                        !.late = clock >= expires]
  <2>3. e \in LabEntry /\ e.verdict = j.id /\ ~e.late
    <3>1. j.id \in 0..MaxSubmissions
      BY <2>1, LabNaturals DEF Submissions, JudgmentLabInv
    <3>2. (clock >= expires) = FALSE
      BY <2>2
    <3> QED
      BY <1>2, <2>1, <3>1, <3>2 DEF LabEntry
  <2>4. /\ jobs' = jobs \ {j} /\ composer' = LabBlank
        /\ entries' = [entries EXCEPT ![j.id] = e] /\ UNCHANGED <<access, token, until>>
    BY <1>2, <1>3, <2>1 DEF TakeVerdict
  <2> HIDE DEF e
  <2>5. LabBlank \in LabComposer /\ LabBlank.kind = "editing"
    BY LabBlankTypes DEF LabBlank, JudgmentLabInv
  <2>6. \A k \in jobs \ {j} : ~k.running
    BY <1>1 DEF JudgmentLabInv, OneJob
  <2>7. OneJob'
    BY <2>4, <2>5, <2>6 DEF OneJob
  <2>8. VerdictInTime'
    BY <1>2, <2>1, <2>3, <2>4 DEF VerdictInTime, JudgmentLabInv
  <2>9. LabPageKept
    BY <1>2, <2>1, <2>3, <2>4, <2>5, <2>7, <2>8 DEF LabPageKept
  <2>10. LabGateKept
    BY <1>1, <1>2, <2>4, GateKeeps
  <2> QED
    BY <1>1, <2>9, <2>10, LabParts, SameServer
<1>4. CASE j.answer = "unauthorized"
  <2>1. RequireReauthentication(jobs \ {j})
    BY <1>4 DEF TakeVerdict
  <2>2. LabPageKept /\ token' = FALSE /\ until' = 0 /\ access' \in LabAccessState
    BY <2>1, ReauthenticationKeeps
  <2> QED
    BY <1>1, <2>2, GateKeeps, LabParts, SameServer
<1>5. CASE j.answer = "unavailable"
  <2>1. until' = 0 /\ UNCHANGED token /\ Becomes("unavailable", jobs \ {j})
    BY <1>5 DEF TakeVerdict
  <2>2. "unavailable" \in LabAccessState \ {"away"}
    BY DEF LabAccessState
  <2>3. LabPageKept /\ access' \in LabAccessState
    BY <2>1, <2>2, BecomesKeeps
  <2> QED
    BY <1>1, <1>2, <2>1, <2>3, GateKeeps, LabParts, SameServer
<1>6. CASE j.answer \notin {"verdict", "unauthorized", "unavailable"}
  <2>1. FailedWith /\ jobs' = jobs \ {j} /\ UNCHANGED <<access, token, until>>
    BY <1>6 DEF TakeVerdict
  <2>2. \A k \in jobs \ {j} : ~k.running
    BY <1>1 DEF JudgmentLabInv, OneJob
  <2>3. LabPageKept
    BY <1>2, <2>1, <2>2, StillsKeep
  <2> QED
    BY <1>1, <1>2, <2>1, <2>3, GateKeeps, LabParts, SameServer
<1> QED
  BY <1>3, <1>4, <1>5, <1>6

-----------------------------------------------------------------------------
(* The server                                                               *)

LEMMA AnswersJobKeeps ==
  ASSUME JudgmentLabInv, NEW j \in jobs,
         NEW answer \in {"verdict", "unauthorized", "unavailable", "failed"},
         AnswersJob(j, answer), UNCHANGED labPageVars
  PROVE  LabPageKept
<1> DEFINE k == [j EXCEPT !.step = "answered", !.answer = answer]
           ks == IF j.heard THEN {k} ELSE {}
<1>1. k \in LabJob /\ k.running = j.running /\ k.id = j.id
  BY DEF JudgmentLabInv, JudgmentLabTypeOK, LabJob
<1>2. jobs' = (jobs \ {j}) \cup ks
  BY DEF AnswersJob
<1> HIDE DEF k
<1>3. ks \in SUBSET LabJob /\ ks \subseteq {k}
  BY <1>1
<1> HIDE DEF ks
<1> QED
  BY <1>1, <1>2, <1>3, ReplacedKeeps

LEMMA AdmitKeeps ==
  ASSUME JudgmentLabInv, NEW j \in jobs, Admit(j)
  PROVE  JudgmentLabInv'
<1>1. UNCHANGED <<clock, expires, labGateVars, labPageVars, labServerVars>>
  BY DEF Admit
<1>2. LabPageKept
  <2>1. CASE clock < expires
             /\ jobs' = (jobs \ {j}) \cup {[j EXCEPT !.step = "admitted", !.now = clock]}
    <3> DEFINE k == [j EXCEPT !.step = "admitted", !.now = clock]
    <3>1. k \in LabJob /\ k.running = j.running /\ k.id = j.id
      BY DEF JudgmentLabInv, JudgmentLabTypeOK, LabJob
    <3>2. jobs' = (jobs \ {j}) \cup {k}
      BY <2>1
    <3> HIDE DEF k
    <3> QED
      BY <1>1, <3>1, <3>2, ReplacedKeeps
  <2>2. CASE AnswersJob(j, IF clock < expires THEN "unavailable" ELSE "unauthorized")
    <3>1. (IF clock < expires THEN "unavailable" ELSE "unauthorized")
            \in {"verdict", "unauthorized", "unavailable", "failed"}
      OBVIOUS
    <3> QED
      BY <1>1, <2>2, <3>1, AnswersJobKeeps
  <2> QED
    BY <2>1, <2>2 DEF Admit
<1>3. LabGateKept
  BY <1>1, GateKeeps DEF labGateVars, JudgmentLabInv, JudgmentLabTypeOK
<1> QED
  BY <1>1, <1>2, <1>3, LabParts, SameServer

(* The starts a window has left behind are a prefix.                        *)
LEMMA ForgottenIsAPrefix ==
  ASSUME JudgmentLabInv, NEW now \in Times
  PROVE  Forgotten(now) \in 0..Len(starts)
<1>1. starts \in Seq(Times) /\ Len(starts) \in Nat /\ Window \in Nat
      /\ \A k \in 1..Len(starts) : starts[k] \in Nat
  <2>1. JudgmentLabTypeOK
    BY DEF JudgmentLabInv
  <2>2. starts \in Seq(Times) /\ Window \in Nat /\ EndOfTime \in Nat
    BY <2>1, LabNaturals DEF JudgmentLabTypeOK
  <2>3. Times \subseteq Nat
    BY <2>2 DEF Times
  <2>4. Len(starts) \in Nat
    BY <2>2
  <2>5. ASSUME NEW k \in 1..Len(starts) PROVE starts[k] \in Nat
    <3>1. starts[k] \in Times
      BY <2>2
    <3> QED
      BY <2>3, <3>1
  <2> QED
    BY <2>2, <2>4, <2>5
<1> DEFINE S == {n \in 0..Len(starts) : n < Len(starts) => starts[n + 1] + Window > now}
           R == {ss \in Nat \X Nat : ss[1] < ss[2]}
<1>2. Len(starts) \in S /\ S \subseteq Nat
  BY <1>1
<1>3. \A i, k \in Nat : i < k => <<i, k>> \in R
  OBVIOUS
<1>4. IsWellFoundedOn(R, Nat)
  BY NatLessThanWellFounded DEF OpToRel
<1> HIDE DEF R
<1>5. PICK n \in S : \A k \in S : <<k, n>> \notin R
  <2> HIDE DEF S
  <2> QED
    BY <1>2, <1>4, WFMin
<1>6. \A k \in S : ~(k < n)
  BY <1>2, <1>3, <1>5
<1>7. ASSUME NEW k \in 1..n
      PROVE  starts[k] + Window <= now
  <2>1. k - 1 \in 0..Len(starts) /\ k - 1 < n /\ k - 1 < Len(starts) /\ k - 1 + 1 = k /\ k \in 1..Len(starts)
    BY <1>1, <1>2, <1>5
  <2>2. k - 1 \notin S
    <3> HIDE DEF S
    <3> QED
      BY <1>6, <2>1
  <2>3. ~(starts[k] + Window > now)
    BY <2>1, <2>2
  <2>4. now \in Nat /\ starts[k] \in Nat
    BY <1>1, <2>1 DEF Times
  <2> QED
    BY <1>1, <2>3, <2>4
<1>8. n \in 0..Len(starts) /\ (n < Len(starts) => starts[n + 1] + Window > now)
  BY <1>5
<1> QED
  BY <1>7, <1>8 DEF Forgotten

LEMMA AcquireKeeps ==
  ASSUME JudgmentLabInv, NEW j \in jobs, Acquire(j)
  PROVE  JudgmentLabInv'
<1>1. UNCHANGED <<clock, expires, labGateVars, labPageVars>>
  BY DEF Acquire
<1>2. j \in LabJob /\ j.now \in Times
  BY DEF JudgmentLabInv, JudgmentLabTypeOK, LabJob
<1> DEFINE recent == SubSeq(starts, Forgotten(j.now) + 1, Len(starts))
<1>3. recent \in Seq(Times) /\ Len(recent) <= MaxStarts /\ Len(recent) \in Nat
  <2>1. starts \in Seq(Times) /\ Len(starts) \in Nat /\ Len(starts) <= MaxStarts /\ MaxStarts \in Nat
    BY LabNaturals DEF JudgmentLabInv, JudgmentLabTypeOK
  <2>2. Forgotten(j.now) \in 0..Len(starts)
    BY <1>2, ForgottenIsAPrefix
  <2> DEFINE f == Forgotten(j.now)
  <2> HIDE DEF f
  <2>3. f \in 0..Len(starts) => SubSeq(starts, f + 1, Len(starts)) \in Seq(Times)
          /\ Len(SubSeq(starts, f + 1, Len(starts))) \in Nat
          /\ Len(SubSeq(starts, f + 1, Len(starts))) <= Len(starts)
    BY <2>1
  <2> QED
    BY <2>1, <2>2, <2>3 DEF f
<1>4. CASE PermitFree /\ Len(recent) < MaxStarts
  <2>1. /\ starts' = Append(recent, j.now) /\ judging' = TRUE
        /\ jobs' = (jobs \ {j}) \cup {[j EXCEPT !.step = "judging", !.now = 0]}
    BY <1>4 DEF Acquire
  <2> DEFINE k == [j EXCEPT !.step = "judging", !.now = 0]
  <2>2. k \in LabJob /\ k.running = j.running /\ k.id = j.id
    BY <1>2, LabNaturals DEF LabJob, JudgmentLabInv
  <2>3. jobs' = (jobs \ {j}) \cup {k}
    BY <2>1
  <2> HIDE DEF k, recent
  <2>4. LabPageKept
    BY <1>1, <2>2, <2>3, ReplacedKeeps
  <2>5. LabServerKept
    BY <1>2, <1>3, <1>4, <2>1, LabNaturals DEF LabServerKept, JudgmentLabInv
  <2>6. LabGateKept
    BY <1>1, GateKeeps DEF labGateVars, JudgmentLabInv, JudgmentLabTypeOK
  <2> QED
    BY <2>4, <2>5, <2>6, LabParts
<1>5. CASE ~(PermitFree /\ Len(recent) < MaxStarts)
  <2>1. starts' = recent /\ AnswersJob(j, "failed") /\ UNCHANGED judging
    BY <1>5 DEF Acquire
  <2> HIDE DEF recent
  <2>2. LabPageKept
    BY <1>1, <2>1, AnswersJobKeeps
  <2>3. LabServerKept
    BY <1>3, <2>1 DEF LabServerKept, JudgmentLabInv, JudgmentLabTypeOK
  <2>4. LabGateKept
    BY <1>1, GateKeeps DEF labGateVars, JudgmentLabInv, JudgmentLabTypeOK
  <2> QED
    BY <2>2, <2>3, <2>4, LabParts
<1> QED
  BY <1>4, <1>5

LEMMA JudgeTextKeeps ==
  ASSUME JudgmentLabInv, NEW j \in jobs, JudgeText(j)
  PROVE  JudgmentLabInv'
<1>1. UNCHANGED <<clock, expires, labGateVars, labPageVars, starts>> /\ judging' = FALSE
  BY DEF JudgeText
<1>2. PICK answer \in {"verdict", "failed"} :
        AnswersJob(j, IF clock < expires THEN answer ELSE "unauthorized")
  BY DEF JudgeText
<1>3. (IF clock < expires THEN answer ELSE "unauthorized")
        \in {"verdict", "unauthorized", "unavailable", "failed"}
  OBVIOUS
<1>4. LabPageKept
  BY <1>1, <1>2, <1>3, AnswersJobKeeps
<1>5. LabServerKept
  BY <1>1 DEF LabServerKept, JudgmentLabInv, JudgmentLabTypeOK
<1>6. LabGateKept
  BY <1>1, GateKeeps DEF labGateVars, JudgmentLabInv, JudgmentLabTypeOK
<1> QED
  BY <1>4, <1>5, <1>6, LabParts

LEMMA BreakJobKeeps ==
  ASSUME JudgmentLabInv, NEW j \in jobs, BreakJob(j)
  PROVE  JudgmentLabInv'
<1>1. UNCHANGED <<clock, expires, labGateVars, labPageVars, labServerVars>>
  BY DEF BreakJob
<1>2. PICK rest \in SUBSET Interrupted({j}) :
        jobs' = (jobs \ {j}) \cup {[j EXCEPT !.step = "answered", !.answer = "failed"]} \cup rest
  BY DEF BreakJob
<1>3. j \in LabJob
  BY DEF JudgmentLabInv, JudgmentLabTypeOK
<1>4. Interrupted({j}) \subseteq LabJob /\ \A k \in Interrupted({j}) : ~k.running
  BY <1>3, InterruptedTypes DEF JudgmentLabInv
<1> DEFINE k == [j EXCEPT !.step = "answered", !.answer = "failed"]
<1>5. k \in LabJob /\ k.running = j.running /\ k.id = j.id
  BY <1>3 DEF LabJob
<1>6. jobs' = (jobs \ {j}) \cup ({k} \cup rest)
  BY <1>2
<1> HIDE DEF k
<1>7. LabPageKept
  BY <1>1, <1>4, <1>5, <1>6, ReplacedKeeps
<1>8. LabGateKept
  BY <1>1, GateKeeps DEF labGateVars, JudgmentLabInv, JudgmentLabTypeOK
<1> QED
  BY <1>1, <1>7, <1>8, LabParts, SameServer

-----------------------------------------------------------------------------

LEMMA LabAtFirst == JudgmentLabInit => JudgmentLabInv
<1> SUFFICES ASSUME JudgmentLabInit PROVE JudgmentLabInv
  OBVIOUS
<1>1. JudgmentLabTypeOK
  <2>1. /\ clock \in Times /\ expires \in 0..(EndOfTime + Lifetime)
        /\ until \in 0..(EndOfTime + Lifetime)
    BY JudgmentLabAssumption DEF JudgmentLabInit, Times
  <2>2. composer \in LabComposer /\ entries \in [Submissions -> LabEntry]
    BY JudgmentLabAssumption
       DEF JudgmentLabInit, LabComposer, LabBlank, LabEntry, Unsubmitted
  <2>3. starts \in Seq(Times) /\ Len(starts) <= MaxStarts
    BY JudgmentLabAssumption DEF JudgmentLabInit
  <2> QED
    BY <2>1, <2>2, <2>3 DEF JudgmentLabInit, JudgmentLabTypeOK, LabAccessState
<1>2. OneJob /\ UntilTold /\ VerdictInTime
  BY JudgmentLabAssumption
     DEF JudgmentLabInit, OneJob, UntilTold, VerdictInTime, LabBlank, Unsubmitted
<1> QED
  BY <1>1, <1>2 DEF JudgmentLabInv

LEMMA LabNextKeeps ==
  ASSUME JudgmentLabInv, [JudgmentLabNext]_judgmentLabVars
  PROVE  JudgmentLabInv'
<1>1. CASE UNCHANGED judgmentLabVars
  <2>1. LabPageKept /\ LabServerKept
    BY <1>1, SameLab, SameServer DEF judgmentLabVars, labPageVars, labServerVars
  <2>2. LabGateKept
    BY <1>1, GateKeeps DEF judgmentLabVars, JudgmentLabInv, JudgmentLabTypeOK
  <2> QED
    BY <2>1, <2>2, LabParts
<1>2. CASE Tick \/ CheckAccess
  BY <1>2, TickKeeps, CheckAccessKeeps
<1>3. CASE CheckNothing \/ NoAccess \/ ExpireAccess \/ ReauthenticateLab \/ LoadLab
  BY <1>3, GateActionsKeep
<1>4. CASE \E c \in checks : AnswerCheck(c) \/ TakeCheck(c)
  BY <1>4, AnswerCheckKeeps, TakeCheckKeeps
<1>5. CASE \E i \in Submissions : SubmitText(i)
  BY <1>5, SubmitTextKeeps
<1>6. CASE \E j \in jobs : GiveUp(j) \/ TakeVerdict(j) \/ Admit(j) \/ Acquire(j)
                           \/ JudgeText(j) \/ BreakJob(j)
  BY <1>6, GiveUpKeeps, TakeVerdictKeeps, AdmitKeeps, AcquireKeeps, JudgeTextKeeps, BreakJobKeeps
<1> QED
  BY <1>1, <1>2, <1>3, <1>4, <1>5, <1>6 DEF JudgmentLabNext

(* A verdict is taken while the token is valid and stands beside its text,  *)
(* for any lifetimes, timeouts and numbers of submissions.                  *)
THEOREM VerdictsInTime == JudgmentLabSpec => [](VerdictInTime /\ JudgmentLabTypeOK)
<1>1. JudgmentLabInv => VerdictInTime /\ JudgmentLabTypeOK
  BY DEF JudgmentLabInv
<1> QED
  BY <1>1, LabAtFirst, LabNextKeeps, PTL DEF JudgmentLabSpec
=============================================================================
