----------------------------- MODULE MenuRepair -----------------------------
(***************************************************************************)
(* What an older version left behind (linerichmenus, cleanup_repair.py).    *)
(* It concluded a replacement although the menu it replaced was still at    *)
(* LINE, with nothing that would let it be cleaned up.  A command turns one *)
(* such operation at a time back into one that has to be cleaned up; the    *)
(* rows of the menu and of the one that took its place are the proof that   *)
(* it may be deleted.  When nothing is left, the history of a channel is    *)
(* purged with it.                                                          *)
(*                                                                         *)
(* Menus are numbered as they were made, and an apply is known by the menu  *)
(* it made.  The steps of an operation are module RichMenus.  That channel, *)
(* owner and revision are those of the command is left out: otherwise it is *)
(* refused and nothing changes.                                             *)
(***************************************************************************)
EXTENDS Naturals

CONSTANT MaxMenus   \* bound on the menus made

ASSUME MenuRepairAssumption == MaxMenus \in Nat \ {0}

VARIABLES
  legacy,    \* the older version runs
  made,      \* menus made so far
  life,      \* lifecycle of a menu's row; "none" without a row
  heir,      \* replacement_operation_id: the menu whose apply replaced this one, or 0
  outcome,   \* status of the apply that made the menu
  blocker,   \* blocking_operation_id, or 0
  cleaning,  \* the menu an active cleanup is to delete, or 0
  standing,  \* menus of ours that are at LINE
  abandoned  \* old menus that lose their heir to an operation

menuRepairVars ==
  <<legacy, made, life, heir, outcome, blocker, cleaning, standing, abandoned>>

Menus == 1..MaxMenus
Old == {r \in Menus : life[r] = "old"}
InPlace == {r \in Menus : life[r] = "applied"}

MenuRepairTypeOK ==
  /\ legacy \in BOOLEAN /\ made \in 0..MaxMenus
  /\ life \in [Menus -> {"none", "applied", "old", "deleted", "released"}]
  /\ heir \in [Menus -> 0..MaxMenus]
  /\ outcome \in [Menus -> {"none", "succeeded", "cleanup_required", "cleaned"}]
  /\ {blocker, cleaning} \subseteq 0..MaxMenus
  /\ standing \subseteq Menus /\ abandoned \subseteq Menus

MenuRepairInit ==
  /\ legacy = TRUE
  /\ made = 0
  /\ life = [r \in Menus |-> "none"]
  /\ heir = [r \in Menus |-> 0]
  /\ outcome = [r \in Menus |-> "none"]
  /\ blocker = 0 /\ cleaning = 0
  /\ standing = {} /\ abandoned = {}

----------------------------------------------------------------------------
(* Operations, in one step *)

(* accept looks only for an operation in progress.  That an old menu is     *)
(* left does not bar an apply, an unlink or a release: since the upgrade    *)
(* the page offers none then (_actions), but a page loaded before it, or a  *)
(* request of another client, may ask for one.                              *)
Acceptable == blocker = 0 /\ cleaning = 0

(* The old menus that r replaced.                                           *)
HeldBy(r) == {p \in Old : heir[p] = r}

(* complete_apply: the menu that was applied becomes old, and blocks until  *)
(* it is gone, before any menu that it replaced itself can be repaired; for *)
(* the older version the operation was over.                                *)
ApplyMenu ==
  /\ Acceptable /\ made < MaxMenus
  /\ LET new == made + 1
         blocks == InPlace # {} /\ ~legacy
     IN /\ made' = new
        /\ life' = [r \in Menus |-> IF r = new THEN "applied"
                                    ELSE IF r \in InPlace THEN "old" ELSE life[r]]
        /\ heir' = [r \in Menus |-> IF r \in InPlace THEN new ELSE heir[r]]
        /\ outcome' = [outcome EXCEPT ![new] = IF blocks THEN "cleanup_required" ELSE "succeeded"]
        /\ blocker' = IF blocks THEN new ELSE 0
        /\ standing' = standing \cup {new}
        /\ abandoned' = IF legacy THEN abandoned
                        ELSE abandoned \cup UNION {HeldBy(r) : r \in InPlace}
  /\ UNCHANGED <<legacy, cleaning>>

Upgrade ==
  /\ legacy /\ legacy' = FALSE
  /\ UNCHANGED <<made, life, heir, outcome, blocker, cleaning, standing, abandoned>>

(* The menu is unlinked, with its cleanup, or released to the owner.        *)
TakeDown ==
  /\ Acceptable
  /\ \E r \in InPlace, end \in {"deleted", "released"} :
       /\ life' = [life EXCEPT ![r] = end]
       /\ standing' = standing \ {r}
       /\ abandoned' = abandoned \cup HeldBy(r)
  /\ UNCHANGED <<legacy, made, heir, outcome, blocker, cleaning>>

----------------------------------------------------------------------------
(* The repair *)

(* Mutant: a menu is taken although one that it replaced is left.           *)
Eldest_Any(r) == TRUE

(* The menu r did not replace one that is still there.                      *)
Eldest(r) == \A p \in Old \ {r} : heir[p] # r

(* The apply s replaced the menu r, and the rows show it.                   *)
Proven(r, s) ==
  /\ r \in Old /\ heir[r] = s /\ s # r
  /\ life[s] \in {"applied", "old"}
  /\ outcome[r] # "none"

(* run, with apply: the dry run before it told the owner what to confirm,   *)
(* and anything may have happened since.  A second run finds it done.       *)
Repair(r, s) ==
  /\ ~legacy /\ cleaning = 0
  /\ InPlace # {}
  /\ Eldest(r) /\ Proven(r, s)
  /\ outcome[s] = "succeeded" /\ blocker = 0
  /\ outcome' = [outcome EXCEPT ![s] = "cleanup_required"]
  /\ blocker' = s
  /\ UNCHANGED <<legacy, made, life, heir, cleaning, standing, abandoned>>

(* accept_recovery *)
AcceptCleanup(r) ==
  /\ blocker # 0 /\ cleaning = 0
  /\ r \in Old /\ heir[r] = blocker /\ outcome[blocker] = "cleanup_required"
  /\ cleaning' = r
  /\ UNCHANGED <<legacy, made, life, heir, outcome, blocker, standing, abandoned>>

(* delete: LINE has it deleted, or nothing has changed and it may be asked  *)
(* for again.                                                               *)
DeleteAtLine ==
  /\ cleaning \in standing
  /\ \/ standing' = standing \ {cleaning} /\ UNCHANGED cleaning
     \/ cleaning' = 0 /\ UNCHANGED standing
  /\ UNCHANGED <<legacy, made, life, heir, outcome, blocker, abandoned>>

(* finalize_deleted, complete_cleanup_recovery                              *)
FinishCleanup ==
  /\ cleaning # 0 /\ cleaning \notin standing
  /\ life' = [life EXCEPT ![cleaning] = "deleted"]
  /\ outcome' = [outcome EXCEPT ![blocker] = "cleaned"]
  /\ blocker' = 0 /\ cleaning' = 0
  /\ UNCHANGED <<legacy, made, heir, standing, abandoned>>

----------------------------------------------------------------------------
(* The end of the channel *)

(* is_referenced, _locked_state_is_referenced                               *)
InUse == blocker # 0 \/ cleaning # 0 \/ \E r \in Menus : life[r] \in {"applied", "old"}

(* purge_history *)
PurgeHistory ==
  /\ ~InUse /\ \E r \in Menus : life[r] # "none"
  /\ life' = [r \in Menus |-> "none"]
  /\ heir' = [r \in Menus |-> 0]
  /\ outcome' = [r \in Menus |-> "none"]
  /\ UNCHANGED <<legacy, made, blocker, cleaning, standing, abandoned>>

----------------------------------------------------------------------------
MenuRepairNext ==
  \/ ApplyMenu \/ Upgrade \/ TakeDown \/ DeleteAtLine \/ FinishCleanup \/ PurgeHistory
  \/ \E r \in Menus : AcceptCleanup(r) \/ \E s \in Menus : Repair(r, s)

MenuRepairSpec == MenuRepairInit /\ [][MenuRepairNext]_menuRepairVars

----------------------------------------------------------------------------
(* Property *)

(* A menu of ours at LINE is the one applied, or the rows still prove that  *)
(* it was replaced and may be deleted: in whatever order menus are repaired *)
(* and cleaned up, the repair and its clean-ups lose no proof before it was *)
(* used.  What loses one is an operation on the menu that is the proof,     *)
(* while the menu it replaced is left: that it is unlinked or released, or, *)
(* since the upgrade, replaced itself (cleanup_repair.py, order of causes). *)
ProofLasts ==
  \A r \in standing :
    \/ life[r] = "applied"
    \/ r \in Old /\ (r \in abandoned \/ life[heir[r]] \in {"applied", "old"})
=============================================================================
