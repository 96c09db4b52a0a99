------------------------------ MODULE MCConsole ------------------------------
(***************************************************************************)
(* Six small systems that do not share a variable, checked side by side:    *)
(* the initial state chooses one of them, and the others stay as they are.  *)
(* Nothing is said of how they interact.                                    *)
(***************************************************************************)
EXTENDS DeliveryPage, OwnerSession, MenuPage, CurrentMenu, MenuRepair, JudgmentLab, TLC

CONSTANTS d1, d2, s1, s2, o1, o2, m1, m2

VARIABLE scene

consoleVars == <<scene, deliveryPageVars, ownerSessionVars, menuPageVars, currentMenuVars,
                 menuRepairVars, judgmentLabVars>>

ConsoleInit ==
  /\ scene \in {"delivery", "session", "menu", "current", "repair", "lab"}
  /\ DeliveryPageInit /\ OwnerSessionInit /\ MenuPageInit
  /\ CurrentMenuInit /\ MenuRepairInit /\ JudgmentLabInit
  /\ scene # "session" => ~client
  /\ scene # "current" => default = NoMenu

ConsoleNext ==
  /\ UNCHANGED scene
  /\ \/ /\ scene = "delivery" /\ DeliveryPageNext
        /\ UNCHANGED <<ownerSessionVars, menuPageVars,
                       currentMenuVars, menuRepairVars, judgmentLabVars>>
     \/ /\ scene = "session" /\ OwnerSessionNext
        /\ UNCHANGED <<deliveryPageVars, menuPageVars,
                       currentMenuVars, menuRepairVars, judgmentLabVars>>
     \/ /\ scene = "menu" /\ MenuPageNext
        /\ UNCHANGED <<deliveryPageVars, ownerSessionVars,
                       currentMenuVars, menuRepairVars, judgmentLabVars>>
     \/ /\ scene = "current" /\ CurrentMenuNext
        /\ UNCHANGED <<deliveryPageVars, ownerSessionVars,
                       menuPageVars, menuRepairVars, judgmentLabVars>>
     \/ /\ scene = "repair" /\ MenuRepairNext
        /\ UNCHANGED <<deliveryPageVars, ownerSessionVars,
                       menuPageVars, currentMenuVars, judgmentLabVars>>
     \/ /\ scene = "lab" /\ JudgmentLabNext
        /\ UNCHANGED <<deliveryPageVars, ownerSessionVars,
                       menuPageVars, currentMenuVars, menuRepairVars>>

ConsoleSpec == ConsoleInit /\ [][ConsoleNext]_consoleVars

(* The values of symmetric sets of different systems change places at the   *)
(* same time, which for each system is the symmetry of its own.             *)
Swap(x, y) == (x :> y) @@ (y :> x)
Symmetry ==
  Permutations({s1, s2}) \cup {Swap(d1, d2) @@ Swap(o1, o2) @@ Swap(m1, m2)}
=============================================================================
