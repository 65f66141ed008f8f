----------------------------- MODULE MCDevices ------------------------------
(***************************************************************************)
(* Instances of SegmentDriver, SegmentPipeline and MealDisplay for TLC.    *)
(* The devices of lab3, lab4 and hw1 share nothing: a behaviour is one of  *)
(* one of them, and a run checks all three.                                *)
(***************************************************************************)
EXTENDS SegmentDriver, TLC

CONSTANTS
  Letters, MaxFrames,                                          (* of lab4  *)
  Shops, Distance, Price, Amounts, MaxAmount, MaxLed, Menus,   (* of hw1   *)
  p1, p2, p3

VARIABLES
  device,       (* the device that is used, "lab3", "lab4" or "hw1"        *)
  written, display_buf, reader, buf, stream, split, segs,      (* of lab4  *)
  menu_pc, stuck, choice, shop, item, qty, loop, leds, digit   (* of hw1   *)

lab4 == <<written, display_buf, reader, buf, stream, split, segs>>
hw1 == <<menu_pc, stuck, choice, shop, item, qty, loop, leds, digit>>

Pipeline == INSTANCE SegmentPipeline

Meal == INSTANCE MealDisplay WITH Programs <- Menus, pc <- menu_pc, i <- loop

ASSUME DeviceAssumption == Pipeline!PipelineAssumption /\ Meal!MealAssumption

(* lab3: without an argument, with one that is too long, and a short one.  *)
MCPrograms == {p1, p2, p3}

MCArg == (p1 :> <<>>) @@ (p2 :> <<4, 5, 6, 7>>) @@ (p3 :> <<9>>)

MCDefaultId == <<3, 1, 4>>

(* hw1: the nearest and the farthest shop, with fewer kilometres.          *)
MCMenus == {p1, p2}

MCShops == {1, 3}

MCDistance == 1 :> 2 @@ 3 :> 4

MCPrice == 1 :> <<60, 80>> @@ 3 :> <<120, 50>>

MCAmounts == {-1, 1}

(* What is chosen for one device does not matter to the others.            *)
DevicesInit ==
  /\ Init /\ Pipeline!Init /\ Meal!Init
  /\ device \in {"lab3", "lab4", "hw1"}
  /\ device # "lab3" => ~together
  /\ device # "lab4" => ~split

DevicesNext ==
  \/ device = "lab3" /\ Next /\ UNCHANGED <<device, lab4, hw1>>
  \/ device = "lab4" /\ Pipeline!Next /\ UNCHANGED <<device, vars, hw1>>
  \/ device = "hw1" /\ Meal!Next /\ UNCHANGED <<device, vars, lab4>>

(* The fairness of the first two, for the device that is used; what is     *)
(* checked of the third needs none.                                        *)
DevicesSpec ==
  /\ DevicesInit /\ [][DevicesNext]_<<device, vars, lab4, hw1>>
  /\ \A p \in Programs : WF_vars(device = "lab3" /\ pc[p] # "off" /\ (Write(p) \/ Read(p)))
  /\ WF_lab4(device = "lab4" /\ Pipeline!WriteLetter)
  /\ WF_lab4(device = "lab4" /\ (Pipeline!ReadDevice \/ Pipeline!Send \/ Pipeline!CallFails))
  /\ WF_lab4(device = "lab4" /\ Pipeline!Update)

(* The type invariants of the three modules.                               *)
TypesOK == TypeOK /\ Pipeline!TypeOK /\ Meal!TypeOK

(* The properties of SegmentPipeline and of MealDisplay.                   *)
NeverBackwards == Pipeline!NeverBackwards

LastLetterStays == device = "lab4" => Pipeline!LastLetterStays

AllOffAtRest == Meal!AllOffAtRest

=============================================================================
