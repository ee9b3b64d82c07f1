------------------------------ MODULE MCFloor -------------------------------
(* Small instances of what serves a guest: the menu, an item's workflow, and   *)
(* the side effects that the events of the workflow set off.  They share no     *)
(* state, so that a behaviour exercises one of them, its focus, while the       *)
(* others stand still.                                                          *)
EXTENDS SideEffects, Integers, TLC

VARIABLES focus,
          wf, status, voided, order, revision, events, tx, changes,
          menu, links, job, reader, raced, edits

TwoBranches == {1, 2}
TwoTypes    == {1, 2}
Top == {"new", "prep", "ready"}

Flow == INSTANCE Workflow WITH
          Sessions <- {1, 2}, Items <- {1, 2}, TopLevel <- Top, SubStates <- {"wait"},
          KindOf <- [s \in Top \cup {"wait"} |-> IF s = "wait" THEN "prep" ELSE s],
          First <- "new", Start <- [s \in Top |-> CASE s = "new" -> 1 [] s = "prep" -> 2 [] s = "ready" -> 4],
          Positions <- {0}, MaxEvents <- 2, MaxChanges <- 2

Shelves == {"a", "b", "c"}
Window(days, start, end) == [days |-> days, start |-> start, end |-> end]
Asked(table) ==
  CASE table = "category" -> [parent : Shelves \cup {"none"}] \cup [active : BOOLEAN]
    [] table = "item"     -> [category : Shelves] \cup [price : {2}] \cup [active : BOOLEAN]
    [] table = "group"    -> [min : {0, 2}] \cup [max : {1, 2}] \cup [single : BOOLEAN]
    [] table = "override" -> [price : {-1, 0}] \cup [available : {FALSE}]
                             \cup [schedule : {{}, {Window({}, 1, 2)}, {Window({0}, 2, 1)}, {Window({}, 2, 1)}}]

(* Two managers edit; or one edits while a menu is read. *)
Editing == INSTANCE Catalog WITH
             rows <- menu, Editors <- {1, 2}, Readers <- {1}, Categories <- Shelves, Items <- {"i"},
             Groups <- {"g"}, Later <- {"g"}, DayMinutes <- 3, Weekdays <- {0, 1}, Patches <- Asked, MaxEdits <- 3
Wanted(table) ==
  CASE table = "category" -> [parent : {"b"}] \cup [active : {FALSE}]
    [] table = "item"     -> [category : {"b"}, price : {2}]
    [] table = "group"    -> {}
    [] table = "override" -> [price : {0}, schedule : {{Window({}, 2, 1)}}]
Reading == INSTANCE Catalog WITH
             rows <- menu, Editors <- {1}, Readers <- {1}, Categories <- {"a", "b"}, Items <- {"i", "j"},
             Groups <- {"g"}, Later <- {}, DayMinutes <- 3, Weekdays <- {0}, Patches <- Wanted, MaxEdits <- 3

flowVars == <<wf, status, voided, order, revision, events, tx, changes>>
menuVars == <<menu, links, job, reader, raced, edits>>

MCInit ==
  /\ focus \in {"effects", "workflow", "editing", "reading"}
  /\ Init /\ Flow!Init
  /\ IF focus = "reading" THEN Reading!Init ELSE Editing!Init

MCNext ==
  /\ UNCHANGED focus
  /\ IF focus = "effects" THEN Next ELSE UNCHANGED vars
  /\ IF focus = "workflow" THEN Flow!Next ELSE UNCHANGED flowVars
  /\ CASE focus = "editing" -> \E e \in {1, 2} : Editing!Edit(e)
       [] focus = "reading" -> ~Reading!Answered(1) /\ (Reading!Edit(1) \/ Reading!Read(1))
       [] OTHER -> UNCHANGED menuVars

MCSpec == MCInit /\ [][MCNext]_<<focus, vars, flowVars, menuVars>>

Interchangeable == Permutations(Workers)

-----------------------------------------------------------------------------
(* No item, order or event points at a state that was deleted (deleteState). *)
NoDanglingStatus == focus = "workflow" => Flow!NoDanglingStatus

(* Overlapping moves of one item leave one chain of status events behind      *)
(* (transitionItem, appendItemStatusEvent).                                    *)
LedgerIsAChain == focus = "workflow" => Flow!LedgerIsAChain

(* Category moves that do not overlap, and archiving, leave every active      *)
(* category on the menu (assertAcyclicParent, buildForest).                     *)
ActiveCategoriesOnMenu == focus = "editing" => Editing!ActiveCategoriesOnMenu

=============================================================================
