---------------------------- MODULE Catalog ----------------------------
(* The menu: categories, items, modifier groups, the links between items  *)
(* and groups, and one branch's overrides.  Every call of                 *)
(* CatalogEngine is a chain of repository calls, and each repository call *)
(* is a transaction of its own (withTenantContext): an update READS the   *)
(* row, checks it, and later WRITES the whole row back, so that two       *)
(* editors interleave between the reading and the writing.                *)
EXTENDS Integers, FiniteSets, Sequences, TLC

CONSTANTS Editors,        \* managers who edit the menu
          Readers,        \* callers of getBranchMenu, one call each
          Categories,     \* ids of categories
          Items,          \* ids of menu items
          Groups,         \* ids of modifier groups
          Patches(_),     \* the changes an editor may ask of a table
          DayMinutes,     \* minutes of a local day (24 * 60)
          Weekdays,       \* the weekdays, numbered
          Later,          \* ids of rows that do not exist at the start
          MaxEdits        \* bound on the edits of a behaviour

VARIABLES rows,      \* table -> id of an existing row -> row
          links,     \* item-group pairs of menu_item_modifier_groups
          job,       \* editor -> the call in progress
          reader,    \* reader -> its getBranchMenu call
          raced,     \* whether two moves of categories have overlapped
          edits      \* edits begun

vars == <<rows, links, job, reader, raced, edits>>

Tables == {"category", "item", "group", "override"}
Ids(t) == CASE t = "category" -> Categories
            [] t = "group" -> Groups
            [] OTHER -> Items
NoParent == "none"       \* parent_category_id IS NULL
Null == -1               \* NULL in a nullable number column
Idle == [table |-> "idle"]

Exists(t, i) == i \in DOMAIN rows[t]

----------------------------------------------------------------------------
(* The rules of catalog-rules.ts. *)

ParentOf(cats, c) == IF c \in DOMAIN cats THEN cats[c].parent ELSE NoParent
(* The categories met walking up from p, p included. *)
Chain(cats, p) ==
  LET up[n \in Nat] == IF n = 0 THEN {p} ELSE up[n - 1] \cup {ParentOf(cats, c) : c \in up[n - 1]}
  IN up[Cardinality(Categories)] \ {NoParent}

(* Slip: only the new parent's own parent is looked at. *)
parentChainOneLevel(c, p, cats) == p # NoParent /\ (p = c \/ ParentOf(cats, p) = c)

(* parentChainContains: c is met walking up from p, or the walk meets a    *)
(* category twice.                                                         *)
parentChainContains(c, p, cats) ==
  c \in Chain(cats, p) \/ \E d \in Chain(cats, p) : d \in Chain(cats, ParentOf(cats, d))

(* assertMinMaxSelections and assertSelectionTypeConsistency *)
selectionsValid(row) ==
  /\ row.min >= 0
  /\ row.max # Null => row.max >= row.min
  /\ row.single => row.max \in {Null, 1}

(* What the engine demands of a merged row before writing it; a category's *)
(* parents are checked on a listing read in a later transaction.           *)
Acceptable(t, i, row) ==
  CASE t = "category" -> row.parent = NoParent \/ (row.parent # i /\ Exists("category", row.parent))
    [] t = "item"     -> Exists("category", row.category)
    [] t = "group"    -> selectionsValid(row)
    [] t = "override" -> Exists("item", i)

NewRow(t) == CASE t = "category" -> [parent |-> NoParent, active |-> TRUE]
               [] t = "item"     -> [category |-> CHOOSE c \in Categories : TRUE, price |-> 1, active |-> TRUE]
               [] t = "group"    -> [min |-> 0, max |-> Null, single |-> FALSE, active |-> TRUE]
               [] t = "override" -> [price |-> Null, available |-> TRUE, schedule |-> {}]

----------------------------------------------------------------------------
(* The calls. *)

(* A committed write of a row, among the listings of the menus being read. *)
Committed(t, i) ==
  reader' = [r \in Readers |-> IF reader[r] = Idle THEN Idle
                               ELSE [reader[r] EXCEPT !.writes = Append(@, <<t, i>>)]]

(* createCategory, createItem, createModifierGroup: the referenced row is   *)
(* looked up first; rows are never deleted, so the lookup cannot go stale   *)
(* and one action stands for both transactions.                             *)
Create(e, t, i, patch) ==
  /\ job[e] = Idle /\ t # "override" /\ ~Exists(t, i) /\ edits < MaxEdits
  /\ LET row == [(patch @@ NewRow(t)) EXCEPT !.active = TRUE] IN
       /\ Acceptable(t, i, row)
       /\ rows' = [rows EXCEPT ![t] = (i :> row) @@ @]
  /\ edits' = edits + 1 /\ Committed(t, i)
  /\ UNCHANGED <<links, job, raced>>

createCategory(e, i, patch)      == Create(e, "category", i, patch)
createItem(e, i, patch)          == Create(e, "item", i, patch)
createModifierGroup(e, i, patch) == Create(e, "group", i, patch)

attachModifierGroupToItem(e, i, g) ==
  /\ job[e] = Idle /\ Exists("item", i) /\ Exists("group", g) /\ edits < MaxEdits
  /\ <<i, g>> \notin links
  /\ links' = links \cup {<<i, g>>}
  /\ edits' = edits + 1 /\ Committed("link", i)
  /\ UNCHANGED <<rows, job, raced>>

(* A field the caller leaves out (undefined) keeps the value just read; an *)
(* explicit null clears it.                                                 *)
Merged(t, current, patch) == patch @@ current

Writes(e, t) == job[e] # Idle /\ job[e].table = t

(* The first transaction of doUpdateCategory, doUpdateItem,                 *)
(* doUpdateModifierGroup and setBranchOverride (an archive is the update    *)
(* that clears "active"): read the row, merge the caller's fields, check.   *)
ReadRow(e, t, i, patch) ==
  /\ job[e] = Idle /\ edits < MaxEdits
  /\ t # "override" => Exists(t, i)
  /\ LET current == IF Exists(t, i) THEN rows[t][i] ELSE NewRow(t)
         row == Merged(t, current, patch) IN
       /\ Acceptable(t, i, row)
       /\ job' = [job EXCEPT ![e] = [table |-> t, id |-> i, row |-> row, checked |-> t # "category"]]
       /\ raced' = (raced \/ (t = "category" /\ \E f \in Editors \ {e} : Writes(f, "category")))
  /\ edits' = edits + 1
  /\ UNCHANGED <<rows, links, reader>>

doUpdateCategory(e, i, patch)      == ReadRow(e, "category", i, patch)
doUpdateItem(e, i, patch)          == ReadRow(e, "item", i, patch)
doUpdateModifierGroup(e, i, patch) == ReadRow(e, "group", i, patch)
setBranchOverride(e, i, patch)     == ReadRow(e, "override", i, patch)

(* assertAcyclicParent: the listing is a second transaction. *)
CheckParents(e) ==
  /\ job[e] # Idle /\ ~job[e].checked
  /\ IF parentChainContains(job[e].id, job[e].row.parent, rows["category"])
       THEN job' = [job EXCEPT ![e] = Idle]
       ELSE job' = [job EXCEPT ![e].checked = TRUE]
  /\ UNCHANGED <<rows, links, reader, raced, edits>>


(* The last transaction: UPDATE ... SET every column, or the upsert of the  *)
(* assembled override.                                                      *)
WriteRow(e) ==
  /\ job[e] # Idle /\ job[e].checked
  /\ rows' = [rows EXCEPT ![job[e].table] = (job[e].id :> job[e].row) @@ @]
  /\ job' = [job EXCEPT ![e] = Idle] /\ Committed(job[e].table, job[e].id)
  /\ UNCHANGED <<links, raced, edits>>

updateCategory(e)       == Writes(e, "category") /\ WriteRow(e)
updateItem(e)           == Writes(e, "item") /\ WriteRow(e)
updateModifierGroup(e)  == Writes(e, "group") /\ WriteRow(e)
upsertBranchOverride(e) == Writes(e, "override") /\ WriteRow(e)

----------------------------------------------------------------------------
(* The branch's menu. *)

(* windowMatches: a missing start is minute 0, a missing end the minute     *)
(* after the last; an end before the start wraps past midnight.             *)
windowMatches(w, clock) ==
  /\ w.days # {} => clock.weekday \in w.days
  /\ IF w.start <= w.end THEN clock.minutes >= w.start /\ clock.minutes < w.end
                         ELSE clock.minutes >= w.start \/ clock.minutes < w.end

resolveAvailability(overrides, i, clock) ==
  i \in DOMAIN overrides
    => /\ overrides[i].available
       /\ \/ overrides[i].schedule = {}
          \/ \E w \in overrides[i].schedule : windowMatches(w, clock)

resolveEffectivePrice(items, overrides, i) ==
  IF i \in DOMAIN overrides /\ overrides[i].price # Null THEN overrides[i].price ELSE items[i].price

ActiveIn(table) == {i \in DOMAIN table : table[i].active}

(* buildForest: a category whose parent is not on the list is a root, and   *)
(* what hangs under no root is not on the menu.                             *)
buildForest(cats) ==
  LET nodes == ActiveIn(cats)
      kept == [c \in nodes |-> cats[c]]
  IN {c \in nodes : \E r \in Chain(kept, c) \cap nodes : cats[r].parent \notin nodes}

(* The menu composed from the listings, as the caller sees it at a moment.  *)
Menu(read, clock) ==
  [i \in {j \in ActiveIn(read.item) : read.item[j].category \in buildForest(read.category)} |->
     [price     |-> resolveEffectivePrice(read.item, read.override, i),
      available |-> resolveAvailability(read.override, i, clock),
      groups    |-> {g \in ActiveIn(read.group) : <<i, g>> \in read.link}]]

Lists == Tables \cup {"link"}
Database == [l \in Lists |-> IF l = "link" THEN links ELSE rows[l]]

(* getBranchMenu starts its listings at once (Promise.all), each on its own *)
(* connection: they run in any order among the editors' writes.             *)
StartMenu(r) ==
  /\ reader[r] = Idle
  /\ reader' = [reader EXCEPT ![r] = [read |-> [l \in {} |-> 0], first |-> Database, writes |-> <<>>]]
  /\ UNCHANGED <<rows, links, job, raced, edits>>

ReadList(r, l) ==
  /\ reader[r] # Idle /\ l \notin DOMAIN reader[r].read
  /\ reader' = [reader EXCEPT ![r].read = (l :> Database[l]) @@ @]
  /\ UNCHANGED <<rows, links, job, raced, edits>>

listCategories(r)             == ReadList(r, "category")
listItems(r)                  == ReadList(r, "item")
listModifierGroups(r)         == ReadList(r, "group")
listItemModifierGroupLinks(r) == ReadList(r, "link")
listBranchOverrides(r)        == ReadList(r, "override")

(* Once the last listing is in, the menu is composed and handed over. *)
Answered(r) == reader[r] # Idle /\ DOMAIN reader[r].read = Lists

Init ==
  /\ rows = [t \in Tables |-> [i \in (IF t = "override" THEN {} ELSE Ids(t) \ Later) |-> NewRow(t)]]
  /\ links = {}
  /\ job = [e \in Editors |-> Idle]
  /\ reader = [r \in Readers |-> Idle] /\ raced = FALSE /\ edits = 0

Edit(e) ==
  \/ \E i \in Categories, patch \in Patches("category") :
       createCategory(e, i, patch) \/ doUpdateCategory(e, i, patch)
  \/ \E i \in Items, patch \in Patches("item") : createItem(e, i, patch) \/ doUpdateItem(e, i, patch)
  \/ \E i \in Groups, patch \in Patches("group") :
       createModifierGroup(e, i, patch) \/ doUpdateModifierGroup(e, i, patch)
  \/ \E i \in Items, patch \in Patches("override") : setBranchOverride(e, i, patch)
  \/ \E i \in Items, g \in Groups : attachModifierGroupToItem(e, i, g)
  \/ CheckParents(e)
  \/ updateCategory(e) \/ updateItem(e) \/ updateModifierGroup(e) \/ upsertBranchOverride(e)

Read(r) ==
  \/ StartMenu(r)
  \/ listCategories(r) \/ listItems(r) \/ listModifierGroups(r)
  \/ listItemModifierGroupLinks(r) \/ listBranchOverrides(r)

Next ==
  \/ \E e \in Editors : Edit(e)
  \/ \E r \in Readers : Read(r)

----------------------------------------------------------------------------

(* Every active category is on the menu.  Archiving a category takes nothing *)
(* else off it, since buildForest lifts the children of an archived parent to *)
(* the top, and moves build no cycle, in which categories would vanish.       *)
(* (assertAcyclicParent reads the tree in one transaction and the parent is   *)
(* written in a later one: this holds while no two moves have overlapped.)    *)
ActiveCategoriesOnMenu ==
  ~raced => buildForest(rows["category"]) = ActiveIn(rows["category"])

Clocks == [weekday : Weekdays, minutes : 0 .. DayMinutes - 1]

(* The rows that the menu of one item is made of. *)
RowsOf(db, i) ==
  {<<t, i>> : t \in {"item", "override", "link"}}
    \cup {<<"group", g>> : g \in {h \in DOMAIN db.group : <<i, h>> \in db.link}}
    \cup IF i \in DOMAIN db.item THEN {<<"category", c>> : c \in Chain(db.category, db.item[i].category)} ELSE {}

Shown(menu, i) == {menu[j] : j \in DOMAIN menu \cap {i}}

============================================================================
