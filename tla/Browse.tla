-------------------------------- MODULE Browse --------------------------------
(* The Vault tab (internal/tui): the folder tree and the table beside it, the     *)
(* search and its results, the entry detail, and every staging key that rebuilds *)
(* what they show; then who gets a key when an overlay, a form or another tab is  *)
(* up.  The Model is a value, as in the code: an operator on models is a method   *)
(* that returns one.  Positions count from 1; one past the end is on no row.      *)
EXTENDS FolderTree

CONSTANTS
    Start,          \* what the file holds
    Hits,           \* per query: the entries it matches
    Files,          \* how many files are attached to an entry
    NewNames,       \* bound: the names things are given
    MaxChanges,     \* bound: changes staged in a behaviour
    MaxForeign      \* bound: changes by other writers met on reading again

ASSUME BrowseAssumption ==
    /\ Start \in Vaults /\ Hits \in [DOMAIN Hits -> SUBSET Entries]
    /\ Files \in [Entries -> Nat]
    /\ NewNames \subseteq Nat /\ MaxChanges \in Nat /\ MaxForeign \in Nat

Tabs == {"vault", "changes", "generate", "settings"}
Modals == {"setForm", "setSyncing"}   \* the password prompt and the removal are as the form

VARIABLES
    m,      \* the Model, as far as the Vault tab goes
    ui,     \* the overlays and the other tabs
    world,  \* bound: a behaviour stages, or opens overlays and tabs
    spent   \* the changes staged, and those of other writers

vars == <<m, ui, world, spent>>

Models ==
    [file : Vaults, view : Vaults, chg : [Items -> Staged], open : SUBSET Nodes,
     tsel : Nat, esel : Nat, focus : {0, 1}, mode : BOOLEAN, query : {""} \cup DOMAIN Hits,
     results : Seq(Entries), sel : Nat, detail : BOOLEAN,
     edit : {"none", "form", "inline", "carry"}, target : Items \cup {""},
     new : BOOLEAN, into : Nodes \cup {""}]

Uis == [up : BOOLEAN, tab : Tabs, help : BOOLEAN, attach : {"none", "pick", "dest"},
        unlock : BOOLEAN, guard : BOOLEAN, confirm : BOOLEAN, conflict : BOOLEAN, stale : BOOLEAN,
        saving : BOOLEAN, set : Modals \cup {"setList"}, exclude : BOOLEAN, writeOK : BOOLEAN]

-------------------------------------------------------------------------------
(* What is on screen.                                                           *)

ShowResults(x) == x.query # ""
Rows(x) == Visible(x.view, x.open)
CurrentFolder(x) == IF x.tsel \in DOMAIN Rows(x) THEN Rows(x)[x.tsel] ELSE Gone
Table(x) == IF CurrentFolder(x) = Gone THEN <<>> ELSE EntriesOf(x.view, CurrentFolder(x))

\* The entry that is current, whichever pane has the focus.
SelEntry(x) ==
    IF ShowResults(x)
    THEN IF x.sel \in DOMAIN x.results THEN x.results[x.sel] ELSE Gone
    ELSE IF x.esel \in DOMAIN Table(x) THEN Table(x)[x.esel] ELSE Gone

\* What an edit key acts on.
Target(x) ==
    IF ShowResults(x) THEN SelEntry(x)
    ELSE IF x.focus = 1 /\ SelEntry(x) # Gone THEN SelEntry(x)
    ELSE CurrentFolder(x)

Match(v, q) == IF q = "" THEN <<>> ELSE ByName(v, Hits[q] \cap Present(v))

\* (mutant) the results stay those of the vault before
RefilterOnTyping(x) == [x EXCEPT !.sel = 1]

Refilter(x) == [x EXCEPT !.sel = 1, !.results = Match(x.view, x.query)]

ClearSearch(x) == [x EXCEPT !.mode = FALSE, !.query = "", !.results = <<>>, !.sel = 1]

-------------------------------------------------------------------------------
(* Rebuilding, and putting the cursor somewhere.                                *)

\* selectFolderByKey, selectEntryByID: only onto a row that is visible.
Select(x, i) ==
    LET row == IF i \in Present(x.view) \cup {Root} THEN RowOf(x.view, x.open, i) ELSE 0 IN
    IF row = 0 THEN x
    ELSE IF i \in Entries THEN [x EXCEPT !.tsel = row, !.esel = PlaceOf(x.view, i), !.focus = 1]
    ELSE [x EXCEPT !.tsel = row]

\* (mutant) the cursor stays at its row number
SelectByIndex(x, i) == x

\* What the cursor is on is found again by identity.
Reselect(x, i) == Select(x, i)

\* A row that was known keeps its state; one that was not is closed.
KeepOpen(old, v) == old \cap (FoldersOf(v) \cup {Root})

Rebuild(x, file, chg) ==
    LET was == IF x.focus = 1 /\ SelEntry(x) # Gone THEN SelEntry(x) ELSE CurrentFolder(x)
        v == Project(file, chg)
        y == [x EXCEPT !.file = file, !.chg = chg, !.view = v, !.open = KeepOpen(@, v)]
    IN Refilter(Reselect(y, was))

Restage(x, chg) == Rebuild(x, x.file, chg)

\* revealTarget: every folder on the way is opened, and the cursor goes there.
Reveal(x, i) ==
    LET at == HomeOf(x.view, i)
        way == IF i \in Folders \/ at # Root
               THEN {Root} \cup IF i \in Folders THEN Above(x.view, i) ELSE Above(x.view, at)
               ELSE {}
        y == Select([x EXCEPT !.open = @ \cup way], i)
    IN IF i \in Folders THEN [y EXCEPT !.esel = 1, !.focus = 0] ELSE y

\* (mutant) the detail moves on with the table
AdvanceAnywhere(x) ==
    IF x.focus = 1
    THEN [x EXCEPT !.esel = IF @ < Len(Table(x)) THEN @ + 1 ELSE @]
    ELSE IF x.tsel < Len(Rows(x)) THEN [x EXCEPT !.tsel = @ + 1, !.esel = 1] ELSE x

\* advanceCursor: one row down the list that has the focus.
Advance(x) ==
    IF x.detail \/ ShowResults(x) THEN x
    ELSE IF x.focus = 1
    THEN [x EXCEPT !.esel = IF @ < Len(Table(x)) THEN @ + 1 ELSE @]
    ELSE IF x.tsel < Len(Rows(x)) THEN [x EXCEPT !.tsel = @ + 1, !.esel = 1] ELSE x

-------------------------------------------------------------------------------
(* What may be staged.                                                          *)

Doomed(x, i) == \E f \in Above(x.view, i) : x.chg[f].delete
OnItsWayOut(x, i) == x.chg[i].delete \/ Doomed(x, i)
DoomedParent(x, p) == p # Root /\ OnItsWayOut(x, p)

\* stageDelete is a toggle, and a folder takes the deletions beneath it along.
ToggleDelete(x, t) ==
    IF Doomed(x, t) THEN Advance(x)
    ELSE LET beneath == IF t \in Folders /\ ~x.chg[t].delete THEN Beneath(x.view, t) ELSE {}
         IN Advance(Restage(x, [i \in Items |->
                IF i = t THEN [x.chg[i] EXCEPT !.delete = ~@]
                ELSE IF i \in beneath THEN [x.chg[i] EXCEPT !.delete = FALSE]
                ELSE x.chg[i]]))

\* RevertTarget: undoing a creation takes along what was staged into it.
Reverted(chg, t) ==
    LET gone[k \in 0..Cardinality(Items)] ==
            IF k = 0 THEN IF chg[t].made # "" THEN {t} ELSE {}
            ELSE gone[k - 1] \cup {i \in Items : chg[i].made \in gone[k - 1]}
        out == gone[Cardinality(Items)]
    IN [i \in Items |-> IF i = t \/ i \in out THEN Unstaged
                        ELSE IF chg[i].to \in out THEN [chg[i] EXCEPT !.to = ""] ELSE chg[i]]

\* canDropInto, from the row under the cursor.
CanDrop(x, d) ==
    /\ x.focus = 0 /\ d # Gone /\ d # x.target
    /\ d # x.view.at[x.target] \/ (d = Root /\ x.chg[x.target].made = Root)
    /\ d # Root => x.target \notin Above(x.view, d) /\ ~OnItsWayOut(x, d)

\* bound: no two of a kind share a name, so that the order of the rows is the names'.
FreeNames(x, i) ==
    NewNames \ {x.view.name[j] : j \in (Present(x.view) \ {i}) \cap (IF i \in Entries THEN Entries ELSE Folders)}

\* Identities nothing has used: MintEntryID, MintGroupID.
Unused(x) == {i \in Items : Start.at[i] = Gone /\ x.file.at[i] = Gone /\ x.chg[i] = Unstaged}

Closed(x) == [x EXCEPT !.edit = "none", !.target = "", !.new = FALSE, !.into = ""]

Dirty(x) == \E i \in Items \ Cancelled(x.chg) : x.chg[i] # Unstaged

Init ==
    LET x == [file |-> Start, view |-> Start, chg |-> [i \in Items |-> Unstaged],
              open |-> IF world = "screens" THEN Nodes ELSE {}, tsel |-> 1, esel |-> 1,
              focus |-> 0, mode |-> FALSE, query |-> "", results |-> <<>>, sel |-> 1,
              detail |-> FALSE, edit |-> "none", target |-> "",
              new |-> FALSE, into |-> ""]
    IN /\ world \in {"staging", "screens"}
       /\ \E e \in SUBSET (Entries \cap Present(Start)) :
             /\ e = {} \/ (world = "screens" /\ Cardinality(e) = 1)
             /\ m = Restage(x, [i \in Items |-> [Unstaged EXCEPT !.delete = i \in e]])
       /\ ui = [up |-> TRUE, tab |-> "vault", help |-> FALSE, attach |-> "none",
                unlock |-> FALSE, guard |-> FALSE, confirm |-> FALSE, conflict |-> FALSE, stale |-> FALSE,
                saving |-> FALSE, set |-> "setList", exclude |-> FALSE, writeOK |-> TRUE]
       /\ spent = [changes |-> 0, foreign |-> 0]

Become(x) == m' = x /\ UNCHANGED <<ui, world, spent>>

\* Staged, within the bound.
Stage(x) ==
    /\ world = "staging" /\ spent.changes < MaxChanges
    /\ spent' = [spent EXCEPT !.changes = @ + 1]
    /\ m' = x /\ UNCHANGED <<ui, world>>

NoOverlay ==
    /\ ui.up /\ ~ui.help /\ ui.attach = "none" /\ ~ui.unlock
    /\ ~ui.guard /\ ~ui.confirm /\ ~ui.conflict /\ ~ui.saving

VaultKeys == NoOverlay /\ ui.tab = "vault" /\ m.edit = "none" /\ ~m.mode
TreeKeys == VaultKeys /\ ~m.detail /\ ~ShowResults(m)
ResultKeys == VaultKeys /\ ~m.detail /\ ShowResults(m)

\* While a row is carried the browsing keys still browse.
Steering == NoOverlay /\ ui.tab = "vault" /\ m.edit \in {"none", "carry"} /\ ~m.mode /\ ~ShowResults(m)

-------------------------------------------------------------------------------
(* Browsing: the tree and the table.  A page is taken to be all of a list.       *)

\* bound: the tree is walked and folded in a behaviour that stages.
Folds == world = "staging"

\* One row up or down, or to an end.
Moves(at, len) == {1, at - 1, at + 1, len} \cap 1..len

MoveInTree ==
    /\ Folds /\ Steering /\ ~m.detail /\ m.focus = 0
    /\ \E r \in Moves(m.tsel, Len(Rows(m))) : Become([m EXCEPT !.tsel = r, !.esel = 1])

MoveInTable ==
    /\ Steering /\ ~m.detail /\ m.focus = 1
    /\ \E r \in Moves(m.esel, Len(Table(m))) : Become([m EXCEPT !.esel = r])

TabKey ==
    /\ TreeKeys
    /\ Become(IF m.focus = 0 /\ Table(m) # <<>> THEN [m EXCEPT !.focus = 1, !.esel = 1]
              ELSE [m EXCEPT !.focus = 0])

Right ==
    /\ Steering /\ ~m.detail /\ CurrentFolder(m) # Gone
    /\ LET f == CurrentFolder(m) IN
       Become(IF m.focus = 1
              THEN IF SelEntry(m) # Gone THEN [m EXCEPT !.detail = TRUE] ELSE m
              ELSE IF f \notin m.open /\ ChildrenOf(m.view, f) # {} THEN [m EXCEPT !.open = @ \cup {f}]
              ELSE IF Table(m) # <<>> THEN [m EXCEPT !.focus = 1, !.esel = 1] ELSE m)

\* left; esc does as much from the table and from the detail.
Left ==
    /\ Steering
    /\ Become(IF m.detail THEN [m EXCEPT !.detail = FALSE]
              ELSE IF m.focus = 1 THEN [m EXCEPT !.focus = 0]
              ELSE [m EXCEPT !.open = IF Folds THEN @ \ {CurrentFolder(m)} ELSE @])

Enter ==
    /\ Folds /\ TreeKeys /\ m.focus = 0 /\ CurrentFolder(m) # Gone
    /\ Become([m EXCEPT !.open = SymDiff(@, {CurrentFolder(m)})])

\* z and the shifted arrows, on the branch under the cursor.
Subtree ==
    /\ Folds /\ Steering /\ ~m.detail /\ CurrentFolder(m) # Gone
    /\ \E on \in {~AnyOpen(m.view, m.open, CurrentFolder(m)), TRUE, FALSE} :
          Become([m EXCEPT !.open = SetExpanded(m.view, @, CurrentFolder(m), on)])

\* Z: the cursor climbs to the nearest row that is left.
ToggleAll ==
    /\ Folds /\ Steering /\ ~m.detail
    /\ LET open == SetExpanded(m.view, m.open, Root, ~AnyOpen(m.view, m.open, Root))
           was == CurrentFolder(m)
           on == Nearest(m.view, open, was)
           x == [m EXCEPT !.open = open] IN
       Become(IF was = Gone THEN [x EXCEPT !.tsel = 1, !.esel = 1, !.focus = 0]
              ELSE IF on = was THEN Select(x, was)
              ELSE [Select(x, on) EXCEPT !.focus = 0, !.esel = 1])

\* ctrl+b hides the tree, which loses the focus, or shows it again.
Collapse ==
    /\ world = "screens" /\ NoOverlay /\ ui.tab = "vault" /\ m.edit \in {"none", "carry"} /\ ~m.mode
    /\ Become([m EXCEPT !.focus = IF m.detail THEN @ ELSE 1])

-------------------------------------------------------------------------------
(* Search and its results, and the detail of either list.                       *)

OpenSearch ==
    /\ TreeKeys \/ ResultKeys
    /\ Become(IF ShowResults(m) THEN [m EXCEPT !.mode = TRUE]
              ELSE Refilter([m EXCEPT !.mode = TRUE]))

SearchKeys == NoOverlay /\ ui.tab = "vault" /\ m.edit = "none" /\ m.mode

Type(x, q) == Refilter([x EXCEPT !.query = q])

TypeQuery == SearchKeys /\ \E q \in DOMAIN Hits \cup {""} : Become(Type(m, q))
ApplySearch == SearchKeys /\ Become([m EXCEPT !.mode = FALSE])
LeaveSearch == (SearchKeys \/ ResultKeys) /\ Become(ClearSearch(m))

MoveInResults ==
    /\ SearchKeys \/ ResultKeys
    /\ \E r \in Moves(m.sel, Len(m.results)) : Become([m EXCEPT !.sel = r])

OpenResult == ResultKeys /\ SelEntry(m) # Gone /\ Become([m EXCEPT !.detail = TRUE])

CloseResult == VaultKeys /\ m.detail /\ ShowResults(m) /\ Become([m EXCEPT !.detail = FALSE])

\* g: out of the search, to the folder of the result.
GotoFolder == ResultKeys /\ SelEntry(m) # Gone /\ Become(Reveal(ClearSearch(m), SelEntry(m)))

-------------------------------------------------------------------------------
(* Staging.                                                                     *)

EditKeys == VaultKeys /\ ui.writeOK /\ (SelEntry(m) # Gone \/ CurrentFolder(m) # Gone)

\* Where n and N create: in the results, beside the result.
Parent(x) ==
    IF ShowResults(x) THEN IF SelEntry(x) = Gone THEN Root ELSE HomeOf(x.view, SelEntry(x))
    ELSE IF CurrentFolder(x) = Gone THEN Root ELSE CurrentFolder(x)

OpenEditor ==
    /\ EditKeys /\ Target(m) \in Entries /\ ~OnItsWayOut(m, Target(m))
    /\ Become([m EXCEPT !.edit = "form", !.target = Target(m)])

OpenNewEntry ==
    /\ EditKeys /\ ~DoomedParent(m, Parent(m))
    /\ \E i \in Unused(m) \cap Entries :
          Become([m EXCEPT !.edit = "form", !.target = i, !.new = TRUE, !.into = Parent(m)])

\* The folder is made first, and named on its own row.
OpenNewFolder ==
    /\ EditKeys /\ ~DoomedParent(m, Parent(m))
    /\ \E i \in Unused(m) \cap Folders : \E n \in FreeNames(m, i) :
          Stage([Reveal(Restage(m, [m.chg EXCEPT ![i].made = Parent(m), ![i].name = n]), i)
                    EXCEPT !.edit = "inline", !.target = i, !.new = TRUE])

OpenInlineRename ==
    /\ EditKeys /\ Target(m) \in Items /\ ~OnItsWayOut(m, Target(m))
    /\ Become([m EXCEPT !.edit = "inline", !.target = Target(m)])

StageDelete == EditKeys /\ Target(m) \in Items /\ Stage(ToggleDelete(m, Target(m)))

GrabForMove ==
    /\ EditKeys /\ Target(m) \in Items
    /\ LET x == IF ShowResults(m) THEN ClearSearch(m) ELSE m IN
       Become([Reveal([x EXCEPT !.detail = FALSE], Target(m))
                  EXCEPT !.focus = 0, !.edit = "carry", !.target = Target(m)])

\* The editor, the field and the carried row own the keyboard from every tab.
Editing(mode) == NoOverlay /\ m.edit = mode

CancelEdit ==
    /\ Editing("form") \/ Editing("carry") \/ (Editing("inline") /\ ~m.new)
    /\ Become(Closed(m))

\* The folder just made goes again.
CancelNewFolder ==
    /\ Editing("inline") /\ m.new
    /\ Become(Restage(Closed(m), Reverted(m.chg, m.target)))

StageEdit ==
    /\ Editing("form")
    /\ \E n \in FreeNames(m, m.target) :
          Stage(IF m.new
                THEN Reveal(Restage(Closed(m), [m.chg EXCEPT ![m.target].made = m.into,
                                                             ![m.target].name = n]), m.target)
                ELSE Restage(Closed(m), [m.chg EXCEPT ![m.target].name = n]))

\* An unchanged name closes the field; on a new folder it still says so.
StageInlineRename ==
    /\ Editing("inline")
    /\ \E n \in FreeNames(m, m.target) :
          IF n = m.view.name[m.target]
          THEN Become(IF m.new THEN Restage(Closed(m), m.chg) ELSE Closed(m))
          ELSE Stage(Restage(Closed(m), [m.chg EXCEPT ![m.target].name = n]))

DropHere ==
    /\ Editing("carry") /\ CanDrop(m, CurrentFolder(m))
    /\ Stage(Restage(Closed(m), [m.chg EXCEPT ![m.target].to = CurrentFolder(m)]))

-------------------------------------------------------------------------------
(* The Changes tab, and what a save or a conflict reads again.                  *)

\* switchTab.
Switched(x, t) ==
    [x EXCEPT !.detail = FALSE,
              !.focus = IF t = "generate" THEN 1 ELSE IF t = "changes" THEN @ ELSE 0]

ChangesKeys == NoOverlay /\ ui.tab = "changes" /\ m.edit = "none"

\* x on a row; on a heading, on each row under it.
UndoChange ==
    /\ ChangesKeys
    /\ \E i \in Items \ Cancelled(m.chg) :
          m.chg[i] # Unstaged /\ Become(Restage(m, Reverted(m.chg, i)))

\* enter: only an entry is looked for, and only where it is on screen.
JumpToChange ==
    /\ ChangesKeys
    /\ \E i \in Items \ Cancelled(m.chg) :
          /\ m.chg[i] # Unstaged
          /\ m' = IF i \in Entries THEN Select(Switched(m, "vault"), i) ELSE Switched(m, "vault")
    /\ ui' = [ui EXCEPT !.tab = "vault"] /\ UNCHANGED <<world, spent>>

InModal == ui.tab = "settings" /\ ui.set # "setList"

\* askToSave: a conflict nobody answered comes first; then a locked source is refused.
Asked(u) ==
    IF ~Dirty(m) THEN u
    ELSE IF u.stale THEN [u EXCEPT !.conflict = TRUE]
    ELSE [u EXCEPT !.confirm = @ \/ u.writeOK]

AskToSave ==
    /\ world = "screens" /\ NoOverlay /\ m.edit = "none" /\ ~m.mode /\ ~InModal
    /\ ui' = Asked(ui) /\ UNCHANGED <<m, world, spent>>

AnswerSave ==
    /\ ui.up /\ ui.confirm /\ ~ui.guard
    /\ \E write \in BOOLEAN : ui' = [ui EXCEPT !.confirm = FALSE, !.saving = write]
    /\ UNCHANGED <<m, world, spent>>

\* The file once the staged changes are in it.
Written(x) ==
    [at |-> [i \in Items |-> IF i \in Present(x.view) /\ OnItsWayOut(x, i) THEN Gone ELSE x.view.at[i]],
     name |-> x.view.name]

\* What the file may hold when it is read again.
Reread(file) ==
    IF spent.foreign = MaxForeign THEN {}
    ELSE {[file EXCEPT !.at = [j \in Items |-> IF j = i \/ j \in Beneath(file, i) THEN Gone ELSE @[j]]] :
             i \in Present(file)}

ReadAgain(chg) ==
    \/ /\ m' = Rebuild(m, m.file, chg) /\ UNCHANGED spent
    \/ /\ \E file \in Reread(m.file) : m' = Rebuild(m, file, chg)
       /\ spent' = [spent EXCEPT !.foreign = @ + 1]

\* onSaveDone: written, or refused because the file had changed, or failed.
SaveDone ==
    /\ ui.saving
    /\ \/ /\ m' = Rebuild(m, Written(m), [i \in Items |-> Unstaged])
          /\ ui' = [ui EXCEPT !.saving = FALSE, !.stale = FALSE] /\ UNCHANGED spent
       \/ /\ ReadAgain(m.chg)
          /\ \E moved \in BOOLEAN :
                ui' = [ui EXCEPT !.saving = FALSE, !.stale = @ \/ moved, !.conflict = @ \/ moved]
    /\ UNCHANGED world

\* Read again, written over, or left alone.
AnswerConflict ==
    /\ ui.up /\ ui.conflict /\ ~ui.guard /\ ~ui.confirm
    /\ \/ ui' = [ui EXCEPT !.conflict = FALSE] /\ (ReadAgain(m.chg) \/ UNCHANGED <<m, spent>>)
       \/ ui' = [ui EXCEPT !.conflict = FALSE, !.stale = FALSE] /\ UNCHANGED <<m, spent>>
    /\ UNCHANGED world
===============================================================================
