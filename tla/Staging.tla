------------------------------ MODULE Staging ------------------------------
(***************************************************************************)
(* The staging session of internal/tui over one unlocked source: the keys  *)
(* that stage a change (e n N r d D m), the one that takes a target back   *)
(* (x), and the save that applies the reduced set to the decoded file.     *)
(*                                                                         *)
(* Every key that stages asks the PROJECTED vault what it may do: the file *)
(* seen through the change set, re-derived after every staging by rebuild. *)
(* The editor, the inline field and the carry mode own the keyboard from   *)
(* opening to closing and stage once, so each is one action; only the      *)
(* naming of a new folder stages before it closes, and has a state.        *)
(*                                                                         *)
(* Folder paths are taken to be distinct, so a path prefix is ancestry.    *)
(***************************************************************************)
EXTENDS VaultTree

CONSTANTS
  Folders,    \* every id a folder may have, minted ones and bins included
  Vals,       \* the values an entry's fields may be given
  Names,      \* the names a folder may be given
  NewName,    \* newFolderName, what a folder is called until it is named
  Source,     \* the source being edited
  InitFiles,  \* the files the session may start from
  Keys,       \* bound: the keys the reader uses
  MaxSeq      \* bound: how many operations a session stages in all

Ids == Entries \cup Folders

(* What an item may be in, hold, and be edited to.                         *)
Homes       == Folders \cup {Root, None}
Content(id) == IF IsEntry(id) THEN Vals ELSE Names \cup {NewName, BinName}
Drafts      == [val : Vals, group : Homes]

(* A decoded vault as it is read: only the root group is in no folder,     *)
(* whatever else there is is in a folder that is there, and nothing in it  *)
(* is recorded as deleted.                                                 *)
IsVault(tree) ==
  /\ tree = [node |-> tree.node, bin |-> tree.bin, tombs |-> tree.tombs]
  /\ tree.node = [id \in Live(tree) |-> tree.node[id]]
  /\ Live(tree) \subseteq Ids \cup {Root} /\ IsFiniteSet(Live(tree))
  /\ \A id \in Live(tree) :
       tree.node[id] \in [home : Homes, data : Content(id), hist : Seq(Vals), prev : Homes]
  /\ Root \in Live(tree) /\ \A id \in Live(tree) : id = Root <=> tree.node[id].home = None
  /\ \A id \in Live(tree) \ {Root} : tree.node[id].home \in Live(tree) \ Entries
  /\ tree.bin \in Bins \cup {None}
  /\ tree.tombs \subseteq Ids \ Live(tree) /\ IsFiniteSet(tree.tombs)

ASSUME StagingAssumption ==
  /\ MaxSeq \in Nat /\ HistoryMaxItems \in Int
  /\ None \notin Entries \cup Folders \cup {Root} \cup Names \cup {NewName} \cup Drafts
  /\ Root \notin Entries \cup Folders
  /\ Entries \cap Folders = {}
  /\ Bins \subseteq Folders
  /\ \A f \in InitFiles : IsVault(f)

VARIABLES
  file,    \* the kdbx on disk, decoded
  chg,     \* Model.chg
  red,     \* its reduction, in the order a save would perform it
  view,    \* Model.viewEntries and viewFolders: id -> [home, data]
  naming,  \* Model.inlineNewSeq: the creation being named, 0 for none
  spent    \* the operations staged so far, for the bound

vars == <<file, chg, red, view, naming, spent>>

-----------------------------------------------------------------------------
(* The projection, and what the guards ask of it.                          *)

Staged(kinds, id, ops) == OfKind(On(Members(ops), id), kinds)

(* What the projection starts a row from: the file, or the creation.       *)
Filed(item) == [home |-> item.home, data |-> item.data]
Born(c) == IF c.kind = "CreateEntry" THEN [home |-> c.after.group, data |-> c.after.val]
                                     ELSE [home |-> c.parent, data |-> c.name]

(* Mutant: an edit says where the entry is.                                *)
RowHomeOfDraft(base, edits, moves) ==
  IF edits # {} THEN Latest(edits).after.group
  ELSE IF moves = {} THEN base.home ELSE Latest(moves).parent

(* An edit changes fields, never location.                                 *)
RowHome(base, edits, moves) == IF moves = {} THEN base.home ELSE Latest(moves).parent

(* project: rows of the file and rows staged, each with the folder and the *)
(* content the save would give it; deletions stay.  A move of an entry is  *)
(* shown only when its destination is a row.                               *)
Project(tree, ops) ==
  LET born == Targets(OfKind(Members(ops), CreateKinds))
      rows == (Live(tree) \ {Root}) \cup born
      Row(id) ==
        LET base   == IF id \in born THEN Born(Latest(Staged(CreateKinds, id, ops)))
                                     ELSE Filed(tree.node[id])
            edits  == Staged({"EditEntry"}, id, ops)
            titles == Staged({"RenameGroup"}, id, ops)
            moves  == {m \in Staged(MoveKinds, id, ops) :
                         m.kind = "MoveGroup" \/ m.parent \in rows}
        IN  [home |-> RowHome(base, edits, moves),
             data |-> CASE edits # {}  -> Latest(edits).after.val
                        [] titles # {} -> Latest(titles).name
                        [] OTHER       -> base.data]
  IN  [id \in rows |-> Row(id)]

HomeOf(id) == IF id \in DOMAIN view THEN view[id].home ELSE None

(* A folder and every folder above it.                                     *)
Chain(folder) ==
  LET above[n \in 0 .. Cardinality(DOMAIN view)] ==
        IF n = 0 THEN {} ELSE {HomeOf(f) : f \in {folder} \cup above[n - 1]}
  IN  ({folder} \cup above[Cardinality(DOMAIN view)]) \ {None}

Under(folder) == {id \in DOMAIN view : folder \in Chain(view[id].home)}

DoomedFolders == Targets(OfKind(Members(red), {"DeleteGroup"}))

InDoomedFolder(id) == Chain(HomeOf(id)) \cap DoomedFolders # {}

DoomedParent(folder) ==
  folder # None /\ (Deleting(StateOf(red, folder)) \/ InDoomedFolder(folder))

(* Mutant: a deletion that skips the bin is not found again.               *)
StagedBinDeletion(id) == {op \in Staged(DeleteKinds, id, red) : ~op.perm}

StagedDeletion(id) == Staged(DeleteKinds, id, red)

OnItsWayOut(id) == InDoomedFolder(id) \/ StagedDeletion(id) # {}

(* What the handle reads from the file, and what is staged over it.        *)
FileDraft(id) ==
  IF FindEntry(file, id)
  THEN [val |-> file.node[id].data, group |-> file.node[id].home]
  ELSE None

StagedDraft(id) ==
  LET holding == Staged({"CreateEntry", "EditEntry"}, id, red)
  IN  IF holding = {} THEN None ELSE Latest(holding).after

LatestDraft(id) == IF StagedDraft(id) # None THEN StagedDraft(id) ELSE FileDraft(id)

(* Where an edit says the entry lives: where the projection has it, else   *)
(* where the draft it starts from had it.                                  *)
EditHome(id) == IF HomeOf(id) # None THEN HomeOf(id) ELSE LatestDraft(id).group

(* A minted identity is a fresh UUID: nothing names it yet.                *)
Fresh(id) ==
  /\ ~Has(file, id) /\ id \notin file.tombs \cup Bins
  /\ \A op \in chg.ops :
       /\ id \notin {op.target, op.parent, op.was}
       /\ \A draft \in {op.before, op.after} \ {None} : id # draft.group

-----------------------------------------------------------------------------
(* Every staging ends in a rebuild.                                        *)

Restage ==
  /\ red' = Effective(chg'.ops)
  /\ view' = Project(file', red')

Init ==
  /\ file \in InitFiles
  /\ chg = EmptySet
  /\ red = <<>>
  /\ view = Project(file, red)
  /\ naming = 0 /\ spent = 0

Browsing(key) == key \in Keys /\ naming = 0 /\ spent < MaxSeq

(* A key stages into the set, or takes out of it, and the rows follow.     *)
Becomes(set) ==
  /\ chg' = set /\ spent' = spent + set.seq - chg.seq
  /\ UNCHANGED file
  /\ Restage

Stage(set) == Becomes(set) /\ UNCHANGED naming

-----------------------------------------------------------------------------
(* The keys.                                                               *)

StageNewEntry(id, parent, val) ==
  /\ Browsing("n") /\ Fresh(id)
  /\ parent \in DOMAIN view \cup {None}
  /\ ~DoomedParent(parent)
  /\ Stage(Add(chg, [Op("CreateEntry", Source, id) EXCEPT
                       !.parent = parent, !.after = [val |-> val, group |-> parent]]))

(* The editor: over an entry created this session it stages the creation   *)
(* again, where the projection has the entry; over another, an edit.       *)
StageEdit(id, val) ==
  LET after == [val |-> val, group |-> EditHome(id)]
  IN  /\ Browsing("e") /\ id \in DOMAIN view
      /\ ~OnItsWayOut(id)
      /\ Stage(Add(chg,
           IF StateOf(red, id) = "New"
           THEN [Op("CreateEntry", Source, id) EXCEPT
                   !.parent = EditHome(id), !.after = after]
           ELSE [Op("EditEntry", Source, id) EXCEPT
                   !.before = LatestDraft(id), !.after = after]))

(* r on an entry's row: an edit of the title, carrying the whole draft.    *)
StageRetitle(id, val) ==
  /\ Browsing("r") /\ id \in DOMAIN view
  /\ ~OnItsWayOut(id)
  /\ val # view[id].data
  /\ Stage(Add(chg, [Op("EditEntry", Source, id) EXCEPT
                       !.before = IF StagedDraft(id) = None THEN FileDraft(id) ELSE None,
                       !.after = [val |-> val, group |-> EditHome(id)]]))

StageRename(id, name) ==
  /\ Browsing("r") /\ id \in DOMAIN view
  /\ ~OnItsWayOut(id)
  /\ name # view[id].data
  /\ Stage(Add(chg, [Op("RenameGroup", Source, id) EXCEPT
                       !.name = name, !.was = view[id].data]))

(* N stages the folder under a stand-in name and opens its name.           *)
OpenNewFolder(id, parent) ==
  /\ Browsing("N") /\ Fresh(id)
  /\ parent \in DOMAIN view \cup {None}
  /\ ~DoomedParent(parent)
  /\ Becomes(Add(chg, [Op("CreateGroup", Source, id) EXCEPT
                          !.parent = parent, !.name = NewName]))
  /\ naming' = chg'.seq

(* Mutant: the field stays open.                                           *)
NameNewFolderAgain(name) ==
  LET made == CHOOSE op \in chg.ops : op.seq = naming
  IN  /\ naming # 0
      /\ Stage(IF name = NewName THEN chg
               ELSE Add(chg, [Op("RenameGroup", Source, made.target) EXCEPT
                                !.name = name, !.was = NewName]))

(* enter: a name that was typed is a rename of what was just made.         *)
NameNewFolder(name) ==
  LET made == CHOOSE op \in chg.ops : op.seq = naming
  IN  /\ naming # 0
      /\ Becomes(IF name = NewName THEN chg
                 ELSE Add(chg, [Op("RenameGroup", Source, made.target) EXCEPT
                                  !.name = name, !.was = NewName]))
      /\ naming' = 0

(* esc: the row only existed to be typed on.                               *)
AbandonNewFolder ==
  /\ naming # 0
  /\ Becomes(Revert(chg, naming))
  /\ naming' = 0

(* m, then enter on a destination: a folder's row, or the source's row,    *)
(* which is the root group.                                                *)
StageMove(id, dest) ==
  /\ Browsing("m") /\ id \in DOMAIN view
  /\ dest \in (DOMAIN view \cap Folders) \cup {Root}
  /\ dest \notin {id, HomeOf(id)}
  /\ id \notin Chain(dest)
  /\ ~DoomedParent(dest)
  /\ Stage(Add(chg, [Op(IF IsEntry(id) THEN "MoveEntry" ELSE "MoveGroup", Source, id)
                       EXCEPT !.was = HomeOf(id), !.parent = dest]))

(* dropDeletionsUnder: a deletion staged inside a folder that is now going *)
(* as a whole is the same decision.                                        *)
DropDeletionsUnder(set, folder) ==
  LET under == {op \in Members(Effective(set.ops)) :
                  op.kind \in DeleteKinds /\ op.target \in Under(folder)}
  IN  [set EXCEPT !.ops = {op \in @ : \A u \in under : op.seq # u.seq}]

(* d and D toggle, and turn one deletion into the other.                   *)
StageDelete(id, permanent) ==
  LET perm == permanent \/ ~BinEnabled
      prev == StagedDeletion(id)
      back == IF prev = {} THEN chg ELSE Revert(chg, Latest(prev).seq)
      deletion == IF IsEntry(id)
                  THEN [Op("DeleteEntry", Source, id) EXCEPT
                          !.before = FileDraft(id), !.perm = perm]
                  ELSE [Op("DeleteGroup", Source, id) EXCEPT !.perm = perm]
  IN  /\ Browsing(IF permanent THEN "D" ELSE "d") /\ id \in DOMAIN view
      /\ ~InDoomedFolder(id)
      /\ Stage(IF \E op \in prev : op.perm = perm THEN back
               ELSE IF IsEntry(id) THEN Add(back, deletion)
               ELSE Add(DropDeletionsUnder(back, id), deletion))

(* x on a row of the Changes tab.                                          *)
Undo(id) ==
  /\ "x" \in Keys /\ naming = 0
  /\ id \in Targets(Members(red))
  /\ Stage(RevertTarget(chg, id))

(* The save: apply the reduced set to the handle's tree and start over     *)
(* with nothing staged and the numbers from 1.  A tree that cannot take it *)
(* is dropped and the changes stay staged.                                 *)
Outcome == Apply(file, Source, red)

Save ==
  /\ naming = 0
  /\ Source \in Sources(red)
  /\ Outcome.ok
  /\ file' = Outcome.tree
  /\ chg' = EmptySet
  /\ UNCHANGED <<naming, spent>>
  /\ Restage

Next ==
  \/ \E id \in Entries, parent \in Folders \cup {None}, val \in Vals :
       StageNewEntry(id, parent, val)
  \/ \E id \in Entries, val \in Vals : StageEdit(id, val)
  \/ \E id \in Entries, val \in Vals : StageRetitle(id, val)
  \/ \E id \in Folders, name \in Names : StageRename(id, name)
  \/ \E id \in Folders, parent \in Folders \cup {None} : OpenNewFolder(id, parent)
  \/ \E name \in Names \cup {NewName} : NameNewFolder(name)
  \/ AbandonNewFolder
  \/ \E id \in Ids, dest \in Folders \cup {Root} : StageMove(id, dest)
  \/ \E id \in Ids, permanent \in BOOLEAN : StageDelete(id, permanent)
  \/ \E id \in Ids : Undo(id)
  \/ Save

Spec == Init /\ [][Next]_vars
=============================================================================
