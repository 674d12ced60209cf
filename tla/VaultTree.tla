----------------------------- MODULE VaultTree -----------------------------
(***************************************************************************)
(* The decoded kdbx of internal/vault and the mutations a staged change    *)
(* set is applied with.  A tree is a record                                *)
(*   node  : live id -> [home, data, hist, prev]                           *)
(*   bin   : Meta.RecycleBinUUID, or None                                  *)
(*   tombs : DeletedObjects, as a set of ids                               *)
(* where `home` is the folder holding the item (None for the root group),  *)
(* `data` an entry's field values or a folder's name, `hist` an entry's    *)
(* history stack, oldest first, and `prev` its PreviousParentGroup.  Every *)
(* mutation returns [tree, ok]: like the Go code it changes the tree in    *)
(* memory and stops at the first error, rolling nothing back.  Ids are     *)
(* unique (the duplicate counter of ident.go is not modelled), and the     *)
(* order of siblings and the timestamps are left out.                      *)
(***************************************************************************)
EXTENDS EditSet

CONSTANTS
  Root,            \* the one root group
  Entries,         \* every id an entry may have, minted ones included
  Bins,            \* the ids a recycle bin made by a deletion may get
  BinEnabled,      \* Meta.RecycleBinEnabled
  HistoryMaxItems, \* Meta.HistoryMaxItems: 0 keeps none, negative keeps all
  BinName          \* what KeePass calls the bin

Done(tree)   == [tree |-> tree, ok |-> TRUE]
Failed(tree) == [tree |-> tree, ok |-> FALSE]

Live(tree)    == DOMAIN tree.node
IsEntry(id)   == id \in Entries
Has(tree, id) == id \in Live(tree)

(* findGroup: the empty id names the root group.                           *)
Resolve(folder)         == IF folder = None THEN Root ELSE folder
FindGroup(tree, folder) == Has(tree, Resolve(folder)) /\ ~IsEntry(Resolve(folder))
FindEntry(tree, id)     == Has(tree, id) /\ IsEntry(id)

(* The subtree of a folder, itself included: what is reached in as many    *)
(* levels as there are items.                                              *)
Subtree(node, top) ==
  LET within[n \in 0 .. Cardinality(DOMAIN node)] ==
        IF n = 0 THEN {top}
        ELSE LET above == within[n - 1]
             IN  above \cup {id \in DOMAIN node : node[id].home \in above}
  IN  within[Cardinality(DOMAIN node)]

Minus(node, ids) == [id \in DOMAIN node \ ids |-> node[id]]
Put(node, id, item) == [x \in DOMAIN node \cup {id} |-> IF x = id THEN item ELSE node[x]]
Item(home, data)    == [home |-> home, data |-> data, hist |-> <<>>, prev |-> None]

(* Mutant: PreviousParentGroup is left alone.                              *)
RelocatedForgetting(tree, id, dest) == [tree EXCEPT !.node[id].home = dest]

(* Taking an item to another folder, remembering the one it left.          *)
Relocated(tree, id, dest) ==
  [tree EXCEPT !.node[id].home = dest, !.node[id].prev = tree.node[id].home]

-----------------------------------------------------------------------------
(* Mutant: the recorded bin is trusted to be there.                        *)
RecycleBinAsRecorded(tree) ==
  IF tree.bin # None THEN tree
  ELSE LET made == CHOOSE b \in Bins : ~Has(tree, b) /\ b \notin tree.tombs
       IN  [tree EXCEPT !.node = Put(@, made, Item(Root, BinName)), !.bin = made]

(* The recycle bin: made in the root on the first deletion, or again when  *)
(* the recorded one is gone.                                               *)
RecycleBin(tree) ==
  IF tree.bin # None /\ FindGroup(tree, tree.bin) THEN tree
  ELSE LET made == CHOOSE b \in Bins : ~Has(tree, b) /\ b \notin tree.tombs
       IN  [tree EXCEPT !.node = Put(@, made, Item(Root, BinName)), !.bin = made]

(* Mutant: only folders get a deletion record.                             *)
PurgedFolders(tree, ids) ==
  [tree EXCEPT !.node = Minus(@, ids), !.tombs = @ \cup (ids \ Entries)]

(* Permanent deletion records everything that disappears.                  *)
Purged(tree, ids) ==
  [tree EXCEPT !.node = Minus(@, ids), !.tombs = @ \cup ids]

PushHistory(hist, data) ==
  IF HistoryMaxItems = 0 THEN hist
  ELSE LET all == Append(hist, data)
       IN  IF HistoryMaxItems > 0 /\ Len(all) > HistoryMaxItems
           THEN SubSeq(all, Len(all) - HistoryMaxItems + 1, Len(all))
           ELSE all

-----------------------------------------------------------------------------
(* The mutations.                                                          *)

CreateEntry(tree, id, parent, draft) ==
  IF FindGroup(tree, parent)
  THEN Done([tree EXCEPT !.node = Put(@, id, Item(Resolve(parent), draft.val))])
  ELSE Failed(tree)

CreateGroup(tree, id, parent, name) ==
  IF name # None /\ FindGroup(tree, parent)
  THEN Done([tree EXCEPT !.node = Put(@, id, Item(Resolve(parent), name))])
  ELSE Failed(tree)

UpdateEntry(tree, id, draft) ==
  IF FindEntry(tree, id)
  THEN Done([tree EXCEPT !.node[id].hist = PushHistory(@, tree.node[id].data),
                         !.node[id].data = draft.val])
  ELSE Failed(tree)

RenameGroup(tree, id, name) ==
  IF name # None /\ FindGroup(tree, id)
  THEN Done([tree EXCEPT !.node[Resolve(id)].data = name])
  ELSE Failed(tree)

MoveEntry(tree, id, dest) ==
  IF ~FindEntry(tree, id) \/ ~FindGroup(tree, dest) THEN Failed(tree)
  ELSE IF tree.node[id].home = Resolve(dest) THEN Done(tree)
  ELSE Done(Relocated(tree, id, Resolve(dest)))

MoveGroup(tree, id, dest) ==
  IF \/ id = dest \/ ~FindGroup(tree, id) \/ Resolve(id) = Root
     \/ ~FindGroup(tree, dest)
     \/ Resolve(dest) \in Subtree(tree.node, id)
  THEN Failed(tree)
  ELSE Done(Relocated(tree, id, Resolve(dest)))

DeleteEntry(tree, id, perm) ==
  IF ~FindEntry(tree, id) THEN Failed(tree)
  ELSE IF perm \/ ~BinEnabled THEN Done(Purged(tree, {id}))
  ELSE LET binned == RecycleBin(tree)
       IN  IF tree.node[id].home = binned.bin THEN Done(binned)
           ELSE Done(Relocated(binned, id, binned.bin))

DeleteGroup(tree, id, perm) ==
  IF ~FindGroup(tree, id) \/ Resolve(id) = Root THEN Failed(tree)
  ELSE IF perm \/ ~BinEnabled THEN Done(Purged(tree, Subtree(tree.node, id)))
  ELSE LET binned == RecycleBin(tree)
       IN  IF \/ binned.node[id].home = binned.bin
              \/ binned.bin \in Subtree(binned.node, id)
           THEN Failed(binned)
           ELSE Done(Relocated(binned, id, binned.bin))

-----------------------------------------------------------------------------
(* Applying a change set: this source's reduced operations in order, as    *)
(* far as the first that fails.                                            *)

ApplyOne(tree, op) ==
  CASE op.kind = "CreateEntry" -> CreateEntry(tree, op.target, op.parent, op.after)
    [] op.kind = "EditEntry"   -> UpdateEntry(tree, op.target, op.after)
    [] op.kind = "MoveEntry"   -> MoveEntry(tree, op.target, op.parent)
    [] op.kind = "DeleteEntry" -> DeleteEntry(tree, op.target, op.perm)
    [] op.kind = "CreateGroup" -> CreateGroup(tree, op.target, op.parent, op.name)
    [] op.kind = "RenameGroup" -> RenameGroup(tree, op.target, op.name)
    [] op.kind = "MoveGroup"   -> MoveGroup(tree, op.target, op.parent)
    [] op.kind = "DeleteGroup" -> DeleteGroup(tree, op.target, op.perm)

Apply(tree, source, eff) ==
  LET done[n \in 0 .. Len(eff)] ==
        IF n = 0 THEN Done(tree)
        ELSE LET before == done[n - 1]
             IN  IF before.ok /\ eff[n].source = source
                 THEN ApplyOne(before.tree, eff[n]) ELSE before
  IN  done[Len(eff)]
=============================================================================
