------------------------- MODULE StagingProperties -------------------------
(***************************************************************************)
(* What a staging session promises.  Most of it is about the save that has *)
(* not happened yet: Outcome is the tree the staged set would leave if it  *)
(* were written now, so each property is asked in every state a session    *)
(* reaches, and not only in the ones where the reader saves.               *)
(***************************************************************************)
EXTENDS Staging

Nodes   == Outcome.tree.node
Written == Live(Outcome.tree)

Creations == Targets(OfKind(chg.ops, CreateKinds))
Reduced(kinds) == OfKind(Members(red), kinds)

Operations ==
  [seq : 1 .. MaxSeq + 1,
   kind : {"CreateEntry", "EditEntry", "MoveEntry", "DeleteEntry",
           "CreateGroup", "RenameGroup", "MoveGroup", "DeleteGroup"},
   source : {Source}, target : Ids, parent : Folders \cup {Root, None},
   name : Names \cup {NewName, None}, was : Names \cup Folders \cup {NewName, BinName, Root, None},
   before : Drafts \cup {None}, after : Drafts \cup {None}, perm : BOOLEAN]

(* Type: the shape of the staged set, of the file and of the projection.   *)
TypeOK ==
  /\ chg.ops \subseteq Operations /\ chg.seq \in 0 .. MaxSeq + 1
  /\ Members(red) \subseteq Operations
  /\ Live(file) \subseteq Ids \cup {Root} /\ file.bin \in Bins \cup {None}
  /\ file.tombs \subseteq Ids
  /\ \A id \in Live(file) : file.node[id].hist \in Seq(Vals)
  /\ DOMAIN view \subseteq Ids
  /\ naming \in 0 .. MaxSeq /\ spent \in 0 .. MaxSeq + 1

-----------------------------------------------------------------------------
(* Handles.                                                                *)

(* A sequence number names one staged operation until the set is saved,    *)
(* whatever was reverted in between: Op.Seq is the handle for       *)
(* reverting, and inlineNewSeq and stageDelete keep one across keys.       *)
SeqsAreHandles ==
  /\ \A op \in chg.ops : op.seq \in 1 .. chg.seq
  /\ \A op, other \in chg.ops : op.seq = other.seq => op = other

(* At most one deletion of a target is in the log: d and D replace or take *)
(* back the one they find, so the reduction never chooses between two.     *)
OneDeletionEach ==
  \A op, other \in OfKind(chg.ops, DeleteKinds) : op.target = other.target => op = other

(* Folders an operation may point at.                                      *)
Placed(folder) == folder \in {None, Root} \cup Live(file) \cup Creations

(* A draft or a move's origin left behind by the undoing of the folder it  *)
(* names: the reduction's `was` and an edit's `group` are not closed over. *)
StaleReference ==
  \/ \E op \in OfKind(chg.ops, {"CreateEntry", "EditEntry"}) : ~Placed(op.after.group)
  \/ \E op \in OfKind(chg.ops, MoveKinds) : ~Placed(op.was)

(* No staged operation is put into a folder that is neither in the file    *)
(* nor going to be: reverting a creation takes along what was staged into  *)
(* it.  A stale draft is the one way round.                                *)
NoOrphans == StaleReference \/ \A op \in chg.ops : Placed(op.parent)

-----------------------------------------------------------------------------
(* The save as the reader approved it.                                     *)

(* The shapes of a staged set that a save cannot perform, or performs      *)
(* otherwise than reviewed.  Each is reachable; README.md lists them.      *)
NotATree == \E id \in DOMAIN view : id \in Chain(HomeOf(id))
MadeAgainAfterMove ==
  \E c \in OfKind(chg.ops, CreateKinds), m \in OfKind(chg.ops, MoveKinds) :
    c.target = m.target /\ m.seq < c.seq
FoldersMovedTogether == Cardinality(Targets(OfKind(chg.ops, {"MoveGroup"}))) > 1
ActsInsideTheGone ==
  \E i, j \in DOMAIN red :
    /\ i < j /\ red[i].kind = "DeleteGroup"
    /\ red[i].target \in UNION {Chain(f) : f \in {HomeOf(red[j].target), red[j].parent, HomeOf(red[j].was)}}
BinItselfDeleted ==
  \E d \in Reduced({"DeleteGroup"}) :
    file.bin # None /\ (file.bin \in Under(d.target) \cup {d.target} \/ d.target \in Under(file.bin))
DeletionInsideDeletion == \E d \in Reduced(DeleteKinds) : InDoomedFolder(d.target)
EntryMovedToRoot == \E m \in Reduced({"MoveEntry"}) : m.parent = Root

(* applyOrder puts the operations in an order the vault can perform: the   *)
(* save applies, but for the shapes named above.                           *)
SaveCanBePerformed ==
  \/ Outcome.ok
  \/ NotATree \/ MadeAgainAfterMove \/ FoldersMovedTogether
  \/ ActsInsideTheGone \/ BinItselfDeleted \/ StaleReference

(* A new entry moved on into a folder that was then cancelled: the move is *)
(* dropped as a whole, and a draft may still name an earlier destination.  *)
MoveCancelled ==
  \E c \in Reduced({"CreateEntry"}) :
    OfKind(On(chg.ops, c.target), MoveKinds) # {} /\ Staged(MoveKinds, c.target, red) = {}

(* The projection is the vault as it will be: everything it does not mark  *)
(* as going is written where it is shown, holding what is shown.           *)
ReviewIsTruth ==
  Outcome.ok /\ ~EntryMovedToRoot /\ ~StaleReference /\ ~MoveCancelled =>
    \A id \in DOMAIN view :
      OnItsWayOut(id) \/ /\ id \in Written
                         /\ Nodes[id].data = view[id].data
                         /\ Nodes[id].home = Resolve(view[id].home)

(* The reader's last word on an entry is what the projection shows, and so *)
(* what the save writes, unless a deletion of it is staged too.  An entry  *)
(* retitled inline and then taken to the form again, both before its first *)
(* save, is the exception.                                                 *)
Words(id) == OfKind(On(chg.ops, id), {"CreateEntry", "EditEntry"})
RetitledThenMadeAgain(id) ==
  \E e, c \in Words(id) : e.kind = "EditEntry" /\ c.kind = "CreateEntry" /\ e.seq < c.seq

LastWordCounts ==
  \A id \in Entries \cap DOMAIN view :
    \/ Words(id) = {} \/ OfKind(On(chg.ops, id), DeleteKinds) # {} \/ RetitledThenMadeAgain(id)
    \/ view[id].data = Latest(Words(id)).after.val

(* Which deletion it is travels with everything inside: what is purged was *)
(* shown as going for good, and what was not can be fished out of the bin. *)
(* (Where what is shown is what is written: see ReviewIsTruth.)            *)
GoingForGood(id) ==
  (Chain(HomeOf(id)) \cup {id}) \cap Targets({d \in Reduced(DeleteKinds) : d.perm}) # {}

BinnedIsRecoverable ==
  /\ Outcome.ok /\ ~BinItselfDeleted /\ ~DeletionInsideDeletion
  /\ ~EntryMovedToRoot /\ ~StaleReference /\ ~MoveCancelled
  =>
    \A id \in DOMAIN view :
      /\ GoingForGood(id) => id \notin Written
      /\ OnItsWayOut(id) /\ ~GoingForGood(id) =>
           Outcome.tree.bin \in Written /\ id \in Subtree(Nodes, Outcome.tree.bin)

(* Deletion is recorded: whatever left the file has a tombstone, children  *)
(* of a purged folder included, and nothing that is still there has one.   *)
TombstonesMatch ==
  Outcome.ok => /\ Live(file) \ Written \subseteq Outcome.tree.tombs
                /\ Outcome.tree.tombs \cap Written = {}

(* One history record per entry per save, holding what the file held, and  *)
(* none for an entry whose values come back to what they were.             *)
OneHistoryPerSave ==
  Outcome.ok =>
    \A id \in Entries \cap Live(file) \cap Written :
      LET was == file.node[id]
      IN  Nodes[id].hist = IF Nodes[id].data = was.data THEN was.hist
                           ELSE PushHistory(was.hist, was.data)

(* PreviousParentGroup is where the file had the item before this save,    *)
(* whatever interim folders it was staged through.                         *)
PutBackWorks ==
  Outcome.ok =>
    \A id \in Live(file) \cap Written :
      Nodes[id].home # file.node[id].home => Nodes[id].prev = file.node[id].home

-----------------------------------------------------------------------------
(* What the documentation says without the exceptions above: checked where *)
(* a run shows the program doing otherwise.                                *)

(* "applyOrder puts the operations in an order the vault can actually      *)
(* perform" (set.go).                                                      *)
EveryOrderIsPerformed == Outcome.ok

(* "it shows the vault as it will be, with each change marked in place"    *)
(* (project.go).                                                           *)
EveryMoveIsShown ==
  \A m \in Reduced(MoveKinds) : HomeOf(m.target) = m.parent

(* "create then edit is one creation carrying the final values" (set.go).  *)
FinalValuesAreCreated ==
  \A c \in Reduced({"CreateEntry"}) : c.after.val = Latest(Words(c.target)).after.val

(* Moving something out of a folder "is how you keep one thing from a      *)
(* folder you are removing" (carry.go): a thing moved and not deleted      *)
(* itself, into a folder that is not going, is written.                    *)
CarriedOutIsKept ==
  Outcome.ok =>
    \A m \in OfKind(chg.ops, MoveKinds) :
      \/ m.target \in Written
      \/ m # Latest(OfKind(On(chg.ops, m.target), MoveKinds))
      \/ OfKind(On(chg.ops, m.target), DeleteKinds) # {}
      \/ Deleting(StateOf(red, m.parent)) \/ InDoomedFolder(m.parent)
=============================================================================
