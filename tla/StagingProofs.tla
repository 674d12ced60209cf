---------------------------- MODULE StagingProofs ----------------------------
(***************************************************************************)
(* What holds of a staging session whatever the file, the keys and the     *)
(* number of changes.  Of the log: operations keep the numbers they were   *)
(* staged under, nothing is marked for deletion twice, undoing leaves      *)
(* nothing behind that needs what was undone, and the last word on an      *)
(* entry is the one shown.  Of the save: deletions are recorded, an edited *)
(* entry gets one history record, what was moved remembers the folder the  *)
(* file had it in, the file stays a vault for the next session, what is    *)
(* written is what the review of the changes showed, what it showed as     *)
(* going to the recycle bin is there, and the save gets to its end.        *)
(***************************************************************************)
EXTENDS StagingProperties, EditSetProofs

(* A change set whose numbers are handles: none above the counter, and no  *)
(* two operations under one.                                               *)
Handles(set) ==
  /\ set = [ops |-> set.ops, seq |-> set.seq]
  /\ set.seq \in Nat
  /\ \A op \in set.ops : op.seq \in 1 .. set.seq
  /\ \A op, other \in set.ops : op.seq = other.seq => op = other

-----------------------------------------------------------------------------
(* The methods of Set.                                                     *)

(* Add stamps the next number, which no operation in the set has.          *)
LEMMA AddHandles ==
  ASSUME NEW set, Handles(set), NEW op,
         \A n : [op EXCEPT !.seq = n].seq = n
  PROVE  Handles(Add(set, op)) /\ Add(set, op).seq = set.seq + 1
  <1> DEFINE stamped == [op EXCEPT !.seq = set.seq + 1]
  <1>1. Add(set, op) = [ops |-> set.ops \cup {stamped}, seq |-> set.seq + 1]
    BY DEF Add
  <1>2. stamped.seq = set.seq + 1
    OBVIOUS
  <1>3. set.seq \in Nat /\ \A other \in set.ops : other.seq \in 1 .. set.seq
    BY DEF Handles
  <1> HIDE DEF stamped
  <1>4. \A other \in set.ops \cup {stamped} : other.seq \in 1 .. set.seq + 1
    BY <1>2, <1>3
  <1>5. \A a, b \in set.ops \cup {stamped} : a.seq = b.seq => a = b
    BY <1>2, <1>3 DEF Handles
  <1>6. QED
    BY <1>1, <1>3, <1>4, <1>5 DEF Handles

(* A filtered log keeps its numbers and the counter.                       *)
LEMMA FilterHandles ==
  ASSUME NEW set, Handles(set), NEW some \in SUBSET set.ops
  PROVE  Handles([set EXCEPT !.ops = some]) /\ [set EXCEPT !.ops = some].seq = set.seq
  <1>1. [set EXCEPT !.ops = some] = [ops |-> some, seq |-> set.seq]
    BY DEF Handles
  <1>2. QED
    BY <1>1 DEF Handles

(* Reverting, one operation or all of a target, is a filter: whatever grow  *)
(* returns, nothing is renumbered and the counter does not go back.         *)
LEMMA WithoutHandles ==
  ASSUME NEW set, Handles(set), NEW undone
  PROVE  Handles(Without(set, undone)) /\ Without(set, undone).seq = set.seq
  <1> DEFINE born == Targets(OfKind(undone, CreateKinds))
             gone == IF born = {} THEN {} ELSE Grow(set.ops, born)
             some == {op \in set.ops \ undone : op.target \notin gone /\ op.parent \notin gone}
  <1>1. Without(set, undone) = [set EXCEPT !.ops = some]
    BY DEF Without
  <1>2. some \in SUBSET set.ops
    OBVIOUS
  <1> HIDE DEF some
  <1>3. QED
    BY <1>1, <1>2, FilterHandles

(* Revert and RevertTarget.                                                *)
LEMMA RevertHandles ==
  ASSUME NEW set, Handles(set)
  PROVE  /\ \A n : Handles(Revert(set, n)) /\ Revert(set, n).seq = set.seq
         /\ \A id : Handles(RevertTarget(set, id)) /\ RevertTarget(set, id).seq = set.seq
  BY WithoutHandles DEF Revert, RevertTarget

(* dropDeletionsUnder, before a folder is marked.                          *)
LEMMA DropUnderHandles ==
  ASSUME NEW set, Handles(set), NEW folder
  PROVE  /\ Handles(DropDeletionsUnder(set, folder))
         /\ DropDeletionsUnder(set, folder).seq = set.seq
  <1> DEFINE under == {op \in Members(Effective(set.ops)) :
                         op.kind \in DeleteKinds /\ op.target \in Under(folder)}
             some == {op \in set.ops : \A u \in under : op.seq # u.seq}
  <1>1. DropDeletionsUnder(set, folder) = [set EXCEPT !.ops = some]
    BY DEF DropDeletionsUnder
  <1>2. some \in SUBSET set.ops
    OBVIOUS
  <1> HIDE DEF some
  <1>3. QED
    BY <1>1, <1>2, FilterHandles

-----------------------------------------------------------------------------
(* The keys.                                                               *)

(* The inductive invariant: the staged set, and the creation being named.  *)
NumbersHold == Handles(chg) /\ naming \in Nat

(* A save that went through leaves nothing staged and nothing being named. *)
StartsOver == chg' = EmptySet /\ naming' = 0

(* A session starts with nothing staged.                                   *)
LEMMA NumbersInit == Init => NumbersHold
  BY DEF Init, EmptySet, NumbersHold, Handles

(* Every key adds one operation, filters the log, or does the one after    *)
(* the other; the counter goes back only where a save empties the set.     *)
LEMMA NumbersStep ==
  ASSUME NumbersHold, [Next]_vars
  PROVE  NumbersHold' /\ (chg.seq <= chg'.seq \/ StartsOver)
  <1> SUFFICES /\ Handles(chg') /\ naming' \in Nat
               /\ chg.seq <= chg'.seq \/ StartsOver
    BY DEF NumbersHold
  <1>0. Handles(chg) /\ naming \in Nat /\ chg.seq \in Nat
    BY DEF NumbersHold, Handles
  <1>1. ASSUME NEW op, \A n : [op EXCEPT !.seq = n].seq = n
        PROVE  Handles(Add(chg, op)) /\ chg.seq <= Add(chg, op).seq
    BY <1>0, <1>1, AddHandles
  <1>2. ASSUME NEW id, NEW parent, NEW val, StageNewEntry(id, parent, val)
        PROVE  Handles(chg') /\ naming' \in Nat /\ chg.seq <= chg'.seq
    <2> DEFINE op == [Op("CreateEntry", Source, id) EXCEPT
                        !.parent = parent, !.after = [val |-> val, group |-> parent]]
    <2>1. \A n : [op EXCEPT !.seq = n].seq = n
      BY DEF Op
    <2> HIDE DEF op
    <2>2. Handles(Add(chg, op)) /\ chg.seq <= Add(chg, op).seq
      BY <1>1, <2>1
    <2>3. chg' = Add(chg, op) /\ naming' = naming
      BY <1>2 DEF StageNewEntry, Stage, Becomes, op
    <2>4. QED
      BY <1>0, <2>2, <2>3
  <1>3. ASSUME NEW id, NEW val, StageEdit(id, val)
        PROVE  Handles(chg') /\ naming' \in Nat /\ chg.seq <= chg'.seq
    <2> DEFINE after == [val |-> val, group |-> EditHome(id)]
               again == [Op("CreateEntry", Source, id) EXCEPT
                           !.parent = EditHome(id), !.after = after]
               edit  == [Op("EditEntry", Source, id) EXCEPT
                           !.before = LatestDraft(id), !.after = after]
    <2>1. /\ \A n : [again EXCEPT !.seq = n].seq = n
          /\ \A n : [edit EXCEPT !.seq = n].seq = n
      BY DEF Op
    <2>2. naming' = naming /\ (chg' = Add(chg, again) \/ chg' = Add(chg, edit))
      BY <1>3 DEF StageEdit, Stage, Becomes
    <2> HIDE DEF again, edit
    <2>3. /\ Handles(Add(chg, again)) /\ chg.seq <= Add(chg, again).seq
          /\ Handles(Add(chg, edit)) /\ chg.seq <= Add(chg, edit).seq
      BY <1>1, <2>1
    <2>4. QED
      BY <1>0, <2>2, <2>3
  <1>4. ASSUME NEW id, NEW val, StageRetitle(id, val)
        PROVE  Handles(chg') /\ naming' \in Nat /\ chg.seq <= chg'.seq
    <2> DEFINE before == IF StagedDraft(id) = None THEN FileDraft(id) ELSE None
               after  == [val |-> val, group |-> EditHome(id)]
               op     == [Op("EditEntry", Source, id) EXCEPT !.before = before, !.after = after]
    <2>1. \A n : [op EXCEPT !.seq = n].seq = n
      <3> HIDE DEF before, after
      <3>1. QED
        BY DEF Op
    <2>2. chg' = Add(chg, op) /\ naming' = naming
      BY <1>4 DEF StageRetitle, Stage, Becomes
    <2> HIDE DEF op
    <2>3. Handles(Add(chg, op)) /\ chg.seq <= Add(chg, op).seq
      BY <1>1, <2>1
    <2>4. QED
      BY <1>0, <2>2, <2>3
  <1>5. ASSUME NEW id, NEW name, StageRename(id, name)
        PROVE  Handles(chg') /\ naming' \in Nat /\ chg.seq <= chg'.seq
    <2> DEFINE op == [Op("RenameGroup", Source, id) EXCEPT !.name = name, !.was = view[id].data]
    <2>1. \A n : [op EXCEPT !.seq = n].seq = n
      BY DEF Op
    <2>2. chg' = Add(chg, op) /\ naming' = naming
      BY <1>5 DEF StageRename, Stage, Becomes
    <2> HIDE DEF op
    <2>3. Handles(Add(chg, op)) /\ chg.seq <= Add(chg, op).seq
      BY <1>1, <2>1
    <2>4. QED
      BY <1>0, <2>2, <2>3
  <1>6. ASSUME NEW id, NEW parent, OpenNewFolder(id, parent)
        PROVE  Handles(chg') /\ naming' \in Nat /\ chg.seq <= chg'.seq
    <2> DEFINE op == [Op("CreateGroup", Source, id) EXCEPT !.parent = parent, !.name = NewName]
    <2>1. \A n : [op EXCEPT !.seq = n].seq = n
      BY DEF Op
    <2>2. chg' = Add(chg, op) /\ naming' = chg'.seq
      BY <1>6 DEF OpenNewFolder, Becomes
    <2> HIDE DEF op
    <2>3. Handles(Add(chg, op)) /\ chg.seq <= Add(chg, op).seq
      BY <1>1, <2>1
    <2>4. QED
      BY <2>2, <2>3 DEF Handles
  <1>7. ASSUME NEW name, NameNewFolder(name)
        PROVE  Handles(chg') /\ naming' \in Nat /\ chg.seq <= chg'.seq
    <2> DEFINE made == CHOOSE op \in chg.ops : op.seq = naming
               op == [Op("RenameGroup", Source, made.target) EXCEPT
                        !.name = name, !.was = NewName]
    <2>1. \A n : [op EXCEPT !.seq = n].seq = n
      <3> HIDE DEF made
      <3>1. QED
        BY DEF Op
    <2>2. naming' = 0 /\ (chg' = chg \/ chg' = Add(chg, op))
      BY <1>7 DEF NameNewFolder, Becomes
    <2> HIDE DEF op
    <2>3. Handles(Add(chg, op)) /\ chg.seq <= Add(chg, op).seq
      BY <1>1, <2>1
    <2>4. QED
      BY <1>0, <2>2, <2>3
  <1>8. CASE AbandonNewFolder
    BY <1>0, <1>8, RevertHandles DEF AbandonNewFolder, Becomes
  <1>9. ASSUME NEW id, NEW dest, StageMove(id, dest)
        PROVE  Handles(chg') /\ naming' \in Nat /\ chg.seq <= chg'.seq
    <2> DEFINE kind == IF IsEntry(id) THEN "MoveEntry" ELSE "MoveGroup"
               op == [Op(kind, Source, id) EXCEPT !.was = HomeOf(id), !.parent = dest]
    <2>1. \A n : [op EXCEPT !.seq = n].seq = n
      <3> HIDE DEF kind
      <3>1. QED
        BY DEF Op
    <2>2. chg' = Add(chg, op) /\ naming' = naming
      BY <1>9 DEF StageMove, Stage, Becomes
    <2> HIDE DEF op
    <2>3. Handles(Add(chg, op)) /\ chg.seq <= Add(chg, op).seq
      BY <1>1, <2>1
    <2>4. QED
      BY <1>0, <2>2, <2>3
  <1>10. ASSUME NEW id, NEW permanent, StageDelete(id, permanent)
        PROVE  Handles(chg') /\ naming' \in Nat /\ chg.seq <= chg'.seq
    <2> DEFINE perm == permanent \/ ~BinEnabled
               prev == StagedDeletion(id)
               back == IF prev = {} THEN chg ELSE Revert(chg, Latest(prev).seq)
               one  == [Op("DeleteEntry", Source, id) EXCEPT
                          !.before = FileDraft(id), !.perm = perm]
               all  == [Op("DeleteGroup", Source, id) EXCEPT !.perm = perm]
               rest == DropDeletionsUnder(back, id)
    <2>1. Handles(back) /\ back.seq = chg.seq
      BY <1>0, RevertHandles
    <2>2. /\ \A n : [one EXCEPT !.seq = n].seq = n
          /\ \A n : [all EXCEPT !.seq = n].seq = n
      <3> HIDE DEF perm
      <3>1. QED
        BY DEF Op
    <2>3. /\ naming' = naming
          /\ chg' = back \/ chg' = Add(back, one) \/ chg' = Add(rest, all)
      BY <1>10 DEF StageDelete, Stage, Becomes
    <2> HIDE DEF back, one, all
    <2>4. Handles(rest) /\ rest.seq = chg.seq
      BY <2>1, DropUnderHandles
    <2> HIDE DEF rest
    <2>5. Handles(Add(back, one)) /\ Add(back, one).seq = chg.seq + 1
      BY <2>1, <2>2, AddHandles
    <2>6. Handles(Add(rest, all)) /\ Add(rest, all).seq = chg.seq + 1
      BY <2>2, <2>4, AddHandles
    <2>7. QED
      BY <1>0, <2>1, <2>3, <2>5, <2>6
  <1>11. ASSUME NEW id, Undo(id)
         PROVE  Handles(chg') /\ naming' \in Nat /\ chg.seq <= chg'.seq
    <2>1. chg' = RevertTarget(chg, id) /\ naming' = naming
      BY <1>11 DEF Undo, Stage, Becomes
    <2>2. QED
      BY <1>0, <2>1, RevertHandles
  <1>12. CASE Save
    <2>1. chg' = EmptySet /\ naming' = 0
      BY <1>12 DEF Save
    <2>2. Handles(EmptySet)
      BY DEF EmptySet, Handles
    <2>3. QED
      BY <2>1, <2>2 DEF StartsOver
  <1>13. CASE UNCHANGED vars
    BY <1>0, <1>13 DEF vars
  <1>14. QED
    BY <1>2, <1>3, <1>4, <1>5, <1>6, <1>7, <1>8, <1>9, <1>10, <1>11, <1>12, <1>13 DEF Next

(* However many changes are staged, reverted and saved, a number names one  *)
(* operation: what inlineNewSeq and a row of the Changes tab hold on to     *)
(* never comes to mean another.                                             *)
THEOREM NumbersAreHandles == Spec => []SeqsAreHandles
  <1>1. NumbersHold => SeqsAreHandles
    BY DEF NumbersHold, Handles, SeqsAreHandles
  <1>2. NumbersHold /\ [Next]_vars => NumbersHold'
    BY NumbersStep
  <1>3. QED
    BY NumbersInit, <1>1, <1>2, PTL DEF Spec

(* No step gives a number back while anything that could hold on to it is   *)
(* left: the count starts over only with the empty set a save leaves.       *)
THEOREM NumbersAreNotReused == Spec => [][chg.seq <= chg'.seq \/ StartsOver]_vars
  <1>1. NumbersHold /\ [Next]_vars => NumbersHold'
    BY NumbersStep
  <1>2. NumbersHold /\ [Next]_vars => [chg.seq <= chg'.seq \/ StartsOver]_vars
    BY NumbersStep
  <1>3. QED
    BY NumbersInit, <1>1, <1>2, PTL DEF Spec

-----------------------------------------------------------------------------
(* What else is true of the staged set between two keys.                   *)

(* What can be said of one operation of a set that is staged over `tree`:   *)
(* its target is an entry's or a folder's; a creation is of something the   *)
(* file does not know, nor a bin made by a save; a deletion is put nowhere, *)
(* is for good if there is no bin, and remembers no other folder than the  *)
(* one the file has the entry in.                                          *)
Fits(tree, op) ==
  /\ Shaped(op)
  /\ op.target \in Ids
  /\ op.kind \in CreateKinds => op.target \notin Live(tree) \cup tree.tombs \cup Bins
  /\ op.kind \in DeleteKinds =>
       /\ op.parent = None /\ (op.perm \/ BinEnabled)
       /\ op.before # None => op.before.group = tree.node[op.target].home

(* Where an operation can put things: into a folder of the file or of the   *)
(* log, or where its own draft says.                                       *)
Lies(tree, ops, op) ==
  \/ op.parent \in {None, Root} \cup Live(tree) \cup Targets(OfKind(ops, CreateKinds))
  \/ op.kind = "CreateEntry" /\ op.after.group = op.parent

(* The part of the inductive invariant that is about the log.              *)
Sane(tree, set) ==
  /\ \A op \in set.ops : Fits(tree, op) /\ Lies(tree, set.ops, op)
  /\ \A op, other \in OfKind(set.ops, DeleteKinds) : op.target = other.target => op = other

(* A sane set is a log in the sense of EditSetProofs.                      *)
LEMMA SaneIsLog ==
  ASSUME NEW tree, NEW set, Handles(set), Sane(tree, set)
  PROVE  Log(set.ops)
  <1>1. Numbered(set.ops)
    <2>1. \A op \in set.ops : op.seq \in 0 .. set.seq
      BY DEF Handles
    <2>2. QED
      BY <2>1 DEF Handles, Numbered
  <1>2. QED
    BY <1>1 DEF Log, Sane, Fits

(* Stamping an operation changes its number and nothing else.              *)
LEMMA Stamped ==
  ASSUME NEW op, Shaped(op), NEW n
  PROVE  LET new == [op EXCEPT !.seq = n]
         IN  /\ Shaped(new)
             /\ new.seq = n /\ new.kind = op.kind /\ new.target = op.target
             /\ new.parent = op.parent /\ new.before = op.before /\ new.after = op.after
             /\ new.was = op.was /\ new.perm = op.perm
             /\ new.name = op.name /\ new.source = op.source
  <1>1. PICK a, b, c, d, e, f, g, h, i, j :
          op = [seq |-> a, kind |-> b, source |-> c, target |-> d, parent |-> e, name |-> f,
                was |-> g, before |-> h, after |-> i, perm |-> j]
    BY Zenon DEF Shaped
  <1>2. [op EXCEPT !.seq = n] =
          [seq |-> n, kind |-> b, source |-> c, target |-> d, parent |-> e, name |-> f,
           was |-> g, before |-> h, after |-> i, perm |-> j]
    BY <1>1
  <1>3. PICK new : new = [op EXCEPT !.seq = n]
    OBVIOUS
  <1>4. /\ Shaped(new)
        /\ new.seq = n /\ new.kind = op.kind /\ new.target = op.target
        /\ new.parent = op.parent /\ new.before = op.before /\ new.after = op.after
        /\ new.was = op.was /\ new.perm = op.perm
        /\ new.name = op.name /\ new.source = op.source
    BY <1>1, <1>2, <1>3 DEF Shaped
  <1>5. QED
    BY <1>3, <1>4

(* Staging one more operation, which is no second deletion.                *)
LEMMA SaneAdd ==
  ASSUME NEW tree, NEW set, Sane(tree, set), NEW op,
         Fits(tree, op), Lies(tree, set.ops, op),
         op.kind \in DeleteKinds =>
           \A other \in OfKind(set.ops, DeleteKinds) : other.target # op.target
  PROVE  Sane(tree, Add(set, op))
  <1> DEFINE new == [op EXCEPT !.seq = set.seq + 1]
  <1>1. Add(set, op).ops = set.ops \cup {new}
    BY DEF Add
  <1>2. /\ Shaped(new) /\ new.kind = op.kind /\ new.target = op.target /\ new.perm = op.perm
        /\ new.parent = op.parent /\ new.before = op.before /\ new.after = op.after
    BY Stamped DEF Fits
  <1> HIDE DEF new
  <1>3. Targets(OfKind(set.ops, CreateKinds)) \subseteq Targets(OfKind(set.ops \cup {new}, CreateKinds))
    BY DEF Targets, OfKind
  <1>4. Fits(tree, new) /\ Lies(tree, set.ops \cup {new}, new)
    BY <1>2, <1>3 DEF Fits, Lies
  <1>5. \A other \in set.ops : Fits(tree, other) /\ Lies(tree, set.ops \cup {new}, other)
    BY <1>3 DEF Sane, Lies
  <1>6. \A a, b \in OfKind(set.ops \cup {new}, DeleteKinds) : a.target = b.target => a = b
    BY <1>2 DEF Sane, OfKind
  <1>7. QED
    BY <1>1, <1>4, <1>5, <1>6 DEF Sane

(* Dropping anything but creations.                                        *)
LEMMA SaneFilter ==
  ASSUME NEW tree, NEW set, Handles(set), Sane(tree, set), NEW some \in SUBSET set.ops,
         OfKind(set.ops, CreateKinds) \subseteq some
  PROVE  Sane(tree, [set EXCEPT !.ops = some])
  <1>1. [set EXCEPT !.ops = some].ops = some
    BY DEF Handles
  <1>2. OfKind(some, CreateKinds) = OfKind(set.ops, CreateKinds)
    BY DEF OfKind
  <1>3. QED
    BY <1>1, <1>2 DEF Sane, Lies, OfKind

(* What was staged into a creation does not outlive it: after anything is   *)
(* taken back, an operation that is left names as its parent no creation    *)
(* that is gone.                                                           *)
LEMMA NothingOutlivesItsFolder ==
  ASSUME NEW set, Handles(set), NEW undone, NEW op \in Without(set, undone).ops,
         op.parent \in Targets(OfKind(set.ops, CreateKinds))
  PROVE  op.parent \in Targets(OfKind(Without(set, undone).ops, CreateKinds))
  <1> DEFINE born == Targets(OfKind(undone, CreateKinds))
             gone == IF born = {} THEN {} ELSE Grow(set.ops, born)
             some == {other \in set.ops \ undone : other.target \notin gone /\ other.parent \notin gone}
  <1>1. Without(set, undone).ops = some
    BY DEF Without, Handles
  <1>2. PICK c \in OfKind(set.ops, CreateKinds) : c.target = op.parent
    BY DEF Targets
  <1>3. op.parent \notin gone
    BY <1>1
  <1>4. born \subseteq gone
    BY GrowIsClosed
  <1>5. c.parent \in gone => c.target \in gone
    BY GrowIsClosed
  <1> HIDE DEF gone
  <1>6. c \notin undone
    BY <1>2, <1>3, <1>4 DEF Targets, OfKind
  <1>7. c \in some
    BY <1>2, <1>3, <1>5, <1>6 DEF OfKind
  <1> HIDE DEF some
  <1>8. QED
    BY <1>1, <1>2, <1>7 DEF Targets, OfKind

(* Taking anything back.                                                   *)
LEMMA SaneWithout ==
  ASSUME NEW tree, NEW set, Handles(set), Sane(tree, set), NEW undone
  PROVE  /\ Sane(tree, Without(set, undone))
         /\ Without(set, undone).ops \subseteq set.ops \ undone
  <1>1. Without(set, undone).ops \subseteq set.ops \ undone
    BY DEF Without, Handles
  <1>2. PICK left : left = Without(set, undone).ops
    OBVIOUS
  <1>3. ASSUME NEW op \in left PROVE Lies(tree, left, op)
    BY <1>1, <1>2, NothingOutlivesItsFolder DEF Sane, Lies
  <1>4. QED
    BY <1>1, <1>2, <1>3 DEF Sane, OfKind

-----------------------------------------------------------------------------
(* What the keys read.                                                     *)

(* The inductive invariant: a sane set, a creation that is being named in   *)
(* it, and a reduction and a projection that are the current ones.         *)
Current ==
  /\ NumbersHold
  /\ Sane(file, chg)
  /\ naming # 0 => \E made \in OfKind(chg.ops, {"CreateGroup"}) : made.seq = naming
  /\ red = Effective(chg.ops)
  /\ view = Project(file, red)

(* The rows are the file's and the session's.                              *)
LEMMA RowsShown ==
  ASSUME Current
  PROVE  /\ Log(chg.ops)
         /\ DOMAIN view = (Live(file) \ {Root}) \cup Targets(OfKind(Members(red), CreateKinds))
         /\ Targets(OfKind(Members(red), CreateKinds)) \subseteq Targets(OfKind(chg.ops, CreateKinds))
  <1>1. Log(chg.ops)
    BY SaneIsLog DEF Current, NumbersHold
  <1>2. DOMAIN view = (Live(file) \ {Root}) \cup Targets(OfKind(Members(red), CreateKinds))
    BY DEF Current, Project
  <1>3. ASSUME NEW t \in Targets(OfKind(Members(red), CreateKinds))
        PROVE  t \in Targets(OfKind(chg.ops, CreateKinds))
    <2>1. PICK r \in Members(red) : r.kind \in CreateKinds /\ r.target = t
      BY DEF Targets, OfKind
    <2>2. \E op \in OfKind(chg.ops, CreateKinds) : op.target = r.target
      BY <1>1, <2>1, EffectiveWasStaged DEF Current
    <2>3. QED
      BY <2>1, <2>2 DEF Targets
  <1>4. QED
    BY <1>1, <1>2, <1>3

(* What a row starts from, what is staged over it, and the moves of it that *)
(* are shown.                                                              *)
RowBase(id) ==
  IF id \in Targets(OfKind(Members(red), CreateKinds))
  THEN Born(Latest(Staged(CreateKinds, id, red)))
  ELSE Filed(file.node[id])
RowEdits(id)  == Staged({"EditEntry"}, id, red)
RowTitles(id) == Staged({"RenameGroup"}, id, red)
RowMoves(id)  == {m \in Staged(MoveKinds, id, red) : m.kind = "MoveGroup" \/ m.parent \in DOMAIN view}

(* A row as the projection puts it together.                               *)
LEMMA RowIs ==
  ASSUME Current, NEW id \in DOMAIN view
  PROVE  /\ view[id].home = IF RowMoves(id) = {} THEN RowBase(id).home ELSE Latest(RowMoves(id)).parent
         /\ RowTitles(id) = {} =>
              view[id].data = IF RowEdits(id) # {} THEN Latest(RowEdits(id)).after.val ELSE RowBase(id).data
         /\ RowEdits(id) = {} =>
              view[id].data = IF RowTitles(id) # {} THEN Latest(RowTitles(id)).name ELSE RowBase(id).data
  <1>1. DOMAIN view = (Live(file) \ {Root}) \cup Targets(OfKind(Members(red), CreateKinds))
    BY RowsShown
  <1>2. view[id] = [home |-> RowHome(RowBase(id), RowEdits(id), RowMoves(id)),
                    data |-> CASE RowEdits(id) # {}  -> Latest(RowEdits(id)).after.val
                               [] RowTitles(id) # {} -> Latest(RowTitles(id)).name
                               [] OTHER -> RowBase(id).data]
    <2>1. view = Project(file, red)
      BY DEF Current
    <2>2. QED
      BY ONLY <1>1, <2>1, id \in DOMAIN view, Zenon
         DEF Project, RowBase, RowEdits, RowTitles, RowMoves
  <1>3. QED
    BY <1>2 DEF RowHome

(* A row that was not created or moved in the session is where the file     *)
(* has it.                                                                 *)
LEMMA UnmovedIsAtHome ==
  ASSUME Current, NEW id \in DOMAIN view,
         \A r \in Members(red) : r.target = id => r.kind \notin MoveKinds \cup CreateKinds
  PROVE  HomeOf(id) = file.node[id].home
  <1>1. id \notin Targets(OfKind(Members(red), CreateKinds))
    BY DEF Targets, OfKind
  <1>2. Staged(MoveKinds, id, red) = {}
    BY DEF Staged, OfKind, On
  <1>3. HomeOf(id) = view[id].home
    BY DEF HomeOf
  <1>4. view[id].home = Filed(file.node[id]).home
    BY <1>1, <1>2 DEF Current, Project, RowHome
  <1>5. QED
    BY <1>3, <1>4 DEF Filed

(* What is marked new was created in the session.                          *)
LEMMA NewWasCreated ==
  ASSUME NEW eff, NEW id, StateOf(eff, id) = "New"
  PROVE  id \in Targets(OfKind(Members(eff), CreateKinds))
  <1>1. SUFFICES OfKind(On(Members(eff), id), CreateKinds) # {}
    BY DEF OfKind, On, Targets
  <1>2. QED
    BY DEF StateOf

(* The operation of a key, once its fields are known, is one more.         *)
LEMMA SaneKey ==
  ASSUME Current, NEW op,
         op = [seq |-> 0, kind |-> op.kind, source |-> Source, target |-> op.target,
               parent |-> op.parent, name |-> op.name, was |-> op.was,
               before |-> op.before, after |-> op.after, perm |-> op.perm],
         op.target \in Ids, op.kind \notin DeleteKinds,
         op.kind \in CreateKinds => op.target \notin Live(file) \cup file.tombs \cup Bins,
         \/ op.parent \in {None, Root} \cup DOMAIN view
         \/ op.kind = "CreateEntry" /\ op.after.group = op.parent
  PROVE  Sane(file, Add(chg, op))
  <1>1. Fits(file, op)
    <2>1. PICK b, d, e, f, g, h, i, j :
            op = [seq |-> 0, kind |-> b, source |-> Source, target |-> d, parent |-> e, name |-> f,
                  was |-> g, before |-> h, after |-> i, perm |-> j]
      BY Zenon
    <2>2. Shaped(op)
      BY <2>1 DEF Shaped
    <2>3. QED
      BY <2>2 DEF Fits
  <1>2. Lies(file, chg.ops, op)
    BY RowsShown DEF Lies
  <1>3. QED
    BY <1>1, <1>2, SaneAdd DEF Current

(* The keys that stage a creation, an edit, a rename or a move.            *)
LEMMA SaneStaging ==
  ASSUME Current
  PROVE  /\ \A id \in Entries : \A parent, val : StageNewEntry(id, parent, val) => Sane(file, chg')
         /\ \A id \in Entries : \A val : StageEdit(id, val) => Sane(file, chg')
         /\ \A id \in Entries : \A val : StageRetitle(id, val) => Sane(file, chg')
         /\ \A id \in Folders : \A name : StageRename(id, name) => Sane(file, chg')
         /\ \A id \in Folders : \A parent : OpenNewFolder(id, parent) => Sane(file, chg')
         /\ \A id \in Ids : \A dest : StageMove(id, dest) => Sane(file, chg')
  <1>1. ASSUME NEW id \in Entries, NEW parent, NEW val, StageNewEntry(id, parent, val)
        PROVE  Sane(file, chg')
    <2> DEFINE after == [val |-> val, group |-> parent]
    <2>0. PICK op : op = [Op("CreateEntry", Source, id) EXCEPT !.parent = parent, !.after = after]
      OBVIOUS
    <2>1. op = [seq |-> 0, kind |-> "CreateEntry", source |-> Source, target |-> id,
                parent |-> parent, name |-> None, was |-> None, before |-> None,
                after |-> after, perm |-> FALSE]
      BY <2>0 DEF Op
    <2>2. chg' = Add(chg, op)
      BY <2>0, <1>1 DEF StageNewEntry, Stage, Becomes
    <2>3. id \notin Live(file) \cup file.tombs \cup Bins /\ parent \in {None, Root} \cup DOMAIN view /\ id \in Ids
      BY <1>1 DEF StageNewEntry, Fresh, Has, Ids
    <2>4. QED
      BY <2>1, <2>2, <2>3, SaneKey DEF DeleteKinds
  <1>2. ASSUME NEW id \in Entries, NEW val, StageEdit(id, val)
        PROVE  Sane(file, chg')
    <2> DEFINE home  == EditHome(id)
               after == [val |-> val, group |-> home]
               old   == LatestDraft(id)
    <2>0. PICK again, edit :
            /\ again = [Op("CreateEntry", Source, id) EXCEPT !.parent = home, !.after = after]
            /\ edit  = [Op("EditEntry", Source, id) EXCEPT !.before = old, !.after = after]
      OBVIOUS
    <2>1. \/ chg' = Add(chg, again) /\ StateOf(red, id) = "New"
          \/ chg' = Add(chg, edit)
      BY <2>0, <1>2 DEF StageEdit, Stage, Becomes
    <2>2. id \in Ids
      BY DEF Ids
    <2> HIDE DEF home, old, after
    <2>3. again = [seq |-> 0, kind |-> "CreateEntry", source |-> Source, target |-> id,
                   parent |-> home, name |-> None, was |-> None, before |-> None,
                   after |-> after, perm |-> FALSE]
      BY <2>0 DEF Op
    <2>4. edit = [seq |-> 0, kind |-> "EditEntry", source |-> Source, target |-> id,
                  parent |-> None, name |-> None, was |-> None, before |-> old,
                  after |-> after, perm |-> FALSE]
      BY <2>0 DEF Op
    <2>5. after.group = home
      BY DEF after
    <2>6. ASSUME StateOf(red, id) = "New" PROVE Sane(file, Add(chg, again))
      <3>1. id \notin Live(file) \cup file.tombs \cup Bins
        BY <2>6, NewWasCreated, RowsShown DEF Current, Sane, Fits, Targets, OfKind
      <3>2. QED
        BY <2>2, <2>3, <2>5, <3>1, SaneKey DEF DeleteKinds
    <2>7. Sane(file, Add(chg, edit))
      BY <2>2, <2>4, SaneKey DEF DeleteKinds, CreateKinds
    <2>8. QED
      BY <2>1, <2>6, <2>7
  <1>3. ASSUME NEW id \in Entries, NEW val, StageRetitle(id, val)
        PROVE  Sane(file, chg')
    <2> DEFINE before == IF StagedDraft(id) = None THEN FileDraft(id) ELSE None
               after  == [val |-> val, group |-> EditHome(id)]
    <2>0. PICK op : op = [Op("EditEntry", Source, id) EXCEPT !.before = before, !.after = after]
      OBVIOUS
    <2>1. chg' = Add(chg, op)
      BY <2>0, <1>3 DEF StageRetitle, Stage, Becomes
    <2> HIDE DEF before, after
    <2>2. op = [seq |-> 0, kind |-> "EditEntry", source |-> Source, target |-> id,
                parent |-> None, name |-> None, was |-> None, before |-> before,
                after |-> after, perm |-> FALSE]
      BY <2>0 DEF Op
    <2>3. id \in Ids
      BY DEF Ids
    <2>4. QED
      BY <2>1, <2>2, <2>3, SaneKey DEF DeleteKinds, CreateKinds
  <1>4. ASSUME NEW id \in Folders, NEW name, StageRename(id, name)
        PROVE  Sane(file, chg')
    <2> DEFINE was == view[id].data
    <2>0. PICK op : op = [Op("RenameGroup", Source, id) EXCEPT !.name = name, !.was = was]
      OBVIOUS
    <2>1. chg' = Add(chg, op)
      BY <2>0, <1>4 DEF StageRename, Stage, Becomes
    <2> HIDE DEF was
    <2>2. op = [seq |-> 0, kind |-> "RenameGroup", source |-> Source, target |-> id,
                parent |-> None, name |-> name, was |-> was, before |-> None,
                after |-> None, perm |-> FALSE]
      BY <2>0 DEF Op
    <2>3. id \in Ids
      BY DEF Ids
    <2>4. QED
      BY <2>1, <2>2, <2>3, SaneKey DEF DeleteKinds, CreateKinds
  <1>5. ASSUME NEW id \in Folders, NEW parent, OpenNewFolder(id, parent)
        PROVE  Sane(file, chg')
    <2>0. PICK op : op = [Op("CreateGroup", Source, id) EXCEPT !.parent = parent, !.name = NewName]
      OBVIOUS
    <2>1. op = [seq |-> 0, kind |-> "CreateGroup", source |-> Source, target |-> id,
                parent |-> parent, name |-> NewName, was |-> None, before |-> None,
                after |-> None, perm |-> FALSE]
      BY <2>0 DEF Op
    <2>2. chg' = Add(chg, op)
      BY <2>0, <1>5 DEF OpenNewFolder, Becomes
    <2>3. id \notin Live(file) \cup file.tombs \cup Bins /\ parent \in {None, Root} \cup DOMAIN view /\ id \in Ids
      BY <1>5 DEF OpenNewFolder, Fresh, Has, Ids
    <2>4. QED
      BY <2>1, <2>2, <2>3, SaneKey DEF DeleteKinds
  <1>6. ASSUME NEW id \in Ids, NEW dest, StageMove(id, dest)
        PROVE  Sane(file, chg')
    <2> DEFINE kind == IF IsEntry(id) THEN "MoveEntry" ELSE "MoveGroup"
               was  == HomeOf(id)
    <2>0. PICK op : op = [Op(kind, Source, id) EXCEPT !.was = was, !.parent = dest]
      OBVIOUS
    <2>1. chg' = Add(chg, op)
      BY <2>0, <1>6 DEF StageMove, Stage, Becomes
    <2>2. kind \notin DeleteKinds \cup CreateKinds
      BY DEF DeleteKinds, CreateKinds
    <2> HIDE DEF kind, was
    <2>3. op = [seq |-> 0, kind |-> kind, source |-> Source, target |-> id,
                parent |-> dest, name |-> None, was |-> was, before |-> None,
                after |-> None, perm |-> FALSE]
      BY <2>0 DEF Op
    <2>4. dest \in {None, Root} \cup DOMAIN view
      BY <1>6 DEF StageMove
    <2>5. QED
      BY <2>1, <2>2, <2>3, <2>4, SaneKey
  <1>7. QED
    BY <1>1, <1>2, <1>3, <1>4, <1>5, <1>6

-----------------------------------------------------------------------------
(* Deleting.                                                               *)

(* What is staged over this file is an entry's or a folder's, and the empty *)
(* id is neither.                                                          *)
LEMMA TargetsAreIds ==
  ASSUME Current
  PROVE  /\ Targets(chg.ops) \subseteq Ids
         /\ Targets(Members(red)) \subseteq Ids
         /\ None \notin Ids
  <1>1. Targets(chg.ops) \subseteq Ids
    BY DEF Current, Sane, Fits, Targets
  <1>2. \A r \in Members(red) : r.target \in Targets(chg.ops)
    BY RowsShown, EffectiveWasStaged DEF Current
  <1>3. QED
    BY <1>1, <1>2, StagingAssumption DEF Targets, Ids

(* A deletion that is in the log is found again by the next d or D on the   *)
(* row, unless the row is inside a folder that is going, where the key is   *)
(* refused: the reduction hides no deletion behind a row that can still be  *)
(* deleted.                                                                *)
LEMMA FoundIfStaged ==
  ASSUME Current, NEW id \in DOMAIN view, ~InDoomedFolder(id), StagedDeletion(id) = {},
         NEW d \in chg.ops, d.kind \in DeleteKinds, d.target = id
  PROVE  FALSE
  <1>1. /\ Log(chg.ops)
        /\ DOMAIN view = (Live(file) \ {Root}) \cup Targets(OfKind(Members(red), CreateKinds))
        /\ red = Effective(chg.ops)
    BY RowsShown DEF Current
  <1>2. d \in OfKind(On(chg.ops, id), DeleteKinds)
    BY DEF OfKind, On
  <1>3. CASE id \in Targets(OfKind(chg.ops, CreateKinds))
    <2>1. id \notin Targets(Members(red))
      BY <1>1, <1>2, <1>3, CreatedAndDeleted
    <2>2. id \in Live(file)
      BY <1>1, <2>1 DEF Targets, OfKind
    <2>3. QED
      BY <1>3, <2>2 DEF Current, Sane, Fits, Targets, OfKind
  <1>4. CASE id \notin Targets(OfKind(chg.ops, CreateKinds))
    <2>1. d = Latest(OfKind(On(chg.ops, id), DeleteKinds))
      <3>1. \A other \in OfKind(On(chg.ops, id), DeleteKinds) : other = d
        BY DEF Current, Sane, OfKind, On
      <3>2. Log(OfKind(On(chg.ops, id), DeleteKinds))
        BY <1>1, PartOfALog DEF OfKind, On
      <3>3. QED
        BY <1>2, <3>1, <3>2, LastIsOne
    <2>2. d.parent \notin Targets(OfKind(chg.ops, CreateKinds))
      BY TargetsAreIds DEF Current, Sane, Fits, Targets, OfKind
    <2>3. /\ \/ d \in Members(red)
             \/ /\ d.before # None
                /\ d.before.group \in Targets(OfKind(Members(red), {"DeleteGroup"}))
          /\ \A r \in Members(red) : r.target = id => r.kind \notin MoveKinds \cup CreateKinds
      <3>1. OfKind(On(chg.ops, id), DeleteKinds) # {}
        BY <1>2
      <3>2. QED
        BY <1>1, <1>4, <2>1, <2>2, <3>1, DeletionStays
    <2>4. d \notin Members(red)
      BY <1>2 DEF StagedDeletion, Staged, OfKind, On
    <2>5. HomeOf(id) = file.node[id].home
      BY <2>3, UnmovedIsAtHome
    <2>6. HomeOf(id) \in DoomedFolders
      BY <2>3, <2>4, <2>5 DEF Current, Sane, Fits, DoomedFolders
    <2>7. HomeOf(id) # None
      BY <2>6, TargetsAreIds DEF DoomedFolders, Targets, OfKind
    <2>8. HomeOf(id) \in Chain(HomeOf(id))
      BY <2>7 DEF Chain
    <2>9. QED
      BY <2>6, <2>8 DEF InDoomedFolder
  <1>5. QED
    BY <1>3, <1>4

(* Once d or D has taken back the deletion it found, none of that target is *)
(* left.                                                                   *)
LEMMA NoneIsLeft ==
  ASSUME Current, NEW id \in DOMAIN view, ~InDoomedFolder(id),
         NEW back, back = IF StagedDeletion(id) = {} THEN chg
                          ELSE Revert(chg, Latest(StagedDeletion(id)).seq)
  PROVE  /\ Handles(back) /\ Sane(file, back)
         /\ \A other \in OfKind(back.ops, DeleteKinds) : other.target # id
  <1>1. Handles(chg) /\ Sane(file, chg) /\ Log(chg.ops) /\ red = Effective(chg.ops)
    BY RowsShown DEF Current, NumbersHold
  <1>2. CASE StagedDeletion(id) = {}
    <2>1. back = chg
      BY <1>2
    <2>2. \A other \in OfKind(chg.ops, DeleteKinds) : other.target # id
      BY <1>2, FoundIfStaged DEF OfKind
    <2>3. QED
      BY <1>1, <2>1, <2>2
  <1>3. CASE StagedDeletion(id) # {}
    <2>1. PICK d \in StagedDeletion(id) : TRUE
      BY <1>3
    <2>2. ASSUME NEW r \in StagedDeletion(id)
          PROVE  r \in OfKind(chg.ops, DeleteKinds) /\ r.target = id
      <3>1. r \in Members(red) /\ r.kind \in DeleteKinds /\ r.target = id
        BY DEF StagedDeletion, Staged, OfKind, On
      <3>2. r \in chg.ops
        BY <1>1, <3>1, EffectiveWasStaged
      <3>3. QED
        BY <3>1, <3>2 DEF OfKind
    <2>3. \A other \in OfKind(chg.ops, DeleteKinds) : other.target = id => other = d
      BY <1>1, <2>1, <2>2 DEF Sane
    <2>4. StagedDeletion(id) = {d}
      BY <2>1, <2>2, <2>3
    <2>5. Latest(StagedDeletion(id)) = d
      <3>1. Log({d})
        BY <1>1, <2>1, <2>2, PartOfALog DEF OfKind
      <3>2. QED
        BY <2>4, <3>1, LastIsOne
    <2>6. back = Revert(chg, d.seq)
      BY <1>3, <2>5
    <2> DEFINE undone == {op \in chg.ops : op.seq = d.seq}
    <2>7. back = Without(chg, undone)
      BY <2>6 DEF Revert
    <2>8. d \in undone
      BY <2>1, <2>2 DEF OfKind
    <2> HIDE DEF undone
    <2>9. Handles(back) /\ Sane(file, back) /\ back.ops \subseteq chg.ops \ undone
      BY <1>1, <2>7, SaneWithout, WithoutHandles
    <2>10. QED
      BY <2>3, <2>8, <2>9 DEF OfKind
  <1>4. QED
    BY <1>2, <1>3

(* dropDeletionsUnder drops deletions and nothing else.                    *)
LEMMA SaneDropUnder ==
  ASSUME NEW set, Handles(set), Sane(file, set), NEW folder
  PROVE  /\ Sane(file, DropDeletionsUnder(set, folder))
         /\ DropDeletionsUnder(set, folder).ops \subseteq set.ops
         /\ \A op \in set.ops : op.kind \notin DeleteKinds => op \in DropDeletionsUnder(set, folder).ops
  <1> DEFINE under == {op \in Members(Effective(set.ops)) :
                         op.kind \in DeleteKinds /\ op.target \in Under(folder)}
             some == {op \in set.ops : \A u \in under : op.seq # u.seq}
  <1>1. DropDeletionsUnder(set, folder) = [set EXCEPT !.ops = some]
    BY DEF DropDeletionsUnder
  <1>2. [set EXCEPT !.ops = some].ops = some
    BY DEF Handles
  <1>3. \A u \in under : u \in set.ops /\ u.kind \in DeleteKinds
    BY SaneIsLog, EffectiveWasStaged
  <1>4. \A op \in set.ops : op.kind \notin DeleteKinds => op \in some
    <2> HIDE DEF under
    <2>1. QED
      BY <1>3 DEF Handles
  <1>5. OfKind(set.ops, CreateKinds) \subseteq some /\ some \in SUBSET set.ops
    <2>1. \A c \in OfKind(set.ops, CreateKinds) : c \in set.ops /\ c.kind \notin DeleteKinds
      BY DEF OfKind, CreateKinds, DeleteKinds
    <2> HIDE DEF under
    <2>2. some \in SUBSET set.ops
      OBVIOUS
    <2> HIDE DEF some
    <2>3. QED
      BY <1>4, <2>1, <2>2
  <1> HIDE DEF some
  <1>6. QED
    BY <1>1, <1>2, <1>4, <1>5, SaneFilter

(* d and D, whichever of the four things they do.                          *)
LEMMA SaneDelete ==
  ASSUME Current, NEW id \in Ids, NEW permanent, StageDelete(id, permanent)
  PROVE  Sane(file, chg')
  <1> DEFINE perm   == permanent \/ ~BinEnabled
             before == FileDraft(id)
  <1>0. PICK back, one, all :
          /\ back = IF StagedDeletion(id) = {} THEN chg
                    ELSE Revert(chg, Latest(StagedDeletion(id)).seq)
          /\ one = [Op("DeleteEntry", Source, id) EXCEPT !.before = before, !.perm = perm]
          /\ all = [Op("DeleteGroup", Source, id) EXCEPT !.perm = perm]
    OBVIOUS
  <1>1. /\ id \in DOMAIN view /\ ~InDoomedFolder(id)
        /\ \/ chg' = back
           \/ chg' = Add(back, one)
           \/ chg' = Add(DropDeletionsUnder(back, id), all)
    BY <1>0 DEF StageDelete, Stage, Becomes
  <1>2. /\ Handles(back) /\ Sane(file, back)
        /\ \A other \in OfKind(back.ops, DeleteKinds) : other.target # id
    BY <1>0, <1>1, NoneIsLeft
  <1>3. before # None => before.group = file.node[id].home
    BY DEF FileDraft
  <1> HIDE DEF perm, before
  <1>4. /\ Shaped(one) /\ one.kind = "DeleteEntry" /\ one.target = id /\ one.parent = None
        /\ one.before = before /\ one.perm = perm
    BY <1>0 DEF Op, Shaped
  <1>5. /\ Shaped(all) /\ all.kind = "DeleteGroup" /\ all.target = id /\ all.parent = None
        /\ all.before = None /\ all.perm = perm
    BY <1>0 DEF Op, Shaped
  <1>6. Fits(file, one) /\ Fits(file, all)
    BY <1>3, <1>4, <1>5 DEF Fits, CreateKinds, perm
  <1>7. \A ops : Lies(file, ops, one) /\ Lies(file, ops, all)
    BY <1>4, <1>5 DEF Lies
  <1>8. Sane(file, Add(back, one))
    BY <1>2, <1>4, <1>6, <1>7, SaneAdd
  <1>9. Sane(file, Add(DropDeletionsUnder(back, id), all))
    <2>1. PICK rest : rest = DropDeletionsUnder(back, id)
      OBVIOUS
    <2>2. Sane(file, rest) /\ rest.ops \subseteq back.ops
      BY <1>2, <2>1, SaneDropUnder
    <2>3. \A other \in OfKind(rest.ops, DeleteKinds) : other.target # id
      BY <1>2, <2>2 DEF OfKind
    <2>4. Sane(file, Add(rest, all))
      BY <1>5, <1>6, <1>7, <2>2, <2>3, SaneAdd
    <2>5. QED
      BY <2>1, <2>4
  <1>10. QED
    BY <1>1, <1>2, <1>8, <1>9

-----------------------------------------------------------------------------
(* The session.                                                            *)

(* A session starts sane.                                                  *)
LEMMA CurrentInit == Init => Current
  <1> SUFFICES ASSUME Init PROVE Current
    OBVIOUS
  <1>1. /\ NumbersHold /\ chg.ops = {} /\ red = <<>> /\ view = Project(file, red)
        /\ naming = 0
    BY NumbersInit DEF Init, EmptySet
  <1>2. Sane(file, chg)
    BY <1>1 DEF Sane, OfKind
  <1>3. Effective(chg.ops) = <<>>
    <2>1. Log(chg.ops)
      BY <1>1, <1>2, SaneIsLog DEF NumbersHold
    <2>2. PICK eff : eff = Effective(chg.ops)
      OBVIOUS
    <2>3. Final(chg.ops) = {}
      <3>1. Reduction(chg.ops) = {}
        BY <1>1 DEF Reduction, Targets
      <3>2. QED
        BY <2>1, <3>1, EffectiveIsFinal
    <2>4. eff \in Seq({}) /\ Members(eff) = {}
      BY <2>1, <2>2, <2>3, EffectiveIsFinal DEF Sorted
    <2>5. eff = <<>>
      BY <2>4
    <2>6. QED
      BY <2>2, <2>5
  <1>4. QED
    BY <1>1, <1>2, <1>3 DEF Current

(* No key unsettles it, and a save starts over.                            *)
LEMMA CurrentStep ==
  ASSUME Current, [Next]_vars
  PROVE  Current'
  <1>1. NumbersHold'
    BY NumbersStep DEF Current
  <1>2. ASSUME NEW set, Sane(file, set), Becomes(set), naming' = 0 PROVE Current'
    <2>1. chg' = set /\ file' = file /\ Restage
      BY <1>2 DEF Becomes
    <2>2. Sane(file', chg')
      BY <1>2, <2>1
    <2>3. QED
      BY <1>1, <1>2, <2>1, <2>2 DEF Current, Restage
  <1>3. Handles(chg) /\ Sane(file, chg)
    BY DEF Current, NumbersHold
  <1>4. ASSUME Becomes(chg'), Sane(file, chg'), naming' = 0 PROVE Current'
    BY <1>2, <1>4
  <1>5. ASSUME NEW id \in Entries, NEW parent, NEW val, StageNewEntry(id, parent, val)
        PROVE  Current'
    <2>1. Becomes(chg') /\ naming' = 0
      BY <1>5 DEF StageNewEntry, Browsing, Stage, Becomes
    <2>2. QED
      BY <1>4, <1>5, <2>1, SaneStaging
  <1>6. ASSUME NEW id \in Entries, NEW val, StageEdit(id, val) PROVE Current'
    <2>1. Becomes(chg') /\ naming' = 0
      BY <1>6 DEF StageEdit, Browsing, Stage, Becomes
    <2>2. QED
      BY <1>4, <1>6, <2>1, SaneStaging
  <1>7. ASSUME NEW id \in Entries, NEW val, StageRetitle(id, val) PROVE Current'
    <2>1. Becomes(chg') /\ naming' = 0
      BY <1>7 DEF StageRetitle, Browsing, Stage, Becomes
    <2>2. QED
      BY <1>4, <1>7, <2>1, SaneStaging
  <1>8. ASSUME NEW id \in Folders, NEW name, StageRename(id, name) PROVE Current'
    <2>1. Becomes(chg') /\ naming' = 0
      BY <1>8 DEF StageRename, Browsing, Stage, Becomes
    <2>2. QED
      BY <1>4, <1>8, <2>1, SaneStaging
  <1>9. ASSUME NEW id \in Folders, NEW parent, OpenNewFolder(id, parent) PROVE Current'
    <2>0. PICK op : op = [Op("CreateGroup", Source, id) EXCEPT !.parent = parent, !.name = NewName]
      OBVIOUS
    <2>1. chg' = Add(chg, op) /\ file' = file /\ Restage /\ naming' = chg'.seq
      BY <1>9, <2>0 DEF OpenNewFolder, Becomes
    <2>2. Sane(file', chg')
      BY <1>9, <2>1, SaneStaging
    <2>3. Shaped(op) /\ op.kind = "CreateGroup"
      BY <2>0 DEF Op, Shaped
    <2>4. PICK new : new = [op EXCEPT !.seq = chg.seq + 1]
      OBVIOUS
    <2>5. new.seq = chg.seq + 1 /\ new.kind = "CreateGroup"
      BY <2>3, <2>4, Stamped
    <2>6. new \in chg'.ops /\ new.seq = chg'.seq
      BY <2>1, <2>4, <2>5 DEF Add
    <2>7. \E made \in OfKind(chg'.ops, {"CreateGroup"}) : made.seq = naming'
      BY <2>1, <2>5, <2>6 DEF OfKind
    <2>8. QED
      BY <1>1, <2>1, <2>2, <2>7 DEF Current, Restage
  <1>10. ASSUME NEW id \in Ids, NEW dest, StageMove(id, dest) PROVE Current'
    <2>1. Becomes(chg') /\ naming' = 0
      BY <1>10 DEF StageMove, Browsing, Stage, Becomes
    <2>2. QED
      BY <1>4, <1>10, <2>1, SaneStaging
  <1>11. ASSUME NEW id \in Ids, NEW permanent, StageDelete(id, permanent) PROVE Current'
    <2>1. Becomes(chg') /\ naming' = 0
      BY <1>11 DEF StageDelete, Browsing, Stage, Becomes
    <2>2. QED
      BY <1>4, <1>11, <2>1, SaneDelete
  <1>12. ASSUME NEW name, NameNewFolder(name) PROVE Current'
    <2>1. PICK made : made = CHOOSE op \in chg.ops : op.seq = naming
      OBVIOUS
    <2>2. made \in chg.ops
      BY <1>12, <2>1 DEF NameNewFolder, Current, OfKind
    <2>3. PICK op : op = [Op("RenameGroup", Source, made.target) EXCEPT !.name = name, !.was = NewName]
      OBVIOUS
    <2>4. naming' = 0 /\ (Becomes(chg) \/ Becomes(Add(chg, op)))
      BY <1>12, <2>1, <2>3 DEF NameNewFolder
    <2>5. op = [seq |-> 0, kind |-> "RenameGroup", source |-> Source, target |-> made.target,
                parent |-> None, name |-> name, was |-> NewName, before |-> None,
                after |-> None, perm |-> FALSE]
      BY <2>3 DEF Op
    <2>6. made.target \in Ids
      BY <1>3, <2>2 DEF Sane, Fits
    <2>7. Sane(file, Add(chg, op))
      BY <2>5, <2>6, SaneKey DEF DeleteKinds, CreateKinds
    <2>8. QED
      BY <1>2, <1>3, <2>4, <2>7
  <1>13. CASE AbandonNewFolder
    <2>1. Becomes(Revert(chg, naming)) /\ naming' = 0
      BY <1>13 DEF AbandonNewFolder
    <2>2. Sane(file, Revert(chg, naming))
      BY <1>3, SaneWithout DEF Revert
    <2>3. QED
      BY <1>2, <2>1, <2>2
  <1>14. ASSUME NEW id, Undo(id) PROVE Current'
    <2>1. Becomes(RevertTarget(chg, id)) /\ naming' = 0
      BY <1>14 DEF Undo, Stage
    <2>2. Sane(file, RevertTarget(chg, id))
      BY <1>3, SaneWithout DEF RevertTarget
    <2>3. QED
      BY <1>2, <2>1, <2>2
  <1>15. CASE Save
    <2>1. chg' = EmptySet /\ naming' = 0 /\ Restage
      BY <1>15 DEF Save
    <2>2. Sane(file', chg')
      BY <2>1 DEF EmptySet, Sane, OfKind
    <2>3. QED
      BY <1>1, <2>1, <2>2 DEF Current, Restage
  <1>16. CASE UNCHANGED vars
    BY <1>16 DEF vars, Current, NumbersHold
  <1>17. QED
    BY <1>5, <1>6, <1>7, <1>8, <1>9, <1>10, <1>11, <1>12, <1>13, <1>14, <1>15, <1>16 DEF Next

(* At most one deletion of a target is staged, whatever was staged, taken   *)
(* back, drowned in a deleted folder or saved in between: d and D replace   *)
(* or take back the one that is there.                                      *)
THEOREM DeletedOnce == Spec => []OneDeletionEach
  <1>1. Current => OneDeletionEach
    BY DEF Current, Sane, OneDeletionEach
  <1>2. Current /\ [Next]_vars => Current'
    BY CurrentStep
  <1>3. QED
    BY CurrentInit, <1>1, <1>2, PTL DEF Spec

(* No operation is staged into a folder that is neither in the file nor     *)
(* going to be, but for what a stale draft leads to.                       *)
THEOREM NothingIsOrphaned == Spec => []NoOrphans
  <1>1. Current => NoOrphans
    <2> SUFFICES ASSUME Current, NEW op \in chg.ops, ~Placed(op.parent) PROVE StaleReference
      BY DEF NoOrphans
    <2>1. op.kind = "CreateEntry" /\ op.after.group = op.parent
      BY DEF Current, Sane, Lies, Placed, Creations
    <2>2. QED
      BY <2>1 DEF StaleReference, OfKind
  <1>2. Current /\ [Next]_vars => Current'
    BY CurrentStep
  <1>3. QED
    BY CurrentInit, <1>1, <1>2, PTL DEF Spec

(* The folder being named stays in the log until its name is given or given *)
(* up, so enter renames the row the reader typed on and esc takes that row   *)
(* back.                                                                    *)
THEOREM NamedIsStaged ==
  Spec => [](naming # 0 => \E made \in OfKind(chg.ops, {"CreateGroup"}) : made.seq = naming)
  <1>1. Current => (naming # 0 => \E made \in OfKind(chg.ops, {"CreateGroup"}) : made.seq = naming)
    BY DEF Current
  <1>2. Current /\ [Next]_vars => Current'
    BY CurrentStep
  <1>3. QED
    BY CurrentInit, <1>1, <1>2, PTL DEF Spec

-----------------------------------------------------------------------------
(* The last word on an entry.                                              *)

(* Which kinds are about entries and which about folders; and an edit puts  *)
(* an entry nowhere.                                                       *)
Speaks(op) ==
  /\ op.kind \in {"CreateEntry", "EditEntry"} => op.target \in Entries
  /\ op.kind \in {"CreateGroup", "RenameGroup"} => op.target \in Folders
  /\ op.kind = "EditEntry" => op.parent = None

EditsOf(set, id) == OfKind(On(set.ops, id), {"EditEntry"})

(* The first edit of an entry of the file started from what the file holds. *)
FromFile(tree, op) ==
  op.before = IF FindEntry(tree, op.target)
              THEN [val |-> tree.node[op.target].data, group |-> tree.node[op.target].home]
              ELSE None

Worded(tree, set) ==
  /\ \A op \in set.ops : Speaks(op)
  /\ \A id \in Live(tree) : \A first \in EditsOf(set, id) :
       (\A other \in EditsOf(set, id) : first.seq <= other.seq) => FromFile(tree, first)

LEMMA WordedAdd ==
  ASSUME NEW tree, NEW set, Handles(set), Worded(tree, set), NEW op, Shaped(op), Speaks(op),
         op.kind = "EditEntry" /\ op.target \in Live(tree) /\ EditsOf(set, op.target) = {}
           => FromFile(tree, op)
  PROVE  Worded(tree, Add(set, op))
  <1>1. PICK new : new = [op EXCEPT !.seq = set.seq + 1]
    OBVIOUS
  <1>2. PICK all : all = Add(set, op)
    OBVIOUS
  <1>3. all.ops = set.ops \cup {new}
    BY <1>1, <1>2 DEF Add
  <1>4. /\ new.seq = set.seq + 1 /\ new.kind = op.kind /\ new.target = op.target
        /\ new.parent = op.parent /\ new.before = op.before
    BY <1>1, Stamped
  <1>5. Speaks(new)
    BY <1>4 DEF Speaks
  <1>6. ASSUME NEW id \in Live(tree), NEW first \in EditsOf(all, id),
               \A other \in EditsOf(all, id) : first.seq <= other.seq
        PROVE  FromFile(tree, first)
    <2>1. EditsOf(set, id) \subseteq EditsOf(all, id)
      BY <1>3 DEF EditsOf, OfKind, On
    <2>2. CASE first \in set.ops
      <3>1. first \in EditsOf(set, id)
        BY <2>2 DEF EditsOf, OfKind, On
      <3>2. QED
        BY <1>6, <2>1, <3>1 DEF Worded
    <2>3. CASE first = new
      <3>1. \A other \in set.ops : other.seq \in Nat /\ other.seq < new.seq
        BY <1>4 DEF Handles
      <3>2. EditsOf(set, id) = {}
        <4>1. \A other \in EditsOf(set, id) : other \in set.ops /\ new.seq <= other.seq
          BY <1>6, <2>1, <2>3 DEF EditsOf, OfKind, On
        <4>2. \A other \in EditsOf(set, id) : FALSE
          BY <1>4, <3>1, <4>1 DEF Handles
        <4>3. QED
          BY <4>2
      <3>3. op.kind = "EditEntry" /\ op.target = id
        BY <1>4, <2>3 DEF EditsOf, OfKind, On
      <3>4. QED
        BY <1>4, <2>3, <3>2, <3>3 DEF FromFile
    <2>4. QED
      BY <1>3, <2>2, <2>3 DEF EditsOf, OfKind, On
  <1>7. Worded(tree, all)
    BY <1>3, <1>5, <1>6 DEF Worded
  <1>8. QED
    BY <1>2, <1>7

(* Edits of one entry are taken back together.                             *)
LEMMA WordedLess ==
  ASSUME NEW tree, NEW set, Worded(tree, set), NEW left, left.ops \subseteq set.ops,
         \A e \in left.ops : e.kind = "EditEntry" => EditsOf(set, e.target) \subseteq left.ops
  PROVE  Worded(tree, left)
  <1>1. ASSUME NEW id \in Live(tree), NEW first \in EditsOf(left, id),
               \A other \in EditsOf(left, id) : first.seq <= other.seq
        PROVE  FromFile(tree, first)
    <2>1. first \in left.ops /\ first.kind = "EditEntry" /\ first.target = id
      BY DEF EditsOf, OfKind, On
    <2>2. EditsOf(set, id) \subseteq EditsOf(left, id)
      BY <2>1 DEF EditsOf, OfKind, On
    <2>3. first \in EditsOf(set, id)
      BY <2>1 DEF EditsOf, OfKind, On
    <2>4. QED
      BY <1>1, <2>2, <2>3 DEF Worded
  <1>2. QED
    BY <1>1 DEF Worded

LEMMA WordedWithout ==
  ASSUME NEW set, Handles(set), Sane(file, set), Worded(file, set), NEW undone \in SUBSET set.ops,
         \A e \in undone : e.kind = "EditEntry" => EditsOf(set, e.target) \subseteq undone
  PROVE  Worded(file, Without(set, undone))
  <1> DEFINE born == Targets(OfKind(undone, CreateKinds))
             gone == IF born = {} THEN {} ELSE Grow(set.ops, born)
             some == {op \in set.ops \ undone : op.target \notin gone /\ op.parent \notin gone}
  <1>1. Without(set, undone).ops = some
    BY DEF Without, Handles
  <1>2. None \notin gone
    <2>1. gone \subseteq born \cup Targets(OfKind(set.ops, CreateKinds))
      BY GrowIsClosed
    <2>2. born \cup Targets(OfKind(set.ops, CreateKinds)) \subseteq Targets(set.ops)
      BY DEF Targets, OfKind
    <2>3. Targets(set.ops) \subseteq Ids
      BY DEF Sane, Fits, Targets
    <2>4. None \notin Ids
      BY StagingAssumption DEF Ids
    <2> HIDE DEF gone, born
    <2>5. QED
      BY <2>1, <2>2, <2>3, <2>4
  <1> HIDE DEF gone
  <1>3. ASSUME NEW e \in some, e.kind = "EditEntry", NEW other \in EditsOf(set, e.target)
        PROVE  other \in some
    <2>1. other \in set.ops /\ other.kind = "EditEntry" /\ other.target = e.target
      BY DEF EditsOf, OfKind, On
    <2>2. other \notin undone
      <3>1. e \in EditsOf(set, other.target)
        BY <1>3, <2>1 DEF EditsOf, OfKind, On
      <3>2. QED
        BY <2>1, <3>1
    <2>3. other.parent = None
      BY <2>1 DEF Worded, Speaks
    <2>4. QED
      BY <1>2, <2>1, <2>2, <2>3
  <1>4. PICK left : left = Without(set, undone)
    OBVIOUS
  <1>5. left.ops \subseteq set.ops
    BY <1>1, <1>4
  <1>6. \A e \in left.ops : e.kind = "EditEntry" => EditsOf(set, e.target) \subseteq left.ops
    BY <1>1, <1>3, <1>4
  <1>7. Worded(file, left)
    BY <1>5, <1>6, WordedLess
  <1>8. QED
    BY <1>4, <1>7

(* An entry of the file that has not been edited has no draft staged over   *)
(* it, so its first edit starts from the file.                             *)
LEMMA FirstDraft ==
  ASSUME Current, NEW id \in Live(file), EditsOf(chg, id) = {}
  PROVE  StagedDraft(id) = None
  <1> DEFINE holding == Staged({"CreateEntry", "EditEntry"}, id, red)
  <1>1. Log(chg.ops) /\ red = Effective(chg.ops)
    BY RowsShown DEF Current
  <1>2. ASSUME NEW r \in holding PROVE FALSE
    <2>1. r \in Members(red) /\ r.target = id /\ r.kind \in {"CreateEntry", "EditEntry"}
      BY DEF Staged, OfKind, On
    <2>2. PICK family \in Families : Net(On(chg.ops, r.target), family, r)
      BY <1>1, <2>1, EffectiveIsFinal, ReductionIsNet
    <2>3. PICK op \in chg.ops : op.kind = r.kind /\ op.target = id
      BY <2>1, <2>2 DEF Net, OfKind, On
    <2>4. CASE op.kind = "EditEntry"
      BY <2>3, <2>4 DEF EditsOf, OfKind, On
    <2>5. CASE op.kind = "CreateEntry"
      BY <2>3, <2>5 DEF Current, Sane, Fits, CreateKinds
    <2>6. QED
      BY <2>1, <2>3, <2>4, <2>5
  <1>3. QED
    BY <1>2 DEF StagedDraft

(* The keys that stage anything but a deletion.                            *)
LEMMA WordedKey ==
  ASSUME Current, Worded(file, chg), NEW op,
         op = [seq |-> 0, kind |-> op.kind, source |-> Source, target |-> op.target,
               parent |-> op.parent, name |-> op.name, was |-> op.was,
               before |-> op.before, after |-> op.after, perm |-> op.perm],
         Speaks(op),
         op.kind = "EditEntry" /\ op.target \in Live(file) /\ EditsOf(chg, op.target) = {}
           => FromFile(file, op)
  PROVE  Worded(file, Add(chg, op))
  <1>1. PICK b, d, e, f, g, h, i, j :
          op = [seq |-> 0, kind |-> b, source |-> Source, target |-> d, parent |-> e, name |-> f,
                was |-> g, before |-> h, after |-> i, perm |-> j]
    BY Zenon
  <1>2. Shaped(op)
    BY <1>1 DEF Shaped
  <1>3. QED
    BY <1>2, WordedAdd DEF Current, NumbersHold

LEMMA WordedStaging ==
  ASSUME Current, Worded(file, chg)
  PROVE  /\ \A id \in Entries : \A parent, val : StageNewEntry(id, parent, val) => Worded(file, chg')
         /\ \A id \in Entries : \A val : StageEdit(id, val) => Worded(file, chg')
         /\ \A id \in Entries : \A val : StageRetitle(id, val) => Worded(file, chg')
         /\ \A id \in Folders : \A name : StageRename(id, name) => Worded(file, chg')
         /\ \A id \in Folders : \A parent : OpenNewFolder(id, parent) => Worded(file, chg')
         /\ \A id \in Ids : \A dest : StageMove(id, dest) => Worded(file, chg')
  <1>1. ASSUME NEW id \in Entries, NEW parent, NEW val, StageNewEntry(id, parent, val)
        PROVE  Worded(file, chg')
    <2> DEFINE after == [val |-> val, group |-> parent]
    <2>0. PICK op : op = [Op("CreateEntry", Source, id) EXCEPT !.parent = parent, !.after = after]
      OBVIOUS
    <2>1. chg' = Add(chg, op)
      BY <2>0, <1>1 DEF StageNewEntry, Stage, Becomes
    <2> HIDE DEF after
    <2>2. op = [seq |-> 0, kind |-> "CreateEntry", source |-> Source, target |-> id,
                parent |-> parent, name |-> None, was |-> None, before |-> None,
                after |-> after, perm |-> FALSE]
      BY <2>0 DEF Op
    <2>3. QED
      BY <2>1, <2>2, WordedKey DEF Speaks
  <1>2. ASSUME NEW id \in Entries, NEW val, StageEdit(id, val)
        PROVE  Worded(file, chg')
    <2> DEFINE home  == EditHome(id)
               after == [val |-> val, group |-> home]
               old   == LatestDraft(id)
    <2>0. PICK again, edit :
            /\ again = [Op("CreateEntry", Source, id) EXCEPT !.parent = home, !.after = after]
            /\ edit  = [Op("EditEntry", Source, id) EXCEPT !.before = old, !.after = after]
      OBVIOUS
    <2>1. chg' = Add(chg, again) \/ chg' = Add(chg, edit)
      BY <2>0, <1>2 DEF StageEdit, Stage, Becomes
    <2>2. id \in Live(file) /\ EditsOf(chg, id) = {} => old = FileDraft(id)
      BY FirstDraft DEF LatestDraft
    <2> HIDE DEF home, old, after
    <2>3. again = [seq |-> 0, kind |-> "CreateEntry", source |-> Source, target |-> id,
                   parent |-> home, name |-> None, was |-> None, before |-> None,
                   after |-> after, perm |-> FALSE]
      BY <2>0 DEF Op
    <2>4. edit = [seq |-> 0, kind |-> "EditEntry", source |-> Source, target |-> id,
                  parent |-> None, name |-> None, was |-> None, before |-> old,
                  after |-> after, perm |-> FALSE]
      BY <2>0 DEF Op
    <2>5. Worded(file, Add(chg, again))
      BY <2>3, WordedKey DEF Speaks
    <2>6. Worded(file, Add(chg, edit))
      BY <2>2, <2>4, WordedKey DEF Speaks, FromFile, FileDraft
    <2>7. QED
      BY <2>1, <2>5, <2>6
  <1>3. ASSUME NEW id \in Entries, NEW val, StageRetitle(id, val)
        PROVE  Worded(file, chg')
    <2> DEFINE before == IF StagedDraft(id) = None THEN FileDraft(id) ELSE None
               after  == [val |-> val, group |-> EditHome(id)]
    <2>0. PICK op : op = [Op("EditEntry", Source, id) EXCEPT !.before = before, !.after = after]
      OBVIOUS
    <2>1. chg' = Add(chg, op)
      BY <2>0, <1>3 DEF StageRetitle, Stage, Becomes
    <2>2. id \in Live(file) /\ EditsOf(chg, id) = {} => before = FileDraft(id)
      BY FirstDraft
    <2> HIDE DEF before, after
    <2>3. op = [seq |-> 0, kind |-> "EditEntry", source |-> Source, target |-> id,
                parent |-> None, name |-> None, was |-> None, before |-> before,
                after |-> after, perm |-> FALSE]
      BY <2>0 DEF Op
    <2>4. QED
      BY <2>1, <2>2, <2>3, WordedKey DEF Speaks, FromFile, FileDraft
  <1>4. ASSUME NEW id \in Folders, NEW name, StageRename(id, name)
        PROVE  Worded(file, chg')
    <2> DEFINE was == view[id].data
    <2>0. PICK op : op = [Op("RenameGroup", Source, id) EXCEPT !.name = name, !.was = was]
      OBVIOUS
    <2>1. chg' = Add(chg, op)
      BY <2>0, <1>4 DEF StageRename, Stage, Becomes
    <2> HIDE DEF was
    <2>2. op = [seq |-> 0, kind |-> "RenameGroup", source |-> Source, target |-> id,
                parent |-> None, name |-> name, was |-> was, before |-> None,
                after |-> None, perm |-> FALSE]
      BY <2>0 DEF Op
    <2>3. QED
      BY <2>1, <2>2, WordedKey DEF Speaks
  <1>5. ASSUME NEW id \in Folders, NEW parent, OpenNewFolder(id, parent)
        PROVE  Worded(file, chg')
    <2>0. PICK op : op = [Op("CreateGroup", Source, id) EXCEPT !.parent = parent, !.name = NewName]
      OBVIOUS
    <2>1. op = [seq |-> 0, kind |-> "CreateGroup", source |-> Source, target |-> id,
                parent |-> parent, name |-> NewName, was |-> None, before |-> None,
                after |-> None, perm |-> FALSE]
      BY <2>0 DEF Op
    <2>2. chg' = Add(chg, op)
      BY <2>0, <1>5 DEF OpenNewFolder, Becomes
    <2>3. QED
      BY <2>1, <2>2, WordedKey DEF Speaks
  <1>6. ASSUME NEW id \in Ids, NEW dest, StageMove(id, dest)
        PROVE  Worded(file, chg')
    <2> DEFINE kind == IF IsEntry(id) THEN "MoveEntry" ELSE "MoveGroup"
               was  == HomeOf(id)
    <2>0. PICK op : op = [Op(kind, Source, id) EXCEPT !.was = was, !.parent = dest]
      OBVIOUS
    <2>1. chg' = Add(chg, op)
      BY <2>0, <1>6 DEF StageMove, Stage, Becomes
    <2>2. kind \in {"MoveEntry", "MoveGroup"}
      OBVIOUS
    <2> HIDE DEF kind, was
    <2>3. op = [seq |-> 0, kind |-> kind, source |-> Source, target |-> id,
                parent |-> dest, name |-> None, was |-> was, before |-> None,
                after |-> None, perm |-> FALSE]
      BY <2>0 DEF Op
    <2>4. QED
      BY <2>1, <2>2, <2>3, WordedKey DEF Speaks
  <1>7. QED
    BY <1>1, <1>2, <1>3, <1>4, <1>5, <1>6

(* d and D take back one deletion at most, and stage one.                  *)
LEMMA WordedDelete ==
  ASSUME Current, Worded(file, chg), NEW id \in Ids, NEW permanent, StageDelete(id, permanent)
  PROVE  Worded(file, chg')
  <1> DEFINE perm   == permanent \/ ~BinEnabled
             before == FileDraft(id)
  <1>0. PICK back, one, all :
          /\ back = IF StagedDeletion(id) = {} THEN chg
                    ELSE Revert(chg, Latest(StagedDeletion(id)).seq)
          /\ one = [Op("DeleteEntry", Source, id) EXCEPT !.before = before, !.perm = perm]
          /\ all = [Op("DeleteGroup", Source, id) EXCEPT !.perm = perm]
    OBVIOUS
  <1>1. /\ id \in DOMAIN view /\ ~InDoomedFolder(id)
        /\ \/ chg' = back
           \/ chg' = Add(back, one)
           \/ chg' = Add(DropDeletionsUnder(back, id), all)
    BY <1>0 DEF StageDelete, Stage, Becomes
  <1>2. Handles(back) /\ Sane(file, back)
    BY <1>0, <1>1, NoneIsLeft
  <1>3. Handles(chg) /\ Sane(file, chg) /\ Log(chg.ops) /\ red = Effective(chg.ops)
    BY RowsShown DEF Current, NumbersHold
  <1>4. Worded(file, back)
    <2>1. CASE StagedDeletion(id) = {}
      BY <1>0, <2>1
    <2>2. CASE StagedDeletion(id) # {}
      <3> DEFINE found == Latest(StagedDeletion(id))
                 undone == {op \in chg.ops : op.seq = found.seq}
      <3>1. \A r \in StagedDeletion(id) : r \in chg.ops /\ r.kind \in DeleteKinds
        BY <1>3, EffectiveWasStaged DEF StagedDeletion, Staged, OfKind, On
      <3>2. Log(StagedDeletion(id))
        <4>1. StagedDeletion(id) \in SUBSET chg.ops
          BY <3>1
        <4>2. QED
          BY <1>3, <4>1, PartOfALog
      <3>3. found \in chg.ops /\ found.kind \in DeleteKinds
        BY <2>2, <3>1, <3>2, LastIsOne
      <3> HIDE DEF found
      <3>4. \A e \in undone : e = found
        BY <1>3, <3>3 DEF Handles
      <3>5. undone \in SUBSET chg.ops /\ \A e \in undone : e.kind # "EditEntry"
        BY <3>3, <3>4 DEF DeleteKinds
      <3>6. back = Without(chg, undone)
        BY <1>0, <2>2 DEF Revert, found
      <3> HIDE DEF undone
      <3>7. QED
        BY <1>3, <3>5, <3>6, WordedWithout
    <2>3. QED
      BY <2>1, <2>2
  <1> HIDE DEF perm, before
  <1>5. Shaped(one) /\ one.kind = "DeleteEntry" /\ Shaped(all) /\ all.kind = "DeleteGroup"
    BY <1>0 DEF Op, Shaped
  <1>6. Speaks(one) /\ Speaks(all)
    BY <1>5 DEF Speaks
  <1>7. Worded(file, Add(back, one))
    BY <1>2, <1>4, <1>5, <1>6, WordedAdd
  <1>8. Worded(file, Add(DropDeletionsUnder(back, id), all))
    <2>1. PICK rest : rest = DropDeletionsUnder(back, id)
      OBVIOUS
    <2>2. /\ rest.ops \subseteq back.ops
          /\ \A op \in back.ops : op.kind \notin DeleteKinds => op \in rest.ops
      BY <1>2, <2>1, SaneDropUnder
    <2>3. Handles(rest)
      BY <1>2, <2>1, DropUnderHandles
    <2>4. \A e \in rest.ops : e.kind = "EditEntry" => EditsOf(back, e.target) \subseteq rest.ops
      BY <2>2 DEF EditsOf, OfKind, On, DeleteKinds
    <2>5. Worded(file, rest)
      BY <1>4, <2>2, <2>4, WordedLess
    <2>6. Worded(file, Add(rest, all))
      BY <1>5, <1>6, <2>3, <2>5, WordedAdd
    <2>7. QED
      BY <2>1, <2>6
  <1>9. QED
    BY <1>1, <1>4, <1>7, <1>8

LEMMA WordedStep ==
  ASSUME Current, Worded(file, chg), [Next]_vars
  PROVE  Worded(file, chg)'
  <1>1. Handles(chg) /\ Sane(file, chg)
    BY DEF Current, NumbersHold
  <1>2. ASSUME Becomes(chg'), Worded(file, chg') PROVE Worded(file, chg)'
    <2>1. file' = file
      BY <1>2 DEF Becomes
    <2>2. Worded(file', chg')
      BY <1>2, <2>1
    <2>3. QED
      BY <2>2
  <1>3. ASSUME NEW id \in Entries, NEW parent, NEW val, StageNewEntry(id, parent, val)
        PROVE  Worded(file, chg)'
    <2>1. Becomes(chg')
      BY <1>3 DEF StageNewEntry, Stage, Becomes
    <2>2. QED
      BY <1>2, <1>3, <2>1, WordedStaging
  <1>4. ASSUME NEW id \in Entries, NEW val, StageEdit(id, val) PROVE Worded(file, chg)'
    <2>1. Becomes(chg')
      BY <1>4 DEF StageEdit, Stage, Becomes
    <2>2. QED
      BY <1>2, <1>4, <2>1, WordedStaging
  <1>5. ASSUME NEW id \in Entries, NEW val, StageRetitle(id, val) PROVE Worded(file, chg)'
    <2>1. Becomes(chg')
      BY <1>5 DEF StageRetitle, Stage, Becomes
    <2>2. QED
      BY <1>2, <1>5, <2>1, WordedStaging
  <1>6. ASSUME NEW id \in Folders, NEW name, StageRename(id, name) PROVE Worded(file, chg)'
    <2>1. Becomes(chg')
      BY <1>6 DEF StageRename, Stage, Becomes
    <2>2. QED
      BY <1>2, <1>6, <2>1, WordedStaging
  <1>7. ASSUME NEW id \in Folders, NEW parent, OpenNewFolder(id, parent) PROVE Worded(file, chg)'
    <2>1. Becomes(chg')
      BY <1>7 DEF OpenNewFolder, Becomes
    <2>2. QED
      BY <1>2, <1>7, <2>1, WordedStaging
  <1>8. ASSUME NEW id \in Ids, NEW dest, StageMove(id, dest) PROVE Worded(file, chg)'
    <2>1. Becomes(chg')
      BY <1>8 DEF StageMove, Stage, Becomes
    <2>2. QED
      BY <1>2, <1>8, <2>1, WordedStaging
  <1>9. ASSUME NEW id \in Ids, NEW permanent, StageDelete(id, permanent) PROVE Worded(file, chg)'
    <2>1. Becomes(chg')
      BY <1>9 DEF StageDelete, Stage, Becomes
    <2>2. QED
      BY <1>2, <1>9, <2>1, WordedDelete
  <1>10. ASSUME NEW name, NameNewFolder(name) PROVE Worded(file, chg)'
    <2>1. PICK made : made = CHOOSE op \in chg.ops : op.seq = naming
      OBVIOUS
    <2>2. made \in chg.ops /\ made.kind = "CreateGroup"
      <3>1. PICK one \in OfKind(chg.ops, {"CreateGroup"}) : one.seq = naming
        BY <1>10 DEF NameNewFolder, Current
      <3>2. one \in chg.ops /\ one.kind = "CreateGroup"
        BY DEF OfKind
      <3>3. made \in chg.ops /\ made.seq = naming
        BY <2>1, <3>1, <3>2
      <3>4. QED
        BY <1>1, <3>1, <3>2, <3>3 DEF Handles
    <2>3. PICK op : op = [Op("RenameGroup", Source, made.target) EXCEPT !.name = name, !.was = NewName]
      OBVIOUS
    <2>4. Becomes(chg') /\ (chg' = chg \/ chg' = Add(chg, op))
      BY <1>10, <2>1, <2>3 DEF NameNewFolder, Becomes
    <2>5. op = [seq |-> 0, kind |-> "RenameGroup", source |-> Source, target |-> made.target,
                parent |-> None, name |-> name, was |-> NewName, before |-> None,
                after |-> None, perm |-> FALSE]
      BY <2>3 DEF Op
    <2>6. made.target \in Folders
      BY <2>2 DEF Worded, Speaks
    <2>7. Worded(file, Add(chg, op))
      BY <2>5, <2>6, WordedKey DEF Speaks
    <2>8. QED
      BY <1>2, <2>4, <2>7
  <1>11. CASE AbandonNewFolder
    <2> DEFINE undone == {op \in chg.ops : op.seq = naming}
    <2>1. Becomes(chg') /\ chg' = Without(chg, undone)
      BY <1>11 DEF AbandonNewFolder, Becomes, Revert
    <2>2. PICK one \in OfKind(chg.ops, {"CreateGroup"}) : one.seq = naming
      BY <1>11 DEF AbandonNewFolder, Current
    <2>3. \A e \in undone : e.kind # "EditEntry"
      BY <1>1, <2>2 DEF Handles, OfKind
    <2>4. undone \in SUBSET chg.ops
      OBVIOUS
    <2> HIDE DEF undone
    <2>5. QED
      BY <1>1, <1>2, <2>1, <2>3, <2>4, WordedWithout
  <1>12. ASSUME NEW id, Undo(id) PROVE Worded(file, chg)'
    <2> DEFINE undone == On(chg.ops, id)
    <2>1. Becomes(chg') /\ chg' = Without(chg, undone)
      BY <1>12 DEF Undo, Stage, Becomes, RevertTarget
    <2>2. /\ undone \in SUBSET chg.ops
          /\ \A e \in undone : EditsOf(chg, e.target) \subseteq undone
      BY DEF EditsOf, OfKind, On
    <2> HIDE DEF undone
    <2>3. QED
      BY <1>1, <1>2, <2>1, <2>2, WordedWithout
  <1>13. CASE Save
    BY <1>13 DEF Save, EmptySet, Worded, EditsOf, OfKind, On
  <1>14. CASE UNCHANGED vars
    BY <1>14 DEF vars, Worded, EditsOf, OfKind, On, FromFile, Live
  <1>15. QED
    BY <1>3, <1>4, <1>5, <1>6, <1>7, <1>8, <1>9, <1>10, <1>11, <1>12, <1>13, <1>14 DEF Next

(* What a row shows, as one decision.                                      *)
LEMMA RowData ==
  ASSUME Current, NEW id \in DOMAIN view,
         NEW edits, edits = Staged({"EditEntry"}, id, red), Staged({"RenameGroup"}, id, red) = {}
  PROVE  view[id].data = IF edits # {} THEN Latest(edits).after.val
                         ELSE IF id \in Targets(OfKind(Members(red), CreateKinds))
                         THEN Born(Latest(Staged(CreateKinds, id, red))).data
                         ELSE file.node[id].data
  BY RowIs DEF RowTitles, RowEdits, RowBase, Filed

LEMMA LastWordShown ==
  ASSUME Current, Worded(file, chg)
  PROVE  LastWordCounts
  <1>1. Log(chg.ops) /\ red = Effective(chg.ops)
    BY RowsShown DEF Current
  <1> SUFFICES ASSUME NEW id \in Entries, id \in DOMAIN view, Words(id) # {},
                      OfKind(On(chg.ops, id), DeleteKinds) = {}, ~RetitledThenMadeAgain(id)
               PROVE  view[id].data = Latest(Words(id)).after.val
    BY DEF LastWordCounts
  <1> DEFINE made  == OfKind(On(chg.ops, id), {"CreateEntry"})
             edits == OfKind(On(chg.ops, id), {"EditEntry"})
  <1>2. Words(id) = made \cup edits
    BY DEF Words, OfKind
  <1>3. /\ OfKind(On(chg.ops, id), {"CreateGroup"}) = {}
        /\ Staged({"RenameGroup"}, id, red) = {}
    <2>1. \A op \in chg.ops : op.target = id => op.kind \notin {"CreateGroup", "RenameGroup"}
      BY StagingAssumption DEF Worded, Speaks
    <2>2. ASSUME NEW r \in Staged({"RenameGroup"}, id, red) PROVE FALSE
      <3>1. r \in Members(red) /\ r.target = id /\ r.kind = "RenameGroup"
        BY DEF Staged, OfKind, On
      <3>2. PICK family \in Families : Net(On(chg.ops, r.target), family, r)
        BY <1>1, <3>1, EffectiveIsFinal, ReductionIsNet
      <3>3. QED
        BY <2>1, <3>1, <3>2 DEF Net, OfKind, On
    <2>3. QED
      BY <2>1, <2>2 DEF OfKind, On
  <1>4. Log(made) /\ Log(edits) /\ Log(Words(id))
    <2>1. made \in SUBSET chg.ops /\ edits \in SUBSET chg.ops /\ Words(id) \in SUBSET chg.ops
      BY DEF Words, OfKind, On
    <2>2. QED
      BY <1>1, <2>1, PartOfALog
  <1>5. CASE id \in Targets(OfKind(Members(red), CreateKinds))
    <2>1. PICK c \in Members(red) : c.target = id /\ c.kind \in CreateKinds
      BY <1>5 DEF Targets, OfKind
    <2>2. c.kind = "CreateEntry"
      <3>1. \E op \in OfKind(chg.ops, CreateKinds) : op.kind = c.kind /\ op.target = c.target
        BY <1>1, <2>1, EffectiveWasStaged
      <3>2. QED
        BY <1>3, <2>1, <3>1 DEF OfKind, On, CreateKinds
    <2>3. /\ made # {}
          /\ c.after = IF edits = {} THEN Latest(made).after ELSE Latest(edits).after
          /\ \A r \in Members(red) : r.target = id => r = c \/ r.kind \in MoveKinds
      <3>1. PICK m, e : m = made /\ e = edits
        OBVIOUS
      <3>2. /\ OfKind(On(chg.ops, c.target), {"CreateGroup"}) = {}
            /\ m = OfKind(On(chg.ops, c.target), {"CreateEntry"})
            /\ e = OfKind(On(chg.ops, c.target), {"EditEntry"})
        BY <1>3, <2>1, <3>1
      <3>3. c \in Members(Effective(chg.ops))
        BY <1>1, <2>1
      <3> HIDE DEF made, edits
      <3>4. /\ m # {}
            /\ c.after = IF e = {} THEN Latest(m).after ELSE Latest(e).after
            /\ \A r \in Members(Effective(chg.ops)) : r.target = c.target => r = c \/ r.kind \in MoveKinds
        BY <1>1, <2>2, <3>2, <3>3, NewEntrySays
      <3>5. QED
        BY <1>1, <2>1, <3>1, <3>4
    <2>4. Staged({"EditEntry"}, id, red) = {} /\ Staged(CreateKinds, id, red) = {c}
      BY <2>1, <2>2, <2>3 DEF Staged, OfKind, On, CreateKinds, MoveKinds
    <2>5. view[id].data = c.after.val
      <3>1. Latest({c}) = c
        BY DEF Latest
      <3>2. Born(c).data = c.after.val
        BY <2>2 DEF Born
      <3>3. QED
        BY <1>3, <1>5, <2>4, <3>1, <3>2, RowData
    <2>6. Latest(Words(id)) = IF edits = {} THEN Latest(made) ELSE Latest(edits)
      <3>1. CASE edits = {}
        BY <1>2, <3>1
      <3>2. CASE edits # {}
        <4>1. /\ Latest(edits) \in edits /\ \A e \in edits : e.seq <= Latest(edits).seq
              /\ \A op \in chg.ops : op.seq \in Nat
          BY <1>1, <1>4, <3>2, LatestComesLast, NumberedIsFinite DEF Log
        <4>2. \A c1 \in made : c1.seq <= Latest(edits).seq
          <5>1. ASSUME NEW c1 \in made PROVE ~(Latest(edits).seq < c1.seq)
            BY <1>2, <4>1 DEF RetitledThenMadeAgain, OfKind
          <5>2. \A c1 \in made : c1 \in chg.ops
            BY DEF OfKind, On
          <5>3. Latest(edits) \in chg.ops
            BY <4>1 DEF OfKind, On
          <5>4. QED
            BY <4>1, <5>1, <5>2, <5>3
        <4>3. \A op \in Words(id) : op.seq <= Latest(edits).seq
          BY <1>2, <4>1, <4>2
        <4>4. Latest(Words(id)) \in Words(id) /\ \A op \in Words(id) : op.seq <= Latest(Words(id)).seq
          BY <1>4, LatestComesLast DEF Log
        <4>5. Latest(Words(id)).seq = Latest(edits).seq
          <5>1. Latest(edits) \in Words(id) /\ Latest(Words(id)) \in chg.ops
            BY <1>2, <4>1, <4>4 DEF OfKind, On
          <5>2. Latest(edits).seq \in Nat /\ Latest(Words(id)).seq \in Nat
            BY <4>1, <5>1 DEF OfKind, On
          <5>3. QED
            BY <4>3, <4>4, <5>1, <5>2
        <4>6. Latest(Words(id)) = Latest(edits)
          BY <1>2, <1>4, <4>1, <4>4, <4>5 DEF Log, Numbered
        <4>7. QED
          BY <3>2, <4>6
      <3>3. QED
        BY <3>1, <3>2
    <2>7. QED
      BY <2>3, <2>5, <2>6
  <1>6. CASE id \notin Targets(OfKind(Members(red), CreateKinds))
    <2>1. id \in Live(file)
      BY <1>6, RowsShown
    <2>2. id \notin Targets(OfKind(chg.ops, CreateKinds))
      BY <2>1 DEF Current, Sane, Fits, Targets, OfKind
    <2>3. Words(id) = edits /\ edits # {}
      <3>1. made = {}
        BY <2>2 DEF OfKind, On, Targets, CreateKinds
      <3>2. QED
        BY <1>2, <3>1
    <2>4. \A e \in edits : e.parent \notin Targets(OfKind(chg.ops, CreateKinds))
      <3>1. \A e \in edits : e.parent = None
        BY DEF Worded, Speaks, OfKind, On
      <3>2. None \notin Targets(OfKind(chg.ops, CreateKinds))
        BY TargetsAreIds DEF Targets, OfKind
      <3>3. QED
        BY <3>1, <3>2
    <2> DEFINE net == OfKind(On(Members(Effective(chg.ops)), id), {"EditEntry"})
    <2>5. IF SamePlace(Earliest(edits).before, Latest(edits).after)
          THEN net = {}
          ELSE net # {} /\ Latest(net).after = Latest(edits).after
      BY <1>1, <2>2, <2>3, <2>4, LastEditStays
    <2>6. Staged({"EditEntry"}, id, red) = net
      BY <1>1 DEF Staged
    <2>7. view[id].data = IF net # {} THEN Latest(net).after.val ELSE file.node[id].data
      BY <1>3, <1>6, <2>6, RowData
    <2>8. CASE SamePlace(Earliest(edits).before, Latest(edits).after)
      <3>1. Earliest(edits) \in edits /\ \A other \in edits : Earliest(edits).seq <= other.seq
        BY <1>4, <2>3, EarliestComesFirst, NumberedIsFinite DEF Log
      <3>2. Earliest(edits).target = id
        BY <3>1 DEF OfKind, On
      <3>3. FromFile(file, Earliest(edits))
        BY <2>1, <3>1 DEF Worded, EditsOf
      <3>4. Latest(edits).after.val = file.node[id].data
        BY <2>8, <3>2, <3>3 DEF FromFile, SamePlace
      <3>5. QED
        BY <2>3, <2>5, <2>7, <2>8, <3>4
    <2>9. CASE ~SamePlace(Earliest(edits).before, Latest(edits).after)
      BY <2>3, <2>5, <2>7, <2>9
    <2>10. QED
      BY <2>8, <2>9
  <1>7. QED
    BY <1>5, <1>6

(* Of all the drafts that were staged for an entry, in the form, by inline  *)
(* renames and again after undoing, the last one is what its row shows: the *)
(* reduction may drop it only when it is back at what the file holds.       *)
THEOREM LastWordIsShown == Spec => []LastWordCounts
  <1>1. Init => Worded(file, chg)
    BY DEF Init, EmptySet, Worded, EditsOf, OfKind, On
  <1>2. Current /\ Worded(file, chg) /\ [Next]_vars => Current' /\ Worded(file, chg)'
    BY CurrentStep, WordedStep
  <1>3. Current /\ Worded(file, chg) => LastWordCounts
    BY LastWordShown
  <1>4. QED
    BY CurrentInit, <1>1, <1>2, <1>3, PTL DEF Spec

-----------------------------------------------------------------------------
(* What is under a folder.                                                 *)

(* The levels of a folder, as Subtree counts them.                         *)
Below(node, above) == above \cup {id \in DOMAIN node : node[id].home \in above}
Levels(node, top, N, f) ==
  f = [n \in 0 .. N |-> IF n = 0 THEN {top} ELSE Below(node, f[n - 1])]

LEMMA LevelsExist ==
  ASSUME NEW node, NEW top
  PROVE  \A N \in Nat : \E f : Levels(node, top, N, f)
  <1> DEFINE Found == {N \in Nat : \E f : Levels(node, top, N, f)}
  <1>1. 0 \in Found
    <2> DEFINE f == [n \in 0 .. 0 |-> {top}]
    <2>1. f = [n \in 0 .. 0 |-> IF n = 0 THEN {top} ELSE Below(node, f[n - 1])]
      OBVIOUS
    <2>2. Levels(node, top, 0, f)
      BY <2>1 DEF Levels
    <2> HIDE DEF f
    <2>3. QED
      BY <2>2
  <1>2. ASSUME NEW N \in Nat, N \in Found PROVE N + 1 \in Found
    <2>1. PICK f : Levels(node, top, N, f)
      BY <1>2
    <2>2. /\ DOMAIN f = 0 .. N
          /\ \A n \in 0 .. N : f[n] = IF n = 0 THEN {top} ELSE Below(node, f[n - 1])
      BY <2>1 DEF Levels
    <2> DEFINE g == [n \in 0 .. (N + 1) |-> IF n = N + 1 THEN Below(node, f[N]) ELSE f[n]]
               h == [n \in 0 .. (N + 1) |-> IF n = 0 THEN {top} ELSE Below(node, g[n - 1])]
    <2>3. ASSUME NEW n \in 0 .. (N + 1) PROVE g[n] = h[n]
      <3>1. CASE n = N + 1
        <4>1. g[n] = Below(node, f[N]) /\ h[n] = Below(node, g[N])
          BY <3>1
        <4>2. g[N] = f[N]
          OBVIOUS
        <4>3. QED
          BY <4>1, <4>2
      <3>2. CASE n = 0
        <4>1. g[0] = f[0] /\ h[0] = {top}
          OBVIOUS
        <4>2. QED
          BY <2>2, <3>2, <4>1
      <3>3. CASE n \in 1 .. N
        <4>1. n \in 0 .. N /\ n - 1 \in 0 .. (N + 1) /\ n # N + 1 /\ n - 1 # N + 1 /\ n # 0
          BY <3>3
        <4>2. g[n] = f[n] /\ h[n] = Below(node, g[n - 1]) /\ g[n - 1] = f[n - 1]
          BY <4>1
        <4>3. f[n] = Below(node, f[n - 1])
          BY <2>2, <4>1
        <4>4. QED
          BY <4>2, <4>3
      <3>4. QED
        BY <3>1, <3>2, <3>3
    <2>4. g = h
      BY <2>3
    <2>5. Levels(node, top, N + 1, g)
      BY <2>4 DEF Levels
    <2> HIDE DEF g, h
    <2>6. QED
      BY <2>5
  <1> HIDE DEF Found
  <1>3. Nat \subseteq Found
    BY <1>1, <1>2, CountingUp
  <1>4. QED
    BY <1>3 DEF Found

(* Subtree counts them up to the number of items.                          *)
Counted(node, top, N, f) ==
  /\ N = Cardinality(DOMAIN node) /\ Subtree(node, top) = f[N]
  /\ f[0] = {top} /\ \A n \in 1 .. N : f[n] = Below(node, f[n - 1])

LEMMA SubtreeLevels ==
  ASSUME NEW node, IsFiniteSet(DOMAIN node), NEW top
  PROVE  \E N \in Nat : \E f : Counted(node, top, N, f)
  <1>1. PICK N \in Nat : N = Cardinality(DOMAIN node)
    BY FS_CardinalityType
  <1>2. PICK f : f = (CHOOSE g : Levels(node, top, N, g))
    OBVIOUS
  <1>3. Levels(node, top, N, f)
    BY <1>2, LevelsExist
  <1>4. Subtree(node, top) = f[N]
    <2>1. Subtree(node, top) = (CHOOSE g : Levels(node, top, Cardinality(DOMAIN node), g))[Cardinality(DOMAIN node)]
      BY DEF Subtree, Levels, Below
    <2>2. QED
      BY <1>1, <1>2, <2>1
  <1>5. f[0] = {top} /\ \A n \in 1 .. N : f[n] = Below(node, f[n - 1])
    <2>1. \A n \in 0 .. N : f[n] = IF n = 0 THEN {top} ELSE Below(node, f[n - 1])
      BY <1>3, Zenon DEF Levels
    <2>2. 0 \in 0 .. N /\ \A n \in 1 .. N : n \in 0 .. N /\ n # 0
      OBVIOUS
    <2>3. QED
      BY <2>1, <2>2, Zenon
  <1>6. QED
    BY <1>1, <1>4, <1>5 DEF Counted

(* A subtree is made of what is there, its top included; and the root group *)
(* is in none but its own, since it is in no folder.                       *)
LEMMA SubtreeIsInside ==
  ASSUME NEW node, IsFiniteSet(DOMAIN node), NEW top \in DOMAIN node
  PROVE  /\ Subtree(node, top) \subseteq DOMAIN node
         /\ top \in Subtree(node, top)
         /\ \A id \in DOMAIN node : id # top /\ node[id].home \notin DOMAIN node => id \notin Subtree(node, top)
  <1>0. PICK N \in Nat : \E f : Counted(node, top, N, f)
    BY SubtreeLevels
  <1>1. PICK f : /\ Subtree(node, top) = f[N]
                 /\ f[0] = {top} /\ \A n \in 1 .. N : f[n] = Below(node, f[n - 1])
    BY <1>0 DEF Counted
  <1> DEFINE Inside(S) == /\ S \subseteq DOMAIN node /\ top \in S
                          /\ \A id \in DOMAIN node : id # top /\ node[id].home \notin DOMAIN node => id \notin S
             Good == {n \in Nat : n <= N => Inside(f[n])}
  <1>2. 0 \in Good
    <2>1. Inside(f[0])
      BY <1>1
    <2>2. QED
      BY <2>1
  <1>3. ASSUME NEW n \in Nat, n \in Good PROVE n + 1 \in Good
    <2> SUFFICES ASSUME n + 1 <= N PROVE Inside(f[n + 1])
      OBVIOUS
    <2>1. Inside(f[n])
      BY <1>3
    <2>2. f[n + 1] = Below(node, f[n])
      <3>1. n + 1 \in 1 .. N /\ (n + 1) - 1 = n
        OBVIOUS
      <3>2. QED
        BY <1>1, <3>1
    <2>3. QED
      BY <2>1, <2>2 DEF Below
  <1>4. N \in Good
    <2> HIDE DEF Good
    <2>1. QED
      BY <1>2, <1>3, CountingUp
  <1>5. QED
    BY <1>1, <1>4

(* Whatever is in a folder of a subtree is in the subtree: as many levels   *)
(* as there are items are enough, for each adds one or there are no more.  *)
LEMMA SubtreeIsClosed ==
  ASSUME NEW node, IsFiniteSet(DOMAIN node), NEW top \in DOMAIN node
  PROVE  \A id \in DOMAIN node : node[id].home \in Subtree(node, top) => id \in Subtree(node, top)
  <1>1. PICK N \in Nat : \E f : Counted(node, top, N, f)
    BY SubtreeLevels
  <1>2. PICK f : /\ N = Cardinality(DOMAIN node) /\ Subtree(node, top) = f[N]
                 /\ f[0] = {top} /\ \A n \in 1 .. N : f[n] = Below(node, f[n - 1])
    BY <1>1 DEF Counted
  <1> DEFINE Closed(S) == \A id \in DOMAIN node : node[id].home \in S => id \in S
             Q(n)      == f[n] \subseteq DOMAIN node /\ (Closed(f[n]) \/ Cardinality(f[n]) > n)
             Good      == {n \in Nat : n <= N => Q(n)}
  <1>3. 0 \in Good
    <2>1. Cardinality(f[0]) = 1
      BY <1>2, FS_Singleton
    <2> HIDE DEF Closed
    <2>2. QED
      BY <1>2, <2>1
  <1>4. ASSUME NEW n \in Nat, n \in Good PROVE n + 1 \in Good
    <2> SUFFICES ASSUME n + 1 <= N PROVE Q(n + 1)
      OBVIOUS
    <2>1. Q(n)
      BY <1>4
    <2>2. f[n + 1] = Below(node, f[n])
      <3>1. n + 1 \in 1 .. N /\ (n + 1) - 1 = n
        OBVIOUS
      <3>2. QED
        BY <1>2, <3>1
    <2>3. f[n] \subseteq f[n + 1] /\ f[n + 1] \subseteq DOMAIN node
      BY <2>1, <2>2 DEF Below
    <2>4. CASE f[n + 1] = f[n]
      <3>1. Closed(f[n + 1])
        BY <2>2, <2>4 DEF Below
      <3>2. QED
        BY <2>3, <3>1
    <2>5. CASE f[n + 1] # f[n]
      <3>1. PICK id \in f[n + 1] : id \notin f[n]
        BY <2>3, <2>5
      <3>2. ~Closed(f[n])
        BY <2>2, <3>1 DEF Below
      <3> HIDE DEF Closed
      <3>3. Cardinality(f[n]) > n
        BY <2>1, <3>2
      <3>4. IsFiniteSet(f[n + 1]) /\ IsFiniteSet(f[n]) /\ f[n] \cup {id} \subseteq f[n + 1]
        BY <2>3, <3>1, FS_Subset
      <3>5. Cardinality(f[n] \cup {id}) = Cardinality(f[n]) + 1
        BY <3>1, <3>4, FS_AddElement
      <3>6. Cardinality(f[n] \cup {id}) <= Cardinality(f[n + 1])
        BY <3>4, FS_Subset
      <3>7. Cardinality(f[n]) \in Nat /\ Cardinality(f[n + 1]) \in Nat
        BY <3>4, FS_CardinalityType
      <3>8. Cardinality(f[n + 1]) > n + 1
        BY <3>3, <3>5, <3>6, <3>7
      <3>9. QED
        BY <2>3, <3>8
    <2>6. QED
      BY <2>4, <2>5
  <1> HIDE DEF Closed
  <1>5. Q(N)
    <2>1. N \in Good
      <3> HIDE DEF Good
      <3>1. QED
        BY <1>3, <1>4, CountingUp
    <2>2. QED
      BY <2>1
  <1>6. Cardinality(f[N]) \in Nat /\ Cardinality(f[N]) <= N
    <2>1. IsFiniteSet(f[N]) /\ Cardinality(f[N]) <= Cardinality(DOMAIN node)
      BY <1>5, FS_Subset
    <2>2. QED
      BY <1>2, <2>1, FS_CardinalityType
  <1>7. Closed(f[N])
    BY <1>5, <1>6
  <1>8. QED
    BY <1>2, <1>7 DEF Closed

(* What holds of the top of a subtree, and of what is in the subtree when   *)
(* it holds of the folder that is in, holds of all of it.                  *)
LEMMA SubtreeStays ==
  ASSUME NEW node, IsFiniteSet(DOMAIN node), NEW top, NEW S, top \in S,
         \A id \in Subtree(node, top) : id \in DOMAIN node /\ node[id].home \in S => id \in S
  PROVE  Subtree(node, top) \subseteq S
  <1>0. PICK N \in Nat : \E f : Counted(node, top, N, f)
    BY SubtreeLevels
  <1>1. PICK f : /\ Subtree(node, top) = f[N]
                 /\ f[0] = {top} /\ \A n \in 1 .. N : f[n] = Below(node, f[n - 1])
    BY <1>0 DEF Counted
  <1>2. \A n \in 0 .. N : f[n] \subseteq f[N]
    <2> DEFINE Good == {k \in Nat : k <= N => f[N - k] \subseteq f[N]}
    <2>1. 0 \in Good
      <3>1. N - 0 = N
        OBVIOUS
      <3>2. QED
        BY <3>1
    <2>2. ASSUME NEW k \in Nat, k \in Good PROVE k + 1 \in Good
      <3> SUFFICES ASSUME k + 1 <= N PROVE f[N - (k + 1)] \subseteq f[N]
        OBVIOUS
      <3>1. N - k \in 1 .. N /\ (N - k) - 1 = N - (k + 1)
        OBVIOUS
      <3>2. f[N - k] = Below(node, f[N - (k + 1)])
        BY <1>1, <3>1
      <3>3. f[N - k] \subseteq f[N]
        BY <2>2
      <3>4. QED
        BY <3>2, <3>3 DEF Below
    <2> HIDE DEF Good
    <2>3. Nat \subseteq Good
      BY <2>1, <2>2, CountingUp
    <2>4. ASSUME NEW n \in 0 .. N PROVE f[n] \subseteq f[N]
      <3>1. PICK k : k = N - n
        OBVIOUS
      <3>2. k \in Good /\ k <= N /\ N - k = n
        BY <2>3, <3>1
      <3>3. QED
        BY <3>2 DEF Good
    <2>5. QED
      BY <2>4
  <1> DEFINE Good == {n \in Nat : n <= N => f[n] \subseteq S}
  <1>3. 0 \in Good
    BY <1>1
  <1>4. ASSUME NEW n \in Nat, n \in Good PROVE n + 1 \in Good
    <2> SUFFICES ASSUME n + 1 <= N, NEW id \in f[n + 1] PROVE id \in S
      OBVIOUS
    <2>1. n + 1 \in 1 .. N /\ (n + 1) - 1 = n /\ n + 1 \in 0 .. N
      OBVIOUS
    <2>2. f[n] \subseteq S
      BY <1>4
    <2>3. id \in f[n] \/ (id \in DOMAIN node /\ node[id].home \in f[n])
      BY <1>1, <2>1 DEF Below
    <2>4. id \in Subtree(node, top)
      BY <1>1, <1>2, <2>1
    <2>5. QED
      BY <2>2, <2>3, <2>4
  <1> HIDE DEF Good
  <1>5. N \in Good
    BY <1>3, <1>4, CountingUp
  <1>6. QED
    BY <1>1, <1>5 DEF Good

-----------------------------------------------------------------------------
(* The mutations.                                                          *)

(* A UUID for the recycle bin is there whenever one is asked for.          *)
BinsLast == ~IsFiniteSet(Bins)

(* What an item of a decoded vault is.                                     *)
Items(id) == [home : Homes, data : Content(id), hist : Seq(Vals), prev : Homes]

(* What a folder that is there is to what is in it.                        *)
LEMMA HomeIsFound ==
  ASSUME NEW tree, IsVault(tree), NEW folder \in Live(tree) \ Entries
  PROVE  folder \in Homes \ {None}
  BY StagingAssumption DEF IsVault, Homes, Ids

(* A tree put together from a vault's parts, each as it has to be.         *)
LEMMA Assembled ==
  ASSUME NEW node, NEW bin \in Bins \cup {None}, NEW tombs, IsFiniteSet(tombs),
         node = [id \in DOMAIN node |-> node[id]],
         DOMAIN node \subseteq Ids \cup {Root}, IsFiniteSet(DOMAIN node),
         \A id \in DOMAIN node : node[id] \in Items(id),
         Root \in DOMAIN node, \A id \in DOMAIN node : id = Root <=> node[id].home = None,
         \A id \in DOMAIN node \ {Root} : node[id].home \in DOMAIN node \ Entries,
         tombs \subseteq Ids, tombs \cap DOMAIN node = {},
         NEW tree, tree = [node |-> node, bin |-> bin, tombs |-> tombs]
  PROVE  IsVault(tree) /\ Live(tree) = DOMAIN node
  <1>1. tree.node = node /\ tree.bin = bin /\ tree.tombs = tombs
    OBVIOUS
  <1>2. Live(tree) = DOMAIN node
    BY <1>1 DEF Live
  <1>3. tombs \subseteq Ids \ DOMAIN node
    OBVIOUS
  <1>4. QED
    BY <1>1, <1>2, <1>3 DEF IsVault, Items

(* Something new is put into the tree, and nothing else changes.           *)
LEMMA PutIsVault ==
  ASSUME NEW tree, IsVault(tree), NEW id \in Ids, id \notin Live(tree) \cup tree.tombs,
         NEW home \in Live(tree) \ Entries, NEW data \in Content(id), NEW bin \in Bins \cup {None},
         NEW grown, grown = [node |-> Put(tree.node, id, Item(home, data)),
                             bin |-> bin, tombs |-> tree.tombs]
  PROVE  /\ IsVault(grown) /\ Live(grown) = Live(tree) \cup {id}
         /\ grown.tombs = tree.tombs /\ grown.bin = bin /\ grown.node[id] = Item(home, data)
         /\ \A x \in Live(tree) : grown.node[x] = tree.node[x]
  <1>1. PICK node : node = Put(tree.node, id, Item(home, data))
    OBVIOUS
  <1>2. /\ DOMAIN node = Live(tree) \cup {id}
        /\ node = [x \in DOMAIN node |-> node[x]]
        /\ node[id] = Item(home, data)
        /\ \A x \in Live(tree) : node[x] = tree.node[x]
    BY <1>1 DEF Put, Live
  <1>3. /\ Item(home, data) \in Items(id) /\ Item(home, data).home = home
        /\ home # None /\ id # Root
    <2>1. home \in Homes \ {None}
      BY HomeIsFound
    <2>2. QED
      BY <2>1, StagingAssumption DEF Item, Items, Homes, Ids
  <1>4. IsFiniteSet(DOMAIN node)
    BY <1>2, FS_AddElement DEF IsVault
  <1>5. /\ \A x \in DOMAIN node : node[x] \in Items(x)
        /\ Root \in DOMAIN node /\ \A x \in DOMAIN node : x = Root <=> node[x].home = None
        /\ \A x \in DOMAIN node \ {Root} : node[x].home \in DOMAIN node \ Entries
        /\ DOMAIN node \subseteq Ids \cup {Root}
        /\ tree.tombs \subseteq Ids /\ tree.tombs \cap DOMAIN node = {} /\ IsFiniteSet(tree.tombs)
    BY <1>2, <1>3 DEF IsVault, Items
  <1>6. grown = [node |-> node, bin |-> bin, tombs |-> tree.tombs]
    BY <1>1
  <1>7. IsVault(grown) /\ Live(grown) = DOMAIN node
    BY <1>2, <1>4, <1>5, <1>6, Assembled
  <1>8. grown.node = node /\ grown.tombs = tree.tombs /\ grown.bin = bin
    BY <1>6
  <1>9. QED
    BY <1>2, <1>7, <1>8

(* An item of the tree gets other fields, and nothing else changes.        *)
LEMMA AlteredIsVault ==
  ASSUME NEW tree, IsVault(tree), NEW id \in Live(tree) \ {Root}, NEW item \in Items(id),
         item.home \in Live(tree) \ Entries,
         NEW node, node = [x \in DOMAIN node |-> node[x]], DOMAIN node = Live(tree),
         node[id] = item, \A x \in Live(tree) \ {id} : node[x] = tree.node[x],
         NEW altered, altered = [node |-> node, bin |-> tree.bin, tombs |-> tree.tombs]
  PROVE  /\ IsVault(altered) /\ Live(altered) = Live(tree)
         /\ altered.tombs = tree.tombs /\ altered.bin = tree.bin /\ altered.node[id] = item
         /\ \A x \in Live(tree) \ {id} : altered.node[x] = tree.node[x]
  <1>1. /\ \A x \in DOMAIN node : node[x] \in Items(x)
        /\ Root \in DOMAIN node /\ \A x \in DOMAIN node : x = Root <=> node[x].home = None
        /\ \A x \in DOMAIN node \ {Root} : node[x].home \in DOMAIN node \ Entries
        /\ DOMAIN node \subseteq Ids \cup {Root} /\ IsFiniteSet(DOMAIN node)
        /\ tree.bin \in Bins \cup {None}
        /\ tree.tombs \subseteq Ids /\ tree.tombs \cap DOMAIN node = {} /\ IsFiniteSet(tree.tombs)
    <2>1. item.home # None
      BY HomeIsFound
    <2>2. \A x \in DOMAIN node : node[x] \in Items(x)
      BY DEF IsVault, Items
    <2>3. Root \in DOMAIN node /\ \A x \in DOMAIN node : x = Root <=> node[x].home = None
      BY <2>1 DEF IsVault
    <2>4. \A x \in DOMAIN node \ {Root} : node[x].home \in DOMAIN node \ Entries
      BY DEF IsVault
    <2>5. /\ DOMAIN node \subseteq Ids \cup {Root} /\ IsFiniteSet(DOMAIN node)
          /\ tree.bin \in Bins \cup {None}
          /\ tree.tombs \subseteq Ids /\ tree.tombs \cap DOMAIN node = {} /\ IsFiniteSet(tree.tombs)
      BY DEF IsVault
    <2>6. QED
      BY <2>2, <2>3, <2>4, <2>5
  <1>2. IsVault(altered) /\ Live(altered) = DOMAIN node
    BY <1>1, Assembled
  <1>3. altered.node = node /\ altered.tombs = tree.tombs /\ altered.bin = tree.bin
    OBVIOUS
  <1>4. QED
    BY <1>2, <1>3

(* Something is taken out of the tree for good, with all that is in it.    *)
LEMMA PurgedIsVault ==
  ASSUME NEW tree, IsVault(tree), NEW ids \in SUBSET (Live(tree) \ {Root}),
         \A x \in Live(tree) : tree.node[x].home \in ids => x \in ids
  PROVE  /\ IsVault(Purged(tree, ids)) /\ Live(Purged(tree, ids)) = Live(tree) \ ids
         /\ Purged(tree, ids).tombs = tree.tombs \cup ids /\ Purged(tree, ids).bin = tree.bin
         /\ \A x \in Live(tree) \ ids : Purged(tree, ids).node[x] = tree.node[x]
  <1>1. PICK gone : gone = Purged(tree, ids)
    OBVIOUS
  <1>2. PICK node : node = Minus(tree.node, ids)
    OBVIOUS
  <1>3. PICK tombs, bin : tombs = tree.tombs \cup ids /\ bin = tree.bin
    OBVIOUS
  <1>4. gone = [node |-> node, bin |-> bin, tombs |-> tombs]
    <2>1. PICK a, b, c : tree = [node |-> a, bin |-> b, tombs |-> c]
      BY Zenon DEF IsVault
    <2>2. gone = [tree EXCEPT !.node = node, !.tombs = tombs]
      BY <1>1, <1>2, <1>3, <2>1 DEF Purged
    <2>3. QED
      BY ONLY <1>3, <2>1, <2>2
  <1>5. /\ DOMAIN node = Live(tree) \ ids
        /\ node = [x \in DOMAIN node |-> node[x]]
        /\ \A x \in Live(tree) \ ids : node[x] = tree.node[x]
    BY <1>2 DEF Minus, Live
  <1>6. IsFiniteSet(DOMAIN node) /\ IsFiniteSet(tombs)
    <2>1. IsFiniteSet(Live(tree)) /\ IsFiniteSet(tree.tombs)
      BY DEF IsVault
    <2>2. IsFiniteSet(ids)
      BY <2>1, FS_Subset
    <2>3. QED
      BY <1>3, <1>5, <2>1, <2>2, FS_Subset, FS_Union
  <1>7. /\ \A x \in DOMAIN node : node[x] \in Items(x)
        /\ Root \in DOMAIN node /\ \A x \in DOMAIN node : x = Root <=> node[x].home = None
        /\ \A x \in DOMAIN node \ {Root} : node[x].home \in DOMAIN node \ Entries
        /\ DOMAIN node \subseteq Ids \cup {Root}
        /\ bin \in Bins \cup {None}
        /\ tombs \subseteq Ids /\ tombs \cap DOMAIN node = {}
    BY <1>3, <1>5 DEF IsVault, Items
  <1>8. IsVault(gone) /\ Live(gone) = DOMAIN node
    BY ONLY <1>4, <1>5, <1>6, <1>7, Assembled
  <1>9. gone.node = node /\ gone.tombs = tombs /\ gone.bin = tree.bin
    BY <1>3, <1>4
  <1>10. QED
    BY <1>1, <1>3, <1>5, <1>8, <1>9

(* An item taken elsewhere remembers the folder it left.                   *)
LEMMA RelocatedIsVault ==
  ASSUME NEW tree, IsVault(tree), NEW id \in Live(tree) \ {Root}, NEW dest \in Live(tree) \ Entries
  PROVE  LET moved == Relocated(tree, id, dest)
         IN  /\ IsVault(moved) /\ Live(moved) = Live(tree)
             /\ moved.tombs = tree.tombs /\ moved.bin = tree.bin
             /\ moved.node[id].home = dest /\ moved.node[id].prev = tree.node[id].home
             /\ moved.node[id].data = tree.node[id].data
             /\ moved.node[id].hist = tree.node[id].hist
             /\ \A x \in Live(tree) \ {id} : moved.node[x] = tree.node[x]
  <1>1. PICK moved : moved = Relocated(tree, id, dest)
    OBVIOUS
  <1>2. PICK h, d, s, p : tree.node[id] = [home |-> h, data |-> d, hist |-> s, prev |-> p]
    BY DEF IsVault
  <1>3. /\ h \in Homes /\ d \in Content(id) /\ s \in Seq(Vals)
        /\ tree.node[id].home = h /\ tree.node[id].data = d /\ tree.node[id].hist = s
    BY <1>2 DEF IsVault
  <1>4. PICK item : item = [home |-> dest, data |-> d, hist |-> s, prev |-> h]
    OBVIOUS
  <1>5. item \in Items(id) /\ item.home = dest
    BY <1>3, <1>4, HomeIsFound DEF Items
  <1>6. PICK node : node = [tree.node EXCEPT ![id] = item]
    OBVIOUS
  <1>7. moved = [node |-> node, bin |-> tree.bin, tombs |-> tree.tombs]
    <2>1. PICK a, b, c : tree = [node |-> a, bin |-> b, tombs |-> c]
      BY Zenon DEF IsVault
    <2>2. id \in DOMAIN a
      BY <2>1 DEF Live
    <2>3. a[id] = [home |-> h, data |-> d, hist |-> s, prev |-> p]
      BY <1>2, <2>1
    <2>4. PICK half, once : /\ half = [home |-> dest, data |-> d, hist |-> s, prev |-> p]
                            /\ once = [tree EXCEPT !.node[id].home = dest]
      OBVIOUS
    <2>5. once = [node |-> [a EXCEPT ![id] = half], bin |-> b, tombs |-> c]
      BY ONLY <2>1, <2>2, <2>3, <2>4
    <2>6. moved = [once EXCEPT !.node[id].prev = h]
      BY <1>1, <1>3, <2>4 DEF Relocated
    <2>7. moved = [node |-> [a EXCEPT ![id] = item], bin |-> b, tombs |-> c]
      BY ONLY <1>4, <2>2, <2>4, <2>5, <2>6
    <2>8. QED
      BY <1>6, <2>1, <2>7
  <1>8. /\ IsVault(moved) /\ Live(moved) = Live(tree)
        /\ moved.tombs = tree.tombs /\ moved.bin = tree.bin
        /\ moved.node[id] = item
        /\ \A x \in Live(tree) \ {id} : moved.node[x] = tree.node[x]
    <2>1. /\ DOMAIN node = Live(tree) /\ node = [x \in DOMAIN node |-> node[x]]
          /\ node[id] = item /\ \A x \in Live(tree) \ {id} : node[x] = tree.node[x]
      BY <1>6 DEF Live
    <2>2. QED
      BY <1>5, <1>7, <2>1, AlteredIsVault
  <1>9. item.home = dest /\ item.data = d /\ item.hist = s /\ item.prev = h
    BY <1>4
  <1>10. QED
    BY <1>1, <1>3, <1>8, <1>9

(* After the recycle bin was asked for it is there, made in the root if it  *)
(* was not, and nothing else changed.                                      *)
LEMMA RecycleBinIsThere ==
  ASSUME BinsLast, NEW tree, IsVault(tree)
  PROVE  LET binned == RecycleBin(tree)
         IN  /\ IsVault(binned) /\ binned.bin \in Live(binned) \cap Bins
             /\ Live(tree) \subseteq Live(binned) /\ Live(binned) \subseteq Live(tree) \cup Bins
             /\ binned.tombs = tree.tombs
             /\ tree.bin \in Live(tree) => binned.bin = tree.bin
             /\ binned.bin # tree.bin => binned.bin \notin Live(tree) \cup tree.tombs
             /\ \A x \in Live(tree) : binned.node[x] = tree.node[x]
             /\ \A x \in Live(binned) \ Live(tree) : binned.node[x].home = Root
  <1>1. CASE tree.bin # None /\ FindGroup(tree, tree.bin)
    <2>1. RecycleBin(tree) = tree
      BY <1>1 DEF RecycleBin
    <2>2. tree.bin \in Bins /\ tree.bin \in Live(tree)
      BY <1>1 DEF IsVault, FindGroup, Has, Resolve
    <2>3. QED
      BY <2>1, <2>2
  <1>2. CASE ~(tree.bin # None /\ FindGroup(tree, tree.bin))
    <2>1. PICK made : made = CHOOSE b \in Bins : ~Has(tree, b) /\ b \notin tree.tombs
      OBVIOUS
    <2>2. made \in Bins /\ made \notin Live(tree) \cup tree.tombs
      <3>1. IsFiniteSet(Live(tree) \cup tree.tombs)
        BY FS_Union DEF IsVault
      <3>2. ~(Bins \subseteq Live(tree) \cup tree.tombs)
        BY <3>1, FS_Subset DEF BinsLast
      <3>3. PICK b \in Bins : ~Has(tree, b) /\ b \notin tree.tombs
        BY <3>2 DEF Has
      <3>4. made \in Bins /\ ~Has(tree, made) /\ made \notin tree.tombs
        BY <2>1, <3>3
      <3>5. QED
        BY <3>4 DEF Has
    <2>3. PICK binned : binned = RecycleBin(tree)
      OBVIOUS
    <2>4. binned = [node |-> Put(tree.node, made, Item(Root, BinName)), bin |-> made,
                    tombs |-> tree.tombs]
      <3>1. PICK a, b, c : tree = [node |-> a, bin |-> b, tombs |-> c]
        BY Zenon DEF IsVault
      <3>2. PICK grown : grown = Put(tree.node, made, Item(Root, BinName))
        OBVIOUS
      <3>3. binned = [tree EXCEPT !.node = grown, !.bin = made]
        BY <1>2, <2>1, <2>3, <3>1, <3>2 DEF RecycleBin
      <3>4. binned = [node |-> grown, bin |-> made, tombs |-> c]
        BY ONLY <3>1, <3>3
      <3>5. QED
        BY <3>1, <3>2, <3>4
    <2>5. /\ made \in Ids /\ Root \in Live(tree) \ Entries
          /\ BinName \in Content(made) /\ made \in Bins \cup {None}
      BY <2>2, StagingAssumption DEF Ids, Content, IsEntry, IsVault
    <2>6. /\ IsVault(binned) /\ Live(binned) = Live(tree) \cup {made}
          /\ binned.tombs = tree.tombs /\ binned.bin = made
          /\ binned.node[made] = Item(Root, BinName)
          /\ \A x \in Live(tree) : binned.node[x] = tree.node[x]
      BY <2>2, <2>4, <2>5, PutIsVault
    <2>7. Item(Root, BinName).home = Root
      BY DEF Item
    <2>8. tree.bin \notin Live(tree)
      BY <1>2, StagingAssumption DEF IsVault, FindGroup, Has, Resolve, IsEntry, Ids
    <2>9. QED
      BY <2>2, <2>3, <2>6, <2>7, <2>8
  <1>3. QED
    BY <1>1, <1>2

(* One more record of the past is a list of values.                        *)
LEMMA HistoryOfValues ==
  ASSUME NEW hist \in Seq(Vals), NEW val \in Vals
  PROVE  PushHistory(hist, val) \in Seq(Vals)
  <1>1. HistoryMaxItems \in Int
    BY StagingAssumption
  <1>2. PICK all : all = Append(hist, val)
    OBVIOUS
  <1>3. all \in Seq(Vals)
    BY <1>2
  <1>4. ASSUME HistoryMaxItems > 0, Len(all) > HistoryMaxItems
        PROVE  SubSeq(all, Len(all) - HistoryMaxItems + 1, Len(all)) \in Seq(Vals)
    <2>1. Len(all) \in Nat /\ Len(all) - HistoryMaxItems + 1 \in 1 .. Len(all)
      BY <1>1, <1>3, <1>4
    <2>2. \A i \in (Len(all) - HistoryMaxItems + 1) .. Len(all) : all[i] \in Vals
      BY <1>3, <2>1
    <2>3. QED
      BY <1>3, <2>1, <2>2
  <1>5. QED
    BY <1>2, <1>3, <1>4 DEF PushHistory

-----------------------------------------------------------------------------
(* What performing one operation does.                                     *)

(* An operation with fields of their types, on an item of its sort.        *)
Typed(op) ==
  /\ op.kind \in {"CreateEntry", "EditEntry", "MoveEntry", "DeleteEntry",
                  "CreateGroup", "RenameGroup", "MoveGroup", "DeleteGroup"}
  /\ op.source = Source /\ op.target \in Ids /\ op.parent \in Homes
  /\ op.name \in Names \cup {NewName, None}
  /\ op.was \in Names \cup Folders \cup {NewName, BinName, Root, None}
  /\ op.before \in Drafts \cup {None} /\ op.after \in Drafts \cup {None}
  /\ op.perm \in BOOLEAN
  /\ op.kind \in {"CreateEntry", "EditEntry"} => op.target \in Entries /\ op.after \in Drafts
  /\ op.kind \in {"MoveEntry", "DeleteEntry"} => op.target \in Entries
  /\ op.kind \in {"CreateGroup", "RenameGroup", "MoveGroup", "DeleteGroup"} => op.target \in Folders

WayOut   == MoveKinds \cup DeleteKinds
Rewrites == {"EditEntry", "RenameGroup"}

(* What an operation that says so makes its target hold.                   *)
Says(op) == IF op.kind \in {"CreateEntry", "EditEntry"} THEN op.after.val ELSE op.name

(* Where things are and what they hold afterwards: a move or a creation     *)
(* puts its target where it says, an edit or a rename makes it hold what it *)
(* says, a bin is made in the root, and only a deletion removes anything:   *)
(* its target, or all that is under it.                                    *)
Places(tree, after, op) ==
  /\ after.tombs \subseteq tree.tombs \cup Live(tree)
  /\ op.kind \in MoveKinds \cup CreateKinds =>
       op.target \in Live(after) /\ after.node[op.target].home = Resolve(op.parent)
  /\ op.kind \in Rewrites \cup CreateKinds =>
       op.target \in Live(after) /\ after.node[op.target].data = Says(op)
  /\ \A id \in Live(tree) \cap Live(after) :
       id # op.target \/ op.kind \notin Rewrites => after.node[id].data = tree.node[id].data
  /\ \A id \in Live(after) \ Live(tree) :
       (op.kind \in CreateKinds /\ id = op.target) \/ after.node[id].home = Root
  /\ \A id \in Live(tree) \ Live(after) :
       /\ op.kind \in DeleteKinds
       /\ \/ id = op.target
          \/ /\ id \in Subtree(tree.node, op.target)
             /\ Subtree(tree.node, op.target) \cap Live(after) = {}

(* A deletion takes its target out for good or to the recycle bin, which is *)
(* the recorded one if that is there, and else a new one.                  *)
Discards(tree, after, op) ==
  /\ tree.bin \in Live(tree) => after.bin = tree.bin
  /\ after.bin # tree.bin => after.bin \notin Live(tree) \cup tree.tombs
  /\ op.kind \in DeleteKinds =>
       IF op.perm \/ ~BinEnabled THEN op.target \notin Live(after)
       ELSE /\ Live(tree) \subseteq Live(after) /\ after.bin \in Live(after)
            /\ after.node[op.target].home = after.bin

(* One operation relocates, edits or removes nothing but its target and     *)
(* what is in it; what it relocates remembers the folder it left; what it   *)
(* removes is recorded; and it adds nothing but its target and a bin.      *)
Performs(tree, after, op) ==
  /\ IsVault(after)
  /\ Live(tree) \subseteq Live(after) \cup after.tombs /\ tree.tombs \subseteq after.tombs
  /\ Live(after) \cup after.tombs
       \subseteq Live(tree) \cup tree.tombs \cup Bins \cup Targets(OfKind({op}, CreateKinds))
  /\ \A id \in Live(tree) \cap Live(after) :
       LET was == tree.node[id]
           is  == after.node[id]
       IN  /\ id # op.target \/ op.kind \notin WayOut => is.home = was.home /\ is.prev = was.prev
           /\ is.home # was.home => is.prev = was.home
           /\ IsEntry(id) =>
                IF id = op.target /\ op.kind = "EditEntry"
                THEN is.data = op.after.val /\ is.hist = PushHistory(was.hist, was.data)
                ELSE is.data = was.data /\ is.hist = was.hist
  /\ Places(tree, after, op)
  /\ Discards(tree, after, op)

(* Nothing but the items named changes: what is common to the kinds.       *)
LEMMA PutPerforms ==
  ASSUME NEW tree, IsVault(tree), NEW op, op.kind \in CreateKinds,
         op.target \in Ids, op.target \notin Live(tree) \cup tree.tombs,
         NEW home \in Live(tree) \ Entries, NEW data \in Content(op.target),
         home = Resolve(op.parent), data = Says(op),
         NEW after, after = [tree EXCEPT !.node = Put(@, op.target, Item(home, data))]
  PROVE  Performs(tree, after, op)
  <1>1. PICK a, b, c : tree = [node |-> a, bin |-> b, tombs |-> c]
    BY Zenon DEF IsVault
  <1>2. PICK grown : grown = Put(a, op.target, Item(home, data))
    OBVIOUS
  <1>3. after = [tree EXCEPT !.node = grown]
    BY <1>1, <1>2
  <1>4. after = [node |-> grown, bin |-> b, tombs |-> c]
    BY ONLY <1>1, <1>3
  <1>5. b \in Bins \cup {None}
    BY <1>1 DEF IsVault
  <1>6. /\ IsVault(after) /\ Live(after) = Live(tree) \cup {op.target}
        /\ after.tombs = tree.tombs /\ after.bin = tree.bin /\ after.node[op.target] = Item(home, data)
        /\ \A x \in Live(tree) : after.node[x] = tree.node[x]
    BY <1>1, <1>2, <1>4, <1>5, PutIsVault
  <1>7. /\ op.kind # "EditEntry" /\ op.kind \notin DeleteKinds
        /\ Targets(OfKind({op}, CreateKinds)) = {op.target}
    BY DEF CreateKinds, DeleteKinds, Targets, OfKind
  <1>8. Places(tree, after, op)
    <2>1. after.node[op.target].home = Resolve(op.parent) /\ after.node[op.target].data = Says(op)
      BY <1>6 DEF Item
    <2>2. QED
      BY <1>6, <2>1 DEF Places
  <1>9. Discards(tree, after, op)
    BY <1>6, <1>7 DEF Discards
  <1>10. QED
    BY <1>6, <1>7, <1>8, <1>9 DEF Performs

LEMMA RelocatedPerforms ==
  ASSUME NEW tree, IsVault(tree), NEW op, op.kind \in WayOut, op.target \in Live(tree) \ {Root},
         NEW dest \in Live(tree) \ Entries,
         op.kind \in MoveKinds => dest = Resolve(op.parent),
         op.kind \in DeleteKinds => dest = tree.bin /\ ~op.perm /\ BinEnabled
  PROVE  Performs(tree, Relocated(tree, op.target, dest), op)
  <1>1. PICK after : after = Relocated(tree, op.target, dest)
    OBVIOUS
  <1>2. /\ IsVault(after) /\ Live(after) = Live(tree)
        /\ after.tombs = tree.tombs /\ after.bin = tree.bin
        /\ after.node[op.target].prev = tree.node[op.target].home
        /\ after.node[op.target].home = dest
        /\ after.node[op.target].data = tree.node[op.target].data
        /\ after.node[op.target].hist = tree.node[op.target].hist
        /\ \A x \in Live(tree) \ {op.target} : after.node[x] = tree.node[x]
    BY <1>1, RelocatedIsVault
  <1>3. op.kind \notin Rewrites \cup CreateKinds /\ op.kind # "EditEntry"
    BY DEF WayOut, MoveKinds, DeleteKinds, Rewrites, CreateKinds
  <1>4. Places(tree, after, op)
    BY <1>2, <1>3 DEF Places
  <1>5. Discards(tree, after, op)
    BY <1>2 DEF Discards
  <1>6. QED
    BY <1>1, <1>2, <1>3, <1>4, <1>5 DEF Performs

LEMMA PurgedPerforms ==
  ASSUME NEW tree, IsVault(tree), NEW op, op.kind \in DeleteKinds, op.perm \/ ~BinEnabled,
         NEW ids \in SUBSET (Live(tree) \ {Root}), op.target \in ids,
         ids = {op.target} \/ ids = Subtree(tree.node, op.target),
         \A x \in Live(tree) : tree.node[x].home \in ids => x \in ids
  PROVE  Performs(tree, Purged(tree, ids), op)
  <1>1. PICK after : after = Purged(tree, ids)
    OBVIOUS
  <1>2. /\ IsVault(after) /\ Live(after) = Live(tree) \ ids
        /\ after.tombs = tree.tombs \cup ids /\ after.bin = tree.bin
        /\ \A x \in Live(tree) \ ids : after.node[x] = tree.node[x]
    BY <1>1, PurgedIsVault
  <1>3. op.kind \notin Rewrites \cup MoveKinds \cup CreateKinds /\ op.kind # "EditEntry"
    BY DEF DeleteKinds, Rewrites, MoveKinds, CreateKinds
  <1>4. Places(tree, after, op)
    BY <1>2, <1>3 DEF Places
  <1>5. Discards(tree, after, op)
    BY <1>2 DEF Discards
  <1>6. QED
    BY <1>1, <1>2, <1>3, <1>4, <1>5 DEF Performs

(* A tree left as it is.                                                   *)
LEMMA StillPerforms ==
  ASSUME NEW tree, IsVault(tree), NEW op, op.kind \in MoveKinds, op.target \in Live(tree),
         tree.node[op.target].home = Resolve(op.parent)
  PROVE  Performs(tree, tree, op)
  BY DEF Performs, Places, Discards, MoveKinds, DeleteKinds, Rewrites, CreateKinds

(* To the recycle bin: first the bin, then the item, if it is not there.   *)
LEMMA BinnedPerforms ==
  ASSUME BinsLast, NEW tree, IsVault(tree), NEW op, op.kind \in DeleteKinds,
         ~op.perm, BinEnabled, op.target \in Live(tree) \ {Root}
  PROVE  LET binned == RecycleBin(tree)
         IN  /\ tree.node[op.target].home = binned.bin => Performs(tree, binned, op)
             /\ Performs(tree, Relocated(binned, op.target, binned.bin), op)
  <1>1. PICK binned : binned = RecycleBin(tree)
    OBVIOUS
  <1>2. /\ IsVault(binned) /\ binned.bin \in Live(binned) \cap Bins
        /\ Live(tree) \subseteq Live(binned) /\ Live(binned) \subseteq Live(tree) \cup Bins
        /\ binned.tombs = tree.tombs
        /\ tree.bin \in Live(tree) => binned.bin = tree.bin
        /\ binned.bin # tree.bin => binned.bin \notin Live(tree) \cup tree.tombs
        /\ \A x \in Live(tree) : binned.node[x] = tree.node[x]
        /\ \A x \in Live(binned) \ Live(tree) : binned.node[x].home = Root
    BY <1>1, RecycleBinIsThere
  <1>3. /\ op.kind # "EditEntry" /\ op.kind \in WayOut
        /\ op.kind \notin Rewrites \cup MoveKinds \cup CreateKinds
    BY DEF DeleteKinds, WayOut, Rewrites, MoveKinds, CreateKinds
  <1>4. ASSUME tree.node[op.target].home = binned.bin PROVE Performs(tree, binned, op)
    <2>1. Places(tree, binned, op)
      BY <1>2, <1>3 DEF Places
    <2>2. Discards(tree, binned, op)
      BY <1>2, <1>4 DEF Discards
    <2>3. QED
      BY <1>2, <1>3, <2>1, <2>2 DEF Performs
  <1>5. PICK after : after = Relocated(binned, op.target, binned.bin)
    OBVIOUS
  <1>6. op.target \in Live(binned) \ {Root} /\ binned.bin \in Live(binned) \ Entries
    BY <1>2, StagingAssumption
  <1>7. Performs(binned, after, op)
    BY <1>2, <1>3, <1>5, <1>6, RelocatedPerforms
  <1>8. /\ Live(after) = Live(binned) /\ after.tombs = binned.tombs
        /\ after.bin = binned.bin /\ after.node[op.target].home = binned.bin
    BY <1>2, <1>5, <1>6, RelocatedIsVault
  <1>9. Performs(tree, after, op)
    <2>1. \A x \in Live(after) \ Live(tree) : after.node[x].home = Root
      BY <1>2, <1>5, <1>6, <1>8, RelocatedIsVault
    <2>2. Places(tree, after, op)
      BY <1>2, <1>3, <1>7, <1>8, <2>1 DEF Performs, Places
    <2>3. Discards(tree, after, op)
      BY <1>2, <1>8 DEF Discards
    <2>4. QED
      BY <1>2, <1>3, <1>7, <1>8, <2>2, <2>3 DEF Performs
  <1>10. QED
    BY <1>1, <1>4, <1>5, <1>9

LEMMA UpdatePerforms ==
  ASSUME NEW tree, IsVault(tree), NEW op, op.kind = "EditEntry", op.target \in Entries,
         op.after \in Drafts, UpdateEntry(tree, op.target, op.after).ok
  PROVE  Performs(tree, UpdateEntry(tree, op.target, op.after).tree, op) /\ op.target \in Live(tree)
  <1>1. PICK id, draft : id = op.target /\ draft = op.after
    OBVIOUS
  <1>2. FindEntry(tree, id)
    BY <1>1 DEF UpdateEntry, Failed
  <1>3. id \in Live(tree) \ {Root} /\ id \in Entries
    BY <1>1, <1>2, StagingAssumption DEF FindEntry, Has
  <1>4. PICK h, d, s, p : tree.node[id] = [home |-> h, data |-> d, hist |-> s, prev |-> p]
    BY <1>3 DEF IsVault
  <1>5. /\ h \in Homes \ {None} /\ d \in Vals /\ s \in Seq(Vals) /\ p \in Homes
        /\ tree.node[id].home = h /\ tree.node[id].data = d
        /\ tree.node[id].hist = s /\ tree.node[id].prev = p
    BY <1>3, <1>4 DEF IsVault, Content, IsEntry
  <1>6. PICK after, longer :
          /\ longer = PushHistory(s, d)
          /\ after = UpdateEntry(tree, id, draft).tree
    OBVIOUS
  <1>7. PICK item : item = [home |-> h, data |-> draft.val, hist |-> longer, prev |-> p]
    OBVIOUS
  <1>8. item \in Items(id) /\ item.home \in Live(tree) \ Entries
    <2>1. draft.val \in Vals
      BY <1>1 DEF Drafts
    <2>2. longer \in Seq(Vals)
      BY <1>5, <1>6, HistoryOfValues
    <2>3. item.home \in Live(tree) \ Entries
      BY <1>3, <1>5, <1>7 DEF IsVault
    <2>4. QED
      BY <1>3, <1>5, <1>7, <2>1, <2>2, <2>3 DEF Items, Content, IsEntry
  <1>9. PICK node : node = [tree.node EXCEPT ![id] = item]
    OBVIOUS
  <1>10. after = [node |-> node, bin |-> tree.bin, tombs |-> tree.tombs]
    <2>1. PICK a, b, c : tree = [node |-> a, bin |-> b, tombs |-> c]
      BY Zenon DEF IsVault
    <2>2. id \in DOMAIN a
      BY <1>3, <2>1 DEF Live
    <2>3. a[id] = [home |-> h, data |-> d, hist |-> s, prev |-> p]
      BY <1>4, <2>1
    <2>4. PICK half, once : /\ half = [home |-> h, data |-> d, hist |-> longer, prev |-> p]
                            /\ once = [tree EXCEPT !.node[id].hist = longer]
      OBVIOUS
    <2>5. once = [node |-> [a EXCEPT ![id] = half], bin |-> b, tombs |-> c]
      BY ONLY <2>1, <2>2, <2>3, <2>4
    <2>6. after = [once EXCEPT !.node[id].data = draft.val]
      BY <1>2, <1>5, <1>6, <2>4 DEF UpdateEntry, Done
    <2>7. after = [node |-> [a EXCEPT ![id] = item], bin |-> b, tombs |-> c]
      BY ONLY <1>7, <2>2, <2>4, <2>5, <2>6
    <2>8. QED
      BY <1>9, <2>1, <2>7
  <1>11. /\ IsVault(after) /\ Live(after) = Live(tree)
         /\ after.tombs = tree.tombs /\ after.bin = tree.bin /\ after.node[id] = item
         /\ \A x \in Live(tree) \ {id} : after.node[x] = tree.node[x]
    <2>1. /\ DOMAIN node = Live(tree) /\ node = [x \in DOMAIN node |-> node[x]]
          /\ node[id] = item /\ \A x \in Live(tree) \ {id} : node[x] = tree.node[x]
      BY <1>3, <1>9 DEF Live
    <2>2. QED
      BY <1>3, <1>8, <1>10, <2>1, AlteredIsVault
  <1>12. item.home = h /\ item.data = draft.val /\ item.hist = longer /\ item.prev = p
    BY <1>7
  <1>13. Performs(tree, after, op)
    <2>1. ASSUME NEW x \in Live(tree) \cap Live(after)
          PROVE  LET was == tree.node[x]
                     is  == after.node[x]
                 IN  /\ is.home = was.home /\ is.prev = was.prev
                     /\ IF x = op.target
                        THEN is.data = op.after.val /\ is.hist = PushHistory(was.hist, was.data)
                        ELSE is.data = was.data /\ is.hist = was.hist
      <3>1. CASE x = id
        BY <1>1, <1>5, <1>6, <1>11, <1>12, <3>1
      <3>2. CASE x # id
        BY <1>1, <1>11, <3>2
      <3>3. QED
        BY <3>1, <3>2
    <2>2. op.kind \in Rewrites \ (MoveKinds \cup CreateKinds \cup DeleteKinds) /\ Says(op) = op.after.val
      BY DEF MoveKinds, CreateKinds, DeleteKinds, Rewrites, Says
    <2>3. Places(tree, after, op)
      BY <1>1, <1>3, <1>11, <1>12, <2>2 DEF Places
    <2>4. Discards(tree, after, op)
      BY <1>11, <2>2 DEF Discards
    <2>5. QED
      BY <1>11, <2>1, <2>3, <2>4 DEF Performs
  <1>14. QED
    BY <1>1, <1>3, <1>6, <1>13

LEMMA RenamePerforms ==
  ASSUME NEW tree, IsVault(tree), NEW op, op.kind = "RenameGroup", op.target \in Folders,
         op.name \in Names \cup {NewName, None}, RenameGroup(tree, op.target, op.name).ok
  PROVE  Performs(tree, RenameGroup(tree, op.target, op.name).tree, op) /\ op.target \in Live(tree)
  <1>1. PICK id, name : id = op.target /\ name = op.name
    OBVIOUS
  <1>2. FindGroup(tree, id) /\ name # None /\ Resolve(id) = id
    BY <1>1, StagingAssumption DEF RenameGroup, Failed, Resolve
  <1>3. id \in Live(tree) \ {Root} /\ ~IsEntry(id)
    BY <1>1, <1>2, StagingAssumption DEF FindGroup, Has
  <1>4. PICK h, d, s, p : tree.node[id] = [home |-> h, data |-> d, hist |-> s, prev |-> p]
    BY <1>3 DEF IsVault
  <1>5. /\ h \in Homes \ {None} /\ s \in Seq(Vals) /\ p \in Homes
        /\ tree.node[id].home = h /\ tree.node[id].prev = p
    BY <1>3, <1>4 DEF IsVault
  <1>6. PICK after : after = RenameGroup(tree, id, name).tree
    OBVIOUS
  <1>7. PICK item : item = [home |-> h, data |-> name, hist |-> s, prev |-> p]
    OBVIOUS
  <1>8. item \in Items(id) /\ item.home \in Live(tree) \ Entries
    <2>1. item.home \in Live(tree) \ Entries
      BY <1>3, <1>5, <1>7 DEF IsVault
    <2>2. QED
      BY <1>1, <1>2, <1>3, <1>5, <1>7, <2>1 DEF Items, Content
  <1>9. PICK node : node = [tree.node EXCEPT ![id] = item]
    OBVIOUS
  <1>10. after = [node |-> node, bin |-> tree.bin, tombs |-> tree.tombs]
    <2>1. PICK a, b, c : tree = [node |-> a, bin |-> b, tombs |-> c]
      BY Zenon DEF IsVault
    <2>2. id \in DOMAIN a
      BY <1>3, <2>1 DEF Live
    <2>3. a[id] = [home |-> h, data |-> d, hist |-> s, prev |-> p]
      BY <1>4, <2>1
    <2>4. after = [tree EXCEPT !.node[id].data = name]
      BY <1>2, <1>6 DEF RenameGroup, Done
    <2>5. after = [node |-> [a EXCEPT ![id] = item], bin |-> b, tombs |-> c]
      BY ONLY <1>7, <2>1, <2>2, <2>3, <2>4
    <2>6. QED
      BY <1>9, <2>1, <2>5
  <1>11. /\ IsVault(after) /\ Live(after) = Live(tree)
         /\ after.tombs = tree.tombs /\ after.bin = tree.bin /\ after.node[id] = item
         /\ \A x \in Live(tree) \ {id} : after.node[x] = tree.node[x]
    <2>1. /\ DOMAIN node = Live(tree) /\ node = [x \in DOMAIN node |-> node[x]]
          /\ node[id] = item /\ \A x \in Live(tree) \ {id} : node[x] = tree.node[x]
      BY <1>3, <1>9 DEF Live
    <2>2. QED
      BY <1>3, <1>8, <1>10, <2>1, AlteredIsVault
  <1>12. item.home = h /\ item.prev = p /\ item.data = name
    BY <1>7
  <1>13. Performs(tree, after, op)
    <2>1. op.kind \in Rewrites \ (MoveKinds \cup CreateKinds \cup DeleteKinds) /\ Says(op) = op.name
      BY DEF MoveKinds, CreateKinds, DeleteKinds, Rewrites, Says
    <2>2. Places(tree, after, op)
      BY <1>1, <1>3, <1>11, <1>12, <2>1 DEF Places
    <2>3. Discards(tree, after, op)
      BY <1>11, <2>1 DEF Discards
    <2>4. QED
      BY <1>1, <1>3, <1>5, <1>11, <1>12, <2>2, <2>3 DEF Performs
  <1>14. QED
    BY <1>1, <1>3, <1>6, <1>13

(* A destination that is found is one.                                     *)
LEMMA FoundIsHome ==
  ASSUME NEW tree, NEW folder, FindGroup(tree, folder)
  PROVE  Resolve(folder) \in Live(tree) \ Entries
  BY DEF FindGroup, Has, IsEntry

LEMMA MovePerforms ==
  ASSUME NEW tree, IsVault(tree), NEW op, op.kind \in MoveKinds, op.target \in Ids,
         op.parent \in Homes
  PROVE  LET entry  == MoveEntry(tree, op.target, op.parent)
             folder == MoveGroup(tree, op.target, op.parent)
         IN  /\ entry.ok => Performs(tree, entry.tree, op) /\ op.target \in Live(tree)
             /\ folder.ok => Performs(tree, folder.tree, op) /\ op.target \in Live(tree)
  <1>1. op.kind # "EditEntry" /\ op.kind \in WayOut /\ op.kind \notin DeleteKinds
    BY DEF MoveKinds, DeleteKinds, WayOut
  <1>2. op.target # Root /\ Resolve(op.target) = op.target
    BY StagingAssumption DEF Ids, Resolve
  <1>3. ASSUME MoveEntry(tree, op.target, op.parent).ok
        PROVE  Performs(tree, MoveEntry(tree, op.target, op.parent).tree, op) /\ op.target \in Live(tree)
    <2>1. FindEntry(tree, op.target) /\ FindGroup(tree, op.parent)
      BY <1>3 DEF MoveEntry, Failed
    <2>2. op.target \in Live(tree) \ {Root} /\ Resolve(op.parent) \in Live(tree) \ Entries
      BY <1>2, <2>1, FoundIsHome DEF FindEntry, Has
    <2>3. CASE tree.node[op.target].home = Resolve(op.parent)
      <3>1. MoveEntry(tree, op.target, op.parent).tree = tree
        BY <2>1, <2>3 DEF MoveEntry, Done
      <3>2. QED
        BY <1>1, <2>2, <2>3, <3>1, StillPerforms
    <2>4. CASE tree.node[op.target].home # Resolve(op.parent)
      <3>1. MoveEntry(tree, op.target, op.parent).tree = Relocated(tree, op.target, Resolve(op.parent))
        BY <2>1, <2>4 DEF MoveEntry, Done
      <3>2. QED
        BY <1>1, <2>2, <3>1, RelocatedPerforms
    <2>5. QED
      BY <2>3, <2>4
  <1>4. ASSUME MoveGroup(tree, op.target, op.parent).ok
        PROVE  Performs(tree, MoveGroup(tree, op.target, op.parent).tree, op) /\ op.target \in Live(tree)
    <2>1. /\ FindGroup(tree, op.target) /\ FindGroup(tree, op.parent)
          /\ MoveGroup(tree, op.target, op.parent).tree = Relocated(tree, op.target, Resolve(op.parent))
      BY <1>4 DEF MoveGroup, Failed, Done
    <2>2. op.target \in Live(tree) \ {Root} /\ Resolve(op.parent) \in Live(tree) \ Entries
      BY <1>2, <2>1, FoundIsHome DEF FindGroup, Has
    <2>3. QED
      BY <1>1, <2>1, <2>2, RelocatedPerforms
  <1>5. QED
    BY <1>3, <1>4

LEMMA DeletePerforms ==
  ASSUME BinsLast, NEW tree, IsVault(tree), NEW op, op.kind \in DeleteKinds, op.target \in Ids
  PROVE  LET entry  == DeleteEntry(tree, op.target, op.perm)
             folder == DeleteGroup(tree, op.target, op.perm)
         IN  /\ entry.ok => Performs(tree, entry.tree, op) /\ op.target \in Live(tree)
             /\ folder.ok => Performs(tree, folder.tree, op) /\ op.target \in Live(tree)
  <1>1. op.target # Root /\ Resolve(op.target) = op.target
    BY StagingAssumption DEF Ids, Resolve
  <1>2. PICK id, binned : id = op.target /\ binned = RecycleBin(tree)
    OBVIOUS
  <1>3. ASSUME id \in Live(tree), ~(op.perm \/ ~BinEnabled)
        PROVE  /\ tree.node[id].home = binned.bin => Performs(tree, binned, op)
               /\ Performs(tree, Relocated(binned, id, binned.bin), op)
    BY <1>1, <1>2, <1>3, BinnedPerforms
  <1>4. ASSUME DeleteEntry(tree, id, op.perm).ok
        PROVE  Performs(tree, DeleteEntry(tree, id, op.perm).tree, op) /\ id \in Live(tree)
    <2>1. FindEntry(tree, id)
      BY <1>4 DEF DeleteEntry, Failed
    <2>2. id \in Live(tree)
      BY <2>1 DEF FindEntry, Has
    <2>3. CASE op.perm \/ ~BinEnabled
      <3>1. DeleteEntry(tree, id, op.perm).tree = Purged(tree, {id})
        BY <2>1, <2>3 DEF DeleteEntry, Done
      <3>2. {id} \in SUBSET (Live(tree) \ {Root})
        BY <1>1, <1>2, <2>2
      <3>3. \A x \in Live(tree) : tree.node[x].home \notin {id}
        BY <2>1, StagingAssumption DEF IsVault, FindEntry, IsEntry
      <3>4. QED
        BY <1>2, <2>2, <2>3, <3>1, <3>2, <3>3, PurgedPerforms
    <2>4. CASE ~(op.perm \/ ~BinEnabled)
      <3>1. DeleteEntry(tree, id, op.perm).tree =
              IF tree.node[id].home = binned.bin THEN binned ELSE Relocated(binned, id, binned.bin)
        BY <1>2, <2>1, <2>4 DEF DeleteEntry, Done
      <3>2. QED
        BY <1>3, <2>2, <2>4, <3>1
    <2>5. QED
      BY <2>3, <2>4
  <1>5. ASSUME DeleteGroup(tree, id, op.perm).ok
        PROVE  Performs(tree, DeleteGroup(tree, id, op.perm).tree, op) /\ id \in Live(tree)
    <2>1. FindGroup(tree, id) /\ Resolve(id) = id /\ id # Root
      BY <1>1, <1>2, <1>5 DEF DeleteGroup, Failed
    <2>2. id \in Live(tree)
      BY <2>1 DEF FindGroup, Has
    <2>3. CASE op.perm \/ ~BinEnabled
      <3>1. DeleteGroup(tree, id, op.perm).tree = Purged(tree, Subtree(tree.node, id))
        BY <2>1, <2>3 DEF DeleteGroup, Done
      <3>2. Subtree(tree.node, id) \in SUBSET (Live(tree) \ {Root})
        <4>1. /\ IsFiniteSet(DOMAIN tree.node) /\ id \in DOMAIN tree.node
              /\ Root \in DOMAIN tree.node /\ tree.node[Root].home \notin DOMAIN tree.node
          BY <2>2, StagingAssumption DEF IsVault, Live, Ids
        <4>2. QED
          BY <2>1, <4>1, SubtreeIsInside DEF Live
      <3>3. /\ id \in Subtree(tree.node, id)
            /\ \A x \in Live(tree) : tree.node[x].home \in Subtree(tree.node, id) => x \in Subtree(tree.node, id)
        <4>1. IsFiniteSet(DOMAIN tree.node) /\ id \in DOMAIN tree.node
          BY <2>2 DEF IsVault, Live
        <4>2. QED
          BY <4>1, SubtreeIsInside, SubtreeIsClosed DEF Live
      <3>4. QED
        BY <1>2, <2>2, <2>3, <3>1, <3>2, <3>3, PurgedPerforms
    <2>4. CASE ~(op.perm \/ ~BinEnabled)
      <3>1. DeleteGroup(tree, id, op.perm).tree = Relocated(binned, id, binned.bin)
        BY <1>2, <1>5, <2>1, <2>4 DEF DeleteGroup, Done, Failed
      <3>2. QED
        BY <1>3, <2>2, <2>4, <3>1
    <2>5. QED
      BY <2>3, <2>4
  <1>6. QED
    BY <1>2, <1>4, <1>5

(* A creation is put where it was staged, if that can be found.            *)
LEMMA CreatePerforms ==
  ASSUME NEW tree, IsVault(tree), NEW op, Typed(op), op.kind \in CreateKinds,
         op.target \notin Live(tree) \cup tree.tombs
  PROVE  LET entry  == CreateEntry(tree, op.target, op.parent, op.after)
             folder == CreateGroup(tree, op.target, op.parent, op.name)
         IN  /\ op.kind = "CreateEntry" /\ entry.ok => Performs(tree, entry.tree, op)
             /\ op.kind = "CreateGroup" /\ folder.ok => Performs(tree, folder.tree, op)
  <1>1. op.target \in Ids /\ op.parent \in Homes
    BY DEF Typed
  <1>2. ASSUME op.kind = "CreateEntry", CreateEntry(tree, op.target, op.parent, op.after).ok
        PROVE  Performs(tree, CreateEntry(tree, op.target, op.parent, op.after).tree, op)
    <2>1. PICK after : after = CreateEntry(tree, op.target, op.parent, op.after).tree
      OBVIOUS
    <2>2. /\ FindGroup(tree, op.parent)
          /\ after = [tree EXCEPT !.node = Put(@, op.target, Item(Resolve(op.parent), op.after.val))]
      BY <1>2, <2>1 DEF CreateEntry, Failed, Done
    <2>3. op.after.val \in Content(op.target) /\ Resolve(op.parent) \in Live(tree) \ Entries
      BY <1>1, <1>2, <2>2, FoundIsHome DEF Typed, Content, IsEntry, Drafts
    <2>4. Says(op) = op.after.val
      BY <1>2 DEF Says
    <2>5. QED
      BY <1>1, <2>1, <2>2, <2>3, <2>4, PutPerforms
  <1>3. ASSUME op.kind = "CreateGroup", CreateGroup(tree, op.target, op.parent, op.name).ok
        PROVE  Performs(tree, CreateGroup(tree, op.target, op.parent, op.name).tree, op)
    <2>1. PICK after : after = CreateGroup(tree, op.target, op.parent, op.name).tree
      OBVIOUS
    <2>2. /\ FindGroup(tree, op.parent) /\ op.name # None
          /\ after = [tree EXCEPT !.node = Put(@, op.target, Item(Resolve(op.parent), op.name))]
      BY <1>3, <2>1 DEF CreateGroup, Failed, Done
    <2>3. op.name \in Content(op.target) /\ Resolve(op.parent) \in Live(tree) \ Entries
      BY <1>1, <1>3, <2>2, FoundIsHome, StagingAssumption DEF Typed, Content, IsEntry
    <2>4. Says(op) = op.name
      BY <1>3 DEF Says
    <2>5. QED
      BY <1>1, <2>1, <2>2, <2>3, <2>4, PutPerforms
  <1>4. QED
    BY <1>2, <1>3

(* And so does every operation that is performed.                          *)
LEMMA ApplyOnePerforms ==
  ASSUME BinsLast, NEW tree, IsVault(tree), NEW op, Typed(op),
         op.kind \in CreateKinds => op.target \notin Live(tree) \cup tree.tombs,
         ApplyOne(tree, op).ok
  PROVE  /\ Performs(tree, ApplyOne(tree, op).tree, op)
         /\ op.kind \in CreateKinds \/ op.target \in Live(tree)
  <1>1. op.target \in Ids /\ op.parent \in Homes
    BY DEF Typed
  <1>2. CASE op.kind = "CreateEntry"
    BY <1>2, CreatePerforms DEF ApplyOne, CreateKinds
  <1>3. CASE op.kind = "EditEntry"
    <2>1. ApplyOne(tree, op) = UpdateEntry(tree, op.target, op.after)
      BY <1>3 DEF ApplyOne
    <2>2. QED
      BY <1>3, <2>1, UpdatePerforms DEF Typed
  <1>4. CASE op.kind = "MoveEntry"
    <2>1. ApplyOne(tree, op) = MoveEntry(tree, op.target, op.parent) /\ op.kind \in MoveKinds
      BY <1>4 DEF ApplyOne, MoveKinds
    <2>2. QED
      BY <1>1, <2>1, MovePerforms
  <1>5. CASE op.kind = "DeleteEntry"
    <2>1. ApplyOne(tree, op) = DeleteEntry(tree, op.target, op.perm) /\ op.kind \in DeleteKinds
      BY <1>5 DEF ApplyOne, DeleteKinds
    <2>2. QED
      BY <1>1, <2>1, DeletePerforms
  <1>6. CASE op.kind = "CreateGroup"
    BY <1>6, CreatePerforms DEF ApplyOne, CreateKinds
  <1>7. CASE op.kind = "RenameGroup"
    <2>1. ApplyOne(tree, op) = RenameGroup(tree, op.target, op.name)
      BY <1>7 DEF ApplyOne
    <2>2. QED
      BY <1>7, <2>1, RenamePerforms DEF Typed
  <1>8. CASE op.kind = "MoveGroup"
    <2>1. ApplyOne(tree, op) = MoveGroup(tree, op.target, op.parent) /\ op.kind \in MoveKinds
      BY <1>8 DEF ApplyOne, MoveKinds
    <2>2. QED
      BY <1>1, <2>1, MovePerforms
  <1>9. CASE op.kind = "DeleteGroup"
    <2>1. ApplyOne(tree, op) = DeleteGroup(tree, op.target, op.perm) /\ op.kind \in DeleteKinds
      BY <1>9 DEF ApplyOne, DeleteKinds
    <2>2. QED
      BY <1>1, <2>1, DeletePerforms
  <1>10. QED
    BY <1>2, <1>3, <1>4, <1>5, <1>6, <1>7, <1>8, <1>9 DEF Typed

-----------------------------------------------------------------------------
(* A whole save.                                                           *)

(* The trees a save goes through, as Apply counts them.                    *)
After(before, op) ==
  IF before.ok /\ op.source = Source THEN ApplyOne(before.tree, op) ELSE before
Steps(tree, eff, N, f) ==
  f = [n \in 0 .. N |-> IF n = 0 THEN Done(tree) ELSE After(f[n - 1], eff[n])]

LEMMA StepsExist ==
  ASSUME NEW tree, NEW eff
  PROVE  \A N \in Nat : \E f : Steps(tree, eff, N, f)
  <1> DEFINE Found == {N \in Nat : \E f : Steps(tree, eff, N, f)}
  <1>1. 0 \in Found
    <2> DEFINE f == [n \in 0 .. 0 |-> Done(tree)]
    <2>1. f = [n \in 0 .. 0 |-> IF n = 0 THEN Done(tree) ELSE After(f[n - 1], eff[n])]
      OBVIOUS
    <2>2. Steps(tree, eff, 0, f)
      BY <2>1 DEF Steps
    <2> HIDE DEF f
    <2>3. QED
      BY <2>2
  <1>2. ASSUME NEW N \in Nat, N \in Found PROVE N + 1 \in Found
    <2>1. PICK f : Steps(tree, eff, N, f)
      BY <1>2
    <2>2. /\ DOMAIN f = 0 .. N
          /\ \A n \in 0 .. N : f[n] = IF n = 0 THEN Done(tree) ELSE After(f[n - 1], eff[n])
      BY <2>1 DEF Steps
    <2> DEFINE g == [n \in 0 .. (N + 1) |-> IF n = N + 1 THEN After(f[N], eff[n]) ELSE f[n]]
               h == [n \in 0 .. (N + 1) |-> IF n = 0 THEN Done(tree) ELSE After(g[n - 1], eff[n])]
    <2>3. ASSUME NEW n \in 0 .. (N + 1) PROVE g[n] = h[n]
      <3>1. CASE n = N + 1
        <4>1. g[n] = After(f[N], eff[n]) /\ h[n] = After(g[N], eff[n])
          BY <3>1
        <4>2. g[N] = f[N]
          OBVIOUS
        <4>3. QED
          BY <4>1, <4>2
      <3>2. CASE n = 0
        <4>1. g[0] = f[0] /\ h[0] = Done(tree)
          OBVIOUS
        <4>2. QED
          BY <2>2, <3>2, <4>1
      <3>3. CASE n \in 1 .. N
        <4>1. n \in 0 .. N /\ n - 1 \in 0 .. (N + 1) /\ n # N + 1 /\ n - 1 # N + 1 /\ n # 0
          BY <3>3
        <4>2. g[n] = f[n] /\ h[n] = After(g[n - 1], eff[n]) /\ g[n - 1] = f[n - 1]
          BY <4>1
        <4>3. f[n] = After(f[n - 1], eff[n])
          BY <2>2, <4>1
        <4>4. QED
          BY <4>2, <4>3
      <3>4. QED
        BY <3>1, <3>2, <3>3
    <2>4. g = h
      BY <2>3
    <2>5. Steps(tree, eff, N + 1, g)
      BY <2>4 DEF Steps
    <2> HIDE DEF g, h
    <2>6. QED
      BY <2>5
  <1> HIDE DEF Found
  <1>3. Nat \subseteq Found
    BY <1>1, <1>2, CountingUp
  <1>4. QED
    BY <1>3 DEF Found

(* What Apply returns is what the last step left.                          *)
LEMMA ApplySteps ==
  ASSUME NEW tree, NEW eff, Len(eff) \in Nat
  PROVE  \E f : /\ Apply(tree, Source, eff) = f[Len(eff)]
                /\ f[0] = Done(tree)
                /\ \A n \in 1 .. Len(eff) : f[n] = After(f[n - 1], eff[n])
  <1>1. PICK f : f = (CHOOSE g : Steps(tree, eff, Len(eff), g))
    OBVIOUS
  <1>2. Steps(tree, eff, Len(eff), f)
    BY <1>1, StepsExist
  <1>3. Apply(tree, Source, eff) = f[Len(eff)]
    <2>1. Apply(tree, Source, eff) = (CHOOSE g : Steps(tree, eff, Len(eff), g))[Len(eff)]
      BY DEF Apply, Steps, After
    <2>2. QED
      BY <1>1, <2>1
  <1>4. \A n \in 0 .. Len(eff) : f[n] = IF n = 0 THEN Done(tree) ELSE After(f[n - 1], eff[n])
    BY <1>2, Zenon DEF Steps
  <1>5. 0 \in 0 .. Len(eff) /\ \A n \in 1 .. Len(eff) : n \in 0 .. Len(eff) /\ n # 0
    OBVIOUS
  <1>6. f[0] = Done(tree) /\ \A n \in 1 .. Len(eff) : f[n] = After(f[n - 1], eff[n])
    BY <1>4, <1>5, Zenon
  <1>7. QED
    BY <1>3, <1>6

(* What the tree is like when the operations of `past` have been performed  *)
(* on `start`: nothing disappeared unrecorded, nothing appeared but what    *)
(* was created, and of what is still there each has its place and its       *)
(* content from the file or from the one operation that was about it.      *)
Follows(start, tree, past) ==
  /\ IsVault(tree)
  /\ Live(start) \subseteq Live(tree) \cup tree.tombs
  /\ Live(tree) \cup tree.tombs
       \subseteq Live(start) \cup start.tombs \cup Bins \cup Targets(OfKind(past, CreateKinds))
  /\ \A id \in Live(start) \cap Live(tree) :
       LET was == start.node[id]
           is  == tree.node[id]
       IN  /\ id \notin Targets(OfKind(past, WayOut)) => is.home = was.home
           /\ is.home # was.home => is.prev = was.home
           /\ IsEntry(id) =>
                /\ id \notin Targets(OfKind(past, {"EditEntry"})) =>
                     is.data = was.data /\ is.hist = was.hist
                /\ \A e \in OfKind(past, {"EditEntry"}) : e.target = id =>
                     is.data = e.after.val /\ is.hist = PushHistory(was.hist, was.data)

LEMMA FollowsOne ==
  ASSUME NEW start, NEW tree, NEW past, Follows(start, tree, past),
         NEW after, NEW op, Performs(tree, after, op),
         op.kind \in WayOut => op.target \notin Targets(OfKind(past, WayOut)),
         op.kind = "EditEntry" => op.target \notin Targets(OfKind(past, {"EditEntry"}))
  PROVE  Follows(start, after, past \cup {op})
  <1>1. PICK now : now = past \cup {op}
    OBVIOUS
  <1>2. /\ Targets(OfKind(now, CreateKinds)) =
             Targets(OfKind(past, CreateKinds)) \cup Targets(OfKind({op}, CreateKinds))
        /\ Targets(OfKind(now, WayOut)) =
             Targets(OfKind(past, WayOut)) \cup Targets(OfKind({op}, WayOut))
        /\ Targets(OfKind(now, {"EditEntry"})) =
             Targets(OfKind(past, {"EditEntry"})) \cup Targets(OfKind({op}, {"EditEntry"}))
        /\ OfKind(now, {"EditEntry"}) = OfKind(past, {"EditEntry"}) \cup OfKind({op}, {"EditEntry"})
    BY <1>1 DEF Targets, OfKind
  <1>3. /\ op.kind \in WayOut => Targets(OfKind({op}, WayOut)) = {op.target}
        /\ op.kind = "EditEntry" => Targets(OfKind({op}, {"EditEntry"})) = {op.target}
        /\ op.kind # "EditEntry" => OfKind({op}, {"EditEntry"}) = {} /\ Targets(OfKind({op}, {"EditEntry"})) = {}
        /\ OfKind({op}, {"EditEntry"}) \subseteq {op}
    BY DEF Targets, OfKind
  <1>4. Live(start) \subseteq Live(after) \cup after.tombs
    BY DEF Follows, Performs
  <1>5. Live(after) \cup after.tombs
          \subseteq Live(start) \cup start.tombs \cup Bins \cup Targets(OfKind(now, CreateKinds))
    BY <1>2 DEF Follows, Performs
  <1>6. ASSUME NEW id \in Live(start) \cap Live(after),
               NEW was, was = start.node[id], NEW is, is = after.node[id]
        PROVE  /\ id \notin Targets(OfKind(now, WayOut)) => is.home = was.home
               /\ is.home # was.home => is.prev = was.home
               /\ IsEntry(id) =>
                    /\ id \notin Targets(OfKind(now, {"EditEntry"})) =>
                         is.data = was.data /\ is.hist = was.hist
                    /\ \A e \in OfKind(now, {"EditEntry"}) : e.target = id =>
                         is.data = e.after.val /\ is.hist = PushHistory(was.hist, was.data)
    <2>1. id \in Live(tree)
      <3>1. id \in Live(tree) \cup tree.tombs
        BY DEF Follows
      <3>2. after.tombs \cap Live(after) = {}
        BY DEF Performs, IsVault
      <3>3. QED
        BY <3>1, <3>2 DEF Performs
    <2>2. PICK mid : mid = tree.node[id]
      OBVIOUS
    <2>3. /\ id # op.target \/ op.kind \notin WayOut => is.home = mid.home /\ is.prev = mid.prev
          /\ is.home # mid.home => is.prev = mid.home
          /\ IsEntry(id) =>
               IF id = op.target /\ op.kind = "EditEntry"
               THEN is.data = op.after.val /\ is.hist = PushHistory(mid.hist, mid.data)
               ELSE is.data = mid.data /\ is.hist = mid.hist
      BY <1>6, <2>1, <2>2 DEF Performs
    <2>4. /\ id \notin Targets(OfKind(past, WayOut)) => mid.home = was.home
          /\ mid.home # was.home => mid.prev = was.home
          /\ IsEntry(id) =>
               /\ id \notin Targets(OfKind(past, {"EditEntry"})) =>
                    mid.data = was.data /\ mid.hist = was.hist
               /\ \A e \in OfKind(past, {"EditEntry"}) : e.target = id =>
                    mid.data = e.after.val /\ mid.hist = PushHistory(was.hist, was.data)
      BY <1>6, <2>1, <2>2 DEF Follows
    <2>5. /\ id \notin Targets(OfKind(now, WayOut)) => is.home = was.home
          /\ is.home # was.home => is.prev = was.home
      <3>1. CASE id = op.target /\ op.kind \in WayOut
        BY <1>2, <1>3, <2>3, <2>4, <3>1
      <3>2. CASE ~(id = op.target /\ op.kind \in WayOut)
        BY <1>2, <2>3, <2>4, <3>2
      <3>3. QED
        BY <3>1, <3>2
    <2>6. ASSUME IsEntry(id)
          PROVE  /\ id \notin Targets(OfKind(now, {"EditEntry"})) =>
                      is.data = was.data /\ is.hist = was.hist
                 /\ \A e \in OfKind(now, {"EditEntry"}) : e.target = id =>
                      is.data = e.after.val /\ is.hist = PushHistory(was.hist, was.data)
      <3>1. CASE id = op.target /\ op.kind = "EditEntry"
        <4>1. mid.data = was.data /\ mid.hist = was.hist
          BY <2>4, <2>6, <3>1
        <4>2. is.data = op.after.val /\ is.hist = PushHistory(was.hist, was.data)
          BY <2>3, <2>6, <3>1, <4>1
        <4>3. \A e \in OfKind(now, {"EditEntry"}) : e.target = id => e = op
          BY <1>2, <1>3, <3>1 DEF Targets
        <4>4. id \in Targets(OfKind(now, {"EditEntry"}))
          BY <1>2, <1>3, <3>1
        <4>5. QED
          BY <4>2, <4>3, <4>4
      <3>2. CASE ~(id = op.target /\ op.kind = "EditEntry")
        <4>1. is.data = mid.data /\ is.hist = mid.hist
          BY <2>3, <2>6, <3>2
        <4>2. \A e \in OfKind(now, {"EditEntry"}) : e.target = id => e \in OfKind(past, {"EditEntry"})
          BY <1>2, <1>3, <3>2
        <4>3. QED
          BY <1>2, <2>4, <2>6, <4>1, <4>2
      <3>3. QED
        BY <3>1, <3>2
    <2>7. QED
      BY <2>5, <2>6
  <1>7. IsVault(after)
    BY DEF Performs
  <1>8. Follows(start, after, now)
    BY <1>4, <1>5, <1>6, <1>7 DEF Follows
  <1>9. QED
    BY <1>1, <1>8

(* And what the operations performed so far have come to: what they were    *)
(* about is there or recorded as gone; a thing is where its move took it,   *)
(* or else where it was created, and holds what its edit says, or else its  *)
(* creation, or else the file; and anything else that is there is a bin,    *)
(* new in the root.                                                        *)
Arrives(start, tree, past) ==
  /\ start.tombs \subseteq tree.tombs
  /\ Targets(past) \subseteq Live(tree) \cup tree.tombs
  /\ \A id \in Live(tree) : \A op \in past : op.target = id =>
       /\ op.kind \in MoveKinds => tree.node[id].home = Resolve(op.parent)
       /\ op.kind \in Rewrites => tree.node[id].data = Says(op)
       /\ op.kind \in CreateKinds =>
            /\ id \notin Targets(OfKind(past, WayOut)) => tree.node[id].home = Resolve(op.parent)
            /\ id \notin Targets(OfKind(past, Rewrites)) => tree.node[id].data = Says(op)
  /\ \A id \in Live(tree) \cap Live(start) :
       id \notin Targets(OfKind(past, Rewrites)) => tree.node[id].data = start.node[id].data
  /\ (\A op \in past : op.target \notin Bins \ Live(start)) =>
       \A id \in Live(tree) :
         id \in Live(start) \cup Targets(OfKind(past, CreateKinds)) \/ tree.node[id].home = Root

LEMMA ArrivesOne ==
  ASSUME NEW start, NEW tree, NEW past, Follows(start, tree, past), Arrives(start, tree, past),
         NEW after, NEW op, Performs(tree, after, op),
         IF op.kind \in CreateKinds THEN op.target \notin Live(tree) \cup tree.tombs
                                    ELSE op.target \in Live(tree),
         op.kind \in WayOut => op.target \notin Targets(OfKind(past, WayOut)),
         op.kind \in Rewrites => op.target \notin Targets(OfKind(past, Rewrites))
  PROVE  Arrives(start, after, past \cup {op})
  <1>1. PICK now : now = past \cup {op}
    OBVIOUS
  <1>2. /\ Targets(OfKind(past, CreateKinds)) \subseteq Targets(OfKind(now, CreateKinds))
        /\ Targets(OfKind(past, WayOut)) \subseteq Targets(OfKind(now, WayOut))
        /\ Targets(OfKind(past, Rewrites)) \subseteq Targets(OfKind(now, Rewrites))
        /\ Targets(now) = Targets(past) \cup {op.target}
        /\ op.kind \in CreateKinds => op.target \in Targets(OfKind(now, CreateKinds))
        /\ op.kind \in WayOut => op.target \in Targets(OfKind(now, WayOut))
        /\ op.kind \in Rewrites => op.target \in Targets(OfKind(now, Rewrites))
    BY <1>1 DEF Targets, OfKind
  <1>3. /\ Live(tree) \subseteq Live(after) \cup after.tombs /\ tree.tombs \subseteq after.tombs
        /\ after.tombs \cap Live(after) = {} /\ tree.tombs \cap Live(tree) = {}
        /\ Places(tree, after, op)
    BY DEF Performs, IsVault, Follows
  <1>4. MoveKinds \subseteq WayOut
    BY DEF WayOut
  <1>5. start.tombs \subseteq after.tombs
    BY <1>3 DEF Arrives
  <1>6. Targets(now) \subseteq Live(after) \cup after.tombs
    <2>1. op.target \in Live(after) \cup after.tombs
      BY <1>3 DEF Places
    <2>2. QED
      BY <1>2, <1>3, <2>1 DEF Arrives
  <1>7. ASSUME NEW id \in Live(after), NEW o \in past, o.target = id
        PROVE  /\ id \in Live(tree)
               /\ op.kind \in CreateKinds => id # op.target
    <2>1. id \in Targets(past)
      BY <1>7 DEF Targets
    <2>2. QED
      BY <1>3, <2>1 DEF Arrives
  <1>8. ASSUME NEW id \in Live(tree) \cap Live(after)
        PROVE  /\ id # op.target \/ op.kind \notin WayOut => after.node[id].home = tree.node[id].home
               /\ id # op.target \/ op.kind \notin Rewrites => after.node[id].data = tree.node[id].data
    BY <1>3 DEF Performs, Places
  <1>9. ASSUME NEW id \in Live(after), NEW o \in now, o.target = id
        PROVE  /\ o.kind \in MoveKinds => after.node[id].home = Resolve(o.parent)
               /\ o.kind \in Rewrites => after.node[id].data = Says(o)
               /\ o.kind \in CreateKinds =>
                    /\ id \notin Targets(OfKind(now, WayOut)) => after.node[id].home = Resolve(o.parent)
                    /\ id \notin Targets(OfKind(now, Rewrites)) => after.node[id].data = Says(o)
    <2>1. CASE o = op
      BY <1>3, <1>9, <2>1 DEF Places
    <2>2. CASE o \in past
      <3>1. id \in Live(tree)
        BY <1>7, <1>9, <2>2
      <3>2. /\ o.kind \in MoveKinds => tree.node[id].home = Resolve(o.parent)
            /\ o.kind \in Rewrites => tree.node[id].data = Says(o)
            /\ o.kind \in CreateKinds =>
                 /\ id \notin Targets(OfKind(past, WayOut)) => tree.node[id].home = Resolve(o.parent)
                 /\ id \notin Targets(OfKind(past, Rewrites)) => tree.node[id].data = Says(o)
        BY <1>9, <2>2, <3>1 DEF Arrives
      <3>3. /\ o.kind \in MoveKinds => id \in Targets(OfKind(past, WayOut))
            /\ o.kind \in Rewrites => id \in Targets(OfKind(past, Rewrites))
        BY <1>4, <1>9, <2>2 DEF Targets, OfKind
      <3>4. QED
        BY <1>2, <1>8, <3>1, <3>2, <3>3
    <2>3. QED
      BY <1>1, <1>9, <2>1, <2>2
  <1>10. ASSUME NEW id \in Live(after) \cap Live(start), id \notin Targets(OfKind(now, Rewrites))
         PROVE  after.node[id].data = start.node[id].data
    <2>1. id \in Live(tree)
      BY <1>3 DEF Follows
    <2>2. QED
      BY <1>2, <1>8, <1>10, <2>1 DEF Arrives
  <1>11. ASSUME \A o \in now : o.target \notin Bins \ Live(start), NEW id \in Live(after)
         PROVE  id \in Live(start) \cup Targets(OfKind(now, CreateKinds)) \/ after.node[id].home = Root
    <2>1. \A other \in Live(tree) :
            other \in Live(start) \cup Targets(OfKind(past, CreateKinds)) \/ tree.node[other].home = Root
      BY <1>1, <1>11 DEF Arrives
    <2>2. CASE id \notin Live(tree)
      BY <1>2, <1>3, <2>2 DEF Places
    <2>3. CASE id \in Live(tree) /\ ~(id = op.target /\ op.kind \in WayOut)
      BY <1>2, <1>8, <2>1, <2>3
    <2>4. CASE id \in Live(tree) /\ id = op.target
      <3>1. op.target \notin Bins \ Live(start) /\ op.target \notin start.tombs
        BY <1>1, <1>3, <1>11, <2>4 DEF Arrives
      <3>2. Live(tree) \subseteq Live(start) \cup start.tombs \cup Bins \cup Targets(OfKind(past, CreateKinds))
        BY DEF Follows
      <3>3. QED
        BY <1>2, <2>4, <3>1, <3>2
    <2>5. QED
      BY <2>2, <2>3, <2>4
  <1>12. Arrives(start, after, now)
    BY <1>5, <1>6, <1>9, <1>10, <1>11 DEF Arrives
  <1>13. QED
    BY <1>1, <1>12

(* A list of operations for one save: each is well-formed, creates nothing  *)
(* the file knows, and is the only one of its sort about its target.       *)
Due(start, eff) ==
  /\ \A i \in 1 .. Len(eff) :
       /\ Typed(eff[i])
       /\ eff[i].kind \in CreateKinds => eff[i].target \notin Live(start) \cup start.tombs \cup Bins
  /\ \A i, j \in 1 .. Len(eff) : i < j /\ eff[i].target = eff[j].target =>
       /\ eff[i].kind \in CreateKinds => eff[j].kind \notin CreateKinds
       /\ eff[i].kind \in WayOut => eff[j].kind \notin WayOut
       /\ eff[i].kind \in Rewrites => eff[j].kind \notin Rewrites

Past(eff, n) == {eff[i] : i \in 1 .. n}

(* The trees of a save that has performed its first n operations, each a    *)
(* step from the last.                                                     *)
Reaches(start, eff, f, n) ==
  /\ f[0] = start
  /\ \A k \in 0 .. n : Follows(start, f[k], Past(eff, k)) /\ Arrives(start, f[k], Past(eff, k))
  /\ \A k \in 1 .. n : /\ Performs(f[k - 1], f[k], eff[k])
                       /\ eff[k].kind \in CreateKinds \/ eff[k].target \in Live(f[k - 1])

LEMMA ReachesNone ==
  ASSUME NEW start, IsVault(start), NEW eff, NEW f, f[0] = start
  PROVE  Reaches(start, eff, f, 0)
  <1>1. Past(eff, 0) = {}
    BY DEF Past
  <1>2. Follows(start, start, {}) /\ Arrives(start, start, {})
    BY DEF Follows, Arrives, Targets, OfKind
  <1>3. (\A k \in 0 .. 0 : k = 0) /\ 1 .. 0 = {}
    OBVIOUS
  <1>4. QED
    BY <1>1, <1>2, <1>3 DEF Reaches

LEMMA ReachesOne ==
  ASSUME BinsLast, NEW start, IsVault(start), NEW eff, Len(eff) \in Nat, Due(start, eff),
         NEW f, NEW n \in Nat, n + 1 <= Len(eff), Reaches(start, eff, f, n),
         ApplyOne(f[n], eff[n + 1]).ok, f[n + 1] = ApplyOne(f[n], eff[n + 1]).tree
  PROVE  Reaches(start, eff, f, n + 1)
  <1>1. PICK op : op = eff[n + 1]
    OBVIOUS
  <1>2. n + 1 \in 1 .. Len(eff) /\ n \in 0 .. n
    OBVIOUS
  <1>3. Typed(op) /\ (op.kind \in CreateKinds => op.target \notin Live(start) \cup start.tombs \cup Bins)
    BY <1>1, <1>2 DEF Due
  <1>4. PICK tree, past : /\ tree = f[n] /\ past = Past(eff, n)
                          /\ Follows(start, tree, past) /\ Arrives(start, tree, past)
    BY <1>2 DEF Reaches
  <1>5. PICK after : after = f[n + 1]
    OBVIOUS
  <1>6. ApplyOne(tree, op).ok /\ after = ApplyOne(tree, op).tree
    BY <1>1, <1>4, <1>5
  <1>7. \A i \in 1 .. n : i \in 1 .. Len(eff) /\ i < n + 1
    BY <1>2
  <1>8. ASSUME NEW i \in 1 .. n, eff[i].target = op.target
        PROVE  /\ eff[i].kind \in CreateKinds => op.kind \notin CreateKinds
               /\ eff[i].kind \in WayOut => op.kind \notin WayOut
               /\ eff[i].kind \in Rewrites => op.kind \notin Rewrites
    BY <1>1, <1>2, <1>7, <1>8 DEF Due
  <1>9. /\ op.kind \in CreateKinds => op.target \notin Targets(OfKind(past, CreateKinds))
        /\ op.kind \in WayOut => op.target \notin Targets(OfKind(past, WayOut))
        /\ op.kind \in Rewrites => op.target \notin Targets(OfKind(past, Rewrites))
    BY <1>4, <1>8 DEF Targets, OfKind, Past
  <1>10. op.kind = "EditEntry" => op.target \notin Targets(OfKind(past, {"EditEntry"}))
    BY <1>9 DEF Targets, OfKind, Rewrites
  <1>11. op.kind \in CreateKinds => op.target \notin Live(tree) \cup tree.tombs
    BY <1>3, <1>4, <1>9 DEF Follows
  <1>12. IsVault(tree)
    BY <1>4 DEF Follows
  <1>13. Performs(tree, after, op) /\ (op.kind \in CreateKinds \/ op.target \in Live(tree))
    BY <1>3, <1>6, <1>11, <1>12, ApplyOnePerforms
  <1>14. Past(eff, n + 1) = past \cup {op}
    <2>1. 1 .. (n + 1) = (1 .. n) \cup {n + 1}
      OBVIOUS
    <2>2. QED
      BY <1>1, <1>4, <2>1 DEF Past
  <1>15. Follows(start, after, past \cup {op}) /\ Arrives(start, after, past \cup {op})
    BY <1>4, <1>9, <1>10, <1>11, <1>13, FollowsOne, ArrivesOne
  <1>16. /\ Follows(start, f[n + 1], Past(eff, n + 1)) /\ Arrives(start, f[n + 1], Past(eff, n + 1))
         /\ Performs(f[n], f[n + 1], eff[n + 1])
         /\ eff[n + 1].kind \in CreateKinds \/ eff[n + 1].target \in Live(f[n])
    BY <1>1, <1>4, <1>5, <1>13, <1>14, <1>15
  <1>17. /\ \A k \in 0 .. (n + 1) : k \in 0 .. n \/ k = n + 1
         /\ \A k \in 1 .. (n + 1) : k \in 1 .. n \/ k = n + 1
         /\ (n + 1) - 1 = n
    OBVIOUS
  <1>18. QED
    BY <1>16, <1>17 DEF Reaches

(* The trees of a save that gets to its end, each a step from the last.    *)
LEMMA SaveSteps ==
  ASSUME BinsLast, NEW start, IsVault(start), NEW eff, Len(eff) \in Nat, DOMAIN eff = 1 .. Len(eff),
         Due(start, eff), Apply(start, Source, eff).ok
  PROVE  \E f : /\ f[0] = start /\ f[Len(eff)] = Apply(start, Source, eff).tree
                /\ \A n \in 0 .. Len(eff) :
                     /\ Follows(start, f[n], Past(eff, n))
                     /\ Arrives(start, f[n], Past(eff, n))
                /\ \A n \in 1 .. Len(eff) :
                     /\ Performs(f[n - 1], f[n], eff[n])
                     /\ eff[n].kind \in CreateKinds \/ eff[n].target \in Live(f[n - 1])
  <1>1. PICK g : /\ Apply(start, Source, eff) = g[Len(eff)]
                 /\ g[0] = Done(start)
                 /\ \A n \in 1 .. Len(eff) : g[n] = After(g[n - 1], eff[n])
    BY ApplySteps
  <1>2. ASSUME NEW n \in 1 .. Len(eff), g[n].ok
        PROVE  g[n - 1].ok /\ g[n] = ApplyOne(g[n - 1].tree, eff[n])
    <2>1. Typed(eff[n])
      BY DEF Due
    <2>2. g[n] = After(g[n - 1], eff[n])
      BY <1>1
    <2>3. QED
      BY <1>2, <2>1, <2>2 DEF After, Typed
  <1>3. \A n \in 0 .. Len(eff) : g[n].ok
    <2> DEFINE Good == {k \in Nat : k <= Len(eff) => g[Len(eff) - k].ok}
    <2>1. 0 \in Good
      <3>1. Len(eff) - 0 = Len(eff)
        OBVIOUS
      <3>2. QED
        BY <1>1, <3>1
    <2>2. ASSUME NEW k \in Nat, k \in Good PROVE k + 1 \in Good
      <3> SUFFICES ASSUME k + 1 <= Len(eff) PROVE g[Len(eff) - (k + 1)].ok
        OBVIOUS
      <3>1. g[Len(eff) - k].ok
        BY <2>2
      <3>2. Len(eff) - k \in 1 .. Len(eff) /\ (Len(eff) - k) - 1 = Len(eff) - (k + 1)
        OBVIOUS
      <3>3. QED
        BY <1>2, <3>1, <3>2
    <2> HIDE DEF Good
    <2>3. Nat \subseteq Good
      BY <2>1, <2>2, CountingUp
    <2>4. ASSUME NEW n \in 0 .. Len(eff) PROVE g[n].ok
      <3>1. PICK k : k = Len(eff) - n
        OBVIOUS
      <3>2. k \in Good /\ k <= Len(eff) /\ Len(eff) - k = n
        BY <2>3, <3>1
      <3>3. QED
        BY <3>2 DEF Good
    <2>5. QED
      BY <2>4
  <1> DEFINE f == [n \in 0 .. Len(eff) |-> g[n].tree]
  <1>4. \A n \in 1 .. Len(eff) : ApplyOne(f[n - 1], eff[n]).ok /\ f[n] = ApplyOne(f[n - 1], eff[n]).tree
    <2>1. ASSUME NEW n \in 1 .. Len(eff)
          PROVE  ApplyOne(f[n - 1], eff[n]).ok /\ f[n] = ApplyOne(f[n - 1], eff[n]).tree
      <3>1. n \in 0 .. Len(eff) /\ n - 1 \in 0 .. Len(eff)
        OBVIOUS
      <3>2. f[n] = g[n].tree /\ f[n - 1] = g[n - 1].tree
        BY <3>1
      <3>3. g[n].ok /\ g[n] = ApplyOne(g[n - 1].tree, eff[n])
        BY <1>2, <1>3, <3>1
      <3> HIDE DEF f
      <3>4. QED
        BY <3>2, <3>3
    <2>2. QED
      BY <2>1
  <1>5. f[0] = start /\ f[Len(eff)] = Apply(start, Source, eff).tree
    BY <1>1 DEF Done
  <1> HIDE DEF f
  <1> DEFINE Good == {n \in Nat : n <= Len(eff) => Reaches(start, eff, f, n)}
  <1>6. 0 \in Good
    BY <1>5, ReachesNone
  <1>7. ASSUME NEW n \in Nat, n \in Good PROVE n + 1 \in Good
    <2> SUFFICES ASSUME n + 1 <= Len(eff) PROVE Reaches(start, eff, f, n + 1)
      OBVIOUS
    <2>1. n + 1 \in 1 .. Len(eff) /\ (n + 1) - 1 = n /\ Reaches(start, eff, f, n)
      BY <1>7
    <2>2. ApplyOne(f[n], eff[n + 1]).ok /\ f[n + 1] = ApplyOne(f[n], eff[n + 1]).tree
      BY <1>4, <2>1
    <2>3. QED
      BY <2>1, <2>2, ReachesOne
  <1> HIDE DEF Good
  <1>8. Len(eff) \in Good
    BY <1>6, <1>7, CountingUp
  <1>9. Reaches(start, eff, f, Len(eff))
    BY <1>8 DEF Good
  <1>10. QED
    BY <1>5, <1>9 DEF Reaches

(* A save that gets to its end leaves such a tree.                         *)
LEMMA SaveFollows ==
  ASSUME BinsLast, NEW start, IsVault(start), NEW eff, Len(eff) \in Nat, DOMAIN eff = 1 .. Len(eff),
         Due(start, eff), Apply(start, Source, eff).ok
  PROVE  /\ Follows(start, Apply(start, Source, eff).tree, Members(eff))
         /\ Arrives(start, Apply(start, Source, eff).tree, Members(eff))
  <1>1. PICK f : /\ f[Len(eff)] = Apply(start, Source, eff).tree
                 /\ \A n \in 0 .. Len(eff) : /\ Follows(start, f[n], Past(eff, n))
                                             /\ Arrives(start, f[n], Past(eff, n))
    BY SaveSteps
  <1>2. Past(eff, Len(eff)) = Members(eff) /\ Len(eff) \in 0 .. Len(eff)
    BY DEF Past, Members
  <1>3. QED
    BY <1>1, <1>2

-----------------------------------------------------------------------------
(* What is staged, and what the keys read, has its types.                  *)

AllTyped(set) == \A op \in set.ops : Typed(op)

(* A net operation is put together from operations staged for its target,   *)
(* so it has the types they have.                                          *)
LEMMA NetIsTyped ==
  ASSUME Current, AllTyped(chg)
  PROVE  /\ Numbered(Members(red)) /\ Members(red) \subseteq Reduction(chg.ops)
         /\ \A r \in Members(red) :
              Shaped(r) /\ Typed(r) /\ \E op \in chg.ops : op.seq = r.seq
  <1>1. Log(chg.ops) /\ red = Effective(chg.ops)
    BY RowsShown DEF Current
  <1>2. Members(red) \subseteq Reduction(chg.ops)
    BY <1>1, EffectiveIsFinal
  <1>3. Numbered(Members(red))
    <2>1. Numbered(Reduction(chg.ops))
      BY <1>1, ReductionIsNumbered
    <2>2. QED
      BY <1>2, <2>1 DEF Numbered
  <1>4. ASSUME NEW r \in Members(red)
        PROVE  Shaped(r) /\ Typed(r) /\ \E op \in chg.ops : op.seq = r.seq
    <2>1. Shaped(r)
      BY <1>1, <1>2, ReductionIsNet DEF Net
    <2>2. Composed(On(chg.ops, r.target), r)
      BY <1>1, <1>2, FieldsWereStaged
    <2>3. \A op \in On(chg.ops, r.target) : op \in chg.ops /\ op.target = r.target /\ Typed(op)
      BY DEF On, AllTyped
    <2>4. \E op \in chg.ops : op.seq = r.seq
      BY <2>2, <2>3 DEF Composed
    <2>5. PICK put \in On(chg.ops, r.target) :
            put.kind = r.kind /\ put.source = r.source /\ put.parent = r.parent /\ put.perm = r.perm
      BY <2>2 DEF Composed
    <2>6. /\ r.name \in Names \cup {NewName, None}
          /\ r.was \in Names \cup Folders \cup {NewName, BinName, Root, None}
          /\ r.before \in Drafts \cup {None}
      BY <2>2, <2>3 DEF Composed, Typed
    <2>7. PICK held \in On(chg.ops, r.target) :
            /\ held.after = r.after
            /\ r.kind \in {"CreateEntry", "EditEntry"} => held.kind \in {"CreateEntry", "EditEntry"}
      BY <2>2 DEF Composed
    <2>8. /\ r.after \in Drafts \cup {None}
          /\ r.kind \in {"CreateEntry", "EditEntry"} => r.after \in Drafts
      BY <2>3, <2>7 DEF Typed
    <2>9. Typed(r)
      BY <2>3, <2>5, <2>6, <2>8 DEF Typed
    <2>10. QED
      BY <2>1, <2>4, <2>9
  <1>5. QED
    BY <1>2, <1>3, <1>4

(* The rows are items, in folders or in none, under names.                 *)
LEMMA RowsAreTyped ==
  ASSUME Current, IsVault(file), AllTyped(chg)
  PROVE  /\ DOMAIN view \subseteq Ids
         /\ \A id : HomeOf(id) \in Homes
         /\ \A id \in DOMAIN view \cap Folders : view[id].data \in Names \cup {NewName, BinName, None}
  <1>1. /\ Numbered(Members(red))
        /\ \A r \in Members(red) : Typed(r)
    BY NetIsTyped
  <1>2. DOMAIN view = (Live(file) \ {Root}) \cup Targets(OfKind(Members(red), CreateKinds))
    BY RowsShown
  <1>3. DOMAIN view \subseteq Ids
    BY <1>1, <1>2 DEF IsVault, Targets, OfKind, Typed
  <1>4. ASSUME NEW kinds, NEW id, NEW some \in SUBSET Staged(kinds, id, red), some # {}
        PROVE  Latest(some) \in Members(red) /\ Latest(some).kind \in kinds /\ Latest(some).target = id
    <2>1. some \subseteq Members(red)
      BY DEF Staged, OfKind, On
    <2>2. Numbered(some)
      BY <1>1, <2>1 DEF Numbered
    <2>3. Latest(some) \in some
      BY <1>4, <2>2, LatestComesLast
    <2>4. QED
      BY <2>3 DEF Staged, OfKind, On
  <1>5. ASSUME NEW kinds, NEW id, Staged(kinds, id, red) # {}
        PROVE  LET one == Latest(Staged(kinds, id, red))
               IN  one \in Members(red) /\ one.kind \in kinds /\ one.target = id
    <2>1. PICK some : some = Staged(kinds, id, red)
      OBVIOUS
    <2>2. some \in SUBSET Staged(kinds, id, red)
      BY <2>1
    <2>3. QED
      BY <1>4, <1>5, <2>1, <2>2
  <1>6. ASSUME NEW id \in DOMAIN view
        PROVE  view[id].home \in Homes
               /\ (id \in Folders => view[id].data \in Names \cup {NewName, BinName, None})
    <2> DEFINE born   == id \in Targets(OfKind(Members(red), CreateKinds))
               made   == Latest(Staged(CreateKinds, id, red))
               base   == RowBase(id)
               edits  == RowEdits(id)
               titles == RowTitles(id)
               moves  == RowMoves(id)
    <2>1. moves # {} => Latest(moves).parent \in Homes
      <3>1. moves \in SUBSET Staged(MoveKinds, id, red)
        BY DEF RowMoves
      <3> HIDE DEF moves
      <3>2. moves # {} => Latest(moves) \in Members(red)
        BY <1>4, <3>1
      <3>3. QED
        BY <1>1, <3>2 DEF Typed
    <2>2. /\ edits # {} => id \in Entries
          /\ titles # {} => Latest(titles).name \in Names \cup {NewName, None}
      BY <1>1, <1>5 DEF Typed, RowEdits, RowTitles
    <2>3. /\ view[id].home = IF moves = {} THEN base.home ELSE Latest(moves).parent
          /\ edits = {} => view[id].data = IF titles # {} THEN Latest(titles).name ELSE base.data
      BY RowIs
    <2>4. base.home \in Homes /\ (id \in Folders => base.data \in Names \cup {NewName, BinName, None})
      <3>1. CASE born
        <4>1. Staged(CreateKinds, id, red) # {}
          BY <3>1 DEF Staged, OfKind, On, Targets
        <4>2. made \in Members(red) /\ made.kind \in CreateKinds /\ made.target = id
          BY <1>5, <4>1
        <4>3. Typed(made)
          BY <1>1, <4>2
        <4>4. base = Born(made)
          BY <3>1 DEF RowBase
        <4> HIDE DEF made, base
        <4>5. CASE made.kind = "CreateEntry"
          <5>1. made.after \in Drafts /\ id \notin Folders
            BY <4>2, <4>3, <4>5, StagingAssumption DEF Typed
          <5>2. Born(made).home = made.after.group
            BY <4>5 DEF Born
          <5>3. QED
            BY <4>4, <5>1, <5>2 DEF Drafts
        <4>6. CASE made.kind # "CreateEntry"
          <5>1. Born(made).home = made.parent /\ Born(made).data = made.name
            BY <4>6 DEF Born
          <5>2. QED
            BY <4>4, <4>3, <5>1 DEF Typed
        <4>7. QED
          BY <4>5, <4>6
      <3>2. CASE ~born
        <4>1. id \in Live(file)
          BY <1>2, <3>2
        <4>2. base.home = file.node[id].home /\ base.data = file.node[id].data
          BY <3>2 DEF Filed, RowBase
        <4>3. file.node[id].home \in Homes /\ file.node[id].data \in Content(id)
          BY <4>1 DEF IsVault
        <4>4. id \in Folders => id \notin Entries
          BY StagingAssumption
        <4>5. QED
          BY <4>2, <4>3, <4>4 DEF Content, IsEntry
      <3>3. QED
        BY <3>1, <3>2
    <2> HIDE DEF base, edits, titles, moves
    <2>5. id \in Folders => id \notin Entries
      BY StagingAssumption
    <2>6. QED
      BY <2>1, <2>2, <2>3, <2>4, <2>5
  <1>7. \A id : HomeOf(id) \in Homes
    BY <1>6 DEF HomeOf, Homes
  <1>8. QED
    BY <1>3, <1>6, <1>7

(* What the editor starts from is a draft, and it knows where that lives.  *)
LEMMA DraftsAreTyped ==
  ASSUME Current, IsVault(file), AllTyped(chg), NEW id \in Entries
  PROVE  /\ FileDraft(id) \in Drafts \cup {None}
         /\ id \in DOMAIN view => LatestDraft(id) \in Drafts /\ EditHome(id) \in Homes
  <1>1. /\ Numbered(Members(red))
        /\ \A r \in Members(red) : Typed(r)
    BY NetIsTyped
  <1>2. None \notin Drafts
    BY StagingAssumption
  <1>3. id \in Live(file) => FileDraft(id) \in Drafts
    <2> SUFFICES ASSUME id \in Live(file) PROVE FileDraft(id) \in Drafts
      OBVIOUS
    <2>1. file.node[id].data \in Vals /\ file.node[id].home \in Homes
      BY DEF IsVault, Content, IsEntry
    <2>2. FileDraft(id) = [val |-> file.node[id].data, group |-> file.node[id].home]
      BY DEF FileDraft, FindEntry, Has, IsEntry
    <2>3. QED
      BY <2>1, <2>2 DEF Drafts
  <1>4. id \notin Live(file) => FileDraft(id) = None
    BY DEF FileDraft, FindEntry, Has
  <1> DEFINE holding == Staged({"CreateEntry", "EditEntry"}, id, red)
  <1>5. holding # {} => Latest(holding).after \in Drafts
    <2> SUFFICES ASSUME holding # {} PROVE Latest(holding).after \in Drafts
      OBVIOUS
    <2>1. \A r \in holding : r \in Members(red) /\ r.kind \in {"CreateEntry", "EditEntry"}
      BY DEF Staged, OfKind, On
    <2>2. Numbered(holding)
      BY <1>1, <2>1 DEF Numbered
    <2> HIDE DEF holding
    <2>3. Latest(holding) \in holding
      BY <2>2, LatestComesLast
    <2>4. QED
      BY <1>1, <2>1, <2>3 DEF Typed
  <1>6. StagedDraft(id) = IF holding = {} THEN None ELSE Latest(holding).after
    BY DEF StagedDraft
  <1>7. id \in DOMAIN view /\ id \notin Live(file) => holding # {}
    <2> SUFFICES ASSUME id \in DOMAIN view, id \notin Live(file) PROVE holding # {}
      OBVIOUS
    <2>1. PICK r \in Members(red) : r.kind \in CreateKinds /\ r.target = id
      BY RowsShown DEF Targets, OfKind
    <2>2. r.kind = "CreateEntry"
      BY <1>1, <2>1, StagingAssumption DEF Typed, CreateKinds
    <2>3. r \in holding
      BY <2>1, <2>2 DEF Staged, OfKind, On
    <2>4. QED
      BY <2>3
  <1> HIDE DEF holding
  <1>8. id \in DOMAIN view => LatestDraft(id) \in Drafts
    BY <1>2, <1>3, <1>5, <1>6, <1>7 DEF LatestDraft
  <1>9. id \in DOMAIN view => EditHome(id) \in Homes
    BY <1>8, RowsAreTyped DEF EditHome, Drafts
  <1>10. QED
    BY <1>3, <1>4, <1>8, <1>9

(* One more operation of its types.                                        *)
LEMMA TypedAdd ==
  ASSUME NEW set, AllTyped(set), NEW op, Shaped(op), Typed(op)
  PROVE  AllTyped(Add(set, op))
  <1>1. PICK new : new = [op EXCEPT !.seq = set.seq + 1]
    OBVIOUS
  <1>2. PICK all : all = Add(set, op)
    OBVIOUS
  <1>3. all.ops = set.ops \cup {new}
    BY <1>1, <1>2 DEF Add
  <1>4. /\ new.kind = op.kind /\ new.source = op.source /\ new.target = op.target
        /\ new.parent = op.parent /\ new.name = op.name /\ new.was = op.was
        /\ new.before = op.before /\ new.after = op.after /\ new.perm = op.perm
    BY <1>1, Stamped
  <1>5. Typed(new)
    BY <1>4 DEF Typed
  <1>6. AllTyped(all)
    BY <1>3, <1>5 DEF AllTyped
  <1>7. QED
    BY <1>2, <1>6

(* The operation of a key, once its fields are known.                      *)
LEMMA TypedKey ==
  ASSUME AllTyped(chg), NEW op,
         NEW kind \in {"CreateEntry", "EditEntry", "MoveEntry", "DeleteEntry",
                       "CreateGroup", "RenameGroup", "MoveGroup", "DeleteGroup"},
         NEW target \in Ids, NEW parent \in Homes, NEW name \in Names \cup {NewName, None},
         NEW was \in Names \cup Folders \cup {NewName, BinName, Root, None},
         NEW before \in Drafts \cup {None}, NEW after \in Drafts \cup {None}, NEW perm \in BOOLEAN,
         op = [seq |-> 0, kind |-> kind, source |-> Source, target |-> target, parent |-> parent,
               name |-> name, was |-> was, before |-> before, after |-> after, perm |-> perm],
         kind \in {"CreateEntry", "EditEntry"} => target \in Entries /\ after \in Drafts,
         kind \in {"MoveEntry", "DeleteEntry"} => target \in Entries,
         kind \in {"CreateGroup", "RenameGroup", "MoveGroup", "DeleteGroup"} => target \in Folders
  PROVE  Shaped(op) /\ Typed(op) /\ AllTyped(Add(chg, op))
  <1>1. Shaped(op)
    BY DEF Shaped
  <1>2. /\ op.kind = kind /\ op.source = Source /\ op.target = target /\ op.parent = parent
        /\ op.name = name /\ op.was = was /\ op.before = before /\ op.after = after /\ op.perm = perm
    OBVIOUS
  <1>3. Typed(op)
    BY <1>2 DEF Typed
  <1>4. QED
    BY <1>1, <1>3, TypedAdd

(* The keys that stage anything but a deletion.                            *)
LEMMA TypedStaging ==
  ASSUME Current, IsVault(file), AllTyped(chg)
  PROVE  /\ \A id \in Entries : \A parent \in Folders \cup {None} : \A val \in Vals :
              StageNewEntry(id, parent, val) => AllTyped(chg')
         /\ \A id \in Entries : \A val \in Vals : StageEdit(id, val) => AllTyped(chg')
         /\ \A id \in Entries : \A val \in Vals : StageRetitle(id, val) => AllTyped(chg')
         /\ \A id \in Folders : \A name \in Names : StageRename(id, name) => AllTyped(chg')
         /\ \A id \in Folders : \A parent \in Folders \cup {None} :
              OpenNewFolder(id, parent) => AllTyped(chg')
         /\ \A id \in Ids : \A dest \in Folders \cup {Root} : StageMove(id, dest) => AllTyped(chg')
  <1>0. /\ Entries \subseteq Ids /\ Folders \subseteq Ids /\ None \in Homes
        /\ Folders \cup {None} \subseteq Homes /\ Folders \cup {Root} \subseteq Homes
    BY DEF Ids, Homes
  <1>1. ASSUME NEW id \in Entries, NEW parent \in Folders \cup {None}, NEW val \in Vals,
               StageNewEntry(id, parent, val)
        PROVE  AllTyped(chg')
    <2>1. PICK after : after = [val |-> val, group |-> parent]
      OBVIOUS
    <2>2. PICK op : op = [Op("CreateEntry", Source, id) EXCEPT !.parent = parent, !.after = after]
      OBVIOUS
    <2>3. chg' = Add(chg, op)
      BY <1>1, <2>1, <2>2 DEF StageNewEntry, Stage, Becomes
    <2>4. op = [seq |-> 0, kind |-> "CreateEntry", source |-> Source, target |-> id,
                parent |-> parent, name |-> None, was |-> None, before |-> None,
                after |-> after, perm |-> FALSE]
      BY <2>2 DEF Op
    <2>5. after \in Drafts
      BY <1>0, <2>1 DEF Drafts
    <2>6. QED
      BY <1>0, <2>3, <2>4, <2>5, TypedKey
  <1>2. ASSUME NEW id \in Entries, NEW val \in Vals, StageEdit(id, val)
        PROVE  AllTyped(chg')
    <2>1. PICK home, old, after : /\ home = EditHome(id) /\ old = LatestDraft(id)
                                  /\ after = [val |-> val, group |-> home]
      OBVIOUS
    <2>2. PICK again, edit :
            /\ again = [Op("CreateEntry", Source, id) EXCEPT !.parent = home, !.after = after]
            /\ edit  = [Op("EditEntry", Source, id) EXCEPT !.before = old, !.after = after]
      OBVIOUS
    <2>3. id \in DOMAIN view /\ (chg' = Add(chg, again) \/ chg' = Add(chg, edit))
      BY <1>2, <2>1, <2>2 DEF StageEdit, Stage, Becomes
    <2>4. home \in Homes /\ old \in Drafts
      BY <2>1, <2>3, DraftsAreTyped
    <2>5. after \in Drafts
      BY <2>1, <2>4 DEF Drafts
    <2>6. again = [seq |-> 0, kind |-> "CreateEntry", source |-> Source, target |-> id,
                   parent |-> home, name |-> None, was |-> None, before |-> None,
                   after |-> after, perm |-> FALSE]
      BY <2>2 DEF Op
    <2>7. edit = [seq |-> 0, kind |-> "EditEntry", source |-> Source, target |-> id,
                  parent |-> None, name |-> None, was |-> None, before |-> old,
                  after |-> after, perm |-> FALSE]
      BY <2>2 DEF Op
    <2>8. AllTyped(Add(chg, again))
      BY <1>0, <2>4, <2>5, <2>6, TypedKey
    <2>9. AllTyped(Add(chg, edit))
      BY <1>0, <2>4, <2>5, <2>7, TypedKey
    <2>10. QED
      BY <2>3, <2>8, <2>9
  <1>3. ASSUME NEW id \in Entries, NEW val \in Vals, StageRetitle(id, val)
        PROVE  AllTyped(chg')
    <2>1. PICK before, after :
            /\ before = IF StagedDraft(id) = None THEN FileDraft(id) ELSE None
            /\ after = [val |-> val, group |-> EditHome(id)]
      OBVIOUS
    <2>2. PICK op : op = [Op("EditEntry", Source, id) EXCEPT !.before = before, !.after = after]
      OBVIOUS
    <2>3. id \in DOMAIN view /\ chg' = Add(chg, op)
      BY <1>3, <2>1, <2>2 DEF StageRetitle, Stage, Becomes
    <2>4. before \in Drafts \cup {None} /\ after \in Drafts
      BY <2>1, <2>3, DraftsAreTyped DEF Drafts
    <2>5. op = [seq |-> 0, kind |-> "EditEntry", source |-> Source, target |-> id,
                parent |-> None, name |-> None, was |-> None, before |-> before,
                after |-> after, perm |-> FALSE]
      BY <2>2 DEF Op
    <2>6. QED
      BY <1>0, <2>3, <2>4, <2>5, TypedKey
  <1>4. ASSUME NEW id \in Folders, NEW name \in Names, StageRename(id, name)
        PROVE  AllTyped(chg')
    <2>1. PICK was : was = view[id].data
      OBVIOUS
    <2>2. PICK op : op = [Op("RenameGroup", Source, id) EXCEPT !.name = name, !.was = was]
      OBVIOUS
    <2>3. id \in DOMAIN view /\ chg' = Add(chg, op)
      BY <1>4, <2>1, <2>2 DEF StageRename, Stage, Becomes
    <2>4. was \in Names \cup {NewName, BinName, None}
      BY <2>1, <2>3, RowsAreTyped
    <2>5. op = [seq |-> 0, kind |-> "RenameGroup", source |-> Source, target |-> id,
                parent |-> None, name |-> name, was |-> was, before |-> None,
                after |-> None, perm |-> FALSE]
      BY <2>2 DEF Op
    <2>6. QED
      BY <1>0, <2>3, <2>4, <2>5, TypedKey
  <1>5. ASSUME NEW id \in Folders, NEW parent \in Folders \cup {None}, OpenNewFolder(id, parent)
        PROVE  AllTyped(chg')
    <2>1. PICK op : op = [Op("CreateGroup", Source, id) EXCEPT !.parent = parent, !.name = NewName]
      OBVIOUS
    <2>2. chg' = Add(chg, op)
      BY <1>5, <2>1 DEF OpenNewFolder, Becomes
    <2>3. op = [seq |-> 0, kind |-> "CreateGroup", source |-> Source, target |-> id,
                parent |-> parent, name |-> NewName, was |-> None, before |-> None,
                after |-> None, perm |-> FALSE]
      BY <2>1 DEF Op
    <2>4. QED
      BY <1>0, <2>2, <2>3, TypedKey
  <1>6. ASSUME NEW id \in Ids, NEW dest \in Folders \cup {Root}, StageMove(id, dest)
        PROVE  AllTyped(chg')
    <2>0. id \in Entries <=> id \notin Folders
      BY StagingAssumption DEF Ids
    <2>1. PICK kind, was : kind = (IF IsEntry(id) THEN "MoveEntry" ELSE "MoveGroup") /\ was = HomeOf(id)
      OBVIOUS
    <2>2. PICK op : op = [Op(kind, Source, id) EXCEPT !.was = was, !.parent = dest]
      OBVIOUS
    <2>3. chg' = Add(chg, op)
      BY <1>6, <2>1, <2>2 DEF StageMove, Stage, Becomes
    <2>4. was \in Folders \cup {Root, None} /\ kind \in {"MoveEntry", "MoveGroup"}
      BY <2>1, RowsAreTyped DEF Homes
    <2>5. op = [seq |-> 0, kind |-> kind, source |-> Source, target |-> id,
                parent |-> dest, name |-> None, was |-> was, before |-> None,
                after |-> None, perm |-> FALSE]
      BY <2>2 DEF Op
    <2>6. /\ was \in Names \cup Folders \cup {NewName, BinName, Root, None} /\ dest \in Homes
      BY <1>0, <2>4
    <2>7. AllTyped(Add(chg, op))
      <3>1. CASE kind = "MoveEntry"
        <4>1. id \in Entries
          BY <2>1, <3>1 DEF IsEntry
        <4>2. QED
          BY <1>0, <2>5, <2>6, <3>1, <4>1, TypedKey
      <3>2. CASE kind = "MoveGroup"
        <4>1. id \in Folders
          BY <2>0, <2>1, <3>2 DEF IsEntry
        <4>2. QED
          BY <1>0, <2>5, <2>6, <3>2, <4>1, TypedKey
      <3>3. QED
        BY <2>4, <3>1, <3>2
    <2>8. QED
      BY <2>3, <2>7
  <1>7. QED
    BY <1>1, <1>2, <1>3, <1>4, <1>5, <1>6

(* What is taken back leaves operations of their types.                    *)
LEMMA TypedLess ==
  ASSUME NEW set, AllTyped(set), NEW left, left.ops \subseteq set.ops
  PROVE  AllTyped(left)
  BY DEF AllTyped

(* d and D.                                                                *)
LEMMA TypedDelete ==
  ASSUME Current, IsVault(file), AllTyped(chg),
         NEW id \in Ids, NEW permanent \in BOOLEAN, StageDelete(id, permanent)
  PROVE  AllTyped(chg')
  <1>1. PICK perm, before : perm = (permanent \/ ~BinEnabled) /\ before = FileDraft(id)
    OBVIOUS
  <1>2. PICK back, one, all :
          /\ back = IF StagedDeletion(id) = {} THEN chg
                    ELSE Revert(chg, Latest(StagedDeletion(id)).seq)
          /\ one = [Op("DeleteEntry", Source, id) EXCEPT !.before = before, !.perm = perm]
          /\ all = [Op("DeleteGroup", Source, id) EXCEPT !.perm = perm]
    OBVIOUS
  <1>3. /\ id \in DOMAIN view /\ ~InDoomedFolder(id)
        /\ \/ chg' = back
           \/ chg' = Add(back, one) /\ id \in Entries
           \/ chg' = Add(DropDeletionsUnder(back, id), all) /\ id \notin Entries
    BY <1>1, <1>2 DEF StageDelete, Stage, Becomes, IsEntry
  <1>4. Handles(back) /\ Sane(file, back)
    BY <1>2, <1>3, NoneIsLeft
  <1>5. AllTyped(back)
    <2>1. Handles(chg) /\ Sane(file, chg)
      BY DEF Current, NumbersHold
    <2>2. back = chg \/ \E undone : back = Without(chg, undone)
      BY <1>2 DEF Revert
    <2>3. back.ops \subseteq chg.ops
      BY <2>1, <2>2, SaneWithout
    <2>4. QED
      BY <2>3, TypedLess
  <1>6. perm \in BOOLEAN
    BY <1>1
  <1>7. None \in Homes
    BY DEF Homes
  <1>8. id \in Entries => Shaped(one) /\ Typed(one)
    <2> SUFFICES ASSUME id \in Entries PROVE Shaped(one) /\ Typed(one)
      OBVIOUS
    <2>1. before \in Drafts \cup {None}
      BY <1>1, DraftsAreTyped
    <2>2. one = [seq |-> 0, kind |-> "DeleteEntry", source |-> Source, target |-> id,
                 parent |-> None, name |-> None, was |-> None, before |-> before,
                 after |-> None, perm |-> perm]
      BY <1>2 DEF Op
    <2>3. QED
      BY <1>6, <1>7, <2>1, <2>2, TypedKey
  <1>9. id \notin Entries => Shaped(all) /\ Typed(all)
    <2> SUFFICES ASSUME id \notin Entries PROVE Shaped(all) /\ Typed(all)
      OBVIOUS
    <2>0. id \in Folders
      BY DEF Ids
    <2>1. all = [seq |-> 0, kind |-> "DeleteGroup", source |-> Source, target |-> id,
                 parent |-> None, name |-> None, was |-> None, before |-> None,
                 after |-> None, perm |-> perm]
      BY <1>2 DEF Op
    <2>2. QED
      BY <1>6, <1>7, <2>0, <2>1, TypedKey
  <1>10. id \in Entries => AllTyped(Add(back, one))
    BY <1>5, <1>8, TypedAdd
  <1>11. id \notin Entries => AllTyped(Add(DropDeletionsUnder(back, id), all))
    <2> SUFFICES ASSUME id \notin Entries PROVE AllTyped(Add(DropDeletionsUnder(back, id), all))
      OBVIOUS
    <2>1. PICK rest : rest = DropDeletionsUnder(back, id)
      OBVIOUS
    <2>2. rest.ops \subseteq back.ops
      BY <1>4, <2>1, SaneDropUnder
    <2>3. AllTyped(rest)
      BY <1>5, <2>2, TypedLess
    <2>4. AllTyped(Add(rest, all))
      BY <1>9, <2>3, TypedAdd
    <2>5. QED
      BY <2>1, <2>4
  <1>12. QED
    BY <1>3, <1>5, <1>10, <1>11

(* The reduced set is one a save can be asked to perform: whatever is       *)
(* staged twice about a target has been made one.                          *)
LEMMA ReducedIsDue ==
  ASSUME Current, AllTyped(chg)
  PROVE  Len(red) \in Nat /\ DOMAIN red = 1 .. Len(red) /\ Due(file, red)
  <1>1. Log(chg.ops) /\ red = Effective(chg.ops)
    BY RowsShown DEF Current
  <1>2. Sorted(Final(chg.ops), Final(chg.ops), red)
    BY <1>1, EffectiveIsFinal
  <1>3. /\ red \in Seq(Final(chg.ops))
        /\ \A i, j \in DOMAIN red : i < j => red[i] # red[j]
    BY <1>2 DEF Sorted
  <1>4. Len(red) \in Nat /\ DOMAIN red = 1 .. Len(red)
    BY <1>3
  <1>5. \A i \in 1 .. Len(red) : red[i] \in Members(red)
    BY <1>4 DEF Members
  <1>6. \A r \in Members(red) : Typed(r) /\ r \in Reduction(chg.ops)
    BY NetIsTyped
  <1>7. ASSUME NEW r \in Members(red), r.kind \in CreateKinds
        PROVE  r.target \notin Live(file) \cup file.tombs \cup Bins
    <2>1. PICK op \in OfKind(chg.ops, CreateKinds) : op.target = r.target
      BY <1>1, <1>7, EffectiveWasStaged
    <2>2. op \in chg.ops /\ op.kind \in CreateKinds
      BY DEF OfKind
    <2>3. QED
      BY <2>1, <2>2 DEF Current, Sane, Fits
  <1>8. ASSUME NEW r \in Members(red), NEW q \in Members(red), r # q, r.target = q.target
        PROVE  /\ r.kind \in CreateKinds => q.kind \notin CreateKinds
               /\ r.kind \in WayOut => q.kind \notin WayOut
               /\ r.kind \in Rewrites => q.kind \notin Rewrites
    <2>1. \A family \in Families : ~(r.kind \in family /\ q.kind \in family)
      BY <1>1, <1>6, <1>8, ReductionIsNumbered
    <2>2. ~(r.kind \in MoveKinds /\ q.kind \in DeleteKinds) /\ ~(q.kind \in MoveKinds /\ r.kind \in DeleteKinds)
      BY <1>1, <1>6, <1>8, NoMoveOfTheDeleted
    <2>3. ~(r.kind = "CreateEntry" /\ q.kind = "CreateGroup") /\ ~(q.kind = "CreateEntry" /\ r.kind = "CreateGroup")
      BY <1>6, <1>8, StagingAssumption DEF Typed
    <2>4. ~(r.kind = "EditEntry" /\ q.kind = "RenameGroup") /\ ~(q.kind = "EditEntry" /\ r.kind = "RenameGroup")
      BY <1>6, <1>8, StagingAssumption DEF Typed
    <2>5. /\ {"CreateEntry"} \in Families /\ {"CreateGroup"} \in Families
          /\ {"EditEntry"} \in Families /\ {"RenameGroup"} \in Families /\ MoveKinds \in Families /\ DeleteKinds \in Families
      BY DEF Families
    <2>6. /\ ~(r.kind = "CreateEntry" /\ q.kind = "CreateEntry")
          /\ ~(r.kind = "CreateGroup" /\ q.kind = "CreateGroup")
          /\ ~(r.kind = "EditEntry" /\ q.kind = "EditEntry")
          /\ ~(r.kind = "RenameGroup" /\ q.kind = "RenameGroup")
          /\ ~(r.kind \in MoveKinds /\ q.kind \in MoveKinds)
          /\ ~(r.kind \in DeleteKinds /\ q.kind \in DeleteKinds)
      BY <2>1, <2>5
    <2>7. QED
      BY <2>2, <2>3, <2>4, <2>6 DEF CreateKinds, WayOut, Rewrites
  <1>9. Due(file, red)
    <2>1. ASSUME NEW i \in 1 .. Len(red), NEW j \in 1 .. Len(red), i < j, red[i].target = red[j].target
          PROVE  /\ red[i].kind \in CreateKinds => red[j].kind \notin CreateKinds
                 /\ red[i].kind \in WayOut => red[j].kind \notin WayOut
                 /\ red[i].kind \in Rewrites => red[j].kind \notin Rewrites
      <3>1. red[i] \in Members(red) /\ red[j] \in Members(red) /\ red[i] # red[j]
        BY <1>3, <1>4, <1>5, <2>1
      <3>2. QED
        BY <1>8, <2>1, <3>1
    <2>2. ASSUME NEW i \in 1 .. Len(red)
          PROVE  /\ Typed(red[i])
                 /\ red[i].kind \in CreateKinds => red[i].target \notin Live(file) \cup file.tombs \cup Bins
      BY <1>5, <1>6, <1>7
    <2>3. QED
      BY <2>1, <2>2 DEF Due
  <1>10. QED
    BY <1>4, <1>9

(* So a save that goes through leaves a tree that follows from the file.   *)
LEMMA OutcomeFollows ==
  ASSUME BinsLast, Current, IsVault(file), AllTyped(chg), Outcome.ok
  PROVE  Follows(file, Outcome.tree, Members(red))
  BY ReducedIsDue, SaveFollows DEF Outcome

(* No key unsettles the types, and neither does a save.                    *)
LEMMA TypedStep ==
  ASSUME BinsLast, Current, IsVault(file), AllTyped(chg), [Next]_vars
  PROVE  IsVault(file') /\ AllTyped(chg')
  <1>1. Handles(chg) /\ Sane(file, chg)
    BY DEF Current, NumbersHold
  <1>2. ASSUME Becomes(chg'), AllTyped(chg') PROVE IsVault(file') /\ AllTyped(chg')
    <2>1. file' = file
      BY <1>2 DEF Becomes
    <2>2. QED
      BY <1>2, <2>1
  <1>3. ASSUME NEW id \in Entries, NEW parent \in Folders \cup {None}, NEW val \in Vals,
               StageNewEntry(id, parent, val)
        PROVE  IsVault(file') /\ AllTyped(chg')
    <2>1. Becomes(chg')
      BY <1>3 DEF StageNewEntry, Stage, Becomes
    <2>2. QED
      BY <1>2, <1>3, <2>1, TypedStaging
  <1>4. ASSUME NEW id \in Entries, NEW val \in Vals, StageEdit(id, val)
        PROVE  IsVault(file') /\ AllTyped(chg')
    <2>1. Becomes(chg')
      BY <1>4 DEF StageEdit, Stage, Becomes
    <2>2. QED
      BY <1>2, <1>4, <2>1, TypedStaging
  <1>5. ASSUME NEW id \in Entries, NEW val \in Vals, StageRetitle(id, val)
        PROVE  IsVault(file') /\ AllTyped(chg')
    <2>1. Becomes(chg')
      BY <1>5 DEF StageRetitle, Stage, Becomes
    <2>2. QED
      BY <1>2, <1>5, <2>1, TypedStaging
  <1>6. ASSUME NEW id \in Folders, NEW name \in Names, StageRename(id, name)
        PROVE  IsVault(file') /\ AllTyped(chg')
    <2>1. Becomes(chg')
      BY <1>6 DEF StageRename, Stage, Becomes
    <2>2. QED
      BY <1>2, <1>6, <2>1, TypedStaging
  <1>7. ASSUME NEW id \in Folders, NEW parent \in Folders \cup {None}, OpenNewFolder(id, parent)
        PROVE  IsVault(file') /\ AllTyped(chg')
    <2>1. Becomes(chg')
      BY <1>7 DEF OpenNewFolder, Becomes
    <2>2. QED
      BY <1>2, <1>7, <2>1, TypedStaging
  <1>8. ASSUME NEW id \in Ids, NEW dest \in Folders \cup {Root}, StageMove(id, dest)
        PROVE  IsVault(file') /\ AllTyped(chg')
    <2>1. Becomes(chg')
      BY <1>8 DEF StageMove, Stage, Becomes
    <2>2. QED
      BY <1>2, <1>8, <2>1, TypedStaging
  <1>9. ASSUME NEW id \in Ids, NEW permanent \in BOOLEAN, StageDelete(id, permanent)
        PROVE  IsVault(file') /\ AllTyped(chg')
    <2>1. Becomes(chg')
      BY <1>9 DEF StageDelete, Stage, Becomes
    <2>2. QED
      BY <1>2, <1>9, <2>1, TypedDelete
  <1>10. ASSUME NEW name \in Names \cup {NewName}, NameNewFolder(name)
         PROVE  IsVault(file') /\ AllTyped(chg')
    <2>1. PICK made : made = CHOOSE op \in chg.ops : op.seq = naming
      OBVIOUS
    <2>2. made \in chg.ops /\ made.kind = "CreateGroup"
      <3>1. PICK one \in OfKind(chg.ops, {"CreateGroup"}) : one.seq = naming
        BY <1>10 DEF NameNewFolder, Current
      <3>2. one \in chg.ops /\ one.kind = "CreateGroup"
        BY DEF OfKind
      <3>3. made \in chg.ops /\ made.seq = naming
        BY <2>1, <3>1, <3>2
      <3>4. QED
        BY <1>1, <3>1, <3>2, <3>3 DEF Handles
    <2>3. PICK target : target = made.target
      OBVIOUS
    <2>4. PICK op : op = [Op("RenameGroup", Source, target) EXCEPT !.name = name, !.was = NewName]
      OBVIOUS
    <2>5. Becomes(chg') /\ (chg' = chg \/ chg' = Add(chg, op))
      BY <1>10, <2>1, <2>3, <2>4 DEF NameNewFolder, Becomes
    <2>6. op = [seq |-> 0, kind |-> "RenameGroup", source |-> Source, target |-> target,
                parent |-> None, name |-> name, was |-> NewName, before |-> None,
                after |-> None, perm |-> FALSE]
      BY <2>4 DEF Op
    <2>7. target \in Folders /\ target \in Ids /\ None \in Homes
      BY <2>2, <2>3 DEF AllTyped, Typed, Ids, Homes
    <2>8. AllTyped(Add(chg, op))
      BY <2>6, <2>7, TypedKey
    <2>9. QED
      BY <1>2, <2>5, <2>8
  <1>11. CASE AbandonNewFolder
    <2>1. Becomes(chg') /\ \E undone : chg' = Without(chg, undone)
      BY <1>11 DEF AbandonNewFolder, Becomes, Revert
    <2>2. chg'.ops \subseteq chg.ops
      BY <1>1, <2>1, SaneWithout
    <2>3. QED
      BY <1>2, <2>1, <2>2, TypedLess
  <1>12. ASSUME NEW id, Undo(id) PROVE IsVault(file') /\ AllTyped(chg')
    <2>1. Becomes(chg') /\ \E undone : chg' = Without(chg, undone)
      BY <1>12 DEF Undo, Stage, Becomes, RevertTarget
    <2>2. chg'.ops \subseteq chg.ops
      BY <1>1, <2>1, SaneWithout
    <2>3. QED
      BY <1>2, <2>1, <2>2, TypedLess
  <1>13. CASE Save
    <2>1. file' = Outcome.tree /\ Outcome.ok /\ chg'.ops = {}
      BY <1>13 DEF Save, EmptySet
    <2>2. IsVault(Outcome.tree)
      BY <2>1, OutcomeFollows DEF Follows
    <2>3. QED
      BY <2>1, <2>2 DEF AllTyped
  <1>14. CASE UNCHANGED vars
    BY <1>14 DEF vars, AllTyped
  <1>15. QED
    BY <1>3, <1>4, <1>5, <1>6, <1>7, <1>8, <1>9, <1>10, <1>11, <1>12, <1>13, <1>14 DEF Next

(* The bound on what a session stages.                                     *)
Counts ==
  /\ chg.seq <= spent /\ spent \in 0 .. MaxSeq + 1
  /\ naming \in 0 .. MaxSeq /\ (naming # 0 => spent <= MaxSeq)

(* A key stages one operation at most.                                     *)
LEMMA OneAtMost ==
  ASSUME Current, [Next]_vars
  PROVE  \/ chg'.seq = chg.seq \/ chg'.seq = chg.seq + 1
         \/ chg' = EmptySet /\ naming' = 0 /\ spent' = spent
  <1>1. Handles(chg) /\ Sane(file, chg)
    BY DEF Current, NumbersHold
  <1>2. \A set, op : Add(set, op).seq = set.seq + 1
    BY DEF Add
  <1>3. ASSUME NEW id, NEW permanent, StageDelete(id, permanent)
        PROVE  chg'.seq = chg.seq \/ chg'.seq = chg.seq + 1
    <2>1. PICK back : back = IF StagedDeletion(id) = {} THEN chg
                             ELSE Revert(chg, Latest(StagedDeletion(id)).seq)
      OBVIOUS
    <2>2. \/ chg' = back
          \/ \E op : chg' = Add(back, op)
          \/ \E op : chg' = Add(DropDeletionsUnder(back, id), op)
      BY <1>3, <2>1 DEF StageDelete, Stage, Becomes
    <2>3. Handles(back) /\ back.seq = chg.seq
      BY <1>1, <2>1, RevertHandles
    <2>4. DropDeletionsUnder(back, id).seq = chg.seq
      BY <2>3, DropUnderHandles
    <2>5. QED
      BY <1>2, <2>2, <2>3, <2>4
  <1>4. \A undone : Without(chg, undone).seq = chg.seq
    BY <1>1, WithoutHandles
  <1>5. ASSUME NEW id, NEW parent, NEW val, StageNewEntry(id, parent, val)
        PROVE  \E op : chg' = Add(chg, op)
    BY <1>5 DEF StageNewEntry, Stage, Becomes
  <1>6. ASSUME NEW id, NEW val, StageEdit(id, val) PROVE \E op : chg' = Add(chg, op)
    BY <1>6 DEF StageEdit, Stage, Becomes
  <1>7. ASSUME NEW id, NEW val, StageRetitle(id, val) PROVE \E op : chg' = Add(chg, op)
    BY <1>7 DEF StageRetitle, Stage, Becomes
  <1>8. ASSUME NEW id, NEW name, StageRename(id, name) PROVE \E op : chg' = Add(chg, op)
    BY <1>8 DEF StageRename, Stage, Becomes
  <1>9. ASSUME NEW id, NEW parent, OpenNewFolder(id, parent) PROVE \E op : chg' = Add(chg, op)
    BY <1>9 DEF OpenNewFolder, Becomes
  <1>10. ASSUME NEW id, NEW dest, StageMove(id, dest) PROVE \E op : chg' = Add(chg, op)
    BY <1>10 DEF StageMove, Stage, Becomes
  <1>11. ASSUME NEW name, NameNewFolder(name) PROVE chg' = chg \/ \E op : chg' = Add(chg, op)
    BY <1>11 DEF NameNewFolder, Becomes
  <1>12. CASE AbandonNewFolder
    BY <1>4, <1>12 DEF AbandonNewFolder, Becomes, Revert
  <1>13. ASSUME NEW id, Undo(id) PROVE chg'.seq = chg.seq
    BY <1>4, <1>13 DEF Undo, Stage, Becomes, RevertTarget
  <1>14. CASE Save
    BY <1>14 DEF Save
  <1>15. CASE UNCHANGED vars
    BY <1>15 DEF vars
  <1>16. QED
    BY <1>2, <1>3, <1>5, <1>6, <1>7, <1>8, <1>9, <1>10, <1>11, <1>12, <1>13, <1>14, <1>15 DEF Next

LEMMA CountsStep ==
  ASSUME Current, Counts, [Next]_vars
  PROVE  Counts'
  <1>1. /\ chg.seq \in Nat /\ naming \in Nat /\ MaxSeq \in Nat /\ spent \in Nat
        /\ chg.seq <= spent /\ spent <= MaxSeq + 1 /\ naming <= MaxSeq
        /\ naming # 0 => spent <= MaxSeq
    BY StagingAssumption DEF Counts, Current, NumbersHold, Handles
  <1>2. \/ chg'.seq = chg.seq \/ chg'.seq = chg.seq + 1
        \/ chg' = EmptySet /\ naming' = 0 /\ spent' = spent
    BY OneAtMost
  <1>3. ASSUME chg'.seq = chg.seq \/ chg'.seq = chg.seq + 1, spent' = spent + chg'.seq - chg.seq,
               \/ spent < MaxSeq /\ (naming' = 0 \/ naming' = chg'.seq)
               \/ naming # 0 /\ naming' = 0
               \/ chg'.seq = chg.seq /\ naming' = 0
        PROVE  Counts'
    <2>1. /\ chg'.seq <= spent' /\ spent' \in 0 .. MaxSeq + 1
          /\ naming' \in 0 .. MaxSeq /\ (naming' # 0 => spent' <= MaxSeq)
      BY <1>1, <1>3
    <2>2. QED
      BY <2>1 DEF Counts
  <1>4. ASSUME NEW key, Browsing(key), Becomes(chg'), naming' = naming \/ naming' = chg'.seq
        PROVE  Counts'
    <2>1. spent < MaxSeq /\ naming = 0 /\ spent' = spent + chg'.seq - chg.seq
      BY <1>4 DEF Browsing, Becomes
    <2>2. chg' = EmptySet /\ naming' = 0 /\ spent' = spent => chg'.seq = 0
      BY DEF EmptySet
    <2>3. chg'.seq = chg.seq \/ chg'.seq = chg.seq + 1
      BY <1>1, <1>2, <2>1, <2>2
    <2>4. QED
      BY <1>3, <1>4, <2>1, <2>3
  <1>5. ASSUME NEW id, NEW parent, NEW val, StageNewEntry(id, parent, val) PROVE Counts'
    BY <1>4, <1>5 DEF StageNewEntry, Stage, Becomes
  <1>6. ASSUME NEW id, NEW val, StageEdit(id, val) PROVE Counts'
    BY <1>4, <1>6 DEF StageEdit, Stage, Becomes
  <1>7. ASSUME NEW id, NEW val, StageRetitle(id, val) PROVE Counts'
    BY <1>4, <1>7 DEF StageRetitle, Stage, Becomes
  <1>8. ASSUME NEW id, NEW name, StageRename(id, name) PROVE Counts'
    BY <1>4, <1>8 DEF StageRename, Stage, Becomes
  <1>9. ASSUME NEW id, NEW parent, OpenNewFolder(id, parent) PROVE Counts'
    BY <1>4, <1>9 DEF OpenNewFolder, Becomes
  <1>10. ASSUME NEW id, NEW dest, StageMove(id, dest) PROVE Counts'
    BY <1>4, <1>10 DEF StageMove, Stage, Becomes
  <1>11. ASSUME NEW id, NEW permanent, StageDelete(id, permanent) PROVE Counts'
    BY <1>4, <1>11 DEF StageDelete, Stage, Becomes
  <1>12. ASSUME naming # 0, Becomes(chg'), naming' = 0 PROVE Counts'
    <2>1. spent' = spent + chg'.seq - chg.seq
      BY <1>12 DEF Becomes
    <2>2. chg' = EmptySet => chg'.seq = 0
      BY DEF EmptySet
    <2>3. chg'.seq = chg.seq \/ chg'.seq = chg.seq + 1
      BY <1>1, <1>2, <2>1, <2>2
    <2>4. QED
      BY <1>3, <1>12, <2>1, <2>3
  <1>13. ASSUME NEW name, NameNewFolder(name) PROVE Counts'
    BY <1>12, <1>13 DEF NameNewFolder, Becomes
  <1>14. CASE AbandonNewFolder
    BY <1>12, <1>14 DEF AbandonNewFolder, Becomes
  <1>15. ASSUME NEW id, Undo(id) PROVE Counts'
    <2>1. chg'.seq = chg.seq
      BY <1>15, WithoutHandles DEF Undo, Stage, Becomes, RevertTarget, Current, NumbersHold
    <2>2. spent' = spent + chg'.seq - chg.seq /\ naming' = 0
      BY <1>15 DEF Undo, Stage, Becomes
    <2>3. QED
      BY <1>3, <2>1, <2>2
  <1>16. CASE Save
    <2>1. chg'.seq = 0 /\ naming' = 0 /\ spent' = spent
      BY <1>16 DEF Save, EmptySet
    <2>2. QED
      BY <1>1, <2>1 DEF Counts
  <1>17. CASE UNCHANGED vars
    BY <1>17 DEF vars, Counts
  <1>18. QED
    BY <1>5, <1>6, <1>7, <1>8, <1>9, <1>10, <1>11, <1>13, <1>14, <1>15, <1>16, <1>17 DEF Next

(* The inductive invariant: all of the above.                              *)
Settled ==
  Current /\ Worded(file, chg) /\ IsVault(file) /\ AllTyped(chg) /\ Counts

LEMMA SettledInit == Init => Settled
  <1> SUFFICES ASSUME Init PROVE Settled
    OBVIOUS
  <1>1. Current
    BY CurrentInit
  <1>2. Worded(file, chg) /\ AllTyped(chg)
    BY DEF Init, EmptySet, Worded, EditsOf, OfKind, On, AllTyped
  <1>3. IsVault(file)
    BY StagingAssumption DEF Init
  <1>4. Counts
    BY StagingAssumption DEF Init, EmptySet, Counts
  <1>5. QED
    BY <1>1, <1>2, <1>3, <1>4 DEF Settled

LEMMA SettledStep ==
  ASSUME BinsLast
  PROVE  Settled /\ [Next]_vars => Settled'
  <1> SUFFICES ASSUME Settled, [Next]_vars PROVE Settled'
    OBVIOUS
  <1>1. Current' /\ Worded(file, chg)'
    BY CurrentStep, WordedStep DEF Settled
  <1>2. IsVault(file') /\ AllTyped(chg')
    BY TypedStep DEF Settled
  <1>3. Counts'
    BY CountsStep DEF Settled
  <1>4. Current' /\ Worded(file, chg)' /\ IsVault(file)' /\ AllTyped(chg)' /\ Counts'
    BY <1>1, <1>2, <1>3
  <1>5. QED
    BY <1>4 DEF Settled

(* Whatever the reader does, what is staged and shown and saved keeps its   *)
(* types: a save gives back a vault that can be read, and the counters stay *)
(* within the session's bound.                                             *)
THEOREM TypesHold ==
  ASSUME BinsLast
  PROVE  Spec => []TypeOK
  <1>1. Settled => TypeOK
    <2> SUFFICES ASSUME Settled PROVE TypeOK
      OBVIOUS
    <2>1. /\ Current /\ IsVault(file) /\ AllTyped(chg) /\ Counts
          /\ Handles(chg) /\ MaxSeq \in Nat
      BY StagingAssumption DEF Settled, Current, NumbersHold
    <2>2. chg.seq \in 0 .. MaxSeq + 1 /\ \A op \in chg.ops : op.seq \in 1 .. MaxSeq + 1
      BY <2>1 DEF Handles, Counts
    <2>3. ASSUME NEW op, Shaped(op), Typed(op), op.seq \in 1 .. MaxSeq + 1 PROVE op \in Operations
      BY <2>3 DEF Shaped, Typed, Operations, Homes
    <2>4. \A op \in chg.ops : Shaped(op) /\ Typed(op)
      BY <2>1 DEF Current, Sane, Fits, AllTyped
    <2>5. chg.ops \subseteq Operations
      BY <2>2, <2>3, <2>4
    <2>6. Members(red) \subseteq Operations
      <3>1. ASSUME NEW r \in Members(red) PROVE r \in Operations
        <4>1. Shaped(r) /\ Typed(r) /\ \E op \in chg.ops : op.seq = r.seq
          BY <2>1, NetIsTyped
        <4>2. QED
          BY <2>2, <2>3, <4>1
      <3>2. QED
        BY <3>1
    <2>7. DOMAIN view \subseteq Ids
      BY <2>1, RowsAreTyped
    <2>8. /\ Live(file) \subseteq Ids \cup {Root} /\ file.bin \in Bins \cup {None}
          /\ file.tombs \subseteq Ids
          /\ \A id \in Live(file) : file.node[id].hist \in Seq(Vals)
      BY <2>1 DEF IsVault
    <2>9. naming \in 0 .. MaxSeq /\ spent \in 0 .. MaxSeq + 1
      BY <2>1 DEF Counts
    <2>10. QED
      BY <2>2, <2>5, <2>6, <2>7, <2>8, <2>9 DEF TypeOK
  <1>2. Settled /\ [Next]_vars => Settled'
    BY SettledStep
  <1>3. QED
    BY SettledInit, <1>1, <1>2, PTL DEF Spec

(* Whatever is written, everything that left the file is recorded as        *)
(* deleted, what was inside a purged folder included, and nothing that is   *)
(* still in it is.                                                         *)
THEOREM DeletionIsRecorded ==
  ASSUME BinsLast
  PROVE  Spec => []TombstonesMatch
  <1>1. Settled => TombstonesMatch
    <2> SUFFICES ASSUME Settled, Outcome.ok
                 PROVE  /\ Live(file) \ Written \subseteq Outcome.tree.tombs
                        /\ Outcome.tree.tombs \cap Written = {}
      BY DEF TombstonesMatch
    <2>1. Follows(file, Outcome.tree, Members(red))
      BY OutcomeFollows DEF Settled
    <2>2. QED
      BY <2>1 DEF Follows, IsVault, Written
  <1>2. Settled /\ [Next]_vars => Settled'
    BY SettledStep
  <1>3. QED
    BY SettledInit, <1>1, <1>2, PTL DEF Spec

(* Whatever is written, an item that is elsewhere than in the file before   *)
(* remembers the folder the file had it in, not one it was staged through   *)
(* on the way: an item is relocated once in a save, or not at all.         *)
THEOREM PutBackLeadsHome ==
  ASSUME BinsLast
  PROVE  Spec => []PutBackWorks
  <1>1. Settled => PutBackWorks
    <2> SUFFICES ASSUME Settled, Outcome.ok, NEW id \in Live(file) \cap Written,
                        Nodes[id].home # file.node[id].home
                 PROVE  Nodes[id].prev = file.node[id].home
      BY DEF PutBackWorks
    <2>1. Follows(file, Outcome.tree, Members(red))
      BY OutcomeFollows DEF Settled
    <2>2. QED
      BY <2>1 DEF Follows, Written, Nodes
  <1>2. Settled /\ [Next]_vars => Settled'
    BY SettledStep
  <1>3. QED
    BY SettledInit, <1>1, <1>2, PTL DEF Spec

(* However often an entry was edited before a save, the save pushes one     *)
(* record of what the file held, and none where the values are what they    *)
(* were: edits that come back to the file are dropped by the reduction, and *)
(* the net one starts from what the first of them read in the file.        *)
THEOREM HistoryIsHonest ==
  ASSUME BinsLast
  PROVE  Spec => []OneHistoryPerSave
  <1>1. Settled => OneHistoryPerSave
    <2> SUFFICES ASSUME Settled, Outcome.ok, NEW id \in Entries \cap Live(file) \cap Written,
                        NEW was, was = file.node[id]
                 PROVE  Nodes[id].hist = IF Nodes[id].data = was.data THEN was.hist
                                         ELSE PushHistory(was.hist, was.data)
      BY DEF OneHistoryPerSave
    <2>1. Follows(file, Outcome.tree, Members(red))
      BY OutcomeFollows DEF Settled
    <2> DEFINE edited == OfKind(Members(red), {"EditEntry"})
    <2>2. /\ id \notin Targets(edited) => Nodes[id].data = was.data /\ Nodes[id].hist = was.hist
          /\ \A e \in edited : e.target = id =>
               Nodes[id].data = e.after.val /\ Nodes[id].hist = PushHistory(was.hist, was.data)
      <3>1. id \in Live(file) \cap Live(Outcome.tree) /\ IsEntry(id)
        BY DEF Written, IsEntry
      <3>2. QED
        BY <2>1, <3>1 DEF Follows, Nodes
    <2>3. ASSUME NEW e \in edited, e.target = id PROVE e.after.val # was.data
      <3>1. Current /\ AllTyped(chg) /\ Worded(file, chg) /\ IsVault(file)
        BY DEF Settled
      <3>2. Log(chg.ops) /\ e \in Members(red) /\ e.kind = "EditEntry"
        BY <3>1, RowsShown DEF OfKind
      <3>3. e \in Reduction(chg.ops) /\ Typed(e)
        BY <3>1, <3>2, NetIsTyped
      <3>4. PICK edits : edits = OfKind(On(chg.ops, e.target), {"EditEntry"})
        OBVIOUS
      <3>5. ~SamePlace(e.before, e.after) /\ edits # {} /\ e.before = Earliest(edits).before
        BY <3>2, <3>3, <3>4, NetEditMatters
      <3>6. Log(edits)
        <4>1. edits \in SUBSET chg.ops
          BY <3>4 DEF OfKind, On
        <4>2. QED
          BY <3>2, <4>1, PartOfALog
      <3>7. Earliest(edits) \in edits /\ \A other \in edits : Earliest(edits).seq <= other.seq
        BY <3>5, <3>6, EarliestComesFirst, NumberedIsFinite DEF Log
      <3>8. FromFile(file, Earliest(edits)) /\ Earliest(edits).target = id
        BY <2>3, <3>1, <3>4, <3>7 DEF Worded, EditsOf, OfKind, On
      <3>9. e.before = [val |-> was.data, group |-> was.home]
        BY <3>5, <3>8 DEF FromFile, FindEntry, Has, IsEntry
      <3>10. was.data \in Vals /\ was.home \in Homes
        BY <3>1 DEF IsVault, Content, IsEntry
      <3>11. e.before \in Drafts /\ e.after \in Drafts
        BY <3>2, <3>3, <3>9, <3>10 DEF Drafts, Typed
      <3>12. e.before # None /\ e.after # None
        BY <3>11, StagingAssumption
      <3>13. QED
        BY <3>5, <3>9, <3>12 DEF SamePlace
    <2>4. CASE id \notin Targets(edited)
      BY <2>2, <2>4
    <2>5. CASE id \in Targets(edited)
      <3>1. PICK e \in edited : e.target = id
        BY <2>5 DEF Targets
      <3>2. QED
        BY <2>2, <2>3, <3>1
    <2>6. QED
      BY <2>4, <2>5
  <1>2. Settled /\ [Next]_vars => Settled'
    BY SettledStep
  <1>3. QED
    BY SettledInit, <1>1, <1>2, PTL DEF Spec

-----------------------------------------------------------------------------
(* Where a new entry is, by what was staged of it.                         *)

(* A folder that is neither in the file nor going to be.                   *)
Lost(tree, ops, folder) ==
  folder \notin {None, Root} \cup Live(tree) \cup Targets(OfKind(ops, CreateKinds))

(* Where the moves staged of an item took it.                              *)
SpotsOf(ops, id) == {m.parent : m \in OfKind(On(ops, id), MoveKinds)}

WordsOn(ops, id) == OfKind(On(ops, id), {"CreateEntry", "EditEntry"})

(* Where an operation says its target was when it was staged: a move in its *)
(* origin, and one about a new item in where it has it created.            *)
Tells(tree, op) ==
  \/ op.kind \in MoveKinds
  \/ op.kind \in CreateKinds \cup {"EditEntry"} /\ op.target \notin Live(tree)
Told(op) ==
  IF op.kind \in MoveKinds THEN op.was
  ELSE IF op.kind = "CreateGroup" THEN op.parent ELSE op.after.group

(* That is where the target started from, or where an earlier move took it, *)
(* or a folder that was cancelled since.                                   *)
Explained(tree, ops, op, start) ==
  \/ Told(op) = start
  \/ \E m \in ops : /\ m.kind \in MoveKinds /\ m.target = op.target
                    /\ m.seq < op.seq /\ m.parent = Told(op)
  \/ Lost(tree, ops, Told(op))

StartsFrom(tree, ops, id, start) ==
  /\ id \in Live(tree) => start = tree.node[id].home
  /\ \A op \in ops : op.target = id /\ Tells(tree, op) => Explained(tree, ops, op, start)

(* What the order of a save rests on: whatever is put into a folder of the  *)
(* session was staged after it, no folder is moved into itself, what is     *)
(* moved is traced back to where it started, and a name is not empty.      *)
Footing(tree, ops) ==
  /\ FilledLater(ops)
  /\ \A m \in ops : m.kind \in MoveKinds => m.parent # m.target
  /\ \A id \in Targets(ops) : \E start \in Homes : StartsFrom(tree, ops, id, start)
  /\ \A op \in ops : op.kind \in {"CreateGroup", "RenameGroup"} => op.name # None

(* Whatever is staged is about something of the file or of the session; a  *)
(* move says where to; and the drafts of a new entry agree on where it was *)
(* created, but for those taken after a move and those that name a folder  *)
(* that was cancelled since.                                               *)
Whereabouts(tree, ops) ==
  /\ Footing(tree, ops)
  /\ \A op \in ops : op.target \in (Live(tree) \ {Root}) \cup Targets(OfKind(ops, CreateKinds))
  /\ \A m \in ops : m.kind \in MoveKinds => m.parent # None
  /\ \A c \in ops : c.kind = "CreateEntry" => c.after.group = c.parent
  /\ \A id \in Targets(OfKind(ops, {"CreateEntry"})) : \E p \in Homes : \A w \in WordsOn(ops, id) :
       \/ w.after.group = p
       \/ w.after.group \in SpotsOf(ops, id)
       \/ Lost(tree, ops, w.after.group)

LEMMA FootAdd ==
  ASSUME NEW tree, IsVault(tree), NEW set, Handles(set), Footing(tree, set.ops), NEW op, Shaped(op),
         op.kind \in CreateKinds =>
           /\ op.parent # op.target
           /\ \A o \in set.ops : o.parent # op.target
           /\ \/ \E c \in set.ops : c.kind \in CreateKinds /\ c.target = op.target
              \/ \A o \in set.ops : Tells(tree, o) => Told(o) # op.target,
         op.kind \in MoveKinds => op.parent # op.target,
         op.kind \in {"CreateGroup", "RenameGroup"} => op.name # None,
         Tells(tree, op) =>
           \/ op.target \in Live(tree) /\ Told(op) = tree.node[op.target].home
           \/ op.target \notin Live(tree) \cup Targets(set.ops) /\ Told(op) \in Homes
           \/ \E m \in set.ops : m.kind \in MoveKinds /\ m.target = op.target /\ m.parent = Told(op)
           \/ \E w \in set.ops : Tells(tree, w) /\ w.target = op.target /\ Told(w) = Told(op)
  PROVE  Footing(tree, Add(set, op).ops)
  <1>1. PICK new : new = [op EXCEPT !.seq = set.seq + 1]
    OBVIOUS
  <1>2. PICK old, now : old = set.ops /\ now = old \cup {new}
    OBVIOUS
  <1>3. Add(set, op).ops = now
    BY <1>1, <1>2 DEF Add
  <1>4. /\ new.kind = op.kind /\ new.target = op.target /\ new.parent = op.parent
        /\ new.after = op.after /\ new.was = op.was /\ new.name = op.name /\ new.seq = set.seq + 1
    BY <1>1, Stamped
  <1>5. Told(new) = Told(op) /\ (Tells(tree, new) <=> Tells(tree, op))
    BY <1>4 DEF Told, Tells
  <1>6. \A o \in old : o.seq < new.seq
    BY <1>2, <1>4 DEF Handles
  <1>7. FilledLater(now)
    <2>1. FilledLater(old)
      BY <1>2 DEF Footing
    <2>2. ASSUME NEW g \in now, NEW o \in now, g.kind \in CreateKinds, o.parent = g.target
          PROVE  g.seq < o.seq
      <3>1. CASE g = new
        BY <1>2, <1>4, <2>2, <3>1
      <3>2. CASE g \in old
        BY <1>2, <1>6, <2>1, <2>2, <3>2 DEF FilledLater
      <3>3. QED
        BY <1>2, <3>1, <3>2
    <2>3. QED
      BY <2>2 DEF FilledLater
  <1>8. /\ \A m \in now : m.kind \in MoveKinds => m.parent # m.target
        /\ \A o \in now : o.kind \in {"CreateGroup", "RenameGroup"} => o.name # None
    BY <1>2, <1>4 DEF Footing
  <1>9. ASSUME NEW folder, Lost(tree, old, folder), folder # new.target \/ op.kind \notin CreateKinds
        PROVE  Lost(tree, now, folder)
    <2>1. Targets(OfKind(now, CreateKinds))
            \subseteq Targets(OfKind(old, CreateKinds)) \cup (IF op.kind \in CreateKinds THEN {new.target} ELSE {})
      BY <1>2, <1>4 DEF Targets, OfKind
    <2>2. QED
      BY <1>9, <2>1 DEF Lost
  <1>10. ASSUME NEW w \in old, Tells(tree, w), NEW start, Explained(tree, old, w, start)
         PROVE  Explained(tree, now, w, start)
    <2>1. CASE Lost(tree, old, Told(w))
      <3>1. CASE \E c \in old : c.kind \in CreateKinds /\ c.target = op.target
        <4>1. op.target \in Targets(OfKind(old, CreateKinds))
          BY <3>1 DEF Targets, OfKind
        <4>2. Told(w) # new.target
          BY <1>4, <2>1, <4>1 DEF Lost
        <4>3. QED
          BY <1>9, <2>1, <4>2 DEF Explained
      <3>2. CASE ~\E c \in old : c.kind \in CreateKinds /\ c.target = op.target
        <4>1. Told(w) # new.target \/ op.kind \notin CreateKinds
          BY <1>2, <1>4, <1>10, <3>2
        <4>2. QED
          BY <1>9, <2>1, <4>1 DEF Explained
      <3>3. QED
        BY <3>1, <3>2
    <2>2. QED
      BY <1>2, <1>10, <2>1 DEF Explained
  <1>11. ASSUME NEW id \in Targets(old), id # new.target
         PROVE  \E start \in Homes : StartsFrom(tree, now, id, start)
    <2>1. PICK start \in Homes : StartsFrom(tree, old, id, start)
      BY <1>2 DEF Footing
    <2>2. StartsFrom(tree, now, id, start)
      BY <1>2, <1>10, <1>11, <2>1 DEF StartsFrom
    <2>3. QED
      BY <2>2
  <1>12. ASSUME new.target \in Targets(old)
         PROVE  \E start \in Homes : StartsFrom(tree, now, new.target, start)
    <2>1. PICK start \in Homes : StartsFrom(tree, old, new.target, start)
      BY <1>2, <1>12 DEF Footing
    <2>2. ASSUME Tells(tree, new) PROVE Explained(tree, now, new, start)
      <3>1. CASE op.target \in Live(tree) /\ Told(op) = tree.node[op.target].home
        BY <1>4, <1>5, <2>1, <3>1 DEF StartsFrom, Explained
      <3>2. CASE \E m \in old : m.kind \in MoveKinds /\ m.target = op.target /\ m.parent = Told(op)
        BY <1>2, <1>4, <1>5, <1>6, <3>2 DEF Explained
      <3>3. CASE \E w \in old : Tells(tree, w) /\ w.target = op.target /\ Told(w) = Told(op)
        <4>1. PICK w \in old : Tells(tree, w) /\ w.target = op.target /\ Told(w) = Told(op)
          BY <3>3
        <4>2. Explained(tree, now, w, start)
          BY <1>4, <1>10, <2>1, <4>1 DEF StartsFrom
        <4>3. ASSUME NEW m \in now, m.seq < w.seq, m.kind \in MoveKinds, m.target = w.target, m.parent = Told(w)
              PROVE  Explained(tree, now, new, start)
          <5>1. m # new
            <6>1. w.seq < new.seq /\ w.seq \in Int /\ new.seq \in Int
              BY <1>2, <1>4, <1>6 DEF Handles
            <6>2. QED
              BY <4>3, <6>1
          <5>2. m.seq < new.seq
            BY <1>2, <1>6, <5>1
          <5>3. QED
            BY <1>4, <1>5, <4>1, <4>3, <5>2 DEF Explained
        <4>4. QED
          BY <1>4, <1>5, <4>1, <4>2, <4>3 DEF Explained
      <3>4. QED
        BY <1>2, <1>4, <1>5, <1>12, <2>2, <3>1, <3>2, <3>3
    <2>3. StartsFrom(tree, now, new.target, start)
      BY <1>2, <1>10, <2>1, <2>2 DEF StartsFrom
    <2>4. QED
      BY <2>3
  <1>13. ASSUME new.target \notin Targets(old)
         PROVE  \E start \in Homes : StartsFrom(tree, now, new.target, start)
    <2>1. \A o \in old : o.target # new.target
      BY <1>13 DEF Targets
    <2>2. CASE op.target \in Live(tree)
      <3>1. PICK start : start = tree.node[op.target].home
        OBVIOUS
      <3>2. start \in Homes
        BY <2>2, <3>1 DEF IsVault
      <3>3. Tells(tree, op) => Told(op) = start
        BY <1>2, <1>4, <2>1, <2>2, <3>1
      <3>4. StartsFrom(tree, now, new.target, start)
        BY <1>2, <1>4, <1>5, <2>1, <3>1, <3>3 DEF StartsFrom, Explained
      <3>5. QED
        BY <3>2, <3>4
    <2>3. CASE op.target \notin Live(tree)
      <3>1. PICK start \in Homes : Tells(tree, op) => Told(op) = start
        <4>1. None \in Homes
          BY DEF Homes
        <4>2. Tells(tree, op) => Told(op) \in Homes
          BY <1>2, <1>4, <2>1, <2>3
        <4>3. QED
          BY <4>1, <4>2
      <3>2. StartsFrom(tree, now, new.target, start)
        BY <1>2, <1>4, <1>5, <2>1, <2>3, <3>1 DEF StartsFrom, Explained
      <3>3. QED
        BY <3>2
    <2>4. QED
      BY <2>2, <2>3
  <1>14. Targets(now) = Targets(old) \cup {new.target}
    BY <1>2 DEF Targets
  <1>15. Footing(tree, now)
    BY <1>7, <1>8, <1>11, <1>12, <1>13, <1>14 DEF Footing
  <1>16. QED
    BY <1>3, <1>15

(* Taking some of it back, moves only with all of their target or with the  *)
(* folder they lead into.                                                  *)
LEMMA FootLess ==
  ASSUME NEW tree, NEW ops, Footing(tree, ops), NEW left \in SUBSET ops, NEW gone,
         gone \cap ({None, Root} \cup Live(tree)) = {},
         Targets(OfKind(left, CreateKinds)) = Targets(OfKind(ops, CreateKinds)) \ gone,
         \A m \in ops \ left :
           m.kind \in MoveKinds => m.parent \in gone \/ \A o \in left : o.target # m.target
  PROVE  Footing(tree, left)
  <1>1. \A folder : Lost(tree, ops, folder) \/ folder \in gone => Lost(tree, left, folder)
    BY DEF Lost
  <1>2. ASSUME NEW op \in left, NEW start, Explained(tree, ops, op, start)
        PROVE  Explained(tree, left, op, start)
    <2>1. CASE Told(op) = start \/ Lost(tree, ops, Told(op))
      BY <1>1, <2>1 DEF Explained
    <2>2. CASE \E m \in ops : /\ m.kind \in MoveKinds /\ m.target = op.target
                             /\ m.seq < op.seq /\ m.parent = Told(op)
      <3>1. PICK m \in ops : /\ m.kind \in MoveKinds /\ m.target = op.target
                            /\ m.seq < op.seq /\ m.parent = Told(op)
        BY <2>2
      <3>2. CASE m \in left
        BY <3>1, <3>2 DEF Explained
      <3>3. CASE m \notin left
        <4>1. m.parent \in gone
          BY <3>1, <3>3
        <4>2. QED
          BY <1>1, <3>1, <4>1 DEF Explained
      <3>4. QED
        BY <3>2, <3>3
    <2>3. QED
      BY <1>2, <2>1, <2>2 DEF Explained
  <1>3. ASSUME NEW id \in Targets(left) PROVE \E start \in Homes : StartsFrom(tree, left, id, start)
    <2>1. id \in Targets(ops)
      BY DEF Targets
    <2>2. PICK start \in Homes : StartsFrom(tree, ops, id, start)
      BY <2>1 DEF Footing
    <2>3. StartsFrom(tree, left, id, start)
      BY <1>2, <2>2 DEF StartsFrom
    <2>4. QED
      BY <2>3
  <1>4. FilledLater(left)
    BY DEF Footing, FilledLater
  <1>5. QED
    BY <1>3, <1>4 DEF Footing

LEMMA WhereAdd ==
  ASSUME NEW tree, NEW set, Whereabouts(tree, set.ops), NEW op, Shaped(op),
         \/ op.kind \in CreateKinds
         \/ op.target \in (Live(tree) \ {Root}) \cup Targets(OfKind(set.ops, CreateKinds)),
         op.kind \in MoveKinds => op.parent # None,
         op.kind = "CreateEntry" => op.after.group = op.parent /\ op.parent \in Homes,
         op.kind \in CreateKinds =>
           \/ \E c \in set.ops : c.kind = op.kind /\ c.target = op.target
           \/ \A o \in set.ops :
                /\ o.target # op.target
                /\ o.kind \in {"CreateEntry", "EditEntry"} => o.after.group # op.target,
         op.kind \in {"CreateEntry", "EditEntry"}
           /\ op.target \in Targets(OfKind(set.ops, {"CreateEntry"})) =>
                \/ op.after.group \in SpotsOf(set.ops, op.target)
                \/ \E w \in WordsOn(set.ops, op.target) : w.after.group = op.after.group,
         Footing(tree, Add(set, op).ops)
  PROVE  Whereabouts(tree, Add(set, op).ops)
  <1>1. PICK new : new = [op EXCEPT !.seq = set.seq + 1]
    OBVIOUS
  <1>2. PICK old, now : old = set.ops /\ now = old \cup {new}
    OBVIOUS
  <1>3. Add(set, op).ops = now
    BY <1>1, <1>2 DEF Add
  <1>4. /\ new.kind = op.kind /\ new.target = op.target /\ new.parent = op.parent
        /\ new.after = op.after
    BY <1>1, Stamped
  <1>5. /\ Targets(OfKind(old, CreateKinds)) \subseteq Targets(OfKind(now, CreateKinds))
        /\ Targets(OfKind(now, CreateKinds)) \subseteq Targets(OfKind(old, CreateKinds)) \cup {new.target}
        /\ new.kind \in CreateKinds => new.target \in Targets(OfKind(now, CreateKinds))
        /\ new.kind \notin CreateKinds => Targets(OfKind(now, CreateKinds)) = Targets(OfKind(old, CreateKinds))
        /\ \A id : SpotsOf(old, id) \subseteq SpotsOf(now, id)
        /\ \A id : WordsOn(now, id) \subseteq WordsOn(old, id) \cup {new}
    BY <1>2 DEF Targets, OfKind, On, SpotsOf, WordsOn
  <1>6. \A o \in now : o.target \in (Live(tree) \ {Root}) \cup Targets(OfKind(now, CreateKinds))
    BY <1>2, <1>4, <1>5 DEF Whereabouts
  <1>7. /\ \A m \in now : m.kind \in MoveKinds => m.parent # None
        /\ \A c \in now : c.kind = "CreateEntry" => c.after.group = c.parent
    BY <1>2, <1>4 DEF Whereabouts
  <1>8. ASSUME NEW id \in Targets(OfKind(now, {"CreateEntry"}))
        PROVE  \E p \in Homes : \A w \in WordsOn(now, id) :
                 \/ w.after.group = p
                 \/ w.after.group \in SpotsOf(now, id)
                 \/ Lost(tree, now, w.after.group)
    <2>1. CASE id \in Targets(OfKind(old, {"CreateEntry"}))
      <3>1. PICK p \in Homes : \A w \in WordsOn(old, id) :
              \/ w.after.group = p
              \/ w.after.group \in SpotsOf(old, id)
              \/ Lost(tree, old, w.after.group)
        BY <1>2, <2>1 DEF Whereabouts
      <3>2. ASSUME NEW w \in WordsOn(old, id), Lost(tree, old, w.after.group)
            PROVE  Lost(tree, now, w.after.group)
        <4>1. w \in old /\ w.kind \in {"CreateEntry", "EditEntry"}
          BY DEF WordsOn, OfKind, On
        <4>2. CASE new.kind \notin CreateKinds
          BY <1>5, <3>2, <4>2 DEF Lost
        <4>3. CASE \E c \in old : c.kind = op.kind /\ c.target = op.target /\ op.kind \in CreateKinds
          <5>1. new.target \in Targets(OfKind(old, CreateKinds))
            BY <1>4, <4>3 DEF Targets, OfKind
          <5>2. QED
            BY <1>5, <3>2, <5>1 DEF Lost
        <4>4. CASE w.after.group # new.target
          BY <1>5, <3>2, <4>4 DEF Lost
        <4>5. QED
          BY <1>2, <1>4, <4>1, <4>2, <4>3, <4>4
      <3>3. ASSUME NEW w \in WordsOn(old, id)
            PROVE  \/ w.after.group = p
                   \/ w.after.group \in SpotsOf(now, id)
                   \/ Lost(tree, now, w.after.group)
        BY <1>5, <3>1, <3>2
      <3>4. ASSUME new \in WordsOn(now, id)
            PROVE  \/ new.after.group = p
                   \/ new.after.group \in SpotsOf(now, id)
                   \/ Lost(tree, now, new.after.group)
        <4>1. new.target = id /\ new.kind \in {"CreateEntry", "EditEntry"}
          BY <3>4 DEF WordsOn, OfKind, On
        <4>2. \/ op.after.group \in SpotsOf(old, id)
              \/ \E w \in WordsOn(old, id) : w.after.group = op.after.group
          BY <1>2, <1>4, <2>1, <4>1
        <4>3. QED
          BY <1>4, <1>5, <3>3, <4>2
      <3>5. QED
        BY <1>5, <3>3, <3>4
    <2>2. CASE id \notin Targets(OfKind(old, {"CreateEntry"}))
      <3>1. new.target = id /\ new.kind = "CreateEntry"
        BY <1>2, <2>2 DEF Targets, OfKind
      <3>2. ~\E c \in old : c.kind = op.kind /\ c.target = op.target
        BY <1>4, <2>2, <3>1 DEF Targets, OfKind
      <3>3. \A o \in old : o.target # id
        BY <1>2, <1>4, <3>1, <3>2 DEF CreateKinds
      <3>4. WordsOn(old, id) = {}
        BY <3>3 DEF WordsOn, OfKind, On
      <3>5. new.after.group = op.parent /\ op.parent \in Homes
        BY <1>4, <3>1
      <3>6. QED
        BY <1>5, <3>4, <3>5
    <2>3. QED
      BY <2>1, <2>2
  <1>9. Whereabouts(tree, now)
    BY <1>3, <1>6, <1>7, <1>8 DEF Whereabouts
  <1>10. QED
    BY <1>3, <1>9

(* Dropping deletions.                                                     *)
LEMMA WhereFilter ==
  ASSUME NEW tree, NEW ops, Whereabouts(tree, ops), NEW left \in SUBSET ops,
         \A op \in ops : op.kind \notin DeleteKinds => op \in left
  PROVE  Whereabouts(tree, left)
  <1>1. /\ OfKind(left, CreateKinds) = OfKind(ops, CreateKinds)
        /\ OfKind(left, {"CreateEntry"}) = OfKind(ops, {"CreateEntry"})
        /\ \A id : WordsOn(left, id) = WordsOn(ops, id) /\ SpotsOf(left, id) = SpotsOf(ops, id)
    <2>1. \A op \in ops : op.kind \in CreateKinds \cup MoveKinds \cup {"CreateEntry", "EditEntry"} => op \in left
      BY DEF CreateKinds, MoveKinds, DeleteKinds
    <2>2. \A kinds \in SUBSET (CreateKinds \cup MoveKinds \cup {"CreateEntry", "EditEntry"}) :
            /\ OfKind(left, kinds) = OfKind(ops, kinds)
            /\ \A id : OfKind(On(left, id), kinds) = OfKind(On(ops, id), kinds)
      BY <2>1 DEF OfKind, On
    <2>3. QED
      BY <2>2 DEF WordsOn, SpotsOf
  <1>2. Footing(tree, left)
    <2>1. PICK gone : gone = {}
      OBVIOUS
    <2>2. /\ gone \cap ({None, Root} \cup Live(tree)) = {}
          /\ Targets(OfKind(left, CreateKinds)) = Targets(OfKind(ops, CreateKinds)) \ gone
          /\ \A m \in ops \ left : m.kind \notin MoveKinds
      BY <1>1, <2>1 DEF MoveKinds, DeleteKinds
    <2>3. Footing(tree, ops)
      BY DEF Whereabouts
    <2>4. QED
      BY <2>2, <2>3, FootLess
  <1>3. QED
    BY <1>1, <1>2 DEF Whereabouts, Lost

(* Taking anything back: moves of one thing are taken back together, or go *)
(* with the folder they lead into.                                         *)
LEMMA WhereWithout ==
  ASSUME NEW tree, NEW set, Handles(set), Sane(tree, set), Whereabouts(tree, set.ops),
         NEW undone \in SUBSET set.ops,
         \A m \in undone : m.kind \in MoveKinds => On(set.ops, m.target) \subseteq undone
  PROVE  Whereabouts(tree, Without(set, undone).ops)
  <1> DEFINE born == Targets(OfKind(undone, CreateKinds))
  <1>1. PICK gone : gone = IF born = {} THEN {} ELSE Grow(set.ops, born)
    OBVIOUS
  <1>2. PICK ops, left : /\ ops = set.ops
                         /\ left = {op \in ops \ undone : op.target \notin gone /\ op.parent \notin gone}
    OBVIOUS
  <1>3. Without(set, undone).ops = left
    BY <1>1, <1>2 DEF Without, Handles
  <1>4. /\ born \subseteq gone
        /\ gone \subseteq Targets(OfKind(ops, CreateKinds))
        /\ \A c \in OfKind(ops, CreateKinds) : c.parent \in gone => c.target \in gone
    <2>1. born \subseteq Targets(OfKind(ops, CreateKinds))
      BY <1>2 DEF Targets, OfKind
    <2>2. QED
      BY <1>1, <1>2, <2>1, GrowIsClosed
  <1>5. gone \cap ({None, Root} \cup Live(tree)) = {}
    <2>1. ASSUME NEW t \in gone PROVE t \in Ids /\ t \notin Live(tree)
      <3>1. PICK c \in ops : c.kind \in CreateKinds /\ c.target = t
        BY <1>4 DEF Targets, OfKind
      <3>2. QED
        BY <1>2, <3>1 DEF Sane, Fits
    <2>2. None \notin Ids /\ Root \notin Ids
      BY StagingAssumption DEF Ids
    <2>3. QED
      BY <2>1, <2>2
  <1>6. ASSUME NEW c \in ops, c.kind \in CreateKinds, c.target \notin gone PROVE c \in left
    <2>1. c \notin undone
      BY <1>4, <1>6 DEF Targets, OfKind
    <2>2. c.parent \notin gone
      BY <1>4, <1>6 DEF OfKind
    <2>3. QED
      BY <1>2, <1>6, <2>1, <2>2
  <1> HIDE DEF born
  <1>7. Targets(OfKind(left, CreateKinds)) = Targets(OfKind(ops, CreateKinds)) \ gone
    <2>1. \A c \in left : c \in ops /\ c.target \notin gone
      BY <1>2
    <2>2. QED
      BY <1>6, <2>1 DEF Targets, OfKind
  <1>8. \A op \in left : op.target \in (Live(tree) \ {Root}) \cup Targets(OfKind(left, CreateKinds))
    BY <1>2, <1>7 DEF Whereabouts
  <1>9. ASSUME NEW id \in Targets(OfKind(left, {"CreateEntry"}))
        PROVE  \E p \in Homes : \A w \in WordsOn(left, id) :
                 \/ w.after.group = p
                 \/ w.after.group \in SpotsOf(left, id)
                 \/ Lost(tree, left, w.after.group)
    <2>1. PICK c \in left : c.kind = "CreateEntry" /\ c.target = id
      BY DEF Targets, OfKind
    <2>2. id \in Targets(OfKind(ops, {"CreateEntry"})) /\ c \in ops /\ c \notin undone /\ id \notin gone
      BY <1>2, <2>1 DEF Targets, OfKind
    <2>3. PICK p \in Homes : \A w \in WordsOn(ops, id) :
            \/ w.after.group = p
            \/ w.after.group \in SpotsOf(ops, id)
            \/ Lost(tree, ops, w.after.group)
      BY <1>2, <2>2 DEF Whereabouts
    <2>4. ASSUME NEW spot \in SpotsOf(ops, id)
          PROVE  spot \in SpotsOf(left, id) \/ Lost(tree, left, spot)
      <3>1. PICK m \in ops : m.kind \in MoveKinds /\ m.target = id /\ m.parent = spot
        BY DEF SpotsOf, OfKind, On
      <3>2. m \notin undone
        <4>1. c \in On(ops, m.target)
          BY <2>1, <2>2, <3>1 DEF On
        <4>2. QED
          BY <1>2, <2>2, <3>1, <4>1
      <3>3. CASE spot \in gone
        BY <1>5, <1>7, <3>3 DEF Lost
      <3>4. CASE spot \notin gone
        <4>1. m \in left
          BY <1>2, <2>2, <3>1, <3>2, <3>4
        <4>2. QED
          BY <3>1, <4>1 DEF SpotsOf, OfKind, On
      <3>5. QED
        BY <3>3, <3>4
    <2>5. \A folder : Lost(tree, ops, folder) => Lost(tree, left, folder)
      BY <1>7 DEF Lost
    <2>6. WordsOn(left, id) \subseteq WordsOn(ops, id)
      BY <1>2 DEF WordsOn, OfKind, On
    <2>7. QED
      BY <2>3, <2>4, <2>5, <2>6
  <1>10. /\ \A m \in left : m.kind \in MoveKinds => m.parent # None
         /\ \A c \in left : c.kind = "CreateEntry" => c.after.group = c.parent
    BY <1>2 DEF Whereabouts
  <1>11. Footing(tree, left)
    <2>1. ASSUME NEW m \in ops \ left, m.kind \in MoveKinds, m.parent \notin gone, NEW o \in left
          PROVE  o.target # m.target
      <3>1. CASE m \in undone
        <4>1. o \notin undone /\ o \in ops
          BY <1>2
        <4>2. QED
          BY <1>2, <2>1, <3>1, <4>1 DEF On
      <3>2. CASE m \notin undone
        <4>1. m.target \in gone /\ o.target \notin gone
          BY <1>2, <2>1, <3>2
        <4>2. QED
          BY <4>1
      <3>3. QED
        BY <3>1, <3>2
    <2>2. left \in SUBSET ops /\ Footing(tree, ops)
      BY <1>2 DEF Whereabouts
    <2>3. QED
      BY <1>5, <1>7, <2>1, <2>2, FootLess
  <1>12. Whereabouts(tree, left)
    BY <1>8, <1>9, <1>10, <1>11 DEF Whereabouts
  <1>13. QED
    BY <1>3, <1>12

(* The latest of what the reduction has of a kind on a target is one of it. *)
LEMMA LastNet ==
  ASSUME Current, AllTyped(chg), NEW kinds, NEW id, NEW some \in SUBSET Staged(kinds, id, red), some # {}
  PROVE  LET r == Latest(some)
         IN  /\ r \in some /\ r \in Members(red) /\ r.kind \in kinds /\ r.target = id
             /\ Typed(r) /\ Composed(On(chg.ops, id), r)
  <1>1. /\ Numbered(Members(red)) /\ Members(red) \subseteq Reduction(chg.ops)
        /\ \A r \in Members(red) : Typed(r)
    BY NetIsTyped
  <1>2. \A r \in some : r \in Members(red) /\ r.kind \in kinds /\ r.target = id
    BY DEF Staged, OfKind, On
  <1>3. Numbered(some)
    BY <1>1, <1>2 DEF Numbered
  <1>4. PICK r : r = Latest(some)
    OBVIOUS
  <1>5. r \in some
    BY <1>3, <1>4, LatestComesLast
  <1>6. Composed(On(chg.ops, id), r)
    BY <1>1, <1>2, <1>5, RowsShown, FieldsWereStaged
  <1>7. QED
    BY <1>1, <1>2, <1>4, <1>5, <1>6

(* Where an edit of a new entry says it is, is where a draft of it already  *)
(* was or a move takes it.                                                 *)
LEMMA EditHomeWasStaged ==
  ASSUME Current, IsVault(file), AllTyped(chg), NEW id \in DOMAIN view,
         id \in Targets(OfKind(chg.ops, {"CreateEntry"}))
  PROVE  \/ EditHome(id) \in SpotsOf(chg.ops, id)
         \/ \E w \in WordsOn(chg.ops, id) : w.after.group = EditHome(id)
  <1>1. id \in Entries /\ id \notin Live(file)
    <2>1. PICK c \in chg.ops : c.kind = "CreateEntry" /\ c.target = id
      BY DEF Targets, OfKind
    <2>2. QED
      BY <2>1 DEF AllTyped, Typed, Current, Sane, Fits, CreateKinds
  <1>2. id \in Targets(OfKind(Members(red), CreateKinds))
    BY <1>1, RowsShown
  <1>3. PICK made, moves, holding :
          /\ made = Latest(Staged(CreateKinds, id, red))
          /\ moves = RowMoves(id)
          /\ holding = Staged({"CreateEntry", "EditEntry"}, id, red)
    OBVIOUS
  <1>4. Staged(CreateKinds, id, red) # {}
    BY <1>2 DEF Staged, OfKind, On, Targets
  <1>5. ASSUME NEW r, Typed(r), Composed(On(chg.ops, id), r), r.kind \in {"CreateEntry", "EditEntry"}
        PROVE  r.after \in Drafts /\ \E w \in WordsOn(chg.ops, id) : w.after.group = r.after.group
    <2>1. PICK w \in On(chg.ops, id) : w.after = r.after /\ w.kind \in {"CreateEntry", "EditEntry"}
      BY <1>5 DEF Composed
    <2>2. w \in WordsOn(chg.ops, id)
      BY <2>1 DEF WordsOn, OfKind
    <2>3. QED
      BY <1>5, <2>1, <2>2 DEF Typed
  <1>6. /\ made \in Staged(CreateKinds, id, red) /\ made.kind = "CreateEntry" /\ made.target = id
        /\ Typed(made) /\ Composed(On(chg.ops, id), made)
    <2>1. PICK some : some = Staged(CreateKinds, id, red) /\ some \in SUBSET Staged(CreateKinds, id, red) /\ some # {}
      BY <1>4
    <2>2. /\ made \in some /\ made.kind \in CreateKinds /\ made.target = id
          /\ Typed(made) /\ Composed(On(chg.ops, id), made)
      BY <1>3, <2>1, LastNet
    <2>3. QED
      BY <1>1, <2>1, <2>2, StagingAssumption DEF Typed, CreateKinds
  <1>7. CASE HomeOf(id) # None
    <2>1. EditHome(id) = view[id].home
      BY <1>7 DEF EditHome, HomeOf
    <2>2. view[id].home = IF moves = {} THEN Born(made).home ELSE Latest(moves).parent
      <3>1. RowBase(id) = Born(made)
        BY <1>2, <1>3 DEF RowBase
      <3>2. QED
        BY <1>3, <3>1, RowIs
    <2>3. CASE moves = {}
      <3>1. EditHome(id) = made.after.group
        BY <1>6, <2>1, <2>2, <2>3 DEF Born
      <3>2. QED
        BY <1>5, <1>6, <3>1
    <2>4. CASE moves # {}
      <3>1. moves \in SUBSET Staged(MoveKinds, id, red)
        BY <1>3 DEF RowMoves
      <3>2. PICK m : m = Latest(moves) /\ m.kind \in MoveKinds /\ Composed(On(chg.ops, id), m)
        BY <2>4, <3>1, LastNet
      <3>3. PICK op \in On(chg.ops, id) : op.kind = m.kind /\ op.parent = m.parent
        BY <3>2 DEF Composed
      <3>4. m.parent \in SpotsOf(chg.ops, id)
        BY <3>2, <3>3 DEF SpotsOf, OfKind
      <3>5. QED
        BY <2>1, <2>2, <2>4, <3>2, <3>4
    <2>5. QED
      BY <2>3, <2>4
  <1>8. CASE HomeOf(id) = None
    <2>1. made \in holding
      BY <1>3, <1>6 DEF Staged, OfKind
    <2>2. PICK r : /\ r = Latest(holding) /\ r.kind \in {"CreateEntry", "EditEntry"}
                   /\ Typed(r) /\ Composed(On(chg.ops, id), r)
      <3>1. holding \in SUBSET Staged({"CreateEntry", "EditEntry"}, id, red) /\ holding # {}
        BY <1>3, <2>1
      <3>2. QED
        BY <3>1, LastNet
    <2>3. StagedDraft(id) = r.after
      BY <1>3, <2>1, <2>2 DEF StagedDraft
    <2>4. r.after \in Drafts /\ \E w \in WordsOn(chg.ops, id) : w.after.group = r.after.group
      BY <1>5, <2>2
    <2>5. EditHome(id) = r.after.group
      BY <1>8, <2>3, <2>4, StagingAssumption DEF EditHome, LatestDraft
    <2>6. QED
      BY <2>4, <2>5
  <1>9. QED
    BY <1>7, <1>8

(* Where a row is shown was staged, unless it is where the file has it.     *)
LEMMA HomeWasStaged ==
  ASSUME Current, AllTyped(chg), NEW id \in DOMAIN view
  PROVE  \/ id \in Live(file) /\ HomeOf(id) = file.node[id].home
         \/ \E m \in chg.ops : m.kind \in MoveKinds /\ m.target = id /\ m.parent = HomeOf(id)
         \/ \E w \in chg.ops : Tells(file, w) /\ w.target = id /\ Told(w) = HomeOf(id)
  <1>1. HomeOf(id) = IF RowMoves(id) = {} THEN RowBase(id).home ELSE Latest(RowMoves(id)).parent
    BY RowIs DEF HomeOf
  <1>2. CASE RowMoves(id) # {}
    <2>1. RowMoves(id) \in SUBSET Staged(MoveKinds, id, red)
      BY DEF RowMoves
    <2>2. PICK m : m = Latest(RowMoves(id)) /\ m.kind \in MoveKinds /\ Composed(On(chg.ops, id), m)
      BY <1>2, <2>1, LastNet
    <2>3. PICK op \in On(chg.ops, id) : op.kind = m.kind /\ op.parent = m.parent
      BY <2>2 DEF Composed
    <2>4. QED
      BY <1>1, <1>2, <2>2, <2>3 DEF On
  <1>3. CASE RowMoves(id) = {} /\ id \notin Targets(OfKind(Members(red), CreateKinds))
    <2>1. id \in Live(file)
      BY <1>3, RowsShown
    <2>2. QED
      BY <1>1, <1>3, <2>1 DEF RowBase, Filed
  <1>4. CASE RowMoves(id) = {} /\ id \in Targets(OfKind(Members(red), CreateKinds))
    <2>1. PICK some : some = Staged(CreateKinds, id, red) /\ some \in SUBSET Staged(CreateKinds, id, red)
      OBVIOUS
    <2>2. some # {}
      BY <1>4, <2>1 DEF Staged, OfKind, On, Targets
    <2>3. PICK made : made = Latest(some)
      OBVIOUS
    <2>4. made.kind \in CreateKinds /\ made.target = id /\ Typed(made) /\ Composed(On(chg.ops, id), made)
      BY <2>1, <2>2, <2>3, LastNet
    <2>5. HomeOf(id) = Born(made).home
      BY <1>1, <1>4, <2>1, <2>3 DEF RowBase
    <2>6. PICK op \in On(chg.ops, id) : op.kind = made.kind /\ op.parent = made.parent
      BY <2>4 DEF Composed
    <2>7. id \notin Live(file)
      BY <2>4, <2>6 DEF On, Current, Sane, Fits
    <2>8. CASE made.kind = "CreateGroup"
      <3>1. HomeOf(id) = op.parent
        BY <2>5, <2>6, <2>8 DEF Born
      <3>2. Tells(file, op) /\ Told(op) = op.parent
        BY <2>6, <2>7, <2>8 DEF Tells, Told, On, CreateKinds, MoveKinds
      <3>3. QED
        BY <3>1, <3>2 DEF On
    <2>9. CASE made.kind = "CreateEntry"
      <3>1. HomeOf(id) = made.after.group
        BY <2>5, <2>9 DEF Born
      <3>2. PICK w \in On(chg.ops, id) : w.after = made.after /\ w.kind \in {"CreateEntry", "EditEntry"}
        BY <2>4, <2>9 DEF Composed
      <3>3. Tells(file, w) /\ Told(w) = w.after.group
        BY <2>7, <3>2 DEF Tells, Told, On, CreateKinds, MoveKinds
      <3>4. QED
        BY <3>1, <3>2, <3>3 DEF On
    <2>10. QED
      BY <2>4, <2>8, <2>9 DEF CreateKinds
  <1>5. QED
    BY <1>2, <1>3, <1>4

(* What one more key stages has a footing.                                 *)
LEMMA FootKey ==
  ASSUME Current, IsVault(file), AllTyped(chg), Footing(file, chg.ops), NEW op,
         op = [seq |-> 0, kind |-> op.kind, source |-> Source, target |-> op.target,
               parent |-> op.parent, name |-> op.name, was |-> op.was,
               before |-> op.before, after |-> op.after, perm |-> op.perm],
         op.kind \in CreateKinds =>
           \/ Fresh(op.target) /\ op.parent # op.target /\ Told(op) \in Homes
           \/ /\ op.target \in Entries /\ op.parent \in Homes
              /\ \E c \in chg.ops : c.kind \in CreateKinds /\ c.target = op.target,
         op.kind \in MoveKinds => op.parent # op.target,
         op.kind \in {"CreateGroup", "RenameGroup"} => op.name # None,
         Tells(file, op) =>
           \/ op.kind \in CreateKinds /\ Fresh(op.target)
           \/ op.target \in Live(file) /\ Told(op) = file.node[op.target].home
           \/ \E m \in chg.ops : m.kind \in MoveKinds /\ m.target = op.target /\ m.parent = Told(op)
           \/ \E w \in chg.ops : Tells(file, w) /\ w.target = op.target /\ Told(w) = Told(op)
  PROVE  Footing(file, Add(chg, op).ops)
  <1>1. PICK b, d, e, f, g, h, i, j :
          op = [seq |-> 0, kind |-> b, source |-> Source, target |-> d, parent |-> e, name |-> f,
                was |-> g, before |-> h, after |-> i, perm |-> j]
    BY Zenon
  <1>2. Shaped(op)
    BY <1>1 DEF Shaped
  <1>3. Handles(chg)
    BY DEF Current, NumbersHold
  <1>4. ASSUME Fresh(op.target)
        PROVE  /\ op.target \notin Live(file) \cup Targets(chg.ops)
               /\ \A o \in chg.ops : o.parent # op.target
               /\ \A o \in chg.ops : Tells(file, o) => Told(o) # op.target
    <2>1. op.target \notin Live(file) \cup Targets(chg.ops) /\ \A o \in chg.ops : o.parent # op.target
      <3>1. op.target \notin Live(file) /\ \A o \in chg.ops : o.target # op.target /\ o.parent # op.target
        BY <1>4 DEF Fresh, Has
      <3>2. QED
        BY <3>1 DEF Targets
    <2>2. ASSUME NEW o \in chg.ops, Tells(file, o) PROVE Told(o) # op.target
      <3>1. o.kind \in {"CreateEntry", "EditEntry"} => o.after \in Drafts /\ o.after # None
        BY StagingAssumption DEF AllTyped, Typed
      <3>2. o.kind \in {"CreateEntry", "EditEntry"} => o.after.group # op.target
        BY <1>4, <3>1 DEF Fresh
      <3>3. o.was # op.target /\ o.parent # op.target
        BY <1>4 DEF Fresh
      <3>4. o.kind \in MoveKinds \cup {"CreateGroup", "CreateEntry", "EditEntry"}
        BY <2>2 DEF Tells, CreateKinds
      <3>5. QED
        BY <3>2, <3>3, <3>4 DEF Told
    <2>3. QED
      BY <2>1, <2>2
  <1>5. ASSUME op.target \in Entries
        PROVE  op.target \notin Homes /\ \A o \in chg.ops : o.parent # op.target
    <2>1. op.target \notin Homes
      BY <1>5, StagingAssumption DEF Homes
    <2>2. QED
      BY <2>1 DEF AllTyped, Typed
  <1>6. op.kind \in CreateKinds =>
          /\ op.parent # op.target
          /\ \A o \in chg.ops : o.parent # op.target
          /\ \/ \E c \in chg.ops : c.kind \in CreateKinds /\ c.target = op.target
             \/ \A o \in chg.ops : Tells(file, o) => Told(o) # op.target
    <2>1. op.parent \in Homes /\ op.target \in Entries => op.parent # op.target
      BY <1>5
    <2>2. QED
      BY <1>4, <1>5, <2>1
  <1>7. Tells(file, op) =>
          \/ op.target \in Live(file) /\ Told(op) = file.node[op.target].home
          \/ op.target \notin Live(file) \cup Targets(chg.ops) /\ Told(op) \in Homes
          \/ \E m \in chg.ops : m.kind \in MoveKinds /\ m.target = op.target /\ m.parent = Told(op)
          \/ \E w \in chg.ops : Tells(file, w) /\ w.target = op.target /\ Told(w) = Told(op)
    <2>1. ASSUME op.kind \in CreateKinds, Fresh(op.target)
          PROVE  op.target \notin Live(file) \cup Targets(chg.ops) /\ Told(op) \in Homes
      <3>1. ~\E c \in chg.ops : c.kind \in CreateKinds /\ c.target = op.target
        BY <1>4, <2>1 DEF Targets
      <3>2. QED
        BY <1>4, <2>1, <3>1
    <2>2. QED
      BY <2>1
  <1>8. QED
    BY <1>2, <1>3, <1>6, <1>7, FootAdd

(* One more key.                                                           *)
LEMMA WhereKey ==
  ASSUME Current, AllTyped(chg), Whereabouts(file, chg.ops), NEW op,
         op = [seq |-> 0, kind |-> op.kind, source |-> Source, target |-> op.target,
               parent |-> op.parent, name |-> op.name, was |-> op.was,
               before |-> op.before, after |-> op.after, perm |-> op.perm],
         op.kind \in CreateKinds \/ op.target \in DOMAIN view \cup Targets(OfKind(chg.ops, CreateKinds)),
         op.kind \in MoveKinds => op.parent # None,
         op.kind = "CreateEntry" => op.after.group = op.parent /\ op.parent \in Homes,
         op.kind \in CreateKinds =>
           \/ Fresh(op.target)
           \/ \E c \in chg.ops : c.kind = op.kind /\ c.target = op.target,
         op.kind \in {"CreateEntry", "EditEntry"}
           /\ op.target \in Targets(OfKind(chg.ops, {"CreateEntry"})) =>
                \/ op.after.group \in SpotsOf(chg.ops, op.target)
                \/ \E w \in WordsOn(chg.ops, op.target) : w.after.group = op.after.group,
         Footing(file, Add(chg, op).ops)
  PROVE  Whereabouts(file, Add(chg, op).ops)
  <1>1. PICK b, d, e, f, g, h, i, j :
          op = [seq |-> 0, kind |-> b, source |-> Source, target |-> d, parent |-> e, name |-> f,
                was |-> g, before |-> h, after |-> i, perm |-> j]
    BY Zenon
  <1>2. Shaped(op)
    BY <1>1 DEF Shaped
  <1>3. \/ op.kind \in CreateKinds
        \/ op.target \in (Live(file) \ {Root}) \cup Targets(OfKind(chg.ops, CreateKinds))
    BY RowsShown
  <1>4. ASSUME Fresh(op.target), NEW o \in chg.ops
        PROVE  /\ o.target # op.target
               /\ o.kind \in {"CreateEntry", "EditEntry"} => o.after.group # op.target
    <2>1. o.kind \in {"CreateEntry", "EditEntry"} => o.after \in Drafts
      BY DEF AllTyped, Typed
    <2>2. QED
      BY <1>4, <2>1, StagingAssumption DEF Fresh
  <1>5. QED
    BY <1>2, <1>3, <1>4, WhereAdd

(* Where an edit of a new entry says it is was told before.                *)
LEMMA EditHomeTold ==
  ASSUME Current, IsVault(file), AllTyped(chg), NEW id \in DOMAIN view, id \in Entries, id \notin Live(file)
  PROVE  \/ \E m \in chg.ops : m.kind \in MoveKinds /\ m.target = id /\ m.parent = EditHome(id)
         \/ \E w \in chg.ops : Tells(file, w) /\ w.target = id /\ Told(w) = EditHome(id)
  <1>1. id \in Targets(OfKind(chg.ops, CreateKinds))
    BY RowsShown
  <1>2. PICK c \in chg.ops : c.kind \in CreateKinds /\ c.target = id
    BY <1>1 DEF Targets, OfKind
  <1>3. c.kind = "CreateEntry"
    BY <1>2, StagingAssumption DEF AllTyped, Typed, CreateKinds
  <1>4. id \in Targets(OfKind(chg.ops, {"CreateEntry"}))
    BY <1>2, <1>3 DEF Targets, OfKind
  <1>5. CASE EditHome(id) \in SpotsOf(chg.ops, id)
    BY <1>5 DEF SpotsOf, OfKind, On
  <1>6. CASE \E w \in WordsOn(chg.ops, id) : w.after.group = EditHome(id)
    <2>1. PICK w \in WordsOn(chg.ops, id) : w.after.group = EditHome(id)
      BY <1>6
    <2>2. w \in chg.ops /\ w.target = id /\ w.kind \in {"CreateEntry", "EditEntry"}
      BY DEF WordsOn, OfKind, On
    <2>3. Tells(file, w) /\ Told(w) = EditHome(id)
      BY <2>1, <2>2 DEF Tells, Told, CreateKinds, MoveKinds
    <2>4. QED
      BY <2>2, <2>3
  <1>7. QED
    BY <1>4, <1>5, <1>6, EditHomeWasStaged

LEMMA WhereStaging ==
  ASSUME Current, IsVault(file), Worded(file, chg), AllTyped(chg), Whereabouts(file, chg.ops)
  PROVE  /\ \A id \in Entries : \A parent \in Folders \cup {None} : \A val :
              StageNewEntry(id, parent, val) => Whereabouts(file, chg'.ops)
         /\ \A id \in Entries : \A val : StageEdit(id, val) => Whereabouts(file, chg'.ops)
         /\ \A id \in Entries : \A val : StageRetitle(id, val) => Whereabouts(file, chg'.ops)
         /\ \A id \in Folders : \A name \in Names : StageRename(id, name) => Whereabouts(file, chg'.ops)
         /\ \A id \in Folders : \A parent \in Folders \cup {None} :
              OpenNewFolder(id, parent) => Whereabouts(file, chg'.ops)
         /\ \A id \in Ids : \A dest \in Folders \cup {Root} : StageMove(id, dest) => Whereabouts(file, chg'.ops)
  <1>0. Footing(file, chg.ops)
    BY DEF Whereabouts
  <1>1. ASSUME NEW id \in Entries, NEW parent \in Folders \cup {None}, NEW val, StageNewEntry(id, parent, val)
        PROVE  Whereabouts(file, chg'.ops)
    <2>0. PICK after : after = [val |-> val, group |-> parent]
      OBVIOUS
    <2>1. PICK op : op = [Op("CreateEntry", Source, id) EXCEPT !.parent = parent, !.after = after]
      OBVIOUS
    <2>2. chg' = Add(chg, op) /\ Fresh(id)
      BY <1>1, <2>0, <2>1 DEF StageNewEntry, Stage, Becomes
    <2>3. op = [seq |-> 0, kind |-> "CreateEntry", source |-> Source, target |-> id,
                parent |-> parent, name |-> None, was |-> None, before |-> None,
                after |-> after, perm |-> FALSE]
      BY <2>1 DEF Op
    <2>4. after.group = parent /\ parent \in Homes
      BY <2>0 DEF Homes
    <2>5. id \notin Targets(OfKind(chg.ops, {"CreateEntry"}))
      BY <2>2 DEF Fresh, Targets, OfKind
    <2>6. Footing(file, Add(chg, op).ops)
      <3>1. parent # id
        BY StagingAssumption
      <3>2. op.kind = "CreateEntry" /\ op.target = id /\ op.parent = parent /\ Told(op) = parent
        BY <2>3, <2>4 DEF Told, MoveKinds
      <3>3. QED
        BY <1>0, <2>2, <2>3, <2>4, <3>1, <3>2, FootKey DEF CreateKinds, MoveKinds
    <2>7. Whereabouts(file, Add(chg, op).ops)
      BY <2>2, <2>3, <2>4, <2>5, <2>6, WhereKey DEF CreateKinds, MoveKinds
    <2>8. QED
      BY <2>2, <2>7
  <1>2. ASSUME NEW id \in Entries, NEW val, StageEdit(id, val)
        PROVE  Whereabouts(file, chg'.ops)
    <2>1. PICK home, old, after : /\ home = EditHome(id) /\ old = LatestDraft(id)
                                  /\ after = [val |-> val, group |-> home]
      OBVIOUS
    <2>2. PICK again, edit :
            /\ again = [Op("CreateEntry", Source, id) EXCEPT !.parent = home, !.after = after]
            /\ edit  = [Op("EditEntry", Source, id) EXCEPT !.before = old, !.after = after]
      OBVIOUS
    <2>3. /\ id \in DOMAIN view
          /\ \/ chg' = Add(chg, again) /\ StateOf(red, id) = "New"
             \/ chg' = Add(chg, edit)
      BY <1>2, <2>1, <2>2 DEF StageEdit, Stage, Becomes
    <2>4. home \in Homes /\ after.group = home
      BY <2>1, <2>3, DraftsAreTyped
    <2>5. id \in Targets(OfKind(chg.ops, {"CreateEntry"})) =>
            \/ home \in SpotsOf(chg.ops, id)
            \/ \E w \in WordsOn(chg.ops, id) : w.after.group = home
      BY <2>1, <2>3, EditHomeWasStaged
    <2>6. again = [seq |-> 0, kind |-> "CreateEntry", source |-> Source, target |-> id,
                   parent |-> home, name |-> None, was |-> None, before |-> None,
                   after |-> after, perm |-> FALSE]
      BY <2>2 DEF Op
    <2>7. edit = [seq |-> 0, kind |-> "EditEntry", source |-> Source, target |-> id,
                  parent |-> None, name |-> None, was |-> None, before |-> old,
                  after |-> after, perm |-> FALSE]
      BY <2>2 DEF Op
    <2>8. StateOf(red, id) = "New" => \E c \in chg.ops : c.kind = "CreateEntry" /\ c.target = id
      <3> SUFFICES ASSUME StateOf(red, id) = "New" PROVE \E c \in chg.ops : c.kind = "CreateEntry" /\ c.target = id
        OBVIOUS
      <3>1. id \in Targets(OfKind(chg.ops, CreateKinds))
        BY NewWasCreated, RowsShown
      <3>2. PICK c \in chg.ops : c.kind \in CreateKinds /\ c.target = id
        BY <3>1 DEF Targets, OfKind
      <3>3. c.kind # "CreateGroup"
        BY <3>2, StagingAssumption DEF AllTyped, Typed
      <3>4. QED
        BY <3>2, <3>3 DEF CreateKinds
    <2>9. StateOf(red, id) = "New" => Footing(file, Add(chg, again).ops)
      <3>1. again.kind = "CreateEntry" /\ again.target = id /\ again.parent = home /\ Told(again) = EditHome(id)
        BY <2>1, <2>4, <2>6 DEF Told, MoveKinds
      <3>2. QED
        BY <1>0, <2>3, <2>4, <2>6, <2>8, <3>1, EditHomeTold, FootKey DEF CreateKinds, MoveKinds, Tells
    <2>10. Footing(file, Add(chg, edit).ops)
      <3>1. edit.kind = "EditEntry" /\ edit.target = id /\ Told(edit) = EditHome(id)
        BY <2>1, <2>4, <2>7 DEF Told, MoveKinds
      <3>2. QED
        BY <1>0, <2>3, <2>7, <3>1, EditHomeTold, FootKey DEF CreateKinds, MoveKinds, Tells
    <2>11. StateOf(red, id) = "New" => Whereabouts(file, Add(chg, again).ops)
      BY <2>4, <2>5, <2>6, <2>8, <2>9, WhereKey DEF CreateKinds, MoveKinds
    <2>12. Whereabouts(file, Add(chg, edit).ops)
      BY <2>3, <2>4, <2>5, <2>7, <2>10, WhereKey DEF CreateKinds, MoveKinds
    <2>13. QED
      BY <2>3, <2>11, <2>12
  <1>3. ASSUME NEW id \in Entries, NEW val, StageRetitle(id, val)
        PROVE  Whereabouts(file, chg'.ops)
    <2>1. PICK before, home, after :
            /\ before = IF StagedDraft(id) = None THEN FileDraft(id) ELSE None
            /\ home = EditHome(id) /\ after = [val |-> val, group |-> home]
      OBVIOUS
    <2>2. PICK op : op = [Op("EditEntry", Source, id) EXCEPT !.before = before, !.after = after]
      OBVIOUS
    <2>3. id \in DOMAIN view /\ chg' = Add(chg, op)
      BY <1>3, <2>1, <2>2 DEF StageRetitle, Stage, Becomes
    <2>4. after.group = home
      BY <2>1
    <2>5. id \in Targets(OfKind(chg.ops, {"CreateEntry"})) =>
            \/ home \in SpotsOf(chg.ops, id)
            \/ \E w \in WordsOn(chg.ops, id) : w.after.group = home
      BY <2>1, <2>3, EditHomeWasStaged
    <2>6. op = [seq |-> 0, kind |-> "EditEntry", source |-> Source, target |-> id,
                parent |-> None, name |-> None, was |-> None, before |-> before,
                after |-> after, perm |-> FALSE]
      BY <2>2 DEF Op
    <2>7. Footing(file, Add(chg, op).ops)
      <3>1. op.kind = "EditEntry" /\ op.target = id /\ Told(op) = EditHome(id)
        BY <2>1, <2>4, <2>6 DEF Told, MoveKinds
      <3>2. QED
        BY <1>0, <2>3, <2>6, <3>1, EditHomeTold, FootKey DEF CreateKinds, MoveKinds, Tells
    <2>8. Whereabouts(file, Add(chg, op).ops)
      BY <2>3, <2>4, <2>5, <2>6, <2>7, WhereKey DEF CreateKinds, MoveKinds
    <2>9. QED
      BY <2>3, <2>8
  <1>4. ASSUME NEW id \in Folders, NEW name \in Names, StageRename(id, name)
        PROVE  Whereabouts(file, chg'.ops)
    <2>1. PICK was : was = view[id].data
      OBVIOUS
    <2>2. PICK op : op = [Op("RenameGroup", Source, id) EXCEPT !.name = name, !.was = was]
      OBVIOUS
    <2>3. id \in DOMAIN view /\ chg' = Add(chg, op)
      BY <1>4, <2>1, <2>2 DEF StageRename, Stage, Becomes
    <2>4. op = [seq |-> 0, kind |-> "RenameGroup", source |-> Source, target |-> id,
                parent |-> None, name |-> name, was |-> was, before |-> None,
                after |-> None, perm |-> FALSE]
      BY <2>2 DEF Op
    <2>5. Footing(file, Add(chg, op).ops)
      <3>1. op.kind = "RenameGroup" /\ op.name # None
        BY <2>4, StagingAssumption
      <3>2. QED
        BY <1>0, <2>4, <3>1, FootKey DEF CreateKinds, MoveKinds, Tells
    <2>6. Whereabouts(file, Add(chg, op).ops)
      BY <2>3, <2>4, <2>5, WhereKey DEF CreateKinds, MoveKinds
    <2>7. QED
      BY <2>3, <2>6
  <1>5. ASSUME NEW id \in Folders, NEW parent \in Folders \cup {None}, OpenNewFolder(id, parent)
        PROVE  Whereabouts(file, chg'.ops)
    <2>1. PICK op : op = [Op("CreateGroup", Source, id) EXCEPT !.parent = parent, !.name = NewName]
      OBVIOUS
    <2>2. chg' = Add(chg, op) /\ Fresh(id)
      BY <1>5, <2>1 DEF OpenNewFolder, Becomes
    <2>3. op = [seq |-> 0, kind |-> "CreateGroup", source |-> Source, target |-> id,
                parent |-> parent, name |-> NewName, was |-> None, before |-> None,
                after |-> None, perm |-> FALSE]
      BY <2>1 DEF Op
    <2>4. Footing(file, Add(chg, op).ops)
      <3>1. op.kind = "CreateGroup" /\ op.target = id /\ op.parent = parent /\ Told(op) = parent /\ op.name # None
        BY <2>3, StagingAssumption DEF Told, MoveKinds
      <3>2. id \notin Live(file) \cup Targets(chg.ops)
        BY <2>2 DEF Fresh, Has, Targets
      <3>3. id \notin DOMAIN view
        BY <3>2, RowsShown DEF Targets, OfKind
      <3>4. parent # id /\ parent \in Homes
        <4>1. parent \in DOMAIN view \cup {None}
          BY <1>5 DEF OpenNewFolder
        <4>2. QED
          BY <3>3, <4>1, StagingAssumption DEF Homes
      <3>5. QED
        BY <1>0, <2>2, <2>3, <3>1, <3>4, FootKey DEF CreateKinds, MoveKinds
    <2>5. Whereabouts(file, Add(chg, op).ops)
      BY <2>2, <2>3, <2>4, WhereKey DEF CreateKinds, MoveKinds
    <2>6. QED
      BY <2>2, <2>5
  <1>6. ASSUME NEW id \in Ids, NEW dest \in Folders \cup {Root}, StageMove(id, dest)
        PROVE  Whereabouts(file, chg'.ops)
    <2>1. PICK kind, was : kind = (IF IsEntry(id) THEN "MoveEntry" ELSE "MoveGroup") /\ was = HomeOf(id)
      OBVIOUS
    <2>2. PICK op : op = [Op(kind, Source, id) EXCEPT !.was = was, !.parent = dest]
      OBVIOUS
    <2>3. id \in DOMAIN view /\ chg' = Add(chg, op)
      BY <1>6, <2>1, <2>2 DEF StageMove, Stage, Becomes
    <2>4. kind \in {"MoveEntry", "MoveGroup"}
      BY <2>1
    <2>5. op = [seq |-> 0, kind |-> kind, source |-> Source, target |-> id,
                parent |-> dest, name |-> None, was |-> was, before |-> None,
                after |-> None, perm |-> FALSE]
      BY <2>2 DEF Op
    <2>6. dest # None
      BY StagingAssumption
    <2>7. op.kind \notin CreateKinds /\ op.kind \notin {"CreateEntry", "EditEntry"} /\ op.target \in DOMAIN view /\ op.parent # None
      BY <2>3, <2>4, <2>5, <2>6 DEF CreateKinds
    <2>8. Footing(file, Add(chg, op).ops)
      <3>1. op.kind \in MoveKinds /\ op.target = id /\ op.parent = dest /\ Told(op) = HomeOf(id)
        BY <2>1, <2>4, <2>5 DEF Told, MoveKinds
      <3>2. dest # id
        BY <1>6 DEF StageMove
      <3>3. op.kind \notin CreateKinds \cup {"CreateGroup", "RenameGroup"}
        BY <2>4, <2>5 DEF CreateKinds
      <3>4. QED
        BY <1>0, <2>3, <2>5, <3>1, <3>2, <3>3, HomeWasStaged, FootKey
    <2>9. Whereabouts(file, Add(chg, op).ops)
      BY <2>5, <2>7, <2>8, WhereKey
    <2>10. QED
      BY <2>3, <2>9
  <1>7. QED
    BY <1>1, <1>2, <1>3, <1>4, <1>5, <1>6

(* d and D take back deletions, and stage one.                             *)
LEMMA WhereDelete ==
  ASSUME Current, IsVault(file), Whereabouts(file, chg.ops),
         NEW id \in Ids, NEW permanent, StageDelete(id, permanent)
  PROVE  Whereabouts(file, chg'.ops)
  <1> DEFINE perm   == permanent \/ ~BinEnabled
             before == FileDraft(id)
  <1>0. PICK back, one, all :
          /\ back = IF StagedDeletion(id) = {} THEN chg
                    ELSE Revert(chg, Latest(StagedDeletion(id)).seq)
          /\ one = [Op("DeleteEntry", Source, id) EXCEPT !.before = before, !.perm = perm]
          /\ all = [Op("DeleteGroup", Source, id) EXCEPT !.perm = perm]
    OBVIOUS
  <1>1. /\ id \in DOMAIN view /\ ~InDoomedFolder(id)
        /\ \/ chg' = back
           \/ chg' = Add(back, one)
           \/ chg' = Add(DropDeletionsUnder(back, id), all)
    BY <1>0 DEF StageDelete, Stage, Becomes
  <1>2. Handles(back) /\ Sane(file, back)
    BY <1>0, <1>1, NoneIsLeft
  <1>3. Handles(chg) /\ Sane(file, chg) /\ Log(chg.ops) /\ red = Effective(chg.ops)
    BY RowsShown DEF Current, NumbersHold
  <1>4. /\ back.ops \in SUBSET chg.ops
        /\ \A op \in chg.ops : op.kind \notin DeleteKinds => op \in back.ops
    <2>1. CASE StagedDeletion(id) = {}
      BY <1>0, <2>1
    <2>2. CASE StagedDeletion(id) # {}
      <3> DEFINE found == Latest(StagedDeletion(id))
                 undone == {op \in chg.ops : op.seq = found.seq}
      <3>1. \A r \in StagedDeletion(id) : r \in chg.ops /\ r.kind \in DeleteKinds
        BY <1>3, EffectiveWasStaged DEF StagedDeletion, Staged, OfKind, On
      <3>2. Log(StagedDeletion(id))
        <4>1. StagedDeletion(id) \in SUBSET chg.ops
          BY <3>1
        <4>2. QED
          BY <1>3, <4>1, PartOfALog
      <3>3. found \in chg.ops /\ found.kind \in DeleteKinds
        BY <2>2, <3>1, <3>2, LastIsOne
      <3> HIDE DEF found
      <3>4. \A e \in undone : e = found
        BY <1>3, <3>3 DEF Handles
      <3>5. back = Without(chg, undone)
        BY <1>0, <2>2 DEF Revert, found
      <3>6. Targets(OfKind(undone, CreateKinds)) = {}
        <4> HIDE DEF undone
        <4>1. QED
          BY <3>3, <3>4 DEF Targets, OfKind, CreateKinds, DeleteKinds
      <3>7. \A op \in chg.ops : op.kind \notin DeleteKinds => op \notin undone
        <4> HIDE DEF undone
        <4>1. QED
          BY <3>3, <3>4
      <3> HIDE DEF undone
      <3>8. back.ops = chg.ops \ undone
        BY <1>3, <3>5, <3>6 DEF Without, Handles
      <3>9. QED
        BY <3>7, <3>8
    <2>3. QED
      BY <2>1, <2>2
  <1> HIDE DEF perm, before
  <1>5. /\ Shaped(one) /\ one.kind = "DeleteEntry" /\ one.target = id
        /\ Shaped(all) /\ all.kind = "DeleteGroup" /\ all.target = id
    BY <1>0 DEF Op, Shaped
  <1>6. Whereabouts(file, back.ops)
    BY <1>4, WhereFilter
  <1>7. ASSUME NEW set, set.ops \in SUBSET chg.ops,
               \A op \in chg.ops : op.kind \notin DeleteKinds => op \in set.ops
        PROVE  id \in (Live(file) \ {Root}) \cup Targets(OfKind(set.ops, CreateKinds))
    <2>1. OfKind(chg.ops, CreateKinds) \subseteq OfKind(set.ops, CreateKinds)
      BY <1>7 DEF OfKind, CreateKinds, DeleteKinds
    <2>2. QED
      BY <1>1, <2>1, RowsShown DEF Targets
  <1>8. ASSUME NEW set, Handles(set), Whereabouts(file, set.ops)
         PROVE  Footing(file, Add(set, one).ops) /\ Footing(file, Add(set, all).ops)
    <2>1. Footing(file, set.ops)
      BY <1>8 DEF Whereabouts
    <2>2. ASSUME NEW op, Shaped(op), op.kind \in DeleteKinds PROVE Footing(file, Add(set, op).ops)
      <3>1. op.kind \notin CreateKinds \cup MoveKinds \cup {"CreateGroup", "RenameGroup"} /\ ~Tells(file, op)
        BY <2>2 DEF CreateKinds, MoveKinds, DeleteKinds, Tells
      <3>2. QED
        BY <1>8, <2>1, <2>2, <3>1, FootAdd
    <2>3. QED
      BY <1>5, <2>2 DEF DeleteKinds
  <1>9. Whereabouts(file, Add(back, one).ops)
    <2>1. id \in (Live(file) \ {Root}) \cup Targets(OfKind(back.ops, CreateKinds))
      BY <1>4, <1>7
    <2>2. Footing(file, Add(back, one).ops)
      BY <1>2, <1>6, <1>8
    <2>3. QED
      BY <1>5, <1>6, <2>1, <2>2, WhereAdd DEF CreateKinds, MoveKinds
  <1>10. Whereabouts(file, Add(DropDeletionsUnder(back, id), all).ops)
    <2>1. PICK rest : rest = DropDeletionsUnder(back, id)
      OBVIOUS
    <2>2. /\ Handles(rest)
          /\ rest.ops \subseteq back.ops
          /\ \A op \in back.ops : op.kind \notin DeleteKinds => op \in rest.ops
      BY <1>2, <2>1, SaneDropUnder, DropUnderHandles
    <2>3. Whereabouts(file, rest.ops)
      BY <1>6, <2>2, WhereFilter
    <2>4. id \in (Live(file) \ {Root}) \cup Targets(OfKind(rest.ops, CreateKinds))
      BY <1>4, <1>7, <2>2
    <2>5. Footing(file, Add(rest, all).ops)
      BY <1>8, <2>2, <2>3
    <2>6. Whereabouts(file, Add(rest, all).ops)
      BY <1>5, <2>3, <2>4, <2>5, WhereAdd DEF CreateKinds, MoveKinds
    <2>7. QED
      BY <2>1, <2>6
  <1>11. QED
    BY <1>1, <1>6, <1>9, <1>10

(* Nothing is staged anywhere.                                             *)
LEMMA WhereNothing ==
  ASSUME NEW tree, NEW ops, ops = {}
  PROVE  Whereabouts(tree, ops)
  BY DEF Whereabouts, Footing, FilledLater, Targets, OfKind

LEMMA WhereStep ==
  ASSUME Current, IsVault(file), Worded(file, chg), AllTyped(chg), Whereabouts(file, chg.ops), [Next]_vars
  PROVE  Whereabouts(file, chg.ops)'
  <1>1. Handles(chg) /\ Sane(file, chg)
    BY DEF Current, NumbersHold
  <1>2. ASSUME Becomes(chg'), Whereabouts(file, chg'.ops) PROVE Whereabouts(file, chg.ops)'
    <2>1. file' = file
      BY <1>2 DEF Becomes
    <2>2. Whereabouts(file', chg'.ops)
      BY <1>2, <2>1
    <2>3. QED
      BY <2>2
  <1>3. ASSUME NEW id \in Entries, NEW parent \in Folders \cup {None}, NEW val, StageNewEntry(id, parent, val)
        PROVE  Whereabouts(file, chg.ops)'
    <2>1. Becomes(chg')
      BY <1>3 DEF StageNewEntry, Stage, Becomes
    <2>2. QED
      BY <1>2, <1>3, <2>1, WhereStaging
  <1>4. ASSUME NEW id \in Entries, NEW val, StageEdit(id, val) PROVE Whereabouts(file, chg.ops)'
    <2>1. Becomes(chg')
      BY <1>4 DEF StageEdit, Stage, Becomes
    <2>2. QED
      BY <1>2, <1>4, <2>1, WhereStaging
  <1>5. ASSUME NEW id \in Entries, NEW val, StageRetitle(id, val) PROVE Whereabouts(file, chg.ops)'
    <2>1. Becomes(chg')
      BY <1>5 DEF StageRetitle, Stage, Becomes
    <2>2. QED
      BY <1>2, <1>5, <2>1, WhereStaging
  <1>6. ASSUME NEW id \in Folders, NEW name \in Names, StageRename(id, name) PROVE Whereabouts(file, chg.ops)'
    <2>1. Becomes(chg')
      BY <1>6 DEF StageRename, Stage, Becomes
    <2>2. QED
      BY <1>2, <1>6, <2>1, WhereStaging
  <1>7. ASSUME NEW id \in Folders, NEW parent \in Folders \cup {None}, OpenNewFolder(id, parent)
        PROVE  Whereabouts(file, chg.ops)'
    <2>1. Becomes(chg')
      BY <1>7 DEF OpenNewFolder, Becomes
    <2>2. QED
      BY <1>2, <1>7, <2>1, WhereStaging
  <1>8. ASSUME NEW id \in Ids, NEW dest \in Folders \cup {Root}, StageMove(id, dest)
        PROVE  Whereabouts(file, chg.ops)'
    <2>1. Becomes(chg')
      BY <1>8 DEF StageMove, Stage, Becomes
    <2>2. QED
      BY <1>2, <1>8, <2>1, WhereStaging
  <1>9. ASSUME NEW id \in Ids, NEW permanent, StageDelete(id, permanent) PROVE Whereabouts(file, chg.ops)'
    <2>1. Becomes(chg')
      BY <1>9 DEF StageDelete, Stage, Becomes
    <2>2. QED
      BY <1>2, <1>9, <2>1, WhereDelete
  <1>10. ASSUME NEW name \in Names \cup {NewName}, NameNewFolder(name) PROVE Whereabouts(file, chg.ops)'
    <2>1. PICK made : made = CHOOSE op \in chg.ops : op.seq = naming
      OBVIOUS
    <2>2. made \in chg.ops /\ made.kind = "CreateGroup"
      <3>1. PICK one \in OfKind(chg.ops, {"CreateGroup"}) : one.seq = naming
        BY <1>10 DEF NameNewFolder, Current
      <3>2. one \in chg.ops /\ one.kind = "CreateGroup"
        BY DEF OfKind
      <3>3. made \in chg.ops /\ made.seq = naming
        BY <2>1, <3>1, <3>2
      <3>4. QED
        BY <1>1, <3>1, <3>2, <3>3 DEF Handles
    <2>3. PICK op : op = [Op("RenameGroup", Source, made.target) EXCEPT !.name = name, !.was = NewName]
      OBVIOUS
    <2>4. Becomes(chg') /\ (chg' = chg \/ chg' = Add(chg, op))
      BY <1>10, <2>1, <2>3 DEF NameNewFolder, Becomes
    <2>5. op = [seq |-> 0, kind |-> "RenameGroup", source |-> Source, target |-> made.target,
                parent |-> None, name |-> name, was |-> NewName, before |-> None,
                after |-> None, perm |-> FALSE]
      BY <2>3 DEF Op
    <2>6. made.target \in Targets(OfKind(chg.ops, CreateKinds))
      BY <2>2 DEF Targets, OfKind, CreateKinds
    <2>7. Footing(file, Add(chg, op).ops)
      <3>1. op.kind = "RenameGroup" /\ op.name # None
        BY <2>5, StagingAssumption
      <3>2. Footing(file, chg.ops)
        BY DEF Whereabouts
      <3>3. QED
        BY <2>5, <3>1, <3>2, FootKey DEF CreateKinds, MoveKinds, Tells
    <2>8. Whereabouts(file, Add(chg, op).ops)
      BY <2>5, <2>6, <2>7, WhereKey DEF CreateKinds, MoveKinds
    <2>9. QED
      BY <1>2, <2>4, <2>8
  <1>11. CASE AbandonNewFolder
    <2> DEFINE undone == {op \in chg.ops : op.seq = naming}
    <2>1. Becomes(chg') /\ chg' = Without(chg, undone)
      BY <1>11 DEF AbandonNewFolder, Becomes, Revert
    <2>2. PICK one \in OfKind(chg.ops, {"CreateGroup"}) : one.seq = naming
      BY <1>11 DEF AbandonNewFolder, Current
    <2>3. \A m \in undone : m.kind \notin MoveKinds
      BY <1>1, <2>2 DEF Handles, OfKind, MoveKinds
    <2>4. undone \in SUBSET chg.ops
      OBVIOUS
    <2> HIDE DEF undone
    <2>5. Whereabouts(file, Without(chg, undone).ops)
      BY <1>1, <2>3, <2>4, WhereWithout
    <2>6. QED
      BY <1>2, <2>1, <2>5
  <1>12. ASSUME NEW id, Undo(id) PROVE Whereabouts(file, chg.ops)'
    <2> DEFINE undone == On(chg.ops, id)
    <2>1. Becomes(chg') /\ chg' = Without(chg, undone)
      BY <1>12 DEF Undo, Stage, Becomes, RevertTarget
    <2>2. /\ undone \in SUBSET chg.ops
          /\ \A m \in undone : On(chg.ops, m.target) \subseteq undone
      BY DEF On
    <2> HIDE DEF undone
    <2>3. Whereabouts(file, Without(chg, undone).ops)
      BY <1>1, <2>2, WhereWithout
    <2>4. QED
      BY <1>2, <2>1, <2>3
  <1>13. CASE Save
    <2>1. chg'.ops = {}
      BY <1>13 DEF Save, EmptySet
    <2>2. Whereabouts(file', chg'.ops)
      BY <2>1, WhereNothing
    <2>3. QED
      BY <2>2
  <1>14. CASE UNCHANGED vars
    <2>1. chg' = chg /\ file' = file
      BY <1>14 DEF vars
    <2>2. Whereabouts(file', chg'.ops)
      BY <2>1
    <2>3. QED
      BY <2>2
  <1>15. QED
    BY <1>3, <1>4, <1>5, <1>6, <1>7, <1>8, <1>9, <1>10, <1>11, <1>12, <1>13, <1>14 DEF Next

-----------------------------------------------------------------------------
(* What a row says, by what the save would perform.                        *)

(* There are finitely many rows, and the root group is none of them.       *)
LEMMA RowsAreFinite ==
  ASSUME Current, IsVault(file), AllTyped(chg)
  PROVE  IsFiniteSet(DOMAIN view) /\ None \notin DOMAIN view /\ Root \notin DOMAIN view
  <1>1. DOMAIN view \subseteq Ids
    BY RowsAreTyped
  <1>2. Len(red) \in Nat /\ DOMAIN red = 1 .. Len(red)
    BY ReducedIsDue
  <1>3. PICK T : T = {red[i].target : i \in 1 .. Len(red)}
    OBVIOUS
  <1>4. IsFiniteSet(T)
    <2>1. IsFiniteSet(1 .. Len(red))
      BY <1>2, FS_Interval
    <2> DEFINE f == [i \in 1 .. Len(red) |-> red[i].target]
    <2>2. f \in Surjection(1 .. Len(red), T)
      BY <1>3 DEF Surjection
    <2> HIDE DEF f
    <2>3. QED
      BY <2>1, <2>2, FS_Surjection
  <1>5. DOMAIN view \subseteq Live(file) \cup T
    <2>1. Targets(OfKind(Members(red), CreateKinds)) \subseteq T
      BY <1>2, <1>3 DEF Targets, OfKind, Members
    <2>2. QED
      BY <2>1, RowsShown
  <1>6. IsFiniteSet(Live(file) \cup T)
    <2>1. IsFiniteSet(Live(file))
      BY DEF IsVault
    <2>2. QED
      BY <1>4, <2>1, FS_Union
  <1>7. IsFiniteSet(DOMAIN view)
    BY <1>5, <1>6, FS_Subset
  <1>8. QED
    BY <1>1, <1>7, StagingAssumption DEF Ids

(* Of each sort there is one net operation of a target at most.            *)
LEMMA OneOfASort ==
  ASSUME Current, AllTyped(chg), NEW r \in Members(red), NEW q \in Members(red), r.target = q.target,
         NEW sort \in {CreateKinds, WayOut, Rewrites}, r.kind \in sort, q.kind \in sort
  PROVE  r = q
  <1>1. Len(red) \in Nat /\ DOMAIN red = 1 .. Len(red) /\ Due(file, red)
    BY ReducedIsDue
  <1>2. PICK i \in 1 .. Len(red), j \in 1 .. Len(red) : r = red[i] /\ q = red[j]
    BY <1>1 DEF Members
  <1>3. ~(i < j) /\ ~(j < i)
    BY <1>1, <1>2 DEF Due
  <1>4. i = j
    BY <1>1, <1>3
  <1>5. QED
    BY <1>2, <1>4

LEMMA OnlyOne ==
  ASSUME Current, AllTyped(chg), NEW r \in Members(red),
         NEW sort \in {CreateKinds, WayOut, Rewrites}, NEW kinds \in SUBSET sort,
         NEW some \in SUBSET Staged(kinds, r.target, red), r \in some
  PROVE  Latest(some) = r
  <1>1. PICK q : q = Latest(some)
    OBVIOUS
  <1>2. q \in Members(red) /\ q.kind \in kinds /\ q.target = r.target
    BY <1>1, LastNet
  <1>3. r.kind \in kinds
    BY DEF Staged, OfKind, On
  <1>4. QED
    BY <1>1, <1>2, <1>3, OneOfASort

(* A row is where its move takes it, if that is shown; else where its       *)
(* creation says; else where the file has it.                              *)
LEMMA RowHomeFrom ==
  ASSUME Current, AllTyped(chg), NEW id \in DOMAIN view
  PROVE  /\ \A m \in Members(red) :
              m.kind \in MoveKinds /\ m.target = id /\ (m.kind = "MoveGroup" \/ m.parent \in DOMAIN view)
                => view[id].home = m.parent
         /\ id \notin Targets(OfKind(Members(red), MoveKinds)) =>
              /\ \A c \in Members(red) : c.kind \in CreateKinds /\ c.target = id => view[id].home = Born(c).home
              /\ id \notin Targets(OfKind(Members(red), CreateKinds)) => view[id].home = file.node[id].home
  <1>1. view[id].home = IF RowMoves(id) = {} THEN RowBase(id).home ELSE Latest(RowMoves(id)).parent
    BY RowIs
  <1>2. ASSUME NEW m \in Members(red), m.kind \in MoveKinds, m.target = id,
               m.kind = "MoveGroup" \/ m.parent \in DOMAIN view
        PROVE  view[id].home = m.parent
    <2>1. m \in RowMoves(id)
      BY <1>2 DEF RowMoves, Staged, OfKind, On
    <2>2. RowMoves(id) \in SUBSET Staged(MoveKinds, m.target, red)
      BY <1>2 DEF RowMoves
    <2>3. MoveKinds \in SUBSET WayOut
      BY DEF WayOut
    <2>4. Latest(RowMoves(id)) = m
      BY <2>1, <2>2, <2>3, OnlyOne
    <2>5. QED
      BY <1>1, <2>1, <2>4
  <1>3. ASSUME id \notin Targets(OfKind(Members(red), MoveKinds))
        PROVE  view[id].home = RowBase(id).home
    BY <1>1, <1>3 DEF RowMoves, Staged, Targets, OfKind, On
  <1>4. ASSUME NEW c \in Members(red), c.kind \in CreateKinds, c.target = id
        PROVE  RowBase(id) = Born(c)
    <2>1. id \in Targets(OfKind(Members(red), CreateKinds))
      BY <1>4 DEF Targets, OfKind
    <2>2. c \in Staged(CreateKinds, c.target, red)
      BY <1>4 DEF Staged, OfKind, On
    <2>3. Latest(Staged(CreateKinds, c.target, red)) = c
      BY <2>2, OnlyOne
    <2>4. QED
      BY <1>4, <2>1, <2>3 DEF RowBase
  <1>5. ASSUME id \notin Targets(OfKind(Members(red), CreateKinds))
        PROVE  RowBase(id).home = file.node[id].home
    BY <1>5 DEF RowBase, Filed
  <1>6. QED
    BY <1>2, <1>3, <1>4, <1>5

(* A thing that is moved is shown where it goes; a new one that is not,     *)
(* where it is created, its drafts having no say in it; and any other,      *)
(* where the file has it.                                                  *)
LEMMA RowHomeIs ==
  ASSUME Current, AllTyped(chg), Whereabouts(file, chg.ops),
         ~EntryMovedToRoot, ~StaleReference, ~MoveCancelled, NEW id \in DOMAIN view
  PROVE  /\ \A m \in Members(red) : m.kind \in MoveKinds /\ m.target = id => view[id].home = m.parent
         /\ id \notin Targets(OfKind(Members(red), MoveKinds)) =>
              /\ \A c \in Members(red) : c.kind \in CreateKinds /\ c.target = id => view[id].home = c.parent
              /\ id \notin Targets(OfKind(Members(red), CreateKinds)) => view[id].home = file.node[id].home
  <1>1. /\ Log(chg.ops) /\ red = Effective(chg.ops)
        /\ DOMAIN view = (Live(file) \ {Root}) \cup Targets(OfKind(Members(red), CreateKinds))
    BY RowsShown DEF Current
  <1>2. \A r \in Members(red) : r \in Reduction(chg.ops) /\ Typed(r) /\ Composed(On(chg.ops, r.target), r)
    BY <1>1, NetIsTyped, FieldsWereStaged
  <1>3. ASSUME NEW m \in Members(red), m.kind \in MoveKinds, m.target = id
        PROVE  view[id].home = m.parent
    <2>1. m.kind = "MoveGroup" \/ m.parent \in DOMAIN view
      <3> SUFFICES ASSUME m.kind = "MoveEntry" PROVE m.parent \in DOMAIN view
        BY <1>3 DEF MoveKinds
      <3>1. PICK op \in On(chg.ops, id) : op.kind = m.kind /\ op.parent = m.parent
        BY <1>2, <1>3 DEF Composed
      <3>2. op \in chg.ops
        BY DEF On
      <3>3. m.parent # None
        BY <1>3, <3>1, <3>2 DEF Whereabouts
      <3>4. m.parent # Root
        BY DEF EntryMovedToRoot, Reduced, OfKind
      <3>5. m.parent \in Live(file) \cup Targets(OfKind(chg.ops, CreateKinds))
        BY <3>1, <3>2, <3>3, <3>4 DEF Current, Sane, Lies
      <3>6. ASSUME m.parent \in Targets(OfKind(chg.ops, CreateKinds)) PROVE m.parent \in DOMAIN view
        <4>1. PICK j \in DOMAIN red : m = red[j]
          BY DEF Members
        <4>2. PICK i \in DOMAIN red : red[i].kind \in CreateKinds /\ red[i].target = m.parent
          BY <1>1, <3>6, <4>1, CreatedBeforeFilled
        <4>3. QED
          BY <1>1, <4>2 DEF Members, Targets, OfKind
      <3>7. QED
        BY <1>1, <3>4, <3>5, <3>6
    <2>2. QED
      BY <1>3, <2>1, RowHomeFrom
  <1>4. ASSUME id \notin Targets(OfKind(Members(red), MoveKinds)),
               NEW c \in Members(red), c.kind \in CreateKinds, c.target = id
        PROVE  view[id].home = c.parent
    <2>1. view[id].home = Born(c).home
      BY <1>4, RowHomeFrom
    <2>2. CASE c.kind # "CreateEntry"
      BY <2>1, <2>2 DEF Born
    <2>3. CASE c.kind = "CreateEntry"
      <3>1. c.after.group = view[id].home
        BY <2>1, <2>3 DEF Born
      <3>2. PICK made \in On(chg.ops, id) : made.kind = c.kind /\ made.parent = c.parent
        BY <1>2, <1>4 DEF Composed
      <3>3. PICK held \in On(chg.ops, id) : held.after = c.after /\ held.kind \in {"CreateEntry", "EditEntry"}
        BY <1>2, <1>4, <2>3 DEF Composed
      <3>4. /\ made \in WordsOn(chg.ops, id) /\ held \in WordsOn(chg.ops, id)
            /\ made.after.group = c.parent
            /\ id \in Targets(OfKind(chg.ops, {"CreateEntry"}))
        BY <2>3, <3>2, <3>3 DEF WordsOn, OfKind, On, Targets, Whereabouts
      <3>5. PICK p \in Homes : \A w \in WordsOn(chg.ops, id) :
              \/ w.after.group = p
              \/ w.after.group \in SpotsOf(chg.ops, id)
              \/ Lost(file, chg.ops, w.after.group)
        BY <3>4 DEF Whereabouts
      <3>6. SpotsOf(chg.ops, id) = {}
        <4>1. c \in Reduced({"CreateEntry"})
          BY <2>3 DEF Reduced, OfKind
        <4>2. OfKind(On(chg.ops, id), MoveKinds) = {}
          BY <1>4, <4>1 DEF MoveCancelled, Staged, Targets, OfKind, On
        <4>3. QED
          BY <4>2 DEF SpotsOf
      <3>7. \A w \in WordsOn(chg.ops, id) : ~Lost(file, chg.ops, w.after.group)
        BY DEF StaleReference, Placed, Creations, Lost, WordsOn, OfKind, On
      <3>8. QED
        BY <3>1, <3>3, <3>4, <3>5, <3>6, <3>7
    <2>4. QED
      BY <2>2, <2>3
  <1>5. ASSUME id \notin Targets(OfKind(Members(red), MoveKinds)),
               id \notin Targets(OfKind(Members(red), CreateKinds))
        PROVE  view[id].home = file.node[id].home
    BY <1>5, RowHomeFrom
  <1>6. QED
    BY <1>3, <1>4, <1>5

(* And it shows what an edit or a rename of it says, or else its creation,  *)
(* or else the file.                                                       *)
LEMMA RowDataIs ==
  ASSUME Current, AllTyped(chg), NEW id \in DOMAIN view
  PROVE  /\ \A w \in Members(red) : w.kind \in Rewrites /\ w.target = id => view[id].data = Says(w)
         /\ id \notin Targets(OfKind(Members(red), Rewrites)) =>
              /\ \A c \in Members(red) : c.kind \in CreateKinds /\ c.target = id => view[id].data = Says(c)
              /\ id \notin Targets(OfKind(Members(red), CreateKinds)) => view[id].data = file.node[id].data
  <1>1. \A r \in Members(red) : Typed(r)
    BY NetIsTyped
  <1>2. /\ RowTitles(id) = {} =>
             view[id].data = IF RowEdits(id) # {} THEN Latest(RowEdits(id)).after.val ELSE RowBase(id).data
        /\ RowEdits(id) = {} =>
             view[id].data = IF RowTitles(id) # {} THEN Latest(RowTitles(id)).name ELSE RowBase(id).data
    BY RowIs
  <1>3. RowEdits(id) = {} \/ RowTitles(id) = {}
    BY <1>1, StagingAssumption DEF Typed, RowEdits, RowTitles, Staged, OfKind, On
  <1>4. ASSUME NEW w \in Members(red), w.kind = "EditEntry", w.target = id
        PROVE  view[id].data = Says(w)
    <2>1. w \in RowEdits(id) /\ RowEdits(id) \in SUBSET Staged({"EditEntry"}, w.target, red)
      BY <1>4 DEF RowEdits, Staged, OfKind, On
    <2>2. {"EditEntry"} \in SUBSET Rewrites
      BY DEF Rewrites
    <2>3. Latest(RowEdits(id)) = w
      BY <2>1, <2>2, OnlyOne
    <2>4. QED
      BY <1>2, <1>3, <1>4, <2>1, <2>3 DEF Says
  <1>5. ASSUME NEW w \in Members(red), w.kind = "RenameGroup", w.target = id
        PROVE  view[id].data = Says(w)
    <2>1. w \in RowTitles(id) /\ RowTitles(id) \in SUBSET Staged({"RenameGroup"}, w.target, red)
      BY <1>5 DEF RowTitles, Staged, OfKind, On
    <2>2. {"RenameGroup"} \in SUBSET Rewrites
      BY DEF Rewrites
    <2>3. Latest(RowTitles(id)) = w
      BY <2>1, <2>2, OnlyOne
    <2>4. QED
      BY <1>2, <1>3, <1>5, <2>1, <2>3 DEF Says
  <1>6. ASSUME id \notin Targets(OfKind(Members(red), Rewrites))
        PROVE  view[id].data = RowBase(id).data
    <2>1. RowEdits(id) = {} /\ RowTitles(id) = {}
      BY <1>6 DEF RowEdits, RowTitles, Staged, OfKind, On, Targets, Rewrites
    <2>2. QED
      BY <1>2, <2>1
  <1>7. ASSUME id \notin Targets(OfKind(Members(red), Rewrites)),
               NEW c \in Members(red), c.kind \in CreateKinds, c.target = id
        PROVE  view[id].data = Says(c)
    <2>1. id \in Targets(OfKind(Members(red), CreateKinds))
      BY <1>7 DEF Targets, OfKind
    <2>2. c \in Staged(CreateKinds, c.target, red)
      BY <1>7 DEF Staged, OfKind, On
    <2>3. Latest(Staged(CreateKinds, c.target, red)) = c
      BY <2>2, OnlyOne
    <2>4. RowBase(id) = Born(c)
      BY <1>7, <2>1, <2>3 DEF RowBase
    <2>5. QED
      BY <1>6, <1>7, <2>4 DEF Born, Says, CreateKinds
  <1>8. ASSUME id \notin Targets(OfKind(Members(red), Rewrites)),
               id \notin Targets(OfKind(Members(red), CreateKinds))
        PROVE  view[id].data = file.node[id].data
    BY <1>6, <1>8 DEF RowBase, Filed
  <1>9. QED
    BY <1>4, <1>5, <1>7, <1>8 DEF Rewrites

-----------------------------------------------------------------------------
(* What is above a folder.                                                 *)

(* The folders of the rows above, as Chain counts them.                    *)
Over(folder, up) == {HomeOf(f) : f \in {folder} \cup up}
Climbs(folder, N, f) == f = [n \in 0 .. N |-> IF n = 0 THEN {} ELSE Over(folder, f[n - 1])]

LEMMA ClimbsExist ==
  ASSUME NEW folder
  PROVE  \A N \in Nat : \E f : Climbs(folder, N, f)
  <1> DEFINE Found == {N \in Nat : \E f : Climbs(folder, N, f)}
  <1>1. 0 \in Found
    <2> DEFINE f == [n \in 0 .. 0 |-> {}]
    <2>1. f = [n \in 0 .. 0 |-> IF n = 0 THEN {} ELSE Over(folder, f[n - 1])]
      OBVIOUS
    <2>2. Climbs(folder, 0, f)
      BY <2>1 DEF Climbs
    <2> HIDE DEF f
    <2>3. QED
      BY <2>2
  <1>2. ASSUME NEW N \in Nat, N \in Found PROVE N + 1 \in Found
    <2>1. PICK f : Climbs(folder, N, f)
      BY <1>2
    <2>2. /\ DOMAIN f = 0 .. N
          /\ \A n \in 0 .. N : f[n] = IF n = 0 THEN {} ELSE Over(folder, f[n - 1])
      BY <2>1 DEF Climbs
    <2> DEFINE g == [n \in 0 .. (N + 1) |-> IF n = N + 1 THEN Over(folder, f[N]) ELSE f[n]]
               h == [n \in 0 .. (N + 1) |-> IF n = 0 THEN {} ELSE Over(folder, g[n - 1])]
    <2>3. ASSUME NEW n \in 0 .. (N + 1) PROVE g[n] = h[n]
      <3>1. CASE n = N + 1
        <4>1. g[n] = Over(folder, f[N]) /\ h[n] = Over(folder, g[N])
          BY <3>1
        <4>2. g[N] = f[N]
          OBVIOUS
        <4>3. QED
          BY <4>1, <4>2
      <3>2. CASE n = 0
        <4>1. g[0] = f[0] /\ h[0] = {}
          OBVIOUS
        <4>2. QED
          BY <2>2, <3>2, <4>1
      <3>3. CASE n \in 1 .. N
        <4>1. n \in 0 .. N /\ n - 1 \in 0 .. (N + 1) /\ n # N + 1 /\ n - 1 # N + 1 /\ n # 0
          BY <3>3
        <4>2. g[n] = f[n] /\ h[n] = Over(folder, g[n - 1]) /\ g[n - 1] = f[n - 1]
          BY <4>1
        <4>3. f[n] = Over(folder, f[n - 1])
          BY <2>2, <4>1
        <4>4. QED
          BY <4>2, <4>3
      <3>4. QED
        BY <3>1, <3>2, <3>3
    <2>4. g = h
      BY <2>3
    <2>5. Climbs(folder, N + 1, g)
      BY <2>4 DEF Climbs
    <2> HIDE DEF g, h
    <2>6. QED
      BY <2>5
  <1> HIDE DEF Found
  <1>3. Nat \subseteq Found
    BY <1>1, <1>2, CountingUp
  <1>4. QED
    BY <1>3 DEF Found

LEMMA ChainLevels ==
  ASSUME IsFiniteSet(DOMAIN view), NEW folder
  PROVE  \E N \in Nat : \E f :
           /\ N = Cardinality(DOMAIN view)
           /\ Chain(folder) = ({folder} \cup f[N]) \ {None}
           /\ f[0] = {} /\ \A n \in 1 .. N : f[n] = Over(folder, f[n - 1])
  <1>1. PICK N \in Nat : N = Cardinality(DOMAIN view)
    BY FS_CardinalityType
  <1>2. PICK f : f = (CHOOSE g : Climbs(folder, N, g))
    OBVIOUS
  <1>3. Climbs(folder, N, f)
    BY <1>2, ClimbsExist
  <1>4. Chain(folder) = ({folder} \cup f[N]) \ {None}
    <2>1. Chain(folder) = ({folder} \cup (CHOOSE g : Climbs(folder, Cardinality(DOMAIN view), g))[Cardinality(DOMAIN view)]) \ {None}
      BY DEF Chain, Climbs, Over
    <2>2. QED
      BY <1>1, <1>2, <2>1
  <1>5. f[0] = {} /\ \A n \in 1 .. N : f[n] = Over(folder, f[n - 1])
    <2>1. \A n \in 0 .. N : f[n] = IF n = 0 THEN {} ELSE Over(folder, f[n - 1])
      BY <1>3, Zenon DEF Climbs
    <2>2. 0 \in 0 .. N /\ \A n \in 1 .. N : n \in 0 .. N /\ n # 0
      OBVIOUS
    <2>3. QED
      BY <2>1, <2>2, Zenon
  <1>6. QED
    BY <1>1, <1>4, <1>5

(* Counting as many levels as there are rows reaches everything above: at   *)
(* each level either a row is new or there is nothing more to be reached.  *)
LEMMA ChainIsClosed ==
  ASSUME IsFiniteSet(DOMAIN view), None \notin DOMAIN view, NEW id \in DOMAIN view
  PROVE  \A f \in Chain(id) : HomeOf(f) \in Chain(id) \cup {None}
  <1>1. PICK N \in Nat : \E f :
                /\ N = Cardinality(DOMAIN view)
                /\ Chain(id) = ({id} \cup f[N]) \ {None}
                /\ f[0] = {} /\ \A n \in 1 .. N : f[n] = Over(id, f[n - 1])
    BY ChainLevels
  <1>2. PICK f : /\ N = Cardinality(DOMAIN view)
                 /\ Chain(id) = ({id} \cup f[N]) \ {None}
                 /\ f[0] = {} /\ \A n \in 1 .. N : f[n] = Over(id, f[n - 1])
    BY <1>1
  <1> DEFINE G(n)      == {id} \cup f[n]
             Rows(n)   == G(n) \cap DOMAIN view
             Closed(n) == \A g \in G(n) : HomeOf(g) \in G(n) \cup {None}
             Q(n)      == /\ n # 0 => G(n - 1) \subseteq G(n)
                          /\ Closed(n) \/ Cardinality(Rows(n)) > n
             Good      == {n \in Nat : n <= N => Q(n)}
  <1>3. \A x : x \notin DOMAIN view => HomeOf(x) = None
    BY DEF HomeOf
  <1>4. 0 \in Good
    <2>1. Rows(0) = {id}
      BY <1>2
    <2>2. Cardinality(Rows(0)) = 1
      BY <2>1, FS_Singleton
    <2> HIDE DEF Rows, Closed, G
    <2>3. QED
      BY <2>2
  <1>5. ASSUME NEW n \in Nat, n \in Good PROVE n + 1 \in Good
    <2> SUFFICES ASSUME n + 1 <= N PROVE Q(n + 1)
      OBVIOUS
    <2>1. Q(n) /\ n + 1 \in 1 .. N /\ (n + 1) - 1 = n
      BY <1>5
    <2>2. G(n + 1) = {id} \cup {HomeOf(g) : g \in G(n)}
      BY <1>2, <2>1 DEF Over
    <2>3. G(n) \subseteq G(n + 1)
      <3>1. CASE n = 0
        BY <1>2, <2>2, <3>1
      <3>2. CASE n # 0
        <4>1. n \in 1 .. N
          BY <2>1, <3>2
        <4>2. G(n) = {id} \cup {HomeOf(g) : g \in G(n - 1)}
          BY <1>2, <4>1 DEF Over
        <4>3. G(n - 1) \subseteq G(n)
          BY <2>1, <3>2
        <4> HIDE DEF G
        <4>4. QED
          BY <2>2, <4>2, <4>3
      <3>3. QED
        BY <3>1, <3>2
    <2>4. id \in G(n)
      OBVIOUS
    <2> HIDE DEF G
    <2>5. CASE Closed(n)
      <3>1. G(n + 1) \subseteq G(n) \cup {None}
        BY <2>2, <2>4, <2>5
      <3>2. Closed(n + 1)
        BY <1>3, <2>3, <2>5, <3>1
      <3>3. QED
        BY <2>1, <2>3, <3>2
    <2>6. CASE Cardinality(Rows(n)) > n
      <3>1. CASE Rows(n + 1) = Rows(n)
        <4>1. \A g \in G(n + 1) : g \in DOMAIN view => g \in G(n)
          BY <3>1
        <4>2. Closed(n + 1)
          BY <1>3, <2>2, <4>1
        <4>3. QED
          BY <2>1, <2>3, <4>2
      <3>2. CASE Rows(n + 1) # Rows(n)
        <4>1. PICK x \in Rows(n + 1) : x \notin Rows(n)
          BY <2>3, <3>2
        <4>2. /\ Rows(n) \cup {x} \subseteq Rows(n + 1)
              /\ Rows(n + 1) \subseteq DOMAIN view /\ Rows(n) \subseteq DOMAIN view
          BY <2>3, <4>1
        <4> HIDE DEF Rows
        <4>3. IsFiniteSet(Rows(n + 1)) /\ IsFiniteSet(Rows(n))
          BY <4>2, FS_Subset
        <4>4. Cardinality(Rows(n) \cup {x}) = Cardinality(Rows(n)) + 1
          BY <4>1, <4>3, FS_AddElement
        <4>5. Cardinality(Rows(n) \cup {x}) <= Cardinality(Rows(n + 1))
          BY <4>2, <4>3, FS_Subset
        <4>6. Cardinality(Rows(n)) \in Nat /\ Cardinality(Rows(n + 1)) \in Nat
          BY <4>3, FS_CardinalityType
        <4>7. Cardinality(Rows(n + 1)) > n + 1
          BY <2>6, <4>4, <4>5, <4>6
        <4>8. QED
          BY <2>1, <2>3, <4>7
      <3>3. QED
        BY <3>1, <3>2
    <2>7. QED
      BY <2>1, <2>5, <2>6
  <1>6. Q(N)
    <2>1. N \in Good
      <3> HIDE DEF Good
      <3>1. QED
        BY <1>4, <1>5, CountingUp
    <2> HIDE DEF Q
    <2>2. QED
      BY <2>1
  <1>7. Cardinality(Rows(N)) <= N
    <2>1. Rows(N) \subseteq DOMAIN view
      OBVIOUS
    <2> HIDE DEF Rows
    <2>2. QED
      BY <1>2, <2>1, FS_Subset
  <1>8. Cardinality(Rows(N)) \in Nat
    <2>1. Rows(N) \subseteq DOMAIN view
      OBVIOUS
    <2> HIDE DEF Rows
    <2>2. QED
      BY <2>1, FS_Subset, FS_CardinalityType
  <1>9. Closed(N)
    <2> HIDE DEF Closed, Rows, G
    <2>1. QED
      BY <1>6, <1>7, <1>8
  <1>10. QED
    BY <1>2, <1>9

(* A chain stays in any set that has its folder and what is above each of   *)
(* its own.                                                                *)
LEMMA ChainStays ==
  ASSUME IsFiniteSet(DOMAIN view), None \notin DOMAIN view, NEW folder, NEW S,
         folder \in S \cup {None}, \A f \in S : HomeOf(f) \in S \cup {None}
  PROVE  Chain(folder) \subseteq S
  <1>1. PICK N \in Nat : \E f :
                /\ N = Cardinality(DOMAIN view)
                /\ Chain(folder) = ({folder} \cup f[N]) \ {None}
                /\ f[0] = {} /\ \A n \in 1 .. N : f[n] = Over(folder, f[n - 1])
    BY ChainLevels
  <1>2. PICK f : /\ N = Cardinality(DOMAIN view)
                 /\ Chain(folder) = ({folder} \cup f[N]) \ {None}
                 /\ f[0] = {} /\ \A n \in 1 .. N : f[n] = Over(folder, f[n - 1])
    BY <1>1
  <1>3. HomeOf(None) = None
    BY DEF HomeOf
  <1> DEFINE Good == {n \in Nat : n <= N => f[n] \subseteq S \cup {None}}
  <1>4. 0 \in Good
    BY <1>2
  <1>5. ASSUME NEW n \in Nat, n \in Good PROVE n + 1 \in Good
    <2> SUFFICES ASSUME n + 1 <= N PROVE f[n + 1] \subseteq S \cup {None}
      OBVIOUS
    <2>1. n + 1 \in 1 .. N /\ (n + 1) - 1 = n /\ f[n] \subseteq S \cup {None}
      BY <1>5
    <2>2. f[n + 1] = {HomeOf(g) : g \in {folder} \cup f[n]}
      BY <1>2, <2>1 DEF Over
    <2>3. \A g \in {folder} \cup f[n] : HomeOf(g) \in S \cup {None}
      BY <1>3, <2>1
    <2>4. QED
      BY <2>2, <2>3
  <1>6. N \in Good
    <2> HIDE DEF Good
    <2>1. QED
      BY <1>4, <1>5, CountingUp
  <1>7. QED
    BY <1>2, <1>6

(* What is in a folder that is on its way out is on its way out.           *)
LEMMA OutTogether ==
  ASSUME IsFiniteSet(DOMAIN view), None \notin DOMAIN view,
         NEW id \in DOMAIN view, NEW folder \in DOMAIN view, view[id].home = folder,
         InDoomedFolder(folder) \/ folder \in DoomedFolders
  PROVE  InDoomedFolder(id)
  <1>1. HomeOf(id) = folder /\ folder # None
    BY DEF HomeOf
  <1>2. folder \in Chain(folder)
    BY <1>1 DEF Chain
  <1>3. Chain(HomeOf(folder)) \subseteq Chain(folder)
    <2>1. \A f \in Chain(folder) : HomeOf(f) \in Chain(folder) \cup {None}
      BY ChainIsClosed
    <2>2. HomeOf(folder) \in Chain(folder) \cup {None}
      BY <1>2, <2>1
    <2>3. QED
      BY <2>1, <2>2, ChainStays
  <1>4. QED
    BY <1>1, <1>2, <1>3 DEF InDoomedFolder

-----------------------------------------------------------------------------
(* What a save removes.                                                    *)

(* Only what the file has is deleted: its row is there.                    *)
LEMMA DeletedIsShown ==
  ASSUME Current, Whereabouts(file, chg.ops), NEW d \in Members(red), d.kind \in DeleteKinds
  PROVE  /\ d.target \in Live(file) \ {Root} /\ d.target \in DOMAIN view
         /\ d \in StagedDeletion(d.target) /\ (d.perm \/ BinEnabled)
  <1>1. /\ Log(chg.ops) /\ red = Effective(chg.ops)
        /\ DOMAIN view = (Live(file) \ {Root}) \cup Targets(OfKind(Members(red), CreateKinds))
    BY RowsShown DEF Current
  <1>2. d \in chg.ops /\ d \in OfKind(On(chg.ops, d.target), DeleteKinds)
    BY <1>1, EffectiveWasStaged DEF OfKind, On
  <1>3. d.target \notin Targets(OfKind(chg.ops, CreateKinds))
    BY <1>1, <1>2, CreatedAndDeleted DEF Targets
  <1>4. d.target \in Live(file) \ {Root}
    BY <1>2, <1>3 DEF Whereabouts
  <1>5. d.perm \/ BinEnabled
    BY <1>2 DEF Current, Sane, Fits
  <1>6. QED
    BY <1>1, <1>4, <1>5 DEF StagedDeletion, Staged, OfKind, On

(* What a save, as far as it has come, has in any folder but the root has a *)
(* row: only a bin it made has none.                                       *)
LEMMA WrittenIsShown ==
  ASSUME Current, Whereabouts(file, chg.ops),
         NEW past \in SUBSET Members(red), NEW tree, Follows(file, tree, past), Arrives(file, tree, past),
         NEW id \in Live(tree) \ {Root},
         tree.node[id].home # Root \/ id \notin Bins \ Live(file)
  PROVE  id \in DOMAIN view
  <1>1. /\ Log(chg.ops) /\ red = Effective(chg.ops)
        /\ DOMAIN view = (Live(file) \ {Root}) \cup Targets(OfKind(Members(red), CreateKinds))
    BY RowsShown DEF Current
  <1>2. ASSUME NEW r \in past PROVE r.target \notin Bins \ Live(file)
    <2>1. r.target \in Targets(chg.ops)
      BY <1>1, <1>2, EffectiveWasStaged
    <2>2. r.target \in Live(file) \cup Targets(OfKind(chg.ops, CreateKinds))
      BY <2>1 DEF Targets, Whereabouts
    <2>3. QED
      BY <2>2 DEF Targets, OfKind, Current, Sane, Fits
  <1>3. id \in Live(file) \cup Targets(OfKind(past, CreateKinds)) \/ tree.node[id].home = Root
    BY <1>2 DEF Arrives
  <1>4. id \in Live(file) \cup file.tombs \cup Bins \cup Targets(OfKind(past, CreateKinds))
    BY DEF Follows
  <1>5. id \notin file.tombs
    BY DEF Arrives, Follows, IsVault
  <1>6. Targets(OfKind(past, CreateKinds)) \subseteq Targets(OfKind(Members(red), CreateKinds))
    BY DEF Targets, OfKind
  <1>7. QED
    BY <1>1, <1>3, <1>4, <1>5, <1>6

(* Where it shows them: what has been relocated, created or left alone so   *)
(* far and is not deleted is where its row says, once it has been moved.   *)
LEMMA ShownWhereItIs ==
  ASSUME Current, IsVault(file), AllTyped(chg), Whereabouts(file, chg.ops),
         ~EntryMovedToRoot, ~StaleReference, ~MoveCancelled,
         NEW past \in SUBSET Members(red), NEW tree, Follows(file, tree, past), Arrives(file, tree, past),
         NEW id \in Live(tree), id \in DOMAIN view, StagedDeletion(id) = {},
         \A m \in Members(red) : m.kind \in MoveKinds /\ m.target = id => m \in past
  PROVE  tree.node[id].home = Resolve(view[id].home)
  <1>1. ASSUME NEW m \in Members(red), m.kind \in MoveKinds, m.target = id
        PROVE  tree.node[id].home = Resolve(view[id].home)
    <2>1. view[id].home = m.parent
      BY <1>1, RowHomeIs
    <2>2. tree.node[id].home = Resolve(m.parent)
      BY <1>1 DEF Arrives
    <2>3. QED
      BY <2>1, <2>2
  <1>2. CASE id \in Targets(OfKind(Members(red), MoveKinds))
    BY <1>1, <1>2 DEF Targets, OfKind
  <1>3. CASE id \notin Targets(OfKind(Members(red), MoveKinds))
    <2>1. id \notin Targets(OfKind(past, WayOut))
      BY <1>3 DEF StagedDeletion, Staged, On, Targets, OfKind, WayOut
    <2>2. ASSUME NEW c \in past, c.kind \in CreateKinds, c.target = id
          PROVE  tree.node[id].home = Resolve(view[id].home)
      <3>1. view[id].home = c.parent
        BY <1>3, <2>2, RowHomeIs
      <3>2. tree.node[id].home = Resolve(c.parent)
        BY <2>1, <2>2 DEF Arrives
      <3>3. QED
        BY <3>1, <3>2
    <2>3. CASE id \in Targets(OfKind(past, CreateKinds))
      BY <2>2, <2>3 DEF Targets, OfKind
    <2>4. CASE id \notin Targets(OfKind(past, CreateKinds))
      <3>1. id \in Live(file) /\ id # Root /\ id \notin Targets(OfKind(Members(red), CreateKinds))
        <4>1. /\ DOMAIN view = (Live(file) \ {Root}) \cup Targets(OfKind(Members(red), CreateKinds))
              /\ Targets(OfKind(Members(red), CreateKinds)) \subseteq Targets(OfKind(chg.ops, CreateKinds))
          BY RowsShown
        <4>2. \A t \in Targets(OfKind(chg.ops, CreateKinds)) : t \notin Live(file) \cup file.tombs \cup Bins
          BY DEF Targets, OfKind, Current, Sane, Fits
        <4>3. id \in Live(file) \cup file.tombs \cup Bins
          BY <2>4 DEF Follows
        <4>4. id # Root
          BY RowsAreFinite
        <4>5. QED
          BY <4>1, <4>2, <4>3, <4>4
      <3>2. view[id].home = file.node[id].home
        BY <1>3, <3>1, RowHomeIs
      <3>3. tree.node[id].home = file.node[id].home
        BY <2>1, <3>1 DEF Follows
      <3>4. file.node[id].home # None
        BY <3>1 DEF IsVault
      <3>5. QED
        BY <3>2, <3>3, <3>4 DEF Resolve
    <2>5. QED
      BY <2>3, <2>4
  <1>4. QED
    BY <1>2, <1>3

(* The subtree that is purged hangs together in the tree as its rows do on  *)
(* screen, for whatever is still to be moved out of it is there to be      *)
(* moved: a set that has the folder, what is shown in any it has and what  *)
(* was already deleted into one has all that goes.                         *)
LEMMA PurgedTogether ==
  ASSUME Current, IsVault(file), AllTyped(chg), Whereabouts(file, chg.ops),
         ~EntryMovedToRoot, ~StaleReference, ~MoveCancelled,
         NEW n \in 1 .. Len(red), NEW tree, NEW after,
         Follows(file, tree, Past(red, n - 1)), Arrives(file, tree, Past(red, n - 1)),
         Performs(tree, after, red[n]),
         \A k \in 1 .. Len(red) : k > n => red[k].kind \in CreateKinds \/ red[k].target \notin after.tombs,
         NEW S \in SUBSET DOMAIN view, red[n].target \in S,
         \A id \in DOMAIN view \cap Live(tree) : StagedDeletion(id) # {} /\ tree.node[id].home \in S => id \in S,
         \A id \in DOMAIN view : StagedDeletion(id) = {} /\ view[id].home \in S => id \in S
  PROVE  \A id \in DOMAIN view \cap after.tombs : id \in tree.tombs \cup S
  <1> SUFFICES ASSUME NEW gone \in DOMAIN view, gone \in after.tombs, gone \notin tree.tombs
               PROVE  gone \in S
    OBVIOUS
  <1>1. /\ None \notin DOMAIN view /\ Root \notin DOMAIN view
        /\ Len(red) \in Nat /\ DOMAIN red = 1 .. Len(red)
    BY RowsAreFinite, ReducedIsDue
  <1>2. /\ Past(red, n - 1) \in SUBSET Members(red)
        /\ \A i \in 1 .. Len(red) : i < n => red[i] \in Past(red, n - 1)
    BY <1>1 DEF Members, Past
  <1>3. PICK op : op = red[n]
    OBVIOUS
  <1>4. IsVault(tree) /\ IsVault(after) /\ Live(tree) \subseteq Live(after) \cup after.tombs
    BY DEF Follows, Performs
  <1>5. gone \in Live(tree) \ Live(after)
    BY <1>4 DEF Performs, Places, IsVault
  <1>6. /\ op.kind \in DeleteKinds
        /\ \/ gone = op.target
           \/ /\ gone \in Subtree(tree.node, op.target)
              /\ Subtree(tree.node, op.target) \cap Live(after) = {}
    BY <1>3, <1>5 DEF Performs, Places
  <1>7. CASE gone = op.target
    BY <1>3, <1>7
  <1>8. CASE gone # op.target
    <2>1. ASSUME NEW id \in Subtree(tree.node, op.target), id \in Live(tree), tree.node[id].home \in S
          PROVE  id \in S
      <3>1. id \in after.tombs
        BY <1>4, <1>6, <1>8, <2>1
      <3>2. id # Root /\ tree.node[id].home \notin {Root, None}
        BY <1>1, <1>4, <2>1 DEF IsVault
      <3>3. id \in DOMAIN view
        BY <1>2, <2>1, <3>2, WrittenIsShown
      <3>4. CASE StagedDeletion(id) # {}
        BY <2>1, <3>3, <3>4
      <3>5. CASE StagedDeletion(id) = {}
        <4>1. ASSUME NEW m \in Members(red), m.kind \in MoveKinds, m.target = id
              PROVE  m \in Past(red, n - 1)
          <5>1. PICK k \in 1 .. Len(red) : m = red[k]
            BY <1>1, <4>1 DEF Members
          <5>2. k # n /\ ~(k > n)
            BY <1>3, <1>6, <3>1, <4>1, <5>1 DEF MoveKinds, DeleteKinds, CreateKinds
          <5>3. QED
            BY <1>1, <1>2, <5>1, <5>2
        <4>2. tree.node[id].home = Resolve(view[id].home)
          BY <1>2, <2>1, <3>3, <3>5, <4>1, ShownWhereItIs
        <4>3. tree.node[id].home = view[id].home
          BY <3>2, <4>2 DEF Resolve
        <4>4. QED
          BY <2>1, <3>3, <3>5, <4>3
      <3>6. QED
        BY <3>4, <3>5
    <2>2. Subtree(tree.node, op.target) \subseteq S
      <3>1. IsFiniteSet(DOMAIN tree.node)
        BY <1>4 DEF IsVault, Live
      <3>2. \A id \in Subtree(tree.node, op.target) : id \in DOMAIN tree.node /\ tree.node[id].home \in S => id \in S
        BY <2>1 DEF Live
      <3>3. QED
        BY <1>3, <3>1, <3>2, SubtreeStays
    <2>3. QED
      BY <1>6, <1>8, <2>2
  <1>9. QED
    BY <1>7, <1>8

(* What is in a folder that is on its way out is on its way out, either     *)
(* way of being so.                                                        *)
LEMMA OutWithItsFolder ==
  ASSUME Current, IsVault(file), AllTyped(chg),
         NEW id \in DOMAIN view, view[id].home \in DOMAIN view, OnItsWayOut(view[id].home)
  PROVE  InDoomedFolder(id)
  <1>1. /\ IsFiniteSet(DOMAIN view) /\ None \notin DOMAIN view
        /\ \A r \in Members(red) : Typed(r)
    BY RowsAreFinite, NetIsTyped
  <1>2. PICK home : home = view[id].home /\ home \in DOMAIN view
    OBVIOUS
  <1>3. InDoomedFolder(home) \/ home \in DoomedFolders
    <2>1. SUFFICES ASSUME StagedDeletion(home) # {} PROVE home \in DoomedFolders
      BY <1>2 DEF OnItsWayOut
    <2>2. PICK d \in Members(red) : d.kind \in DeleteKinds /\ d.target = home
      BY <2>1 DEF StagedDeletion, Staged, OfKind, On
    <2>3. home \notin Entries
      <3>1. HomeOf(id) = home /\ HomeOf(id) \in Homes
        BY <1>2, RowsAreTyped DEF HomeOf
      <3>2. QED
        BY <3>1, StagingAssumption DEF Homes
    <2>4. d.kind = "DeleteGroup"
      BY <1>1, <2>2, <2>3 DEF Typed, DeleteKinds
    <2>5. QED
      BY <2>2, <2>4 DEF DoomedFolders, Targets, OfKind
  <1>4. QED
    BY <1>1, <1>2, <1>3, OutTogether

(* One operation removes nothing that is shown and not marked as going.     *)
LEMMA PurgedIsMarked ==
  ASSUME Current, IsVault(file), AllTyped(chg), Whereabouts(file, chg.ops),
         ~EntryMovedToRoot, ~StaleReference, ~MoveCancelled,
         NEW n \in 1 .. Len(red), NEW tree, NEW after,
         Follows(file, tree, Past(red, n - 1)), Arrives(file, tree, Past(red, n - 1)),
         Performs(tree, after, red[n]),
         \A k \in 1 .. Len(red) : k > n => red[k].kind \in CreateKinds \/ red[k].target \notin after.tombs,
         \A id \in DOMAIN view \cap tree.tombs : OnItsWayOut(id)
  PROVE  \A id \in DOMAIN view \cap after.tombs : OnItsWayOut(id)
  <1> DEFINE S == {id \in DOMAIN view : OnItsWayOut(id)}
  <1>1. CASE red[n].kind \notin DeleteKinds
    BY <1>1 DEF Performs, Places, IsVault
  <1>2. CASE red[n].kind \in DeleteKinds
    <2>1. red[n].target \in S
      <3>1. red[n] \in Members(red)
        BY ReducedIsDue DEF Members
      <3>2. QED
        BY <1>2, <3>1, DeletedIsShown DEF OnItsWayOut
    <2>2. \A id \in DOMAIN view : StagedDeletion(id) # {} => id \in S
      BY DEF OnItsWayOut
    <2>3. \A id \in DOMAIN view : view[id].home \in S => id \in S
      BY OutWithItsFolder DEF OnItsWayOut
    <2>4. S \in SUBSET DOMAIN view
      OBVIOUS
    <2> HIDE DEF S
    <2>5. \A id \in DOMAIN view \cap after.tombs : id \in tree.tombs \cup S
      BY <2>1, <2>2, <2>3, <2>4, PurgedTogether
    <2>6. QED
      BY <2>5 DEF S
  <1>3. QED
    BY <1>1, <1>2

(* The trees of the save that is ahead; and what an operation removes, no   *)
(* later one is about.                                                     *)
LEMMA OutcomeSteps ==
  ASSUME BinsLast, Current, IsVault(file), AllTyped(chg), Outcome.ok
  PROVE  \E f : /\ f[0] = file /\ f[Len(red)] = Outcome.tree
                /\ \A n \in 0 .. Len(red) : /\ Follows(file, f[n], Past(red, n))
                                            /\ Arrives(file, f[n], Past(red, n))
                /\ \A n \in 1 .. Len(red) :
                     /\ Performs(f[n - 1], f[n], red[n])
                     /\ red[n].kind \in CreateKinds \/ red[n].target \in Live(f[n - 1])
                     /\ \A k \in 1 .. Len(red) :
                          k > n => red[k].kind \in CreateKinds \/ red[k].target \notin f[n].tombs
  <1>1. PICK last \in Nat : last = Len(red) /\ DOMAIN red = 1 .. last /\ Due(file, red)
    BY ReducedIsDue
  <1>2. PICK f : /\ f[0] = file /\ f[last] = Outcome.tree
                 /\ \A n \in 0 .. last : /\ Follows(file, f[n], Past(red, n))
                                         /\ Arrives(file, f[n], Past(red, n))
                 /\ \A n \in 1 .. last : /\ Performs(f[n - 1], f[n], red[n])
                                         /\ red[n].kind \in CreateKinds \/ red[n].target \in Live(f[n - 1])
    BY <1>1, SaveSteps DEF Outcome
  <1>3. \A b \in 0 .. last : \A a \in 0 .. b : f[a].tombs \subseteq f[b].tombs
    <2> DEFINE Good == {b \in Nat : b <= last => \A a \in 0 .. b : f[a].tombs \subseteq f[b].tombs}
    <2>1. 0 \in Good
      OBVIOUS
    <2>2. ASSUME NEW b \in Nat, b \in Good PROVE b + 1 \in Good
      <3> SUFFICES ASSUME b + 1 <= last, NEW a \in 0 .. b + 1 PROVE f[a].tombs \subseteq f[b + 1].tombs
        OBVIOUS
      <3>1. b + 1 \in 1 .. last /\ (b + 1) - 1 = b
        OBVIOUS
      <3>2. f[b].tombs \subseteq f[b + 1].tombs
        BY <1>2, <3>1 DEF Performs
      <3>3. a \in 0 .. b => f[a].tombs \subseteq f[b].tombs
        BY <2>2
      <3>4. a \in 0 .. b \/ a = b + 1
        OBVIOUS
      <3>5. QED
        BY <3>2, <3>3, <3>4
    <2> HIDE DEF Good
    <2>3. Nat \subseteq Good
      BY <2>1, <2>2, CountingUp
    <2>4. QED
      BY <2>3 DEF Good
  <1>4. ASSUME NEW n \in 1 .. last, NEW k \in 1 .. last, k > n
        PROVE  red[k].kind \in CreateKinds \/ red[k].target \notin f[n].tombs
    <2>1. k - 1 \in 0 .. last /\ n \in 0 .. k - 1
      BY <1>4
    <2>2. f[n].tombs \subseteq f[k - 1].tombs
      BY <1>3, <2>1
    <2>3. red[k].kind \in CreateKinds \/ red[k].target \in Live(f[k - 1])
      BY <1>2, <2>1
    <2>4. IsVault(f[k - 1])
      BY <1>2, <2>1 DEF Follows
    <2>5. QED
      BY <2>2, <2>3, <2>4 DEF IsVault
  <1>5. QED
    BY <1>1, <1>2, <1>4

(* So what a save removes was marked as going, all of it.                  *)
LEMMA GoneIsMarked ==
  ASSUME BinsLast, Current, IsVault(file), AllTyped(chg), Whereabouts(file, chg.ops),
         ~EntryMovedToRoot, ~StaleReference, ~MoveCancelled, Outcome.ok
  PROVE  \A id \in DOMAIN view \cap Outcome.tree.tombs : OnItsWayOut(id)
  <1>0. Len(red) \in Nat
    BY ReducedIsDue
  <1>1. PICK last \in Nat : last = Len(red)
    BY <1>0
  <1>2. PICK f : /\ f[0] = file /\ f[last] = Outcome.tree
                 /\ \A n \in 0 .. last : /\ Follows(file, f[n], Past(red, n))
                                         /\ Arrives(file, f[n], Past(red, n))
                 /\ \A n \in 1 .. last :
                      /\ Performs(f[n - 1], f[n], red[n])
                      /\ \A k \in 1 .. last :
                           k > n => red[k].kind \in CreateKinds \/ red[k].target \notin f[n].tombs
    BY <1>1, OutcomeSteps
  <1> DEFINE Marked(n) == \A id \in DOMAIN view \cap f[n].tombs : OnItsWayOut(id)
             Good == {n \in Nat : n <= last => Marked(n)}
  <1>3. Marked(0)
    <2>1. DOMAIN view \cap file.tombs = {}
      <3>1. \A t \in Targets(OfKind(chg.ops, CreateKinds)) : t \notin file.tombs
        BY DEF Targets, OfKind, Current, Sane, Fits
      <3>2. QED
        BY <3>1, RowsShown DEF IsVault
    <2>2. QED
      BY <1>2, <2>1
  <1>4. ASSUME NEW n \in 1 .. last, Marked(n - 1) PROVE Marked(n)
    <2>1. PICK tree, after : tree = f[n - 1] /\ after = f[n]
      OBVIOUS
    <2>2. n - 1 \in 0 .. last
      OBVIOUS
    <2>3. /\ Follows(file, tree, Past(red, n - 1)) /\ Arrives(file, tree, Past(red, n - 1))
          /\ Performs(tree, after, red[n])
          /\ \A k \in 1 .. last : k > n => red[k].kind \in CreateKinds \/ red[k].target \notin after.tombs
      BY <1>2, <2>1, <2>2
    <2>4. n \in 1 .. Len(red) /\ \A id \in DOMAIN view \cap tree.tombs : OnItsWayOut(id)
      BY <1>1, <1>4, <2>1
    <2>5. \A id \in DOMAIN view \cap after.tombs : OnItsWayOut(id)
      BY <1>1, <2>3, <2>4, PurgedIsMarked
    <2>6. QED
      BY <2>1, <2>5
  <1> HIDE DEF Marked
  <1>5. 0 \in Good
    BY <1>3
  <1>6. ASSUME NEW n \in Nat, n \in Good PROVE n + 1 \in Good
    <2> SUFFICES ASSUME n + 1 <= last PROVE Marked(n + 1)
      OBVIOUS
    <2>1. n + 1 \in 1 .. last /\ (n + 1) - 1 = n /\ n <= last
      OBVIOUS
    <2>2. QED
      BY <1>4, <1>6, <2>1
  <1> HIDE DEF Good
  <1>7. last \in Good
    BY <1>5, <1>6, CountingUp
  <1>8. Marked(last)
    BY <1>7 DEF Good
  <1>9. QED
    BY <1>2, <1>8 DEF Marked

(* And what is not marked is written as it is shown.                       *)
LEMMA ShownIsWritten ==
  ASSUME BinsLast, Current, IsVault(file), AllTyped(chg), Whereabouts(file, chg.ops),
         ~EntryMovedToRoot, ~StaleReference, ~MoveCancelled, Outcome.ok,
         NEW id \in DOMAIN view, ~OnItsWayOut(id)
  PROVE  id \in Written /\ Nodes[id].data = view[id].data /\ Nodes[id].home = Resolve(view[id].home)
  <1>1. PICK tree : /\ tree = Outcome.tree
                    /\ Follows(file, tree, Members(red)) /\ Arrives(file, tree, Members(red))
    BY ReducedIsDue, SaveFollows DEF Outcome
  <1>2. /\ id \in (Live(file) \ {Root}) \cup Targets(OfKind(Members(red), CreateKinds))
        /\ id \notin tree.tombs
    BY <1>1, GoneIsMarked, RowsShown
  <1>3. id \in Live(tree)
    <2>1. Targets(OfKind(Members(red), CreateKinds)) \subseteq Targets(Members(red))
      BY DEF Targets, OfKind
    <2>2. QED
      BY <1>1, <1>2, <2>1 DEF Follows, Arrives
  <1>4. tree.node[id].home = Resolve(view[id].home)
    <2>1. StagedDeletion(id) = {}
      BY DEF OnItsWayOut
    <2>2. QED
      BY <1>1, <1>3, <2>1, ShownWhereItIs
  <1>5. tree.node[id].data = view[id].data
    <2>1. ASSUME NEW w \in Members(red), w.kind \in Rewrites, w.target = id
          PROVE  tree.node[id].data = view[id].data
      <3>1. view[id].data = Says(w)
        BY <2>1, RowDataIs
      <3>2. tree.node[id].data = Says(w)
        BY <1>1, <1>3, <2>1 DEF Arrives
      <3>3. QED
        BY <3>1, <3>2
    <2>2. CASE id \in Targets(OfKind(Members(red), Rewrites))
      BY <2>1, <2>2 DEF Targets, OfKind
    <2>3. CASE id \notin Targets(OfKind(Members(red), Rewrites))
      <3>1. ASSUME NEW c \in Members(red), c.kind \in CreateKinds, c.target = id
            PROVE  tree.node[id].data = view[id].data
        <4>1. view[id].data = Says(c)
          BY <2>3, <3>1, RowDataIs
        <4>2. tree.node[id].data = Says(c)
          BY <1>1, <1>3, <2>3, <3>1 DEF Arrives
        <4>3. QED
          BY <4>1, <4>2
      <3>2. CASE id \in Targets(OfKind(Members(red), CreateKinds))
        BY <3>1, <3>2 DEF Targets, OfKind
      <3>3. CASE id \notin Targets(OfKind(Members(red), CreateKinds))
        <4>1. view[id].data = file.node[id].data
          BY <2>3, <3>3, RowDataIs
        <4>2. tree.node[id].data = file.node[id].data
          BY <1>1, <1>2, <1>3, <2>3, <3>3 DEF Arrives
        <4>3. QED
          BY <4>1, <4>2
      <3>4. QED
        BY <3>2, <3>3
    <2>4. QED
      BY <2>2, <2>3
  <1>6. QED
    BY <1>1, <1>3, <1>4, <1>5 DEF Written, Nodes

(* What the reader approved is what is written: whatever the projection     *)
(* shows and does not mark as going is in the file after the save, in the   *)
(* folder it was shown in and with the content it was shown with, however   *)
(* it was staged; and what the save removes besides, the inside of a folder *)
(* that goes, was marked with it.  (Where the save goes through, and but    *)
(* for the three cases that ReviewIsTruth names.)                          *)
THEOREM WrittenAsReviewed ==
  ASSUME BinsLast
  PROVE  Spec => []ReviewIsTruth
  <1>1. Init => Settled /\ Whereabouts(file, chg.ops)
    BY SettledInit, WhereNothing DEF Init, EmptySet
  <1>2. Settled /\ Whereabouts(file, chg.ops) /\ [Next]_vars => Settled' /\ Whereabouts(file, chg.ops)'
    BY SettledStep, WhereStep DEF Settled
  <1>3. Settled /\ Whereabouts(file, chg.ops) => ReviewIsTruth
    BY ShownIsWritten DEF Settled, ReviewIsTruth
  <1>4. QED
    BY <1>1, <1>2, <1>3, PTL DEF Spec
-----------------------------------------------------------------------------
(* What is deleted for good and what is put in the recycle bin.            *)

(* The folders above a row are folders.                                    *)
LEMMA FoldersAbove ==
  ASSUME Current, IsVault(file), AllTyped(chg), NEW id
  PROVE  Chain(HomeOf(id)) \cap Entries = {}
  <1>1. IsFiniteSet(DOMAIN view) /\ None \notin DOMAIN view
    BY RowsAreFinite
  <1>2. PICK S : S = Homes \ {None}
    OBVIOUS
  <1>3. \A f : HomeOf(f) \in S \cup {None}
    BY <1>2, RowsAreTyped
  <1>4. Chain(HomeOf(id)) \subseteq S
    BY <1>1, <1>3, ChainStays
  <1>5. S \cap Entries = {}
    BY <1>2, StagingAssumption DEF Homes
  <1>6. QED
    BY <1>4, <1>5

(* What goes for good goes.                                                *)
LEMMA ForGoodIsOut ==
  ASSUME Current, IsVault(file), AllTyped(chg), NEW id, GoingForGood(id)
  PROVE  /\ OnItsWayOut(id)
         /\ \/ \E d \in StagedDeletion(id) : d.perm
            \/ InDoomedFolder(id)
  <1>1. \A r \in Members(red) : Typed(r)
    BY NetIsTyped
  <1>2. PICK d \in Members(red) : /\ d.kind \in DeleteKinds /\ d.perm
                                  /\ d.target \in Chain(HomeOf(id)) \cup {id}
    BY DEF GoingForGood, Targets, Reduced, OfKind
  <1>3. CASE d.target = id
    <2>1. d \in StagedDeletion(id)
      BY <1>2, <1>3 DEF StagedDeletion, Staged, OfKind, On
    <2>2. QED
      BY <1>2, <2>1 DEF OnItsWayOut
  <1>4. CASE d.target \in Chain(HomeOf(id))
    <2>1. d.target \notin Entries
      BY <1>4, FoldersAbove
    <2>2. d.kind = "DeleteGroup"
      BY <1>1, <1>2, <2>1 DEF Typed, DeleteKinds
    <2>3. InDoomedFolder(id)
      BY <1>2, <1>4, <2>2 DEF InDoomedFolder, DoomedFolders, Targets, OfKind
    <2>4. QED
      BY <2>3 DEF OnItsWayOut
  <1>5. QED
    BY <1>2, <1>3, <1>4

(* And what is in it with it.                                              *)
LEMMA ForGoodTogether ==
  ASSUME Current, IsVault(file), AllTyped(chg),
         NEW id \in DOMAIN view, view[id].home \in DOMAIN view, GoingForGood(view[id].home)
  PROVE  GoingForGood(id)
  <1>1. IsFiniteSet(DOMAIN view) /\ None \notin DOMAIN view
    BY RowsAreFinite
  <1>2. PICK folder : folder = view[id].home /\ folder \in DOMAIN view /\ HomeOf(id) = folder
    BY DEF HomeOf
  <1>3. folder \in Chain(folder)
    BY <1>1, <1>2 DEF Chain
  <1>4. \A f \in Chain(folder) : HomeOf(f) \in Chain(folder) \cup {None}
    BY <1>1, <1>2, ChainIsClosed
  <1>5. HomeOf(folder) \in Chain(folder) \cup {None}
    BY <1>3, <1>4
  <1>6. Chain(HomeOf(folder)) \subseteq Chain(folder)
    BY <1>1, <1>4, <1>5, ChainStays
  <1>7. QED
    BY <1>2, <1>3, <1>6 DEF GoingForGood

(* The bin the file has stays, where the save may be judged by it.         *)
LEMMA BinIsSpared ==
  ASSUME Current, IsVault(file), AllTyped(chg), ~BinItselfDeleted, file.bin \in DOMAIN view
  PROVE  ~OnItsWayOut(file.bin)
  <1>1. /\ None \notin DOMAIN view
        /\ \A r \in Members(red) : Typed(r)
    BY RowsAreFinite, NetIsTyped
  <1>2. PICK bin : bin = file.bin /\ bin \in DOMAIN view /\ bin # None /\ bin \notin Entries
    BY <1>1, StagingAssumption DEF IsVault
  <1>3. \A d \in Members(red) : d.kind = "DeleteGroup" => bin \notin Under(d.target) \cup {d.target}
    BY <1>2 DEF BinItselfDeleted, Reduced, OfKind
  <1>4. StagedDeletion(bin) = {}
    <2> SUFFICES ASSUME NEW d \in Members(red), d.kind \in DeleteKinds, d.target = bin PROVE FALSE
      BY DEF StagedDeletion, Staged, OfKind, On
    <2>1. d.kind = "DeleteGroup"
      BY <1>1, <1>2 DEF Typed, DeleteKinds
    <2>2. QED
      BY <1>3, <2>1
  <1>5. ~InDoomedFolder(bin)
    <2> SUFFICES ASSUME NEW d \in Members(red), d.kind = "DeleteGroup", d.target \in Chain(view[bin].home)
                 PROVE  FALSE
      BY <1>2 DEF InDoomedFolder, DoomedFolders, Targets, OfKind, HomeOf
    <2>1. bin \in Under(d.target)
      BY <1>2 DEF Under
    <2>2. QED
      BY <1>3, <2>1
  <1>6. QED
    BY <1>2, <1>4, <1>5 DEF OnItsWayOut

(* Where the deletions so far have left things: in the one bin there is, or *)
(* recorded as gone, and nothing else is gone.                             *)
Binned(tree, past) ==
  /\ tree.bin = file.bin \/ tree.bin \notin Live(file)
  /\ \A d \in OfKind(past, DeleteKinds) :
       IF d.perm THEN d.target \in tree.tombs
       ELSE /\ tree.bin \in Live(tree)
            /\ d.target \in Live(tree) => tree.node[d.target].home = tree.bin
  /\ \A id \in DOMAIN view \cap tree.tombs : GoingForGood(id)

(* The bin of a save is shown only if it is the one the file had.          *)
LEMMA ShownBin ==
  ASSUME Current, NEW tree, IsVault(tree), tree.bin = file.bin \/ tree.bin \notin Live(file),
         tree.bin \in DOMAIN view, None \notin DOMAIN view
  PROVE  tree.bin = file.bin
  <1>1. /\ DOMAIN view = (Live(file) \ {Root}) \cup Targets(OfKind(Members(red), CreateKinds))
        /\ Targets(OfKind(Members(red), CreateKinds)) \subseteq Targets(OfKind(chg.ops, CreateKinds))
    BY RowsShown
  <1>2. \A t \in Targets(OfKind(chg.ops, CreateKinds)) : t \notin Bins
    BY DEF Targets, OfKind, Current, Sane, Fits
  <1>3. tree.bin \in Bins
    BY DEF IsVault
  <1>4. QED
    BY <1>1, <1>2, <1>3

(* While a save has come that far, the bin stays where it is.              *)
LEMMA BinStays ==
  ASSUME Current, IsVault(file), AllTyped(chg), Whereabouts(file, chg.ops),
         ~EntryMovedToRoot, ~StaleReference, ~MoveCancelled, ~BinItselfDeleted,
         NEW n \in 1 .. Len(red), NEW tree, NEW after,
         Follows(file, tree, Past(red, n - 1)), Arrives(file, tree, Past(red, n - 1)),
         Performs(tree, after, red[n]),
         \A k \in 1 .. Len(red) : k > n => red[k].kind \in CreateKinds \/ red[k].target \notin after.tombs,
         \A id \in DOMAIN view \cap tree.tombs : OnItsWayOut(id),
         tree.bin = file.bin \/ tree.bin \notin Live(file), tree.bin \in Live(tree)
  PROVE  after.bin = tree.bin /\ tree.bin \in Live(after)
  <1>1. /\ None \notin DOMAIN view /\ Root \notin DOMAIN view
        /\ Len(red) \in Nat /\ DOMAIN red = 1 .. Len(red)
    BY RowsAreFinite, ReducedIsDue
  <1>2. Past(red, n - 1) \in SUBSET Members(red) /\ red[n] \in Members(red)
    BY <1>1 DEF Members, Past
  <1>3. IsVault(tree) /\ IsVault(after) /\ Live(tree) \subseteq Live(after) \cup after.tombs
    BY DEF Follows, Performs
  <1>4. after.bin = tree.bin
    BY DEF Performs, Discards
  <1>5. tree.bin # None /\ tree.bin # Root /\ tree.bin \in Bins
    <2>1. Live(tree) \subseteq Ids \cup {Root} /\ tree.bin \in Bins \cup {None}
      BY <1>3 DEF IsVault
    <2>2. QED
      BY <2>1, StagingAssumption DEF Ids
  <1>6. CASE tree.bin \in DOMAIN view
    <2>1. tree.bin = file.bin
      BY <1>1, <1>3, <1>6, ShownBin
    <2>2. ~OnItsWayOut(tree.bin)
      BY <1>6, <2>1, BinIsSpared
    <2>3. tree.bin \notin after.tombs
      BY <1>6, <2>2, PurgedIsMarked
    <2>4. QED
      BY <1>3, <1>4, <2>3
  <1>7. CASE tree.bin \notin DOMAIN view
    <2>1. tree.node[tree.bin].home = Root
      BY <1>2, <1>5, <1>7, WrittenIsShown
    <2> SUFFICES ASSUME tree.bin \notin Live(after) PROVE FALSE
      BY <1>4
    <2>2. PICK op : op = red[n] /\ op.kind \in DeleteKinds
      BY DEF Performs, Places
    <2>3. op.target \in DOMAIN view
      BY <1>2, <2>2, DeletedIsShown
    <2>4. tree.bin \in Subtree(tree.node, op.target)
      BY <1>7, <2>2, <2>3 DEF Performs, Places
    <2>5. PICK S : S = (DOMAIN tree.node \cup {op.target}) \ {tree.bin, Root}
      OBVIOUS
    <2>6. IsFiniteSet(DOMAIN tree.node) /\ op.target \in S
      BY <1>1, <1>3, <1>7, <2>3, <2>5 DEF IsVault, Live
    <2>7. \A id \in DOMAIN tree.node : tree.node[id].home \in S => id \in S
      <3> SUFFICES ASSUME NEW id \in DOMAIN tree.node, tree.node[id].home \in S PROVE id \in S
        OBVIOUS
      <3>1. id # tree.bin
        BY <2>1, <2>5
      <3>2. None \notin Live(tree) /\ tree.node[Root].home = None
        BY <1>3, StagingAssumption DEF IsVault, Ids
      <3>3. id # Root
        BY <1>1, <2>3, <2>5, <3>2 DEF Live
      <3>4. QED
        BY <2>5, <3>1, <3>3
    <2>8. Subtree(tree.node, op.target) \subseteq S
      BY <2>6, <2>7, SubtreeStays
    <2>9. QED
      BY <2>4, <2>5, <2>8
  <1>8. QED
    BY <1>6, <1>7

(* One operation removes for good what is shown as going for good, and      *)
(* nothing else.                                                           *)
LEMMA PurgedIsForGood ==
  ASSUME Current, IsVault(file), AllTyped(chg), Whereabouts(file, chg.ops),
         ~EntryMovedToRoot, ~StaleReference, ~MoveCancelled, ~BinItselfDeleted, ~DeletionInsideDeletion,
         NEW n \in 1 .. Len(red), NEW tree, NEW after,
         Follows(file, tree, Past(red, n - 1)), Arrives(file, tree, Past(red, n - 1)),
         Performs(tree, after, red[n]),
         \A k \in 1 .. Len(red) : k > n => red[k].kind \in CreateKinds \/ red[k].target \notin after.tombs,
         Binned(tree, Past(red, n - 1))
  PROVE  \A id \in DOMAIN view \cap after.tombs : GoingForGood(id)
  <1>1. /\ None \notin DOMAIN view /\ Root \notin DOMAIN view
        /\ Len(red) \in Nat /\ DOMAIN red = 1 .. Len(red) /\ Due(file, red)
    BY RowsAreFinite, ReducedIsDue
  <1>2. PICK op : op = red[n] /\ op \in Members(red)
    BY <1>1 DEF Members
  <1>3. IsVault(tree) /\ IsVault(after)
    BY DEF Follows, Performs
  <1>4. CASE op.kind \in DeleteKinds /\ op.perm
    <2> DEFINE S == {id \in DOMAIN view : GoingForGood(id)}
    <2>1. op.target \in S
      <3>1. op.target \in DOMAIN view
        BY <1>2, <1>4, DeletedIsShown
      <3>2. op.target \in Targets({d \in Reduced(DeleteKinds) : d.perm})
        BY <1>2, <1>4 DEF Targets, Reduced, OfKind
      <3>3. QED
        BY <3>1, <3>2 DEF GoingForGood
    <2>2. ASSUME NEW id \in DOMAIN view, id \in Live(tree), StagedDeletion(id) # {}, tree.node[id].home \in S
          PROVE  id \in S
      <3>1. PICK d \in Members(red) : d.kind \in DeleteKinds /\ d.target = id
        BY <2>2 DEF StagedDeletion, Staged, OfKind, On
      <3>2. CASE d.perm
        <4>1. id \in Targets({r \in Reduced(DeleteKinds) : r.perm})
          BY <3>1, <3>2 DEF Targets, Reduced, OfKind
        <4>2. QED
          BY <4>1 DEF GoingForGood
      <3>3. CASE ~d.perm /\ d \in Past(red, n - 1)
        <4>1. tree.node[id].home = tree.bin
          BY <2>2, <3>1, <3>3 DEF Binned, OfKind
        <4>2. tree.bin \in DOMAIN view /\ GoingForGood(tree.bin)
          BY <2>2, <4>1
        <4>3. tree.bin = file.bin
          BY <1>1, <1>3, <4>2, ShownBin DEF Binned
        <4>4. FALSE
          BY <4>2, <4>3, BinIsSpared, ForGoodIsOut
        <4>5. QED
          BY <4>4
      <3>4. CASE d \notin Past(red, n - 1)
        <4>1. PICK k \in 1 .. Len(red) : d = red[k]
          BY <1>1, <3>1 DEF Members
        <4>2. ASSUME NEW w \in Members(red), w.target = id, w.kind \in WayOut PROVE w = d
          <5>1. PICK j \in 1 .. Len(red) : w = red[j]
            BY <1>1, <4>2 DEF Members
          <5>2. d.kind \in WayOut
            BY <3>1 DEF WayOut
          <5>3. ~(j < k) /\ ~(k < j)
            BY <1>1, <3>1, <4>1, <4>2, <5>1, <5>2 DEF Due
          <5>4. QED
            BY <1>1, <4>1, <5>1, <5>3
        <4>3. id \notin Targets(OfKind(Past(red, n - 1), WayOut))
          <5>1. Past(red, n - 1) \subseteq Members(red)
            BY <1>1 DEF Members, Past
          <5>2. QED
            BY <3>4, <4>2, <5>1 DEF Targets, OfKind
        <4>4. id \in Live(file) \ {Root}
          BY <3>1, DeletedIsShown
        <4>5. tree.node[id].home = file.node[id].home
          BY <2>2, <4>3, <4>4 DEF Follows
        <4>6. view[id].home = file.node[id].home
          <5>1. id \notin Targets(OfKind(Members(red), MoveKinds))
            BY <3>1, <4>2 DEF Targets, OfKind, WayOut, MoveKinds, DeleteKinds
          <5>2. id \notin Targets(OfKind(Members(red), CreateKinds))
            <6>1. Targets(OfKind(Members(red), CreateKinds)) \subseteq Targets(OfKind(chg.ops, CreateKinds))
              BY RowsShown
            <6>2. \A t \in Targets(OfKind(chg.ops, CreateKinds)) : t \notin Live(file)
              BY DEF Targets, OfKind, Current, Sane, Fits
            <6>3. QED
              BY <4>4, <6>1, <6>2
          <5>3. QED
            BY <5>1, <5>2, RowHomeIs
        <4>7. view[id].home \in DOMAIN view /\ GoingForGood(view[id].home)
          BY <2>2, <4>5, <4>6
        <4>8. InDoomedFolder(id)
          BY <4>7, ForGoodIsOut, OutWithItsFolder
        <4>9. QED
          BY <3>1, <4>8 DEF DeletionInsideDeletion, Reduced, OfKind
      <3>5. QED
        BY <3>2, <3>3, <3>4
    <2>3. \A id \in DOMAIN view : view[id].home \in S => id \in S
      BY ForGoodTogether
    <2>4. S \in SUBSET DOMAIN view
      OBVIOUS
    <2>5. \A id \in DOMAIN view \cap Live(tree) :
            StagedDeletion(id) # {} /\ tree.node[id].home \in S => id \in S
      BY <2>2
    <2>6. DOMAIN view \cap tree.tombs \subseteq S
      BY DEF Binned
    <2>7. \A id \in S : GoingForGood(id)
      OBVIOUS
    <2> HIDE DEF S
    <2>8. \A id \in DOMAIN view \cap after.tombs : id \in tree.tombs \cup S
      BY <1>2, <2>1, <2>3, <2>4, <2>5, PurgedTogether
    <2>9. QED
      BY <2>6, <2>7, <2>8
  <1>5. CASE ~(op.kind \in DeleteKinds /\ op.perm)
    <2>1. Live(tree) \subseteq Live(after)
      <3>1. CASE op.kind \notin DeleteKinds
        BY <1>2, <3>1 DEF Performs, Places
      <3>2. CASE op.kind \in DeleteKinds
        <4>1. ~(op.perm \/ ~BinEnabled)
          BY <1>2, <1>5, <3>2, DeletedIsShown
        <4>2. QED
          BY <1>2, <3>2, <4>1 DEF Performs, Discards
      <3>3. QED
        BY <3>1, <3>2
    <2>2. after.tombs \subseteq tree.tombs
      BY <1>3, <2>1 DEF Performs, Places, IsVault
    <2>3. QED
      BY <2>2 DEF Binned
  <1>6. QED
    BY <1>4, <1>5

(* One operation of a save keeps to it.                                    *)
LEMMA BinnedOne ==
  ASSUME Current, IsVault(file), AllTyped(chg), Whereabouts(file, chg.ops),
         ~EntryMovedToRoot, ~StaleReference, ~MoveCancelled, ~BinItselfDeleted, ~DeletionInsideDeletion,
         NEW n \in 1 .. Len(red), NEW tree, NEW after,
         Follows(file, tree, Past(red, n - 1)), Arrives(file, tree, Past(red, n - 1)),
         Performs(tree, after, red[n]),
         red[n].kind \in CreateKinds \/ red[n].target \in Live(tree),
         \A k \in 1 .. Len(red) : k > n => red[k].kind \in CreateKinds \/ red[k].target \notin after.tombs,
         Binned(tree, Past(red, n - 1))
  PROVE  Binned(after, Past(red, n))
  <1>1. Len(red) \in Nat /\ DOMAIN red = 1 .. Len(red) /\ Due(file, red)
    BY ReducedIsDue
  <1>2. PICK op : op = red[n] /\ op \in Members(red)
    BY <1>1 DEF Members
  <1>3. IsVault(tree) /\ IsVault(after)
    BY DEF Follows, Performs
  <1>4. after.bin = file.bin \/ after.bin \notin Live(file)
    <2>1. Live(file) \subseteq Live(tree) \cup tree.tombs
      BY DEF Follows
    <2>2. after.bin = tree.bin \/ after.bin \notin Live(tree) \cup tree.tombs
      BY DEF Performs, Discards
    <2>3. QED
      BY <2>1, <2>2 DEF Binned
  <1>5. tree.bin \in Live(tree) => after.bin = tree.bin /\ tree.bin \in Live(after)
    <2>1. \A id \in DOMAIN view \cap tree.tombs : OnItsWayOut(id)
      BY ForGoodIsOut DEF Binned
    <2>2. QED
      BY <2>1, BinStays DEF Binned
  <1>6. ASSUME NEW d \in Past(red, n - 1), d.kind \in DeleteKinds
        PROVE  IF d.perm THEN d.target \in after.tombs
               ELSE /\ after.bin \in Live(after)
                    /\ d.target \in Live(after) => after.node[d.target].home = after.bin
    <2>1. CASE d.perm
      BY <1>6, <2>1 DEF Binned, OfKind, Performs
    <2>2. CASE ~d.perm
      <3>1. /\ tree.bin \in Live(tree)
            /\ d.target \in Live(tree) => tree.node[d.target].home = tree.bin
        BY <1>6, <2>2 DEF Binned, OfKind
      <3>2. ASSUME d.target \in Live(after) PROVE after.node[d.target].home = after.bin
        <4>1. d.target \in Live(tree)
          <5>1. d.target \in Live(tree) \cup tree.tombs
            BY <1>6 DEF Arrives, Targets
          <5>2. tree.tombs \subseteq after.tombs
            BY DEF Performs
          <5>3. QED
            BY <1>3, <3>2, <5>1, <5>2 DEF IsVault
        <4>2. d.target # op.target \/ op.kind \notin WayOut
          <5>1. PICK i \in 1 .. n - 1 : d = red[i]
            BY <1>6 DEF Past
          <5>2. i \in 1 .. Len(red) /\ i < n /\ d.kind \in WayOut
            BY <1>1, <1>6 DEF WayOut
          <5>3. QED
            BY <1>1, <1>2, <5>1, <5>2 DEF Due
        <4>3. after.node[d.target].home = tree.node[d.target].home
          BY <1>2, <3>2, <4>1, <4>2 DEF Performs
        <4>4. QED
          BY <1>5, <3>1, <4>1, <4>3
      <3>3. QED
        BY <1>5, <2>2, <3>1, <3>2
    <2>3. QED
      BY <2>1, <2>2
  <1>7. ASSUME op.kind \in DeleteKinds
        PROVE  IF op.perm THEN op.target \in after.tombs
               ELSE /\ after.bin \in Live(after)
                    /\ op.target \in Live(after) => after.node[op.target].home = after.bin
    <2>1. op.perm \/ BinEnabled
      BY <1>2, <1>7, DeletedIsShown
    <2>2. CASE op.perm
      <3>1. op.target \notin Live(after)
        BY <1>2, <1>7, <2>2 DEF Performs, Discards
      <3>2. op.target \in Live(tree)
        BY <1>2, <1>7 DEF DeleteKinds, CreateKinds
      <3>3. QED
        BY <2>2, <3>1, <3>2 DEF Performs
    <2>3. CASE ~op.perm
      BY <1>2, <1>7, <2>1, <2>3 DEF Performs, Discards
    <2>4. QED
      BY <2>2, <2>3
  <1>8. \A d \in Past(red, n) : d \in Past(red, n - 1) \/ d = op
    <2> SUFFICES ASSUME NEW i \in 1 .. n, red[i] \notin Past(red, n - 1) PROVE red[i] = op
      BY DEF Past
    <2>1. ~(i \in 1 .. n - 1)
      BY DEF Past
    <2>2. i = n
      BY <1>1, <2>1
    <2>3. QED
      BY <1>2, <2>2
  <1>9. \A id \in DOMAIN view \cap after.tombs : GoingForGood(id)
    BY PurgedIsForGood
  <1>10. ASSUME NEW d \in OfKind(Past(red, n), DeleteKinds)
         PROVE  IF d.perm THEN d.target \in after.tombs
                ELSE /\ after.bin \in Live(after)
                     /\ d.target \in Live(after) => after.node[d.target].home = after.bin
    <2>1. d.kind \in DeleteKinds /\ (d \in Past(red, n - 1) \/ d = op)
      BY <1>8 DEF OfKind
    <2>2. CASE d \in Past(red, n - 1)
      BY <1>6, <2>1, <2>2
    <2>3. CASE d = op
      BY <1>7, <2>1, <2>3
    <2>4. QED
      BY <2>1, <2>2, <2>3
  <1>11. QED
    BY <1>4, <1>9, <1>10 DEF Binned

(* And so does the save.                                                   *)
LEMMA SaveBins ==
  ASSUME BinsLast, Current, IsVault(file), AllTyped(chg), Whereabouts(file, chg.ops),
         ~EntryMovedToRoot, ~StaleReference, ~MoveCancelled, ~BinItselfDeleted, ~DeletionInsideDeletion,
         Outcome.ok
  PROVE  Binned(Outcome.tree, Members(red))
  <1>0. Len(red) \in Nat
    BY ReducedIsDue
  <1>1. PICK last \in Nat : last = Len(red)
    BY <1>0
  <1>2. PICK f : /\ f[0] = file /\ f[last] = Outcome.tree
                 /\ \A n \in 0 .. last : /\ Follows(file, f[n], Past(red, n))
                                         /\ Arrives(file, f[n], Past(red, n))
                 /\ \A n \in 1 .. last :
                      /\ Performs(f[n - 1], f[n], red[n])
                      /\ red[n].kind \in CreateKinds \/ red[n].target \in Live(f[n - 1])
                      /\ \A k \in 1 .. last :
                           k > n => red[k].kind \in CreateKinds \/ red[k].target \notin f[n].tombs
    BY <1>1, OutcomeSteps
  <1> DEFINE Far(n) == Binned(f[n], Past(red, n))
             Good == {n \in Nat : n <= last => Far(n)}
  <1>3. Far(0)
    <2>1. DOMAIN view \cap file.tombs = {}
      <3>1. \A t \in Targets(OfKind(chg.ops, CreateKinds)) : t \notin file.tombs
        BY DEF Targets, OfKind, Current, Sane, Fits
      <3>2. QED
        BY <3>1, RowsShown DEF IsVault
    <2>2. Past(red, 0) = {}
      BY DEF Past
    <2>3. Binned(file, {})
      BY <2>1 DEF Binned, OfKind
    <2>4. QED
      BY <1>2, <2>2, <2>3
  <1>4. ASSUME NEW n \in 1 .. last, Far(n - 1) PROVE Far(n)
    <2>1. PICK tree, after : tree = f[n - 1] /\ after = f[n]
      OBVIOUS
    <2>2. n - 1 \in 0 .. last
      OBVIOUS
    <2>3. /\ Follows(file, tree, Past(red, n - 1)) /\ Arrives(file, tree, Past(red, n - 1))
          /\ Performs(tree, after, red[n])
          /\ red[n].kind \in CreateKinds \/ red[n].target \in Live(tree)
          /\ \A k \in 1 .. last : k > n => red[k].kind \in CreateKinds \/ red[k].target \notin after.tombs
      BY <1>2, <2>1, <2>2
    <2>4. n \in 1 .. Len(red) /\ Binned(tree, Past(red, n - 1))
      BY <1>1, <1>4, <2>1
    <2>5. Binned(after, Past(red, n))
      BY <1>1, <2>3, <2>4, BinnedOne
    <2>6. QED
      BY <2>1, <2>5
  <1> HIDE DEF Far
  <1>5. 0 \in Good
    BY <1>3
  <1>6. ASSUME NEW n \in Nat, n \in Good PROVE n + 1 \in Good
    <2> SUFFICES ASSUME n + 1 <= last PROVE Far(n + 1)
      OBVIOUS
    <2>1. n + 1 \in 1 .. last /\ (n + 1) - 1 = n /\ n <= last
      OBVIOUS
    <2>2. QED
      BY <1>4, <1>6, <2>1
  <1> HIDE DEF Good
  <1>7. last \in Good
    BY <1>5, <1>6, CountingUp
  <1>8. Far(last)
    BY <1>7 DEF Good
  <1>9. Past(red, last) = Members(red)
    BY <1>1, ReducedIsDue DEF Past, Members
  <1>10. QED
    BY <1>2, <1>8, <1>9 DEF Far

(* What goes for good is not written: it is in a folder that is not.       *)
LEMMA ForGoodIsGone ==
  ASSUME BinsLast, Current, IsVault(file), AllTyped(chg), Whereabouts(file, chg.ops),
         ~EntryMovedToRoot, ~StaleReference, ~MoveCancelled, ~BinItselfDeleted, ~DeletionInsideDeletion,
         Outcome.ok, NEW id \in DOMAIN view, GoingForGood(id)
  PROVE  id \notin Written
  <1>1. PICK tree : /\ tree = Outcome.tree /\ Binned(tree, Members(red))
                    /\ Follows(file, tree, Members(red)) /\ Arrives(file, tree, Members(red))
    BY ReducedIsDue, SaveFollows, SaveBins DEF Outcome
  <1>2. /\ IsFiniteSet(DOMAIN view) /\ None \notin DOMAIN view /\ Root \notin DOMAIN view
        /\ IsVault(tree)
    BY <1>1, RowsAreFinite DEF Follows
  <1>3. PICK d \in Members(red) : /\ d.kind \in DeleteKinds /\ d.perm
                                  /\ d.target \in Chain(HomeOf(id)) \cup {id}
    BY DEF GoingForGood, Targets, Reduced, OfKind
  <1>4. \A r \in Members(red) : r.kind \in DeleteKinds /\ r.perm => r.target \notin Live(tree)
    BY <1>1, <1>2 DEF Binned, OfKind, IsVault
  <1> DEFINE Fine(x) == x \in Live(tree) \/ ~GoingForGood(x)
  <1>5. ASSUME NEW x, Fine(x) PROVE HomeOf(x) = None \/ Fine(HomeOf(x))
    <2> SUFFICES ASSUME HomeOf(x) # None PROVE Fine(HomeOf(x))
      OBVIOUS
    <2>1. x \in DOMAIN view /\ HomeOf(x) = view[x].home /\ view[x].home # None
      BY DEF HomeOf
    <2>2. PICK home : home = view[x].home
      OBVIOUS
    <2>3. CASE ~GoingForGood(x)
      <3>1. CASE home \in DOMAIN view
        BY <2>1, <2>2, <2>3, <3>1, ForGoodTogether
      <3>2. CASE home \notin DOMAIN view
        <4> SUFFICES ASSUME GoingForGood(home) PROVE FALSE
          BY <2>1, <2>2
        <4>1. PICK r \in Members(red) : /\ r.kind \in DeleteKinds
                                        /\ r.target \in Chain(HomeOf(home)) \cup {home}
          BY DEF GoingForGood, Targets, Reduced, OfKind
        <4>2. r.target \in DOMAIN view
          BY <4>1, DeletedIsShown
        <4>3. HomeOf(home) = None
          BY <3>2 DEF HomeOf
        <4>4. PICK S : S = {}
          OBVIOUS
        <4>5. Chain(None) \subseteq S
          BY <1>2, <4>4, ChainStays
        <4>6. QED
          BY <3>2, <4>1, <4>2, <4>3, <4>4, <4>5
      <3>3. QED
        BY <3>1, <3>2
    <2>4. CASE x \in Live(tree) /\ GoingForGood(x)
      <3>1. StagedDeletion(x) = {}
        <4> SUFFICES ASSUME NEW r \in StagedDeletion(x) PROVE FALSE
          OBVIOUS
        <4>1. r \in Members(red) /\ r.kind \in DeleteKinds /\ r.target = x
          BY DEF StagedDeletion, Staged, OfKind, On
        <4>2. ~DeletionInsideDeletion => ~InDoomedFolder(x)
          BY <4>1 DEF DeletionInsideDeletion, Reduced, OfKind
        <4>3. PICK s \in StagedDeletion(x) : s.perm
          BY <2>4, <4>2, ForGoodIsOut
        <4>4. s \in Members(red) /\ s.kind \in DeleteKinds /\ s.target = x
          BY DEF StagedDeletion, Staged, OfKind, On
        <4>5. QED
          BY <1>4, <2>4, <4>3, <4>4
      <3>2. tree.node[x].home = Resolve(home)
        BY <1>1, <2>1, <2>2, <2>4, <3>1, ShownWhereItIs
      <3>3. tree.node[x].home \in Live(tree)
        BY <1>2, <2>1, <2>4 DEF IsVault
      <3>4. QED
        BY <2>1, <2>2, <3>2, <3>3 DEF Resolve
    <2>5. QED
      BY <1>5, <2>3, <2>4
  <1>6. GoingForGood(d.target) /\ ~Fine(d.target)
    <2>1. d.target \in Targets({r \in Reduced(DeleteKinds) : r.perm})
      BY <1>3 DEF Targets, Reduced, OfKind
    <2>2. GoingForGood(d.target)
      BY <2>1 DEF GoingForGood
    <2>3. QED
      BY <1>3, <1>4, <2>2
  <1> HIDE DEF Fine
  <1> SUFFICES ASSUME Fine(id) PROVE FALSE
    BY <1>1 DEF Written, Fine
  <1>7. PICK S : S = {x \in Homes : Fine(x)}
    OBVIOUS
  <1>8. \A x : Fine(x) => HomeOf(x) \in S \cup {None}
    BY <1>5, <1>7, RowsAreTyped
  <1>9. Chain(HomeOf(id)) \subseteq S
    BY <1>2, <1>7, <1>8, ChainStays
  <1>10. QED
    BY <1>3, <1>6, <1>7, <1>9

(* And what is on its way out and does not go for good is in the bin.      *)
LEMMA OutIsBinned ==
  ASSUME BinsLast, Current, IsVault(file), AllTyped(chg), Whereabouts(file, chg.ops),
         ~EntryMovedToRoot, ~StaleReference, ~MoveCancelled, ~BinItselfDeleted, ~DeletionInsideDeletion,
         Outcome.ok, NEW id \in DOMAIN view, OnItsWayOut(id), ~GoingForGood(id)
  PROVE  Outcome.tree.bin \in Written /\ id \in Subtree(Nodes, Outcome.tree.bin)
  <1>1. PICK tree : /\ tree = Outcome.tree /\ Binned(tree, Members(red))
                    /\ Follows(file, tree, Members(red)) /\ Arrives(file, tree, Members(red))
    BY ReducedIsDue, SaveFollows, SaveBins DEF Outcome
  <1>2. /\ IsFiniteSet(DOMAIN view) /\ None \notin DOMAIN view /\ Root \notin DOMAIN view
        /\ IsVault(tree) /\ IsFiniteSet(DOMAIN tree.node)
    BY <1>1, RowsAreFinite DEF Follows, IsVault, Live
  <1>3. PICK d \in Members(red) : d.kind \in DeleteKinds /\ d.target \in Chain(HomeOf(id)) \cup {id}
    BY DEF OnItsWayOut, InDoomedFolder, DoomedFolders, StagedDeletion, Staged, OfKind, On, Targets, DeleteKinds
  <1>4. \A r \in Members(red) :
          r.kind \in DeleteKinds /\ ~GoingForGood(r.target) =>
            /\ tree.bin \in Live(tree)
            /\ r.target \in Live(tree) => tree.node[r.target].home = tree.bin
    <2> SUFFICES ASSUME NEW r \in Members(red), r.kind \in DeleteKinds, r.perm PROVE GoingForGood(r.target)
      BY <1>1 DEF Binned, OfKind
    <2>1. r.target \in Targets({s \in Reduced(DeleteKinds) : s.perm})
      BY DEF Targets, Reduced, OfKind
    <2>2. QED
      BY <2>1 DEF GoingForGood
  <1>5. tree.bin \in Live(tree)
    <2>1. ~d.perm
      <3> SUFFICES ASSUME d.perm PROVE FALSE
        OBVIOUS
      <3>1. d.target \in Targets({r \in Reduced(DeleteKinds) : r.perm})
        BY <1>3 DEF Targets, Reduced, OfKind
      <3>2. QED
        BY <1>3, <3>1 DEF GoingForGood
    <2>2. QED
      BY <1>1, <1>3, <2>1 DEF Binned, OfKind
  <1>6. \A x \in DOMAIN view : ~GoingForGood(x) => x \in Live(tree)
    <2>1. DOMAIN view \subseteq Live(file) \cup Targets(Members(red))
      BY RowsShown DEF Targets, OfKind
    <2>2. QED
      BY <1>1, <2>1 DEF Binned, Follows, Arrives
  <1>7. PICK U : U = Subtree(tree.node, tree.bin)
    OBVIOUS
  <1>8. tree.bin \in U /\ \A x \in Live(tree) : tree.node[x].home \in U => x \in U
    BY <1>2, <1>5, <1>7, SubtreeIsInside, SubtreeIsClosed DEF Live
  <1> DEFINE Apart(x) == x \in DOMAIN view => ~GoingForGood(x) /\ x \notin U
  <1>9. ASSUME NEW x, Apart(x), x \in DOMAIN view PROVE StagedDeletion(x) = {}
    <2> SUFFICES ASSUME NEW r \in Members(red), r.kind \in DeleteKinds, r.target = x PROVE FALSE
      BY DEF StagedDeletion, Staged, OfKind, On
    <2>1. tree.node[x].home = tree.bin
      BY <1>4, <1>6, <1>9
    <2>2. QED
      BY <1>6, <1>8, <1>9, <2>1
  <1>10. ASSUME NEW x, Apart(x), HomeOf(x) \in DOMAIN view PROVE Apart(HomeOf(x))
    <2>1. x \in DOMAIN view /\ HomeOf(x) = view[x].home
      BY <1>2, <1>10 DEF HomeOf
    <2>2. PICK home : home = view[x].home /\ home \in DOMAIN view /\ home # None
      BY <1>2, <1>10, <2>1
    <2>3. ~GoingForGood(home)
      BY <1>10, <2>1, <2>2, ForGoodTogether
    <2>4. x \in Live(tree) /\ StagedDeletion(x) = {}
      BY <1>6, <1>9, <1>10, <2>1
    <2>5. tree.node[x].home = Resolve(view[x].home)
      BY <1>1, <2>1, <2>4, ShownWhereItIs
    <2>6. tree.node[x].home = home
      BY <2>2, <2>5 DEF Resolve
    <2>7. home \notin U
      BY <1>8, <1>10, <2>1, <2>4, <2>6
    <2>8. QED
      BY <2>1, <2>2, <2>3, <2>7
  <1> SUFFICES ASSUME id \notin U PROVE FALSE
    BY <1>1, <1>5, <1>7 DEF Written, Nodes
  <1>11. Apart(id)
    OBVIOUS
  <1>12. \A x : x \notin DOMAIN view => Apart(x)
    OBVIOUS
  <1> HIDE DEF Apart
  <1>13. PICK S : S = {x \in Homes : Apart(x)}
    OBVIOUS
  <1>14. \A x : Apart(x) => HomeOf(x) \in S \cup {None}
    BY <1>10, <1>12, <1>13, RowsAreTyped
  <1>15. Chain(HomeOf(id)) \subseteq S
    BY <1>2, <1>11, <1>13, <1>14, ChainStays
  <1>16. Apart(d.target) /\ d.target \in DOMAIN view /\ d \in StagedDeletion(d.target)
    BY <1>3, <1>11, <1>13, <1>15, DeletedIsShown
  <1>17. QED
    BY <1>9, <1>16

(* Which deletion it is travels with everything inside: what is shown as    *)
(* going for good is not in the file after the save, and what is shown as  *)
(* going and is not, at whatever depth of a folder that goes, is in the    *)
(* recycle bin, which is there.  (Where the save goes through and writes   *)
(* what is shown, and but for a bin that is deleted itself and for a       *)
(* deletion inside one.)                                                   *)
THEOREM BinnedAreFound ==
  ASSUME BinsLast
  PROVE  Spec => []BinnedIsRecoverable
  <1>1. Init => Settled /\ Whereabouts(file, chg.ops)
    BY SettledInit, WhereNothing DEF Init, EmptySet
  <1>2. Settled /\ Whereabouts(file, chg.ops) /\ [Next]_vars => Settled' /\ Whereabouts(file, chg.ops)'
    BY SettledStep, WhereStep DEF Settled
  <1>3. Settled /\ Whereabouts(file, chg.ops) => BinnedIsRecoverable
    BY ForGoodIsGone, OutIsBinned DEF Settled, BinnedIsRecoverable
  <1>4. QED
    BY <1>1, <1>2, <1>3, PTL DEF Spec

-----------------------------------------------------------------------------
(* Why a save gets to its end.                                             *)

(* The order of a save always follows applyOrder's two rules: whatever is   *)
(* staged, and in whatever order, they are not cyclic, as the comment in    *)
(* applyOrder has it, and its way back to the order of staging is not taken. *)
THEOREM NothingStagesACycle ==
  ASSUME BinsLast
  PROVE  Spec => []~Cyclic(Members(red))
  <1>1. Init => Settled /\ Whereabouts(file, chg.ops)
    BY SettledInit, WhereNothing DEF Init, EmptySet
  <1>2. Settled /\ Whereabouts(file, chg.ops) /\ [Next]_vars => Settled' /\ Whereabouts(file, chg.ops)'
    BY SettledStep, WhereStep DEF Settled
  <1>3. Settled /\ Whereabouts(file, chg.ops) => ~Cyclic(Members(red))
    BY RowsShown, CreationsComeFirst DEF Settled, Current, Whereabouts, Footing
  <1>4. QED
    BY <1>1, <1>2, <1>3, PTL DEF Spec

(* A session, and none of the shapes that SaveCanBePerformed names.        *)
Performable ==
  /\ Current /\ IsVault(file) /\ AllTyped(chg) /\ Whereabouts(file, chg.ops)
  /\ ~NotATree /\ ~MadeAgainAfterMove /\ ~FoldersMovedTogether
  /\ ~ActsInsideTheGone /\ ~BinItselfDeleted /\ ~StaleReference

(* The list of what is to be performed: its rules are not cyclic, so it is  *)
(* in their order, and each operation is of its target's log and about a   *)
(* row.                                                                    *)
LEMMA Listed ==
  ASSUME Performable
  PROVE  /\ Log(chg.ops) /\ red = Effective(chg.ops) /\ ~Cyclic(Members(red))
         /\ Len(red) \in Nat /\ DOMAIN red = 1 .. Len(red) /\ Due(file, red)
         /\ \A i, j \in 1 .. Len(red) : i < j => red[i] # red[j] /\ ~Precedes(red[j], red[i])
         /\ \A r \in Members(red) : /\ r \in Reduction(chg.ops) /\ Typed(r)
                                    /\ Composed(On(chg.ops, r.target), r)
                                    /\ r.target \in DOMAIN view
         /\ \A i \in 1 .. Len(red) : red[i] \in Members(red)
  <1>1. Log(chg.ops) /\ red = Effective(chg.ops)
    BY RowsShown DEF Performable, Current
  <1>2. Len(red) \in Nat /\ DOMAIN red = 1 .. Len(red) /\ Due(file, red)
    BY ReducedIsDue DEF Performable
  <1>3. ~Cyclic(Members(red))
    BY <1>1, CreationsComeFirst DEF Performable, Whereabouts, Footing
  <1>4. /\ Members(red) = Final(chg.ops) /\ Final(chg.ops) \subseteq Kept(chg.ops)
        /\ Kept(chg.ops) \subseteq Reduction(chg.ops)
        /\ Sorted(Members(red), Members(red), red)
    BY <1>1, EffectiveIsFinal
  <1>5. \A i, j \in 1 .. Len(red) : i < j => red[i] # red[j] /\ ~Precedes(red[j], red[i])
    BY <1>2, <1>3, <1>4 DEF Sorted
  <1>6. ASSUME NEW r \in Members(red) PROVE r.target \in DOMAIN view
    <2>1. DOMAIN view = (Live(file) \ {Root}) \cup Targets(OfKind(Members(red), CreateKinds))
      BY RowsShown DEF Performable
    <2>2. PICK op \in chg.ops : op.target = r.target
      BY <1>1, <1>6, EffectiveWasStaged DEF Targets
    <2>3. r.target \in (Live(file) \ {Root}) \cup Targets(OfKind(chg.ops, CreateKinds))
      BY <2>2 DEF Performable, Whereabouts
    <2>4. r.target \notin Gone(chg.ops)
      BY <1>4, <1>6 DEF Kept
    <2>5. r.target \in Targets(OfKind(chg.ops, CreateKinds)) =>
            r.target \in Targets(OfKind(Members(red), CreateKinds))
      <3> SUFFICES ASSUME r.target \in Targets(OfKind(chg.ops, CreateKinds))
                   PROVE  r.target \in Targets(OfKind(Members(red), CreateKinds))
        OBVIOUS
      <3>1. PICK c \in Members(red) : c.kind \in CreateKinds /\ c.target = r.target
        BY <1>1, <2>4, CreationStays
      <3>2. QED
        BY <3>1 DEF Targets, OfKind
    <2>6. QED
      BY <2>1, <2>3, <2>5
  <1>7. \A r \in Members(red) : r \in Reduction(chg.ops) /\ Typed(r) /\ Composed(On(chg.ops, r.target), r)
    BY <1>1, <1>4, NetIsTyped, FieldsWereStaged DEF Performable
  <1>8. \A i \in 1 .. Len(red) : red[i] \in Members(red)
    BY <1>2 DEF Members
  <1>9. QED
    BY <1>1, <1>2, <1>3, <1>5, <1>6, <1>7, <1>8

(* What is new is created before anything else is done of it.              *)
LEMMA CreatedFirst ==
  ASSUME Performable, NEW i \in 1 .. Len(red), NEW j \in 1 .. Len(red), i # j,
         red[i].kind \in CreateKinds, red[j].target = red[i].target
  PROVE  i < j /\ red[j].kind \in MoveKinds
  <1>1. /\ Log(chg.ops) /\ red = Effective(chg.ops) /\ Len(red) \in Nat /\ DOMAIN red = 1 .. Len(red)
        /\ red[i] \in Reduction(chg.ops) /\ red[j] \in Reduction(chg.ops) /\ Due(file, red)
    BY Listed
  <1>2. red[j].kind \in CreateKinds \cup MoveKinds
    BY <1>1, NothingElseOfIt
  <1>3. red[j].kind \notin CreateKinds
    BY <1>1 DEF Due
  <1>4. red[j].kind \in MoveKinds
    BY <1>2, <1>3
  <1>5. PICK c \in chg.ops : /\ c.kind = red[i].kind /\ c.target = red[i].target /\ c.seq = red[i].seq
    BY <1>1, CreationIsTheLast
  <1>6. PICK m \in OfKind(On(chg.ops, red[j].target), MoveKinds) : red[j].seq = m.seq
    BY <1>1, <1>4, MoveIsCollapsed
  <1>7. m \in chg.ops /\ m.kind \in MoveKinds /\ m.target = red[j].target
    BY <1>6 DEF OfKind, On
  <1>8. ~(m.seq < c.seq)
    BY <1>5, <1>7 DEF Performable, MadeAgainAfterMove, OfKind
  <1>9. c # m
    BY <1>5, <1>7 DEF CreateKinds, MoveKinds
  <1>10. c.seq \in Nat /\ m.seq \in Nat /\ c.seq # m.seq
    <2>1. \A op \in chg.ops : op.seq \in Nat
      BY <1>1, NumberedIsFinite DEF Log
    <2>2. QED
      BY <1>1, <1>7, <1>9, <2>1 DEF Log, Numbered
  <1>11. red[i].seq < red[j].seq
    BY <1>5, <1>6, <1>8, <1>10
  <1>12. i < j
    BY <1>1, <1>11, CreationsComeFirst DEF Performable, Whereabouts, Footing
  <1>13. QED
    BY <1>4, <1>12

(* What a creation or a move puts its target in is the root group, a folder *)
(* of the file, or one that was created before.                            *)
LEMMA FilledAfterwards ==
  ASSUME Performable, NEW j \in 1 .. Len(red), red[j].parent \notin {None, Root}
  PROVE  /\ red[j].parent \notin Entries /\ red[j].parent \in DOMAIN view
         /\ \/ red[j].parent \in Live(file)
            \/ \E i \in 1 .. Len(red) : /\ i < j /\ red[i].kind \in CreateKinds
                                        /\ red[i].target = red[j].parent
  <1>1. /\ Log(chg.ops) /\ red = Effective(chg.ops) /\ ~Cyclic(Members(red))
        /\ Len(red) \in Nat /\ DOMAIN red = 1 .. Len(red)
        /\ Typed(red[j]) /\ Composed(On(chg.ops, red[j].target), red[j])
    BY Listed
  <1>2. PICK p : p = red[j].parent
    OBVIOUS
  <1>3. p \in Folders /\ p \notin Entries
    <2>1. p \in Homes
      BY <1>1, <1>2 DEF Typed
    <2>2. QED
      BY <1>2, <2>1, StagingAssumption DEF Homes
  <1>4. PICK op \in On(chg.ops, red[j].target) : op.kind = red[j].kind /\ op.parent = p
    BY <1>1, <1>2 DEF Composed
  <1>5. op \in chg.ops /\ op.target = red[j].target
    BY DEF On
  <1>6. p \in Live(file) \cup Targets(OfKind(chg.ops, CreateKinds))
    <2>1. \/ p \in {None, Root} \cup Live(file) \cup Targets(OfKind(chg.ops, CreateKinds))
          \/ op.kind = "CreateEntry" /\ op.after.group = p
      BY <1>4, <1>5 DEF Performable, Current, Sane, Lies
    <2>2. CASE op.kind = "CreateEntry" /\ op.after.group = p
      BY <1>2, <1>5, <2>2 DEF Performable, StaleReference, Placed, Creations, OfKind
    <2>3. QED
      BY <1>2, <2>1, <2>2
  <1>7. ASSUME p \notin Live(file)
        PROVE  \E i \in 1 .. Len(red) : i < j /\ red[i].kind \in CreateKinds /\ red[i].target = p
    <2>1. p \in Targets(OfKind(chg.ops, CreateKinds))
      BY <1>6, <1>7
    <2>2. PICK i \in 1 .. Len(red) :
            /\ red[i].kind \in CreateKinds /\ red[i].target = p
            /\ red[i].kind = "CreateGroup" /\ ~Cyclic(Members(red)) => i <= j
      BY <1>1, <1>2, <2>1, CreatedBeforeFilled
    <2>3. Typed(red[i])
      BY Listed
    <2>4. red[i].kind = "CreateGroup"
      BY <1>3, <2>2, <2>3 DEF Typed, CreateKinds
    <2>5. i # j
      <3> SUFFICES ASSUME i = j PROVE FALSE
        OBVIOUS
      <3>1. op.kind \in CreateKinds /\ op.parent = op.target
        BY <1>4, <1>5, <2>2
      <3>2. op.seq < op.seq
        BY <1>5, <3>1 DEF Performable, Whereabouts, Footing, FilledLater
      <3>3. op.seq \in Nat
        BY <1>1, <1>5, NumberedIsFinite DEF Log
      <3>4. QED
        BY <3>2, <3>3
    <2>6. QED
      BY <1>1, <2>2, <2>4, <2>5
  <1>8. p \in DOMAIN view
    <2>1. DOMAIN view = (Live(file) \ {Root}) \cup Targets(OfKind(Members(red), CreateKinds))
      BY RowsShown DEF Performable
    <2>2. \A i \in 1 .. Len(red) : red[i].kind \in CreateKinds =>
            red[i].target \in Targets(OfKind(Members(red), CreateKinds))
      BY Listed DEF Targets, OfKind
    <2>3. QED
      BY <1>2, <1>7, <2>1, <2>2
  <1>9. QED
    BY <1>2, <1>3, <1>7, <1>8

(* What is moved is moved from where the file has it, or from where it is   *)
(* created.                                                                *)
LEMMA MovedFrom ==
  ASSUME Performable, NEW m \in Members(red), m.kind \in MoveKinds
  PROVE  /\ m.target \in Live(file) => m.was = file.node[m.target].home
         /\ \A c \in Members(red) : c.kind \in CreateKinds /\ c.target = m.target => m.was = c.parent
  <1>1. Log(chg.ops) /\ m \in Reduction(chg.ops)
    BY Listed
  <1>2. \A op \in chg.ops : op.seq \in Nat
    BY <1>1, NumberedIsFinite DEF Log
  <1>3. PICK first \in OfKind(On(chg.ops, m.target), MoveKinds) :
          m.was = first.was /\ \A o \in OfKind(On(chg.ops, m.target), MoveKinds) : first.seq <= o.seq
    BY <1>1, MoveIsCollapsed
  <1>4. first \in chg.ops /\ first.kind \in MoveKinds /\ first.target = m.target
    BY DEF OfKind, On
  <1>5. m.target \in Targets(chg.ops)
    BY <1>4 DEF Targets
  <1>6. PICK start \in Homes : StartsFrom(file, chg.ops, m.target, start)
    BY <1>5 DEF Performable, Whereabouts, Footing
  <1>7. m.was = start
    <2>1. Tells(file, first) /\ Told(first) = m.was
      BY <1>3, <1>4 DEF Tells, Told
    <2>2. Explained(file, chg.ops, first, start)
      BY <1>4, <1>6, <2>1 DEF StartsFrom
    <2>3. ~Lost(file, chg.ops, m.was)
      BY <1>3, <1>4 DEF Performable, StaleReference, Placed, Creations, Lost, OfKind
    <2>4. \A o \in chg.ops : o.kind \in MoveKinds /\ o.target = first.target => ~(o.seq < first.seq)
      <3> SUFFICES ASSUME NEW o \in chg.ops, o.kind \in MoveKinds, o.target = first.target
                   PROVE  ~(o.seq < first.seq)
        OBVIOUS
      <3>1. o \in OfKind(On(chg.ops, m.target), MoveKinds)
        BY <1>4 DEF OfKind, On
      <3>2. QED
        BY <1>2, <1>3, <1>4, <3>1
    <2>5. QED
      BY <2>1, <2>2, <2>3, <2>4 DEF Explained
  <1>8. ASSUME NEW c \in Members(red), c.kind \in CreateKinds, c.target = m.target
        PROVE  c.parent = start
    <2>1. c \in Reduction(chg.ops)
      BY Listed
    <2>2. PICK made \in chg.ops :
            made.kind = c.kind /\ made.target = c.target /\ made.seq = c.seq /\ made.parent = c.parent
      BY <1>1, <1>8, <2>1, CreationIsTheLast
    <2>3. made.target \notin Live(file)
      BY <1>8, <2>2 DEF Performable, Current, Sane, Fits
    <2>4. Tells(file, made)
      BY <1>8, <2>2, <2>3 DEF Tells
    <2>5. Told(made) = made.parent
      BY <1>8, <2>2 DEF Told, CreateKinds, MoveKinds, Performable, Whereabouts
    <2>6. Explained(file, chg.ops, made, start)
      BY <1>6, <1>8, <2>2, <2>4 DEF StartsFrom
    <2>7. ~Lost(file, chg.ops, made.parent)
      <3>1. Lies(file, chg.ops, made)
        BY <2>2 DEF Performable, Current, Sane
      <3>2. CASE made.kind = "CreateEntry" /\ made.after.group = made.parent
        BY <2>2, <3>2 DEF Performable, StaleReference, Placed, Creations, Lost, OfKind
      <3>3. QED
        BY <3>1, <3>2 DEF Lies, Lost
    <2>8. \A o \in chg.ops : o.kind \in MoveKinds /\ o.target = made.target => ~(o.seq < made.seq)
      BY <1>8, <2>2 DEF Performable, MadeAgainAfterMove, OfKind
    <2>9. made.parent = start
      BY <2>5, <2>6, <2>7, <2>8 DEF Explained
    <2>10. QED
      BY <2>2, <2>9
  <1>9. QED
    BY <1>6, <1>7, <1>8 DEF StartsFrom

(* What is above a row is what is above its folder, and the row.           *)
LEMMA ChainAbove ==
  ASSUME IsFiniteSet(DOMAIN view), None \notin DOMAIN view, NEW id \in DOMAIN view
  PROVE  id \in Chain(id) /\ Chain(HomeOf(id)) \subseteq Chain(id)
  <1>1. id \in Chain(id)
    BY DEF Chain
  <1>2. \A f \in Chain(id) : HomeOf(f) \in Chain(id) \cup {None}
    BY ChainIsClosed
  <1>3. HomeOf(id) \in Chain(id) \cup {None}
    BY <1>1, <1>2
  <1>4. QED
    BY <1>1, <1>2, <1>3, ChainStays

(* What is shown in a folder, or in one under it, is shown under it.       *)
LEMMA UnderToo ==
  ASSUME IsFiniteSet(DOMAIN view), None \notin DOMAIN view,
         NEW id \in DOMAIN view, NEW folder \in DOMAIN view, view[id].home \in {folder} \cup Under(folder)
  PROVE  id \in Under(folder)
  <1>1. PICK home : home = view[id].home /\ home \in DOMAIN view
    BY DEF Under
  <1>2. home \in Chain(home) /\ Chain(HomeOf(home)) \subseteq Chain(home)
    BY <1>1, ChainAbove
  <1>3. folder \in Chain(home)
    <2>1. CASE home = folder
      BY <1>2, <2>1
    <2>2. CASE home \in Under(folder)
      BY <1>1, <1>2, <2>2 DEF Under, HomeOf
    <2>3. QED
      BY <1>1, <2>1, <2>2
  <1>4. QED
    BY <1>1, <1>3 DEF Under

(* What a due list creates is not yet in the file: not live, not buried and *)
(* not a recycle bin.                                                      *)
LEMMA CreatedAreNew ==
  ASSUME DOMAIN red = 1 .. Len(red), Due(file, red)
  PROVE  \A t \in Targets(OfKind(Members(red), CreateKinds)) : t \notin Live(file) \cup file.tombs \cup Bins
  <1>1. SUFFICES ASSUME NEW t \in Targets(OfKind(Members(red), CreateKinds))
                 PROVE  t \notin Live(file) \cup file.tombs \cup Bins
    OBVIOUS
  <1>2. PICK i \in 1 .. Len(red) : red[i].kind \in CreateKinds /\ red[i].target = t
    BY <1>1 DEF Targets, OfKind, Members
  <1>3. QED
    BY <1>2 DEF Due

(* Where the save so far has a thing that is in a folder that is shown: the *)
(* row says so too, unless it was deleted by now, or will be moved from     *)
(* there, or is an entry that nothing more is to be done of.               *)
LEMMA WhereItIsNow ==
  ASSUME Performable, NEW n \in 1 .. Len(red), NEW tree,
         Follows(file, tree, Past(red, n - 1)), Arrives(file, tree, Past(red, n - 1)),
         NEW x \in Live(tree), NEW h \in DOMAIN view, tree.node[x].home = h
  PROVE  /\ x \in DOMAIN view
         /\ \/ view[x].home = h
            \/ \E d \in Past(red, n - 1) : d.kind \in DeleteKinds /\ d.target = x
            \/ \E j \in 1 .. Len(red) :
                 n <= j /\ red[j].kind \in MoveKinds /\ red[j].target = x /\ red[j].was = h
            \/ x \in Entries /\ \A j \in 1 .. Len(red) : n <= j => red[j].target # x
  <1>1. /\ Current /\ IsVault(file) /\ AllTyped(chg) /\ Whereabouts(file, chg.ops)
        /\ None \notin DOMAIN view /\ Root \notin DOMAIN view
        /\ DOMAIN view = (Live(file) \ {Root}) \cup Targets(OfKind(Members(red), CreateKinds))
    BY RowsAreFinite, RowsShown DEF Performable
  <1>2. /\ Len(red) \in Nat /\ DOMAIN red = 1 .. Len(red) /\ Due(file, red)
        /\ \A r \in Members(red) : Typed(r) /\ Composed(On(chg.ops, r.target), r)
        /\ \A i \in 1 .. Len(red) : red[i] \in Members(red)
    BY Listed
  <1>3. PICK past : /\ past = Past(red, n - 1) /\ past \in SUBSET Members(red)
                    /\ Follows(file, tree, past) /\ Arrives(file, tree, past)
    BY <1>2 DEF Past, Members
  <1>4. \A j \in 1 .. Len(red) : j < n => red[j] \in past
    BY <1>2, <1>3 DEF Past
  <1>5. x # Root /\ h # Root /\ h # None
    BY <1>1, <1>3 DEF Follows, IsVault
  <1>6. x \in DOMAIN view
    BY <1>1, <1>3, <1>5, WrittenIsShown
  <1>7. CASE x \in Targets(OfKind(past, WayOut))
    <2>1. PICK op \in past : op.kind \in WayOut /\ op.target = x
      BY <1>7 DEF Targets, OfKind
    <2>2. CASE op.kind \in DeleteKinds
      BY <1>3, <1>6, <2>1, <2>2
    <2>3. CASE op.kind \in MoveKinds
      <3>1. h = Resolve(op.parent)
        BY <1>3, <2>1, <2>3 DEF Arrives
      <3>2. PICK put \in On(chg.ops, x) : put.kind = op.kind /\ put.parent = op.parent
        BY <1>2, <1>3, <2>1 DEF Composed
      <3>3. op.parent # None
        BY <1>1, <2>3, <3>2 DEF Whereabouts, On
      <3>4. h = op.parent
        BY <3>1, <3>3 DEF Resolve
      <3>5. view[x].home = op.parent
        BY <1>1, <1>3, <1>6, <2>1, <2>3, <3>4, RowHomeFrom
      <3>6. QED
        BY <1>6, <3>4, <3>5
    <2>4. QED
      BY <2>1, <2>2, <2>3 DEF WayOut
  <1>8. CASE x \notin Targets(OfKind(past, WayOut)) /\ x \in Targets(OfKind(Members(red), MoveKinds))
    <2>1. PICK m \in Members(red) : m.kind \in MoveKinds /\ m.target = x
      BY <1>8 DEF Targets, OfKind
    <2>2. PICK j \in 1 .. Len(red) : m = red[j]
      BY <1>2, <2>1 DEF Members
    <2>3. n <= j
      <3>1. red[j] \notin past
        BY <1>8, <2>1, <2>2 DEF Targets, OfKind, WayOut
      <3>2. QED
        BY <1>2, <1>4, <3>1
    <2>4. m.was = h
      <3>1. CASE x \in Live(file)
        <4>1. h = file.node[x].home
          BY <1>3, <1>8, <3>1 DEF Follows
        <4>2. QED
          BY <2>1, <3>1, <4>1, MovedFrom
      <3>2. CASE x \notin Live(file)
        <4>1. PICK c \in past : c.kind \in CreateKinds /\ c.target = x
          <5>1. \A t \in Targets(OfKind(Members(red), CreateKinds)) : t \notin Live(file) \cup file.tombs \cup Bins
            BY <1>2, CreatedAreNew
          <5>2. x \in Targets(OfKind(past, CreateKinds))
            BY <1>1, <1>3, <1>6, <3>2, <5>1 DEF Follows
          <5>3. QED
            BY <5>2 DEF Targets, OfKind
        <4>2. h = Resolve(c.parent)
          BY <1>3, <1>8, <4>1 DEF Arrives
        <4>3. h = c.parent
          BY <1>5, <4>2 DEF Resolve
        <4>4. QED
          BY <1>3, <2>1, <4>1, <4>3, MovedFrom
      <3>3. QED
        BY <3>1, <3>2
    <2>5. QED
      BY <1>6, <2>1, <2>2, <2>3, <2>4
  <1>9. CASE x \notin Targets(OfKind(past, WayOut)) /\ x \notin Targets(OfKind(Members(red), MoveKinds))
    <2>1. CASE x \in Live(file)
      <3>1. h = file.node[x].home
        BY <1>3, <1>9, <2>1 DEF Follows
      <3>2. x \notin Targets(OfKind(Members(red), CreateKinds))
        BY <1>2, <2>1 DEF Targets, OfKind, Members, Due
      <3>3. view[x].home = file.node[x].home
        BY <1>1, <1>6, <1>9, <3>2, RowHomeFrom
      <3>4. QED
        BY <1>6, <3>1, <3>3
    <2>2. CASE x \notin Live(file)
      <3>1. PICK c \in past : c.kind \in CreateKinds /\ c.target = x
        <4>1. \A t \in Targets(OfKind(Members(red), CreateKinds)) : t \notin Live(file) \cup file.tombs \cup Bins
          BY <1>2, CreatedAreNew
        <4>2. x \in Targets(OfKind(past, CreateKinds))
          BY <1>1, <1>3, <1>6, <2>2, <4>1 DEF Follows
        <4>3. QED
          BY <4>2 DEF Targets, OfKind
      <3>2. PICK i \in 1 .. n - 1 : c = red[i]
        BY <1>3, <3>1 DEF Past
      <3>3. CASE x \in Entries
        <4>1. ASSUME NEW j \in 1 .. Len(red), n <= j PROVE red[j].target # x
          <5> SUFFICES ASSUME red[j].target = x PROVE FALSE
            OBVIOUS
          <5>1. i \in 1 .. Len(red) /\ i # j
            BY <1>2, <4>1
          <5>2. red[j].kind \in MoveKinds
            BY <3>1, <3>2, <5>1, CreatedFirst
          <5>3. QED
            BY <1>2, <1>9, <5>2 DEF Targets, OfKind
        <4>2. QED
          BY <1>6, <3>3, <4>1
      <3>4. CASE x \notin Entries
        <4>1. c.kind = "CreateGroup"
          BY <1>2, <1>3, <3>1, <3>4 DEF Typed, CreateKinds
        <4>2. view[x].home = Born(c).home
          BY <1>1, <1>3, <1>6, <1>9, <3>1, RowHomeFrom
        <4>3. h = Resolve(c.parent)
          BY <1>3, <1>9, <3>1 DEF Arrives
        <4>4. QED
          BY <1>5, <1>6, <4>1, <4>2, <4>3 DEF Born, Resolve
      <3>5. QED
        BY <3>3, <3>4
    <2>3. QED
      BY <2>1, <2>2
  <1>10. QED
    BY <1>7, <1>8, <1>9

(* A bin that a save makes has no row.                                     *)
LEMMA ShownIsNoNewBin ==
  ASSUME Current
  PROVE  DOMAIN view \cap (Bins \ Live(file)) = {}
  <1>1. /\ DOMAIN view = (Live(file) \ {Root}) \cup Targets(OfKind(Members(red), CreateKinds))
        /\ Targets(OfKind(Members(red), CreateKinds)) \subseteq Targets(OfKind(chg.ops, CreateKinds))
    BY RowsShown
  <1>2. \A t \in Targets(OfKind(chg.ops, CreateKinds)) : t \notin Bins
    BY DEF Targets, OfKind, Current, Sane, Fits
  <1>3. QED
    BY <1>1, <1>2

(* Where the deletions so far have put what they did not remove: in the bin *)
(* of the file, or in one of this save.                                    *)
InABin(tree, past) ==
  /\ tree.bin = file.bin \/ tree.bin \notin Live(file)
  /\ \A d \in OfKind(past, DeleteKinds) : d.target \in Live(tree) =>
       tree.node[d.target].home \in {file.bin} \cup (Bins \ Live(file))

LEMMA InABinOne ==
  ASSUME Performable, NEW n \in 1 .. Len(red), NEW tree, NEW after,
         Follows(file, tree, Past(red, n - 1)), Arrives(file, tree, Past(red, n - 1)),
         Performs(tree, after, red[n]), InABin(tree, Past(red, n - 1))
  PROVE  InABin(after, Past(red, n))
  <1>1. Len(red) \in Nat /\ DOMAIN red = 1 .. Len(red) /\ Due(file, red)
    BY Listed
  <1>2. PICK op : op = red[n] /\ op \in Members(red)
    BY Listed
  <1>3. IsVault(tree) /\ IsVault(after) /\ tree.tombs \subseteq after.tombs
    BY DEF Follows, Performs
  <1>4. after.bin = file.bin \/ after.bin \notin Live(file)
    <2>1. Live(file) \subseteq Live(tree) \cup tree.tombs
      BY DEF Follows
    <2>2. after.bin = tree.bin \/ after.bin \notin Live(tree) \cup tree.tombs
      BY DEF Performs, Discards
    <2>3. QED
      BY <2>1, <2>2 DEF InABin
  <1>5. ASSUME NEW d \in Past(red, n), d.kind \in DeleteKinds, d.target \in Live(after)
        PROVE  after.node[d.target].home \in {file.bin} \cup (Bins \ Live(file))
    <2>1. PICK i \in 1 .. n : d = red[i]
      BY <1>5 DEF Past
    <2>2. CASE i = n
      <3>1. ~(op.perm \/ ~BinEnabled)
        BY <1>2, <1>5, <2>1, <2>2 DEF Performs, Discards
      <3>2. after.node[op.target].home = after.bin /\ after.bin \in Live(after)
        BY <1>2, <1>5, <2>1, <2>2, <3>1 DEF Performs, Discards
      <3>3. after.bin \in Bins
        BY <1>3, <3>2, StagingAssumption DEF IsVault, Ids
      <3>4. QED
        BY <1>2, <1>4, <2>1, <2>2, <3>2, <3>3
    <2>3. CASE i # n
      <3>1. i \in 1 .. n - 1 /\ i \in 1 .. Len(red) /\ i < n
        BY <1>1, <2>3
      <3>2. d \in Past(red, n - 1)
        BY <2>1, <3>1 DEF Past
      <3>3. d.target \in Live(tree)
        <4>1. d.target \in Live(tree) \cup tree.tombs
          BY <3>2 DEF Arrives, Targets
        <4>2. QED
          BY <1>3, <1>5, <4>1 DEF IsVault
      <3>4. tree.node[d.target].home \in {file.bin} \cup (Bins \ Live(file))
        BY <1>5, <3>2, <3>3 DEF InABin, OfKind
      <3>5. d.target # op.target \/ op.kind \notin WayOut
        BY <1>1, <1>2, <1>5, <2>1, <3>1 DEF Due, WayOut
      <3>6. after.node[d.target].home = tree.node[d.target].home
        BY <1>2, <1>5, <3>3, <3>5 DEF Performs
      <3>7. QED
        BY <3>4, <3>6
    <2>4. QED
      BY <2>2, <2>3
  <1>6. QED
    BY <1>4, <1>5 DEF InABin, OfKind

LEMMA InABinSoFar ==
  ASSUME Performable, NEW f, NEW n \in 0 .. Len(red), Reaches(file, red, f, n)
  PROVE  \A k \in 0 .. n : InABin(f[k], Past(red, k))
  <1>1. Len(red) \in Nat
    BY Listed
  <1> DEFINE Good == {k \in Nat : k <= n => InABin(f[k], Past(red, k))}
  <1>2. 0 \in Good
    <2>1. f[0] = file /\ Past(red, 0) = {}
      BY DEF Reaches, Past
    <2>2. InABin(file, {})
      BY DEF InABin, OfKind
    <2>3. QED
      BY <2>1, <2>2
  <1>3. ASSUME NEW k \in Nat, k \in Good PROVE k + 1 \in Good
    <2> SUFFICES ASSUME k + 1 <= n PROVE InABin(f[k + 1], Past(red, k + 1))
      OBVIOUS
    <2>1. PICK next : next = k + 1 /\ next - 1 = k /\ next \in 1 .. n /\ next \in 1 .. Len(red) /\ k \in 0 .. n
      BY <1>1
    <2>2. InABin(f[k], Past(red, k))
      BY <1>3, <2>1
    <2>3. PICK tree, after : /\ tree = f[next - 1] /\ after = f[next]
                             /\ Follows(file, tree, Past(red, next - 1)) /\ Arrives(file, tree, Past(red, next - 1))
                             /\ Performs(tree, after, red[next])
      BY <2>1 DEF Reaches
    <2>4. InABin(after, Past(red, next))
      BY <2>1, <2>2, <2>3, InABinOne
    <2>5. QED
      BY <2>1, <2>3, <2>4
  <1> HIDE DEF Good
  <1>4. Nat \subseteq Good
    BY <1>2, <1>3, CountingUp
  <1>5. QED
    BY <1>4 DEF Good

(* A folder the save is about to delete holds nothing that is not shown     *)
(* under it, but for entries that nothing more is to be done of: what is    *)
(* still to be moved out of it comes first, or is of the shape             *)
(* ActsInsideTheGone.                                                      *)
LEMMA SubtreeOfTheGone ==
  ASSUME Performable, NEW n \in 1 .. Len(red), red[n].kind = "DeleteGroup", NEW tree,
         Follows(file, tree, Past(red, n - 1)), Arrives(file, tree, Past(red, n - 1)),
         InABin(tree, Past(red, n - 1))
  PROVE  \A x \in Subtree(tree.node, red[n].target) :
           \/ x = red[n].target \/ x \in Under(red[n].target)
           \/ x \in Entries /\ \A j \in 1 .. Len(red) : n <= j => red[j].target # x
  <1>1. /\ IsFiniteSet(DOMAIN view) /\ None \notin DOMAIN view /\ Root \notin DOMAIN view
        /\ IsVault(tree) /\ IsFiniteSet(DOMAIN tree.node)
    BY RowsAreFinite DEF Performable, Follows, IsVault, Live
  <1>2. PICK g : g = red[n].target /\ g \in DOMAIN view /\ red[n] \in Members(red)
    BY Listed
  <1>3. /\ Len(red) \in Nat /\ DOMAIN red = 1 .. Len(red)
        /\ \A i, j \in 1 .. Len(red) : i < j => ~Precedes(red[j], red[i])
    BY Listed
  <1>4. ASSUME NEW j \in 1 .. Len(red), n <= j, red[j].kind \in MoveKinds
        PROVE  red[j].was \notin {g} \cup Under(g)
    <2>1. n < j
      <3>1. j # n
        BY <1>4 DEF MoveKinds
      <3>2. QED
        BY <1>3, <1>4, <3>1
    <2>2. red[j].was # g
      BY <1>2, <1>3, <1>4, <2>1 DEF Precedes, MoveKinds
    <2>3. ASSUME red[j].was \in Under(g) PROVE FALSE
      <3>1. g \in Chain(HomeOf(red[j].was))
        BY <2>3 DEF Under, HomeOf
      <3>2. QED
        BY <1>2, <1>3, <2>1, <3>1 DEF Performable, ActsInsideTheGone
    <2>4. QED
      BY <2>2, <2>3
  <1>5. file.bin \notin {g} \cup Under(g)
    <2>1. red[n] \in Reduced({"DeleteGroup"})
      BY <1>2 DEF Reduced, OfKind
    <2>2. file.bin # None => file.bin \notin Under(g) \cup {g}
      BY <1>2, <2>1 DEF Performable, BinItselfDeleted
    <2>3. QED
      BY <1>1, <1>2, <2>2 DEF Under
  <1> DEFINE Spent(x) == x \in Entries /\ \A j \in 1 .. Len(red) : n <= j => red[j].target # x
  <1>6. PICK S : S = {x \in Live(tree) \cup {g} : x = g \/ x \in Under(g) \/ Spent(x)}
    OBVIOUS
  <1>7. ASSUME NEW x \in Live(tree), tree.node[x].home \in S PROVE x \in S
    <2>1. PICK h : h = tree.node[x].home /\ h \in S
      BY <1>7
    <2>2. h \notin Entries
      BY <1>1, <2>1, <1>6, <1>2, StagingAssumption DEF IsVault, Performable, Homes
    <2>3. h \in {g} \cup Under(g) /\ h \in DOMAIN view
      BY <1>2, <1>6, <2>1, <2>2 DEF Under
    <2>4. x \in DOMAIN view /\ (\/ view[x].home = h
                                \/ \E d \in Past(red, n - 1) : d.kind \in DeleteKinds /\ d.target = x
                                \/ \E j \in 1 .. Len(red) :
                                     n <= j /\ red[j].kind \in MoveKinds /\ red[j].target = x /\ red[j].was = h
                                \/ x \in Entries /\ \A j \in 1 .. Len(red) : n <= j => red[j].target # x)
      BY <2>1, <2>3, WhereItIsNow
    <2>5. CASE view[x].home = h
      <3>1. x \in Under(g)
        BY <1>1, <1>2, <2>3, <2>4, <2>5, UnderToo
      <3>2. QED
        BY <1>6, <3>1
    <2>6. ASSUME NEW d \in Past(red, n - 1), d.kind \in DeleteKinds, d.target = x PROVE FALSE
      <3>1. h \in {file.bin} \cup (Bins \ Live(file))
        BY <2>1, <2>6 DEF InABin, OfKind
      <3>2. h \notin Bins \ Live(file)
        BY <1>2, <2>3, ShownIsNoNewBin DEF Performable
      <3>3. QED
        BY <1>5, <2>3, <3>1, <3>2
    <2>7. ~\E j \in 1 .. Len(red) :
            n <= j /\ red[j].kind \in MoveKinds /\ red[j].target = x /\ red[j].was = h
      BY <1>4, <2>3
    <2>8. CASE Spent(x)
      BY <1>6, <2>8
    <2>9. QED
      BY <2>4, <2>5, <2>6, <2>7, <2>8
  <1>8. Subtree(tree.node, g) \subseteq S
    <2>1. g \in S
      BY <1>6
    <2>2. \A x \in Subtree(tree.node, g) : x \in DOMAIN tree.node /\ tree.node[x].home \in S => x \in S
      BY <1>7 DEF Live
    <2>3. QED
      BY <1>1, <2>1, <2>2, SubtreeStays
  <1>9. QED
    BY <1>2, <1>6, <1>8

(* What is shown and was there, or was created, before an operation, is     *)
(* there when its turn comes, unless it was deleted for good by then, or is *)
(* in a folder that was, or is an entry that nothing more is to be done of. *)
LEMMA StillThere ==
  ASSUME Performable, NEW f, NEW n \in 1 .. Len(red), Reaches(file, red, f, n - 1),
         NEW x \in DOMAIN view,
         \/ x \in Live(file)
         \/ \E i \in 1 .. Len(red) : i < n /\ red[i].kind \in CreateKinds /\ red[i].target = x
  PROVE  \/ x \in Live(f[n - 1])
         \/ \E k \in 1 .. Len(red) :
              /\ k < n /\ red[k].kind \in DeleteKinds
              /\ \/ x = red[k].target /\ red[k].perm
                 \/ red[k].kind = "DeleteGroup" /\ red[k].target \in Chain(HomeOf(x))
                 \/ x \in Entries /\ \A j \in 1 .. Len(red) : k <= j => red[j].target # x
  <1>1. Len(red) \in Nat /\ \A i \in 1 .. Len(red) : red[i] \in Members(red)
    BY Listed
  <1>2. n - 1 \in 0 .. Len(red)
    BY <1>1
  <1>3. PICK a \in 0 .. n - 1 : x \in Live(f[a])
    <2>1. CASE x \in Live(file)
      <3>1. 0 \in 0 .. n - 1 /\ f[0] = file
        BY <1>1 DEF Reaches
      <3>2. QED
        BY <2>1, <3>1
    <2>2. CASE x \notin Live(file)
      <3>1. PICK i \in 1 .. Len(red) : i < n /\ red[i].kind \in CreateKinds /\ red[i].target = x
        BY <2>2
      <3>2. i \in 1 .. n - 1 /\ i \in 0 .. n - 1
        BY <1>1, <3>1
      <3>3. x \in Live(f[i])
        BY <3>1, <3>2 DEF Reaches, Performs, Places
      <3>4. QED
        BY <3>2, <3>3
    <2>3. QED
      BY <2>1, <2>2
  <1> SUFFICES ASSUME x \notin Live(f[n - 1])
               PROVE  \E k \in 1 .. Len(red) :
                        /\ k < n /\ red[k].kind \in DeleteKinds
                        /\ \/ x = red[k].target /\ red[k].perm
                           \/ red[k].kind = "DeleteGroup" /\ red[k].target \in Chain(HomeOf(x))
                           \/ x \in Entries /\ \A j \in 1 .. Len(red) : k <= j => red[j].target # x
    OBVIOUS
  <1>4. PICK k \in 1 .. n - 1 : x \in Live(f[k - 1]) /\ x \notin Live(f[k])
    <2> SUFFICES ASSUME \A k \in 1 .. n - 1 : x \in Live(f[k - 1]) => x \in Live(f[k])
                 PROVE  FALSE
      OBVIOUS
    <2> DEFINE Good == {b \in Nat : a + b <= n - 1 => x \in Live(f[a + b])}
    <2>1. 0 \in Good
      <3>1. a + 0 = a
        BY <1>1
      <3>2. QED
        BY <1>3, <3>1
    <2>2. ASSUME NEW b \in Nat, b \in Good PROVE b + 1 \in Good
      <3> SUFFICES ASSUME a + (b + 1) <= n - 1 PROVE x \in Live(f[a + (b + 1)])
        OBVIOUS
      <3>1. PICK k \in 1 .. n - 1 : k = a + (b + 1) /\ k - 1 = a + b
        BY <1>1
      <3>2. x \in Live(f[k - 1])
        BY <1>1, <2>2, <3>1
      <3>3. x \in Live(f[k])
        BY <3>2
      <3>4. QED
        BY <3>1, <3>3
    <2> HIDE DEF Good
    <2>3. Nat \subseteq Good
      BY <2>1, <2>2, CountingUp
    <2>4. PICK b : b = (n - 1) - a
      OBVIOUS
    <2>5. b \in Nat /\ a + b = n - 1
      BY <1>1, <2>4
    <2>6. b \in Good
      BY <2>3, <2>5
    <2>7. x \in Live(f[n - 1])
      BY <1>1, <2>5, <2>6 DEF Good
    <2>8. QED
      BY <2>7
  <1>5. k \in 1 .. Len(red) /\ k < n /\ k - 1 \in 0 .. n - 1
    BY <1>1
  <1>6. PICK tree, after : /\ tree = f[k - 1] /\ after = f[k]
                           /\ Follows(file, tree, Past(red, k - 1)) /\ Arrives(file, tree, Past(red, k - 1))
                           /\ Performs(tree, after, red[k])
    BY <1>5 DEF Reaches
  <1>7. x \in Live(tree) /\ x \notin Live(after) /\ IsVault(tree)
    BY <1>4, <1>6 DEF Follows
  <1>8. /\ red[k].kind \in DeleteKinds
        /\ x = red[k].target \/ x \in Subtree(tree.node, red[k].target)
    BY <1>6, <1>7 DEF Performs, Places
  <1>9. CASE x = red[k].target
    <2>1. red[k].perm \/ BinEnabled
      BY <1>1, <1>5, <1>8, DeletedIsShown DEF Performable
    <2>2. red[k].perm
      BY <1>6, <1>7, <1>8, <2>1 DEF Performs, Discards
    <2>3. QED
      BY <1>5, <1>8, <1>9, <2>2
  <1>10. CASE x # red[k].target /\ red[k].kind = "DeleteGroup"
    <2>1. InABin(tree, Past(red, k - 1))
      <3>1. InABin(f[k - 1], Past(red, k - 1))
        BY <1>2, <1>5, InABinSoFar
      <3>2. QED
        BY <1>6, <3>1
    <2>2. \/ x \in Under(red[k].target)
          \/ x \in Entries /\ \A j \in 1 .. Len(red) : k <= j => red[j].target # x
      BY <1>5, <1>6, <1>8, <1>10, <2>1, SubtreeOfTheGone
    <2>3. x \in Under(red[k].target) => red[k].target \in Chain(HomeOf(x))
      BY DEF Under, HomeOf
    <2>4. QED
      BY <1>5, <1>8, <1>10, <2>2, <2>3
  <1>11. CASE x # red[k].target /\ red[k].kind # "DeleteGroup"
    <2>1. red[k].target \in Entries
      <3>1. red[k].kind = "DeleteEntry"
        BY <1>8, <1>11 DEF DeleteKinds
      <3>2. Typed(red[k])
        BY <1>1, <1>5, Listed
      <3>3. QED
        BY <3>1, <3>2 DEF Typed
    <2>2. PICK S : S = {red[k].target}
      OBVIOUS
    <2>3. \A y \in Subtree(tree.node, red[k].target) : y \in DOMAIN tree.node /\ tree.node[y].home \in S => y \in S
      <3>1. \A y \in DOMAIN tree.node : tree.node[y].home \in Homes
        BY <1>7 DEF IsVault, Live
      <3>2. Homes \cap Entries = {}
        BY StagingAssumption DEF Homes
      <3>3. QED
        BY <2>1, <2>2, <3>1, <3>2
    <2>4. IsFiniteSet(DOMAIN tree.node)
      BY <1>7 DEF IsVault, Live
    <2>5. Subtree(tree.node, red[k].target) \subseteq S
      BY <2>2, <2>3, <2>4, SubtreeStays
    <2>6. QED
      BY <1>8, <1>11, <2>2, <2>5
  <1>12. QED
    BY <1>9, <1>10, <1>11

(* So what an operation is about is there when its turn comes.             *)
LEMMA TargetIsThere ==
  ASSUME Performable, NEW f, NEW n \in 1 .. Len(red), Reaches(file, red, f, n - 1),
         red[n].kind \notin CreateKinds
  PROVE  red[n].target \in Live(f[n - 1]) \ {Root}
  <1>1. /\ Log(chg.ops) /\ Len(red) \in Nat /\ DOMAIN red = 1 .. Len(red)
        /\ \A i, j \in 1 .. Len(red) : i < j => red[i] # red[j]
        /\ \A i \in 1 .. Len(red) : red[i] \in Members(red) /\ red[i] \in Reduction(chg.ops)
    BY Listed
  <1>2. PICK x : x = red[n].target /\ x \in DOMAIN view
    BY Listed
  <1>3. x # Root
    BY <1>2, RowsAreFinite DEF Performable
  <1>4. x \in Live(file) \/ \E i \in 1 .. Len(red) : i < n /\ red[i].kind \in CreateKinds /\ red[i].target = x
    <2> SUFFICES ASSUME x \notin Live(file)
                 PROVE  \E i \in 1 .. Len(red) : i < n /\ red[i].kind \in CreateKinds /\ red[i].target = x
      OBVIOUS
    <2>1. x \in Targets(OfKind(Members(red), CreateKinds))
      BY <1>2, RowsShown DEF Performable
    <2>2. PICK i \in 1 .. Len(red) : red[i].kind \in CreateKinds /\ red[i].target = x
      BY <1>1, <2>1 DEF Targets, OfKind, Members
    <2>3. i # n
      BY <2>2
    <2>4. i < n
      BY <1>2, <2>2, <2>3, CreatedFirst
    <2>5. QED
      BY <2>2, <2>4
  <1>5. ASSUME NEW k \in 1 .. Len(red), k < n, red[k].kind \in DeleteKinds,
               \/ x = red[k].target /\ red[k].perm
               \/ red[k].kind = "DeleteGroup" /\ red[k].target \in Chain(HomeOf(x))
               \/ x \in Entries /\ \A j \in 1 .. Len(red) : k <= j => red[j].target # x
        PROVE  FALSE
    <2>1. CASE x = red[k].target /\ red[k].perm
      <3>1. PICK r \in Reduction(chg.ops), d \in Reduction(chg.ops) : r = red[n] /\ d = red[k]
        BY <1>1
      <3>2. Log(chg.ops) /\ d.kind \in DeleteKinds /\ d.target = r.target
        BY <1>1, <1>2, <1>5, <2>1, <3>1
      <3>3. r = d \/ ~d.perm
        BY ONLY <3>2, r \in Reduction(chg.ops), d \in Reduction(chg.ops), NothingElseOfIt, Zenon
      <3>4. r # d
        BY <1>1, <1>5, <3>1
      <3>5. QED
        BY <2>1, <3>1, <3>3, <3>4
    <2>2. CASE red[k].kind = "DeleteGroup" /\ red[k].target \in Chain(HomeOf(x))
      BY <1>1, <1>2, <1>5, <2>2 DEF Performable, ActsInsideTheGone
    <2>3. CASE \A j \in 1 .. Len(red) : k <= j => red[j].target # x
      <3>1. k <= n
        BY <1>1, <1>5
      <3>2. QED
        BY <1>2, <2>3, <3>1
    <2>4. QED
      BY <1>5, <2>1, <2>2, <2>3
  <1>6. x \in Live(f[n - 1])
    BY <1>2, <1>4, <1>5, StillThere
  <1>7. QED
    BY <1>2, <1>3, <1>6

(* And so is what it puts its target in.                                   *)
LEMMA FolderIsThere ==
  ASSUME Performable, NEW f, NEW n \in 1 .. Len(red), Reaches(file, red, f, n - 1)
  PROVE  FindGroup(f[n - 1], red[n].parent)
  <1>1. /\ Len(red) \in Nat /\ DOMAIN red = 1 .. Len(red)
        /\ \A i \in 1 .. Len(red) : red[i] \in Members(red) /\ Typed(red[i])
    BY Listed
  <1>2. PICK p : p = red[n].parent
    OBVIOUS
  <1>3. CASE p \in {None, Root}
    <2>1. n - 1 \in 0 .. n - 1
      BY <1>1
    <2>2. IsVault(f[n - 1])
      BY <2>1 DEF Reaches, Follows
    <2>3. Resolve(p) = Root /\ Root \in Live(f[n - 1])
      BY <1>3, <2>2 DEF Resolve, IsVault
    <2>4. QED
      BY <1>2, <2>3, StagingAssumption DEF FindGroup, Has, IsEntry
  <1>4. CASE p \notin {None, Root}
    <2>1. /\ p \notin Entries /\ p \in DOMAIN view
          /\ p \in Live(file) \/ \E i \in 1 .. Len(red) : i < n /\ red[i].kind \in CreateKinds /\ red[i].target = p
      BY <1>2, <1>4, FilledAfterwards
    <2>2. p \in Chain(p) /\ Chain(HomeOf(p)) \subseteq Chain(p)
      BY <2>1, ChainAbove, RowsAreFinite DEF Performable
    <2>3. ASSUME NEW k \in 1 .. Len(red), k < n, red[k].kind \in DeleteKinds,
                 p = red[k].target \/ (red[k].kind = "DeleteGroup" /\ red[k].target \in Chain(HomeOf(p)))
          PROVE  FALSE
      <3>1. red[k].kind = "DeleteGroup"
        BY <1>1, <2>1, <2>3 DEF Typed, DeleteKinds
      <3>2. red[k].target \in Chain(red[n].parent)
        BY <1>2, <2>2, <2>3
      <3>3. QED
        BY <1>1, <2>3, <3>1, <3>2 DEF Performable, ActsInsideTheGone
    <2>4. p \in Live(f[n - 1])
      BY <2>1, <2>3, StillThere
    <2>5. Resolve(p) = p
      BY <1>4 DEF Resolve
    <2>6. QED
      BY <1>2, <2>1, <2>4, <2>5 DEF FindGroup, Has, IsEntry
  <1>5. QED
    BY <1>3, <1>4

(* Two operations of different targets are operations of two targets.      *)
LEMMA TwoTargets ==
  ASSUME NEW ops, IsFiniteSet(ops), NEW one \in ops, NEW other \in ops, one.target # other.target
  PROVE  Cardinality(Targets(ops)) > 1
  <1>1. PICK T : T = Targets(ops)
    OBVIOUS
  <1>2. PICK f : f = [op \in ops |-> op.target]
    OBVIOUS
  <1>3. f \in Surjection(ops, T)
    BY <1>1, <1>2 DEF Surjection, Targets
  <1>4. IsFiniteSet(T)
    BY <1>3, FS_Surjection
  <1>5. PICK A, b : A = {one.target} /\ b = other.target
    OBVIOUS
  <1>6. IsFiniteSet(A) /\ Cardinality(A) = 1 /\ b \notin A
    BY <1>5, FS_Singleton
  <1>7. Cardinality(A \cup {b}) = Cardinality(A) + 1
    BY <1>6, FS_AddElement
  <1>8. A \cup {b} \subseteq T
    BY <1>1, <1>5 DEF Targets
  <1>9. Cardinality(T) \in Nat /\ Cardinality(A \cup {b}) <= Cardinality(T)
    BY <1>4, <1>8, FS_Subset, FS_CardinalityType
  <1>10. QED
    BY <1>1, <1>6, <1>7, <1>9

(* A folder is moved into none that is inside it by now: of those it holds  *)
(* none but itself was moved, so they are shown under it too, or under a   *)
(* folder that was deleted into it with the recycle bin.                   *)
LEMMA MovedOutside ==
  ASSUME Performable, NEW n \in 1 .. Len(red), red[n].kind = "MoveGroup", NEW tree,
         Follows(file, tree, Past(red, n - 1)), Arrives(file, tree, Past(red, n - 1)),
         red[n].target \in Live(tree)
  PROVE  Resolve(red[n].parent) \notin Subtree(tree.node, red[n].target)
  <1>1. /\ IsFiniteSet(DOMAIN view) /\ None \notin DOMAIN view /\ Root \notin DOMAIN view
        /\ IsVault(tree) /\ IsFiniteSet(DOMAIN tree.node)
        /\ Current /\ AllTyped(chg) /\ Whereabouts(file, chg.ops)
    BY RowsAreFinite DEF Performable, Follows, IsVault, Live
  <1>2. /\ Len(red) \in Nat /\ DOMAIN red = 1 .. Len(red) /\ Log(chg.ops)
        /\ \A r \in Members(red) : /\ r \in Reduction(chg.ops) /\ Typed(r) /\ Composed(On(chg.ops, r.target), r)
                                   /\ r.target \in DOMAIN view
        /\ \A i \in 1 .. Len(red) : red[i] \in Members(red)
    BY Listed
  <1>3. PICK op : op = red[n] /\ op \in Members(red) /\ op.kind \in MoveKinds
    BY <1>2 DEF MoveKinds
  <1>4. PICK t, p : t = op.target /\ p = op.parent /\ t \in DOMAIN view /\ t \in Live(tree)
    BY <1>2, <1>3
  <1>5. p # None /\ p # t
    <2>1. PICK put \in On(chg.ops, t) : put.kind = op.kind /\ put.parent = p
      BY <1>2, <1>3, <1>4 DEF Composed
    <2>2. put \in chg.ops /\ put.target = t
      BY DEF On
    <2>3. QED
      BY <1>1, <1>3, <2>1, <2>2 DEF Whereabouts, Footing
  <1>6. CASE p = Root
    <2>1. Root \in DOMAIN tree.node /\ tree.node[Root].home \notin DOMAIN tree.node
      BY <1>1, StagingAssumption DEF IsVault, Live, Ids
    <2>2. Root # t
      BY <1>1, <1>4
    <2>3. Root \notin Subtree(tree.node, t)
      BY <1>1, <1>4, <2>1, <2>2, SubtreeIsInside DEF Live
    <2>4. QED
      BY <1>3, <1>4, <1>5, <1>6, <2>3 DEF Resolve
  <1>7. CASE p # Root
    <2>1. p \notin Entries /\ p \in DOMAIN view
      BY <1>3, <1>4, <1>5, <1>7, FilledAfterwards
    <2>2. p \in Chain(p) /\ Chain(HomeOf(p)) \subseteq Chain(p)
      BY <1>1, <2>1, ChainAbove
    <2>3. t \notin Chain(p)
      <3>1. view[t].home = p
        BY <1>1, <1>3, <1>4, <2>1, RowHomeFrom
      <3>2. QED
        BY <1>4, <3>1 DEF Performable, NotATree, HomeOf
    <2> DEFINE Binnings == {d \in Past(red, n - 1) : d.kind = "DeleteGroup"}
    <2>4. ASSUME NEW d \in Binnings PROVE d.target \in DOMAIN view /\ d.target \notin Chain(p)
      <3>1. PICK i \in 1 .. n - 1 : d = red[i]
        BY DEF Past
      <3>2. i \in 1 .. Len(red) /\ i < n
        BY <1>2
      <3>3. d.target \in DOMAIN view
        BY <1>2, <3>1, <3>2
      <3>4. d.target \notin Chain(red[n].parent)
        BY <1>2, <3>1, <3>2 DEF Performable, ActsInsideTheGone
      <3>5. QED
        BY <1>3, <1>4, <3>3, <3>4
    <2>5. PICK tops : tops = {t} \cup {d.target : d \in Binnings}
      OBVIOUS
    <2>6. tops \subseteq DOMAIN view /\ tops \cap Chain(p) = {}
      BY <1>4, <2>3, <2>4, <2>5
    <2>7. PICK S : S = Entries \cup tops \cup UNION {Under(top) : top \in tops}
      OBVIOUS
    <2>8. p \notin S
      <3> SUFFICES ASSUME NEW top \in tops, p \in Under(top) PROVE FALSE
        BY <2>1, <2>2, <2>6, <2>7
      <3>1. top \in Chain(HomeOf(p))
        BY DEF Under, HomeOf
      <3>2. QED
        BY <2>2, <2>6, <3>1
    <2>9. ASSUME NEW x \in Live(tree), tree.node[x].home \in S PROVE x \in S
      <3> SUFFICES ASSUME x \notin Entries, x # t PROVE x \in S
        BY <2>5, <2>7
      <3>1. PICK h : h = tree.node[x].home /\ h \in S
        BY <2>9
      <3>2. h \notin Entries
        BY <1>1, <3>1, StagingAssumption DEF IsVault, Homes
      <3>3. PICK top \in tops : h \in {top} \cup Under(top)
        BY <2>7, <3>1, <3>2
      <3>4. h \in DOMAIN view /\ top \in DOMAIN view
        BY <2>6, <3>3 DEF Under
      <3>5. /\ x \in DOMAIN view
            /\ \/ view[x].home = h
               \/ \E d \in Past(red, n - 1) : d.kind \in DeleteKinds /\ d.target = x
               \/ \E j \in 1 .. Len(red) : red[j].kind \in MoveKinds /\ red[j].target = x
        BY <3>1, <3>4, WhereItIsNow
      <3>6. CASE view[x].home = h
        <4>1. x \in Under(top)
          BY <1>1, <3>3, <3>4, <3>5, <3>6, UnderToo
        <4>2. QED
          BY <2>7, <4>1
      <3>7. ASSUME NEW d \in Past(red, n - 1), d.kind \in DeleteKinds, d.target = x PROVE x \in S
        <4>1. Typed(d)
          BY <1>2 DEF Past
        <4>2. d \in Binnings
          BY <3>7, <4>1 DEF Typed, DeleteKinds
        <4>3. QED
          BY <2>5, <2>7, <3>7, <4>2
      <3>8. ASSUME NEW j \in 1 .. Len(red), red[j].kind \in MoveKinds, red[j].target = x PROVE FALSE
        <4>1. red[j].kind = "MoveGroup"
          BY <1>2, <3>8 DEF Typed, MoveKinds
        <4>2. PICK one \in On(chg.ops, t) : one.kind = "MoveGroup"
          BY <1>2, <1>3, <1>4 DEF Composed
        <4>3. PICK other \in On(chg.ops, x) : other.kind = "MoveGroup"
          BY <1>2, <3>8, <4>1 DEF Composed
        <4>4. PICK moves : moves = OfKind(chg.ops, {"MoveGroup"})
          OBVIOUS
        <4>5. one \in moves /\ other \in moves /\ one.target # other.target
          BY <4>2, <4>3, <4>4 DEF OfKind, On
        <4>6. IsFiniteSet(chg.ops) /\ moves \subseteq chg.ops
          BY <1>2, <4>4, NumberedIsFinite DEF Log, OfKind
        <4>7. Cardinality(Targets(moves)) > 1
          BY <4>5, <4>6, FS_Subset, TwoTargets
        <4>8. QED
          BY <4>4, <4>7 DEF Performable, FoldersMovedTogether
      <3>9. QED
        BY <3>5, <3>6, <3>7, <3>8
    <2>10. Subtree(tree.node, t) \subseteq S
      <3>1. t \in S
        BY <2>5, <2>7
      <3>2. \A x \in Subtree(tree.node, t) : x \in DOMAIN tree.node /\ tree.node[x].home \in S => x \in S
        BY <2>9 DEF Live
      <3>3. QED
        BY <1>1, <3>1, <3>2, SubtreeStays
    <2>11. QED
      BY <1>3, <1>4, <1>5, <2>8, <2>10 DEF Resolve
  <1>8. QED
    BY <1>6, <1>7

(* A folder that is deleted is not in the recycle bin it goes to, nor is    *)
(* the bin in it: one that is shown is the bin of the file, and a new one  *)
(* is in the root group, where nothing is in it yet.                       *)
LEMMA BinnedOutside ==
  ASSUME BinsLast, Performable, NEW n \in 1 .. Len(red), red[n].kind = "DeleteGroup", NEW tree,
         Follows(file, tree, Past(red, n - 1)), Arrives(file, tree, Past(red, n - 1)),
         InABin(tree, Past(red, n - 1)), red[n].target \in Live(tree),
         NEW binned, binned = RecycleBin(tree)
  PROVE  /\ binned.node[red[n].target].home # binned.bin
         /\ binned.bin \notin Subtree(binned.node, red[n].target)
  <1>1. /\ IsFiniteSet(DOMAIN view) /\ None \notin DOMAIN view /\ Root \notin DOMAIN view
        /\ IsVault(tree) /\ IsVault(file) /\ Current /\ AllTyped(chg) /\ Whereabouts(file, chg.ops)
    BY RowsAreFinite DEF Performable, Follows
  <1>2. /\ Len(red) \in Nat /\ DOMAIN red = 1 .. Len(red) /\ Due(file, red)
        /\ \A i \in 1 .. Len(red) : red[i] \in Members(red)
    BY Listed
  <1>3. PICK g : g = red[n].target /\ g \in Live(tree) /\ g \in Live(file) \ {Root} /\ g \in DOMAIN view
    BY <1>1, <1>2, DeletedIsShown DEF DeleteKinds
  <1>4. /\ IsVault(binned) /\ binned.bin \in Live(binned) \cap Bins
        /\ Live(tree) \subseteq Live(binned)
        /\ binned.bin # tree.bin => binned.bin \notin Live(tree)
        /\ \A x \in Live(tree) : binned.node[x] = tree.node[x]
        /\ \A x \in Live(binned) \ Live(tree) : binned.node[x].home = Root
    BY <1>1, RecycleBinIsThere
  <1>5. PICK bin : bin = binned.bin /\ bin \in Bins /\ bin \notin Entries /\ bin # Root /\ bin # None
    BY <1>4, StagingAssumption
  <1>6. ASSUME bin = file.bin, bin \in {g} \cup Under(g) \/ g \in Under(bin) PROVE FALSE
    <2>1. red[n] \in Reduced({"DeleteGroup"})
      BY <1>2 DEF Reduced, OfKind
    <2>2. QED
      BY <1>3, <1>5, <1>6, <2>1 DEF Performable, BinItselfDeleted
  <1>7. CASE bin \in Live(tree)
    <2>1. tree.bin = bin
      BY <1>4, <1>5, <1>7
    <2>2. binned = tree
      BY <1>5, <1>7, <2>1 DEF RecycleBin, FindGroup, Has, Resolve, IsEntry
    <2>3. ASSUME tree.node[g].home = bin PROVE FALSE
      <3>1. g \notin Targets(OfKind(Past(red, n - 1), WayOut))
        <4> SUFFICES ASSUME NEW i \in 1 .. n - 1, red[i].kind \in WayOut, red[i].target = g PROVE FALSE
          BY DEF Targets, OfKind, Past
        <4>1. i \in 1 .. Len(red) /\ i < n
          BY <1>2
        <4>2. QED
          BY <1>2, <1>3, <4>1 DEF Due, WayOut, DeleteKinds
      <3>2. file.node[g].home = bin
        BY <1>3, <2>3, <3>1 DEF Follows
      <3>3. bin \in Live(file)
        BY <1>1, <1>3, <3>2 DEF IsVault
      <3>4. bin = file.bin
        BY <2>1, <3>3 DEF InABin
      <3>5. g \notin Targets(OfKind(Members(red), MoveKinds))
        <4> SUFFICES ASSUME NEW i \in 1 .. Len(red), red[i].kind \in MoveKinds, red[i].target = g PROVE FALSE
          BY <1>2 DEF Targets, OfKind, Members
        <4>1. i # n
          BY DEF MoveKinds
        <4>2. i < n \/ n < i
          BY <1>2, <4>1
        <4>3. QED
          BY <1>2, <1>3, <4>2 DEF Due, WayOut, DeleteKinds
      <3>6. g \notin Targets(OfKind(Members(red), CreateKinds))
        <4> SUFFICES ASSUME NEW i \in 1 .. Len(red), red[i].kind \in CreateKinds, red[i].target = g PROVE FALSE
          BY <1>2 DEF Targets, OfKind, Members
        <4>1. QED
          BY <1>2, <1>3 DEF Due
      <3>7. view[g].home = bin
        BY <1>1, <1>3, <3>2, <3>5, <3>6, RowHomeFrom
      <3>8. bin \in Chain(view[g].home)
        BY <1>5, <3>7 DEF Chain
      <3>9. g \in Under(bin)
        BY <1>3, <3>8 DEF Under
      <3>10. QED
        BY <1>6, <3>4, <3>9
    <2>4. ASSUME bin \in Subtree(tree.node, g) PROVE FALSE
      <3>1. bin \in {g} \cup Under(g)
        BY <1>3, <1>5, <2>4, SubtreeOfTheGone
      <3>2. bin \in DOMAIN view
        BY <1>3, <3>1 DEF Under
      <3>3. tree.bin = file.bin
        BY <1>1, <2>1, <3>2, ShownBin DEF InABin
      <3>4. QED
        BY <1>6, <2>1, <3>1, <3>3
    <2>5. QED
      BY <1>3, <1>5, <2>2, <2>3, <2>4
  <1>8. CASE bin \notin Live(tree)
    <2>1. tree.node[g].home \in Live(tree) /\ binned.node[g] = tree.node[g]
      BY <1>1, <1>3, <1>4 DEF IsVault
    <2>2. PICK node : node = binned.node
      OBVIOUS
    <2>3. IsFiniteSet(DOMAIN node) /\ bin \in DOMAIN node /\ node[bin].home = Root /\ g \in DOMAIN node
      BY <1>3, <1>4, <1>5, <1>8, <2>2 DEF IsVault, Live
    <2>4. None \notin DOMAIN node /\ node[Root].home = None
      BY <1>4, <2>2, StagingAssumption DEF IsVault, Ids, Live
    <2>5. PICK S : S = DOMAIN node \ {bin, Root}
      OBVIOUS
    <2>6. g \in S
      BY <1>3, <1>8, <2>3, <2>5
    <2>7. \A x \in Subtree(node, g) : x \in DOMAIN node /\ node[x].home \in S => x \in S
      BY <2>3, <2>4, <2>5
    <2>8. Subtree(node, g) \subseteq S
      BY <2>3, <2>6, <2>7, SubtreeStays
    <2>9. QED
      BY <1>3, <1>5, <1>8, <2>1, <2>2, <2>5, <2>8
  <1>9. QED
    BY <1>7, <1>8

(* So each operation, when its turn comes, can be performed.               *)
LEMMA NextIsPerformed ==
  ASSUME BinsLast, Performable, NEW f, NEW n \in 1 .. Len(red), Reaches(file, red, f, n - 1)
  PROVE  ApplyOne(f[n - 1], red[n]).ok
  <1>1. /\ Log(chg.ops) /\ Len(red) \in Nat
        /\ red[n] \in Reduction(chg.ops) /\ Typed(red[n]) /\ Composed(On(chg.ops, red[n].target), red[n])
    BY Listed
  <1>2. n - 1 \in 0 .. n - 1 /\ n - 1 \in 0 .. Len(red)
    BY <1>1
  <1>3. InABin(f[n - 1], Past(red, n - 1))
    BY <1>2, InABinSoFar
  <1>4. PICK tree, op, t, p :
          /\ tree = f[n - 1] /\ op = red[n] /\ t = op.target /\ p = op.parent
          /\ Follows(file, tree, Past(red, n - 1)) /\ Arrives(file, tree, Past(red, n - 1))
    BY <1>2 DEF Reaches
  <1>5. FindGroup(tree, p)
    BY <1>4, FolderIsThere
  <1>6. op.kind \notin CreateKinds => t \in Live(tree) \ {Root}
    BY <1>4, TargetIsThere
  <1>7. t \in Ids /\ t # None /\ Resolve(t) = t
    <2>1. t \in Ids
      BY <1>1, <1>4 DEF Typed
    <2>2. t # None
      BY <2>1, StagingAssumption DEF Ids
    <2>3. QED
      BY <2>1, <2>2 DEF Resolve
  <1>8. op.kind \in {"CreateGroup", "RenameGroup"} => op.name # None
    <2> SUFFICES ASSUME op.kind \in {"CreateGroup", "RenameGroup"} PROVE op.name # None
      OBVIOUS
    <2>1. PICK r \in Reduction(chg.ops) : r = op
      BY <1>1, <1>4
    <2>2. PICK put \in chg.ops : put.kind \in {"CreateGroup", "RenameGroup"} /\ put.name = r.name
      BY <1>1, <2>1, NothingElseOfIt
    <2>3. QED
      BY <2>1, <2>2 DEF Performable, Whereabouts, Footing
  <1>9. CASE op.kind = "CreateEntry"
    <2>1. ApplyOne(tree, op) = CreateEntry(tree, t, p, op.after)
      BY <1>4, <1>9 DEF ApplyOne
    <2>2. QED
      BY <1>4, <1>5, <2>1 DEF CreateEntry, Done
  <1>10. CASE op.kind = "EditEntry"
    <2>1. ApplyOne(tree, op) = UpdateEntry(tree, t, op.after)
      BY <1>4, <1>10 DEF ApplyOne
    <2>2. FindEntry(tree, t)
      BY <1>1, <1>4, <1>6, <1>10 DEF FindEntry, Has, IsEntry, Typed, CreateKinds
    <2>3. QED
      BY <1>4, <2>1, <2>2 DEF UpdateEntry, Done
  <1>11. CASE op.kind = "MoveEntry"
    <2>1. ApplyOne(tree, op) = MoveEntry(tree, t, p)
      BY <1>4, <1>11 DEF ApplyOne
    <2>2. FindEntry(tree, t)
      BY <1>1, <1>4, <1>6, <1>11 DEF FindEntry, Has, IsEntry, Typed, CreateKinds
    <2>3. QED
      BY <1>4, <1>5, <2>1, <2>2 DEF MoveEntry, Done
  <1>12. CASE op.kind = "DeleteEntry"
    <2>1. ApplyOne(tree, op) = DeleteEntry(tree, t, op.perm)
      BY <1>4, <1>12 DEF ApplyOne
    <2>2. FindEntry(tree, t)
      BY <1>1, <1>4, <1>6, <1>12 DEF FindEntry, Has, IsEntry, Typed, CreateKinds
    <2>3. QED
      BY <1>4, <2>1, <2>2 DEF DeleteEntry, Done
  <1>13. ASSUME op.kind \in {"RenameGroup", "MoveGroup", "DeleteGroup"} PROVE FindGroup(tree, t) /\ t # Root
    BY <1>1, <1>4, <1>6, <1>7, <1>13, StagingAssumption DEF FindGroup, Has, IsEntry, Typed, CreateKinds
  <1>14. CASE op.kind = "CreateGroup"
    <2>1. ApplyOne(tree, op) = CreateGroup(tree, t, p, op.name)
      BY <1>4, <1>14 DEF ApplyOne
    <2>2. QED
      BY <1>4, <1>5, <1>8, <1>14, <2>1 DEF CreateGroup, Done
  <1>15. CASE op.kind = "RenameGroup"
    <2>1. ApplyOne(tree, op) = RenameGroup(tree, t, op.name)
      BY <1>4, <1>15 DEF ApplyOne
    <2>2. QED
      BY <1>4, <1>8, <1>13, <1>15, <2>1 DEF RenameGroup, Done
  <1>16. CASE op.kind = "MoveGroup"
    <2>1. ApplyOne(tree, op) = MoveGroup(tree, t, p)
      BY <1>4, <1>16 DEF ApplyOne
    <2>2. Resolve(p) \notin Subtree(tree.node, t)
      BY <1>4, <1>6, <1>16, MovedOutside DEF CreateKinds
    <2>3. t # p
      <3>1. PICK put \in On(chg.ops, t) : put.kind = op.kind /\ put.parent = p
        BY <1>1, <1>4, <1>16 DEF Composed, MoveKinds
      <3>2. put \in chg.ops /\ put.target = t
        BY DEF On
      <3>3. QED
        BY <1>16, <3>1, <3>2 DEF Performable, Whereabouts, Footing, MoveKinds
    <2>4. QED
      BY <1>4, <1>5, <1>7, <1>13, <1>16, <2>1, <2>2, <2>3 DEF MoveGroup, Done
  <1>17. CASE op.kind = "DeleteGroup"
    <2>1. ApplyOne(tree, op) = DeleteGroup(tree, t, op.perm)
      BY <1>4, <1>17 DEF ApplyOne
    <2>2. PICK binned : binned = RecycleBin(tree)
      OBVIOUS
    <2>3. ~(binned.node[t].home = binned.bin \/ binned.bin \in Subtree(binned.node, t))
      BY <1>3, <1>4, <1>6, <1>17, <2>2, BinnedOutside DEF CreateKinds
    <2>4. QED
      BY <1>4, <1>7, <1>13, <1>17, <2>1, <2>2, <2>3 DEF DeleteGroup, Done
  <1>18. QED
    BY <1>1, <1>4, <1>9, <1>10, <1>11, <1>12, <1>14, <1>15, <1>16, <1>17 DEF Typed

(* And so can all of them, one after the other.                            *)
LEMMA SaveGoesThrough ==
  ASSUME BinsLast, Performable
  PROVE  Outcome.ok
  <1>1. PICK last \in Nat : /\ last = Len(red) /\ Due(file, red) /\ IsVault(file)
    BY Listed DEF Performable
  <1>2. PICK g : /\ Outcome = g[last] /\ g[0] = Done(file)
                 /\ \A n \in 1 .. last : g[n] = After(g[n - 1], red[n])
    <2>1. Len(red) \in Nat
      BY <1>1
    <2>2. \E g : /\ Apply(file, Source, red) = g[Len(red)] /\ g[0] = Done(file)
                 /\ \A n \in 1 .. Len(red) : g[n] = After(g[n - 1], red[n])
      BY <2>1, ApplySteps
    <2>3. QED
      BY <1>1, <2>2 DEF Outcome
  <1> DEFINE f == [n \in 0 .. last |-> g[n].tree]
  <1>3. f[0] = file /\ g[0].ok /\ \A n \in 0 .. last : f[n] = g[n].tree
    BY <1>2 DEF Done
  <1> HIDE DEF f
  <1> DEFINE Good == {n \in Nat : n <= last => g[n].ok /\ Reaches(file, red, f, n)}
  <1>4. 0 \in Good
    BY <1>1, <1>3, ReachesNone
  <1>5. ASSUME NEW n \in Nat, n \in Good PROVE n + 1 \in Good
    <2> SUFFICES ASSUME n + 1 <= last PROVE g[n + 1].ok /\ Reaches(file, red, f, n + 1)
      OBVIOUS
    <2>1. g[n].ok /\ Reaches(file, red, f, n) /\ n \in 0 .. last
      BY <1>5
    <2>2. PICK next : next = n + 1 /\ next - 1 = n /\ next \in 1 .. last /\ next \in 0 .. last
      OBVIOUS
    <2>3. ApplyOne(f[n], red[next]).ok
      BY <1>1, <2>1, <2>2, NextIsPerformed
    <2>4. f[n] = g[n].tree /\ f[next] = g[next].tree /\ g[next] = After(g[n], red[next])
      BY <1>2, <1>3, <2>1, <2>2
    <2>5. red[next].source = Source
      BY <1>1, <2>2 DEF Due, Typed
    <2>6. g[next] = ApplyOne(f[n], red[next])
      BY <2>1, <2>4, <2>5 DEF After
    <2>7. g[next].ok /\ f[next] = ApplyOne(f[n], red[next]).tree
      BY <2>3, <2>4, <2>6
    <2>8. Reaches(file, red, f, n + 1)
      BY <1>1, <2>1, <2>2, <2>3, <2>7, ReachesOne
    <2>9. QED
      BY <2>2, <2>7, <2>8
  <1> HIDE DEF Good
  <1>6. last \in Good
    BY <1>4, <1>5, CountingUp
  <1>7. QED
    BY <1>2, <1>6 DEF Good

(* The save goes through: the order of applyOrder is one in which every     *)
(* staged operation finds its target and its folder there, and no folder is *)
(* put inside itself, in whatever order the keys were used; but for the     *)
(* shapes of a staged set that SaveCanBePerformed names.                   *)
THEOREM SaveIsPerformed ==
  ASSUME BinsLast
  PROVE  Spec => []SaveCanBePerformed
  <1>1. Init => Settled /\ Whereabouts(file, chg.ops)
    BY SettledInit, WhereNothing DEF Init, EmptySet
  <1>2. Settled /\ Whereabouts(file, chg.ops) /\ [Next]_vars => Settled' /\ Whereabouts(file, chg.ops)'
    BY SettledStep, WhereStep DEF Settled
  <1>3. Settled /\ Whereabouts(file, chg.ops) => SaveCanBePerformed
    BY SaveGoesThrough DEF Settled, Performable, SaveCanBePerformed
  <1>4. QED
    BY <1>1, <1>2, <1>3, PTL DEF Spec
===============================================================================
