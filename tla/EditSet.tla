------------------------------ MODULE EditSet ------------------------------
(***************************************************************************)
(* The staged change set of internal/edit: what the reader has asked for,  *)
(* before any of it has touched a file.  The package is pure data, so the  *)
(* module is constant-level: a change set is a record [ops, seq], `ops`    *)
(* the log and `seq` the counter of Set.  The log is a set of operations   *)
(* because its slice order is the order of their Seq: Add appends with the *)
(* next number and every other method filters.                             *)
(*                                                                         *)
(* An entry's draft is [val, group]: `val` stands for every field that     *)
(* diffDrafts compares, `group` for GroupID, which it does not.            *)
(***************************************************************************)
EXTENDS Integers, Sequences, FiniteSets, FiniteSetsExt

CONSTANT None      \* a nil draft, an empty ID, an empty name

CreateKinds == {"CreateEntry", "CreateGroup"}
MoveKinds   == {"MoveEntry", "MoveGroup"}
DeleteKinds == {"DeleteEntry", "DeleteGroup"}

(* An operation of one kind on one target, its other fields empty.         *)
Op(kind, source, target) ==
  [seq |-> 0, kind |-> kind, source |-> source, target |-> target,
   parent |-> None, name |-> None, was |-> None,
   before |-> None, after |-> None, perm |-> FALSE]

EmptySet == [ops |-> {}, seq |-> 0]

(* Mutant: the number is the length of the log, so a reverted one returns.  *)
AddByLength(chg, op) ==
  LET n == Cardinality(chg.ops) + 1
  IN  [ops |-> chg.ops \cup {[op EXCEPT !.seq = n]}, seq |-> n]

Add(chg, op) ==
  [ops |-> chg.ops \cup {[op EXCEPT !.seq = chg.seq + 1]}, seq |-> chg.seq + 1]

-----------------------------------------------------------------------------
(* The reduction: one target's operations.                                 *)

On(ops, target)    == {op \in ops : op.target = target}
OfKind(ops, kinds) == {op \in ops : op.kind \in kinds}
Targets(ops)       == {op.target : op \in ops}

Earliest(ops) == CHOOSE op \in ops : \A other \in ops : op.seq <= other.seq
Latest(ops)   == CHOOSE op \in ops : \A other \in ops : op.seq >= other.seq

(* A creation or a deletion counts as it was last staged.                  *)
LastOf(ops) == IF ops = {} THEN {} ELSE {Latest(ops)}

(* Mutant: the values an edit started from are the last editor's.          *)
CollapsedFromLatest(ops) ==
  IF ops = {} THEN {}
  ELSE {[Latest(ops) EXCEPT !.seq = Earliest(ops).seq, !.was = Earliest(ops).was]}

(* Mutant: a later edit changes the date, and nothing else.                *)
CollapsedToEarliest(ops) == IF ops = {} THEN {} ELSE {Earliest(ops)}

(* Edits, moves and renames collapse to the latest one, dated and          *)
(* originating from the first.                                             *)
Collapsed(ops) ==
  IF ops = {} THEN {}
  ELSE {[Latest(ops) EXCEPT !.seq    = Earliest(ops).seq,
                            !.was    = Earliest(ops).was,
                            !.before = Earliest(ops).before]}

SamePlace(before, after) ==
  /\ before # None
  /\ after # None
  /\ before.val = after.val

ReduceTarget(ops) ==
  LET created == LastOf(OfKind(ops, {"CreateEntry"}))
      madeDir == LastOf(OfKind(ops, {"CreateGroup"}))
      edited  == Collapsed(OfKind(ops, {"EditEntry"}))
      moved   == Collapsed(OfKind(ops, MoveKinds))
      renamed == Collapsed(OfKind(ops, {"RenameGroup"}))
      deleted == LastOf(OfKind(ops, DeleteKinds))
      born    == {[c EXCEPT !.after = IF edited = {} THEN @ ELSE Latest(edited).after]
                    : c \in created}
                 \cup
                 {[c EXCEPT !.name = IF renamed = {} THEN @ ELSE Latest(renamed).name]
                    : c \in madeDir}
  IN  IF born # {}
      THEN IF deleted # {} THEN {} ELSE born \cup moved
      ELSE {e \in edited : /\ \A d \in deleted : ~d.perm
                           /\ ~SamePlace(e.before, e.after)}
           \cup {r \in renamed : deleted = {} /\ r.was # r.name}
           \cup {m \in moved : deleted = {} /\ m.was # m.parent}
           \cup deleted

-----------------------------------------------------------------------------
(* The reduction: the whole log.                                           *)

(* grow: the least set that holds `seed` and every creation staged inside  *)
(* a member of it.                                                         *)
Grow(ops, seed) ==
  LET creations == OfKind(ops, CreateKinds)
      Closed(S) == \A op \in creations : op.parent \in S => op.target \in S
      Holding   == {S \in {seed \cup T : T \in SUBSET Targets(creations)} : Closed(S)}
  IN  {t \in seed \cup Targets(creations) : \A S \in Holding : t \in S}

Cancelled(ops, reduced) ==
  LET creations == OfKind(ops, CreateKinds)
      doomed    == Targets(OfKind(reduced, {"DeleteGroup"}))
      unborn    == {op \in creations : op.target \notin Targets(reduced)}
      drowned   == {op \in creations : op.parent \in doomed}
  IN  Grow(ops, Targets(unborn \cup drowned))

SubsumeInsideDeletedFolders(ops) ==
  LET doomed == Targets(OfKind(ops, {"DeleteGroup"}))
  IN  {op \in ops : ~ /\ op.kind = "DeleteEntry"
                      /\ op.before # None
                      /\ op.before.group \in doomed}

(* Mutant: nothing orders a move before the deletion of what it leaves.    *)
PrecedesByParent(u, v) == u # v /\ u.kind = "CreateGroup" /\ v.parent = u.target

(* The two rules of applyOrder: a folder is created before anything names  *)
(* it as a parent, and a move leaves a folder before the folder goes.      *)
Precedes(u, v) ==
  /\ u # v
  /\ \/ u.kind = "CreateGroup" /\ v.parent = u.target
     \/ u.kind \in MoveKinds /\ v.kind = "DeleteGroup" /\ u.was = v.target

Ready(ops)  == {v \in ops : \A u \in ops : ~Precedes(u, v)}
Cyclic(ops) == \E S \in SUBSET ops : S # {} /\ Ready(S) = {}

ApplyOrder(ops) ==
  LET stuck == Cyclic(ops)
      order[left \in SUBSET ops] ==
        IF left = {} THEN <<>>
        ELSE LET next == Earliest(IF stuck THEN left ELSE Ready(left))
             IN  <<next>> \o order[left \ {next}]
  IN  order[ops]

Effective(ops) ==
  LET reduced == UNION {ReduceTarget(On(ops, t)) : t \in Targets(ops)}
      gone    == Cancelled(ops, reduced)
      kept    == {op \in reduced : op.target \notin gone /\ op.parent \notin gone}
  IN  ApplyOrder(SubsumeInsideDeletedFolders(kept))

-----------------------------------------------------------------------------
(* Taking back.                                                            *)

(* Mutant: what was staged into a folder outlives its creation.            *)
WithoutTargets(chg, undone) ==
  LET born == Targets(OfKind(undone, CreateKinds))
      gone == IF born = {} THEN {} ELSE Grow(chg.ops, born)
  IN  [chg EXCEPT !.ops = {op \in @ \ undone : op.target \notin gone}]

(* Reverting anything in `undone` that is a creation takes along           *)
(* everything staged against, or into, what will no longer exist.          *)
Without(chg, undone) ==
  LET born == Targets(OfKind(undone, CreateKinds))
      gone == IF born = {} THEN {} ELSE Grow(chg.ops, born)
  IN  [chg EXCEPT !.ops = {op \in @ \ undone : op.target \notin gone
                                            /\ op.parent \notin gone}]

Revert(chg, seq)          == Without(chg, {op \in chg.ops : op.seq = seq})
RevertTarget(chg, target) == Without(chg, On(chg.ops, target))

-----------------------------------------------------------------------------
(* What the surfaces ask of the reduced set.                               *)

Members(eff) == {eff[i] : i \in DOMAIN eff}

Deleting(state) == state \in {"Deleted", "Purged"}

StateOf(eff, target) ==
  LET mine  == On(Members(eff), target)
      of    == OfKind(mine, DeleteKinds)
      first == eff[Min({i \in DOMAIN eff : eff[i] \in mine})]
  IN  CASE mine = {} -> "Unchanged"
        [] OfKind(mine, CreateKinds) # {} -> "New"
        [] of # {} -> IF Latest(of).perm THEN "Purged" ELSE "Deleted"
        [] OTHER -> IF first.kind \in MoveKinds THEN "Moved" ELSE "Modified"

(* The sources with anything to save.                                      *)
Sources(eff) == {op.source : op \in Members(eff)}
=============================================================================
