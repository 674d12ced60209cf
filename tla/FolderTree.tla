------------------------------ MODULE FolderTree ------------------------------
(* The folder tree of the Vault tab (internal/tui/tree.go), over the vault as the *)
(* staged set makes it (project.go).  A vault is where each thing is and how its  *)
(* name sorts; a source root stands for the file's root group.                   *)
EXTENDS Integers, FiniteSets, SequencesExt

CONSTANTS
    Folders, Entries,   \* identities, those created in a session among them
    Root                \* the row of the source

Gone == "gone"          \* not in the vault
Items == Folders \cup Entries
Nodes == Folders \cup {Root}

\* What a source holds: where each item is, and the rank of its name.
Vaults == [at : [Items -> Nodes \cup {Gone}], name : [Items -> Nat]]

\* What is staged against each item: the folder a creation names, where a move
\* takes it, its new name, and whether it is to be deleted.
Unstaged == [made |-> "", to |-> "", name |-> 0, delete |-> FALSE]
Staged == [made : Nodes \cup {""}, to : Nodes \cup {""}, name : Nat, delete : BOOLEAN]

Present(v) == {i \in Items : v.at[i] # Gone}
FoldersOf(v) == {f \in Folders : v.at[f] # Gone}

\* The folders something is in, outwards; Root is in none.
Above(v, i) ==
    LET up[n \in Items] == IF v.at[n] \in FoldersOf(v) THEN {v.at[n]} \cup up[v.at[n]] ELSE {}
    IN up[i]

Beneath(v, f) == {i \in Present(v) : f \in Above(v, i)}

\* cancelled: a creation that is deleted again, or that was made in a folder on
\* its way out, is not in the set any more.
Cancelled(chg) ==
    LET out[i \in Items] ==
            /\ chg[i].made # ""
            /\ \/ chg[i].delete
               \/ chg[i].made \in Folders /\ (chg[chg[i].made].delete \/ out[chg[i].made])
    IN {i \in Items : out[i]}

\* project: creations first, then moves to a folder that has a row (a folder also
\* to the source's), then names; deletions stay, marked.
Project(file, chg) ==
    LET made == {i \in Items : chg[i].made # ""} \ Cancelled(chg)
        rows == FoldersOf(file) \cup (made \cap Folders)
        home(i) == IF file.at[i] = Gone /\ i \notin made THEN Gone
                   ELSE IF chg[i].to \in rows \/ (i \in Folders /\ chg[i].to = Root) THEN chg[i].to
                   ELSE IF i \in made THEN chg[i].made ELSE file.at[i]
    IN [at |-> [i \in Items |-> home(i)],
        name |-> [i \in Items |-> IF chg[i].name # 0 THEN chg[i].name ELSE file.name[i]]]

ByName(v, S) ==
    [k \in 1..Cardinality(S) |-> CHOOSE i \in S : Cardinality({j \in S : v.name[j] < v.name[i]}) = k - 1]

\* sortNodes and what hangs where: a thing no folder claims is on the source.
HomeOf(v, i) == IF v.at[i] \in Folders /\ v.at[v.at[i]] # Gone THEN v.at[i] ELSE Root
ChildrenOf(v, n) == {f \in Folders : v.at[f] # Gone /\ HomeOf(v, f) = n}
EntriesOf(v, n) == ByName(v, {e \in Entries : v.at[e] # Gone /\ HomeOf(v, e) = n})

\* visibleTree.
Visible(v, open) ==
    LET walk[n \in Nodes] ==
            LET kids == ByName(v, ChildrenOf(v, n)) IN
            <<n>> \o IF n \in open THEN FlattenSeq([k \in DOMAIN kids |-> walk[kids[k]]]) ELSE <<>>
    IN walk[Root]

\* setExpanded over a branch, the node itself included.
Branch(v, n) == IF n = Root THEN FoldersOf(v) \cup {Root} ELSE {n} \cup (Beneath(v, n) \cap Folders)

SetExpanded(v, open, n, on) == IF on THEN open \cup Branch(v, n) ELSE open \ Branch(v, n)

\* anyOpen: an open folder with nothing under it does not count.
AnyOpen(v, open, n) == \E f \in Branch(v, n) \cap open : ChildrenOf(v, f) # {}

\* The nearest row left on screen, from a node outwards (the climb of expandAll).
Nearest(v, open, n) ==
    LET rows == ToSet(Visible(v, open))
        climb[f \in Nodes] == IF f \in rows THEN f ELSE climb[HomeOf(v, f)]
    IN climb[n]

\* Where the row that shows an item is: a folder's own, the folder's for an entry;
\* 0 when it is hidden.
RowOf(v, open, i) ==
    SelectInSeq(Visible(v, open), LAMBDA n : n = (IF i \in Entries THEN HomeOf(v, i) ELSE i))

PlaceOf(v, e) == SelectInSeq(EntriesOf(v, HomeOf(v, e)), LAMBDA x : x = e)
===============================================================================
