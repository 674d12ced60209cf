----------------------------- MODULE ScreensProofs -----------------------------
(***************************************************************************)
(* Who has the keyboard, for every vault, search, attachment and number of  *)
(* changes: of the screens that can be up at once, the one that is drawn    *)
(* gets the key.                                                           *)
(***************************************************************************)
EXTENDS Screens, SetLemmas

(* Update and View both ask in an order and take the first that claims.     *)
LEMMA FirstIsFound ==
  ASSUME NEW n \in Nat, NEW claims, DOMAIN claims = 1 .. n, n > 0, claims[n][2]
  PROVE  \E k \in 1 .. n : /\ FirstOf(claims) = claims[k][1] /\ claims[k][2]
                           /\ \A j \in 1 .. n : j < k => ~claims[j][2]
  <1> DEFINE P(i) == claims[i][2] /\ \A j \in 1 .. (i - 1) : ~claims[j][2]
             at == {i \in 1 .. n : claims[i][2]}
  <1>1. at \subseteq Nat /\ n \in at
    OBVIOUS
  <1>2. PICK k \in at : \A i \in at : k <= i
    BY <1>1, MinIsLeast
  <1>3. k \in 1 .. n /\ P(k) /\ \A j \in 1 .. n : j < k => ~claims[j][2]
    BY <1>2
  <1>4. \A i \in 1 .. n : P(i) => i = k
    BY <1>3
  <1>5. (CHOOSE i \in DOMAIN claims : P(i)) = k
    BY <1>3, <1>4
  <1>6. QED
    BY <1>3, <1>5 DEF FirstOf

(* The tab's own surface, the keys' way and the drawing order, each read off *)
(* as one decision.                                                        *)
LEMMA SurfaceIs ==
  Surface =
    IF InModal THEN ui.set
    ELSE IF OnExclude THEN "exclude"
    ELSE IF ui.tab = "vault" /\ m.mode THEN "search"
    ELSE ui.tab
  <1>1. PICK claims : claims = <<<<ui.set, InModal>>,
            <<"exclude", OnExclude>>,
            <<"search", ui.tab = "vault" /\ m.mode>>,
            <<ui.tab, TRUE>>>>
    OBVIOUS
  <1>2. Surface = FirstOf(claims)
    BY <1>1 DEF Surface
  <1>3. 4 \in Nat /\ 4 > 0 /\ DOMAIN claims = 1 .. 4 /\ claims[4][2]
    BY <1>1
  <1>4. PICK k \in 1 .. 4 : /\ FirstOf(claims) = claims[k][1] /\ claims[k][2]
            /\ \A j \in 1 .. 4 : j < k => ~claims[j][2]
    BY ONLY <1>3, FirstIsFound, Zenon
  <1>5. /\ claims[1][1] = ui.set /\ (claims[1][2] <=> InModal)
        /\ claims[2][1] = "exclude" /\ (claims[2][2] <=> OnExclude)
        /\ claims[3][1] = "search" /\ (claims[3][2] <=> ui.tab = "vault" /\ m.mode)
        /\ claims[4][1] = ui.tab /\ (claims[4][2] <=> TRUE)
    BY <1>1
  <1>6. k = 1 \/ k = 2 \/ k = 3 \/ k = 4
    OBVIOUS
  <1>7. QED
    BY ONLY <1>2, <1>4, <1>5, <1>6


LEMMA TakerIs ==
  ASSUME NEW c
  PROVE  Taker(c) =
           IF ui.guard THEN "guard"
           ELSE IF ui.confirm THEN "confirm"
           ELSE IF ui.conflict THEN "conflict"
           ELSE IF ui.saving THEN "saving"
           ELSE IF ui.attach # "none" THEN "attach"
           ELSE IF ui.unlock THEN "unlock"
           ELSE IF m.edit # "none" THEN m.edit
           ELSE IF ui.help \/ (c = "?" /\ ~Typing) THEN "help"
           ELSE IF c = "q" /\ ~Typing THEN "quit"
           ELSE IF c = "digit" /\ ~Typing THEN "tabs"
           ELSE Surface
  <1>1. PICK claims : claims = <<<<"guard", ui.guard>>,
            <<"confirm", ui.confirm>>,
            <<"conflict", ui.conflict>>,
            <<"saving", ui.saving>>,
            <<"attach", ui.attach # "none">>,
            <<"unlock", ui.unlock>>,
            <<m.edit, m.edit # "none">>,
            <<"help", ui.help \/ (c = "?" /\ ~Typing)>>,
            <<"quit", c = "q" /\ ~Typing>>,
            <<"tabs", c = "digit" /\ ~Typing>>,
            <<Surface, TRUE>>>>
    OBVIOUS
  <1>2. Taker(c) = FirstOf(claims)
    BY <1>1 DEF Taker
  <1>3. 11 \in Nat /\ 11 > 0 /\ DOMAIN claims = 1 .. 11 /\ claims[11][2]
    BY <1>1
  <1>4. PICK k \in 1 .. 11 : /\ FirstOf(claims) = claims[k][1] /\ claims[k][2]
            /\ \A j \in 1 .. 11 : j < k => ~claims[j][2]
    BY ONLY <1>3, FirstIsFound, Zenon
  <1>5. /\ claims[1][1] = "guard" /\ (claims[1][2] <=> ui.guard)
        /\ claims[2][1] = "confirm" /\ (claims[2][2] <=> ui.confirm)
        /\ claims[3][1] = "conflict" /\ (claims[3][2] <=> ui.conflict)
        /\ claims[4][1] = "saving" /\ (claims[4][2] <=> ui.saving)
        /\ claims[5][1] = "attach" /\ (claims[5][2] <=> ui.attach # "none")
        /\ claims[6][1] = "unlock" /\ (claims[6][2] <=> ui.unlock)
        /\ claims[7][1] = m.edit /\ (claims[7][2] <=> m.edit # "none")
        /\ claims[8][1] = "help" /\ (claims[8][2] <=> ui.help \/ (c = "?" /\ ~Typing))
        /\ claims[9][1] = "quit" /\ (claims[9][2] <=> c = "q" /\ ~Typing)
        /\ claims[10][1] = "tabs" /\ (claims[10][2] <=> c = "digit" /\ ~Typing)
        /\ claims[11][1] = Surface /\ (claims[11][2] <=> TRUE)
    BY <1>1
  <1>6. k = 1 \/ k = 2 \/ k = 3 \/ k = 4 \/ k = 5 \/ k = 6 \/ k = 7 \/ k = 8 \/ k = 9 \/ k = 10 \/ k = 11
    OBVIOUS
  <1>7. QED
    BY ONLY <1>2, <1>4, <1>5, <1>6


LEMMA ShownIs ==
  Shown =
    IF ui.attach # "none" THEN "attach"
    ELSE IF ui.help THEN "help"
    ELSE IF ui.unlock THEN "unlock"
    ELSE IF ui.guard THEN "guard"
    ELSE IF ui.conflict THEN "conflict"
    ELSE IF ui.confirm THEN "confirm"
    ELSE IF ui.saving THEN "saving"
    ELSE IF m.edit = "form" THEN "form"
    ELSE IF m.edit # "none" /\ ui.tab = "vault" THEN m.edit
    ELSE Surface
  <1>1. PICK claims : claims = <<<<"attach", ui.attach # "none">>,
            <<"help", ui.help>>,
            <<"unlock", ui.unlock>>,
            <<"guard", ui.guard>>,
            <<"conflict", ui.conflict>>,
            <<"confirm", ui.confirm>>,
            <<"saving", ui.saving>>,
            <<"form", m.edit = "form">>,
            <<m.edit, m.edit # "none" /\ ui.tab = "vault">>,
            <<Surface, TRUE>>>>
    OBVIOUS
  <1>2. Shown = FirstOf(claims)
    BY <1>1 DEF Shown
  <1>3. 10 \in Nat /\ 10 > 0 /\ DOMAIN claims = 1 .. 10 /\ claims[10][2]
    BY <1>1
  <1>4. PICK k \in 1 .. 10 : /\ FirstOf(claims) = claims[k][1] /\ claims[k][2]
            /\ \A j \in 1 .. 10 : j < k => ~claims[j][2]
    BY ONLY <1>3, FirstIsFound, Zenon
  <1>5. /\ claims[1][1] = "attach" /\ (claims[1][2] <=> ui.attach # "none")
        /\ claims[2][1] = "help" /\ (claims[2][2] <=> ui.help)
        /\ claims[3][1] = "unlock" /\ (claims[3][2] <=> ui.unlock)
        /\ claims[4][1] = "guard" /\ (claims[4][2] <=> ui.guard)
        /\ claims[5][1] = "conflict" /\ (claims[5][2] <=> ui.conflict)
        /\ claims[6][1] = "confirm" /\ (claims[6][2] <=> ui.confirm)
        /\ claims[7][1] = "saving" /\ (claims[7][2] <=> ui.saving)
        /\ claims[8][1] = "form" /\ (claims[8][2] <=> m.edit = "form")
        /\ claims[9][1] = m.edit /\ (claims[9][2] <=> m.edit # "none" /\ ui.tab = "vault")
        /\ claims[10][1] = Surface /\ (claims[10][2] <=> TRUE)
    BY <1>1
  <1>6. k = 1 \/ k = 2 \/ k = 3 \/ k = 4 \/ k = 5 \/ k = 6 \/ k = 7 \/ k = 8 \/ k = 9 \/ k = 10
    OBVIOUS
  <1>7. QED
    BY ONLY <1>2, <1>4, <1>5, <1>6

-----------------------------------------------------------------------------
(* The Model.  What rebuilds the tree, moves the cursor or searches leaves   *)
(* alone what is being edited.                                             *)
IsModel(x) == x = [f \in DOMAIN x |-> x[f]] /\ "edit" \in DOMAIN x

Keeps(x, y) == IsModel(y) /\ y.edit = x.edit

LEMMA SearchKeeps ==
  ASSUME NEW x, IsModel(x)
  PROVE  /\ Keeps(x, x) /\ Keeps(x, Refilter(x)) /\ Keeps(x, ClearSearch(x)) /\ Keeps(x, Advance(x))
         /\ \A q : Keeps(x, Type(x, q))
         /\ \A t : Keeps(x, Switched(x, t))
  <1>1. Keeps(x, x)
    BY DEF Keeps
  <1>2. Keeps(x, Refilter(x))
    BY DEF Keeps, IsModel, Refilter
  <1>3. Keeps(x, ClearSearch(x))
    BY DEF Keeps, IsModel, ClearSearch
  <1>4. Keeps(x, Advance(x))
    BY DEF Keeps, IsModel, Advance
  <1>5. ASSUME NEW q PROVE Keeps(x, Type(x, q))
    <2>1. PICK y : y = [x EXCEPT !.query = q]
      OBVIOUS
    <2>2. Type(x, q) = Refilter(y)
      BY <2>1 DEF Type
    <2>3. Keeps(x, y)
      BY <2>1 DEF Keeps, IsModel
    <2>4. QED
      BY <2>2, <2>3 DEF Keeps, IsModel, Refilter
  <1>6. ASSUME NEW t PROVE Keeps(x, Switched(x, t))
    BY DEF Keeps, IsModel, Switched
  <1>7. QED
    BY <1>1, <1>2, <1>3, <1>4, <1>5, <1>6

LEMMA SelectKeeps ==
  ASSUME NEW x, IsModel(x), NEW i
  PROVE  Keeps(x, Select(x, i))
  BY DEF Keeps, IsModel, Select

LEMMA RebuildKeeps ==
  ASSUME NEW x, IsModel(x), NEW file, NEW chg
  PROVE  Keeps(x, Rebuild(x, file, chg))
  <1>1. PICK was, v, open, y : /\ y = [x EXCEPT !.file = file, !.chg = chg, !.view = v, !.open = open]
                               /\ Rebuild(x, file, chg) = Refilter(Select(y, was))
    BY DEF Rebuild, Reselect
  <1>2. Keeps(x, y)
    BY <1>1 DEF Keeps, IsModel
  <1>3. Keeps(y, Select(y, was))
    BY <1>2, SelectKeeps DEF Keeps
  <1>4. Keeps(Select(y, was), Refilter(Select(y, was)))
    BY <1>3, SearchKeeps DEF Keeps
  <1>5. QED
    BY <1>1, <1>2, <1>3, <1>4 DEF Keeps

LEMMA RevealKeeps ==
  ASSUME NEW x, IsModel(x), NEW i
  PROVE  Keeps(x, Reveal(x, i))
  <1>1. PICK open, z : /\ z = [x EXCEPT !.open = open]
                       /\ Reveal(x, i) = IF i \in Folders THEN [Select(z, i) EXCEPT !.esel = 1, !.focus = 0]
                                         ELSE Select(z, i)
    BY DEF Reveal
  <1>2. Keeps(x, z)
    BY <1>1 DEF Keeps, IsModel
  <1>3. Keeps(z, Select(z, i))
    BY <1>2, SelectKeeps DEF Keeps
  <1>4. QED
    BY <1>1, <1>2, <1>3 DEF Keeps, IsModel

LEMMA ToggleKeeps ==
  ASSUME NEW x, IsModel(x), NEW t
  PROVE  Keeps(x, ToggleDelete(x, t))
  <1>1. \E chg : ToggleDelete(x, t) \in {Advance(x), Advance(Restage(x, chg))}
    BY DEF ToggleDelete
  <1>2. ASSUME NEW chg PROVE Keeps(x, Restage(x, chg))
    BY RebuildKeeps DEF Restage
  <1>3. ASSUME NEW chg PROVE Keeps(x, Advance(Restage(x, chg)))
    BY <1>2, SearchKeeps DEF Keeps
  <1>4. QED
    BY <1>1, <1>3, SearchKeeps

-----------------------------------------------------------------------------
(* The overlays.                                                           *)

(* What may be up together: the help is never over an unfinished edit or the *)
(* write lock's question, a save being written is over nothing, and of the   *)
(* conflict and the confirmation there is one, since a stale source is asked  *)
(* about and a fresh one is confirmed.                                     *)
Layered ==
  /\ IsModel(m) /\ m.edit \in {"none", "form", "inline", "carry"}
  /\ ui \in Uis
  /\ ui.help => ~ui.unlock /\ m.edit = "none"
  /\ ui.saving => ~ui.guard /\ ~ui.confirm /\ ~ui.conflict
  /\ ui.confirm => ~ui.stale
  /\ ui.conflict => ui.stale

(* A step of the Model alone.                                              *)
LEMMA LayeredModel ==
  ASSUME Layered, UNCHANGED ui, IsModel(m'),
         m'.edit = m.edit \/ (m'.edit \in {"none", "form", "inline", "carry"} /\ ~ui.help)
  PROVE  Layered'
  BY DEF Layered, IsModel

LEMMA LayeredKeeps ==
  ASSUME Layered, UNCHANGED ui, Keeps(m, m')
  PROVE  Layered'
  BY LayeredModel DEF Keeps

LEMMA LayeredBrowsing == Layered /\ Browsing => Layered'
  <1> SUFFICES ASSUME Layered, Browsing PROVE Layered'
    OBVIOUS
  <1>1. IsModel(m)
    BY DEF Layered
  <1>2. UNCHANGED ui
    BY DEF Browsing, MoveInTree, MoveInTable, TabKey, Right, Left, Enter, Subtree, ToggleAll, Collapse, Become
  <1>3. CASE MoveInTree \/ MoveInTable
    <2>1. Keeps(m, m')
      BY <1>1, <1>3 DEF MoveInTree, MoveInTable, Become, Keeps, IsModel
    <2>2. QED
      BY <1>2, <2>1, LayeredKeeps
  <1>4. CASE TabKey
    <2>1. Keeps(m, m')
      BY <1>1, <1>4 DEF TabKey, Become, Keeps, IsModel
    <2>2. QED
      BY <1>2, <2>1, LayeredKeeps
  <1>5. CASE Right
    <2>1. Keeps(m, m')
      BY <1>1, <1>5 DEF Right, Become, Keeps, IsModel
    <2>2. QED
      BY <1>2, <2>1, LayeredKeeps
  <1>6. CASE Left
    <2>1. Keeps(m, m')
      BY <1>1, <1>6 DEF Left, Become, Keeps, IsModel
    <2>2. QED
      BY <1>2, <2>1, LayeredKeeps
  <1>7. CASE Enter \/ Subtree \/ Collapse
    <2>1. Keeps(m, m')
      BY <1>1, <1>7 DEF Enter, Subtree, Collapse, Become, Keeps, IsModel
    <2>2. QED
      BY <1>2, <2>1, LayeredKeeps
  <1>8. CASE ToggleAll
    <2>1. PICK x, open, was, on : /\ x = [m EXCEPT !.open = open]
                                  /\ m' \in {[x EXCEPT !.tsel = 1, !.esel = 1, !.focus = 0],
                                             Select(x, was),
                                             [Select(x, on) EXCEPT !.focus = 0, !.esel = 1]}
      BY <1>8 DEF ToggleAll, Become
    <2>2. Keeps(m, x)
      BY <1>1, <2>1 DEF Keeps, IsModel
    <2>3. \A i : Keeps(x, Select(x, i))
      BY <2>2, SelectKeeps DEF Keeps
    <2>4. Keeps(m, m')
      BY <2>1, <2>2, <2>3 DEF Keeps, IsModel
    <2>5. QED
      BY <1>2, <2>4, LayeredKeeps
  <1>9. QED
    BY <1>3, <1>4, <1>5, <1>6, <1>7, <1>8 DEF Browsing

LEMMA LayeredSearching == Layered /\ Searching => Layered'
  <1> SUFFICES ASSUME Layered, Searching PROVE Layered'
    OBVIOUS
  <1>1. IsModel(m)
    BY DEF Layered
  <1>2. UNCHANGED ui
    BY DEF Searching, OpenSearch, TypeQuery, ApplySearch, LeaveSearch, MoveInResults, OpenResult, CloseResult,
       GotoFolder, Become
  <1>3. CASE OpenSearch
    <2>1. PICK x : x = [m EXCEPT !.mode = TRUE]
      OBVIOUS
    <2>2. m' \in {x, Refilter(x)}
      BY <1>3, <2>1 DEF OpenSearch, Become
    <2>3. Keeps(m, x)
      BY <1>1, <2>1 DEF Keeps, IsModel
    <2>4. Keeps(x, Refilter(x))
      BY <2>3, SearchKeeps DEF Keeps
    <2>5. QED
      BY <1>2, <2>2, <2>3, <2>4, LayeredKeeps DEF Keeps
  <1>4. CASE TypeQuery \/ LeaveSearch
    <2>1. Keeps(m, m')
      BY <1>1, <1>4, SearchKeeps DEF TypeQuery, LeaveSearch, Become
    <2>2. QED
      BY <1>2, <2>1, LayeredKeeps
  <1>5. CASE ApplySearch \/ MoveInResults \/ OpenResult \/ CloseResult
    <2>1. Keeps(m, m')
      BY <1>1, <1>5 DEF ApplySearch, MoveInResults, OpenResult, CloseResult, Become, Keeps, IsModel
    <2>2. QED
      BY <1>2, <2>1, LayeredKeeps
  <1>6. CASE GotoFolder
    <2>1. PICK i : m' = Reveal(ClearSearch(m), i)
      BY <1>6 DEF GotoFolder, Become
    <2>2. Keeps(m, ClearSearch(m))
      BY <1>1, SearchKeeps
    <2>3. Keeps(ClearSearch(m), m')
      BY <2>1, <2>2, RevealKeeps DEF Keeps
    <2>4. QED
      BY <1>2, <2>2, <2>3, LayeredKeeps DEF Keeps
  <1>7. QED
    BY <1>3, <1>4, <1>5, <1>6 DEF Searching

(* A staging key is asked for under no overlay, and what it leaves in edit is *)
(* one of the four.                                                        *)
LEMMA LayeredStaging == Layered /\ Staging => Layered'
  <1> SUFFICES ASSUME Layered, Staging PROVE Layered'
    OBVIOUS
  <1> USE DEF Become, Stage
  <1>1. IsModel(m)
    BY DEF Layered
  <1>2. ASSUME NEW chg PROVE Keeps(m, Restage(m, chg))
    BY <1>1, RebuildKeeps DEF Restage
  <1>3. Keeps(m, Closed(m)) \/ (IsModel(Closed(m)) /\ Closed(m).edit = "none")
    BY <1>1 DEF Closed, IsModel
  <1>4. ASSUME NEW chg PROVE IsModel(Restage(Closed(m), chg)) /\ Restage(Closed(m), chg).edit = "none"
    <2>1. IsModel(Closed(m)) /\ Closed(m).edit = "none"
      BY <1>1 DEF Closed, IsModel
    <2>2. QED
      BY <2>1, RebuildKeeps DEF Restage, Keeps
  <1>5. CASE OpenEditor \/ OpenNewEntry \/ OpenInlineRename
    <2>1. IsModel(m') /\ m'.edit \in {"form", "inline"} /\ UNCHANGED ui /\ ~ui.help
      BY <1>1, <1>5 DEF OpenEditor, OpenNewEntry, OpenInlineRename, EditKeys, VaultKeys, NoOverlay, IsModel
    <2>2. QED
      BY <2>1, LayeredModel
  <1>6. CASE OpenNewFolder
    <2>1. PICK i, x, chg : x = Reveal(Restage(m, chg), i)
                           /\ m' = [x EXCEPT !.edit = "inline", !.target = i, !.new = TRUE]
      BY <1>6 DEF OpenNewFolder
    <2>2. IsModel(x)
      BY <1>2, <2>1, RevealKeeps DEF Keeps
    <2>3. IsModel(m') /\ m'.edit = "inline"
      BY <2>1, <2>2 DEF IsModel
    <2>4. UNCHANGED ui /\ ~ui.help
      BY <1>6 DEF OpenNewFolder, EditKeys, VaultKeys, NoOverlay
    <2>5. QED
      BY <2>3, <2>4, LayeredModel
  <1>7. CASE StageDelete
    <2>1. Keeps(m, m') /\ UNCHANGED ui
      BY <1>1, <1>7, ToggleKeeps DEF StageDelete
    <2>2. QED
      BY <2>1, LayeredKeeps
  <1>8. CASE GrabForMove
    <2> DEFINE x == IF ShowResults(m) THEN ClearSearch(m) ELSE m
               y == [x EXCEPT !.detail = FALSE]
               i == Target(m)
    <2>1. m' = [Reveal(y, i) EXCEPT !.focus = 0, !.edit = "carry", !.target = i]
      BY <1>8 DEF GrabForMove
    <2>2. IsModel(x)
      BY <1>1, SearchKeeps DEF Keeps
    <2>3. IsModel(y)
      BY <2>2 DEF IsModel
    <2> HIDE DEF y, i
    <2>4. IsModel(Reveal(y, i))
      BY <2>3, RevealKeeps DEF Keeps
    <2>5. IsModel(m') /\ m'.edit = "carry"
      BY <2>1, <2>4 DEF IsModel
    <2>6. UNCHANGED ui /\ ~ui.help
      BY <1>8 DEF GrabForMove, EditKeys, VaultKeys, NoOverlay
    <2>7. QED
      BY <2>5, <2>6, LayeredModel
  <1>9. CASE CancelEdit \/ CancelNewFolder
    <2>1. IsModel(m') /\ m'.edit = "none" /\ UNCHANGED ui /\ ~ui.help
      BY <1>1, <1>4, <1>9 DEF CancelEdit, CancelNewFolder, Editing, NoOverlay, Closed, IsModel
    <2>2. QED
      BY <2>1, LayeredModel
  <1>10. CASE StageEdit \/ StageInlineRename \/ DropHere
    <2>1. UNCHANGED ui /\ ~ui.help
      BY <1>10 DEF StageEdit, StageInlineRename, DropHere, Editing, NoOverlay
    <2>2. \E chg, i : m' \in {Closed(m), Restage(Closed(m), chg), Reveal(Restage(Closed(m), chg), i)}
      BY <1>10 DEF StageEdit, StageInlineRename, DropHere
    <2>3. ASSUME NEW chg, NEW i
          PROVE  LET x == Reveal(Restage(Closed(m), chg), i) IN IsModel(x) /\ x.edit = "none"
      BY <1>4, RevealKeeps DEF Keeps
    <2>4. IsModel(Closed(m)) /\ Closed(m).edit = "none"
      BY <1>1 DEF Closed, IsModel
    <2>5. IsModel(m') /\ m'.edit = "none"
      BY <1>4, <2>2, <2>3, <2>4
    <2>6. QED
      BY <2>1, <2>5, LayeredModel
  <1>11. CASE UndoChange
    <2>1. Keeps(m, m') /\ UNCHANGED ui
      BY <1>2, <1>11 DEF UndoChange
    <2>2. QED
      BY <2>1, LayeredKeeps
  <1>12. CASE JumpToChange
    <2>1. Keeps(m, Switched(m, "vault"))
      BY <1>1, SearchKeeps
    <2>2. ASSUME NEW i PROVE Keeps(m, Select(Switched(m, "vault"), i))
      BY <2>1, SelectKeeps DEF Keeps
    <2>3. Keeps(m, m')
      BY <1>12, <2>1, <2>2 DEF JumpToChange
    <2>4. ui' = [ui EXCEPT !.tab = "vault"]
      BY <1>12 DEF JumpToChange
    <2>5. QED
      BY <2>3, <2>4 DEF Layered, Keeps, Uis, Tabs
  <1>13. QED
    BY <1>5, <1>6, <1>7, <1>8, <1>9, <1>10, <1>11, <1>12 DEF Staging

LEMMA LayeredSaving == Layered /\ Saving => Layered'
  <1> SUFFICES ASSUME Layered, Saving PROVE Layered'
    OBVIOUS
  <1>1. IsModel(m) /\ Keeps(m, m)
    BY SearchKeeps DEF Layered
  <1>2. ASSUME NEW file, NEW chg PROVE Keeps(m, Rebuild(m, file, chg))
    BY <1>1, RebuildKeeps
  <1>3. CASE AskToSave
    <2>1. m' = m /\ ui' = Asked(ui) /\ NoOverlay
      BY <1>3 DEF AskToSave
    <2>2. QED
      BY <1>1, <2>1 DEF Layered, NoOverlay, Asked, Uis
  <1>4. CASE AnswerSave
    BY ZenonT(60), <1>4 DEF AnswerSave, Layered, IsModel, Uis
  <1>5. CASE SaveDone
    <2>1. Keeps(m, m') /\ ui.saving
      <3>1. \E file, chg : m' = Rebuild(m, file, chg)
        BY <1>5 DEF SaveDone, ReadAgain
      <3>2. Keeps(m, m')
        BY <1>2, <3>1
      <3>3. QED
        BY <1>5, <3>2 DEF SaveDone
    <2>2. CASE ui' = [ui EXCEPT !.saving = FALSE, !.stale = FALSE]
      BY <2>1, <2>2 DEF Layered, Keeps, Uis
    <2>3. ASSUME NEW moved \in BOOLEAN,
                 ui' = [ui EXCEPT !.saving = FALSE, !.stale = @ \/ moved, !.conflict = @ \/ moved]
          PROVE  Layered'
      <3>1. ui' \in Uis
        BY ZenonT(60), <2>3 DEF Layered, Uis
      <3>2. /\ ui'.help = ui.help /\ ui'.unlock = ui.unlock /\ ui'.saving = FALSE
            /\ ui'.confirm = ui.confirm /\ (ui'.conflict <=> ui.conflict \/ moved)
            /\ (ui'.stale <=> ui.stale \/ moved)
        BY <2>3 DEF Layered, Uis
      <3>3. QED
        BY <2>1, <3>1, <3>2 DEF Layered, Keeps
    <2>4. QED
      BY <1>5, <2>2, <2>3 DEF SaveDone
  <1>6. CASE AnswerConflict
    <2>1. Keeps(m, m') /\ ~ui.confirm
      BY <1>1, <1>2, <1>6 DEF AnswerConflict, ReadAgain
    <2>2. ui' \in {[ui EXCEPT !.conflict = FALSE], [ui EXCEPT !.conflict = FALSE, !.stale = FALSE]}
      BY <1>6 DEF AnswerConflict
    <2>3. QED
      BY <2>1, <2>2 DEF Layered, Keeps, Uis
  <1>7. QED
    BY <1>3, <1>4, <1>5, <1>6 DEF Saving

LEMMA LayeredOverlays == Layered /\ Overlays => Layered'
  <1> SUFFICES ASSUME Layered, Overlays PROVE Layered'
    OBVIOUS
  <1>1. IsModel(m) /\ Keeps(m, m) /\ \A t : Keeps(m, Switched(m, t))
    BY SearchKeeps DEF Layered
  <1>2. CASE HelpKey
    <2>1. ~ui.unlock /\ m.edit = "none"
      <3>1. Taker("?") = "help"
        BY <1>2 DEF HelpKey
      <3>2. QED
        BY <3>1, TakerIs DEF Layered
    <2>2. QED
      BY <1>2, <2>1 DEF HelpKey, Screen, Layered, Uis
  <1>3. CASE QuitKey
    <2>1. ~ui.saving
      <3>1. Taker("q") = "quit"
        BY <1>3 DEF QuitKey
      <3>2. QED
        BY <3>1, TakerIs
    <2>2. QED
      BY <1>3, <2>1 DEF QuitKey, Screen, Layered, Uis
  <1>4. CASE CtrlC
    BY <1>4 DEF CtrlC, Screen, Layered, Uis
  <1>5. CASE AnswerGuard
    <2>1. PICK u : u = [ui EXCEPT !.guard = FALSE]
      OBVIOUS
    <2>2. ui' \in {u, Asked(u), [ui EXCEPT !.up = FALSE]} /\ m' = m /\ ui.guard
      BY <1>5, <2>1 DEF AnswerGuard, Screen
    <2>3. u \in Uis /\ ~u.saving /\ (u.confirm => ~u.stale) /\ (u.conflict => u.stale)
          /\ (u.help => ~u.unlock /\ m.edit = "none")
      BY <2>1, <2>2 DEF Layered, Uis
    <2>4. CASE ui' = u
      BY <2>2, <2>3, <2>4 DEF Layered
    <2>5. CASE ui' = Asked(u)
      BY ZenonT(60), <2>2, <2>3, <2>5 DEF Asked, Layered, Uis
    <2>6. CASE ui' = [ui EXCEPT !.up = FALSE]
      BY <2>2, <2>6 DEF Layered, Uis
    <2>7. QED
      BY <2>2, <2>4, <2>5, <2>6
  <1>6. CASE Digit
    <2>1. PICK t \in Tabs : Switch(t)
      BY <1>6 DEF Digit, Reachable, Tabs
    <2>2. QED
      BY <1>1, <2>1 DEF Switch, Layered, Keeps, Uis
  <1>7. CASE ToggleWriteLock
    BY <1>7 DEF ToggleWriteLock, VaultKeys, NoOverlay, Screen, Layered, Uis
  <1>8. CASE AnswerUnlock
    BY <1>8 DEF AnswerUnlock, Screen, Layered, Uis
  <1>9. CASE OpenAttachments
    BY <1>9 DEF OpenAttachments, Screen, Layered, Uis
  <1>10. CASE AttachKey
    BY <1>10 DEF AttachKey, Screen, Layered, Uis
  <1>11. CASE GeneratePane \/ SettingsPane
    <2>1. Keeps(m, m') /\ UNCHANGED ui
      BY <1>1, <1>11 DEF GeneratePane, SettingsPane, Become, Keeps, IsModel
    <2>2. QED
      BY <2>1, LayeredKeeps
  <1>12. CASE GenerateRow
    BY <1>12 DEF GenerateRow, Screen, Layered, Uis
  <1>13. CASE OpenModal
    BY <1>13 DEF OpenModal, Screen, Layered, Uis
  <1>14. CASE CloseModal \/ SyncDone
    BY <1>14 DEF CloseModal, SyncDone, Screen, Layered, Uis
  <1>15. QED
    BY <1>2, <1>3, <1>4, <1>5, <1>6, <1>7, <1>8, <1>9, <1>10, <1>11, <1>12, <1>13, <1>14 DEF Overlays

LEMMA LayeredClicking == Layered /\ Clicking => Layered'
  <1> SUFFICES ASSUME Layered, Clicking PROVE Layered'
    OBVIOUS
  <1>1. IsModel(m) /\ Keeps(m, m) /\ \A t : Keeps(m, Switched(m, t))
    BY SearchKeeps DEF Layered
  <1>2. CASE ClickTab
    <2>1. PICK t \in Tabs : Switch(t)
      BY <1>2 DEF ClickTab
    <2>2. QED
      BY <1>1, <2>1 DEF Switch, Layered, Keeps, Uis
  <1>3. CASE ClickRow
    <2>1. PICK r, x, y, open :
             /\ x = [m EXCEPT !.tsel = r, !.esel = 1, !.focus = 0]
             /\ y = [x EXCEPT !.detail = FALSE]
             /\ m' \in {x, y, ClearSearch(y), [m EXCEPT !.open = open]}
      BY <1>3 DEF ClickRow, Become
    <2>2. Keeps(m, x)
      BY <1>1, <2>1 DEF Keeps, IsModel
    <2>3. Keeps(m, y)
      BY <2>1, <2>2 DEF Keeps, IsModel
    <2>4. Keeps(m, ClearSearch(y))
      BY <2>3, SearchKeeps DEF Keeps
    <2>5. Keeps(m, m')
      <3>1. CASE m' = [m EXCEPT !.open = open]
        BY <1>1, <3>1 DEF Keeps, IsModel
      <3>2. QED
        BY <2>1, <2>2, <2>3, <2>4, <3>1
    <2>6. UNCHANGED ui
      BY <1>3 DEF ClickRow, Become
    <2>7. QED
      BY <2>5, <2>6, LayeredKeeps
  <1>4. CASE ClickEntry \/ ClickHeader \/ ClickPane
    <2>1. Keeps(m, m') /\ UNCHANGED ui
      BY <1>1, <1>4 DEF ClickEntry, ClickHeader, ClickPane, Become, Keeps, IsModel
    <2>2. QED
      BY <2>1, LayeredKeeps
  <1>5. CASE ClickOption
    <2>1. PICK on \in BOOLEAN : ui' = [ui EXCEPT !.exclude = on]
      BY <1>5 DEF ClickOption
    <2>2. Keeps(m, m')
      BY <1>1, <1>5 DEF ClickOption, Keeps, IsModel
    <2>3. QED
      BY <2>1, <2>2 DEF Layered, Keeps, Uis
  <1>6. QED
    BY <1>2, <1>3, <1>4, <1>5 DEF Clicking

LEMMA LayeredInit == Init => Layered
  <1> SUFFICES ASSUME Init PROVE Layered
    OBVIOUS
  <1>1. PICK x, e : /\ x.edit = "none" /\ IsModel(x)
                    /\ m = Restage(x, [i \in Items |-> [Unstaged EXCEPT !.delete = i \in e]])
    BY DEF Init, IsModel
  <1>2. Keeps(x, m)
    BY <1>1, RebuildKeeps DEF Restage
  <1>3. QED
    BY <1>1, <1>2 DEF Init, Layered, Keeps, Uis, Tabs

LEMMA LayeredStep == Layered /\ [Next]_vars => Layered'
  <1>1. Layered /\ UNCHANGED vars => Layered'
    BY DEF Layered, IsModel, vars
  <1>2. QED
    BY <1>1, LayeredBrowsing, LayeredSearching, LayeredStaging, LayeredSaving, LayeredOverlays, LayeredClicking DEF Next

(* The screen that is drawn gets every character, whatever the vault, the   *)
(* search and the number of changes: Update and View ask in two orders, but  *)
(* no two screens on which they differ are up together, save the two cases   *)
(* the property names.                                                     *)
THEOREM KeysMeetTheScreen == Spec => []KeysGoWhereShown
  <1>1. Layered => KeysGoWhereShown
    <2> SUFFICES ASSUME Layered, ui.up, NEW c \in Chars,
                        ~((ui.guard \/ ui.confirm \/ ui.conflict \/ ui.saving)
                          /\ (ui.help \/ ui.unlock \/ ui.attach # "none")),
                        ~(m.edit \in {"inline", "carry"} /\ ui.tab # "vault"),
                        Shown \notin Tabs
                 PROVE  Taker(c) = Shown
      BY DEF KeysGoWhereShown
    <2>1. CASE ui.guard \/ ui.confirm \/ ui.conflict \/ ui.saving
      BY <2>1, TakerIs, ShownIs DEF Layered
    <2>2. CASE ~(ui.guard \/ ui.confirm \/ ui.conflict \/ ui.saving)
               /\ (ui.attach # "none" \/ ui.help \/ ui.unlock \/ m.edit # "none")
      BY <2>2, TakerIs, ShownIs DEF Layered
    <2>3. CASE ~(ui.guard \/ ui.confirm \/ ui.conflict \/ ui.saving
                 \/ ui.attach # "none" \/ ui.help \/ ui.unlock \/ m.edit # "none")
      <3>1. Shown = Surface
        BY <2>3, ShownIs
      <3>2. InModal \/ OnExclude \/ (ui.tab = "vault" /\ m.mode)
        BY <3>1, SurfaceIs DEF Layered, Uis
      <3>3. Typing
        BY <3>2 DEF Typing
      <3>4. QED
        BY <2>3, <3>1, <3>3, TakerIs
    <2>4. QED
      BY <2>1, <2>2, <2>3
  <1>2. QED
    BY LayeredInit, LayeredStep, <1>1, PTL DEF Spec
===============================================================================
