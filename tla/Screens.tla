-------------------------------- MODULE Screens -------------------------------
(* Who has the keyboard.  Update (tui.go) offers a key to the overlays in one     *)
(* order, View (view.go) draws them in another, and a mouse click (mouse.go) is  *)
(* refused by fewer of them than a key.  Over the Vault and Changes tabs of      *)
(* Browse, this module adds the overlays, the other tabs and the mouse.          *)
EXTENDS Browse

\* What a character can mean outside a text field: the help, the end, one of the
\* tabs (tabOrder), or something only its tab knows.
Chars == {"?", "q", "digit", "other"}

\* The first that claims the key, or the screen.
FirstOf(claims) ==
    claims[CHOOSE k \in DOMAIN claims : claims[k][2] /\ \A j \in 1..(k - 1) : ~claims[j][2]][1]

OnExclude == ui.tab = "generate" /\ m.focus = 0 /\ ui.exclude

\* (mutant) the exclude row of the generator is forgotten
TypingElsewhere == m.mode \/ m.edit = "inline" \/ InModal

\* typingText.
Typing == m.mode \/ m.edit = "inline" \/ InModal \/ OnExclude

\* The tab's own surface.
Surface ==
    FirstOf(<< <<ui.set, InModal>>, <<"exclude", OnExclude>>,
               <<"search", ui.tab = "vault" /\ m.mode>>, <<ui.tab, TRUE>> >>)

\* Update, down to the tabs.
Taker(c) ==
    FirstOf(<< <<"guard", ui.guard>>, <<"confirm", ui.confirm>>, <<"conflict", ui.conflict>>,
               <<"saving", ui.saving>>, <<"attach", ui.attach # "none">>, <<"unlock", ui.unlock>>,
               <<m.edit, m.edit # "none">>,
               <<"help", ui.help \/ (c = "?" /\ ~Typing)>>,
               <<"quit", c = "q" /\ ~Typing>>,
               <<"tabs", c = "digit" /\ ~Typing>>,
               <<Surface, TRUE>> >>)

\* View.
Shown ==
    FirstOf(<< <<"attach", ui.attach # "none">>, <<"help", ui.help>>, <<"unlock", ui.unlock>>,
               <<"guard", ui.guard>>, <<"conflict", ui.conflict>>, <<"confirm", ui.confirm>>,
               <<"saving", ui.saving>>, <<"form", m.edit = "form">>,
               <<m.edit, m.edit # "none" /\ ui.tab = "vault">>,
               <<Surface, TRUE>> >>)

Screen(u) == ui' = u /\ UNCHANGED <<m, world, spent>>
Screens == world = "screens" /\ ui.up

-------------------------------------------------------------------------------
(* Keys with a meaning on every tab.                                            *)

\* ?, which opens the help and closes it; other keys close it as well.
HelpKey == Screens /\ Taker("?") = "help" /\ Screen([ui EXCEPT !.help = ~@])

QuitKey ==
    /\ Screens /\ Taker("q") = "quit"
    /\ Screen(IF Dirty(m) THEN [ui EXCEPT !.guard = TRUE] ELSE [ui EXCEPT !.up = FALSE])

\* ctrl+c is taken before anything else; a second one quits.
CtrlC ==
    /\ Screens /\ ~ui.saving
    /\ Screen(IF Dirty(m) /\ ~ui.guard THEN [ui EXCEPT !.guard = TRUE] ELSE [ui EXCEPT !.up = FALSE])

\* Save and quit, discard and quit, stay.  (That the save ends the program is in
\* SaveSession.)
AnswerGuard ==
    /\ Screens /\ ui.guard
    /\ Screen(Asked([ui EXCEPT !.guard = FALSE])) \/ Screen([ui EXCEPT !.up = FALSE])
       \/ Screen([ui EXCEPT !.guard = FALSE])

Switch(t) == m' = Switched(m, t) /\ ui' = [ui EXCEPT !.tab = t] /\ UNCHANGED <<world, spent>>

\* bound: a behaviour that stages has the two tabs that show it.
Reachable == IF world = "staging" THEN {"vault", "changes"} ELSE Tabs

Digit == ui.up /\ Taker("digit") = "tabs" /\ \E t \in Reachable : Switch(t)

-------------------------------------------------------------------------------
(* The overlays the Vault tab raises.                                           *)

\* ctrl+w locks at once and asks before it unlocks.
ToggleWriteLock ==
    /\ Screens /\ VaultKeys /\ (SelEntry(m) # Gone \/ CurrentFolder(m) # Gone)
    /\ Screen(IF ui.writeOK THEN [ui EXCEPT !.writeOK = FALSE] ELSE [ui EXCEPT !.unlock = TRUE])

AnswerUnlock ==
    /\ Screens /\ Taker("other") = "unlock"
    /\ \E yes \in BOOLEAN : Screen([ui EXCEPT !.unlock = FALSE, !.writeOK = yes])

\* s in the detail: a single file goes straight to where it is to be saved.
OpenAttachments ==
    /\ Screens /\ VaultKeys /\ m.detail /\ SelEntry(m) # Gone /\ Files[SelEntry(m)] > 0
    /\ Screen([ui EXCEPT !.attach = IF Files[SelEntry(m)] = 1 THEN "dest" ELSE "pick"])

\* Onward to the destination, back, or saved.
AttachKey ==
    /\ Screens /\ Taker("other") = "attach"
    /\ IF SelEntry(m) = Gone THEN Screen([ui EXCEPT !.attach = "none"])
       ELSE \/ Screen([ui EXCEPT !.attach = IF @ = "pick" THEN "dest" ELSE "none"])
            \/ Screen([ui EXCEPT !.attach = IF @ = "dest" /\ Files[SelEntry(m)] > 1
                                            THEN "pick" ELSE "none"])

-------------------------------------------------------------------------------
(* The Generate and Settings tabs.  Both keep their pane in the Vault's focus.   *)

OtherTab(t) == Screens /\ NoOverlay /\ m.edit = "none" /\ ui.tab = t

\* Between the options and the password.
GeneratePane == OtherTab("generate") /\ Become([m EXCEPT !.focus = 1 - @])

\* Onto the exclude row and off it again.
GenerateRow == OtherTab("generate") /\ m.focus = 0 /\ Screen([ui EXCEPT !.exclude = ~@])

SettingsPane == OtherTab("settings") /\ ~InModal /\ Become([m EXCEPT !.focus = 1 - @])

\* a and e, p, d, s on the sources.
OpenModal ==
    /\ OtherTab("settings") /\ ~InModal /\ m.focus = 1
    /\ \E modal \in Modals : Screen([ui EXCEPT !.set = modal])

CloseModal == OtherTab("settings") /\ InModal /\ ui.set # "setSyncing" /\ Screen([ui EXCEPT !.set = "setList"])

\* The end of a sync closes its modal, whatever is on screen by then.
SyncDone == Screens /\ ui.set = "setSyncing" /\ Screen([ui EXCEPT !.set = "setList"])

-------------------------------------------------------------------------------
(* The mouse.  Of the overlays only the help and the attachments refuse a click. *)

Clickable == ui.up /\ ~ui.help /\ ui.attach = "none"
OnVault == Clickable /\ ui.tab = "vault"

ClickTab == Screens /\ Clickable /\ \E t \in Tabs : Switch(t)

\* A row of the tree; from the detail it leaves the entry, and a search with it.
ClickRow ==
    /\ OnVault
    /\ \E r \in DOMAIN Rows(m) :
          LET x == [m EXCEPT !.tsel = r, !.esel = 1, !.focus = 0] IN
          IF m.detail
          THEN Become(IF ShowResults(m) THEN ClearSearch([x EXCEPT !.detail = FALSE])
                      ELSE [x EXCEPT !.detail = FALSE])
          ELSE /\ ~m.mode /\ ~ShowResults(m)
               /\ \/ Become(x)
                  \/ Folds /\ r = m.tsel /\ Become([m EXCEPT !.open = SymDiff(@, {Rows(m)[r]})])

\* A row of the results or of the table; a second click opens it.
ClickEntry ==
    /\ OnVault /\ ~m.detail /\ ~m.mode
    /\ IF ShowResults(m)
       THEN \E r \in DOMAIN m.results :
               Become([m EXCEPT !.sel = r]) \/ (r = m.sel /\ Become([m EXCEPT !.detail = TRUE]))
       ELSE \E r \in DOMAIN Table(m) :
               \/ Become([m EXCEPT !.esel = r, !.focus = 1])
               \/ r = m.esel /\ m.focus = 1 /\ Become([m EXCEPT !.detail = TRUE])

ClickHeader == OnVault /\ ~m.detail /\ ~m.mode /\ Become([m EXCEPT !.focus = 1])

ClickOption ==
    /\ Screens /\ Clickable /\ ui.tab = "generate"
    /\ m' = [m EXCEPT !.focus = 0]
    /\ \E on \in BOOLEAN : ui' = [ui EXCEPT !.exclude = on]
    /\ UNCHANGED <<world, spent>>

\* The password of Generate, the categories and the rows of Settings.
ClickPane ==
    /\ Screens /\ Clickable
    /\ \E f \in {0, 1} :
          /\ (ui.tab = "generate" /\ f = 1) \/ (ui.tab = "settings" /\ ~InModal)
          /\ Become([m EXCEPT !.focus = f])

-------------------------------------------------------------------------------
Browsing ==
    MoveInTree \/ MoveInTable \/ TabKey \/ Right \/ Left \/ Enter \/ Subtree \/ ToggleAll \/ Collapse

Searching ==
    OpenSearch \/ TypeQuery \/ ApplySearch \/ LeaveSearch \/ MoveInResults \/ OpenResult
    \/ CloseResult \/ GotoFolder

Staging ==
    OpenEditor \/ OpenNewEntry \/ OpenNewFolder \/ OpenInlineRename \/ StageDelete \/ GrabForMove
    \/ CancelEdit \/ CancelNewFolder \/ StageEdit \/ StageInlineRename \/ DropHere
    \/ UndoChange \/ JumpToChange

Saving == AskToSave \/ AnswerSave \/ SaveDone \/ AnswerConflict

Overlays ==
    HelpKey \/ QuitKey \/ CtrlC \/ AnswerGuard \/ Digit \/ ToggleWriteLock \/ AnswerUnlock
    \/ OpenAttachments \/ AttachKey \/ GeneratePane \/ GenerateRow \/ SettingsPane
    \/ OpenModal \/ CloseModal \/ SyncDone

Clicking ==
    ClickTab \/ ClickRow \/ ClickEntry \/ ClickHeader \/ ClickOption \/ ClickPane

Next == Browsing \/ Searching \/ Staging \/ Saving \/ Overlays \/ Clicking

Spec == Init /\ [][Next]_vars

-------------------------------------------------------------------------------
(* What the screen promises.                                                    *)

\* The results are the matches in the vault as staged (refilter, tui.go:509), and
\* a cursor is on a row, or one past a list that lost its last: a staging key that
\* did not go through rebuild leaves results that name what is gone.
TypeOK ==
    /\ m \in Models /\ ui \in Uis /\ world \in {"staging", "screens"}
    /\ spent \in [changes : 0..MaxChanges, foreign : 0..MaxForeign]
    /\ m.view = Project(m.file, m.chg)
    /\ m.results = Match(m.view, m.query)
    /\ m.sel \in 1..Max({1, Len(m.results)})
    /\ m.open \subseteq FoldersOf(m.view) \cup {Root}

\* The step staged something new in the tree, which is then opened up and shown.
Created == \E i \in Items : m.chg[i].made = "" /\ m'.chg[i].made # ""

\* A deletion key moves one row on, but not under an open detail: advanceCursor.
Marked == \E i \in Items : m.chg[i].delete # m'.chg[i].delete

\* What the cursor is on.
Cursor(x) == IF x.focus = 1 /\ SelEntry(x) # Gone THEN SelEntry(x) ELSE CurrentFolder(x)
Stays(i) == IF i \in Entries THEN m'.focus = 1 /\ SelEntry(m') = i ELSE CurrentFolder(m') = i

\* Staging, undoing, saving and reading again build the tree anew (rebuild,
\* tui.go:333), and what the reader had arranged survives it: folders stay open or
\* closed but for those opened to show what was created, and the cursor stays on
\* the same thing while that is still on screen, though its row number changes.
\* Results are ranked again and start from the first.
ArrangementKept ==
    [][ m'.view # m.view \/ m'.chg # m.chg =>
          /\ Created \/ m'.open = m.open \cap (FoldersOf(m'.view) \cup {Root})
          /\ m.open \cap FoldersOf(m'.view) \subseteq m'.open
          /\ ShowResults(m) \/ Created \/ (Marked /\ ~m.detail) \/ Stays(Cursor(m))
             \/ Cursor(m) \notin Present(m'.view) \cup {Root}
             \/ RowOf(m'.view, m'.open, Cursor(m)) = 0 ]_vars

\* A character goes to what is on screen: while a form, a field or a question is
\* shown, none of them opens the help, switches the tab or ends the program under
\* it (typingText, tui.go:1100, and the order of Update and View).  Two things the
\* code does otherwise are left out: a question raised by ctrl+c under the help,
\* the attachments or the write lock, which View draws over it; and a name or a
\* carried row left behind by a click on another tab.
KeysGoWhereShown ==
    LET hidden == /\ ui.guard \/ ui.confirm \/ ui.conflict \/ ui.saving
                  /\ ui.help \/ ui.unlock \/ ui.attach # "none"
        behind == m.edit \in {"inline", "carry"} /\ ui.tab # "vault"
    IN ui.up /\ ~hidden /\ ~behind /\ Shown \notin Tabs => \A c \in Chars : Taker(c) = Shown
===============================================================================
