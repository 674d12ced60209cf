------------------------------ MODULE SaveSession ------------------------------
(* internal/tui, from staged work to written files: the save confirmation, the *)
(* save that runs off the update loop over every source with work, what is done *)
(* with its result, the conflict screen, the write lock and the quit guard.     *)
(* Other writers replace the files at any moment.  What happens inside one save *)
(* of one file is SaveFile; what a staged change is, Staging.                    *)
EXTENDS Integers, FiniteSets, FiniteSetsExt

CONSTANTS
    Sources,        \* in the alphabetical order of their names
    MaxChanges,     \* bound: changes ever staged
    Writers         \* bound: what other writers put into the files, each once

ASSUME SessionAssumption ==
    /\ Sources \subseteq Nat /\ Sources # {} /\ 0 \notin Sources
    /\ MaxChanges \in Nat

NoSource == 0

Changes == 1..MaxChanges

VARIABLES
    file,       \* per source: what the kdbx holds
    handle,     \* per source: what the Handle's database holds, and whether its
                \* fingerprint is still the file's
    chg,        \* per source: the staged changes
    writeOK,    \* the sources unlocked for writing
    stale,      \* the sources whose file moved under the staged set
    ui,         \* the overlays and the flags of the model
    job,        \* the save running off the update loop
    staged,     \* the changes staged so far
    past        \* history: what the properties need to remember

vars == <<file, handle, chg, writeOK, stale, ui, job, staged, past>>

\* How often each change was applied (twice is already wrong), and what other
\* writers put there.
Content == [times : [Changes -> 0..2], foreign : SUBSET Writers]

Untouched == [times |-> [c \in Changes |-> 0], foreign |-> {}]

Screen == [up : BOOLEAN, saveConfirm : BOOLEAN, saving : BOOLEAN, saveConflict : Sources \cup {NoSource},
           quitGuard : BOOLEAN, quitAfterSave : BOOLEAN]

\* The save: the captured set, the sources still to be written, the step the
\* first of them is at, and the message so far.
Jobs == [set : [Sources -> SUBSET Changes], todo : SUBSET Sources,
         at : {"none", "apply", "check", "install", "settle", "done"},
         written : SUBSET Sources, source : Sources \cup {NoSource},
         err : {"none", "changed", "other"}]

NoJob == [set |-> [s \in Sources |-> {}], todo |-> {}, at |-> "none", written |-> {},
          source |-> NoSource, err |-> "none"]

History ==
    [dropped : SUBSET Changes,      \* undone, or discarded on the way out
     suspect : SUBSET Changes,      \* in a save that failed after its rename, or
                                    \* whose handle could not be read again
     unreviewed : SUBSET Changes,   \* written without being in the confirmed set
     landed : SUBSET Writers,       \* what other writers have put anywhere
     answered : [Changes -> SUBSET Writers],    \* what the reader knew, per change
     unasked : SUBSET Writers,      \* overwritten without an answer
     excused : SUBSET Writers,      \* taken in after some other failure
     wanted : BOOLEAN,              \* the save under way is one to quit after
     unwanted : BOOLEAN]            \* harmos quit after another one

Init ==
    /\ file = [s \in Sources |-> Untouched]
    /\ handle = [s \in Sources |-> [db |-> Untouched, same |-> TRUE]]
    /\ chg = [s \in Sources |-> {}]
    /\ writeOK \in SUBSET Sources
    /\ stale = {}
    /\ ui = [up |-> TRUE, saveConfirm |-> FALSE, saving |-> FALSE, saveConflict |-> NoSource,
             quitGuard |-> FALSE, quitAfterSave |-> FALSE]
    /\ job = NoJob /\ staged = 0
    /\ past = [dropped |-> {}, suspect |-> {}, unreviewed |-> {}, landed |-> {},
               answered |-> [c \in Changes |-> {}], unasked |-> {}, excused |-> {},
               wanted |-> FALSE, unwanted |-> FALSE]

WithWork == {s \in Sources : chg[s] # {}}

\* (mutant) a key is taken while the file is being written
KeysAlways == ui.up /\ ~ui.saveConfirm /\ ~ui.quitGuard /\ ui.saveConflict = NoSource

\* No overlay owns the keyboard and no save is running.
Keys == ui.up /\ ~ui.saveConfirm /\ ~ui.quitGuard /\ ui.saveConflict = NoSource /\ ~ui.saving

-------------------------------------------------------------------------------
(* Staging, the write lock, and the other writers.                             *)

\* Editing asks for a source that is unlocked.  The change is made against what
\* the view shows: the file as the handle last read it.
StageChange(s) ==
    /\ Keys /\ s \in writeOK /\ staged < MaxChanges
    /\ staged' = staged + 1
    /\ chg' = [chg EXCEPT ![s] = @ \cup {staged'}]
    /\ past' = [past EXCEPT !.answered[staged'] = handle[s].db.foreign]
    /\ UNCHANGED <<file, handle, writeOK, stale, ui, job>>

UndoChange(s) ==
    /\ Keys
    /\ \E c \in chg[s] :
          /\ chg' = [chg EXCEPT ![s] = @ \ {c}]
          /\ past' = [past EXCEPT !.dropped = @ \cup {c}]
    /\ UNCHANGED <<file, handle, writeOK, stale, ui, job, staged>>

ToggleWriteLock(s) ==
    /\ Keys
    /\ writeOK' = IF s \in writeOK THEN writeOK \ {s} ELSE writeOK \cup {s}
    /\ UNCHANGED <<file, handle, chg, stale, ui, job, staged, past>>

ForeignWrite(s) ==
    /\ \E w \in Writers :
          /\ w \notin past.landed
          /\ file' = [file EXCEPT ![s].foreign = @ \cup {w}]
          /\ past' = [past EXCEPT !.landed = @ \cup {w}]
    /\ handle' = [handle EXCEPT ![s].same = FALSE]
    /\ UNCHANGED <<chg, writeOK, stale, ui, job, staged>>

-------------------------------------------------------------------------------
(* Asking to save, and to quit.                                                *)

\* askToSave, and the overlay it leaves up.
Asked(screen) ==
    LET conflicts == WithWork \cap stale IN
    IF WithWork = {} THEN screen
    ELSE IF conflicts # {} THEN [screen EXCEPT !.saveConflict = Min(conflicts)]
    ELSE IF WithWork \subseteq writeOK THEN [screen EXCEPT !.saveConfirm = TRUE]
    ELSE screen

AskToSave ==
    /\ Keys
    /\ ui' = Asked(ui)
    /\ UNCHANGED <<file, handle, chg, writeOK, stale, job, staged, past>>

\* (mutant) the confirmation stays up behind the save
ConfirmSaveStaying ==
    /\ ui.up /\ ui.saveConfirm /\ ~ui.quitGuard
    /\ ui' = [ui EXCEPT !.saving = TRUE]
    /\ job' = [NoJob EXCEPT !.set = chg, !.todo = WithWork, !.at = "apply"]
    /\ UNCHANGED <<file, handle, chg, writeOK, stale, staged, past>>

\* Yes: saveCmd captures the set and its sources and runs off the loop.
ConfirmSave ==
    /\ ui.up /\ ui.saveConfirm /\ ~ui.quitGuard
    /\ ui' = [ui EXCEPT !.saveConfirm = FALSE, !.saving = TRUE]
    /\ job' = [NoJob EXCEPT !.set = chg, !.todo = WithWork, !.at = "apply"]
    /\ UNCHANGED <<file, handle, chg, writeOK, stale, staged, past>>

CancelSave ==
    /\ ui.up /\ ui.saveConfirm /\ ~ui.quitGuard
    /\ ui' = [ui EXCEPT !.saveConfirm = FALSE]
    /\ past' = [past EXCEPT !.wanted = FALSE]
    /\ UNCHANGED <<file, handle, chg, writeOK, stale, job, staged>>

\* q where no overlay is up, ctrl+c over any overlay but a running save.
Quit ==
    /\ ui.up /\ ~ui.saving /\ ~ui.quitGuard
    /\ ui' = IF WithWork # {} THEN [ui EXCEPT !.quitGuard = TRUE] ELSE [ui EXCEPT !.up = FALSE]
    /\ UNCHANGED <<file, handle, chg, writeOK, stale, job, staged, past>>

\* Discard and quit; ctrl+c on the guard means the same.
QuitDiscarding ==
    /\ ui.up /\ ui.quitGuard
    /\ ui' = [ui EXCEPT !.up = FALSE]
    /\ past' = [past EXCEPT !.dropped = @ \cup UNION {chg[s] : s \in Sources}]
    /\ UNCHANGED <<file, handle, chg, writeOK, stale, job, staged>>

QuitStay ==
    /\ ui.up /\ ui.quitGuard
    /\ ui' = [ui EXCEPT !.quitGuard = FALSE]
    /\ UNCHANGED <<file, handle, chg, writeOK, stale, job, staged, past>>

\* Save and quit: through the confirmation, or into whatever askToSave refuses.
QuitSaving ==
    /\ ui.up /\ ui.quitGuard
    /\ ui' = Asked([ui EXCEPT !.quitGuard = FALSE, !.quitAfterSave = TRUE])
    /\ past' = [past EXCEPT !.wanted = TRUE]
    /\ UNCHANGED <<file, handle, chg, writeOK, stale, job, staged>>

-------------------------------------------------------------------------------
(* The save, off the update loop: one source after another.                    *)

Current == Min(job.todo)

Ended(err) == [job EXCEPT !.at = "done", !.source = Current, !.err = err]

\* Apply works on the database in memory, change by change.
Applied(db, set) ==
    [db EXCEPT !.times = [c \in Changes |-> IF c \in set THEN Min({2, db.times[c] + 1}) ELSE db.times[c]]]

JobApply ==
    /\ job.at = "apply"
    /\ IF Current \in writeOK
       THEN /\ handle' = [handle EXCEPT ![Current].db = Applied(@, job.set[Current])]
            /\ job' = [job EXCEPT !.at = "check"]
       ELSE job' = Ended("other") /\ UNCHANGED handle
    /\ UNCHANGED <<file, chg, writeOK, stale, ui, staged, past>>

\* The vault refuses one of the operations; those before it stay applied.
JobApplyFails ==
    /\ job.at = "apply" /\ Current \in writeOK
    /\ \E some \in (SUBSET job.set[Current]) \ {job.set[Current]} :
          handle' = [handle EXCEPT ![Current].db = Applied(@, some)]
    /\ job' = Ended("other")
    /\ UNCHANGED <<file, chg, writeOK, stale, ui, staged, past>>

JobCheck ==
    /\ job.at = "check"
    /\ job' = IF handle[Current].same THEN [job EXCEPT !.at = "install"] ELSE Ended("changed")
    /\ UNCHANGED <<file, handle, chg, writeOK, stale, ui, staged, past>>

\* The rename: the file is what the handle's database is.
JobInstall ==
    /\ job.at = "install"
    /\ LET s == Current
           db == handle[s].db
           unknown == UNION {db.foreign \ past.answered[c] : c \in job.set[s]} IN
       /\ file' = [file EXCEPT ![s] = db]
       /\ handle' = [handle EXCEPT ![s].same = FALSE]
       /\ past' = [past EXCEPT
            !.unreviewed = @ \cup {c \in Changes \ job.set[s] : db.times[c] > file[s].times[c]},
            !.unasked = @ \cup unknown]
    /\ job' = [job EXCEPT !.at = "settle"]
    /\ UNCHANGED <<chg, writeOK, stale, ui, staged>>

\* The fingerprint afterwards is of whatever the path names by then.
JobSettle ==
    /\ job.at = "settle"
    /\ handle' = [handle EXCEPT ![Current].same = TRUE]
    /\ job' = [job EXCEPT !.at = IF job.todo = {Current} THEN "done" ELSE "apply",
                          !.todo = @ \ {Current}, !.written = @ \cup {Current}]
    /\ UNCHANGED <<file, chg, writeOK, stale, ui, staged, past>>

\* Any step of Save may fail, the ones after the rename too.
JobFails ==
    /\ job.at \in {"check", "install", "settle"}
    /\ job' = Ended("other")
    /\ past' = IF job.at = "settle" THEN [past EXCEPT !.suspect = @ \cup job.set[Current]] ELSE past
    /\ UNCHANGED <<file, handle, chg, writeOK, stale, ui, staged>>

-------------------------------------------------------------------------------
(* What is done with the result.                                               *)

\* (mutant) a save that failed anywhere keeps everything staged
LeftStagedAfterAll == IF job.err = "none" THEN [s \in Sources |-> {}] ELSE chg

\* The written sources' changes come off the set; on success so does the rest.
LeftStaged ==
    IF job.err = "none" THEN [s \in Sources |-> {}]
    ELSE [s \in Sources |-> IF s \in job.written THEN {} ELSE chg[s]]

\* (mutant) reopening the handle is taken for an answer
StaleForgotten == IF job.err = "none" THEN {} ELSE stale \ job.written

StaleAfter ==
    IF job.err = "none" THEN {}
    ELSE (stale \ job.written) \cup IF job.err = "changed" THEN {job.source} ELSE {}

\* (mutant) only a conflict makes the handle read its file again
ReopenedOnConflict == job.written \cup IF job.err = "changed" THEN {job.source} ELSE {}

\* The handles read again: written ones to show the result, the failed one to
\* throw away a database that was changed half-way.
ToReopen == job.written \cup IF job.err # "none" THEN {job.source} ELSE {}

OnSaveDone ==
    /\ job.at = "done"
    /\ chg' = LeftStaged
    /\ stale' = StaleAfter
    /\ \E readable \in SUBSET ToReopen :
          /\ handle' = [s \in Sources |->
                IF s \in readable THEN [db |-> file[s], same |-> TRUE] ELSE handle[s]]
          /\ past' = [past EXCEPT
                !.suspect = @ \cup IF job.err # "none" /\ job.source \in ToReopen \ readable
                                   THEN job.set[job.source] ELSE {},
                !.excused = @ \cup IF job.err = "other" THEN file[job.source].foreign ELSE {},
                !.unwanted = @ \/ (job.err = "none" /\ ui.quitAfterSave /\ ~past.wanted),
                !.wanted = FALSE]
    /\ ui' = [ui EXCEPT !.saving = FALSE,
                        !.saveConflict = IF job.err = "changed" THEN job.source ELSE NoSource,
                        !.up = ~(job.err = "none" /\ @ /\ ui.quitAfterSave),
                        !.quitAfterSave = FALSE]
    /\ job' = NoJob
    /\ UNCHANGED <<file, writeOK, staged>>

OnConflict == ui.up /\ ui.saveConflict # NoSource /\ ~ui.quitGuard /\ ~ui.saveConfirm

\* Read the file again and keep the staged changes; the source stays stale.
ConflictReload ==
    /\ OnConflict
    /\ handle' \in {handle, [handle EXCEPT ![ui.saveConflict] =
                                [db |-> file[ui.saveConflict], same |-> TRUE]]}
    /\ ui' = [ui EXCEPT !.saveConflict = NoSource]
    /\ UNCHANGED <<file, chg, writeOK, stale, job, staged, past>>

\* The second confirmation: the next save goes ahead.
ConflictOverwrite ==
    /\ OnConflict
    /\ LET s == ui.saveConflict IN
       /\ stale' = stale \ {s}
       /\ past' = [past EXCEPT !.answered = [c \in Changes |->
                      past.answered[c] \cup IF c \in chg[s] THEN handle[s].db.foreign ELSE {}]]
    /\ ui' = [ui EXCEPT !.saveConflict = NoSource]
    /\ UNCHANGED <<file, handle, chg, writeOK, job, staged>>

ConflictLeave ==
    /\ OnConflict
    /\ ui' = [ui EXCEPT !.saveConflict = NoSource]
    /\ past' = [past EXCEPT !.wanted = FALSE]
    /\ UNCHANGED <<file, handle, chg, writeOK, stale, job, staged>>

Next ==
    \/ \E s \in Sources :
          StageChange(s) \/ UndoChange(s) \/ ToggleWriteLock(s) \/ ForeignWrite(s)
    \/ AskToSave \/ ConfirmSave \/ CancelSave
    \/ Quit \/ QuitDiscarding \/ QuitStay \/ QuitSaving
    \/ JobApply \/ JobApplyFails \/ JobCheck \/ JobInstall \/ JobSettle \/ JobFails
    \/ OnSaveDone
    \/ ConflictReload \/ ConflictOverwrite \/ ConflictLeave

Spec == Init /\ [][Next]_vars

-------------------------------------------------------------------------------
(* Properties.                                                                 *)

\* Types, and: no overlay is up while a save runs, and a save runs exactly while
\* the model says so (tui.go:712).
TypeOK ==
    /\ file \in [Sources -> Content]
    /\ handle \in [Sources -> [db : Content, same : BOOLEAN]]
    /\ chg \in [Sources -> SUBSET Changes]
    /\ writeOK \subseteq Sources /\ stale \subseteq Sources
    /\ ui \in Screen /\ job \in Jobs
    /\ staged \in 0..MaxChanges
    /\ past \in History
    /\ ui.saving <=> job.at # "none"
    /\ ui.saving => ~ui.saveConfirm /\ ~ui.quitGuard /\ ui.saveConflict = NoSource

\* A retry after a partly failed save writes no change a second time, unless a
\* step after the rename failed or the file could not be read again: those
\* changes stay staged though they are on disk (changes.go:23, :344).
WrittenOnce == \A s \in Sources, c \in Changes : file[s].times[c] > 1 => c \in past.suspect

\* A change that was staged is staged still, is in its file, or was given up by
\* the reader: no save, conflict or way out loses it (changes.go:286, tui.go:712).
NothingForgotten ==
    \A c \in 1..staged :
       \/ c \in past.dropped
       \/ \E s \in Sources : c \in chg[s] \/ file[s].times[c] > 0

\* A save writes what was confirmed and nothing left over from a save that failed
\* before it, unless the handle could not be read again (changes.go:306).
ReviewedOnly == past.unreviewed \subseteq past.suspect

\* What another writer did to a file is written over by changes made before it
\* only after the reader was asked, or when some other failure of a save made the
\* handle read it (changes.go:173, tui.go:153).
AskedBeforeOverwriting == past.unasked \subseteq past.excused

\* Violated: "stale is the sources whose file changed under us since the staged
\* set was built" (tui.go:153) is not set where a save fails for another reason.
NeverOverwritesUnasked == past.unasked = {}

\* Violated: "esc cancel" on the save confirmation (changes.go:492) leaves "quit
\* once the save lands" (tui.go:159) standing for whichever save comes next.
QuitsAfterTheSaveItWasAskedFor == ~past.unwanted
===============================================================================
