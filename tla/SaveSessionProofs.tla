-------------------------- MODULE SaveSessionProofs --------------------------
(* What holds from staging to the written file for any number of sources,      *)
(* changes and other writers.  One inductive invariant carries the five        *)
(* properties of SaveSession: a running save works on exactly what is staged   *)
(* (JobOK), the overlays say what is the case (UiOK), and per source and       *)
(* change, file, database and staged set agree on how often it was applied     *)
(* (ContentOK); besides, what a change was made without knowing is on record   *)
(* (Known).                                                                    *)
EXTENDS SaveSession, SetLemmas, TLAPS

Steps == {"apply", "check", "install", "settle"}

\* The save runs over the set as it was confirmed, each source with work once;
\* it stops at the first that fails, and at none that is known to be stale.
JobOK ==
    /\ job.at = "none" => job = NoJob
    /\ job.at # "none" =>
         /\ job.set = chg
         /\ WithWork = job.todo \cup job.written
         /\ job.todo \cap job.written = {}
         /\ WithWork \cap stale = {}
    /\ job.at \in Steps => job.todo # {} /\ job.err = "none"
    /\ job.at = "done" /\ job.err = "none" => job.todo = {}
    /\ job.err # "none" => job.todo # {} /\ job.source = Current

\* What is asked for confirmation can be saved; a conflict screen is about a
\* source with work whose file moved.
UiOK ==
    /\ ui.saveConfirm =>
         /\ ui.saveConflict = NoSource
         /\ WithWork # {} /\ WithWork \cap stale = {}
    /\ ui.saveConflict # NoSource => ui.saveConflict \in WithWork \cap stale

\* The save is at s, and its database may hold what its file does not.
Touched(s) == job.at \in {"check", "install", "done"} /\ job.todo # {} /\ s = Current

\* The save has replaced the file of s.
Through(s) == s \in job.written \/ (job.at = "settle" /\ s = Current)

InFile(s, c) == file[s].times[c]
InHandle(s, c) == handle[s].db.times[c]

\* The database is never behind its file, a change nobody staged yet is nowhere,
\* what the save is through with is written; and, but for the changes a failure
\* left in doubt, nothing is applied twice, a staged change is in no file, and the
\* database is its file's wherever no save is at work.
ContentAt(s, c) ==
    /\ InFile(s, c) <= InHandle(s, c)
    /\ c > staged => c \notin chg[s] /\ InHandle(s, c) = 0
    /\ c \in job.set[s] /\ Through(s) => InFile(s, c) > 0
    /\ c \in job.set[s] /\ job.at \in {"check", "install"} /\ s = Current => InHandle(s, c) > 0
    /\ c \in past.suspect \/
         /\ InHandle(s, c) <= 1
         /\ c \in chg[s] /\ ~Through(s) => InFile(s, c) = 0
         /\ c \notin chg[s] \/ ~Touched(s) => InHandle(s, c) = InFile(s, c)

ContentOK == \A s \in Sources, c \in Changes : ContentAt(s, c)

\* Where no conflict is recorded, the reader knew what the database holds of
\* other writers' work when each change was staged, or has been asked since.
Known ==
    \A s \in Sources \ stale : \A c \in chg[s] :
      handle[s].db.foreign \subseteq past.answered[c] \cup past.excused

Control == TypeOK /\ JobOK /\ UiOK

-------------------------------------------------------------------------------
(* Helpers.                                                                    *)

\* The source a save is at is one that is still to be written.
LEMMA CurrentIsTodo ==
  ASSUME TypeOK, job.todo # {}
  PROVE  Current \in job.todo /\ Current \in Sources
  BY MinIsLeast, SessionAssumption DEF TypeOK, Jobs, Current

\* Applying counts each change of the set once more, up to two.
LEMMA AppliedCounts ==
  ASSUME NEW db \in Content, NEW set
  PROVE  /\ Applied(db, set) \in Content
         /\ Applied(db, set).foreign = db.foreign
         /\ \A c \in Changes : Applied(db, set).times[c] =
               IF c \notin set THEN db.times[c] ELSE IF db.times[c] = 0 THEN 1 ELSE 2
  <1>1. \A n \in 0..2 : Min({2, n + 1}) = IF n = 0 THEN 1 ELSE 2
    <2> SUFFICES ASSUME NEW n \in 0..2 PROVE Min({2, n + 1}) = IF n = 0 THEN 1 ELSE 2
      OBVIOUS
    <2>1. {2, n + 1} \subseteq Nat /\ {2, n + 1} # {}
      OBVIOUS
    <2>2. Min({2, n + 1}) \in {2, n + 1} /\ \A y \in {2, n + 1} : Min({2, n + 1}) <= y
      BY <2>1, MinIsLeast
    <2>3. QED
      BY <2>2
  <1> DEFINE times == [c \in Changes |-> IF c \in set THEN Min({2, db.times[c] + 1}) ELSE db.times[c]]
  <1>2. Applied(db, set) = [db EXCEPT !.times = times]
    BY DEF Applied
  <1>3. \A c \in Changes : times[c] = IF c \notin set THEN db.times[c] ELSE IF db.times[c] = 0 THEN 1 ELSE 2
    BY <1>1 DEF Content
  <1>4. times \in [Changes -> 0..2]
    BY <1>3 DEF Content
  <1> HIDE DEF times
  <1>5. QED
    BY <1>2, <1>3, <1>4 DEF Content

-------------------------------------------------------------------------------
(* The control: types, the job and the overlays.                               *)

LEMMA ControlInit == Init => Control
  <1> SUFFICES ASSUME Init PROVE Control
    OBVIOUS
  <1>1. Untouched \in Content
    BY DEF Untouched, Content
  <1>2. NoJob \in Jobs /\ NoJob.at = "none" /\ NoJob.err = "none"
    BY DEF NoJob, Jobs
  <1>3. TypeOK
    BY <1>1, <1>2, SessionAssumption DEF Init, TypeOK, Screen, History, NoSource
  <1>4. JobOK /\ UiOK
    BY <1>2 DEF Init, JobOK, UiOK, NoSource, Steps
  <1>5. QED
    BY <1>3, <1>4 DEF Control

\* Whatever the staged set, what askToSave leaves up is a screen that says what
\* is the case.
LEMMA AskedOK ==
  ASSUME TypeOK, UiOK, NEW screen \in Screen, ~screen.saving, ~screen.quitGuard,
         screen.saveConfirm = ui.saveConfirm, screen.saveConflict = ui.saveConflict
  PROVE  LET asked == Asked(screen) IN
         /\ asked \in Screen /\ ~asked.saving
         /\ asked.saveConfirm =>
              asked.saveConflict = NoSource /\ WithWork # {} /\ WithWork \cap stale = {}
         /\ asked.saveConflict # NoSource => asked.saveConflict \in WithWork \cap stale
  <1> DEFINE conflicts == WithWork \cap stale
  <1>1. CASE WithWork = {}
    BY <1>1 DEF Asked, UiOK
  <1>2. CASE WithWork # {} /\ conflicts # {}
    <2>1. Min(conflicts) \in conflicts /\ Min(conflicts) \in Sources
      BY <1>2, MinIsLeast, SessionAssumption DEF WithWork
    <2>2. Asked(screen) = [screen EXCEPT !.saveConflict = Min(conflicts)]
      BY <1>2 DEF Asked
    <2>3. ~ui.saveConfirm
      BY <1>2 DEF UiOK
    <2> HIDE DEF conflicts
    <2>4. Asked(screen) \in Screen /\ Asked(screen).saveConflict = Min(conflicts)
          /\ Asked(screen).saving = screen.saving /\ Asked(screen).saveConfirm = screen.saveConfirm
      BY <2>1, <2>2 DEF Screen
    <2>5. QED
      BY <2>1, <2>3, <2>4 DEF conflicts
  <1>3. CASE WithWork # {} /\ conflicts = {}
    <2>1. ui.saveConflict = NoSource
      BY <1>3 DEF UiOK
    <2>2. Asked(screen) \in {screen, [screen EXCEPT !.saveConfirm = TRUE]}
      BY <1>3 DEF Asked
    <2>3. QED
      BY <1>3, <2>1, <2>2 DEF Screen
  <1>4. QED
    BY <1>1, <1>2, <1>3

\* Staging, the lock and the other writers.
LEMMA ControlStaging ==
  ASSUME Control, NEW s \in Sources,
         StageChange(s) \/ UndoChange(s) \/ ToggleWriteLock(s) \/ ForeignWrite(s)
  PROVE  Control'
  <1> USE DEF Control
  <1>1. CASE StageChange(s)
    <2>1. /\ staged + 1 \in 0..MaxChanges /\ staged + 1 \in Changes
          /\ handle[s].db.foreign \subseteq Writers
      BY <1>1, SessionAssumption DEF StageChange, TypeOK, Content, Changes
    <2>2. TypeOK'
      <3>1. past' \in History
        BY <1>1, <2>1 DEF StageChange, TypeOK, History
      <3>2. chg' \in [Sources -> SUBSET Changes]
        BY <1>1, <2>1 DEF StageChange, TypeOK
      <3>3. QED
        BY <1>1, <2>1, <3>1, <3>2 DEF StageChange, TypeOK
    <2>3. JobOK'
      BY <1>1 DEF StageChange, Keys, TypeOK, JobOK, Current, Steps, NoJob
    <2>4. UiOK'
      BY <1>1 DEF StageChange, Keys, TypeOK, UiOK
    <2>5. QED
      BY <2>2, <2>3, <2>4
  <1>2. CASE UndoChange(s)
    <2>1. PICK c \in chg[s] :
            /\ chg' = [chg EXCEPT ![s] = @ \ {c}]
            /\ past' = [past EXCEPT !.dropped = @ \cup {c}]
      BY <1>2 DEF UndoChange
    <2>2. TypeOK'
      <3>1. past' \in History
        BY <2>1 DEF TypeOK, History
      <3>2. chg' \in [Sources -> SUBSET Changes]
        BY <2>1 DEF TypeOK
      <3>3. QED
        BY <1>2, <3>1, <3>2 DEF UndoChange, TypeOK
    <2>3. JobOK'
      BY <1>2 DEF UndoChange, Keys, TypeOK, JobOK, Current, Steps, NoJob
    <2>4. UiOK'
      BY <1>2 DEF UndoChange, Keys, TypeOK, UiOK
    <2>5. QED
      BY <2>2, <2>3, <2>4
  <1>3. CASE ToggleWriteLock(s)
    <2>1. TypeOK'
      BY <1>3 DEF ToggleWriteLock, TypeOK
    <2>2. JobOK' /\ UiOK'
      BY <1>3 DEF ToggleWriteLock, JobOK, UiOK, WithWork, Current
    <2>3. QED
      BY <2>1, <2>2
  <1>4. CASE ForeignWrite(s)
    <2>1. PICK w \in Writers :
            /\ file' = [file EXCEPT ![s].foreign = @ \cup {w}]
            /\ past' = [past EXCEPT !.landed = @ \cup {w}]
      BY <1>4 DEF ForeignWrite
    <2>2. TypeOK'
      <3>1. past' \in History
        BY <2>1 DEF TypeOK, History
      <3>2. file' \in [Sources -> Content]
        BY <2>1 DEF TypeOK, Content
      <3>3. handle' \in [Sources -> [db : Content, same : BOOLEAN]]
        BY <1>4 DEF ForeignWrite, TypeOK
      <3>4. QED
        BY <1>4, <3>1, <3>2, <3>3 DEF ForeignWrite, TypeOK
    <2>3. JobOK' /\ UiOK'
      BY <1>4 DEF ForeignWrite, JobOK, UiOK, WithWork, Current
    <2>4. QED
      BY <2>2, <2>3
  <1>5. QED
    BY <1>1, <1>2, <1>3, <1>4

\* Asking to save, answering, and quitting.
LEMMA ControlAsking ==
  ASSUME Control,
         \/ AskToSave \/ ConfirmSave \/ CancelSave
         \/ Quit \/ QuitDiscarding \/ QuitStay \/ QuitSaving
  PROVE  Control'
  <1> USE DEF Control
  <1>0. WithWork \subseteq Sources /\ \A s \in Sources : s \in WithWork <=> chg[s] # {}
    BY DEF WithWork
  <1>1. CASE AskToSave
    <2>1. ui' = Asked(ui) /\ ~ui.saving /\ ~ui.quitGuard
      BY <1>1 DEF AskToSave, Keys
    <2>2. /\ ui' \in Screen /\ ~ui'.saving
          /\ ui'.saveConfirm =>
               ui'.saveConflict = NoSource /\ WithWork # {} /\ WithWork \cap stale = {}
          /\ ui'.saveConflict # NoSource => ui'.saveConflict \in WithWork \cap stale
      BY <2>1, AskedOK DEF TypeOK
    <2>3. QED
      BY <1>1, <2>1, <2>2 DEF AskToSave, TypeOK, JobOK, UiOK, WithWork, Current
  <1>2. CASE ConfirmSave
    <2>1. chg \in [Sources -> SUBSET Changes] /\ job.at = "none"
      BY <1>2 DEF ConfirmSave, TypeOK, UiOK
    <2>2. /\ job' \in Jobs
          /\ job'.set = chg /\ job'.todo = WithWork /\ job'.at = "apply"
          /\ job'.written = {} /\ job'.err = "none" /\ job'.source = NoSource
      BY <1>0, <1>2, <2>1 DEF ConfirmSave, NoJob, Jobs
    <2>3. /\ ui' \in Screen /\ ui'.saving /\ ~ui'.saveConfirm /\ ~ui'.quitGuard
          /\ ui'.saveConflict = NoSource
      BY <1>2 DEF ConfirmSave, TypeOK, Screen, UiOK
    <2>4. TypeOK'
      BY <1>2, <2>2, <2>3 DEF ConfirmSave, TypeOK
    <2>5. JobOK'
      BY <1>2, <2>2 DEF ConfirmSave, JobOK, UiOK, WithWork, Steps
    <2>6. UiOK'
      BY <2>3 DEF UiOK
    <2>7. QED
      BY <2>4, <2>5, <2>6
  <1>3. CASE CancelSave
    <2>1. past' \in History
      BY <1>3 DEF CancelSave, TypeOK, History
    <2>2. ui' \in Screen /\ ui'.saving = ui.saving /\ ui'.saveConflict = ui.saveConflict
          /\ ~ui'.saveConfirm /\ ui'.quitGuard = ui.quitGuard
      BY <1>3 DEF CancelSave, TypeOK, Screen
    <2>3. QED
      BY <1>3, <2>1, <2>2 DEF CancelSave, TypeOK, JobOK, UiOK, WithWork, Current
  <1>4. CASE Quit \/ QuitStay
    <2>1. /\ ui' \in Screen /\ ui'.saving = ui.saving /\ ui'.saveConflict = ui.saveConflict
          /\ ui'.saveConfirm = ui.saveConfirm /\ ~ui.saving
      BY <1>4 DEF Quit, QuitStay, TypeOK, Screen
    <2>2. QED
      BY <1>4, <2>1 DEF Quit, QuitStay, TypeOK, JobOK, UiOK, WithWork, Current
  <1>5. CASE QuitDiscarding
    <2>1. past' \in History
      <3>1. UNION {chg[s] : s \in Sources} \subseteq Changes
        BY DEF TypeOK
      <3>2. QED
        BY <1>5, <3>1 DEF QuitDiscarding, TypeOK, History
    <2>2. /\ ui' \in Screen /\ ui'.saving = ui.saving /\ ui'.saveConflict = ui.saveConflict
          /\ ui'.saveConfirm = ui.saveConfirm /\ ~ui.saving
      BY <1>5 DEF QuitDiscarding, TypeOK, Screen
    <2>3. QED
      BY <1>5, <2>1, <2>2 DEF QuitDiscarding, TypeOK, JobOK, UiOK, WithWork, Current
  <1>6. CASE QuitSaving
    <2> DEFINE screen == [ui EXCEPT !.quitGuard = FALSE, !.quitAfterSave = TRUE]
    <2>1. /\ screen \in Screen /\ ~screen.saving /\ ~screen.quitGuard
          /\ screen.saveConfirm = ui.saveConfirm /\ screen.saveConflict = ui.saveConflict
          /\ ui' = Asked(screen)
      BY <1>6 DEF QuitSaving, TypeOK, Screen
    <2> HIDE DEF screen
    <2>2. /\ ui' \in Screen /\ ~ui'.saving
          /\ ui'.saveConfirm =>
               ui'.saveConflict = NoSource /\ WithWork # {} /\ WithWork \cap stale = {}
          /\ ui'.saveConflict # NoSource => ui'.saveConflict \in WithWork \cap stale
      BY <2>1, AskedOK
    <2>3. past' \in History /\ ~ui.saving
      BY <1>6 DEF QuitSaving, TypeOK, History
    <2>4. QED
      BY <1>6, <2>2, <2>3 DEF QuitSaving, TypeOK, JobOK, UiOK, WithWork, Current
  <1>7. QED
    BY <1>1, <1>2, <1>3, <1>4, <1>5, <1>6

\* The save itself: it stays at work on the set it captured.
LEMMA ControlJob ==
  ASSUME Control,
         JobApply \/ JobApplyFails \/ JobCheck \/ JobInstall \/ JobSettle \/ JobFails
  PROVE  Control'
  <1> USE DEF Control
  <1>0. job.at \in Steps
    BY DEF JobApply, JobApplyFails, JobCheck, JobInstall, JobSettle, JobFails, Steps
  <1>1. job.todo # {} /\ Current \in job.todo /\ Current \in Sources
    BY <1>0, CurrentIsTodo DEF JobOK
  <1>2. /\ chg \in [Sources -> SUBSET Changes] /\ handle[Current].db \in Content
        /\ job.set[Current] \subseteq Changes
    BY <1>0, <1>1 DEF TypeOK, JobOK, Steps
  <1>3. \A e \in {"changed", "other"} :
          /\ Ended(e) \in Jobs /\ Ended(e).at = "done" /\ Ended(e).set = job.set
          /\ Ended(e).todo = job.todo /\ Ended(e).written = job.written
          /\ Ended(e).err = e /\ Ended(e).source = Current
    BY <1>1 DEF Ended, TypeOK, Jobs
  <1>4. ASSUME NEW e \in {"changed", "other"}, job' = Ended(e), UNCHANGED <<chg, stale>>
        PROVE  JobOK'
    <2>1. job'.at = "done" /\ job'.set = job.set /\ job'.todo = job.todo
          /\ job'.written = job.written /\ job'.err = e /\ job'.source = Current
      BY <1>3, <1>4
    <2>2. Current' = Current /\ WithWork' = WithWork
      BY <2>1, <1>4 DEF Current, WithWork
    <2>3. QED
      BY <1>0, <1>1, <1>4, <2>1, <2>2 DEF JobOK, Steps
  <1>5. ASSUME NEW step \in Steps, job' = [job EXCEPT !.at = step], UNCHANGED <<chg, stale>>
        PROVE  job' \in Jobs /\ job'.at = step /\ JobOK'
    <2>1. /\ job' \in Jobs /\ job'.at = step /\ job'.set = job.set /\ job'.todo = job.todo
          /\ job'.written = job.written /\ job'.err = job.err /\ job'.source = job.source
      BY <1>5 DEF TypeOK, Jobs, Steps
    <2>2. Current' = Current /\ WithWork' = WithWork
      BY <2>1, <1>5 DEF Current, WithWork
    <2>3. QED
      BY <1>0, <1>1, <1>5, <2>1, <2>2 DEF JobOK, Steps
  <1>6. ASSUME UNCHANGED <<chg, stale, ui>> PROVE UiOK'
    BY <1>6 DEF UiOK, WithWork
  <1>7. ASSUME NEW set \in SUBSET Changes,
               handle' = [handle EXCEPT ![Current].db = Applied(@, set)]
        PROVE  handle' \in [Sources -> [db : Content, same : BOOLEAN]]
    <2>1. Applied(handle[Current].db, set) \in Content
      BY <1>2, AppliedCounts
    <2>2. QED
      BY <1>1, <1>7, <2>1 DEF TypeOK
  <1>8. CASE JobApply
    <2>1. UNCHANGED <<file, chg, writeOK, stale, ui, staged, past>>
      BY <1>8 DEF JobApply
    <2>2. CASE Current \in writeOK
      <3>1. job' = [job EXCEPT !.at = "check"]
            /\ handle' = [handle EXCEPT ![Current].db = Applied(@, job.set[Current])]
        BY <1>8, <2>2 DEF JobApply
      <3>2. job' \in Jobs /\ job'.at = "check" /\ JobOK'
        BY <1>5, <2>1, <3>1 DEF Steps
      <3>3. handle' \in [Sources -> [db : Content, same : BOOLEAN]]
        BY <1>2, <1>7, <3>1
      <3>4. QED
        BY <1>0, <1>6, <2>1, <3>2, <3>3 DEF TypeOK, Steps
    <2>3. CASE Current \notin writeOK
      <3>1. job' = Ended("other") /\ handle' = handle
        BY <1>8, <2>3 DEF JobApply
      <3>2. QED
        BY <1>0, <1>3, <1>4, <1>6, <2>1, <3>1 DEF TypeOK, Steps
    <2>4. QED
      BY <2>2, <2>3
  <1>9. CASE JobApplyFails
    <2>1. UNCHANGED <<file, chg, writeOK, stale, ui, staged, past>> /\ job' = Ended("other")
      BY <1>9 DEF JobApplyFails
    <2>2. PICK some \in SUBSET job.set[Current] :
            handle' = [handle EXCEPT ![Current].db = Applied(@, some)]
      BY <1>9 DEF JobApplyFails
    <2>3. handle' \in [Sources -> [db : Content, same : BOOLEAN]]
      BY <1>2, <1>7, <2>2
    <2>4. QED
      BY <1>0, <1>3, <1>4, <1>6, <2>1, <2>3 DEF TypeOK, Steps
  <1>10. CASE JobCheck
    <2>1. UNCHANGED <<file, handle, chg, writeOK, stale, ui, staged, past>>
      BY <1>10 DEF JobCheck
    <2>2. job' = [job EXCEPT !.at = "install"] \/ job' = Ended("changed")
      BY <1>10 DEF JobCheck
    <2>3. job' \in Jobs /\ job'.at # "none" /\ JobOK'
      BY <1>3, <1>4, <1>5, <2>1, <2>2 DEF Steps
    <2>4. QED
      BY <1>0, <1>6, <2>1, <2>3 DEF TypeOK, Steps
  <1>11. CASE JobInstall
    <2>1. UNCHANGED <<chg, writeOK, stale, ui, staged>> /\ job' = [job EXCEPT !.at = "settle"]
      BY <1>11 DEF JobInstall
    <2>2. job' \in Jobs /\ job'.at = "settle" /\ JobOK'
      BY <1>5, <2>1 DEF Steps
    <2>3. file' = [file EXCEPT ![Current] = handle[Current].db]
          /\ handle' = [handle EXCEPT ![Current].same = FALSE]
      BY <1>11 DEF JobInstall
    <2>4. file' \in [Sources -> Content] /\ handle' \in [Sources -> [db : Content, same : BOOLEAN]]
      BY <1>1, <1>2, <2>3 DEF TypeOK
    <2>5. past' \in History
      <3> DEFINE unknown == UNION {handle[Current].db.foreign \ past.answered[c] : c \in job.set[Current]}
                 more == {c \in Changes \ job.set[Current] :
                            handle[Current].db.times[c] > file[Current].times[c]}
      <3>1. unknown \subseteq Writers /\ more \subseteq Changes
        BY <1>2 DEF Content
      <3>2. past' = [past EXCEPT !.unreviewed = @ \cup more, !.unasked = @ \cup unknown]
        BY <1>11 DEF JobInstall
      <3> HIDE DEF unknown, more
      <3>3. QED
        BY <3>1, <3>2 DEF TypeOK, History
    <2>6. QED
      BY <1>0, <1>6, <2>1, <2>2, <2>4, <2>5 DEF TypeOK, Steps
  <1>12. CASE JobSettle
    <2>1. UNCHANGED <<file, chg, writeOK, stale, ui, staged, past>>
          /\ handle' = [handle EXCEPT ![Current].same = TRUE]
          /\ job' = [job EXCEPT !.at = IF job.todo = {Current} THEN "done" ELSE "apply",
                                !.todo = @ \ {Current}, !.written = @ \cup {Current}]
      BY <1>12 DEF JobSettle
    <2>2. /\ job' \in Jobs /\ job'.at = (IF job.todo = {Current} THEN "done" ELSE "apply")
          /\ job'.todo = job.todo \ {Current} /\ job'.written = job.written \cup {Current}
          /\ job'.set = job.set /\ job'.err = job.err /\ job'.source = job.source
      BY <1>1, <2>1 DEF TypeOK, Jobs
    <2>3. handle' \in [Sources -> [db : Content, same : BOOLEAN]]
      BY <1>1, <2>1 DEF TypeOK
    <2>4. WithWork' = WithWork
      BY <2>1 DEF WithWork
    <2>5. JobOK'
      BY <1>0, <1>1, <2>1, <2>2, <2>4 DEF JobOK, Steps
    <2>6. QED
      BY <1>0, <1>6, <2>1, <2>2, <2>3, <2>5 DEF TypeOK, Steps
  <1>13. CASE JobFails
    <2>1. UNCHANGED <<file, handle, chg, writeOK, stale, ui, staged>> /\ job' = Ended("other")
          /\ past' \in {past, [past EXCEPT !.suspect = @ \cup job.set[Current]]}
      BY <1>13 DEF JobFails
    <2>2. past' \in History
      BY <1>2, <2>1 DEF TypeOK, History
    <2>3. QED
      BY <1>0, <1>3, <1>4, <1>6, <2>1, <2>2 DEF TypeOK, Steps
  <1>14. QED
    BY <1>8, <1>9, <1>10, <1>11, <1>12, <1>13

\* What is done with the result: the save is over, and a conflict screen is about
\* the source that was refused.
LEMMA ControlDone ==
  ASSUME Control, OnSaveDone
  PROVE  Control'
  <1> USE DEF Control
  <1>1. job.at = "done" /\ job' = NoJob /\ UNCHANGED <<file, writeOK, staged>>
        /\ chg' = LeftStaged /\ stale' = StaleAfter
    BY DEF OnSaveDone
  <1>2. job.set = chg /\ chg \in [Sources -> SUBSET Changes]
        /\ WithWork = job.todo \cup job.written /\ job.todo \cap job.written = {}
    BY <1>1 DEF JobOK, TypeOK
  <1>3. job.err # "none" => job.source \in job.todo /\ job.source \in Sources
    BY CurrentIsTodo DEF JobOK
  <1>4. PICK readable \in SUBSET ToReopen :
          /\ handle' = [s \in Sources |->
                IF s \in readable THEN [db |-> file[s], same |-> TRUE] ELSE handle[s]]
          /\ past' = [past EXCEPT
                !.suspect = @ \cup IF job.err # "none" /\ job.source \in ToReopen \ readable
                                   THEN job.set[job.source] ELSE {},
                !.excused = @ \cup IF job.err = "other" THEN file[job.source].foreign ELSE {},
                !.unwanted = @ \/ (job.err = "none" /\ ui.quitAfterSave /\ ~past.wanted),
                !.wanted = FALSE]
    BY DEF OnSaveDone
  <1>5. handle' \in [Sources -> [db : Content, same : BOOLEAN]]
    BY <1>4 DEF TypeOK
  <1>6. past' \in History
    <2> DEFINE more == IF job.err # "none" /\ job.source \in ToReopen \ readable
                       THEN job.set[job.source] ELSE {}
               taken == IF job.err = "other" THEN file[job.source].foreign ELSE {}
               quits == past.unwanted \/ (job.err = "none" /\ ui.quitAfterSave /\ ~past.wanted)
    <2>1. more \subseteq Changes /\ taken \subseteq Writers /\ quits \in BOOLEAN
      BY <1>2, <1>3 DEF TypeOK, Content
    <2>2. past' = [past EXCEPT !.suspect = @ \cup more, !.excused = @ \cup taken,
                               !.unwanted = quits, !.wanted = FALSE]
      BY <1>4
    <2> HIDE DEF more, taken, quits
    <2>3. QED
      BY <2>1, <2>2 DEF TypeOK, History
  <1>7. chg' \in [Sources -> SUBSET Changes]
    BY <1>1, <1>2 DEF LeftStaged
  <1>8. stale' \subseteq Sources /\ job.err \in {"none", "changed", "other"}
    BY <1>1, <1>3 DEF StaleAfter, TypeOK, Jobs
  <1>9. /\ ui' \in Screen /\ ~ui'.saving
        /\ ui'.saveConflict = IF job.err = "changed" THEN job.source ELSE NoSource
        /\ ui'.saveConfirm = ui.saveConfirm /\ ~ui.saveConfirm
    <2>1. ui' = [ui EXCEPT !.saving = FALSE,
                        !.saveConflict = IF job.err = "changed" THEN job.source ELSE NoSource,
                        !.up = ~(job.err = "none" /\ @ /\ ui.quitAfterSave),
                        !.quitAfterSave = FALSE]
      BY DEF OnSaveDone
    <2>2. (IF job.err = "changed" THEN job.source ELSE NoSource) \in Sources \cup {NoSource}
      BY <1>3
    <2>3. QED
      BY <1>1, <2>1, <2>2 DEF TypeOK, Screen
  <1>10. NoJob \in Jobs /\ NoJob.at = "none" /\ NoJob.err = "none"
    BY DEF NoJob, Jobs
  <1>11. TypeOK'
    BY <1>1, <1>5, <1>6, <1>7, <1>8, <1>9, <1>10 DEF TypeOK
  <1>12. JobOK'
    BY <1>1, <1>10 DEF JobOK, Steps
  <1>13. UiOK'
    BY <1>1, <1>2, <1>3, <1>9 DEF UiOK, LeftStaged, StaleAfter, WithWork, NoSource
  <1>14. QED
    BY <1>11, <1>12, <1>13

LEMMA ControlConflict ==
  ASSUME Control, ConflictReload \/ ConflictOverwrite \/ ConflictLeave
  PROVE  Control'
  <1> USE DEF Control
  <1>0. /\ ui.saveConflict \in Sources /\ ~ui.saveConfirm /\ ~ui.saving /\ job.at = "none"
        /\ ui' = [ui EXCEPT !.saveConflict = NoSource] /\ UNCHANGED <<file, chg, writeOK, job, staged>>
    BY DEF ConflictReload, ConflictOverwrite, ConflictLeave, OnConflict, TypeOK, Screen
  <1>1. /\ ui' \in Screen /\ ui'.saveConflict = NoSource /\ ~ui'.saveConfirm /\ ~ui'.saving
    BY <1>0 DEF TypeOK, Screen
  <1>2. JobOK' /\ UiOK'
    BY <1>0, <1>1 DEF JobOK, UiOK, NoJob, Steps
  <1>3. CASE ConflictReload
    <2> DEFINE again == [db |-> file[ui.saveConflict], same |-> TRUE]
    <2>1. again \in [db : Content, same : BOOLEAN]
      BY <1>0 DEF TypeOK
    <2>2. handle' = handle \/ handle' = [handle EXCEPT ![ui.saveConflict] = again]
      BY <1>3 DEF ConflictReload
    <2> HIDE DEF again
    <2>3. handle' \in [Sources -> [db : Content, same : BOOLEAN]]
      BY <1>0, <2>1, <2>2 DEF TypeOK
    <2>4. QED
      BY <1>0, <1>1, <1>2, <1>3, <2>3 DEF ConflictReload, TypeOK
  <1>4. CASE ConflictOverwrite
    <2> DEFINE answered == [c \in Changes |-> past.answered[c] \cup
                   IF c \in chg[ui.saveConflict] THEN handle[ui.saveConflict].db.foreign ELSE {}]
    <2>1. answered \in [Changes -> SUBSET Writers]
      BY <1>0 DEF TypeOK, History, Content
    <2>2. past' = [past EXCEPT !.answered = answered]
      BY <1>4 DEF ConflictOverwrite
    <2> HIDE DEF answered
    <2>3. past' \in History
      BY <2>1, <2>2 DEF TypeOK, History
    <2>4. QED
      BY <1>0, <1>1, <1>2, <1>4, <2>3 DEF ConflictOverwrite, TypeOK
  <1>5. CASE ConflictLeave
    <2>1. past' \in History
      BY <1>5 DEF ConflictLeave, TypeOK, History
    <2>2. QED
      BY <1>0, <1>1, <1>2, <1>5, <2>1 DEF ConflictLeave, TypeOK
  <1>6. QED
    BY <1>3, <1>4, <1>5

LEMMA ControlStep == Control /\ [Next]_vars => Control'
  <1> SUFFICES ASSUME Control, [Next]_vars PROVE Control'
    OBVIOUS
  <1>1. CASE UNCHANGED vars
    BY <1>1 DEF vars, Control, TypeOK, JobOK, UiOK, WithWork, Current
  <1>2. CASE Next
    BY <1>2, ControlStaging, ControlAsking, ControlJob, ControlDone, ControlConflict DEF Next
  <1>3. QED
    BY <1>1, <1>2

\* Types, that no overlay is up while a save runs, and that the model says so.
THEOREM SessionTypes == Spec => []TypeOK
  <1>1. Control => TypeOK
    BY DEF Control
  <1>2. QED
    BY ControlInit, ControlStep, <1>1, PTL DEF Spec

-------------------------------------------------------------------------------
(* The content: how often a change is in the files and in the databases.       *)

\* Counts are counts.
LEMMA Counts ==
  ASSUME TypeOK, NEW s \in Sources, NEW c \in Changes
  PROVE  InFile(s, c) \in 0..2 /\ InHandle(s, c) \in 0..2 /\ c \in Nat /\ staged \in Nat
  BY SessionAssumption DEF TypeOK, Content, InFile, InHandle, Changes

LEMMA ContentInit == Init => ContentOK
  <1> SUFFICES ASSUME Init, NEW s \in Sources, NEW c \in Changes PROVE ContentAt(s, c)
    BY DEF ContentOK
  <1>1. InFile(s, c) = 0 /\ InHandle(s, c) = 0 /\ chg[s] = {}
    BY DEF Init, InFile, InHandle, Untouched
  <1>2. job.at = "none" /\ job.written = {} /\ job.set[s] = {}
    BY DEF Init, NoJob
  <1>3. QED
    BY <1>1, <1>2 DEF ContentAt, Touched, Through

\* With no save running the parts about one say nothing.
LEMMA AtRest ==
  ASSUME job = NoJob, NEW s \in Sources
  PROVE  ~Touched(s) /\ ~Through(s) /\ job.set[s] = {} /\ job.at = "none"
  BY DEF NoJob, Touched, Through

\* Keys that leave the counts, the staged set and the job as they are.
LEMMA ContentSame ==
  ASSUME ContentOK,
         \A s \in Sources, c \in Changes :
           (InFile(s, c))' = InFile(s, c) /\ (InHandle(s, c))' = InHandle(s, c),
         UNCHANGED <<chg, job, staged>>, past.suspect \subseteq past'.suspect
  PROVE  ContentOK'
  <1> SUFFICES ASSUME NEW s \in Sources, NEW c \in Changes PROVE ContentAt(s, c)'
    BY DEF ContentOK
  <1>1. ContentAt(s, c)
    BY DEF ContentOK
  <1>2. Touched(s)' = Touched(s) /\ Through(s)' = Through(s) /\ Current' = Current
    BY DEF Touched, Through, Current
  <1>3. QED
    BY <1>1, <1>2 DEF ContentAt

LEMMA ContentStaging ==
  ASSUME Control, ContentOK, NEW s \in Sources,
         StageChange(s) \/ UndoChange(s) \/ ToggleWriteLock(s) \/ ForeignWrite(s)
  PROVE  ContentOK'
  <1> USE DEF Control
  <1>1. CASE StageChange(s)
    <2> SUFFICES ASSUME NEW x \in Sources, NEW c \in Changes PROVE ContentAt(x, c)'
      BY DEF ContentOK
    <2>1. UNCHANGED <<file, handle, job>> /\ staged' = staged + 1 /\ job = NoJob
          /\ chg' = [chg EXCEPT ![s] = @ \cup {staged + 1}]
          /\ past'.suspect = past.suspect
      BY <1>1 DEF StageChange, Keys, TypeOK, JobOK, History
    <2>2. ~Touched(x)' /\ ~Through(x)' /\ job'.set[x] = {} /\ job'.at = "none"
          /\ ~Touched(x) /\ ~Through(x)
      BY <2>1, AtRest DEF Touched, Through, Current
    <2>3. ContentAt(x, c) /\ InFile(x, c) \in 0..2 /\ InHandle(x, c) \in 0..2
          /\ c \in Nat /\ staged \in Nat
      BY Counts DEF ContentOK
    <2>4. InFile(x, c)' = InFile(x, c) /\ InHandle(x, c)' = InHandle(x, c)
      BY <2>1 DEF InFile, InHandle
    <2>5. c \in chg'[x] <=> c \in chg[x] \/ (x = s /\ c = staged + 1)
      BY <2>1 DEF TypeOK
    <2>6. QED
      BY <2>1, <2>2, <2>3, <2>4, <2>5 DEF ContentAt
  <1>2. CASE UndoChange(s)
    <2> SUFFICES ASSUME NEW x \in Sources, NEW c \in Changes PROVE ContentAt(x, c)'
      BY DEF ContentOK
    <2>1. UNCHANGED <<file, handle, job, staged>> /\ job = NoJob /\ chg'[x] \subseteq chg[x]
          /\ past'.suspect = past.suspect
      BY <1>2 DEF UndoChange, Keys, TypeOK, JobOK, History
    <2>2. ~Touched(x)' /\ ~Through(x)' /\ job'.set[x] = {} /\ job'.at = "none"
          /\ ~Touched(x) /\ ~Through(x)
      BY <2>1, AtRest DEF Touched, Through, Current
    <2>3. ContentAt(x, c)
      BY DEF ContentOK
    <2>4. InFile(x, c)' = InFile(x, c) /\ InHandle(x, c)' = InHandle(x, c)
      BY <2>1 DEF InFile, InHandle
    <2>5. QED
      BY <2>1, <2>2, <2>3, <2>4 DEF ContentAt
  <1>3. CASE ToggleWriteLock(s)
    <2>1. UNCHANGED <<file, handle, chg, job, staged, past>>
      BY <1>3 DEF ToggleWriteLock
    <2>2. QED
      BY <2>1, ContentSame DEF InFile, InHandle
  <1>4. CASE ForeignWrite(s)
    <2>1. UNCHANGED <<chg, job, staged>>
      BY <1>4 DEF ForeignWrite
    <2>2. past'.suspect = past.suspect
      BY <1>4 DEF ForeignWrite, TypeOK, History
    <2>3. PICK w : file' = [file EXCEPT ![s].foreign = @ \cup {w}]
      BY <1>4 DEF ForeignWrite
    <2>4. handle' = [handle EXCEPT ![s].same = FALSE]
      BY <1>4 DEF ForeignWrite
    <2>5. \A x \in Sources, c \in Changes :
            (InFile(x, c))' = InFile(x, c) /\ (InHandle(x, c))' = InHandle(x, c)
      BY <2>3, <2>4 DEF InFile, InHandle, TypeOK, Content
    <2>6. QED
      BY <2>1, <2>2, <2>5, ContentSame
  <1>5. QED
    BY <1>1, <1>2, <1>3, <1>4

LEMMA ContentAsking ==
  ASSUME Control, ContentOK,
         \/ AskToSave \/ ConfirmSave \/ CancelSave
         \/ Quit \/ QuitDiscarding \/ QuitStay \/ QuitSaving
  PROVE  ContentOK'
  <1> USE DEF Control
  <1>1. CASE ConfirmSave
    <2> SUFFICES ASSUME NEW x \in Sources, NEW c \in Changes PROVE ContentAt(x, c)'
      BY DEF ContentOK
    <2>1. UNCHANGED <<file, handle, chg, staged, past>> /\ job = NoJob
          /\ job'.at = "apply" /\ job'.written = {}
      BY <1>1 DEF ConfirmSave, TypeOK, UiOK, JobOK, NoJob
    <2>2. ~Touched(x)' /\ ~Through(x)' /\ ~Touched(x) /\ ~Through(x)
      BY <2>1, AtRest DEF Touched, Through
    <2>3. ContentAt(x, c)
      BY DEF ContentOK
    <2>4. InFile(x, c)' = InFile(x, c) /\ InHandle(x, c)' = InHandle(x, c)
      BY <2>1 DEF InFile, InHandle
    <2>5. QED
      BY <2>1, <2>2, <2>3, <2>4 DEF ContentAt
  <1>2. CASE AskToSave \/ CancelSave \/ Quit \/ QuitDiscarding \/ QuitStay \/ QuitSaving
    <2>1. UNCHANGED <<file, handle, chg, job, staged>> /\ past'.suspect = past.suspect
      BY <1>2 DEF AskToSave, CancelSave, Quit, QuitDiscarding, QuitStay, QuitSaving,
                  TypeOK, History
    <2>2. QED
      BY <2>1, ContentSame DEF InFile, InHandle
  <1>3. QED
    BY <1>1, <1>2

\* The save: applying counts the changes of its source once in the database,
\* installing makes the file what the database is, and settling moves on.
LEMMA ContentJob ==
  ASSUME Control, ContentOK,
         JobApply \/ JobApplyFails \/ JobCheck \/ JobInstall \/ JobSettle \/ JobFails
  PROVE  ContentOK'
  <1> USE DEF Control
  <1> SUFFICES ASSUME NEW x \in Sources, NEW c \in Changes PROVE ContentAt(x, c)'
    BY DEF ContentOK
  <1>0. job.at \in Steps
    BY DEF JobApply, JobApplyFails, JobCheck, JobInstall, JobSettle, JobFails, Steps
  <1>1. /\ Current \in job.todo /\ Current \in Sources /\ Current \notin job.written
        /\ job.set = chg /\ job.todo # {}
    BY <1>0, CurrentIsTodo DEF JobOK, Steps
  <1>2. /\ ContentAt(x, c) /\ InFile(x, c) \in 0..2 /\ InHandle(x, c) \in 0..2
        /\ c \in Nat /\ staged \in Nat
    BY Counts DEF ContentOK
  <1>3. job \in Jobs /\ handle[Current].db \in Content /\ chg[Current] \subseteq Changes
    BY <1>1 DEF TypeOK
  <1>4. ASSUME NEW e \in {"changed", "other"}, job' = Ended(e)
        PROVE  /\ job'.at = "done" /\ job'.set = job.set /\ job'.written = job.written
               /\ job'.todo = job.todo /\ Current' = Current
    BY <1>1, <1>3, <1>4 DEF Ended, Jobs, Current
  <1>5. ASSUME NEW step \in Steps, job' = [job EXCEPT !.at = step]
        PROVE  /\ job'.at = step /\ job'.set = job.set /\ job'.written = job.written
               /\ job'.todo = job.todo /\ Current' = Current
    BY <1>3, <1>5 DEF Jobs, Current
  <1>6. ASSUME NEW set \in SUBSET chg[Current],
               handle' = [handle EXCEPT ![Current].db = Applied(@, set)]
        PROVE  InHandle(x, c)' = IF x = Current /\ c \in set
                                 THEN IF InHandle(x, c) = 0 THEN 1 ELSE 2
                                 ELSE InHandle(x, c)
    <2>1. Applied(handle[Current].db, set).times[c] =
            IF c \notin set THEN handle[Current].db.times[c]
            ELSE IF handle[Current].db.times[c] = 0 THEN 1 ELSE 2
      BY <1>3, AppliedCounts
    <2>2. QED
      BY <1>1, <1>6, <2>1 DEF InHandle, TypeOK
  <1>7. CASE JobApply
    <2>1. UNCHANGED <<file, chg, staged, past>> /\ job.at = "apply"
          /\ InFile(x, c)' = InFile(x, c)
      BY <1>7 DEF JobApply, InFile
    <2>2. CASE Current \in writeOK
      <3>1. job' = [job EXCEPT !.at = "check"]
            /\ handle' = [handle EXCEPT ![Current].db = Applied(@, job.set[Current])]
        BY <1>7, <2>2 DEF JobApply
      <3>2. InHandle(x, c)' = IF x = Current /\ c \in chg[Current]
                              THEN IF InHandle(x, c) = 0 THEN 1 ELSE 2
                              ELSE InHandle(x, c)
        BY <1>1, <1>6, <3>1
      <3>3. QED
        BY <1>1, <1>2, <1>5, <2>1, <3>1, <3>2 DEF ContentAt, Touched, Through, Steps
    <2>3. CASE Current \notin writeOK
      <3>1. job' = Ended("other") /\ handle' = handle
        BY <1>7, <2>3 DEF JobApply
      <3>2. InHandle(x, c)' = InHandle(x, c)
        BY <3>1 DEF InHandle
      <3>3. QED
        BY <1>1, <1>2, <1>4, <2>1, <3>1, <3>2 DEF ContentAt, Touched, Through
    <2>4. QED
      BY <2>2, <2>3
  <1>8. CASE JobApplyFails
    <2>1. UNCHANGED <<file, chg, staged, past>> /\ job.at = "apply" /\ job' = Ended("other")
          /\ InFile(x, c)' = InFile(x, c)
      BY <1>8 DEF JobApplyFails, InFile
    <2>2. PICK some \in SUBSET chg[Current] :
            handle' = [handle EXCEPT ![Current].db = Applied(@, some)]
      BY <1>1, <1>8 DEF JobApplyFails
    <2>3. InHandle(x, c)' = IF x = Current /\ c \in some
                            THEN IF InHandle(x, c) = 0 THEN 1 ELSE 2
                            ELSE InHandle(x, c)
      BY <1>6, <2>2
    <2>4. QED
      BY <1>1, <1>2, <1>4, <2>1, <2>3 DEF ContentAt, Touched, Through
  <1>9. CASE JobCheck
    <2>1. UNCHANGED <<file, handle, chg, staged, past>> /\ job.at = "check"
          /\ InFile(x, c)' = InFile(x, c) /\ InHandle(x, c)' = InHandle(x, c)
      BY <1>9 DEF JobCheck, InFile, InHandle
    <2>2. job' = [job EXCEPT !.at = "install"] \/ job' = Ended("changed")
      BY <1>9 DEF JobCheck
    <2>3. /\ job'.at \in {"install", "done"} /\ job'.set = job.set
          /\ job'.written = job.written /\ job'.todo = job.todo /\ Current' = Current
      BY <1>4, <1>5, <2>2 DEF Steps
    <2>4. QED
      BY <1>1, <1>2, <2>1, <2>3 DEF ContentAt, Touched, Through
  <1>10. CASE JobInstall
    <2>1. UNCHANGED <<chg, staged>> /\ job.at = "install"
          /\ job' = [job EXCEPT !.at = "settle"]
          /\ file' = [file EXCEPT ![Current] = handle[Current].db]
          /\ handle' = [handle EXCEPT ![Current].same = FALSE]
      BY <1>10 DEF JobInstall
    <2>2. past'.suspect = past.suspect
      BY <1>10 DEF JobInstall, TypeOK, History
    <2>3. InHandle(x, c)' = InHandle(x, c)
          /\ InFile(x, c)' = IF x = Current THEN InHandle(x, c) ELSE InFile(x, c)
      BY <1>1, <2>1 DEF InFile, InHandle, TypeOK
    <2>4. QED
      BY <1>1, <1>2, <1>5, <2>1, <2>2, <2>3 DEF ContentAt, Touched, Through, Steps
  <1>11. CASE JobSettle
    <2>1. UNCHANGED <<file, chg, staged, past>> /\ job.at = "settle"
          /\ handle' = [handle EXCEPT ![Current].same = TRUE]
          /\ job' = [job EXCEPT !.at = IF job.todo = {Current} THEN "done" ELSE "apply",
                                !.todo = @ \ {Current}, !.written = @ \cup {Current}]
      BY <1>11 DEF JobSettle
    <2>2. /\ job'.at = (IF job.todo = {Current} THEN "done" ELSE "apply")
          /\ job'.todo = job.todo \ {Current} /\ job'.written = job.written \cup {Current}
          /\ job'.set = job.set
      BY <1>3, <2>1 DEF Jobs
    <2>3. InHandle(x, c)' = InHandle(x, c) /\ InFile(x, c)' = InFile(x, c)
      BY <1>1, <2>1 DEF InFile, InHandle, TypeOK
    <2>4. ~Touched(x) /\ ~Touched(x)' /\ (Through(x)' <=> Through(x))
      BY <2>1, <2>2 DEF Touched, Through
    <2>5. QED
      BY <1>1, <1>2, <2>1, <2>2, <2>3, <2>4 DEF ContentAt
  <1>12. CASE JobFails
    <2>1. UNCHANGED <<file, handle, chg, staged>> /\ job' = Ended("other")
          /\ job.at \in {"check", "install", "settle"}
          /\ InFile(x, c)' = InFile(x, c) /\ InHandle(x, c)' = InHandle(x, c)
      BY <1>12 DEF JobFails, InFile, InHandle
    <2>2. past'.suspect = past.suspect \cup IF job.at = "settle" THEN chg[Current] ELSE {}
      BY <1>1, <1>12 DEF JobFails, TypeOK, History
    <2>3. QED
      BY <1>1, <1>2, <1>4, <2>1, <2>2 DEF ContentAt, Touched, Through
  <1>13. QED
    BY <1>7, <1>8, <1>9, <1>10, <1>11, <1>12

\* The result: what was written comes off the set; a database changed half-way
\* is read again, or its changes are in doubt.
LEMMA ContentDone ==
  ASSUME Control, ContentOK, OnSaveDone
  PROVE  ContentOK'
  <1> USE DEF Control
  <1> SUFFICES ASSUME NEW x \in Sources, NEW c \in Changes PROVE ContentAt(x, c)'
    BY DEF ContentOK
  <1>1. /\ job.at = "done" /\ job' = NoJob /\ UNCHANGED <<file, staged>>
        /\ chg' = LeftStaged /\ job.set = chg /\ WithWork = job.todo \cup job.written
        /\ job.err = "none" => job.todo = {}
        /\ job.err # "none" => job.source = Current /\ Current \in job.todo
        /\ job.err \in {"none", "changed", "other"} /\ job.todo \cap job.written = {}
    BY CurrentIsTodo DEF OnSaveDone, JobOK, TypeOK, Jobs
  <1>2. /\ ContentAt(x, c) /\ InFile(x, c) \in 0..2 /\ InHandle(x, c) \in 0..2
        /\ c \in Nat /\ staged \in Nat
    BY Counts DEF ContentOK
  <1>3. PICK readable \in SUBSET ToReopen :
          /\ handle' = [s \in Sources |->
                IF s \in readable THEN [db |-> file[s], same |-> TRUE] ELSE handle[s]]
          /\ past' = [past EXCEPT
                !.suspect = @ \cup IF job.err # "none" /\ job.source \in ToReopen \ readable
                                   THEN job.set[job.source] ELSE {},
                !.excused = @ \cup IF job.err = "other" THEN file[job.source].foreign ELSE {},
                !.unwanted = @ \/ (job.err = "none" /\ ui.quitAfterSave /\ ~past.wanted),
                !.wanted = FALSE]
    BY DEF OnSaveDone
  <1>4. InFile(x, c)' = InFile(x, c)
        /\ InHandle(x, c)' = IF x \in readable THEN InFile(x, c) ELSE InHandle(x, c)
    BY <1>1, <1>3 DEF InFile, InHandle
  <1>5. /\ past.suspect \subseteq past'.suspect
        /\ job.err # "none" /\ Current \notin readable => chg[Current] \subseteq past'.suspect
    BY <1>1, <1>3 DEF TypeOK, History, ToReopen
  <1>6. c \in chg'[x] => c \in chg[x] /\ job.err # "none" /\ x \notin job.written
    BY <1>1 DEF LeftStaged
  <1>7. ~Touched(x)' /\ ~Through(x)' /\ job'.set[x] = {} /\ job'.at = "none"
    BY <1>1 DEF NoJob, Touched, Through
  <1>8. Through(x) <=> x \in job.written
    BY <1>1 DEF Through
  <1>9. Touched(x) <=> job.err # "none" /\ x = Current
    BY <1>1 DEF Touched
  <1>10. QED
    BY <1>1, <1>2, <1>4, <1>5, <1>6, <1>7, <1>8, <1>9 DEF ContentAt

\* The conflict screen, where no save runs: at rest the database is its file's.
LEMMA ContentConflict ==
  ASSUME Control, ContentOK, ConflictReload \/ ConflictOverwrite \/ ConflictLeave
  PROVE  ContentOK'
  <1> USE DEF Control
  <1>1. job = NoJob /\ UNCHANGED <<file, chg, job, staged>>
    BY DEF ConflictReload, ConflictOverwrite, ConflictLeave, OnConflict, TypeOK, JobOK
  <1>2. past'.suspect = past.suspect
    BY DEF ConflictReload, ConflictOverwrite, ConflictLeave, TypeOK, History
  <1> SUFFICES ASSUME NEW x \in Sources, NEW c \in Changes PROVE ContentAt(x, c)'
    BY DEF ContentOK
  <1>3. /\ ContentAt(x, c) /\ InFile(x, c) \in 0..2 /\ InHandle(x, c) \in 0..2
    BY Counts DEF ContentOK
  <1>4. InFile(x, c)' = InFile(x, c) /\ InHandle(x, c)' \in {InHandle(x, c), InFile(x, c)}
    <2>1. \/ handle' = handle
          \/ handle' = [handle EXCEPT ![ui.saveConflict] =
                                [db |-> file[ui.saveConflict], same |-> TRUE]]
      BY DEF ConflictReload, ConflictOverwrite, ConflictLeave
    <2>2. QED
      BY <1>1, <2>1 DEF InFile, InHandle, TypeOK
  <1>5. /\ ~Touched(x)' /\ ~Through(x)' /\ job'.set[x] = {} /\ job'.at = "none"
        /\ ~Touched(x) /\ ~Through(x)
    BY <1>1, AtRest DEF Touched, Through, Current
  <1>6. QED
    BY <1>1, <1>2, <1>3, <1>4, <1>5 DEF ContentAt

LEMMA ContentStep == Control /\ ContentOK /\ [Next]_vars => ContentOK'
  <1> SUFFICES ASSUME Control, ContentOK, [Next]_vars PROVE ContentOK'
    OBVIOUS
  <1>1. CASE UNCHANGED vars
    <2>1. UNCHANGED <<file, handle, chg, job, staged, past>>
      BY <1>1 DEF vars
    <2>2. QED
      BY <2>1, ContentSame DEF InFile, InHandle
  <1>2. CASE Next
    BY <1>2, ContentStaging, ContentAsking, ContentJob, ContentDone, ContentConflict DEF Next
  <1>3. QED
    BY <1>1, <1>2

LEMMA SessionInvariant == Spec => [](Control /\ ContentOK)
  BY ControlInit, ControlStep, ContentInit, ContentStep, PTL DEF Spec

\* A retry after a partly failed save writes no change a second time, unless a
\* failure after the rename or an unreadable file left it in doubt: what is not
\* in doubt is in its database, and so in its file, at most once.
THEOREM RetryWritesOnce == Spec => []WrittenOnce
  <1>1. Control /\ ContentOK => WrittenOnce
    <2> SUFFICES ASSUME Control, ContentOK, NEW s \in Sources, NEW c \in Changes,
                        file[s].times[c] > 1
                 PROVE  c \in past.suspect
      BY DEF WrittenOnce
    <2>1. ContentAt(s, c) /\ InFile(s, c) \in 0..2 /\ InHandle(s, c) \in 0..2
      BY Counts DEF ContentOK, Control
    <2>2. InFile(s, c) > 1
      BY DEF InFile
    <2>3. QED
      BY <2>1, <2>2 DEF ContentAt
  <1>2. QED
    BY SessionInvariant, <1>1, PTL

\* What a file holds of the changes only grows.
LEMMA FilesKeep ==
  ASSUME Control, ContentOK, Next, NEW s \in Sources, NEW c \in Changes,
         file[s].times[c] > 0
  PROVE  file'[s].times[c] > 0
  <1> USE DEF Control
  <1>1. CASE JobInstall
    <2>1. file' = [file EXCEPT ![Current] = handle[Current].db]
      BY <1>1 DEF JobInstall
    <2>2. ContentAt(s, c) /\ InFile(s, c) \in 0..2 /\ InHandle(s, c) \in 0..2
      BY Counts DEF ContentOK
    <2>3. QED
      BY <2>1, <2>2 DEF ContentAt, InFile, InHandle, TypeOK
  <1>2. CASE \E x \in Sources : ForeignWrite(x)
    <2>1. PICK x \in Sources, w \in Writers : file' = [file EXCEPT ![x].foreign = @ \cup {w}]
      BY <1>2 DEF ForeignWrite
    <2>2. QED
      BY <2>1 DEF TypeOK, Content
  <1>3. CASE file' = file
    BY <1>3
  <1>4. QED
    BY <1>1, <1>2, <1>3
       DEF Next, StageChange, UndoChange, ToggleWriteLock, AskToSave, ConfirmSave, CancelSave,
           Quit, QuitDiscarding, QuitStay, QuitSaving, JobApply, JobApplyFails, JobCheck,
           JobSettle, JobFails, OnSaveDone, ConflictReload, ConflictOverwrite, ConflictLeave

\* A staged change leaves the set only where it was given up or has landed.
LEMMA StagedUntilLanded ==
  ASSUME Control, ContentOK, Next, NEW s \in Sources, NEW c \in chg[s]
  PROVE  c \in chg'[s] \/ c \in past'.dropped \/ file'[s].times[c] > 0
  <1> USE DEF Control
  <1>0. c \in Changes
    BY DEF TypeOK
  <1>1. CASE \E x \in Sources : StageChange(x)
    BY <1>1 DEF StageChange, TypeOK
  <1>2. CASE \E x \in Sources : UndoChange(x)
    BY <1>2 DEF UndoChange, TypeOK, History
  <1>3. CASE OnSaveDone
    <2>1. /\ job.at = "done" /\ job.set = chg /\ chg' = LeftStaged /\ file' = file
          /\ WithWork = job.todo \cup job.written
          /\ job.err = "none" => job.todo = {}
      BY <1>3 DEF OnSaveDone, JobOK
    <2>2. c \in chg'[s] \/ s \in job.written
      BY <2>1 DEF LeftStaged, WithWork
    <2>3. s \in job.written => InFile(s, c) > 0
      BY <1>0, <2>1 DEF ContentOK, ContentAt, Through
    <2>4. QED
      BY <2>1, <2>2, <2>3 DEF InFile
  <1>4. CASE chg' = chg
    BY <1>4
  <1>5. QED
    BY <1>1, <1>2, <1>3, <1>4
       DEF Next, ToggleWriteLock, ForeignWrite, AskToSave, ConfirmSave, CancelSave,
           Quit, QuitDiscarding, QuitStay, QuitSaving, JobApply, JobApplyFails, JobCheck,
           JobInstall, JobSettle, JobFails, ConflictReload, ConflictOverwrite, ConflictLeave

\* What was given up stays so.
LEMMA DroppedStays ==
  ASSUME Control, Next
  PROVE  past.dropped \subseteq past'.dropped /\ past.suspect \subseteq past'.suspect
  <1> USE DEF Control
  <1>1. past \in History
    BY DEF TypeOK
  <1>2. CASE JobFails \/ JobInstall
    BY <1>1, <1>2 DEF JobFails, JobInstall, History
  <1>3. CASE OnSaveDone
    <2>1. PICK readable \in SUBSET ToReopen :
             past' = [past EXCEPT
                !.suspect = @ \cup IF job.err # "none" /\ job.source \in ToReopen \ readable
                                   THEN job.set[job.source] ELSE {},
                !.excused = @ \cup IF job.err = "other" THEN file[job.source].foreign ELSE {},
                !.unwanted = @ \/ (job.err = "none" /\ ui.quitAfterSave /\ ~past.wanted),
                !.wanted = FALSE]
      BY <1>3 DEF OnSaveDone
    <2>2. QED
      BY <1>1, <2>1 DEF History
  <1>4. CASE \/ \E s \in Sources : StageChange(s) \/ UndoChange(s) \/ ToggleWriteLock(s) \/ ForeignWrite(s)
             \/ AskToSave \/ ConfirmSave \/ CancelSave \/ Quit \/ QuitDiscarding \/ QuitStay \/ QuitSaving
             \/ JobApply \/ JobApplyFails \/ JobCheck \/ JobSettle
             \/ ConflictReload \/ ConflictOverwrite \/ ConflictLeave
    BY <1>1, <1>4
       DEF History, StageChange, UndoChange, ToggleWriteLock, ForeignWrite, AskToSave, ConfirmSave,
           CancelSave, Quit, QuitDiscarding, QuitStay, QuitSaving, JobApply, JobApplyFails, JobCheck,
           JobSettle, ConflictReload, ConflictOverwrite, ConflictLeave
  <1>5. QED
    BY <1>2, <1>3, <1>4 DEF Next

\* A change that was staged is staged still, is in its file, or was given up by
\* the reader: no save, conflict or way out loses it.
THEOREM NoWorkIsLost == Spec => []NothingForgotten
  <1>1. Init => NothingForgotten
    BY SessionAssumption DEF Init, NothingForgotten
  <1>2. ASSUME Control, ContentOK, NothingForgotten, [Next]_vars
        PROVE  NothingForgotten'
    <2>1. CASE UNCHANGED vars
      BY <2>1, <1>2 DEF vars, NothingForgotten
    <2>2. CASE Next
      <3> SUFFICES ASSUME NEW c \in 1..staged', c \notin past'.dropped
                   PROVE  \E s \in Sources : c \in chg'[s] \/ file'[s].times[c] > 0
        BY DEF NothingForgotten
      <3>1. staged \in 0..MaxChanges /\ chg \in [Sources -> SUBSET Changes]
        BY <1>2 DEF Control, TypeOK
      <3>2. CASE c \in 1..staged
        <4>1. c \in Changes /\ c \notin past.dropped
          BY <3>1, <3>2, <2>2, <1>2, DroppedStays, SessionAssumption DEF Changes
        <4>2. PICK s \in Sources : c \in chg[s] \/ file[s].times[c] > 0
          BY <1>2, <3>2, <4>1 DEF NothingForgotten
        <4>3. QED
          BY <1>2, <2>2, <4>1, <4>2, FilesKeep, StagedUntilLanded
      <3>3. CASE c \notin 1..staged
        <4>1. PICK s \in Sources : StageChange(s)
          <5>1. staged' # staged
            BY <3>3
          <5>2. QED
            BY <5>1, <2>2
               DEF Next, UndoChange, ToggleWriteLock, ForeignWrite, AskToSave, ConfirmSave, CancelSave,
                   Quit, QuitDiscarding, QuitStay, QuitSaving, JobApply, JobApplyFails, JobCheck,
                   JobInstall, JobSettle, JobFails, OnSaveDone, ConflictReload, ConflictOverwrite,
                   ConflictLeave
        <4>2. staged' = staged + 1 /\ chg' = [chg EXCEPT ![s] = @ \cup {staged'}]
          BY <4>1 DEF StageChange
        <4>3. c = staged' /\ c \in chg'[s]
          BY <3>1, <3>3, <4>2, SessionAssumption
        <4>4. QED
          BY <4>3
      <3>4. QED
        BY <3>2, <3>3
    <2>3. QED
      BY <1>2, <2>1, <2>2
  <1>3. QED
    BY SessionInvariant, <1>1, <1>2, PTL DEF Spec

-------------------------------------------------------------------------------
(* What the reader confirmed, and what the reader was asked.                   *)

\* A save writes what was confirmed and nothing left over from one that failed:
\* when it installs, the database differs from the file by the confirmed changes
\* alone, the changes in doubt aside.
THEOREM ConfirmedIsWritten == Spec => []ReviewedOnly
  <1>1. Init => ReviewedOnly
    BY DEF Init, ReviewedOnly
  <1>2. ASSUME Control, ContentOK, ReviewedOnly, [Next]_vars
        PROVE  ReviewedOnly'
    <2>1. past \in History
      BY <1>2 DEF Control, TypeOK
    <2>2. CASE JobInstall
      <3> DEFINE unknown == UNION {handle[Current].db.foreign \ past.answered[c] : c \in job.set[Current]}
                 more == {c \in Changes \ job.set[Current] :
                            handle[Current].db.times[c] > file[Current].times[c]}
      <3>1. past' = [past EXCEPT !.unreviewed = @ \cup more, !.unasked = @ \cup unknown]
        BY <2>2 DEF JobInstall
      <3>2. ASSUME NEW c \in more PROVE c \in past.suspect
        <4>1. Current \in Sources /\ job.set = chg
          BY <2>2, <1>2, CurrentIsTodo DEF JobInstall, Control, JobOK, Steps
        <4>2. c \in Changes /\ c \notin chg[Current]
          BY <4>1
        <4>3. ContentAt(Current, c) /\ InFile(Current, c) \in 0..2 /\ InHandle(Current, c) \in 0..2
          BY <1>2, <4>1, <4>2, Counts DEF ContentOK, Control
        <4>4. InHandle(Current, c) > InFile(Current, c)
          BY <3>2 DEF InFile, InHandle
        <4>5. QED
          BY <4>2, <4>3, <4>4 DEF ContentAt
      <3> HIDE DEF unknown, more
      <3>3. past'.unreviewed = past.unreviewed \cup more /\ past'.suspect = past.suspect
        BY <2>1, <3>1 DEF History
      <3>4. QED
        BY <1>2, <3>2, <3>3 DEF ReviewedOnly
    <2>3. CASE Next /\ ~JobInstall
      <3>1. past'.unreviewed = past.unreviewed
        <4>1. CASE OnSaveDone
          BY <2>1, <4>1 DEF OnSaveDone, History
        <4>2. CASE ~OnSaveDone
          BY <2>1, <2>3, <4>2
             DEF History, Next, StageChange, UndoChange, ToggleWriteLock, ForeignWrite, AskToSave,
                 ConfirmSave, CancelSave, Quit, QuitDiscarding, QuitStay, QuitSaving, JobApply,
                 JobApplyFails, JobCheck, JobSettle, JobFails, ConflictReload,
                 ConflictOverwrite, ConflictLeave
        <4>3. QED
          BY <4>1, <4>2
      <3>2. QED
        BY <1>2, <2>3, <3>1, DroppedStays DEF ReviewedOnly
    <2>4. CASE UNCHANGED vars
      BY <1>2, <2>4 DEF vars, ReviewedOnly
    <2>5. QED
      BY <1>2, <2>2, <2>3, <2>4
  <1>3. QED
    BY SessionInvariant, <1>1, <1>2, PTL DEF Spec

\* What the history records of answers and excuses is never taken back, but for
\* the number the next change gets.
LEMMA AnswersStay ==
  ASSUME Control, Next
  PROVE  /\ past.excused \subseteq past'.excused
         /\ \A c \in Changes : c <= staged => past.answered[c] \subseteq past'.answered[c]
  <1> USE DEF Control
  <1>1. past \in History /\ staged \in Nat /\ Changes \subseteq Nat
    BY SessionAssumption DEF TypeOK, Changes
  <1>2. CASE \E s \in Sources : StageChange(s)
    <2>1. PICK s \in Sources : past' = [past EXCEPT !.answered[staged + 1] = handle[s].db.foreign]
      BY <1>2 DEF StageChange
    <2>2. past'.excused = past.excused
          /\ \A c \in Changes : c # staged + 1 => past'.answered[c] = past.answered[c]
      BY <1>1, <2>1 DEF History
    <2>3. QED
      BY <1>1, <2>2
  <1>3. CASE ConflictOverwrite
    <2> DEFINE answered == [c \in Changes |-> past.answered[c] \cup
                   IF c \in chg[ui.saveConflict] THEN handle[ui.saveConflict].db.foreign ELSE {}]
    <2>1. past' = [past EXCEPT !.answered = answered]
      BY <1>3 DEF ConflictOverwrite
    <2>2. \A c \in Changes : past.answered[c] \subseteq answered[c]
      OBVIOUS
    <2> HIDE DEF answered
    <2>3. past'.answered = answered /\ past'.excused = past.excused
      BY <1>1, <2>1 DEF History
    <2>4. QED
      BY <2>2, <2>3
  <1>4. CASE JobInstall
    <2>1. past'.answered = past.answered /\ past'.excused = past.excused
      BY <1>1, <1>4 DEF JobInstall, History
    <2>2. QED
      BY <2>1
  <1>5. CASE OnSaveDone
    <2>1. past'.answered = past.answered /\ past.excused \subseteq past'.excused
      BY <1>1, <1>5 DEF OnSaveDone, History
    <2>2. QED
      BY <2>1
  <1>6. CASE \/ \E s \in Sources : UndoChange(s) \/ ToggleWriteLock(s) \/ ForeignWrite(s)
             \/ AskToSave \/ ConfirmSave \/ CancelSave \/ Quit \/ QuitDiscarding \/ QuitStay \/ QuitSaving
             \/ JobApply \/ JobApplyFails \/ JobCheck \/ JobSettle \/ JobFails
             \/ ConflictReload \/ ConflictLeave
    <2>1. past'.answered = past.answered /\ past'.excused = past.excused
      BY <1>1, <1>6
         DEF History, UndoChange, ToggleWriteLock, ForeignWrite, AskToSave, ConfirmSave,
             CancelSave, Quit, QuitDiscarding, QuitStay, QuitSaving, JobApply, JobApplyFails,
             JobCheck, JobSettle, JobFails, ConflictReload, ConflictLeave
    <2>2. QED
      BY <2>1
  <1>7. QED
    BY <1>2, <1>3, <1>4, <1>5, <1>6 DEF Next

\* A database comes to hold more of other writers' work only where it is read
\* again: after a save, or from the conflict screen.
LEMMA HandleKeeps ==
  ASSUME Control, Next, ~OnSaveDone, ~ConflictReload, NEW s \in Sources
  PROVE  handle'[s].db.foreign = handle[s].db.foreign
  <1> USE DEF Control
  <1>1. CASE JobApply \/ JobApplyFails
    <2>1. Current \in Sources /\ handle[Current].db \in Content
      BY <1>1, CurrentIsTodo DEF JobApply, JobApplyFails, JobOK, Steps, TypeOK
    <2>2. \/ handle' = handle
          \/ \E set : handle' = [handle EXCEPT ![Current].db = Applied(@, set)]
      BY <1>1 DEF JobApply, JobApplyFails
    <2>3. CASE handle' = handle
      BY <2>3
    <2>4. CASE \E set : handle' = [handle EXCEPT ![Current].db = Applied(@, set)]
      <3>1. PICK set : handle' = [handle EXCEPT ![Current].db = Applied(@, set)]
        BY <2>4
      <3>2. Applied(handle[Current].db, set).foreign = handle[Current].db.foreign
        BY <2>1, AppliedCounts
      <3>3. QED
        BY <2>1, <3>1, <3>2 DEF TypeOK
    <2>5. QED
      BY <2>2, <2>3, <2>4
  <1>2. CASE JobInstall \/ JobSettle \/ \E x \in Sources : ForeignWrite(x)
    <2>1. PICK x, moved : handle' = [handle EXCEPT ![x].same = moved]
      BY <1>2 DEF JobInstall, JobSettle, ForeignWrite
    <2>2. QED
      BY <2>1 DEF TypeOK
  <1>3. CASE handle' = handle
    BY <1>3
  <1>4. QED
    BY <1>1, <1>2, <1>3
       DEF Next, StageChange, UndoChange, ToggleWriteLock, AskToSave, ConfirmSave, CancelSave,
           Quit, QuitDiscarding, QuitStay, QuitSaving, JobCheck, JobFails,
           ConflictOverwrite, ConflictLeave

LEMMA KnownStep == Control /\ ContentOK /\ Known /\ [Next]_vars => Known'
  <1> SUFFICES ASSUME Control, ContentOK, Known, [Next]_vars PROVE Known'
    OBVIOUS
  <1> USE DEF Control
  <1>1. CASE UNCHANGED vars
    BY <1>1 DEF vars, Known
  <1>2. CASE Next
    <2> SUFFICES ASSUME NEW s \in Sources \ stale', NEW c \in chg'[s]
                 PROVE  handle'[s].db.foreign \subseteq past'.answered[c] \cup past'.excused
      BY DEF Known
    <2>0. staged \in Nat /\ Changes \subseteq Nat
      BY SessionAssumption DEF TypeOK, Changes
    <2>1. ASSUME c \in chg[s], s \notin stale
          PROVE  handle[s].db.foreign \subseteq past'.answered[c] \cup past'.excused
      <3>1. c \in Changes /\ c <= staged
        BY <2>0, <2>1, SessionAssumption DEF TypeOK, ContentOK, ContentAt
      <3>2. handle[s].db.foreign \subseteq past.answered[c] \cup past.excused
        BY <2>1 DEF Known
      <3>3. QED
        BY <1>2, <3>1, <3>2, AnswersStay
    <2>2. CASE \E x \in Sources : StageChange(x)
      <3>1. PICK x \in Sources : StageChange(x)
        BY <2>2
      <3>2. /\ handle' = handle /\ stale' = stale /\ staged < MaxChanges
            /\ chg' = [chg EXCEPT ![x] = @ \cup {staged + 1}]
            /\ past' = [past EXCEPT !.answered[staged + 1] = handle[x].db.foreign]
        BY <3>1 DEF StageChange
      <3>3. CASE c \in chg[s]
        BY <2>1, <3>2, <3>3
      <3>4. CASE c \notin chg[s]
        <4>1. s = x /\ c = staged + 1 /\ c \in Changes
          BY <2>0, <3>2, <3>4, SessionAssumption DEF TypeOK, Changes
        <4>2. past'.answered[c] = handle[s].db.foreign
          BY <3>2, <4>1 DEF TypeOK, History
        <4>3. QED
          BY <3>2, <4>2
      <3>5. QED
        BY <3>3, <3>4
    <2>3. CASE OnSaveDone
      <3>1. /\ chg' = LeftStaged /\ stale' = StaleAfter /\ UNCHANGED file
            /\ job.at = "done" /\ job.set = chg
            /\ job.err # "none" => job.source \in Sources
        BY <2>3, CurrentIsTodo DEF OnSaveDone, JobOK
      <3>2. job.err # "none" /\ c \in chg[s] /\ s \notin job.written /\ s \notin stale
        BY <3>1 DEF LeftStaged, StaleAfter
      <3>3. PICK readable \in SUBSET ToReopen :
              handle' = [x \in Sources |->
                IF x \in readable THEN [db |-> file[x], same |-> TRUE] ELSE handle[x]]
        BY <2>3 DEF OnSaveDone
      <3>4. job.err \in {"changed", "other"}
        BY <3>2 DEF TypeOK, Jobs
      <3>5. job.err = "changed" => s # job.source
        BY <3>1 DEF StaleAfter
      <3>6. job.err = "other" => file[job.source].foreign \subseteq past'.excused
        BY <2>3 DEF OnSaveDone, TypeOK, History
      <3>7. handle'[s].db = handle[s].db
            \/ (job.err = "other" /\ handle'[s].db.foreign = file[job.source].foreign)
        BY <3>2, <3>3, <3>4, <3>5 DEF ToReopen
      <3>8. QED
        BY <2>1, <3>2, <3>6, <3>7
    <2>4. CASE ConflictReload
      <3>1. /\ chg' = chg /\ stale' = stale /\ ui.saveConflict \in stale
            /\ handle' \in {handle, [handle EXCEPT ![ui.saveConflict] =
                                [db |-> file[ui.saveConflict], same |-> TRUE]]}
        BY <2>4 DEF ConflictReload, OnConflict, UiOK
      <3>2. handle'[s] = handle[s]
        BY <3>1 DEF TypeOK
      <3>3. QED
        BY <2>1, <3>1, <3>2
    <2>5. CASE ConflictOverwrite
      <3>1. chg' = chg /\ handle' = handle /\ stale' = stale \ {ui.saveConflict} /\ c \in Changes
        BY <2>5 DEF ConflictOverwrite, TypeOK
      <3>2. CASE s = ui.saveConflict
        <4> DEFINE answered == [x \in Changes |-> past.answered[x] \cup
                      IF x \in chg[ui.saveConflict] THEN handle[ui.saveConflict].db.foreign ELSE {}]
        <4>1. past' = [past EXCEPT !.answered = answered]
          BY <2>5 DEF ConflictOverwrite
        <4>2. handle[s].db.foreign \subseteq answered[c]
          BY <3>1, <3>2
        <4> HIDE DEF answered
        <4>3. past'.answered = answered
          BY <4>1 DEF TypeOK, History
        <4>4. QED
          BY <3>1, <4>2, <4>3
      <3>3. CASE s # ui.saveConflict
        BY <2>1, <3>1, <3>3
      <3>4. QED
        BY <3>2, <3>3
    <2>6. CASE ~(\E x \in Sources : StageChange(x)) /\ ~OnSaveDone /\ ~ConflictReload /\ ~ConflictOverwrite
      <3>1. stale' = stale /\ c \in chg[s]
        <4>1. CASE \E x \in Sources : UndoChange(x)
          BY <4>1 DEF UndoChange, TypeOK
        <4>2. CASE ~\E x \in Sources : UndoChange(x)
          BY <1>2, <2>6, <4>2
             DEF Next, ToggleWriteLock, ForeignWrite, AskToSave, ConfirmSave, CancelSave,
                 Quit, QuitDiscarding, QuitStay, QuitSaving, JobApply, JobApplyFails, JobCheck,
                 JobInstall, JobSettle, JobFails, ConflictLeave
        <4>3. QED
          BY <4>1, <4>2
      <3>2. QED
        BY <1>2, <2>1, <2>6, <3>1, HandleKeeps
    <2>7. QED
      BY <2>2, <2>3, <2>4, <2>5, <2>6
  <1>3. QED
    BY <1>1, <1>2

\* What another writer did to a file is written over by changes made before it
\* only after the reader was asked, or when some other failure of a save made the
\* handle read it: a save installs at a source with no conflict on record, where
\* all that the database holds of others' work is known.
THEOREM AskedFirst == Spec => []AskedBeforeOverwriting
  <1>1. Init => Known /\ AskedBeforeOverwriting
    BY DEF Init, Known, AskedBeforeOverwriting
  <1>2. ASSUME Control, ContentOK, Known, AskedBeforeOverwriting, [Next]_vars
        PROVE  AskedBeforeOverwriting'
    <2>1. past \in History
      BY <1>2 DEF Control, TypeOK
    <2>2. CASE JobInstall
      <3> DEFINE unknown == UNION {handle[Current].db.foreign \ past.answered[c] : c \in job.set[Current]}
                 more == {c \in Changes \ job.set[Current] :
                            handle[Current].db.times[c] > file[Current].times[c]}
      <3>1. past' = [past EXCEPT !.unreviewed = @ \cup more, !.unasked = @ \cup unknown]
        BY <2>2 DEF JobInstall
      <3>2. Current \in Sources \ stale /\ job.set = chg
        BY <2>2, <1>2, CurrentIsTodo DEF JobInstall, Control, JobOK, Steps
      <3>3. unknown \subseteq past.excused
        BY <1>2, <3>2 DEF Known
      <3> HIDE DEF unknown, more
      <3>4. past'.unasked = past.unasked \cup unknown /\ past'.excused = past.excused
        BY <2>1, <3>1 DEF History
      <3>5. QED
        BY <1>2, <3>3, <3>4 DEF AskedBeforeOverwriting
    <2>3. CASE Next /\ ~JobInstall
      <3>1. past'.unasked = past.unasked
        <4>1. CASE OnSaveDone
          BY <2>1, <4>1 DEF OnSaveDone, History
        <4>2. CASE ~OnSaveDone
          BY <2>1, <2>3, <4>2
             DEF History, Next, StageChange, UndoChange, ToggleWriteLock, ForeignWrite, AskToSave,
                 ConfirmSave, CancelSave, Quit, QuitDiscarding, QuitStay, QuitSaving, JobApply,
                 JobApplyFails, JobCheck, JobSettle, JobFails, ConflictReload,
                 ConflictOverwrite, ConflictLeave
        <4>3. QED
          BY <4>1, <4>2
      <3>2. QED
        BY <1>2, <2>3, <3>1, AnswersStay DEF AskedBeforeOverwriting
    <2>4. CASE UNCHANGED vars
      BY <1>2, <2>4 DEF vars, AskedBeforeOverwriting
    <2>5. QED
      BY <1>2, <2>2, <2>3, <2>4
  <1>3. QED
    BY SessionInvariant, KnownStep, <1>1, <1>2, PTL DEF Spec
===============================================================================
