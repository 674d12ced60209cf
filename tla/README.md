# A verification project for harmos

harmos is a terminal password manager.  It opens local kdbx vaults and the
caches of Pleasant Password Server sources, lets the reader *stage* changes, shows
them for review, and writes them with one explicit save.  What can go wrong with
somebody's passwords goes wrong there: between what was reviewed and what is
written, and between the program and the other programs that write the same
file.  The modules below model that part first, and then what surrounds it: the
unlock phase, the clipboard, a sync, the config and the keyring, and the screen all
of it is steered from.

Line numbers are those of the Go source.  `edit`, `vault`, `tui` ... are the
packages under `internal/`.

## 1. Inventory

| Component | State it keeps | Operations | Talks to |
|---|---|---|---|
| `edit`: the staged change set | the log of operations and the counter that numbers them | `Add`, `Effective` (reduce, cancel, subsume, order), `Revert`, `RevertTarget`, `StateOf` | `tui` stages into it, `vault.Apply` performs it |
| `vault`: the decoded kdbx | the group tree, entry histories, recycle bin, `DeletedObjects` | `CreateEntry` ... `DeleteGroup`, `Apply` | called by the save only |
| `vault.Handle`, `atomicfile`: the file | fingerprint, database, lock state of the protected values, backup flag; the file, its temp file, its backups | `OpenHandle`, `Reopen`, `Save`, `Write` | the file system, other writers |
| `tui`: staging | projection of the file through the set, the open editor, inline field or carry | `n e r N m d D x`, and `rebuild` after each | `edit`, and the read side of `vault` |
| `tui`: save, conflict, lock, quit | the overlays, `writeOK`, `stale`, `saving`, `quitAfterSave` | `askToSave`, `saveCmd` (off the loop), `onSaveDone`, `updateConflict`, `updateQuitGuard` | `edit`, `vault`, `config` |
| `clip` and the countdown | hash of what was last copied; `remaining` | `Copy`, `CopyUntracked`, `ClearIfUnchanged`, `tick` | the system clipboard, other programs |
| `tui` unlock, `session` | steps asked, answers kept, sources skipped; handles and excluded sources | `submitStep`, `openCmd`, `onUnlockDone`, `Open`, `Reload` | `keyring`, `vault` |
| `source/pleasant`, `tui` sync | progress channel, phase; the cache file | `startSync`, `listenSync`, `Sync` | HTTP server, `atomicfile` |
| `config` | one TOML file | `Load`, and in-place edits of single keys and blocks | `atomicfile`, every process of harmos |
| `tui` Settings, `cmd` | the overlay and what it was opened on; keyring accounts, keyfiles, caches | add, edit, rename, remove a source; save and clear passwords; preferences; the write lock | `config`, `keyring`, `pleasant` |
| `tui` Vault tab | the tree and its folds, two cursors, the search and its results, the detail | `rebuild`, `selectFolderByKey`, `selectEntryByID`, `revealTarget`, `refilter`, the browsing keys | the projection of the staged set |
| `tui` tabs, overlays, mouse | the tab, and a flag per overlay | `Update`'s dispatch, `View`, `typingText`, `switchTab`, `handleClick` | everything on screen |
| `selfupdate`, `updater`, `version`, `pwgen`, `otp`, `search`, `secret`, `theme`, drawing | little or none | pure functions, wrappers, drawing | |

**What is hard.**  *Ordering*: a change set is reduced to one net operation per
target, dated by its first staging, and then has to be put into an order a vault
can perform.  *Two derivations of one set*: the projection the reader reviews
and the mutations the save performs are separate code.  *Interleaving*: the save runs off
the update loop on captured state.  *Atomicity*: seconds of key derivation lie
between looking at the file and replacing it.  *Partial failure*: a save covers
several sources, a set several operations, `Save` nine steps; nothing rolls back.
*Crash*: a process or a machine may stop between any two steps.  *Stale state*:
the fingerprint, the `stale` marks, the backup flag and the numbers of operations
outlive what they were taken from, a cursor outlives the tree it was in, an overlay
the row it was opened on.  *Messages*: timers, commands and a goroutine answer the
update loop in whatever order they finish.  *Several processes*: the interface and
the command line share a config, a keyring, keyfiles, caches and the clipboard, and
lock none of them.  The list, at the lines where each bites, is
`hazards` in `PROJECT.json`.

**What makes each component correct.**

- `edit`: numbers are handles; no operation survives what it depends on; the
  order it produces can be performed.
- `vault` (tree): deletions are recoverable or recorded; one history record per
  save; a moved item remembers where the file had it.
- `vault` (file): what the path names always decodes, is never a mixture, is backed up
  before it is first replaced, and no other writer's version is lost.
- `tui` (staging): what is shown is what will be written.
- `tui` (saving): nothing staged is lost, written twice, written unreviewed, or
  written over another writer's work without asking; quitting asks.
- `clip`: what harmos copied is cleared in the end, and nothing else is.
- unlock: an accepted answer is kept, a skipped source is not asked for again, and
  no source is missing for a password that was given.
- sync: it ends on the screen, its phases go forward, and a cache opens with the
  keyfile that is there.
- `config`: it keeps loading; an edit leaves the rest of the file alone; what the
  interface lets be edited is what the next launch will.
- keyring: the shared master is kept while a source needs it.
- Vault tab: what the reader arranged survives every rebuild, and the cursor stays on
  what it was on.
- overlays: a character goes to what is on screen.

## 2. Modules

```
EditSet ── VaultTree ── Staging ── StagingProperties ── MCStaging
   └── EditSetProofs ─────────────────── └── StagingProofs
VaultFile ◁─(implements)── SaveFile ── MCSaveFile
                              └── SaveFileProofs
SaveSession ── MCSaveSession
     └── SaveSessionProofs
Clipboard ──┐
Unlock ─────┼─ Session ── MCSession
SyncProgress┘     └── SessionProofs
ConfigFile ── Sources ── MCSources
                 └── SourcesProofs
FolderTree ── Browse ── Screens ── MCBrowse
                           └── ScreensProofs
SetLemmas: cited by EditSetProofs, SaveSessionProofs, SessionProofs, ScreensProofs
```

**EditSet** is package `edit`: constant-level operators on a record
`[ops, seq]`.  `Add`, `Revert`, `RevertTarget`, `Effective` and its parts carry
the names of the Go functions.  The log is a set because its slice order is the
order of `Seq`.  An entry's draft is `[val, group]`: `val` for all the fields
`diffDrafts` compares, `group` for `GroupID`, which it does not compare.
`ApplyOrder` is Kahn's algorithm as a recursive function of the operations left, which always
takes the earliest ready one, with the code's fallback to `Seq` order when the rules are cyclic.

**VaultTree** is the decoded database and the mutations `applyOne` dispatches to.
Each returns `[tree, ok]`; an error leaves what was changed before it, as in the
code.  Kept: the recycle bin made on demand, tombstones of whole subtrees,
`PreviousParentGroup`, history and its `HistoryMaxItems`, and every refusal (no such
folder, into itself, the root, already in the bin).

**Staging** is the session over one source.  Variables: `file` (the decoded
kdbx), `chg` (`Model.chg`), `red` (its `Effective`), `view` (the projection the
interface shows), `naming` (`inlineNewSeq`) and the bound counter `spent`.

| Action | Code |
|---|---|
| `StageNewEntry` | `n`: `openNewEntry`, `stageEdit` |
| `StageEdit` | `e`: `openEntryEditor`, `draftFromForm`, `stageEdit` |
| `StageRetitle`, `StageRename` | `r`: `openInlineRename`, `stageInlineRename` |
| `OpenNewFolder`, `NameNewFolder`, `AbandonNewFolder` | `N`, then enter or esc in the field |
| `StageMove` | `m` ... enter: `grabForMove`, `destUnderCursor`, `canDropInto`, `dropHere` |
| `StageDelete` | `d`, `D`: `stageDelete`, `dropDeletionsUnder` |
| `Undo` | `x` on the Changes tab: `RevertTarget` |
| `Save` | `Apply`, `Save` succeeding, `onSaveDone` |

The editor, the inline field and the carry mode own the keyboard from opening to
closing and stage once, so each is one action.  Every action ends in the rebuild
the code ends in (`Restage`).  The guards are the code's and they read the projection, as
the code's do: where the projection is wrong, so is the guard.

**SaveFile** is `Handle.Save`, `atomicfile.Write`, `openHandle` and `Reopen`, one
action per step that can fail or be overtaken, in program order.  A version of
the file is a number and the set of versions its content descends from; the
fingerprint of a file is its version.  `fallback` is what a power loss may
bring back while a rename is not flushed; bytes not flushed are lost.
`StepFails` is an error return of the step at hand with everything the code has
deferred by then; other writers, the operating system's kill and power loss are
external actions that may come between any two steps.

**VaultFile** is what `SaveFile` implements: the file as one value, replaced in
one step, only by a writer that holds the version it replaces or whose save had
already begun when that version landed.

**SaveSession** is the update loop around saves: several sources, the confirmation,
the job (`saveCmd`) as a process of its own that interleaves with other
writers and with the keys, and `onSaveDone`.  A staged change is a number; a source's
content is how often each change has been applied to it and which other writers'
work it holds.  `past` remembers what the properties need: changes the
reader gave up, what the reader had been shown of other writers' work, and the
two situations in which the code itself cannot know (below).

**Clipboard** is package `clip` in each process that uses it.  `ClearIfUnchanged` is two
steps, `ClearRead` and `ClearWrite`, under the mutex of its process (`holder`): other
processes come between them, the process's own copies do not.  `CopyString` waits for
the mutex on the update loop, `Tick` is the handler of `tickMsg` and the timer that
sent it, `Quit` and `QuitMsg` are `tea.Sequence(clearClip, tea.Quit)`, and
`CopyConcealed`, `TimeoutOrInterrupt` are `harmos get --copy`.  `clipPast` remembers who wrote last, whose read is
outdated, and which excuses the liveness property takes.

**Unlock** is `NewLocked`, `submitStep`, `openCmd` and `onUnlockDone` with
`session.Open` as the function of the captured credentials it is.  The steps still to be
answered are a set (`todo`): the master comes first, then the sources, which are numbered in
the order of the config.  `opens` holds the opens
off the loop, each with the credentials of the moment it was started.  `world` is what is in
the files and in the keyring; `unlockPast` remembers which local vaults some open has opened, and
whether two opens ran at once.  **SyncProgress** is `startSync`: the goroutine that reports on a
bounded channel (`Report`, `Finish`), the listeners (`Listen`, on the channel the model
held when they were made; 0 is the nil channel, on which a listener waits for ever) and the
messages in flight, a set, because commands finish in any order.  **Session** composes the
three under one life of the program (`up`) and states the fairness.

**ConfigFile** is `internal/config`: a file is a sequence of tables of lines.  `Load`
reads tables as TOML does; the editors find a block by its exact header and end it at
a blank line, as the code does, so the two readings can disagree, and `Configs` has a file
in which they do.  `upsert` and `RemoveSource` load the file, decide, and then read it again to
change it; so `PlanUpsert` and `PlanRemove` are what `Load` decided of one content, and `AppendBlock`,
`Replaced` and `Removed` do it to another.  **Sources** is everything that changes a source, one
step per call that looks at or changes something shared: `LoadConfig`, `ReadConfig`, `WriteConfig`
(or `WriteFails`), `CheckConfig` (the code loads what it wrote), `DeleteCache`, and `ForgetPassword`
once per account; the Settings tab counts the other Pleasant sources before (`CountOthers`).  The
interface and a command can overtake each other between any two of them, a command
can be killed there (`Killed`), and the interface closed or killed and launched again (`Relaunch`).
Renaming is two edits; a sync makes the keyfile (`StatKeyfile`, `MakeKeyfile`) long before it writes the cache.
`LockSource`, `AskUnlock`, `ConfirmUnlock` are the write lock with the config write behind it.

**FolderTree** is `buildTree` and its walks as operators on a vault (where each thing is, how
its name sorts).  **Browse** is the Vault tab and all that rebuilds it.  The `Model` is a
record and an operator on it is a method that returns one, so `Restage(Closed(m), ...)` reads
like the code.  Its projection is simpler than `Staging`'s (one operation of each kind per
target), since here the question is not what is staged but where the cursor is afterwards.
**Screens** adds who has the keyboard: `Taker` is the order in which `Update` offers a
key, `Shown` the order in which `View` draws, and the mouse has its own, shorter list.

**EditSetProofs**, **StagingProofs**, **SaveFileProofs**, **SaveSessionProofs**,
**SessionProofs**, **SourcesProofs** and **ScreensProofs** hold the theorems, **SetLemmas** the
facts about sets that several of them need (section 5).

## 3. Runs

| Run | Shows | Bounds |
|---|---|---|
| `staging` | eleven properties of every state of a session with all keys | three staged operations, then any undoing and saving; 124 680 states |
| `savefile` | seven properties of `Save`, the refinement of `VaultFile` among them | five versions, two processes; 597 265 states |
| `savesession` | five properties of the save flow | two sources, two changes, one foreign write; 1 493 884 states |
| `session` | eight properties of starting, unlocking, copying, syncing and leaving; three of them liveness | four worlds, three copies, two syncs of two reports; 257 363 states |
| `sources` | six properties of the config, keyring, keyfiles and caches under two processes | two sources, two operations, four files to start from; 220 313 states |
| `browse` | three properties of the screen | one folder with two entries, one folder and one entry to create, two changes, one foreign change; 592 401 states |
| `create_move_edit`, `carried_out_lost`, `form_edit_lost`, `root_move_hidden` | a disagreement each, section 4 | as `staging`, with the keys concerned |
| `overwritten_unasked`, `quits_after_another_save` | a disagreement each | as `savesession` |

**Bounds.**  The file of `staging` has a folder in a folder holding an entry, and an
empty folder: enough for every pair of nested, sibling and root positions.
Three operations are the shortest sessions in which a reduction collapses, an
order matters and a third operation depends on both; the four disagreements
with the staging code that have a run all need three or fewer.  A save resets the set but
not the count, so sessions with two or three saves are included, and so is a
recycle bin made by the first save and deleted by the second.
`savefile` needs one version for harmos and one for another writer, twice, for a
race to follow a race; two processes for a crash or power loss to be followed by a recovery.
`savesession` needs two sources for one to fail after the other was written, and two
changes for two sources to have work or for one source to have old and new work.
In `session` a cache and two local vaults give a master step, a password step and a vault that
opens with its keyfile alone; the four worlds are everything saved, nothing saved, a
stale keyring with a cache that cannot be read, and everything stale in vaults without entries,
where two opens run and the result of the older one comes last.  Three copies let a secret be copied,
something else after it, and a secret again, by two processes; a channel of one
(`Capacity`, 32 in the code) is full at once, and two syncs are one whose messages arrive during the
next.  A behaviour copies or syncs, because the two share no variable but `up`, which stays
interleaved with both.  A countdown of two ticks has a first, a middle and a last state.
In `sources` two operations are one for each process or one after the other in the same
one, each of several steps; a conflict of two needs no third.  Its files hold a cache and
a local vault, a default, a comment between the sources and one inside a block (which an overwrite
drops), and in one of them a header only TOML recognises.  A third has the local vault alone, so that
both processes can add the other name, and the fourth start has no file, so that both can make it.
A row of the Settings list opens a screen only while an operation can still be begun.
In `browse` a behaviour is of one of two worlds: it stages and folds, or it opens
overlays and tabs (with one entry possibly marked, so that there is something to save).  A change
staged under an overlay is impossible in the code too.  Two changes are enough for the second
to rebuild what the first arranged, and three visible rows for the cursor to have a
place to be lost to.  Names are distinct per kind, so that the order of rows is theirs.
`MaxSeq`, `MaxId`, `MaxRuns`, `MaxChanges`, `Writers`, `MaxCopies`, `MaxSyncs`, `MaxOps`,
`NewNames` and `MaxForeign` are the only caps;
`TypeOK` of `SaveSession` also caps at two how often a change is counted as written, which is
already one too many.

**Deadlock** is not checked except in `sources`: a session may end, a reader may
quit, and every bound stops the model.

**Fairness.**  Only `Session` assumes any, weak fairness of what runs without a key: the
timer of the countdown (`tea.Tick` always fires), the commands and messages of the
bubbletea runtime, `Open` and the work of a sync (key derivation and requests
end, in an error if need be), a channel operation that can go on, and the command line's
wait.  Nothing a reader, another program or the operating system does is fair: no key has
to be pressed, no process has to be killed.  Weak fairness is enough because each of these stays enabled
until it happens, `ClearRead` and a copy competing for the mutex included.  A failing
clipboard is not excluded by fairness but named as an excuse of `SecretsLeave`.

**What the properties say.**

- `SeqsAreHandles`, `OneDeletionEach`, `NoOrphans`: the log stays sane under
  toggling, cascading undo and abandoned folders.
- `SaveCanBePerformed`: the save applies.  Six shapes of a set are excepted by
  name because the code does fail on them, each reachable: a projection that is not a tree
  (`NotATree`), a creation staged again after a move (`MadeAgainAfterMove`), two
  folders moved in one set, an operation on something inside a folder that goes earlier,
  deletion of the recycle bin or across it, and an undone folder that a draft or a
  move's origin still names (`StaleReference`).
- `ReviewIsTruth`: everything the review does not mark as going is written where and
  as it is shown, but for entries moved to the root, stale references, and new entries whose move
  was cancelled together with its destination (`MoveCancelled`, section 4).
- `LastWordCounts`: of all the drafts staged for an entry the last one is what is shown
  and written, unless a deletion of it is staged too, and but for the shape of `form_edit_lost`.
- `BinnedIsRecoverable`: what the review shows as going for good is not written, and whatever else it shows
  as going is in the recycle bin; but for what `ReviewIsTruth` leaves out, for a bin that is deleted itself and
  for a deletion staged inside a folder that goes.
- `TombstonesMatch`: whatever left the file is recorded as deleted.
- `OneHistoryPerSave`, `PutBackWorks`: what KeePass is told about the past is what
  the *file* held, however many interim states the session went through.
- `TargetDecodes`, `ValuesReadable`, `LostOnlyInFlight`, `BackedUpFirst`,
  `OneBackupPerRun`, `ReplacesAsAWhole`: the file.  The one way another writer's version is lost
  is to land between the comparison of fingerprints and the fingerprint taken
  after the rename (`InFlight`); the rename replaces it, or the fingerprint adopts it.
- `WrittenOnce`, `NothingForgotten`, `ReviewedOnly`, `AskedBeforeOverwriting`: the
  save flow.  The first and third except changes in `past.suspect`: those of a save
  that failed *after* its rename (an error, though the file is written) and those of a
  handle that could not be read again after a failure.  The code keeps both staged and
  cannot tell; `hazards` lists the two places.

- `SecretsLeave`: whatever is copied in between, tracked or not, a secret of harmos on the
  clipboard leaves it, unless clearing failed, the process was killed, or the copy came after
  the clear of the way out.  `OnlySecretsCleared`: and nothing else does, but for
  another process's write in the window of one read and write.
- `AcceptedOnce`, `NothingMissing`, `RightAnswersOpen`: rounds of unlocking lose no answer,
  leave out no source without saying so, and end once the answers are right.  The first excepts a
  session in which two opens ran at once (`doubled`, section 4).
- `PhaseForward`, `SyncEnds`: the channel.  The first excepts a phase after a message of an earlier
  sync came late, which leaves two listeners on one channel: the code numbers neither.
- `ConfigLoads`: whatever the two processes write, in whatever order they load, read and write and wherever
  one of them ends, the file keeps loading or has no source left.  The one exception is a name that is there
  twice, and only when the other process added it between this one's `Load` and its `ReadFile`
  (`doubled`, section 4).
- `RestLeftVerbatim`: a write that replaces what its edit read changes nothing else.  A write that replaces
  something newer loses it, since nothing locks the file; and the comments inside the block that an overwrite
  rewrites are lost too, which `carryOver` does not claim to keep.
- `LockAgrees`: outside an operation the lock on screen is the one in the file, but for
  what could not be saved, which is said, for sources removed or renamed since, and after a write that went over
  another (`clash`).  `CachesOpen`: a cache is encrypted with the keyfile
  `openWith` will find, unless a sync failed in between (`torn`).
- `MasterKept`: a removal forgets the shared master only when no Pleasant source is left, except those the other
  process made or brought back after the removal counted (`since`).  A source that was there when it
  counted, or that the same process wrote, is never excused (section 4).
- `ArrangementKept`: folds and cursor across every rebuild.  `KeysGoWhereShown`: for every character and every screen,
  the surface that gets it is the one drawn, but for the two cases of section 4.

Each property has a mutant in `PROJECT.json`: a definition of the model changed as a
plausible bug would change its code, under which TLC finds the property
violated.  The mutated forms are the operators marked `(mutant)` or `Mutant:`.

## 4. Disagreements between code and documentation

Each is a run that checks one sentence of the repository and finds it violated.

1. `create_move_edit`: a new entry, moved and then edited in the form, cannot be
   saved.  The edit stages the creation again with a later number, the move runs first and
   its entry does not exist (`set.go:122`).
2. `carried_out_lost`: a new entry moved out of a folder that is then deleted is
   cancelled with it (`carry.go:29`, `set.go:263`).
3. `form_edit_lost`: a new entry, renamed inline and then edited in the form, loses
   what was typed into the form: the reduction takes the inline rename's draft whichever
   came last (`set.go:58`, `set.go:352`).
4. `root_move_hidden`: an entry moved to the root is shown where it was
   (`project.go:24`, `project.go:128`).
5. `overwritten_unasked`: only `ErrChangedUnderneath` marks a source stale, but the
   handle is reopened after *every* failure, so after some other failure a foreign write
   is replaced without the conflict screen (`tui.go:153`, `changes.go:308`).
6. `quits_after_another_save`: "save and quit", cancelled, makes the next save quit
   (`changes.go:492`, `changes.go:544`).

Seen while modelling and not given a run of their own; six of them are in `hazards`:

- Marking an entry for deletion from the detail of a search result swaps the pane to the first
  result.  Search, move to the second result, open it, `d`: `rebuild` ends in `refilter`, which
  sets `sel` to 0 (`tui.go:388`, `:509`), and the pane shows another entry, which a second `d`
  marks.  `advanceCursor` (`editor.go:427`) avoids exactly this in the tree.
- Editing a Pleasant source in Settings writes it as a kdbx source whose path is the working directory:
  `updateForm` (`form.go:101`) asks a toggle that a form which edits does not have.
- `ctrl+c` over the help, the attachments or the write lock raises a quit guard that `View` draws
  underneath (`tui.go:694`, `view.go:160`); and a click on another tab leaves an inline name or a carried
  row in charge of the keyboard (`mouse.go:14` refuses fewer overlays than `Update`).
- Copying the command and then a secret within a second runs two tick loops
  ("would stack overlapping loops", `tui.go:563`).
- The open that starts by itself does not mark the model busy (`tui.go:272`), so an enter starts a
  second one ("keys ignored while Argon2 runs", `unlock.go:187`); and when the older result comes last it
  asks again for a vault that the newer one has opened, against `unlock.go:224`.  This is why `AcceptedOnce`
  has an exception: it came to light when the property without it could not be proved.
- A progress message after the done message leaves a listener on the nil channel for good ("a closed
  channel ends the loop", `sync.go`).
- The interface and a command add a source of one name.  Both load the file and find no such source; the
  second reads the file after the first has written it, and appends the block again.  The config no longer
  loads ("duplicate source name", `config.go:154`), which the write's own check says when it is too late
  (`edit.go:362`), against "if a source of that name exists — rewrites just that block"
  (`edit.go:312`).  Without `doubled` in `ConfigLoads` TLC finds it in nine steps.
- The Settings tab counts the other Pleasant sources and removes one; a command adds a Pleasant source, or writes
  a local one over as one, before the master is forgotten.  The count is not made again, and the new source's
  master is gone, against "only when no other Pleasant source remains" (`settings.go:288`, and
  `remove.go:115` for the command, which counts and forgets in the same order).  Without `since` in
  `MasterKept` TLC finds it in thirteen steps, none of which writes over another.
- Renaming a source removes the old block and then adds the new one: `writable` is dropped, and a
  failure, or an end of the program, in between loses the source (`form.go:190`).
- `remove-source --forget-password` keeps a Pleasant source's server password (`remove.go:118`), which
  the Settings tab forgets; and removing from Settings acts on the row read again at enter.
- After a save or a reread took rows away the tree's cursor may be past its end (nothing in `rebuild` clamps it).
- enter on the Changes tab switches tab but moves no cursor when the entry's folder is closed (`changes.go:131`).

And of the staged set: an entry edited, moved out of a folder, marked with `D` there, and then its old
folder with `d`: the reduction takes the entry's deletion for part of the folder's (`set.go:227` compares
with the folder the *file* has it in), so it goes to the bin, unedited, with a folder it was no longer shown in
(it came to light when `LastWordCounts` without its exception for deletions could not be proved; it takes
four operations, one more than the run has); something sent to the recycle bin and the bin
itself deleted for good in one set (the review still says "to the recycle bin"); a thing moved
out of a folder whose *parent* is purged in the same set and was staged first; the id of an
undone folder left behind in drafts and in `Was` (`StaleReference`); a new entry moved into a new folder,
retitled there, and the new folder deleted: the move is cancelled with the folder (`set.go:263`),
but the inline title's draft says the folder the entry was shown in, and when that was one more folder
on the way, still there, the tree shows the entry in it (`tree.go:92`, `project.go:60`) while the save writes it where it
was created (`MoveCancelled`: six operations, three more than the run has; it came to light in looking
for the invariant that `ReviewIsTruth` needs, and a simulation of longer sessions has it; when the folder it is
shown in goes to the bin, it is shown as going there too, and is not); the stale mark of a
source that survives undoing all its changes and asks once too often.

## 5. Proofs

TLAPS checks every theorem for every value of the constants.

**SaveFileProofs** (assumptions: `MaxId`, `MaxRuns` positive naturals, `None` no
record).  Six invariants and the refinement, each from an inductive strengthening with
an `Init` lemma and a `Step` lemma that has one step per action:

- `TypeCorrect`: `TypeOK` is inductive.
- `TargetAlwaysDecodes` needs `Durable`: also a temp file past `verify` decodes, past `sync` it
  is flushed, and so are the file and all it may fall back to.
- `Numbered` (versions are not above `last`) supports the next three.
- `ForeignWritesSurvive` needs `Descends`: what the file lacks of other writers'
  versions raced; and while a save is under way the same holds of the handle's
  database, which is what makes the rename harmless.
- `BackupComesFirst` and `AtMostOneBackup` need `Backed`: the flag, the backup file and the
  count agree at each step of `backupOnce`, across `Reopen`.
- `ValuesStayReadable` needs `Disciplined`: at each step the lock state is the one the
  Go comment on `Handle` asks for, unless an unlock has failed.
- `SaveImplementsReplacement` (`Spec => VF!Spec`) needs `Lineage`: whenever the handle's
  fingerprint is the file's, the file's version is one the handle descends from or one that raced.
  `Check` is `Begin`, `Rename` is `Replace`, `Decode` is `Read`, `Flush` may be
  `Settle`, `Fingerprint` and a failure are `End`; every other step stutters.

**SetLemmas**: a set of naturals that is not empty has a least element (`MinIsLeast`), which the
library states only of finite sets; and two facts that stand in for induction over sets: what
holds at every size holds of every finite set (`CountingUp`, on the natural number that is its
cardinality), and a set grows by one element at a time (`OneMore`).

**EditSetProofs** (no assumption): package `edit` for any log whose operations are `Numbered`.

- `OrderIsSorted`: what `applyOrder` returns lists each operation once; when the rules are not cyclic,
  `Precedes` implies an earlier place; when they are, the order is that of the numbers.  The recursive function
  in `ApplyOrder` is shown to exist by counting the operations left, and its properties follow by
  taking one operation at a time.
- `CreationsComeFirst`: when whatever is put into a new folder was staged after the folder (`FilledLater`), the
  rules are not cyclic, and a creation is performed before everything that was staged after it.  Kahn's algorithm does
  not promise the second by itself, since it takes the earliest of what is *ready*; it holds because a creation waits
  for nothing but earlier creations (`SortedInFront`).
- The net operations: each family of kinds leaves at most one operation per target, with the number of
  the first and the fields of the last (`CollapsedIsNet`, `LastIsNet`, `FilledIsNet`), and so the whole
  reduction is again numbered, whence `EffectiveIsFinal`.
- `CreatedBeforeFilled`: an operation of the net set into a folder of this session comes with that
  folder's creation, and after it.  It rests on `GrowIsClosed` and on `CreationStays`: a creation the
  cancellation does not take is still there after the reduction.
- What a collapsed operation says (`CollapsedSays`, `LastEditStays`, `NewEntrySays`): where each of its fields
  was staged (`FieldsWereStaged`), that nothing deleted is moved as well (`NoMoveOfTheDeleted`), that an edit that
  is left changes something (`NetEditMatters`), what else there may be of a target that is created or deleted
  (`NothingElseOfIt`), and which operation a creation or a move comes from (`CreationIsTheLast`, `MoveIsCollapsed`).

**StagingProofs** (assumption `StagingAssumption`; the last proof asked for a clause the model had not stated, that no
name is the empty one, which `stageInlineRename` refuses at `inline.go:136`), by five strengthenings, each resting on the
ones before:

- `NumbersHold`: `NumbersAreHandles`, and the action property `NumbersAreNotReused`, from lemmas on what
  `Add`, filtering, `Revert` and `DropDeletionsUnder` do to a set of numbered operations.
- `Current`: `red` and `view` are those of the set, the folder being named is in the log, and the set is
  `Sane` for the file: every operation has the shape of its kind, at most one deletion per target, every parent is
  `Placed` or was taken over from a draft.  It is needed because the guards read the projection, not the log.
  `DeletedOnce` holds only because a row that `d` works on hides no deletion that the reduction has
  cancelled (`NoneIsLeft`); that needs the projection's row to come from the log, and the reduction to
  keep the deletion of what it has not created.  `NothingIsOrphaned` needs `Without` to close over what was staged
  into what it takes back (`NothingOutlivesItsFolder`), and shows where the closure ends: at a draft
  that only names the folder.  `NamedIsStaged`: the folder being named is there for enter and esc to find.
- `Worded`: which kinds of operation are about entries and which about folders, and that the first edit of an entry
  of the file starts from what the file holds.  `LastWordIsShown` needs it because the reduction drops an edit whose
  end is its beginning: what is then shown is the file's, which has to be what the last edit said.
- `Settled`: the file is a decoded vault (`IsVault`), every operation is typed (`AllTyped`), and the numbers used
  are within the bound (`Counts`, which gives `TypesHold`).  It says that a save starts from a tree in which ids, folders
  and deletion records are what KeePass means by them, and that it leaves such a tree: a save is a step of the
  specification, so this is needed before the next session can be reasoned about.
- `Whereabouts`: every staged operation is about something of the file or of the session, a move says where to, and
  the drafts of a new entry agree on where it was created, but for those taken after a move and those that name a
  folder cancelled since.  `WrittenAsReviewed` needs it because the row of a new entry comes from its draft, while
  the save puts it where the operation says.  Its part `Footing` is what the order of a save rests on: whatever is
  put into a folder of the session was staged after it, no folder is moved into itself, a name is not empty, and where
  something was moved from or created is, traced back, where it started (`StartsFrom`), however often it was moved,
  retitled and made again.  `NothingStagesACycle` follows: the fallback of `applyOrder`, of which its comment says that
  "nothing in the interface can stage one" (`set.go:199`), is never taken.

The last six theorems are about the tree a save leaves.  `Performs` says of one operation all that it may do to a
tree, `Follows` what a save up to some operation has done: which items there are and which are recorded as
deleted, and of each item of the file what its history and its previous folder are, if an edit or a relocation of it has
been done and if not.  `ApplyOnePerforms` is the one, operation by operation; `FollowsOne` adds one operation to the
other; `SaveFollows` goes through the fold, a recursive function of the number of operations done whose existence is
shown by counting (`StepsExist`).  They apply because of what the reduction leaves (`ReducedIsDue`): of each target one
creation, one edit, and one relocation *or* deletion at most.  Hence

- `DeletionIsRecorded` (`TombstonesMatch`): what left the file is recorded, a purged folder's content
  included (`PurgedIsVault`), and nothing that is there is;
- `PutBackLeadsHome` (`PutBackWorks`): one relocation per save, so the folder it leaves is the file's;
- `HistoryIsHonest` (`OneHistoryPerSave`): one edit per save, so what it pushes is the file's, and it changes something;
- `WrittenAsReviewed` (`ReviewIsTruth`): what the review shows and does not mark as going is written where and as it
  is shown, and nothing else goes;
- `BinnedAreFound` (`BinnedIsRecoverable`): what goes for good is gone and all the rest of what goes is in the bin;
- `SaveIsPerformed` (`SaveCanBePerformed`): the save gets to its end, but for the six shapes.

The two before the last compare two readings of the same net operations.  On one side are the rows: `RowHomeIs` and
`RowDataIs` say what a row shows by the relocation, the edit or the creation of its item, and the walk up the rows, which
the projection uses to mark what goes with a folder, is closed (`ChainIsClosed`: the levels of the walk stop growing
after as many as there are rows).  On the other are the trees of the save: `Arrives` says where each item of the file
or of the session is after some of the operations, and what it holds; `SaveSteps` says it of every tree a save
passes through.  They meet at a deletion for good: when a folder is purged its subtree in that tree has to be what was marked
(`PurgedTogether`, with the rows marked as going in `PurgedIsMarked` and those marked as going for good in
`PurgedIsForGood`).  It is, because whatever a later operation moves out of the folder would have to be alive for
it: a save in which it is not does not go through.

`BinnedAreFound` needs one more invariant of the save, `Binned`: there is one bin, which is the file's or new;
once something was put into it it stays there and what was put into it stays in it (`BinStays`); what was deleted for good is
recorded; and no row is that was not shown as going for good.  Then an item on its way out is followed through the rows to the folder
whose deletion takes it, and through the tree from there to the bin (`SubtreeIsClosed`), and the two walks are the same but
for that last step (`OutIsBinned`); were there a folder deleted for good on the way, the item would be in it (`ForGoodIsGone`).
Both use what `IsVault` says of nesting: whatever is in a decoded file is in a folder that is there.

`SaveIsPerformed` is by induction on the operations performed, in the order of `applyOrder` (`SaveGoesThrough`); for the next
one, `NextIsPerformed` goes through the ways in which a mutation refuses:

- Its target is there (`TargetIsThere`).  Were it not, some earlier operation removed it (`StillThere`): a deletion
  of it, which leaves no other operation of it, or of a folder it was in.  `SubtreeOfTheGone` shows that what a folder holds
  when it is deleted is shown under it (`WhereItIsNow`), because what was still to be moved out was moved out first; and to
  work on what is shown there is `ActsInsideTheGone`.
- The folder it goes into is there (`FolderIsThere`): it is in the file or was created before (`FilledAfterwards`).
- A folder is not moved into what it holds at that moment (`MovedOutside`): the rows are a tree (else `NotATree`), and
  one folder moved alone (else `FoldersMovedTogether`) holds in the tree of the save what it holds on screen, or what went to the bin
  inside it.
- A folder that is deleted is not in the bin already, nor around it (`BinnedOutside`, from `InABin`): the bin is the file's,
  and then it would be `BinItselfDeleted`, or a new one in the root.

Each shape is used where the list says, `MadeAgainAfterMove` and `StaleReference` for the order of creations and
for where a move starts: the proof has found no seventh, and needs all six.

`TypesHold`, `NothingStagesACycle` and these six have one hypothesis, `BinsLast`: there is always another id for a recycle bin, as there is
of UUIDs.  Without it `RecycleBin` would choose from nothing.  In the run two ids are enough, since its bound
lets no third bin be made.

**SaveSessionProofs** (the assumptions of `SaveSession`), by one invariant in three parts.
`Control` is the types, `JobOK` (a running save works on exactly the set that is staged, each
source with work once, none of them known to be stale) and `UiOK` (a confirmation is of a set that can be saved, a
conflict screen is about a source with work).  `ContentOK` compares, for each source and each change, the
file, the database and the staged set: how often the change was applied to each, at each stage
of the job, unless the change is in `past.suspect`.  `Known` is what the overlays have told the
reader of other writers' work.  From these: `SessionTypes`, `RetryWritesOnce`, `ConfirmedIsWritten`,
`NoWorkIsLost` (which needs besides that what was given up stays given up), and `AskedFirst`.

**SessionProofs**: the three components share only `up`, so each has an invariant of its own and the
last section puts them together (`SessionTypes`).

- `ClearsTakeSecrets`: `ClipOK` says whose mutex is held for which call, and that a call which has read,
  unless it is in `crossed`, read a secret that is still on the clipboard.
- `NoSourceIsMissing`, `AcceptedForGood`: `UnlockOK` relates the steps, the answers, the skipped
  sources and the credentials each running open has captured.
- `ReportsInOrder`: `SyncOrder` orders what is on the screen, in flight and in the channel, for each
  sync; `OneToken` says that while no late message has come a channel has one listener or one message on
  its way, never both.

**SourcesProofs** (`SourcesAssumption`): `CachesStayOpenable`, from `Together`, the property with both
tables total.  The proof asked for one assumption the model had not stated, that no source has the empty
name; `ValidSourceName` (`edit.go:149`) refuses it.

**ScreensProofs**: `KeysMeetTheScreen`.  `Taker`, `Surface` and `Shown` are each reduced to one
decision (`TakerIs`, `SurfaceIs`, `ShownIs`), and the two agree under `Layered`: the help is never over an
edit or the question of the write lock, a running save is over nothing, a confirmation is only of fresh
sources and a conflict only of a stale one.  None of this is written in one place in the code: it follows from
which keys each overlay lets through.

**Only model-checked.**

- `SecretsLeave`, `RightAnswersOpen`, `SyncEnds`: liveness under fairness is out of the prover's reach.
- `ConfigLoads`, `LockAgrees`, `RestLeftVerbatim`, `MasterKept`, and `TypeOK` of `Sources`: these hold of the files
  the run starts from, not of every file.  A block with keys after a blank line, once removed, leaves them to the table
  above, where TOML may refuse them or they may make another source of it; in the files of the run only a comment follows
  a blank line.  Besides, what an edit does to a file is a
  filter with an operator argument (`SelectSeq`), of which the library can state nothing that the installed provers
  can instantiate.
- `ArrangementKept`, and `TypeOK` of `Screens`: the order of rows is by name, and names are distinct only in the
  bounded vault; and the folders above a row are a recursion that ends only where folders are a tree.
- The six violations.

## 6. What is left out

- Timestamps, icons, custom data, attachments, sibling order, `HistoryMaxSize`, and
  the counter that tells apart entries sharing a UUID.  Folder paths are taken to be
  distinct, so a path prefix is ancestry.
- Sources do not interact in `Staging`: ids carry their source.
- In `SaveSession` a set with operations that cancel out (created, then deleted) is not told
  from an empty one, and the two steps "is it unlocked" and "apply" are one.
- `VerifyWritable` refusing a file ends `Save` or the first mutation before anything
  changed, which is a stutter.  Its probe locks and unlocks the database too and ignores an
  error of that unlock; `SaveFile` does not have this second way to leave the values locked.
- Other writers are taken to replace the file as a whole, durably, building on what it
  says.  The backup's own sync and rename are one step.
- Clipboard: two harmos interfaces at once (a second process is a command), clipboard
  managers, and real time: a tick is a tick.
- Unlock: `openOne`'s re-prompting, which only the command line uses, and the badges.
- `Sources`: file permissions, quoting, `~`, and a kdbx `keyfile`; the content of a preference
  is one of two values.  `save-password` and `remove-password` change their accounts in one step, and
  what `add-source --save-password` stores is taken to be a `save-password` after it.  Removing a local source with its file is left out: the file is `SaveFile`'s.
- `Browse`: scroll offsets, the cursor of the Changes tab, page sizes (a page is the whole list),
  deletion for good as against to the bin, and that save-and-quit ends the program, which is
  `SaveSession`'s.  The password prompt and the removal are as the form: they own the keyboard.
- Self-update, the ranking of search, password generation, diff rendering, drawing and what the
  command line prints: pure functions and I/O without state of their own.

## 7. Plan

Of the safety properties that hold for every value of the constants none is left to prove.  What could still be done, in this order:

1. `Screens` with rows of one name in any order (`tree.go:133`), so that `TypeOK` and `ArrangementKept` could be stated for
   every vault.
2. `Sources` over files in which keys follow a blank line, with what `ConfigLoads` would have to except there.
