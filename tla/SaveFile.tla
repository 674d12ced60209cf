------------------------------- MODULE SaveFile -------------------------------
(* vault.Handle.Save and atomicfile.Write: the only code in harmos that writes *)
(* a user's vault.  One process, one file, one step per system call that can   *)
(* fail or be overtaken; other writers replace the file whenever they like, the *)
(* process may be killed and the power may fail between any two steps.          *)
EXTENDS Integers

CONSTANTS
    None,
    MaxId,      \* bound: versions of the file ever written, by anybody
    MaxRuns     \* bound: how often harmos is started

ASSUME BoundsAssumption == MaxId \in Nat \ {0} /\ MaxRuns \in Nat \ {0}

VARIABLES
    disk,       \* the bytes the path names
    fallback,   \* older bytes a power loss may bring back: the rename is not flushed
    temp,       \* the temp file beside it, or None
    backups,    \* the harmos-backup files
    h,          \* the Handle, or None while harmos is not running
    pc,         \* the step Save or openHandle is about to take
    look,       \* the fingerprint openHandle has taken
    last,       \* the newest version id
    past        \* history: what the properties need to remember

vars == <<disk, fallback, temp, backups, h, pc, look, last, past>>

Ids == 0..MaxId

\* The bytes of a vault: which version, what it descends from, and whether its
\* values read back, decode to "garbled" ones, or the whole is "broken".
Bytes == [id : Ids, has : SUBSET Ids, form : {"good", "garbled", "broken"}, synced : BOOLEAN]

\* The Handle: its fingerprint, its database and the state of the protected
\* values in it, and whether this run has taken its backup.
Handle == [fp : Ids, has : SUBSET Ids, values : {"plain", "locked", "garbled"}, backed : BOOLEAN]

ASSUME NoneAssumption == None \notin Bytes \cup Handle

History == [runs : 0..MaxRuns,              \* processes started
            foreign : SUBSET Ids,           \* versions harmos did not write
            raced : SUBSET Ids,             \* ... that landed inside a save
            start : Ids,                    \* the version this run found
            own : SUBSET Ids,               \* the versions it has written
            kept : Nat,                     \* backups this run has taken
            unlockFailed : BOOLEAN]         \* the unlock at the end of a save failed once

\* Between the fingerprint comparison and the fingerprint taken afterwards a
\* write by somebody else goes unnoticed.
InFlight == {"backup", "install", "lock", "encode", "verify", "sync", "rename",
             "flush", "fingerprint"}

HasTemp == {"install", "verify", "sync", "rename"}

Steps == {"down", "idle", "decode", "check", "unlock"} \cup InFlight

Init ==
    /\ disk = [id |-> 0, has |-> {0}, form |-> "good", synced |-> TRUE]
    /\ fallback = {} /\ temp = None /\ backups = {}
    /\ h = None /\ pc = "down" /\ look = None
    /\ last = 0
    /\ past = [runs |-> 0, foreign |-> {0}, raced |-> {}, start |-> 0, own |-> {},
               kept |-> 0, unlockFailed |-> FALSE]

-------------------------------------------------------------------------------
(* openHandle: the fingerprint first, the content second.                      *)

\* Starting harmos, or Reopen on a handle that is not saving.
Look ==
    /\ \/ /\ pc = "down" /\ past.runs < MaxRuns
          /\ past' = [past EXCEPT !.runs = @ + 1, !.start = disk.id, !.own = {}, !.kept = 0]
       \/ pc = "idle" /\ UNCHANGED past
    /\ look' = disk /\ pc' = "decode"
    /\ UNCHANGED <<disk, fallback, temp, backups, h, last>>

\* (mutant) the content first, the fingerprint second
OpenedThenLooked ==
    [fp |-> disk.id, has |-> look.has,
     values |-> IF look.form = "garbled" THEN "garbled" ELSE "plain",
     backed |-> h # None /\ h.backed]

\* A fresh handle on what the file says now.  The backup already taken this run
\* is remembered across a Reopen.
Opened ==
    [fp |-> look.id, has |-> disk.has,
     values |-> IF disk.form = "garbled" THEN "garbled" ELSE "plain",
     backed |-> h # None /\ h.backed]

Back == IF h = None THEN "down" ELSE "idle"

\* (mutant) the fresh handle forgets the backup
DecodeForgetting ==
    /\ pc = "decode" /\ disk.form # "broken"
    /\ h' = [Opened EXCEPT !.backed = FALSE]
    /\ look' = None /\ pc' = "idle"
    /\ UNCHANGED <<disk, fallback, temp, backups, last, past>>

Decode ==
    /\ pc = "decode" /\ disk.form # "broken"
    /\ h' = Opened
    /\ look' = None /\ pc' = "idle"
    /\ UNCHANGED <<disk, fallback, temp, backups, last, past>>

\* A read that fails, or a file that does not decode, leaves the old handle.
OpenFails ==
    /\ pc = "decode"
    /\ look' = None /\ pc' = Back
    /\ UNCHANGED <<disk, fallback, temp, backups, h, last, past>>

-------------------------------------------------------------------------------
(* Save, up to the temp file.                                                  *)

\* Only `pc' moves.
Goto(step) == pc' = step /\ UNCHANGED <<disk, fallback, temp, backups, h, look, last, past>>

Save == pc = "idle" /\ Goto("check")

\* (mutant) the file is replaced whatever it says by now
CheckNothing == pc = "check" /\ Goto("backup")

\* ErrChangedUnderneath unless the file is the one the handle knows.
Check == pc = "check" /\ Goto(IF disk.id = h.fp THEN "backup" ELSE "idle")

\* (mutant) a backup that cannot be taken does not stop the save
BackupIfPossible ==
    /\ pc = "backup"
    /\ \/ Goto("lock")
       \/ ~h.backed /\ temp' = [disk EXCEPT !.synced = FALSE] /\ pc' = "install"
          /\ UNCHANGED <<disk, fallback, backups, h, look, last, past>>

\* backupOnce: the first save of a run copies the file aside before it goes on.
Backup ==
    /\ pc = "backup"
    /\ IF h.backed
       THEN Goto("lock")
       ELSE /\ temp' = [disk EXCEPT !.synced = FALSE] /\ pc' = "install"
            /\ UNCHANGED <<disk, fallback, backups, h, look, last, past>>

InstallBackup ==
    /\ pc = "install"
    /\ backups' = backups \cup {temp.id}
    /\ h' = [h EXCEPT !.backed = TRUE]
    /\ past' = [past EXCEPT !.kept = @ + 1]
    /\ temp' = None /\ pc' = "lock"
    /\ UNCHANGED <<disk, fallback, look, last>>

\* Rekey, then LockProtectedEntries: values already locked are encrypted twice.
Lock ==
    /\ pc = "lock"
    /\ h' = [h EXCEPT !.values = IF @ = "plain" THEN "locked" ELSE "garbled"]
    /\ pc' = "encode"
    /\ UNCHANGED <<disk, fallback, temp, backups, look, last, past>>

\* The encoder writes the database, and may write something that will not decode
\* or has lost entries or attachments.
Encode ==
    /\ pc = "encode" /\ last < MaxId
    /\ last' = last + 1
    /\ \E form \in {IF h.values = "garbled" THEN "garbled" ELSE "good", "broken"} :
          temp' = [id |-> last', has |-> h.has \cup {last'}, form |-> form, synced |-> FALSE]
    /\ pc' = "verify"
    /\ UNCHANGED <<disk, fallback, backups, h, look, past>>

-------------------------------------------------------------------------------
(* Save, from the temp file to the result.                                     *)

\* (mutant) only the length of the temp file is looked at
VerifyNothing == pc = "verify" /\ Goto("sync")

\* verify decodes the temp file; broken bytes fail the save (StepFails).
Verify == pc = "verify" /\ temp.form # "broken" /\ Goto("sync")

\* (mutant) the bytes are left to the operating system
SyncNothing == pc = "sync" /\ Goto("rename")

Sync ==
    /\ pc = "sync"
    /\ temp' = [temp EXCEPT !.synced = TRUE] /\ pc' = "rename"
    /\ UNCHANGED <<disk, fallback, backups, h, look, last, past>>

\* The rename: the one step that changes the vault.  Until the directory is
\* flushed a power loss may undo it.
Rename ==
    /\ pc = "rename"
    /\ disk' = temp /\ temp' = None
    /\ fallback' = fallback \cup {disk}
    /\ h' = [h EXCEPT !.has = temp.has]
    /\ past' = [past EXCEPT !.own = @ \cup {temp.id}]
    /\ pc' = "flush"
    /\ UNCHANGED <<backups, look, last>>

\* Best effort: where the directory cannot be opened nothing is flushed.
Flush ==
    /\ pc = "flush"
    /\ fallback' \in {fallback, {}}
    /\ pc' = "fingerprint"
    /\ UNCHANGED <<disk, temp, backups, h, look, last, past>>

\* The handle takes whatever the path names by now for its own write.
Fingerprint ==
    /\ pc = "fingerprint"
    /\ h' = [h EXCEPT !.fp = disk.id]
    /\ pc' = "unlock"
    /\ UNCHANGED <<disk, fallback, temp, backups, look, last, past>>

\* The deferred unlock.
Unlock ==
    /\ pc = "unlock"
    /\ h' = [h EXCEPT !.values = IF @ = "locked" THEN "plain" ELSE @]
    /\ pc' = "idle"
    /\ UNCHANGED <<disk, fallback, temp, backups, look, last, past>>

UnlockFails ==
    /\ pc = "unlock"
    /\ past' = [past EXCEPT !.unlockFailed = TRUE]
    /\ pc' = "idle"
    /\ UNCHANGED <<disk, fallback, temp, backups, h, look, last>>

Deferred == IF pc \in {"check", "backup", "install", "lock"} THEN "idle" ELSE "unlock"

\* (mutant) the values are unlocked only where the save succeeds
StepFailsLocked ==
    /\ pc \in {"check", "encode", "fingerprint"} \cup HasTemp
    /\ temp' = None /\ pc' = "idle"
    /\ UNCHANGED <<disk, fallback, backups, h, look, last, past>>

\* (mutant) the temp file is removed only where the bytes were written
StepFailsLittering ==
    /\ pc \in {"check", "backup", "lock", "encode", "fingerprint"} \cup HasTemp
    /\ temp' = (IF pc = "verify" THEN temp ELSE None) /\ pc' = Deferred
    /\ UNCHANGED <<disk, fallback, backups, h, look, last, past>>

\* Any of these steps may return an error: atomicfile removes its temp file and
\* whatever was deferred by then runs.
StepFails ==
    /\ pc \in {"check", "backup", "lock", "encode", "fingerprint"} \cup HasTemp
    /\ temp' = None /\ pc' = Deferred
    /\ UNCHANGED <<disk, fallback, backups, h, look, last, past>>

-------------------------------------------------------------------------------
(* Everybody else.                                                             *)

\* KeePassXC or a sync tool replaces the file, building on what it says.
ForeignWrite ==
    /\ last < MaxId
    /\ last' = last + 1
    /\ disk' = [disk EXCEPT !.id = last', !.has = @ \cup {last'}]
    /\ fallback' = {}
    /\ past' = [past EXCEPT !.foreign = @ \cup {last'},
                            !.raced = IF pc \in InFlight THEN @ \cup {last'} ELSE @]
    /\ UNCHANGED <<temp, backups, h, pc, look>>

Stopped == h' = None /\ look' = None /\ pc' = "down" /\ temp' = None

\* Killed, or quit: the page cache survives, a temp file is left as litter.
Crash ==
    /\ pc # "down" /\ Stopped
    /\ UNCHANGED <<disk, fallback, backups, last, past>>

\* Bytes never flushed are lost; a rename never flushed may be undone.
PowerLoss ==
    /\ Stopped
    /\ \E b \in fallback \cup {disk} :
          disk' = IF b.synced THEN b ELSE [b EXCEPT !.form = "broken"]
    /\ fallback' = {}
    /\ UNCHANGED <<backups, last, past>>

Next ==
    \/ Look \/ Decode \/ OpenFails
    \/ Save \/ Check \/ Backup \/ InstallBackup \/ Lock \/ Encode
    \/ Verify \/ Sync \/ Rename \/ Flush \/ Fingerprint
    \/ Unlock \/ UnlockFails \/ StepFails
    \/ ForeignWrite \/ Crash \/ PowerLoss

Spec == Init /\ [][Next]_vars

-------------------------------------------------------------------------------
(* Properties.                                                                 *)

\* Types, and: a temp file exists exactly while a step that owns it is next, so
\* no path but a crash leaves one beside the vault (atomicfile.go:30).
TypeOK ==
    /\ disk \in Bytes /\ fallback \subseteq Bytes
    /\ temp \in Bytes \cup {None} /\ (temp # None <=> pc \in HasTemp)
    /\ backups \subseteq Ids
    /\ h \in Handle \cup {None} /\ (h = None => pc \in {"down", "decode"}) /\ (pc = "down" => h = None)
    /\ pc \in Steps
    /\ look \in Bytes \cup {None} /\ (look # None <=> pc = "decode")
    /\ last \in Ids
    /\ past \in History

\* What the path names always decodes: no crash, no power loss and no bad encode
\* leaves the user without a vault (write.go:37, atomicfile.go:1).
TargetDecodes == disk.form # "broken"

\* The protected values on disk stay readable however many saves failed before,
\* unless the unlock that ends a save failed itself (handle.go:21).
ValuesReadable == disk.form = "garbled" => past.unlockFailed

\* Of what other writers put into the file only a version that landed inside a
\* save is ever missing from it (write.go:31).
LostOnlyInFlight == past.foreign \ disk.has \subseteq past.raced

\* Once this run has written the file, a backup holds it as the run found it or
\* as others left it afterwards, before any of the run's own edits (write.go:163).
BackedUpFirst ==
    past.own # {} => \E b \in backups : past.start <= b /\ \A v \in past.own : b < v

\* One backup per run, however often the handle is reopened (handle.go:293).
OneBackupPerRun == past.kept <= 1

VF == INSTANCE VaultFile WITH
    Versions <- Ids,
    content <- [id |-> disk.id, has |-> disk.has],
    older <- {[id |-> b.id, has |-> b.has] : b \in fallback},
    base <- IF h = None THEN {} ELSE h.has,
    busy <- pc \in InFlight,
    raced <- past.raced

\* Every step of Save is a step of the file replaced as a whole, over a version
\* the program holds or one that raced, or changes nothing (write.go:36).
ReplacesAsAWhole == VF!Spec
===============================================================================
