---------------------------- MODULE SaveFileProofs ----------------------------
(* The safety of a save for any number of versions and runs.  Each part of the *)
(* inductive invariant is one idea of Save, proved on its own over the types.   *)
EXTENDS SaveFile, TLAPS

-------------------------------------------------------------------------------
(* Types.                                                                      *)

\* Every variable keeps its type, and a temp file exists only while a step that
\* owns it is next.
LEMMA TypeInit == Init => TypeOK
  BY BoundsAssumption, NoneAssumption
     DEF Init, TypeOK, Bytes, Handle, History, Ids, Steps, HasTemp, InFlight

\* No step of any actor takes the state out of its types.
LEMMA TypeStep == TypeOK /\ [Next]_vars => TypeOK'
  <1> SUFFICES ASSUME TypeOK, [Next]_vars PROVE TypeOK'
    OBVIOUS
  <1> USE BoundsAssumption, NoneAssumption
          DEF TypeOK, Bytes, Handle, History, Ids, Steps, HasTemp, InFlight
  <1>1. CASE Look
    <2>1. past' \in History
      <3>1. CASE pc = "idle" /\ UNCHANGED past
        BY <3>1
      <3>2. CASE pc = "down" /\ past.runs < MaxRuns
        <4>1. past' = [past EXCEPT !.runs = @ + 1, !.start = disk.id, !.own = {}, !.kept = 0]
          BY <1>1, <3>2 DEF Look
        <4>2. past.runs + 1 \in 0..MaxRuns /\ disk.id \in 0..MaxId
          BY <3>2
        <4>3. QED
          BY <4>1, <4>2
      <3>3. QED
        BY <1>1, <3>1, <3>2 DEF Look
    <2>2. QED
      BY <1>1, <2>1 DEF Look
  <1>2. CASE Decode
    <2>1. Opened \in Handle
      BY <1>2 DEF Decode, Opened
    <2>2. QED
      BY <1>2, <2>1 DEF Decode
  <1>3. CASE OpenFails
    BY <1>3 DEF OpenFails, Back
  <1>4. CASE Save \/ Check \/ Verify
    BY <1>4 DEF Save, Check, Verify, Goto
  <1>5. CASE Backup
    <2>1. [disk EXCEPT !.synced = FALSE] \in Bytes
      OBVIOUS
    <2>2. CASE h.backed
      BY <1>5, <2>2 DEF Backup, Goto
    <2>3. CASE ~h.backed
      <3>1. temp' \in Bytes /\ temp' # None /\ pc' = "install"
        BY <1>5, <2>1, <2>3 DEF Backup
      <3>2. QED
        BY <1>5, <2>3, <3>1 DEF Backup
    <2>4. QED
      BY <2>2, <2>3
  <1>6. CASE InstallBackup
    <2>1. temp \in Bytes /\ h \in Handle
      BY <1>6 DEF InstallBackup
    <2>2. [h EXCEPT !.backed = TRUE] \in Handle
      BY <2>1
    <2>3. [past EXCEPT !.kept = @ + 1] \in History
      BY past.kept + 1 \in Nat
    <2>4. h' \in Handle /\ past' \in History
      BY <1>6, <2>2, <2>3 DEF InstallBackup
    <2>5. backups' \subseteq Ids
      BY <1>6, <2>1 DEF InstallBackup
    <2>6. QED
      BY <1>6, <2>1, <2>4, <2>5 DEF InstallBackup
  <1>7. CASE Lock
    <2>1. h' \in Handle /\ h \in Handle
      BY <1>7 DEF Lock
    <2>2. QED
      BY <1>7, <2>1 DEF Lock
  <1>8. CASE Encode
    <2>1. h \in Handle /\ last' \in 0..MaxId
      BY <1>8 DEF Encode
    <2>2. temp' \in Bytes
      BY <1>8, <2>1 DEF Encode
    <2>3. QED
      BY <1>8, <2>1, <2>2 DEF Encode
  <1>9. CASE Sync
    <2>1. temp \in Bytes /\ temp' = [temp EXCEPT !.synced = TRUE]
      BY <1>9 DEF Sync
    <2>2. temp' \in Bytes
      BY <2>1
    <2>3. QED
      BY <1>9, <2>2 DEF Sync
  <1>10. CASE Rename
    <2>1. temp \in Bytes /\ h \in Handle
      BY <1>10 DEF Rename
    <2>2. h' \in Handle
      BY <1>10, <2>1 DEF Rename
    <2>3. past' \in History
      BY <1>10, <2>1 DEF Rename
    <2>4. QED
      BY <1>10, <2>1, <2>2, <2>3 DEF Rename
  <1>11. CASE Flush
    BY <1>11 DEF Flush
  <1>12. CASE Fingerprint
    <2>1. h \in Handle /\ h' \in Handle
      BY <1>12 DEF Fingerprint
    <2>2. QED
      BY <1>12, <2>1 DEF Fingerprint
  <1>13. CASE Unlock \/ UnlockFails
    <2>1. CASE Unlock
      <3>1. h \in Handle /\ h' \in Handle
        BY <2>1 DEF Unlock
      <3>2. QED
        BY <2>1, <3>1 DEF Unlock
    <2>2. CASE UnlockFails
      <3>1. past' \in History
        BY <2>2 DEF UnlockFails
      <3>2. QED
        BY <2>2, <3>1 DEF UnlockFails
    <2>3. QED
      BY <1>13, <2>1, <2>2
  <1>14. CASE StepFails
    BY <1>14 DEF StepFails, Deferred
  <1>15. CASE ForeignWrite
    <2>1. last' \in 0..MaxId
      BY <1>15 DEF ForeignWrite
    <2>2. disk' \in Bytes
      BY <1>15, <2>1 DEF ForeignWrite
    <2>3. past' \in History
      <3>1. CASE pc \in InFlight
        BY <1>15, <2>1, <3>1 DEF ForeignWrite
      <3>2. CASE pc \notin InFlight
        BY <1>15, <2>1, <3>2 DEF ForeignWrite
      <3>3. QED
        BY <3>1, <3>2
    <2>4. QED
      BY <1>15, <2>1, <2>2, <2>3 DEF ForeignWrite
  <1>16. CASE Crash
    BY <1>16 DEF Crash, Stopped
  <1>17. CASE PowerLoss
    BY <1>17 DEF PowerLoss, Stopped
  <1>18. CASE UNCHANGED vars
    BY <1>18 DEF vars
  <1>19. QED
    BY <1>1, <1>2, <1>3, <1>4, <1>5, <1>6, <1>7, <1>8, <1>9, <1>10, <1>11, <1>12,
       <1>13, <1>14, <1>15, <1>16, <1>17, <1>18 DEF Next

\* The types of SaveFile hold in every reachable state.
THEOREM TypeCorrect == Spec => []TypeOK
  BY TypeInit, TypeStep, PTL DEF Spec

-------------------------------------------------------------------------------
(* The file always decodes.                                                    *)

\* What the path names, and what a power loss may bring back in its place, was
\* verified and flushed; a temp file is both by the time it can take its place.
Durable ==
    /\ disk.form # "broken" /\ disk.synced
    /\ \A b \in fallback : b.form # "broken" /\ b.synced
    /\ pc \in {"sync", "rename"} => temp.form # "broken"
    /\ pc = "rename" => temp.synced

\* Durable holds at the start and is kept by every step.
LEMMA DurableInit == Init => Durable
  BY DEF Init, Durable

\* The rename is the only step of harmos that changes the file; it takes a temp
\* file that Verify and Sync have passed.
LEMMA DurableStep == TypeOK /\ Durable /\ [Next]_vars => Durable'
  <1> SUFFICES ASSUME TypeOK, Durable, [Next]_vars PROVE Durable'
    OBVIOUS
  <1> USE DEF Durable
  <1>1. CASE Look \/ Decode \/ OpenFails
    BY <1>1 DEF Look, Decode, OpenFails, Back
  <1>2. CASE Save \/ Check \/ Verify
    BY <1>2 DEF Save, Check, Verify, Goto
  <1>3. CASE Backup \/ InstallBackup \/ Lock \/ Encode
    BY <1>3 DEF Backup, Goto, InstallBackup, Lock, Encode
  <1>4. CASE Sync
    <2>1. temp \in Bytes
      BY <1>4 DEF Sync, TypeOK, HasTemp
    <2>2. temp'.synced /\ temp'.form = temp.form
      BY <1>4, <2>1 DEF Sync, Bytes
    <2>3. QED
      BY <1>4, <2>2 DEF Sync
  <1>5. CASE Rename
    BY <1>5 DEF Rename
  <1>6. CASE Flush \/ Fingerprint \/ Unlock \/ UnlockFails \/ StepFails
    BY <1>6 DEF Flush, Fingerprint, Unlock, UnlockFails, StepFails, Deferred
  <1>7. CASE ForeignWrite
    BY <1>7 DEF ForeignWrite, TypeOK, Bytes
  <1>8. CASE Crash \/ PowerLoss
    BY <1>8 DEF Crash, PowerLoss, Stopped
  <1>9. CASE UNCHANGED vars
    BY <1>9 DEF vars
  <1>10. QED
    BY <1>1, <1>2, <1>3, <1>4, <1>5, <1>6, <1>7, <1>8, <1>9 DEF Next

\* No crash, power loss or bad encode leaves a file that does not decode.
THEOREM TargetAlwaysDecodes == Spec => []TargetDecodes
  <1>1. Durable => TargetDecodes
    BY DEF Durable, TargetDecodes
  <1>2. QED
    BY TypeInit, TypeStep, DurableInit, DurableStep, <1>1, PTL DEF Spec

-------------------------------------------------------------------------------
(* Version numbers.                                                            *)

\* No version anywhere is newer than the counter.
Numbered ==
    /\ disk.id <= last /\ (\A b \in fallback : b.id <= last)
    /\ temp # None => temp.id <= last
    /\ look # None => look.id <= last
    /\ h # None => h.fp <= last
    /\ \A b \in backups : b <= last

\* Everything is version 0 at the start.
LEMMA NumberedInit == Init => Numbered
  BY DEF Init, Numbered

\* Encode and ForeignWrite count up; every other step copies a number.
LEMMA NumberedStep == TypeOK /\ Numbered /\ [Next]_vars => Numbered'
  <1> SUFFICES ASSUME TypeOK, Numbered, [Next]_vars PROVE Numbered'
    OBVIOUS
  <1> USE DEF Numbered, TypeOK, HasTemp
  <1>1. CASE Look
    BY <1>1 DEF Look
  <1>2. CASE Decode
    BY <1>2 DEF Decode, Opened
  <1>3. CASE OpenFails \/ Save \/ Check \/ Verify
    BY <1>3 DEF OpenFails, Back, Save, Check, Verify, Goto
  <1>4. CASE Backup
    BY <1>4 DEF Backup, Goto, Bytes
  <1>5. CASE InstallBackup
    BY <1>5 DEF InstallBackup, Handle
  <1>6. CASE Lock
    BY <1>6 DEF Lock, Handle
  <1>7. CASE Encode
    <2>1. last' = last + 1 /\ temp'.id = last'
      BY <1>7 DEF Encode
    <2>2. /\ last \in Nat /\ disk.id \in Nat /\ (\A b \in fallback : b.id \in Nat)
          /\ (h # None => h.fp \in Nat) /\ (\A b \in backups : b \in Nat)
      BY DEF Bytes, Handle, Ids
    <2>3. look = None
      BY <1>7 DEF Encode
    <2>4. QED
      BY <1>7, <2>1, <2>2, <2>3 DEF Encode
  <1>8. CASE Sync
    BY <1>8 DEF Sync, Bytes
  <1>9. CASE Rename
    BY <1>9 DEF Rename, Handle
  <1>10. CASE Flush \/ StepFails
    BY <1>10 DEF Flush, StepFails, Deferred
  <1>11. CASE Fingerprint \/ Unlock
    BY <1>11 DEF Fingerprint, Unlock, Handle
  <1>12. CASE UnlockFails
    BY <1>12 DEF UnlockFails
  <1>13. CASE ForeignWrite
    BY <1>13 DEF ForeignWrite, Bytes, Handle, Ids
  <1>14. CASE Crash \/ PowerLoss
    BY <1>14 DEF Crash, PowerLoss, Stopped, Bytes
  <1>15. CASE UNCHANGED vars
    BY <1>15 DEF vars
  <1>16. QED
    BY <1>1, <1>2, <1>3, <1>4, <1>5, <1>6, <1>7, <1>8, <1>9, <1>10, <1>11, <1>12,
       <1>13, <1>14, <1>15 DEF Next

-------------------------------------------------------------------------------
(* Nothing of another writer's is lost but what lands inside a save.           *)

\* Every version that is or may become the file, and the handle while it can
\* still take its place, descends from all foreign versions but the raced ones.
Descends ==
    LET Whole(has) == past.foreign \ has \subseteq past.raced IN
    /\ Whole(disk.has)
    /\ \A b \in fallback : Whole(b.has)
    /\ pc \in {"verify", "sync", "rename"} => Whole(temp.has)
    /\ pc \in InFlight => Whole(h.has)
    /\ h # None /\ h.fp = disk.id => Whole(h.has)

\* The first handle and the first file are version 0.
LEMMA DescendsInit == Init => Descends
  BY DEF Init, Descends, InFlight

\* Check lets a save begin only where the handle's fingerprint is the file's, so
\* where the handle descends from all of it; what lands later has raced.
LEMMA DescendsStep == TypeOK /\ Numbered /\ Descends /\ [Next]_vars => Descends'
  <1> SUFFICES ASSUME TypeOK, Numbered, Descends, [Next]_vars PROVE Descends'
    OBVIOUS
  <1> USE DEF Numbered, Descends, TypeOK, InFlight, HasTemp
  <1>1. CASE Look
    <2>1. past'.foreign = past.foreign /\ past'.raced = past.raced
      BY <1>1 DEF Look, History
    <2>2. QED
      BY <1>1, <2>1 DEF Look
  <1>2. CASE Decode
    BY <1>2 DEF Decode, Opened
  <1>3. CASE OpenFails \/ Save \/ Verify
    BY <1>3 DEF OpenFails, Back, Save, Verify, Goto
  <1>4. CASE Check
    BY <1>4 DEF Check, Goto
  <1>5. CASE Backup
    BY <1>5 DEF Backup, Goto, Bytes
  <1>6. CASE InstallBackup
    BY <1>6 DEF InstallBackup, Handle, History
  <1>7. CASE Lock
    BY <1>7 DEF Lock, Handle
  <1>8. CASE Encode
    BY <1>8 DEF Encode
  <1>9. CASE Sync
    BY <1>9 DEF Sync, Bytes
  <1>10. CASE Rename
    BY <1>10 DEF Rename, Handle, History
  <1>11. CASE Flush
    BY <1>11 DEF Flush
  <1>12. CASE Fingerprint
    BY <1>12 DEF Fingerprint, Handle
  <1>13. CASE Unlock
    BY <1>13 DEF Unlock, Handle
  <1>14. CASE UnlockFails
    BY <1>14 DEF UnlockFails, History
  <1>15. CASE StepFails
    BY <1>15 DEF StepFails, Deferred
  <1>16. CASE ForeignWrite
    BY <1>16 DEF ForeignWrite, Bytes, Handle, History, Ids
  <1>17. CASE Crash
    BY <1>17 DEF Crash, Stopped
  <1>18. CASE PowerLoss
    BY <1>18 DEF PowerLoss, Stopped, Bytes
  <1>19. CASE UNCHANGED vars
    BY <1>19 DEF vars
  <1>20. QED
    BY <1>1, <1>2, <1>3, <1>4, <1>5, <1>6, <1>7, <1>8, <1>9, <1>10, <1>11, <1>12,
       <1>13, <1>14, <1>15, <1>16, <1>17, <1>18, <1>19 DEF Next

\* Only a version that landed inside a save is ever missing from the file.
THEOREM ForeignWritesSurvive == Spec => []LostOnlyInFlight
  <1>1. Descends => LostOnlyInFlight
    BY DEF Descends, LostOnlyInFlight
  <1>2. QED
    BY TypeInit, TypeStep, NumberedInit, NumberedStep, DescendsInit, DescendsStep, <1>1, PTL DEF Spec

-------------------------------------------------------------------------------
(* The backup.                                                                 *)

\* Some backup holds the file as it was in this run before the run's own edits.
Kept == \E b \in backups : past.start <= b /\ \A v \in past.own : b < v

\* A run counts one backup exactly where its handle says it has one, no save gets
\* past the backup step without it, and what a save is about to install is newer.
Backed ==
    /\ pc # "down" => past.kept = IF h # None /\ h.backed THEN 1 ELSE 0
    /\ past.kept <= 1
    /\ pc = "install" => ~h.backed /\ past.start <= temp.id
    /\ pc \in {"lock", "encode", "verify", "sync", "rename"} => h.backed
    /\ past.own # {} => Kept
    /\ h # None /\ h.backed => Kept
    /\ pc \in {"verify", "sync", "rename"} => \A b \in backups : b < temp.id
    /\ pc # "down" => past.start <= disk.id

\* No backup has been taken and nothing has been written before the first run.
LEMMA BackedInit == Init => Backed
  BY DEF Init, Backed

\* A Reopen keeps the flag, the first save of a run sets it, and every version
\* written afterwards gets a newer id than the backup.
LEMMA BackedStep == TypeOK /\ TypeOK' /\ Numbered /\ Backed /\ [Next]_vars => Backed'
  <1> SUFFICES ASSUME TypeOK, TypeOK', Numbered, Backed, [Next]_vars PROVE Backed'
    OBVIOUS
  <1> USE DEF Numbered, Backed, TypeOK, InFlight, HasTemp
  <1>0. ASSUME backups' = backups, past'.own = past.own, past'.start = past.start, Kept
        PROVE  Kept'
    BY <1>0 DEF Kept
  <1>1. CASE Look
    <2>1. CASE pc = "idle" /\ UNCHANGED past
      BY <1>0, <1>1, <2>1 DEF Look
    <2>2. CASE pc = "down"
      <3>1. past'.own = {} /\ past'.kept = 0 /\ past'.start = disk.id /\ h = None
        BY <1>1, <2>2 DEF Look, History
      <3>2. disk.id \in Nat
        BY DEF Bytes, Ids
      <3>3. QED
        BY <1>1, <3>1, <3>2 DEF Look
    <2>3. QED
      BY <1>1, <2>1, <2>2 DEF Look
  <1>2. CASE Decode
    <2>1. h' # None /\ (h'.backed <=> h # None /\ h.backed)
      BY <1>2 DEF Decode, Opened
    <2>2. QED
      BY <1>0, <1>2, <2>1 DEF Decode
  <1>3. CASE OpenFails \/ Save \/ Check \/ Verify
    BY <1>0, <1>3 DEF OpenFails, Back, Save, Check, Verify, Goto
  <1>4. CASE Backup
    <2>1. [disk EXCEPT !.synced = FALSE].id = disk.id
      BY DEF Bytes
    <2>2. QED
      BY <1>0, <1>4, <2>1 DEF Backup, Goto
  <1>5. CASE InstallBackup
    <2>1. temp \in Bytes /\ h \in Handle /\ temp.id \in backups'
      BY <1>5 DEF InstallBackup
    <2>2. h'.backed /\ h' # None
      BY <1>5, <2>1, NoneAssumption DEF InstallBackup, Handle
    <2>3. past.kept = 0 /\ past'.kept = 1 /\ past'.own = past.own /\ past'.start = past.start
      BY <1>5, <2>1 DEF InstallBackup, History
    <2>4. Kept'
      <3>1. CASE past.own = {}
        BY <1>5, <2>1, <2>3, <3>1 DEF InstallBackup, Kept
      <3>2. CASE past.own # {}
        BY <1>5, <2>3, <3>2 DEF InstallBackup, Kept
      <3>3. QED
        BY <3>1, <3>2
    <2>5. QED
      BY <1>5, <2>2, <2>3, <2>4 DEF InstallBackup
  <1>6. CASE Lock
    <2>1. h \in Handle /\ h' \in Handle /\ h'.backed = h.backed
      BY <1>6 DEF Lock, Handle
    <2>2. QED
      BY <1>0, <1>6, <2>1, NoneAssumption DEF Lock
  <1>7. CASE Encode
    <2>1. last' = last + 1 /\ temp'.id = last + 1
      BY <1>7 DEF Encode
    <2>2. last \in Nat /\ \A b \in backups : b \in Nat /\ b < last + 1
      <3>1. last \in Nat /\ \A b \in backups : b \in Nat /\ b <= last
        BY BoundsAssumption DEF Ids
      <3>2. QED
        BY <3>1
    <2>3. QED
      BY <1>0, <1>7, <2>1, <2>2 DEF Encode
  <1>8. CASE Sync
    <2>1. temp'.id = temp.id
      BY <1>8 DEF Sync, Bytes
    <2>2. QED
      BY <1>0, <1>8, <2>1 DEF Sync
  <1>9. CASE Rename
    <2>1. h \in Handle /\ h' \in Handle /\ h'.backed = h.backed /\ h.backed
      <3>1. h \in Handle /\ h' \in Handle /\ h.backed
        BY <1>9 DEF Rename
      <3>2. h'.backed = h.backed
        BY <1>9, <3>1 DEF Rename, Handle
      <3>3. QED
        BY <3>1, <3>2
    <2>2. /\ past'.own = past.own \cup {temp.id} /\ past'.start = past.start
          /\ past'.kept = past.kept
      BY <1>9 DEF Rename, History
    <2>3. PICK b \in backups : past.start <= b /\ \A v \in past.own : b < v
      BY <1>9, <2>1, NoneAssumption DEF Rename, Kept
    <2>4. b < temp.id
      BY <1>9 DEF Rename
    <2>5. Kept'
      BY <1>9, <2>2, <2>3, <2>4 DEF Rename, Kept
    <2>6. b \in Nat /\ temp.id \in Nat /\ past.start \in Nat
      BY <1>9 DEF Rename, Bytes, History, Ids
    <2>7. past.start <= temp.id
      BY <2>3, <2>4, <2>6
    <2>8. QED
      BY <1>9, <2>1, <2>2, <2>5, <2>7, NoneAssumption DEF Rename
  <1>10. CASE Flush \/ StepFails
    BY <1>0, <1>10 DEF Flush, StepFails, Deferred
  <1>11. CASE Fingerprint \/ Unlock
    <2>1. h \in Handle /\ h' \in Handle /\ h'.backed = h.backed
      <3>1. h \in Handle /\ h' \in Handle
        BY <1>11 DEF Fingerprint, Unlock
      <3>2. h'.backed = h.backed
        BY <1>11, <3>1 DEF Fingerprint, Unlock, Handle
      <3>3. QED
        BY <3>1, <3>2
    <2>2. QED
      BY <1>0, <1>11, <2>1, NoneAssumption DEF Fingerprint, Unlock
  <1>12. CASE UnlockFails
    <2>1. past'.own = past.own /\ past'.start = past.start /\ past'.kept = past.kept
      BY <1>12 DEF UnlockFails, History
    <2>2. QED
      BY <1>0, <1>12, <2>1 DEF UnlockFails
  <1>13. CASE ForeignWrite
    <2>1. past'.own = past.own /\ past'.start = past.start /\ past'.kept = past.kept
      BY <1>13 DEF ForeignWrite, History
    <2>2. disk'.id = last + 1 /\ disk.id \in Nat /\ past.start \in Nat /\ last \in Nat
      BY <1>13 DEF ForeignWrite, Bytes, History, Ids
    <2>3. QED
      BY <1>0, <1>13, <2>1, <2>2 DEF ForeignWrite
  <1>14. CASE Crash \/ PowerLoss
    BY <1>0, <1>14 DEF Crash, PowerLoss, Stopped
  <1>15. CASE UNCHANGED vars
    BY <1>0, <1>15 DEF vars
  <1>16. QED
    BY <1>1, <1>2, <1>3, <1>4, <1>5, <1>6, <1>7, <1>8, <1>9, <1>10, <1>11, <1>12,
       <1>13, <1>14, <1>15 DEF Next

\* The file as it stood before a run's own edits is never lost to them.
THEOREM BackupComesFirst == Spec => []BackedUpFirst
  <1>1. Backed => BackedUpFirst
    BY DEF Backed, Kept, BackedUpFirst
  <1>2. QED
    BY TypeInit, TypeStep, NumberedInit, NumberedStep, BackedInit, BackedStep, <1>1, PTL DEF Spec

\* However often the handle is reopened, a run takes one backup at the most.
THEOREM AtMostOneBackup == Spec => []OneBackupPerRun
  <1>1. Backed => OneBackupPerRun
    BY DEF Backed, OneBackupPerRun
  <1>2. QED
    BY TypeInit, TypeStep, NumberedInit, NumberedStep, BackedInit, BackedStep, <1>1, PTL DEF Spec

-------------------------------------------------------------------------------
(* The locking discipline of the protected values.                             *)

\* Values are locked from Lock to the deferred unlock and never twice, so no
\* bytes hold garbled ones, as long as no unlock has failed.
Disciplined ==
    \/ past.unlockFailed
    \/ /\ disk.form # "garbled" /\ \A b \in fallback : b.form # "garbled"
       /\ temp # None => temp.form # "garbled"
       /\ h # None => h.values # "garbled"
       /\ h # None /\ h.values = "locked" =>
             pc \in {"encode", "verify", "sync", "rename", "flush", "fingerprint", "unlock"}

\* Nothing is locked at the start.
LEMMA DisciplinedInit == Init => Disciplined
  BY DEF Init, Disciplined

\* Every way out of a save passes the deferred unlock.
LEMMA DisciplinedStep == TypeOK /\ Disciplined /\ [Next]_vars => Disciplined'
  <1> SUFFICES ASSUME TypeOK, Disciplined, [Next]_vars PROVE Disciplined'
    OBVIOUS
  <1> USE DEF Disciplined, TypeOK, HasTemp
  <1>1. CASE Look
    BY <1>1 DEF Look, History
  <1>2. CASE Decode
    BY <1>2 DEF Decode, Opened
  <1>3. CASE OpenFails \/ Save \/ Check \/ Verify
    BY <1>3 DEF OpenFails, Back, Save, Check, Verify, Goto
  <1>4. CASE Backup
    BY <1>4 DEF Backup, Goto, Bytes
  <1>5. CASE InstallBackup
    BY <1>5 DEF InstallBackup, Handle, History
  <1>6. CASE Lock
    BY <1>6 DEF Lock, Handle
  <1>7. CASE Encode
    BY <1>7 DEF Encode
  <1>8. CASE Sync
    BY <1>8 DEF Sync, Bytes
  <1>9. CASE Rename
    BY <1>9 DEF Rename, Handle, History
  <1>10. CASE Flush \/ StepFails
    BY <1>10 DEF Flush, StepFails, Deferred
  <1>11. CASE Fingerprint \/ Unlock
    BY <1>11 DEF Fingerprint, Unlock, Handle
  <1>12. CASE UnlockFails
    BY <1>12 DEF UnlockFails, History
  <1>13. CASE ForeignWrite
    BY <1>13 DEF ForeignWrite, History, Bytes
  <1>14. CASE Crash
    BY <1>14 DEF Crash, Stopped
  <1>15. CASE PowerLoss
    BY <1>15 DEF PowerLoss, Stopped, Bytes
  <1>16. CASE UNCHANGED vars
    BY <1>16 DEF vars
  <1>17. QED
    BY <1>1, <1>2, <1>3, <1>4, <1>5, <1>6, <1>7, <1>8, <1>9, <1>10, <1>11, <1>12,
       <1>13, <1>14, <1>15, <1>16 DEF Next

\* However many saves fail, the values on disk read back.
THEOREM ValuesStayReadable == Spec => []ValuesReadable
  <1>1. Disciplined => ValuesReadable
    BY DEF Disciplined, ValuesReadable
  <1>2. QED
    BY TypeInit, TypeStep, DisciplinedInit, DisciplinedStep, <1>1, PTL DEF Spec

-------------------------------------------------------------------------------
(* Save implements the replacement of the whole file.                          *)

\* What is written descends from what the handle read and is new; a fingerprint
\* the handle holds is of a version it descends from, or of one that raced.
Lineage ==
    /\ disk.id \in disk.has /\ disk.has \subseteq 0..last
    /\ \A b \in fallback : b.id \in b.has /\ b.has \subseteq 0..last
    /\ h # None => h.has \subseteq 0..last /\ h.fp \in h.has \cup past.raced
    /\ look # None => look.id \in disk.has
    /\ pc \in {"verify", "sync", "rename"} =>
          temp.has = h.has \cup {temp.id} /\ temp.id \in 0..last /\ temp.id \notin disk.has
    /\ pc \in {"flush", "fingerprint"} => disk.id \in h.has \cup past.raced

\* The first version descends from itself.
LEMMA LineageInit == Init => Lineage
  BY DEF Init, Lineage

\* New versions take the next number; a fingerprint is taken of a version that
\* is read in the same breath, was just written, or landed in between.
LEMMA LineageStep == TypeOK /\ TypeOK' /\ Numbered /\ Lineage /\ [Next]_vars => Lineage'
  <1> SUFFICES ASSUME TypeOK, TypeOK', Numbered, Lineage, [Next]_vars PROVE Lineage'
    OBVIOUS
  <1> USE DEF Lineage, TypeOK, InFlight, HasTemp
  <1>0. last \in Nat
    BY BoundsAssumption DEF Ids
  <1>1. CASE Look
    <2>1. past'.raced = past.raced
      BY <1>1 DEF Look, History
    <2>2. QED
      BY <1>1, <2>1 DEF Look
  <1>2. CASE Decode
    BY <1>2 DEF Decode, Opened
  <1>3. CASE OpenFails \/ Save \/ Check \/ Verify
    BY <1>3 DEF OpenFails, Back, Save, Check, Verify, Goto
  <1>4. CASE Backup
    BY <1>4 DEF Backup, Goto
  <1>5. CASE InstallBackup
    <2>1. past'.raced = past.raced /\ h'.fp = h.fp /\ h'.has = h.has
      BY <1>5 DEF InstallBackup, History, Handle
    <2>2. QED
      BY <1>5, <2>1 DEF InstallBackup
  <1>6. CASE Lock
    <2>1. h'.fp = h.fp /\ h'.has = h.has
      BY <1>6 DEF Lock, Handle
    <2>2. QED
      BY <1>6, <2>1 DEF Lock
  <1>7. CASE Encode
    <2>1. last' = last + 1 /\ temp'.id = last + 1 /\ temp'.has = h.has \cup {last + 1}
      BY <1>7 DEF Encode
    <2>2. last + 1 \notin disk.has /\ last + 1 \in 0..last' /\ 0..last \subseteq 0..last'
      BY <1>0, <2>1
    <2>3. QED
      BY <1>7, <2>1, <2>2 DEF Encode
  <1>8. CASE Sync
    <2>1. temp'.id = temp.id /\ temp'.has = temp.has
      BY <1>8 DEF Sync, Bytes
    <2>2. QED
      BY <1>8, <2>1 DEF Sync
  <1>9. CASE Rename
    <2>1. h'.fp = h.fp /\ h'.has = temp.has /\ past'.raced = past.raced
      BY <1>9 DEF Rename, Handle, History
    <2>2. temp.has \subseteq 0..last /\ temp.id \in temp.has /\ h.has \subseteq temp.has
      BY <1>9 DEF Rename
    <2>3. QED
      BY <1>9, <2>1, <2>2 DEF Rename
  <1>10. CASE Flush \/ StepFails
    BY <1>10 DEF Flush, StepFails, Deferred
  <1>11. CASE Fingerprint
    <2>1. h'.fp = disk.id /\ h'.has = h.has
      BY <1>11 DEF Fingerprint, Handle
    <2>2. QED
      BY <1>11, <2>1 DEF Fingerprint
  <1>12. CASE Unlock
    <2>1. h'.fp = h.fp /\ h'.has = h.has
      BY <1>12 DEF Unlock, Handle
    <2>2. QED
      BY <1>12, <2>1 DEF Unlock
  <1>13. CASE UnlockFails
    <2>1. past'.raced = past.raced
      BY <1>13 DEF UnlockFails, History
    <2>2. QED
      BY <1>13, <2>1 DEF UnlockFails
  <1>14. CASE ForeignWrite
    <2>1. last' = last + 1 /\ disk'.id = last + 1 /\ disk'.has = disk.has \cup {last + 1}
      BY <1>14 DEF ForeignWrite, Bytes
    <2>2. past'.raced = IF pc \in InFlight THEN past.raced \cup {last + 1} ELSE past.raced
      BY <1>14, <2>1 DEF ForeignWrite, History
    <2>3. last + 1 \in 0..last' /\ 0..last \subseteq 0..last' /\ last + 1 \notin 0..last
      BY <1>0, <2>1
    <2>4. QED
      BY <1>14, <2>1, <2>2, <2>3 DEF ForeignWrite
  <1>15. CASE Crash \/ PowerLoss
    BY <1>15 DEF Crash, PowerLoss, Stopped, Bytes
  <1>16. CASE UNCHANGED vars
    BY <1>16 DEF vars
  <1>17. QED
    BY <1>1, <1>2, <1>3, <1>4, <1>5, <1>6, <1>7, <1>8, <1>9, <1>10, <1>11, <1>12,
       <1>13, <1>14, <1>15, <1>16 DEF Next

\* The first version, nothing held, nothing in flight.
LEMMA RefinesInit == Init => VF!Init
  BY DEF Init, VF!Init, InFlight

\* Check is Begin, Rename is Replace, Decode is Read, the directory flush is
\* Settle, and what ends the window is End; every other step of Save stutters.
LEMMA RefinesStep ==
    TypeOK /\ TypeOK' /\ Lineage /\ [Next]_vars => [VF!Next]_VF!vars
  <1> SUFFICES ASSUME TypeOK, TypeOK', Lineage, [Next]_vars PROVE [VF!Next]_VF!vars
    OBVIOUS
  <1> USE DEF TypeOK, InFlight, HasTemp
  <1>1. CASE Look
    <2>1. past'.raced = past.raced
      BY <1>1 DEF Look, History
    <2>2. UNCHANGED VF!vars
      BY <1>1, <2>1 DEF Look, VF!vars
    <2>3. QED
      BY <2>2
  <1>2. CASE Decode
    <2>1. VF!Read
      BY <1>2 DEF Decode, Opened, VF!Read
    <2>2. QED
      BY <2>1 DEF VF!Next
  <1>3. CASE OpenFails \/ Save \/ Verify
    <2>1. UNCHANGED VF!vars
      BY <1>3 DEF OpenFails, Back, Save, Verify, Goto, VF!vars
    <2>2. QED
      BY <2>1
  <1>4. CASE Check
    <2>1. CASE disk.id = h.fp
      <3>1. VF!Begin
        BY <1>4, <2>1 DEF Check, Goto, Lineage, VF!Begin
      <3>2. QED
        BY <3>1 DEF VF!Next
    <2>2. CASE disk.id # h.fp
      <3>1. UNCHANGED VF!vars
        BY <1>4, <2>2 DEF Check, Goto, VF!vars
      <3>2. QED
        BY <3>1
    <2>3. QED
      BY <2>1, <2>2
  <1>5. CASE Backup
    <2>1. UNCHANGED VF!vars
      BY <1>5 DEF Backup, Goto, VF!vars
    <2>2. QED
      BY <2>1
  <1>6. CASE InstallBackup
    <2>1. past'.raced = past.raced /\ h # None /\ h' # None /\ h'.has = h.has
      BY <1>6 DEF InstallBackup, History, Handle
    <2>2. UNCHANGED VF!vars
      BY <1>6, <2>1 DEF InstallBackup, VF!vars
    <2>3. QED
      BY <2>2
  <1>7. CASE Lock \/ Unlock
    <2>1. h # None /\ h' # None /\ h'.has = h.has
      BY <1>7 DEF Lock, Unlock, Handle
    <2>2. UNCHANGED VF!vars
      BY <1>7, <2>1 DEF Lock, Unlock, VF!vars
    <2>3. QED
      BY <2>2
  <1>8. CASE Encode \/ Sync
    <2>1. UNCHANGED VF!vars
      BY <1>8 DEF Encode, Sync, VF!vars
    <2>2. QED
      BY <2>1
  <1>9. CASE Rename
    <2>1. h # None /\ h' # None /\ h'.has = temp.has /\ past'.raced = past.raced
      BY <1>9 DEF Rename, Handle, History
    <2>2. temp.id \in Ids \ disk.has /\ temp.has = h.has \cup {temp.id}
      BY <1>9 DEF Rename, Lineage, Bytes
    <2>3. {[id |-> b.id, has |-> b.has] : b \in fallback'}
             = {[id |-> b.id, has |-> b.has] : b \in fallback} \cup {[id |-> disk.id, has |-> disk.has]}
      BY <1>9 DEF Rename
    <2>4. pc \in InFlight /\ pc' \in InFlight
      BY <1>9 DEF Rename
    <2>5. disk'.id = temp.id /\ disk'.has = h.has \cup {temp.id}
             /\ h'.has = h.has \cup {temp.id}
      BY <1>9, <2>1, <2>2 DEF Rename
    <2>6. \E v \in Ids \ [id |-> disk.id, has |-> disk.has].has :
             /\ [id |-> disk'.id, has |-> disk'.has]
                  = [id |-> v, has |-> (IF h = None THEN {} ELSE h.has) \cup {v}]
             /\ (IF h' = None THEN {} ELSE h'.has) = (IF h = None THEN {} ELSE h.has) \cup {v}
      <3>1. temp.id \in Ids \ [id |-> disk.id, has |-> disk.has].has
        BY <2>2
      <3> WITNESS temp.id \in Ids \ [id |-> disk.id, has |-> disk.has].has
      <3>2. QED
        BY <2>1, <2>5
    <2>7. VF!Replace
      BY <2>1, <2>3, <2>4, <2>6 DEF VF!Replace
    <2>8. QED
      BY <2>7 DEF VF!Next
  <1>10. CASE Flush
    <2>1. CASE fallback' = fallback
      <3>1. UNCHANGED VF!vars
        BY <1>10, <2>1 DEF Flush, VF!vars
      <3>2. QED
        BY <3>1
    <2>2. CASE fallback' = {}
      <3>1. VF!Settle
        BY <1>10, <2>2 DEF Flush, VF!Settle
      <3>2. QED
        BY <3>1 DEF VF!Next
    <2>3. QED
      BY <1>10, <2>1, <2>2 DEF Flush
  <1>11. CASE Fingerprint
    <2>1. h # None /\ h' # None /\ h'.has = h.has
      BY <1>11 DEF Fingerprint, Handle
    <2>2. VF!End
      BY <1>11, <2>1 DEF Fingerprint, VF!End
    <2>3. QED
      BY <2>2 DEF VF!Next
  <1>12. CASE UnlockFails
    <2>1. past'.raced = past.raced
      BY <1>12 DEF UnlockFails, History
    <2>2. UNCHANGED VF!vars
      BY <1>12, <2>1 DEF UnlockFails, VF!vars
    <2>3. QED
      BY <2>2
  <1>13. CASE StepFails
    <2>1. CASE pc = "check"
      <3>1. UNCHANGED VF!vars
        BY <1>13, <2>1 DEF StepFails, Deferred, VF!vars
      <3>2. QED
        BY <3>1
    <2>2. CASE pc # "check"
      <3>1. VF!End
        BY <1>13, <2>2 DEF StepFails, Deferred, VF!End
      <3>2. QED
        BY <3>1 DEF VF!Next
    <2>3. QED
      BY <2>1, <2>2
  <1>14. CASE ForeignWrite
    <2>1. disk'.id = last' /\ disk'.has = disk.has \cup {last'}
      BY <1>14 DEF ForeignWrite, Bytes
    <2>2. past'.raced = IF pc \in InFlight THEN past.raced \cup {last'} ELSE past.raced
      BY <1>14 DEF ForeignWrite, History
    <2>3. last' \in Ids \ disk.has
      BY <1>14, BoundsAssumption DEF ForeignWrite, Lineage, Ids
    <2>4. fallback' = {} /\ h' = h /\ pc' = pc
      BY <1>14 DEF ForeignWrite
    <2>5. VF!Foreign
      BY <2>1, <2>2, <2>3, <2>4 DEF VF!Foreign
    <2>6. QED
      BY <2>5 DEF VF!Next
  <1>15. CASE Crash
    <2>1. VF!Stop
      BY <1>15 DEF Crash, Stopped, VF!Stop
    <2>2. QED
      BY <2>1 DEF VF!Next
  <1>16. CASE PowerLoss
    <2>1. PICK b \in fallback \cup {disk} :
             disk' = IF b.synced THEN b ELSE [b EXCEPT !.form = "broken"]
      BY <1>16 DEF PowerLoss
    <2>2. disk'.id = b.id /\ disk'.has = b.has
      BY <2>1 DEF Bytes
    <2>3. fallback' = {} /\ h' = None /\ pc' = "down" /\ past' = past
      BY <1>16 DEF PowerLoss, Stopped
    <2>4. VF!PowerLoss
      BY <2>2, <2>3 DEF VF!PowerLoss
    <2>5. QED
      BY <2>4 DEF VF!Next
  <1>17. CASE UNCHANGED vars
    BY <1>17 DEF vars, VF!vars
  <1>18. QED
    BY <1>1, <1>2, <1>3, <1>4, <1>5, <1>6, <1>7, <1>8, <1>9, <1>10, <1>11, <1>12,
       <1>13, <1>14, <1>15, <1>16, <1>17 DEF Next

\* Between any two moments the file is one whole version, and harmos replaces
\* only one it holds or one that raced with a save.
THEOREM SaveImplementsReplacement == Spec => ReplacesAsAWhole
  <1>1. Spec => VF!Spec
    BY TypeInit, TypeStep, NumberedInit, NumberedStep, LineageInit, LineageStep,
       RefinesInit, RefinesStep, PTL DEF Spec, VF!Spec
  <1>2. QED
    BY <1>1 DEF ReplacesAsAWhole
===============================================================================
