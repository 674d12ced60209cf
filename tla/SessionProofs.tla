---------------------------- MODULE SessionProofs ----------------------------
(* What holds of the clipboard, of unlocking and of a sync, whatever the number  *)
(* of processes, secrets, sources, syncs and reports.  The three share the        *)
(* program's life and nothing else, so each has an invariant of its own, kept by  *)
(* its own steps; the last section puts them together for Session.  What must     *)
(* come about in the end (SecretsLeave, RightAnswersOpen, SyncEnds) is left to    *)
(* model checking.                                                               *)
EXTENDS Session, SetLemmas, SequenceTheorems, TLAPS

-------------------------------------------------------------------------------
(* The clipboard.                                                              *)

\* The mutex: a call that has read the clipboard belongs to a process that is not
\* copying; and as long as nobody wrote since, what it read is a secret.
ClipOK ==
    /\ \A c \in Clis :
         /\ holder[c] \in {"none", "cli"}
         /\ holder[c] # "none" => cli[c] \in {"clearing", "gone"}
    /\ holder[Tui] \in {"none", "expiry", "quit"}
    /\ leaving = "no" => clears["quit"] = 0 /\ holder[Tui] # "quit"
    /\ \A p \in Procs : holder[p] # "none" =>
          IF p \in clipPast.crossed THEN clipPast.source # p ELSE board \in Secrets

ClipInv == ClipTypeOK /\ ClipOK

ClipCopies ==
    \/ \E v \in Secrets : CopyString(v)
    \/ CopyGetCommand
    \/ \E c \in Clis, v \in Secrets : CopyConcealed(c, v)
    \/ ForeignCopy

ClipClears ==
    \E p \in Procs : ClearRead(p) \/ ClearReadFails(p) \/ ClearWrite(p) \/ ClearWriteFails(p)

ClipRest ==
    \/ Tick \/ Quit \/ QuitMsg \/ Killed
    \/ \E c \in Clis : TimeoutOrInterrupt(c) \/ CliKilled(c)

LEMMA ClipInitHolds == ClipInit => ClipInv
  BY ClipboardAssumption
     DEF ClipInit, ClipInv, ClipTypeOK, ClipOK, ClipHistory, Values, Procs, Purposes, Tui, Empty,
         Nothing, Foreign

\* A write by a process that holds no call crosses every call that is held, and
\* is never the write of a process whose call is crossed.
LEMMA WroteHolds ==
  ASSUME ClipInv, NEW who \in Procs \cup {Foreign}, Wrote(who), UNCHANGED <<holder, leaving>>,
         who \in Procs => holder[who] = "none"
  PROVE  /\ clipPast' \in ClipHistory
         /\ \A p \in Procs : holder'[p] # "none" =>
               p \in clipPast'.crossed /\ clipPast'.source # p
  <1> USE DEF ClipInv
  <1> DEFINE held == {p \in Procs : holder[p] # "none"}
             excuse == clipPast.excuse \cup IF who = Tui /\ leaving = "quit" THEN {"quitting"} ELSE {}
  <1>1. clipPast' = [clipPast EXCEPT !.source = who, !.crossed = held, !.excuse = excuse]
    BY DEF Wrote
  <1>2. held \subseteq Procs /\ excuse \subseteq {"failed", "killed", "quitting"}
    BY DEF ClipTypeOK, ClipHistory
  <1>3. \A p \in held : p # who
    BY ClipboardAssumption DEF Procs
  <1>4. held = {p \in Procs : holder'[p] # "none"}
    OBVIOUS
  <1> HIDE DEF held, excuse
  <1>5. clipPast' \in ClipHistory /\ clipPast'.source = who /\ clipPast'.crossed = held
    BY <1>1, <1>2 DEF ClipTypeOK, ClipHistory
  <1>6. QED
    BY <1>3, <1>4, <1>5

LEMMA ClipCopiesHold ==
  ASSUME ClipInv, ClipCopies
  PROVE  ClipInv'
  <1> USE DEF ClipInv
  <1>0. Tui \in Procs /\ Tui \notin Clis /\ Clis \subseteq Procs
    BY ClipboardAssumption DEF Procs
  <1>1. CASE \E v \in Secrets : CopyString(v)
    <2>1. PICK v \in Secrets : CopyString(v)
      BY <1>1
    <2>2. UNCHANGED <<up, clears, holder, leaving, cli>> /\ holder[Tui] = "none" /\ Wrote(Tui)
          /\ board' = v /\ last' = [last EXCEPT ![Tui] = v] /\ remaining' = Timeout
          /\ ticks' \in {ticks, ticks + 1}
      BY <2>1 DEF CopyString
    <2>3. /\ clipPast' \in ClipHistory
          /\ \A p \in Procs : holder'[p] # "none" =>
               p \in clipPast'.crossed /\ clipPast'.source # p
      BY <1>0, <2>2, WroteHolds
    <2>4. ClipTypeOK'
      BY <1>0, <2>2, <2>3, ClipboardAssumption DEF ClipTypeOK, Values
    <2>5. ClipOK'
      BY <2>2, <2>3 DEF ClipOK
    <2>6. QED
      BY <2>4, <2>5
  <1>2. CASE CopyGetCommand
    <2>1. UNCHANGED <<up, ticks, clears, holder, leaving, cli>> /\ holder[Tui] = "none" /\ Wrote(Tui)
          /\ board' = Command /\ last' = [last EXCEPT ![Tui] = Nothing] /\ remaining' = 0
      BY <1>2 DEF CopyGetCommand
    <2>2. /\ clipPast' \in ClipHistory
          /\ \A p \in Procs : holder'[p] # "none" =>
               p \in clipPast'.crossed /\ clipPast'.source # p
      BY <1>0, <2>1, WroteHolds
    <2>3. ClipTypeOK'
      BY <1>0, <2>1, <2>2, ClipboardAssumption DEF ClipTypeOK, Values
    <2>4. ClipOK'
      BY <2>1, <2>2 DEF ClipOK
    <2>5. QED
      BY <2>3, <2>4
  <1>3. CASE \E c \in Clis, v \in Secrets : CopyConcealed(c, v)
    <2>1. PICK c \in Clis, v \in Secrets : CopyConcealed(c, v)
      BY <1>3
    <2>2. UNCHANGED <<up, remaining, ticks, clears, holder, leaving>> /\ cli[c] = "idle" /\ Wrote(c)
          /\ board' = v /\ last' = [last EXCEPT ![c] = v] /\ cli' = [cli EXCEPT ![c] = "waiting"]
      BY <2>1 DEF CopyConcealed
    <2>3. holder[c] = "none"
      BY <2>2 DEF ClipOK
    <2>4. /\ clipPast' \in ClipHistory
          /\ \A p \in Procs : holder'[p] # "none" =>
               p \in clipPast'.crossed /\ clipPast'.source # p
      BY <1>0, <2>2, <2>3, WroteHolds
    <2>5. ClipTypeOK'
      BY <1>0, <2>2, <2>4 DEF ClipTypeOK, Values
    <2>6. ClipOK'
      BY <2>2, <2>3, <2>4 DEF ClipOK, ClipTypeOK
    <2>7. QED
      BY <2>5, <2>6
  <1>4. CASE ForeignCopy
    <2>1. UNCHANGED <<up, last, remaining, ticks, clears, holder, leaving, cli>> /\ Wrote(Foreign)
          /\ board' = Foreign
      BY <1>4 DEF ForeignCopy
    <2>2. Foreign \notin Procs
      BY ClipboardAssumption DEF Procs, Tui, Foreign
    <2>3. /\ clipPast' \in ClipHistory
          /\ \A p \in Procs : holder'[p] # "none" =>
               p \in clipPast'.crossed /\ clipPast'.source # p
      BY <2>1, <2>2, WroteHolds
    <2>4. ClipTypeOK'
      BY <2>1, <2>3 DEF ClipTypeOK, Values
    <2>5. ClipOK'
      BY <2>1, <2>3 DEF ClipOK
    <2>6. QED
      BY <2>4, <2>5
  <1>5. QED
    BY <1>1, <1>2, <1>3, <1>4 DEF ClipCopies

\* A call that returns lets go of the mutex, and quitting goes on after its clear.
LEMMA ReturnedHolds ==
  ASSUME ClipInv, NEW p \in Procs, NEW w \in Purposes, Returned(p, w),
         p = Tui <=> w # "cli"
  PROVE  /\ leaving' = (IF w = "quit" THEN "quit" ELSE leaving)
         /\ cli' \in [Clis -> {"idle", "waiting", "clearing", "gone"}]
         /\ \A c \in Clis : cli'[c] = IF c = p THEN "gone" ELSE cli[c]
  BY ClipboardAssumption DEF ClipInv, ClipTypeOK, Returned, Procs

\* The calls a process may have waiting, and the one it may hold.
LEMMA CallsOf ==
  ASSUME ClipInv, NEW p \in Procs
  PROVE  /\ Waiting(p) \subseteq Purposes
         /\ \A w \in Waiting(p) : (p = Tui <=> w # "cli") /\ (p = Tui => clears[w] > 0)
         /\ holder[p] # "none" => holder[p] \in Purposes /\ (p = Tui <=> holder[p] # "cli")
         /\ p # Tui => p \in Clis
  BY ClipboardAssumption DEF ClipInv, ClipTypeOK, ClipOK, Waiting, Procs, Purposes

LEMMA ClipClearsHold ==
  ASSUME ClipInv, ClipClears
  PROVE  ClipInv'
  <1> USE DEF ClipInv
  <1>0. Tui \in Procs /\ Tui \notin Clis /\ Clis \subseteq Procs
    BY ClipboardAssumption DEF Procs
  <1>1. PICK p \in Procs : ClearRead(p) \/ ClearReadFails(p) \/ ClearWrite(p) \/ ClearWriteFails(p)
    BY DEF ClipClears
  <1>2. p # Tui /\ Alive(p) => p \in Clis /\ cli[p] = "clearing"
    BY DEF Alive, Procs
  <1>3. ASSUME NEW w \in Waiting(p), holder[p] = "none",
               clears' = IF p = Tui THEN [clears EXCEPT ![w] = @ - 1] ELSE clears
        PROVE  /\ w \in Purposes /\ (p = Tui <=> w # "cli")
               /\ clears' \in [{"expiry", "quit"} -> Nat]
               /\ clears'["quit"] = IF w = "quit" THEN clears["quit"] - 1 ELSE clears["quit"]
               /\ w = "quit" => leaving # "no" /\ p = Tui
    BY <1>0, <1>3, CallsOf DEF ClipTypeOK, ClipOK, Purposes, Waiting
  <1>4. CASE ClearRead(p)
    <2>1. PICK w \in Waiting(p) :
          /\ clears' = IF p = Tui THEN [clears EXCEPT ![w] = @ - 1] ELSE clears
          /\ last' = [last EXCEPT ![p] = Nothing]
          /\ IF last[p] # Nothing /\ board = last[p]
             THEN /\ holder' = [holder EXCEPT ![p] = w]
                  /\ clipPast' = [clipPast EXCEPT !.crossed = @ \ {p}]
                  /\ UNCHANGED <<leaving, cli>>
             ELSE Returned(p, w) /\ UNCHANGED <<holder, clipPast>>
      BY <1>4 DEF ClearRead
    <2>2. /\ UNCHANGED <<up, board, remaining, ticks>> /\ Alive(p) /\ holder[p] = "none"
      BY <1>4 DEF ClearRead
    <2>3. last' \in [Procs -> Secrets \cup {Nothing}]
      BY <2>1 DEF ClipTypeOK
    <2>4. CASE last[p] # Nothing /\ board = last[p]
      <3>1. /\ holder' = [holder EXCEPT ![p] = w] /\ UNCHANGED <<leaving, cli>>
            /\ clipPast' = [clipPast EXCEPT !.crossed = @ \ {p}] /\ board \in Secrets
        BY <2>1, <2>4 DEF ClipTypeOK
      <3>2. clipPast' \in ClipHistory /\ clipPast'.crossed = clipPast.crossed \ {p}
            /\ clipPast'.source = clipPast.source
        BY <3>1 DEF ClipTypeOK, ClipHistory
      <3>3. holder' \in [Procs -> Purposes \cup {"none"}] /\ holder'[p] = w
            /\ \A q \in Procs \ {p} : holder'[q] = holder[q]
        BY <1>3, <2>1, <2>2, <3>1 DEF ClipTypeOK
      <3>4. leaving = "clear" => clears'["quit"] = 1 \/ holder'[Tui] = "quit"
        BY <1>0, <1>3, <2>1, <2>2, <3>3 DEF ClipTypeOK
      <3>5. ClipTypeOK'
        BY <1>3, <2>1, <2>2, <2>3, <3>1, <3>2, <3>3, <3>4 DEF ClipTypeOK
      <3>6. \A c \in Clis : /\ holder'[c] \in {"none", "cli"}
                            /\ holder'[c] # "none" => cli'[c] \in {"clearing", "gone"}
        BY <1>0, <1>2, <1>3, <2>1, <2>2, <3>1, <3>3 DEF ClipOK, Purposes
      <3>7. holder'[Tui] \in {"none", "expiry", "quit"}
        BY <1>0, <1>3, <2>1, <2>2, <3>3 DEF ClipOK, Purposes
      <3>8. leaving = "no" => clears'["quit"] = 0 /\ holder'[Tui] # "quit"
        BY <1>0, <1>3, <2>1, <2>2, <3>3 DEF ClipOK
      <3>9. ASSUME NEW q \in Procs, holder'[q] # "none"
            PROVE  IF q \in clipPast'.crossed THEN clipPast'.source # q ELSE board' \in Secrets
        BY <2>2, <3>1, <3>2, <3>3, <3>9 DEF ClipOK
      <3>10. ClipOK'
        BY <3>1, <3>6, <3>7, <3>8, <3>9 DEF ClipOK
      <3>11. QED
        BY <3>5, <3>10
    <2>5. CASE ~(last[p] # Nothing /\ board = last[p])
      <3>1. Returned(p, w) /\ UNCHANGED <<holder, clipPast>>
        BY <2>1, <2>5
      <3>2. /\ leaving' = (IF w = "quit" THEN "quit" ELSE leaving)
            /\ cli' \in [Clis -> {"idle", "waiting", "clearing", "gone"}]
            /\ \A c \in Clis : cli'[c] = IF c = p THEN "gone" ELSE cli[c]
        BY <1>3, <2>1, <2>2, <3>1, ReturnedHolds
      <3>3. ClipTypeOK'
        BY <1>3, <2>1, <2>2, <2>3, <3>1, <3>2 DEF ClipTypeOK
      <3>4. ClipOK'
        BY <1>3, <2>1, <2>2, <3>1, <3>2 DEF ClipOK
      <3>5. QED
        BY <3>3, <3>4
    <2>6. QED
      BY <2>4, <2>5
  <1>5. CASE ClearReadFails(p)
    <2>1. PICK w \in Waiting(p) :
          /\ clears' = IF p = Tui THEN [clears EXCEPT ![w] = @ - 1] ELSE clears
          /\ last' = [last EXCEPT ![p] = Nothing]
          /\ Returned(p, w)
      BY <1>5 DEF ClearReadFails
    <2>2. /\ UNCHANGED <<up, board, remaining, ticks, holder>> /\ holder[p] = "none"
          /\ clipPast' = [clipPast EXCEPT !.excuse = @ \cup {"failed"}]
      BY <1>5 DEF ClearReadFails
    <2>3. last' \in [Procs -> Secrets \cup {Nothing}]
      BY <2>1 DEF ClipTypeOK
    <2>4. clipPast' \in ClipHistory /\ clipPast'.crossed = clipPast.crossed
          /\ clipPast'.source = clipPast.source
      BY <2>2 DEF ClipTypeOK, ClipHistory
    <2>5. /\ leaving' = (IF w = "quit" THEN "quit" ELSE leaving)
          /\ cli' \in [Clis -> {"idle", "waiting", "clearing", "gone"}]
          /\ \A c \in Clis : cli'[c] = IF c = p THEN "gone" ELSE cli[c]
      BY <1>3, <2>1, <2>2, ReturnedHolds
    <2>6. ClipTypeOK'
      BY <1>3, <2>1, <2>2, <2>3, <2>4, <2>5 DEF ClipTypeOK
    <2>7. ClipOK'
      BY <1>3, <2>1, <2>2, <2>4, <2>5 DEF ClipOK
    <2>8. QED
      BY <2>6, <2>7
  <1>6. CASE ClearWrite(p) \/ ClearWriteFails(p)
    <2>1. /\ UNCHANGED <<up, last, remaining, ticks, clears>> /\ holder[p] # "none"
          /\ holder' = [holder EXCEPT ![p] = "none"] /\ Returned(p, holder[p])
      BY <1>6 DEF ClearWrite, ClearWriteFails
    <2>2. /\ leaving' = (IF holder[p] = "quit" THEN "quit" ELSE leaving)
          /\ cli' \in [Clis -> {"idle", "waiting", "clearing", "gone"}]
          /\ \A c \in Clis : cli'[c] = IF c = p THEN "gone" ELSE cli[c]
          /\ holder[p] = "quit" => p = Tui
      BY <2>1, CallsOf, ReturnedHolds
    <2>3. /\ holder' \in [Procs -> Purposes \cup {"none"}]
          /\ \A q \in Procs : holder'[q] = IF q = p THEN "none" ELSE holder[q]
      BY <2>1 DEF ClipTypeOK
    <2>4. /\ clipPast' \in ClipHistory /\ board' \in Values
          /\ \A q \in Procs : holder'[q] # "none" =>
               IF q \in clipPast'.crossed THEN clipPast'.source # q ELSE board' \in Secrets
      <3>1. CASE ClearWrite(p)
        <4> DEFINE held == {q \in Procs \ {p} : holder[q] # "none"}
        <4>1. board' = Empty /\ clipPast' = [clipPast EXCEPT !.source = Foreign, !.crossed = held]
          BY <3>1 DEF ClearWrite
        <4>2. held \subseteq Procs
          OBVIOUS
        <4>3. \A q \in Procs : holder'[q] # "none" => q \in held
          BY <2>3
        <4> HIDE DEF held
        <4>4. clipPast' \in ClipHistory /\ clipPast'.source = Foreign /\ clipPast'.crossed = held
          BY <4>1, <4>2 DEF ClipTypeOK, ClipHistory
        <4>5. Foreign \notin Procs
          BY ClipboardAssumption DEF Procs, Tui, Foreign
        <4>6. QED
          BY <4>1, <4>3, <4>4, <4>5 DEF Values
      <3>2. CASE ClearWriteFails(p)
        <4>1. board' = board /\ clipPast' = [clipPast EXCEPT !.excuse = @ \cup {"failed"}]
          BY <3>2 DEF ClearWriteFails
        <4>2. clipPast' \in ClipHistory /\ clipPast'.crossed = clipPast.crossed
              /\ clipPast'.source = clipPast.source
          BY <4>1 DEF ClipTypeOK, ClipHistory
        <4>3. QED
          BY <2>3, <4>1, <4>2 DEF ClipOK, ClipTypeOK
      <3>3. QED
        BY <1>6, <3>1, <3>2
    <2>5. ClipTypeOK'
      BY <1>0, <2>1, <2>2, <2>3, <2>4 DEF ClipTypeOK
    <2>6. ClipOK'
      BY <1>0, <2>1, <2>2, <2>3, <2>4 DEF ClipOK
    <2>7. QED
      BY <2>5, <2>6
  <1>7. QED
    BY <1>1, <1>4, <1>5, <1>6

LEMMA ClipRestHolds ==
  ASSUME ClipInv, ClipRest
  PROVE  ClipInv'
  <1> USE DEF ClipInv
  <1>1. CASE Tick
    <2>1. /\ UNCHANGED <<up, board, last, holder, leaving, cli, clipPast>> /\ ticks > 0
          /\ remaining' = (IF remaining > 0 THEN remaining - 1 ELSE 0)
          /\ ticks' \in {ticks, ticks - 1}
          /\ clears' \in {[clears EXCEPT !["expiry"] = @ + 1], clears}
      BY <1>1 DEF Tick
    <2>2. clears' \in [{"expiry", "quit"} -> Nat] /\ clears'["quit"] = clears["quit"]
      BY <2>1 DEF ClipTypeOK
    <2>3. remaining' \in 0..Timeout /\ ticks' \in Nat
      BY <2>1, ClipboardAssumption DEF ClipTypeOK
    <2>4. QED
      BY <2>1, <2>2, <2>3 DEF ClipTypeOK, ClipOK
  <1>2. CASE Quit
    <2>1. clears' \in [{"expiry", "quit"} -> Nat] /\ clears'["quit"] = 1
      BY <1>2 DEF Quit, ClipTypeOK, ClipOK
    <2>2. QED
      BY <1>2, <2>1 DEF Quit, ClipTypeOK, ClipOK
  <1>3. CASE QuitMsg
    BY <1>3 DEF QuitMsg, ClipTypeOK, ClipOK
  <1>4. CASE Killed
    <2>1. clipPast' \in ClipHistory /\ clipPast'.crossed = clipPast.crossed
          /\ clipPast'.source = clipPast.source
      BY <1>4 DEF Killed, ClipTypeOK, ClipHistory
    <2>2. QED
      BY <1>4, <2>1 DEF Killed, ClipTypeOK, ClipOK
  <1>5. CASE \E c \in Clis : TimeoutOrInterrupt(c)
    <2>1. PICK c \in Clis : TimeoutOrInterrupt(c)
      BY <1>5
    <2>2. QED
      BY <2>1 DEF TimeoutOrInterrupt, ClipTypeOK, ClipOK
  <1>6. CASE \E c \in Clis : CliKilled(c)
    <2>1. PICK c \in Clis : CliKilled(c)
      BY <1>6
    <2>2. clipPast' \in ClipHistory /\ clipPast'.crossed = clipPast.crossed
          /\ clipPast'.source = clipPast.source
      BY <2>1 DEF CliKilled, ClipTypeOK, ClipHistory
    <2>3. cli' \in [Clis -> {"idle", "waiting", "clearing", "gone"}]
          /\ \A d \in Clis : cli'[d] = IF d = c THEN "gone" ELSE cli[d]
      BY <2>1 DEF CliKilled, ClipTypeOK
    <2>4. ClipTypeOK'
      BY <2>1, <2>2, <2>3 DEF CliKilled, ClipTypeOK
    <2>5. ClipOK'
      BY <2>1, <2>2, <2>3 DEF CliKilled, ClipOK
    <2>6. QED
      BY <2>4, <2>5
  <1>7. QED
    BY <1>1, <1>2, <1>3, <1>4, <1>5, <1>6 DEF ClipRest

-------------------------------------------------------------------------------
(* Unlocking.                                                                  *)

\* With one open at a time: what has opened fits the credentials as they stand,
\* which are those of the open that runs, and nothing is asked while it does.
UnlockOK ==
    locked /\ ~unlockPast.doubled =>
      /\ ul.todo \cap unlockPast.opened = {}
      /\ \A f \in unlockPast.opened : Fits(ul, f)
      /\ \A o \in opens : opens = {o} /\ o.got = ul.got
      /\ opens # {} => ul.todo = {}

UnlockInv == UnlockTypeOK /\ UnlockOK /\ NothingMissing

UnlockNext == UnlockKeys \/ OnUnlockDone

LEMMA UnlockInitHolds == UnlockInit(WorldSet) => UnlockInv
  <1> SUFFICES ASSUME UnlockInit(WorldSet) PROVE UnlockInv
    OBVIOUS
  <1>1. world \in Worlds
    BY SessionAssumption DEF UnlockInit
  <1>2. /\ ul \in [todo : SUBSET (Files \cup {Master}), busy : BOOLEAN, master : MasterAnswers,
                   got : Got, skip : SUBSET Files]
        /\ ~ul.busy
    <2>1. world.saved[Master] \in MasterAnswers
      BY <1>1 DEF Worlds, Answers
    <2>2. QED
      BY <2>1 DEF UnlockInit, Got, FileAnswers, MasterAnswers
  <1>3. opens = {} \/ (ul.todo = {} /\ opens = {[id |-> 1, master |-> ul.master, got |-> ul.got]})
    BY DEF UnlockInit
  <1>4. opens \subseteq [id : {1, 2}, master : MasterAnswers, got : Got]
    BY <1>2, <1>3
  <1>5. IsFiniteSet(opens) /\ Cardinality(opens) <= 1
    <2>1. CASE opens = {}
      BY <2>1, FS_EmptySet
    <2>2. CASE opens = {[id |-> 1, master |-> ul.master, got |-> ul.got]}
      <3>1. PICK o : opens = {o}
        BY <2>2
      <3>2. IsFiniteSet({o}) /\ Cardinality({o}) = 1
        BY FS_Singleton
      <3>3. QED
        BY <3>1, <3>2
    <2>3. QED
      BY <1>3, <2>1, <2>2
  <1>6. UnlockTypeOK
    BY <1>1, <1>2, <1>4, <1>5 DEF UnlockInit, UnlockTypeOK, NothingPast
  <1>7. UnlockOK
    BY <1>3 DEF UnlockInit, UnlockOK, NothingPast
  <1>8. NothingMissing
    BY DEF UnlockInit, NothingMissing
  <1>9. QED
    BY <1>6, <1>7, <1>8 DEF UnlockInv

\* The fields of the model that unlocking reads.
Fields == [todo : SUBSET (Files \cup {Master}), busy : BOOLEAN, master : MasterAnswers,
           got : Got, skip : SUBSET Files]

\* After an answer that leaves alone what has opened: the next step is asked, or
\* one more open runs with the credentials as they stand.
LEMMA AdvanceHolds ==
  ASSUME UnlockInv, locked, ~ul.busy, NEW u \in Fields, ~u.busy, u.todo \subseteq ul.todo,
         unlockPast.doubled \/ opens = {} \/ u.got = ul.got,
         \A f \in Files \ ul.todo : u.got[f] = ul.got[f],
         Advance(u), UNCHANGED <<world, locked, opened, excluded>>
  PROVE  UnlockInv'
  <1> USE DEF UnlockInv
  <1>1. NothingMissing'
    BY DEF NothingMissing
  <1>2. unlockPast.opened \subseteq Files /\ unlockPast.doubled \in BOOLEAN
    BY DEF UnlockTypeOK
  <1>3. ASSUME ~unlockPast.doubled
        PROVE  /\ u.todo \cap unlockPast.opened = {}
               /\ \A f \in unlockPast.opened : Fits(u, f)
    <2>1. \A f \in unlockPast.opened : f \notin ul.todo /\ f \notin Caches /\ Fits(ul, f)
      BY <1>2, <1>3 DEF UnlockOK, Files
    <2>2. QED
      BY <1>2, <2>1 DEF Fits, Password
  <1>4. CASE u.todo # {}
    <2>1. ul' = u /\ UNCHANGED <<opens, unlockPast>>
      BY <1>4 DEF Advance
    <2>2. UnlockTypeOK'
      BY <2>1 DEF UnlockTypeOK, Fields
    <2>3. UnlockOK'
      <3> SUFFICES ASSUME ~unlockPast.doubled
                   PROVE  /\ ul'.todo \cap unlockPast.opened = {}
                          /\ \A f \in unlockPast.opened : Fits(ul, f)'
                          /\ \A o \in opens : opens = {o} /\ o.got = ul'.got
                          /\ opens # {} => ul'.todo = {}
        BY <2>1 DEF UnlockOK
      <3>1. opens = {} \/ ul.todo = {}
        BY DEF UnlockOK
      <3>2. opens = {}
        BY <1>4, <3>1
      <3>3. \A f \in unlockPast.opened : Fits(ul, f)'
        BY <1>3, <2>1 DEF Fits, Password
      <3>4. QED
        BY <1>3, <2>1, <3>2, <3>3
    <2>4. QED
      BY <1>1, <2>2, <2>3
  <1>5. CASE u.todo = {}
    <2>1. /\ ul' = [u EXCEPT !.busy = TRUE]
          /\ opens' = opens \cup {Captured(u)}
          /\ unlockPast' = [unlockPast EXCEPT !.doubled = @ \/ opens # {}]
      BY <1>5 DEF Advance
    <2>2. /\ ul' \in Fields /\ ul'.todo = {} /\ ul'.got = u.got /\ ul'.busy
          /\ ul'.master = u.master
      BY <1>5, <2>1 DEF Fields
    <2>3. Captured(u) \in [id : {1, 2}, master : MasterAnswers, got : Got] /\ Captured(u).got = u.got
      BY DEF Captured, Fields
    <2>4. /\ unlockPast' \in [opened : SUBSET Files, doubled : BOOLEAN]
          /\ unlockPast'.opened = unlockPast.opened
          /\ ~unlockPast'.doubled => ~unlockPast.doubled /\ opens = {}
      BY <2>1 DEF UnlockTypeOK
    <2>5. IsFiniteSet(opens') /\ Cardinality(opens') <= 2
      <3>1. IsFiniteSet(opens) /\ Cardinality(opens) <= 1 /\ Cardinality(opens) \in Nat
        BY FS_CardinalityType DEF UnlockTypeOK
      <3>2. PICK o : o = Captured(u)
        OBVIOUS
      <3>3. IsFiniteSet(opens \cup {o}) /\ Cardinality(opens \cup {o}) <= Cardinality(opens) + 1
        BY <3>1, FS_AddElement
      <3>4. opens' = opens \cup {o}
        BY <2>1, <3>2
      <3>5. IsFiniteSet(opens') /\ Cardinality(opens') <= Cardinality(opens) + 1
        BY ONLY <3>3, <3>4, Zenon
      <3>6. IsFiniteSet(opens') /\ Cardinality(opens') \in Nat
        BY <3>5, FS_CardinalityType
      <3>7. QED
        BY <3>1, <3>5, <3>6
    <2>6. UnlockTypeOK'
      BY <2>1, <2>2, <2>3, <2>4, <2>5 DEF UnlockTypeOK, Fields
    <2>7. UnlockOK'
      <3> SUFFICES ASSUME ~unlockPast'.doubled
                   PROVE  /\ ul'.todo \cap unlockPast'.opened = {}
                          /\ \A f \in unlockPast'.opened : Fits(ul, f)'
                          /\ \A o \in opens' : opens' = {o} /\ o.got = ul'.got
                          /\ opens' # {} => ul'.todo = {}
        BY DEF UnlockOK
      <3>1. \A f \in unlockPast'.opened : Fits(ul, f)'
        BY <1>3, <2>2, <2>4 DEF Fits, Password
      <3>2. QED
        BY <2>1, <2>2, <2>3, <2>4, <3>1
    <2>8. QED
      BY <1>1, <2>6, <2>7
  <1>6. QED
    BY <1>4, <1>5

\* The step that is asked is one that is left to answer.
LEMMA StepIsTodo ==
  ASSUME UnlockTypeOK, OnStep
  PROVE  Step \in ul.todo
  <1>1. ul.todo \subseteq Files \cup {Master} /\ ul.todo # {}
    BY DEF UnlockTypeOK, OnStep
  <1>2. Files \cup {Master} \subseteq Nat
    BY UnlockAssumption DEF Files, Master
  <1>3. QED
    BY <1>1, <1>2, MinIsLeast DEF Step

LEMMA UnlockKeysHold ==
  ASSUME UnlockInv, UnlockKeys
  PROVE  UnlockInv'
  <1> USE DEF UnlockInv
  <1>0. /\ locked /\ ~ul.busy /\ UNCHANGED <<world, locked, opened, excluded>>
        /\ ul \in Fields /\ unlockPast.doubled \in BOOLEAN
    BY DEF UnlockKeys, Answer, Reopen, Skip, UnlockTypeOK, Fields
  <1>1. CASE Answer
    <2>1. OnStep /\ Step \in ul.todo /\ Step \in Files \cup {Master}
      BY <1>1, StepIsTodo DEF Answer, UnlockTypeOK
    <2>2. unlockPast.doubled \/ opens = {}
      BY <1>0, <2>1 DEF UnlockOK, OnStep
    <2>3. PICK a \in Answers(Step) :
            Advance(IF Step = Master
                    THEN [ul EXCEPT !.todo = @ \ {Step}, !.master = a]
                    ELSE [ul EXCEPT !.todo = @ \ {Step}, !.got[Step] = a])
      BY <1>1 DEF Answer
    <2>4. CASE Step = Master
      <3>1. PICK u : u = [ul EXCEPT !.todo = @ \ {Step}, !.master = a]
        OBVIOUS
      <3>2. a \in MasterAnswers /\ Advance(u)
        BY <2>3, <2>4, <3>1 DEF Answers
      <3>3. u \in Fields /\ ~u.busy /\ u.todo \subseteq ul.todo /\ u.got = ul.got
        BY <1>0, <3>1, <3>2 DEF Fields
      <3>4. QED
        BY <1>0, <2>2, <3>2, <3>3, AdvanceHolds
    <2>5. CASE Step # Master
      <3>1. PICK u : u = [ul EXCEPT !.todo = @ \ {Step}, !.got[Step] = a]
        OBVIOUS
      <3>2. a \in FileAnswers /\ Advance(u) /\ Step \in Files
        BY <2>1, <2>3, <2>5, <3>1 DEF Answers
      <3>3. [ul.got EXCEPT ![Step] = a] \in Got
            /\ \A f \in Files \ {Step} : [ul.got EXCEPT ![Step] = a][f] = ul.got[f]
        BY <1>0, <3>2 DEF Fields, Got
      <3>4. PICK typed : typed = [ul.got EXCEPT ![Step] = a]
        OBVIOUS
      <3>5. u = [ul EXCEPT !.todo = @ \ {Step}, !.got = typed]
        BY <3>1, <3>4
      <3>6. u \in Fields /\ ~u.busy /\ u.todo \subseteq ul.todo /\ u.got = typed
        BY <1>0, <3>3, <3>4, <3>5 DEF Fields
      <3>7. \A f \in Files \ ul.todo : u.got[f] = ul.got[f]
        BY <2>1, <3>3, <3>4, <3>6
      <3>8. QED
        BY <1>0, <2>2, <3>2, <3>6, <3>7, AdvanceHolds
    <2>6. QED
      BY <2>4, <2>5
  <1>2. CASE Reopen
    BY <1>0, <1>2, AdvanceHolds DEF Reopen
  <1>3. CASE Skip
    <2>1. OnStep /\ Step \in ul.todo /\ Step \in Files
      BY <1>3, StepIsTodo DEF Skip, UnlockTypeOK
    <2>2. unlockPast.doubled \/ opens = {}
      BY <1>0, <2>1 DEF UnlockOK, OnStep
    <2>3. PICK u : u = [ul EXCEPT !.todo = @ \ {Step}, !.skip = @ \cup {Step}]
      OBVIOUS
    <2>4. Advance(u)
      BY <1>3, <2>3 DEF Skip
    <2>5. u \in Fields /\ ~u.busy /\ u.todo \subseteq ul.todo /\ u.got = ul.got
      BY <1>0, <2>1, <2>3 DEF Fields
    <2>6. QED
      BY <1>0, <2>2, <2>4, <2>5, AdvanceHolds
  <1>4. QED
    BY <1>1, <1>2, <1>3 DEF UnlockKeys

\* The result of an open: what it rejected has not opened before with the same
\* answers, and what the session comes up without was refused or left out.
LEMMA UnlockDoneHolds ==
  ASSUME UnlockInv, OnUnlockDone
  PROVE  UnlockInv'
  <1> USE DEF UnlockInv
  <1>1. PICK o \in opens :
       LET again == AskAgain(ul, o) IN
       /\ opens' = opens \ {o}
       /\ \/ /\ again # {}
             /\ ul' = Retry(ul, again)
             /\ unlockPast' = [unlockPast EXCEPT !.opened = @ \cup (Opened(o) \cap Files)]
             /\ UNCHANGED <<locked, opened, excluded>>
          \/ /\ again = {} /\ Opened(o) \cap world.full = {}
             /\ ul' = [ul EXCEPT !.busy = FALSE]
             /\ unlockPast' = [unlockPast EXCEPT !.opened = @ \cup (Opened(o) \cap Files)]
             /\ UNCHANGED <<locked, opened, excluded>>
          \/ /\ again = {} /\ Opened(o) \cap world.full # {}
             /\ locked' = FALSE
             /\ opened' = Opened(o)
             /\ excluded' = [skipped |-> ul.skip \ Opened(o),
                            failed |-> Sources \ (Opened(o) \cup ul.skip)]
             /\ IF opens' = {} THEN ul' = Unread /\ unlockPast' = NothingPast
                ELSE ul' = [ul EXCEPT !.busy = FALSE, !.todo = {}] /\ UNCHANGED unlockPast
       /\ UNCHANGED world
    BY DEF OnUnlockDone
  <1> DEFINE again == AskAgain(ul, o)
             now == unlockPast.opened \cup (Opened(o) \cap Files)
  <1>2. /\ world \in Worlds /\ ul \in Fields /\ unlockPast \in [opened : SUBSET Files, doubled : BOOLEAN]
        /\ opens' \subseteq [id : {1, 2}, master : MasterAnswers, got : Got]
        /\ UNCHANGED world /\ Files \subseteq Sources
    BY <1>1 DEF UnlockTypeOK, Fields, Files
  <1>3. Opened(o) \subseteq Sources /\ again \subseteq Sources /\ again \cap Opened(o) = {}
        /\ world.readable \subseteq Opened(o) \cup again \cup ul.skip
    BY <1>2 DEF Opened, AskAgain, Rejected, Worlds
  <1>4. IsFiniteSet(opens') /\ Cardinality(opens') <= 1
    <2>1. IsFiniteSet(opens) /\ Cardinality(opens) <= 2 /\ Cardinality(opens) \in Nat
      BY FS_CardinalityType DEF UnlockTypeOK
    <2>2. IsFiniteSet(opens \ {o}) /\ Cardinality(opens \ {o}) = Cardinality(opens) - 1
      BY <2>1, FS_RemoveElement
    <2>3. opens' = opens \ {o}
      BY <1>1
    <2>4. IsFiniteSet(opens') /\ Cardinality(opens') = Cardinality(opens) - 1
      BY ONLY <2>2, <2>3, Zenon
    <2>5. QED
      BY <2>1, <2>4
  <1>5. ASSUME locked, ~unlockPast.doubled
        PROVE  /\ opens' = {} /\ o.got = ul.got
               /\ \A f \in now : Fits(ul, f) /\ f \notin again
    <2>1. opens = {o} /\ o.got = ul.got
      BY <1>5 DEF UnlockOK
    <2>2. opens' = {}
      BY <1>1, <2>1
    <2>3. ASSUME NEW f \in Files PROVE Fits(ul, f) <=> Fits(o, f)
      BY <2>1 DEF Fits, Password, Files
    <2>4. \A f \in unlockPast.opened : Fits(ul, f)
      BY <1>5 DEF UnlockOK
    <2>5. \A f \in again \cap Files : ~Fits(o, f)
      BY DEF AskAgain, Rejected, Opened
    <2>6. \A f \in Opened(o) \cap Files : Fits(o, f)
      BY DEF Opened
    <2>7. \A f \in now : f \in Files /\ Fits(ul, f)
      BY <1>2, <2>3, <2>4, <2>6
    <2>8. \A f \in now : f \notin again
      BY <2>3, <2>5, <2>7
    <2>9. QED
      BY <2>1, <2>2, <2>7, <2>8
  <1>6. ASSUME unlockPast' = [unlockPast EXCEPT !.opened = now]
        PROVE  /\ unlockPast' \in [opened : SUBSET Files, doubled : BOOLEAN]
               /\ unlockPast'.opened = now /\ unlockPast'.doubled = unlockPast.doubled
    <2>1. now \subseteq Files
      BY <1>2
    <2> HIDE DEF now
    <2>2. QED
      BY <1>2, <1>6, <2>1
  <1>7. CASE /\ again # {}
             /\ ul' = Retry(ul, again)
             /\ unlockPast' = [unlockPast EXCEPT !.opened = @ \cup (Opened(o) \cap Files)]
             /\ UNCHANGED <<locked, opened, excluded>>
    <2>1. unlockPast' = [unlockPast EXCEPT !.opened = now]
      BY <1>7
    <2>2. RetrySteps(again) \subseteq Files \cup {Master}
          /\ \A f \in RetrySteps(again) : f \in again \/ f = Master
      BY DEF RetrySteps
    <2>3. ul' = [ul EXCEPT !.busy = FALSE, !.todo = RetrySteps(again)]
      BY <1>7 DEF Retry
    <2>4. /\ ul' \in Fields /\ ul'.todo = RetrySteps(again) /\ ~ul'.busy /\ ul'.got = ul.got
          /\ ul'.master = ul.master
      <3> HIDE DEF again
      <3>1. QED
        BY <1>2, <2>2, <2>3 DEF Fields
    <2>5. UnlockTypeOK'
      BY <1>2, <1>4, <1>6, <1>7, <2>1, <2>4 DEF UnlockTypeOK, Fields
    <2>6. UnlockOK'
      <3> SUFFICES ASSUME locked, ~unlockPast.doubled
                   PROVE  /\ ul'.todo \cap unlockPast'.opened = {}
                          /\ \A f \in unlockPast'.opened : Fits(ul, f)'
                          /\ opens' = {}
        BY <1>6, <1>7, <2>1 DEF UnlockOK
      <3>1. Master \notin now
        BY <1>2, UnlockAssumption
      <3>2. ul'.todo \cap now = {}
        BY <1>5, <2>2, <2>4, <3>1
      <3>3. \A f \in now : Fits(ul, f)'
        BY <1>2, <1>5, <2>4 DEF Fits, Password
      <3>4. QED
        BY <1>5, <1>6, <2>1, <3>2, <3>3
    <2>7. NothingMissing'
      BY <1>2, <1>7 DEF NothingMissing
    <2>8. QED
      BY <2>5, <2>6, <2>7
  <1>8. CASE /\ again = {}
             /\ ul' = [ul EXCEPT !.busy = FALSE]
             /\ unlockPast' = [unlockPast EXCEPT !.opened = @ \cup (Opened(o) \cap Files)]
             /\ UNCHANGED <<locked, opened, excluded>>
    <2>1. unlockPast' = [unlockPast EXCEPT !.opened = now]
      BY <1>8
    <2>2. /\ ul' \in Fields /\ ul'.todo = ul.todo /\ ~ul'.busy /\ ul'.got = ul.got
          /\ ul'.master = ul.master
      BY <1>2, <1>8 DEF Fields
    <2>3. UnlockTypeOK'
      BY <1>2, <1>4, <1>6, <1>8, <2>1, <2>2 DEF UnlockTypeOK, Fields
    <2>4. UnlockOK'
      <3> SUFFICES ASSUME locked, ~unlockPast.doubled
                   PROVE  /\ ul'.todo \cap unlockPast'.opened = {}
                          /\ \A f \in unlockPast'.opened : Fits(ul, f)'
                          /\ opens' = {}
        BY <1>6, <1>8, <2>1 DEF UnlockOK
      <3>1. ul.todo = {}
        BY <1>1 DEF UnlockOK
      <3>2. \A f \in now : Fits(ul, f)'
        BY <1>2, <1>5, <2>2 DEF Fits, Password
      <3>3. QED
        BY <1>5, <1>6, <2>1, <2>2, <3>1, <3>2
    <2>5. NothingMissing'
      BY <1>2, <1>8 DEF NothingMissing
    <2>6. QED
      BY <2>3, <2>4, <2>5
  <1>9. CASE /\ again = {}
             /\ locked' = FALSE
             /\ opened' = Opened(o)
             /\ excluded' = [skipped |-> ul.skip \ Opened(o),
                            failed |-> Sources \ (Opened(o) \cup ul.skip)]
             /\ IF opens' = {} THEN ul' = Unread /\ unlockPast' = NothingPast
                ELSE ul' = [ul EXCEPT !.busy = FALSE, !.todo = {}] /\ UNCHANGED unlockPast
    <2>1. ul' \in Fields /\ ~ul'.busy
      <3>1. Unread \in Fields /\ ~Unread.busy
        BY DEF Unread, Fields, Got, FileAnswers, MasterAnswers
      <3>2. [ul EXCEPT !.busy = FALSE, !.todo = {}] \in Fields
            /\ ~[ul EXCEPT !.busy = FALSE, !.todo = {}].busy
        BY <1>2 DEF Fields
      <3>3. QED
        BY <1>9, <3>1, <3>2
    <2>2. unlockPast' \in [opened : SUBSET Files, doubled : BOOLEAN]
      <3>1. NothingPast \in [opened : SUBSET Files, doubled : BOOLEAN]
        BY DEF NothingPast
      <3>2. unlockPast' = NothingPast \/ unlockPast' = unlockPast
        BY <1>9
      <3>3. QED
        BY <1>2, <3>1, <3>2
    <2>3. ul.skip \subseteq Sources
      BY <1>2 DEF Fields
    <2>4. /\ excluded'.skipped = ul.skip \ Opened(o)
          /\ excluded'.failed = Sources \ (Opened(o) \cup ul.skip)
          /\ excluded' \in [skipped : SUBSET (Sources \ opened'), failed : SUBSET (Sources \ opened')]
      <3>1. PICK skipped, failed : /\ skipped = ul.skip \ Opened(o)
                                   /\ failed = Sources \ (Opened(o) \cup ul.skip)
        OBVIOUS
      <3>2. excluded' = [skipped |-> skipped, failed |-> failed]
        BY <1>9, <3>1
      <3>3. skipped \subseteq Sources \ opened' /\ failed \subseteq Sources \ opened'
        BY <1>9, <2>3, <3>1
      <3>4. QED
        BY <3>1, <3>2, <3>3
    <2>5. UnlockTypeOK'
      BY <1>2, <1>3, <1>4, <1>9, <2>1, <2>2, <2>4 DEF UnlockTypeOK, Fields
    <2>6. UnlockOK'
      BY <1>9 DEF UnlockOK
    <2>7. NothingMissing'
      BY <1>2, <1>3, <1>9, <2>3, <2>4 DEF NothingMissing
    <2>8. QED
      BY <2>5, <2>6, <2>7
  <1>10. QED
    BY <1>1, <1>7, <1>8, <1>9

-------------------------------------------------------------------------------
(* A sync.                                                                     *)

\* The reports of c that have been sent to the update loop, and how many have
\* left its channel.
Sent(c) == {msg \in inflight : msg[1] = "progress" /\ msg[2] = c}
Received(c) == work[c].made - Len(buffer[c])

\* Syncs are numbered as they start; a channel holds the latest reports in order,
\* and what has been received or is on the screen is older than what it holds.
SyncOrder ==
    /\ \E n \in 0..MaxSyncs : Started = 1..n
    /\ syncing => syncCh \in Started
    /\ buffer \in [Channels -> Seq(0..Reports)]
    /\ phase \in (Channels \cup {NoChannel}) \X (0..Reports)
    /\ \A c \in Channels :
         /\ work[c].state = "idle" =>
              /\ work[c].made = 0 /\ buffer[c] = <<>> /\ listeners[c] = 0 /\ Sent(c) = {}
         /\ Received(c) \in Nat
         /\ \A i \in 1..Len(buffer[c]) : buffer[c][i] = Received(c) + i
         /\ \A msg \in Sent(c) : msg[3] <= Received(c)
         /\ phase[1] = c => phase[2] <= Received(c)

\* Unless a message came late, one token per sync is passed from the command that
\* listens to the message it brings and back: reports are shown one by one.
OneToken ==
    ~late => \A c \in Channels :
      /\ listeners[c] <= 1
      /\ \A msg \in Sent(c) :
           /\ listeners[c] = 0 /\ Sent(c) = {msg}
           /\ phase[1] = c => phase[2] <= msg[3]

SyncInv == SyncTypeOK /\ SyncOrder /\ OneToken

SyncNext ==
    \/ StartSync \/ \E c \in Channels : Report(c) \/ Finish(c) \/ Listen(c)
    \/ OnProgress \/ OnSyncDone

LEMMA SyncInitHolds == SyncInit => SyncInv
  <1> SUFFICES ASSUME SyncInit PROVE SyncInv
    OBVIOUS
  <1>1. /\ \A c \in Channels : /\ work[c] = [made |-> 0, state |-> "idle"] /\ buffer[c] = <<>>
                              /\ Len(buffer[c]) = 0 /\ listeners[c] = 0
        /\ inflight = {} /\ phase = <<0, 0>> /\ NoChannel = 0
    BY DEF SyncInit, NoChannel
  <1>2. Started = {}
    BY <1>1 DEF Started
  <1>3. SyncTypeOK
    <2>1. work \in [Channels -> [made : 0..Reports, state : {"idle", "running", "over"}]]
      BY SyncAssumption DEF SyncInit
    <2>2. listeners \in [Channels \cup {NoChannel} -> Nat]
      BY DEF SyncInit
    <2>3. \A c \in Channels : Len(buffer[c]) <= Capacity
      BY <1>1, SyncAssumption
    <2>4. QED
      BY <2>1, <2>2, <2>3 DEF SyncInit, SyncTypeOK
  <1>4. SyncOrder
    <2>1. \E n \in 0..MaxSyncs : Started = 1..n
      BY <1>2, SyncAssumption
    <2>2. buffer \in [Channels -> Seq(0..Reports)]
      BY DEF SyncInit
    <2>3. phase \in (Channels \cup {NoChannel}) \X (0..Reports)
      BY <1>1, SyncAssumption
    <2>4. \A c \in Channels : Received(c) = 0 /\ Sent(c) = {} /\ phase[1] # c
      BY <1>1 DEF Received, Sent, Channels
    <2>5. ~syncing
      BY DEF SyncInit
    <2>6. QED
      BY <1>1, <2>1, <2>2, <2>3, <2>4, <2>5 DEF SyncOrder
  <1>5. OneToken
    BY <1>1 DEF OneToken, Sent
  <1>6. QED
    BY <1>3, <1>4, <1>5 DEF SyncInv

\* A sync that starts takes the next number, whose channel nothing has used.
LEMMA StartSyncHolds ==
  ASSUME SyncInv, StartSync
  PROVE  SyncInv'
  <1> USE DEF SyncInv
  <1>1. PICK n \in 0..MaxSyncs : Started = 1..n
    BY DEF SyncOrder
  <1>2. Cardinality(Started) = n /\ n \in Nat
    <2>1. Cardinality(1..n) = n
      BY <1>1, SyncAssumption, FS_Interval
    <2>2. QED
      BY <1>1, <2>1
  <1> DEFINE c == n + 1
  <1>3. /\ ~syncing /\ c \in Channels /\ syncing' = TRUE /\ syncCh' = c /\ phase' = <<c, 0>>
        /\ work' = [work EXCEPT ![c].state = "running"]
        /\ listeners' = [listeners EXCEPT ![c] = 1]
        /\ UNCHANGED <<buffer, closed, inflight, late>>
    BY <1>2, SyncAssumption DEF StartSync, Channels
  <1>4. work[c].state = "idle"
    BY <1>1, <1>3 DEF Started
  <1> HIDE DEF c
  <1>5. /\ work[c].made = 0 /\ buffer[c] = <<>> /\ listeners[c] = 0 /\ Sent(c) = {}
        /\ Received(c) = 0
    BY <1>3, <1>4 DEF SyncOrder, Received
  <1>6. /\ work' \in [Channels -> [made : 0..Reports, state : {"idle", "running", "over"}]]
        /\ work'[c] = [made |-> 0, state |-> "running"]
        /\ \A d \in Channels \ {c} : work'[d] = work[d]
    BY <1>3, <1>5 DEF SyncTypeOK
  <1>7. /\ listeners' \in [Channels \cup {NoChannel} -> Nat]
        /\ \A d \in Channels : listeners'[d] = IF d = c THEN 1 ELSE listeners[d]
    BY <1>3 DEF SyncTypeOK
  <1>8. \A d \in Channels : Received(d)' = Received(d) /\ Sent(d)' = Sent(d)
    BY <1>3, <1>5, <1>6 DEF Received, Sent
  <1>9. Started' = 1..(n + 1)
    <2>1. Started' = Started \cup {c}
      BY <1>3, <1>6 DEF Started
    <2>2. QED
      BY <1>1, <2>1 DEF c
  <1>10. SyncTypeOK'
    BY <1>3, <1>6, <1>7 DEF SyncTypeOK, NoChannel, Channels
  <1>11. SyncOrder'
    <2>1. \E m \in 0..MaxSyncs : Started' = 1..m
      BY <1>2, <1>3, <1>9, SyncAssumption DEF Channels, c
    <2>2. phase' \in (Channels \cup {NoChannel}) \X (0..Reports)
      BY <1>3, SyncAssumption
    <2>3. \A d \in Channels : work'[d].state = "idle" => d # c /\ work[d].state = "idle"
      BY <1>6
    <2>4. syncCh' \in Started'
      BY <1>3, <1>6 DEF Started
    <2>5. QED
      BY <1>3, <1>5, <1>6, <1>7, <1>8, <2>1, <2>2, <2>3, <2>4 DEF SyncOrder
  <1>12. OneToken'
    <2> SUFFICES ASSUME ~late, NEW d \in Channels
                 PROVE  /\ listeners'[d] <= 1
                        /\ \A msg \in Sent(d) :
                             /\ listeners'[d] = 0 /\ Sent(d) = {msg}
                             /\ phase'[1] = d => phase'[2] <= msg[3]
      BY <1>3, <1>8 DEF OneToken
    <2>1. CASE d = c
      BY <1>5, <1>7, <2>1
    <2>2. CASE d # c
      BY <1>3, <1>7, <2>2 DEF OneToken
    <2>3. QED
      BY <2>1, <2>2
  <1>13. QED
    BY <1>10, <1>11, <1>12

\* A sync that reports or ends has been started; its numbering stays.
LEMMA ReportHolds ==
  ASSUME SyncInv, NEW c \in Channels, Report(c)
  PROVE  SyncInv'
  <1> USE DEF SyncInv
  <1>1. /\ work[c].state = "running" /\ work[c].made < Reports /\ Len(buffer[c]) < Capacity
        /\ work' = [work EXCEPT ![c].made = @ + 1]
        /\ buffer' = [buffer EXCEPT ![c] = Append(@, work[c].made + 1)]
        /\ UNCHANGED <<syncing, syncCh, phase, closed, listeners, inflight, late>>
    BY DEF Report
  <1>2. work[c].made \in Nat /\ work[c].made + 1 \in 0..Reports /\ buffer[c] \in Seq(0..Reports)
    BY <1>1, SyncAssumption DEF SyncTypeOK, SyncOrder
  <1>3. /\ work' \in [Channels -> [made : 0..Reports, state : {"idle", "running", "over"}]]
        /\ work'[c].made = work[c].made + 1
        /\ \A d \in Channels : work'[d].state = work[d].state
        /\ \A d \in Channels \ {c} : work'[d].made = work[d].made
    BY <1>1, <1>2 DEF SyncTypeOK
  <1>4. /\ buffer'[c] \in Seq(0..Reports) /\ Len(buffer'[c]) = Len(buffer[c]) + 1
        /\ \A i \in 1..Len(buffer[c]) : buffer'[c][i] = buffer[c][i]
        /\ buffer'[c][Len(buffer[c]) + 1] = work[c].made + 1
    <2>1. buffer'[c] = Append(buffer[c], work[c].made + 1)
      BY <1>1 DEF SyncOrder
    <2>2. QED
      BY <1>2, <2>1, AppendProperties
  <1>5. buffer' \in [Channels -> Seq(0..Reports)] /\ \A d \in Channels \ {c} : buffer'[d] = buffer[d]
    BY <1>1, <1>4 DEF SyncOrder
  <1>6. Len(buffer[c]) \in Nat
    BY <1>2, LenProperties
  <1>7. Received(c)' = Received(c) /\ \A d \in Channels \ {c} : Received(d)' = Received(d)
    <2>1. work'[c].made - Len(buffer'[c]) = work[c].made - Len(buffer[c])
      <3>1. \A a, b \in Nat : (a + 1) - (b + 1) = a - b
        OBVIOUS
      <3>2. work'[c].made = work[c].made + 1 /\ Len(buffer'[c]) = Len(buffer[c]) + 1
        BY <1>3, <1>4
      <3>3. QED
        BY <1>2, <1>6, <3>1, <3>2
    <2>2. \A d \in Channels \ {c} : work'[d].made = work[d].made /\ buffer'[d] = buffer[d]
      BY <1>3, <1>5
    <2>3. QED
      BY <2>1, <2>2 DEF Received
  <1>8. Started' = Started /\ \A d \in Channels : Sent(d)' = Sent(d)
    BY <1>1, <1>3 DEF Started, Sent
  <1>9. SyncTypeOK'
    BY <1>1, <1>3, <1>4, <1>5, <1>6, SyncAssumption DEF SyncTypeOK
  <1>10. \A i \in 1..Len(buffer'[c]) : buffer'[c][i] = Received(c)' + i
    <2> SUFFICES ASSUME NEW i \in 1..Len(buffer'[c]) PROVE buffer'[c][i] = Received(c) + i
      BY <1>7
    <2>1. CASE i \in 1..Len(buffer[c])
      BY <1>4, <2>1 DEF SyncOrder
    <2>2. CASE i = Len(buffer[c]) + 1
      BY <1>2, <1>4, <1>6, <2>2 DEF Received
    <2>3. QED
      BY <1>4, <1>6, <2>1, <2>2
  <1>11. SyncOrder'
    <2> SUFFICES ASSUME NEW d \in Channels
                 PROVE  /\ work'[d].state = "idle" =>
                             /\ work'[d].made = 0 /\ buffer'[d] = <<>> /\ listeners[d] = 0
                             /\ Sent(d) = {}
                        /\ Received(d) \in Nat
                        /\ \A i \in 1..Len(buffer'[d]) : buffer'[d][i] = Received(d)' + i
                        /\ \A msg \in Sent(d) : msg[3] <= Received(d)
                        /\ phase[1] = d => phase[2] <= Received(d)
      BY <1>1, <1>5, <1>7, <1>8 DEF SyncOrder
    <2>1. CASE d = c
      BY <1>1, <1>3, <1>10, <2>1 DEF SyncOrder
    <2>2. CASE d # c
      BY <1>1, <1>3, <1>5, <1>7, <2>2 DEF SyncOrder
    <2>3. QED
      BY <2>1, <2>2
  <1>12. OneToken'
    BY <1>1, <1>8 DEF OneToken
  <1>13. QED
    BY <1>9, <1>11, <1>12

LEMMA FinishHolds ==
  ASSUME SyncInv, NEW c \in Channels, Finish(c)
  PROVE  SyncInv'
  <1> USE DEF SyncInv
  <1>1. /\ work[c].state = "running" /\ work' = [work EXCEPT ![c].state = "over"]
        /\ inflight' = inflight \cup {<<"done", c, 0>>}
        /\ closed' = closed \cup {c}
        /\ UNCHANGED <<syncing, syncCh, phase, buffer, listeners, late>>
    BY DEF Finish
  <1>2. /\ work' \in [Channels -> [made : 0..Reports, state : {"idle", "running", "over"}]]
        /\ \A d \in Channels : /\ work'[d].made = work[d].made
                              /\ work'[d].state = IF d = c THEN "over" ELSE work[d].state
    BY <1>1 DEF SyncTypeOK
  <1>3. Started' = Started /\ \A d \in Channels : Sent(d)' = Sent(d) /\ Received(d)' = Received(d)
    BY <1>1, <1>2 DEF Started, Sent, Received
  <1>4. SyncTypeOK'
    BY <1>1, <1>2, SyncAssumption DEF SyncTypeOK
  <1>5. SyncOrder'
    BY <1>1, <1>2, <1>3 DEF SyncOrder
  <1>6. OneToken'
    BY <1>1, <1>3 DEF OneToken
  <1>7. QED
    BY <1>4, <1>5, <1>6

\* A listener turns into the message it brings, the oldest report of its channel,
\* or ends.
LEMMA ListenHolds ==
  ASSUME SyncInv, NEW c \in Channels, Listen(c)
  PROVE  SyncInv'
  <1> USE DEF SyncInv
  <1>1. /\ listeners[c] > 0 /\ listeners' = [listeners EXCEPT ![c] = @ - 1]
        /\ UNCHANGED <<syncing, syncCh, phase, work, closed, late>>
    BY DEF Listen
  <1>2. /\ listeners' \in [Channels \cup {NoChannel} -> Nat] /\ listeners[c] \in Nat
        /\ listeners'[c] = listeners[c] - 1
        /\ \A d \in Channels \ {c} : listeners'[d] = listeners[d]
    BY <1>1 DEF SyncTypeOK, NoChannel, Channels
  <1>3. buffer[c] \in Seq(0..Reports) /\ Len(buffer[c]) \in Nat /\ work[c].made \in 0..Reports
    BY LenProperties DEF SyncOrder, SyncTypeOK
  <1>4. Started' = Started
    BY <1>1 DEF Started
  <1>5. work[c].state # "idle"
    BY <1>1 DEF SyncOrder
  <1>6. CASE UNCHANGED <<buffer, inflight>>
    <2>1. \A d \in Channels : Sent(d)' = Sent(d) /\ Received(d)' = Received(d)
      BY <1>1, <1>6 DEF Sent, Received
    <2>2. SyncTypeOK'
      BY <1>1, <1>2, <1>6 DEF SyncTypeOK
    <2>3. SyncOrder'
      <3>1. \A d \in Channels : work[d].state = "idle" => listeners'[d] = listeners[d]
        BY <1>2, <1>5
      <3>2. QED
        BY <1>1, <1>4, <1>6, <2>1, <3>1 DEF SyncOrder
    <2>4. OneToken'
      <3> SUFFICES ASSUME ~late, NEW d \in Channels
                   PROVE  /\ listeners'[d] <= 1
                          /\ \A msg \in Sent(d) :
                               /\ listeners'[d] = 0 /\ Sent(d) = {msg}
                               /\ phase[1] = d => phase[2] <= msg[3]
        BY <1>1, <2>1 DEF OneToken
      <3>1. listeners'[d] <= listeners[d] /\ listeners[d] \in Nat /\ listeners'[d] \in Nat
        BY <1>2 DEF SyncTypeOK
      <3>2. QED
        BY <3>1 DEF OneToken
    <2>5. QED
      BY <2>2, <2>3, <2>4
  <1>7. CASE /\ buffer[c] # <<>>
             /\ buffer' = [buffer EXCEPT ![c] = Tail(@)]
             /\ inflight' = inflight \cup {<<"progress", c, Head(buffer[c])>>}
    <2>1. /\ Len(buffer[c]) > 0 /\ Head(buffer[c]) = buffer[c][1] /\ Tail(buffer[c]) \in Seq(0..Reports)
          /\ Len(Tail(buffer[c])) = Len(buffer[c]) - 1
          /\ \A i \in 1..Len(Tail(buffer[c])) : Tail(buffer[c])[i] = buffer[c][i + 1]
      <3>1. PICK q \in Seq(0..Reports) : q = buffer[c] /\ q # <<>>
        BY <1>3, <1>7
      <3>2. Len(q) \in Nat \ {0}
        BY <3>1, EmptySeq
      <3>3. /\ Tail(q) \in Seq(0..Reports) /\ Len(Tail(q)) = Len(q) - 1
            /\ \A i \in 1..Len(Tail(q)) : Tail(q)[i] = q[i + 1]
        BY <3>1, HeadTailProperties
      <3>4. QED
        BY <3>1, <3>2, <3>3
    <2>2. Head(buffer[c]) = Received(c) + 1 /\ Received(c) \in Nat /\ Head(buffer[c]) \in 0..Reports
      <3>1. 1 \in 1..Len(buffer[c])
        BY <1>3, <2>1
      <3>2. buffer[c][1] = Received(c) + 1 /\ Received(c) \in Nat
        BY <3>1 DEF SyncOrder
      <3>3. buffer[c][1] \in 0..Reports
        BY <1>3, <3>1, ElementOfSeq
      <3>4. QED
        BY <2>1, <3>2, <3>3
    <2>3. /\ buffer' \in [Channels -> Seq(0..Reports)] /\ buffer'[c] = Tail(buffer[c])
          /\ \A d \in Channels \ {c} : buffer'[d] = buffer[d]
      BY <1>7, <2>1 DEF SyncOrder
    <2>4. Received(c)' = Received(c) + 1 /\ \A d \in Channels \ {c} : Received(d)' = Received(d)
      BY <1>1, <1>3, <2>1, <2>3 DEF Received
    <2> DEFINE msg == <<"progress", c, Received(c) + 1>>
    <2>5. inflight' = inflight \cup {msg}
      BY <1>7, <2>2
    <2>6. Sent(c)' = Sent(c) \cup {msg} /\ \A d \in Channels \ {c} : Sent(d)' = Sent(d)
      BY <2>5 DEF Sent
    <2>7. SyncTypeOK'
      <3>1. inflight' \subseteq {"progress", "done"} \X Channels \X (0..Reports)
        BY <2>2, <2>5 DEF SyncTypeOK
      <3>2. \A d \in Channels : Len(buffer'[d]) <= Capacity
        <4>1. Len(buffer[c]) <= Capacity /\ Len(buffer[c]) - 1 <= Capacity
          BY <1>3, SyncAssumption DEF SyncTypeOK
        <4>2. Len(buffer'[c]) <= Capacity
          BY <2>1, <2>3, <4>1
        <4>3. \A d \in Channels \ {c} : Len(buffer'[d]) <= Capacity
          BY <2>3 DEF SyncTypeOK
        <4>4. QED
          BY <4>2, <4>3
      <3>3. QED
        BY <1>1, <1>2, <3>1, <3>2 DEF SyncTypeOK
    <2>8. SyncOrder'
      <3> SUFFICES ASSUME NEW d \in Channels
                   PROVE  /\ work[d].state = "idle" =>
                               /\ work[d].made = 0 /\ buffer'[d] = <<>> /\ listeners'[d] = 0
                               /\ Sent(d)' = {}
                          /\ Received(d)' \in Nat
                          /\ \A i \in 1..Len(buffer'[d]) : buffer'[d][i] = Received(d)' + i
                          /\ \A m \in Sent(d)' : m[3] <= Received(d)'
                          /\ phase[1] = d => phase[2] <= Received(d)'
        BY <1>1, <1>4, <2>3 DEF SyncOrder
      <3>1. CASE d = c
        <4>1. \A i \in 1..Len(buffer'[c]) : buffer'[c][i] = Received(c)' + i
          <5> SUFFICES ASSUME NEW i \in 1..Len(buffer'[c])
                       PROVE  buffer'[c][i] = Received(c) + 1 + i
            BY <2>4
          <5>1. i + 1 \in 1..Len(buffer[c]) /\ buffer'[c][i] = buffer[c][i + 1]
            BY <1>3, <2>1, <2>3
          <5>2. buffer[c][i + 1] = Received(c) + (i + 1)
            BY <5>1 DEF SyncOrder
          <5>3. QED
            BY <2>2, <5>1, <5>2
        <4>2. \A m \in Sent(c)' : m[3] <= Received(c)'
          <5>1. \A m \in Sent(c) : m[3] <= Received(c) /\ m[3] \in 0..Reports
            BY DEF SyncOrder, Sent, SyncTypeOK
          <5>2. QED
            BY <2>2, <2>4, <2>6, <5>1
        <4>3. phase[1] = c => phase[2] <= Received(c)'
          <5>1. phase[2] \in Nat
            BY DEF SyncOrder
          <5>2. QED
            BY <2>2, <2>4, <5>1 DEF SyncOrder
        <4>4. QED
          BY <1>5, <2>2, <2>4, <3>1, <4>1, <4>2, <4>3
      <3>2. CASE d # c
        <4>1. /\ buffer'[d] = buffer[d] /\ listeners'[d] = listeners[d]
              /\ Received(d)' = Received(d) /\ Sent(d)' = Sent(d)
          BY <1>2, <2>3, <2>4, <2>6, <3>2
        <4>2. QED
          BY <4>1 DEF SyncOrder
      <3>3. QED
        BY <3>1, <3>2
    <2>9. OneToken'
      <3> SUFFICES ASSUME ~late, NEW d \in Channels
                   PROVE  /\ listeners'[d] <= 1
                          /\ \A m \in Sent(d)' :
                               /\ listeners'[d] = 0 /\ Sent(d)' = {m}
                               /\ phase[1] = d => phase[2] <= m[3]
        BY <1>1 DEF OneToken
      <3>1. CASE d = c
        <4>1. listeners[c] = 1 /\ Sent(c) = {}
          BY <1>1, <1>2 DEF OneToken
        <4>2. phase[1] = c => phase[2] <= msg[3]
          <5>1. phase[2] \in Nat
            BY DEF SyncOrder
          <5>2. QED
            BY <2>2, <5>1 DEF SyncOrder
        <4>3. QED
          BY <1>2, <2>6, <3>1, <4>1, <4>2
      <3>2. CASE d # c
        BY <1>2, <2>6, <3>2 DEF OneToken
      <3>3. QED
        BY <3>1, <3>2
    <2>10. QED
      BY <2>7, <2>8, <2>9
  <1>8. QED
    BY <1>6, <1>7 DEF Listen

\* A report on the screen is the one its channel gave last, unless it came late; its
\* token goes to the channel the model holds, which is the same one or none.
LEMMA OnProgressHolds ==
  ASSUME SyncInv, OnProgress
  PROVE  SyncInv'
  <1> USE DEF SyncInv
  <1>1. PICK msg \in inflight :
          /\ msg[1] = "progress"
          /\ inflight' = inflight \ {msg}
          /\ phase' = <<msg[2], msg[3]>>
          /\ listeners' = [listeners EXCEPT ![syncCh] = @ + 1]
          /\ late' = (late \/ (syncing /\ msg[2] # syncCh))
          /\ UNCHANGED <<syncing, syncCh, work, buffer, closed>>
    BY DEF OnProgress
  <1>2. PICK c \in Channels : c = msg[2]
    BY DEF SyncTypeOK
  <1>3. msg \in Sent(c) /\ msg[3] \in 0..Reports /\ msg[3] <= Received(c)
    <2>1. msg \in Sent(c) /\ msg[3] \in 0..Reports
      BY <1>1, <1>2 DEF Sent, SyncTypeOK
    <2>2. QED
      BY <2>1 DEF SyncOrder
  <1>4. /\ listeners' \in [Channels \cup {NoChannel} -> Nat]
        /\ \A d \in Channels : /\ listeners[d] \in Nat
                              /\ listeners'[d] = IF d = syncCh THEN listeners[d] + 1 ELSE listeners[d]
    BY <1>1 DEF SyncTypeOK
  <1>5. /\ Started' = Started
        /\ \A d \in Channels : /\ Received(d)' = Received(d)
                              /\ Sent(d)' = Sent(d) \ {msg}
    BY <1>1 DEF Started, Received, Sent
  <1>6. SyncTypeOK'
    BY <1>1, <1>4 DEF SyncTypeOK
  <1>7. SyncOrder'
    <2>1. phase' \in (Channels \cup {NoChannel}) \X (0..Reports) /\ phase'[1] = c /\ phase'[2] = msg[3]
      BY <1>1, <1>2, <1>3
    <2>2. \A d \in Channels : work[d].state = "idle" => d # syncCh /\ Sent(d)' = {}
      <3> SUFFICES ASSUME NEW d \in Channels, work[d].state = "idle" PROVE d # syncCh /\ Sent(d)' = {}
        OBVIOUS
      <3>1. d \notin Started
        BY DEF Started
      <3>2. d # NoChannel
        BY DEF Channels, NoChannel
      <3>3. QED
        BY <1>5, <3>1, <3>2 DEF SyncOrder, SyncTypeOK
    <2>3. QED
      BY <1>1, <1>3, <1>4, <1>5, <2>1, <2>2 DEF SyncOrder
  <1>8. OneToken'
    <2> SUFFICES ASSUME ~late', NEW d \in Channels
                 PROVE  /\ listeners'[d] <= 1
                        /\ \A m \in Sent(d)' :
                             /\ listeners'[d] = 0 /\ Sent(d)' = {m}
                             /\ phase'[1] = d => phase'[2] <= m[3]
      BY DEF OneToken
    <2>1. ~late /\ syncCh \in {c, NoChannel}
      BY <1>1, <1>2 DEF SyncTypeOK
    <2>2. CASE d = c
      <3>1. listeners[c] = 0 /\ Sent(c) = {msg}
        BY <1>3, <2>1 DEF OneToken
      <3>2. QED
        BY <1>4, <1>5, <2>2, <3>1
    <2>3. CASE d # c
      <3>1. d # syncCh
        BY <2>1, <2>3 DEF Channels, NoChannel
      <3>2. Sent(d)' = Sent(d)
        BY <1>2, <1>5, <2>3 DEF Sent
      <3>3. phase'[1] # d
        BY <1>1, <1>2, <2>3
      <3>4. QED
        BY <1>4, <2>1, <3>1, <3>2, <3>3 DEF OneToken
    <2>4. QED
      BY <2>2, <2>3
  <1>9. QED
    BY <1>6, <1>7, <1>8

LEMMA OnSyncDoneHolds ==
  ASSUME SyncInv, OnSyncDone
  PROVE  SyncInv'
  <1> USE DEF SyncInv
  <1>1. PICK msg \in inflight :
          /\ msg[1] = "done"
          /\ inflight' = inflight \ {msg}
          /\ syncing' = FALSE /\ syncCh' = NoChannel
          /\ UNCHANGED <<phase, work, buffer, closed, listeners, late>>
    BY DEF OnSyncDone
  <1>2. /\ Started' = Started
        /\ \A d \in Channels : Received(d)' = Received(d) /\ Sent(d)' = Sent(d)
    BY <1>1 DEF Started, Received, Sent
  <1>3. SyncTypeOK'
    BY <1>1 DEF SyncTypeOK
  <1>4. SyncOrder'
    BY <1>1, <1>2 DEF SyncOrder
  <1>5. OneToken'
    BY <1>1, <1>2 DEF OneToken
  <1>6. QED
    BY <1>3, <1>4, <1>5

LEMMA SyncStep ==
  ASSUME SyncInv, SyncNext \/ UNCHANGED syncVars
  PROVE  SyncInv'
  <1>1. CASE UNCHANGED syncVars
    BY <1>1 DEF SyncInv, SyncTypeOK, SyncOrder, OneToken, Started, Sent, Received, syncVars
  <1>2. QED
    BY <1>1, StartSyncHolds, ReportHolds, FinishHolds, ListenHolds, OnProgressHolds, OnSyncDoneHolds
       DEF SyncNext

-------------------------------------------------------------------------------
(* The session.                                                                *)

Inv == ClipInv /\ UnlockInv /\ SyncInv /\ copies \in 0..MaxCopies

\* A step of the session is a step of one of the three, at most.
LEMMA Parts ==
  ASSUME copies \in 0..MaxCopies, [Next]_vars
  PROVE  /\ (ClipCopies \/ ClipClears \/ ClipRest) \/ UNCHANGED clipVars
         /\ (up /\ UnlockNext) \/ UNCHANGED unlockVars
         /\ (up /\ SyncNext) \/ UNCHANGED syncVars
         /\ copies' \in 0..MaxCopies
  <1> USE SessionAssumption
  <1>1. CASE Copy \/ CopyCommand \/ CliCopy \/ OtherCopy
    BY <1>1 DEF Copy, CopyCommand, CliCopy, OtherCopy, Copies, ClipCopies
  <1>2. CASE AskToSync
    BY <1>2 DEF AskToSync, Sync, SyncNext
  <1>3. CASE Clip(Quit) \/ Clip(Killed) \/ \E c \in Clis : Clip(CliKilled(c))
    BY <1>3 DEF Clip, ClipRest
  <1>4. CASE Ul(Answer) \/ Ul(Reopen) \/ Ul(Skip) \/ UnlockDone
    BY <1>4 DEF Ul, UnlockDone, UnlockNext, UnlockKeys
  <1>5. CASE CountDown \/ Leave \/ \E c \in Clis : WaitOver(c)
    BY <1>5 DEF CountDown, Leave, WaitOver, Clip, ClipRest
  <1>6. CASE \E p \in Procs : Clear(p) \/ WriteNil(p)
    BY <1>6 DEF Clear, WriteNil, Clip, ClipClears
  <1>7. CASE (\E c \in Channels : SyncWork(c) \/ SyncListen(c)) \/ SyncProgressMsg \/ SyncDoneMsg
    BY <1>7 DEF SyncWork, SyncListen, SyncProgressMsg, SyncDoneMsg, Sync, SyncNext
  <1>8. CASE UNCHANGED vars
    BY <1>8 DEF vars
  <1>9. QED
    BY <1>1, <1>2, <1>3, <1>4, <1>5, <1>6, <1>7, <1>8 DEF Next

LEMMA ClipStep ==
  ASSUME ClipInv, ClipCopies \/ ClipClears \/ ClipRest \/ UNCHANGED clipVars
  PROVE  ClipInv'
  <1>1. CASE UNCHANGED clipVars
    BY <1>1 DEF ClipInv, ClipTypeOK, ClipOK, clipVars
  <1>2. QED
    BY <1>1, ClipCopiesHold, ClipClearsHold, ClipRestHolds

LEMMA UnlockStep ==
  ASSUME UnlockInv, UnlockNext \/ UNCHANGED unlockVars
  PROVE  UnlockInv'
  <1>1. CASE UNCHANGED unlockVars
    BY <1>1 DEF UnlockInv, UnlockTypeOK, UnlockOK, NothingMissing, Fits, Password, unlockVars
  <1>2. QED
    BY <1>1, UnlockKeysHold, UnlockDoneHolds DEF UnlockNext

LEMMA SessionInvariant == Spec => []Inv
  <1>1. Init => Inv
    BY SessionAssumption, ClipInitHolds, UnlockInitHolds, SyncInitHolds DEF Init, Inv
  <1>2. Inv /\ [Next]_vars => Inv'
    BY Parts, ClipStep, UnlockStep, SyncStep DEF Inv
  <1>3. QED
    BY <1>1, <1>2, PTL DEF Spec

\* Quitting waits for its clear, an unlock that is busy has an open running, no more
\* than two opens ever run at once, and a sync shows exactly while the model holds
\* its channel (clip.go, unlock.go, sync.go).
THEOREM SessionTypes == Spec => []TypeOK
  <1>1. Inv => TypeOK
    BY DEF Inv, ClipInv, UnlockInv, SyncInv, TypeOK
  <1>2. QED
    BY <1>1, SessionInvariant, PTL

\* The session that comes up is short of no source but those that were skipped or
\* could not be read, however many opens ran and whatever order their results came
\* in (unlock.go:243-330).
THEOREM NoSourceIsMissing == Spec => []NothingMissing
  <1>1. Inv => NothingMissing
    BY DEF Inv, UnlockInv
  <1>2. QED
    BY <1>1, SessionInvariant, PTL

\* With one open at a time, a password that opened its vault is not asked for again
\* (unlock.go:223-229).
THEOREM AcceptedForGood == Spec => []AcceptedOnce
  <1>1. Inv => AcceptedOnce
    BY DEF Inv, UnlockInv, UnlockOK, AcceptedOnce
  <1>2. QED
    BY <1>1, SessionInvariant, PTL

\* What a clear takes off the clipboard is a secret, unless another process wrote
\* between its read and its write: whatever the number of processes, and whichever
\* of them copy meanwhile (clip.go:58-75).
THEOREM ClearsTakeSecrets == Spec => OnlySecretsCleared
  <1>1. Inv => \A p \in Procs :
          holder[p] # "none" /\ board' = Empty /\ holder'[p] = "none" =>
             IF p \in clipPast.crossed THEN clipPast.source # p ELSE board \in Secrets
    BY DEF Inv, ClipInv, ClipOK
  <1>2. QED
    BY <1>1, SessionInvariant, PTL DEF OnlySecretsCleared

\* The reports of a sync are shown in the order they were made, unless one of an
\* earlier sync came late: the token that the update loop hands back to the channel
\* keeps two of them from being on their way at once (sync.go:52-91, tui.go:620-625).
THEOREM ReportsInOrder == Spec => PhaseForward
  <1>1. ASSUME Inv, [Next]_vars, ~late', phase'[1] = phase[1]
        PROVE  phase'[2] >= phase[2]
    <2>1. SyncInv /\ (SyncNext \/ UNCHANGED syncVars) /\ phase[2] \in Nat
      BY <1>1, Parts DEF Inv, SyncInv, SyncOrder
    <2>2. CASE StartSync
      <3>1. PICK n \in 0..MaxSyncs : Started = 1..n
        BY <2>1 DEF SyncInv, SyncOrder
      <3>2. Cardinality(Started) = n
        BY <3>1, FS_Interval, SyncAssumption
      <3>3. PICK c \in Channels : c = n + 1 /\ c \notin Started /\ phase' = <<c, 0>>
        BY <2>2, <3>1, <3>2, SyncAssumption DEF StartSync, Channels
      <3>4. Received(c) = 0
        BY <2>1, <3>3, EmptySeq DEF SyncInv, SyncOrder, Started, Received
      <3>5. QED
        BY <1>1, <2>1, <3>3, <3>4 DEF SyncInv, SyncOrder
    <2>3. CASE OnProgress
      <3>1. PICK msg \in inflight :
              msg[1] = "progress" /\ phase' = <<msg[2], msg[3]>> /\ late' = (late \/ (syncing /\ msg[2] # syncCh))
        BY <2>3 DEF OnProgress
      <3>2. PICK c \in Channels : c = msg[2]
        BY <2>1 DEF SyncInv, SyncTypeOK
      <3>3. msg \in Sent(c) /\ msg[3] \in Nat /\ ~late
        BY <1>1, <2>1, <3>1, <3>2 DEF Sent, SyncInv, SyncTypeOK
      <3>4. phase[1] = c => phase[2] <= msg[3]
        BY <2>1, <3>3 DEF SyncInv, OneToken
      <3>5. QED
        BY <1>1, <2>1, <3>1, <3>2, <3>3, <3>4
    <2>4. CASE UNCHANGED phase
      BY <2>1, <2>4
    <2>5. QED
      BY <2>1, <2>2, <2>3, <2>4 DEF SyncNext, Report, Finish, Listen, OnSyncDone, syncVars
  <1>2. QED
    BY <1>1, SessionInvariant, PTL DEF PhaseForward, Spec
===============================================================================
