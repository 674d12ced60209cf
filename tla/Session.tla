------------------------------- MODULE Session -------------------------------
(* One run of the interface beside the command line: unlocking first, then       *)
(* copying and syncing, and the way out at any moment.  The clipboard, the unlock  *)
(* phase and a sync share the program's life, its keyboard, and nothing else.    *)
EXTENDS Clipboard, Unlock, SyncProgress

CONSTANTS
    WorldSet,   \* the worlds the program is started in
    MaxCopies   \* bound: what is copied, by whomever

ASSUME SessionAssumption == WorldSet \subseteq Worlds /\ MaxCopies \in Nat

VARIABLES copies

vars == <<clipVars, unlockVars, syncVars, copies>>

Init == ClipInit /\ UnlockInit(WorldSet) /\ SyncInit /\ copies = 0

Clip(A) == A /\ UNCHANGED <<unlockVars, syncVars, copies>>
Ul(A) == up /\ A /\ UNCHANGED <<clipVars, syncVars, copies>>
Sync(A) == up /\ A /\ UNCHANGED <<clipVars, unlockVars, copies>>

\* What a reader, a script or another program starts.  Bounds: MaxCopies of them,
\* once the vault is open and no second open is left, before which there is nothing
\* to copy; and a behaviour copies or syncs, since the two share no state.
Copies(A) ==
    /\ ~locked /\ opens = {} /\ Started = {}
    /\ copies < MaxCopies /\ copies' = copies + 1
    /\ A /\ UNCHANGED <<unlockVars, syncVars>>

Copy == \E v \in Secrets : Copies(CopyString(v))
CopyCommand == Copies(CopyGetCommand)
CliCopy == \E c \in Clis, v \in Secrets : Copies(CopyConcealed(c, v))
OtherCopy == Copies(ForeignCopy)
AskToSync == ~locked /\ opens = {} /\ copies = 0 /\ Sync(StartSync)

\* What runs by itself: the runtime's timers, commands and messages, and the
\* other process.
CountDown == Clip(Tick)
Clear(p) == Clip(ClearRead(p) \/ ClearReadFails(p))
WriteNil(p) == Clip(ClearWrite(p) \/ ClearWriteFails(p))
Leave == Clip(QuitMsg)
WaitOver(c) == Clip(TimeoutOrInterrupt(c))
UnlockDone == Ul(OnUnlockDone)
SyncWork(c) == Sync(Report(c) \/ Finish(c))
SyncListen(c) == Sync(Listen(c))
SyncProgressMsg == Sync(OnProgress)
SyncDoneMsg == Sync(OnSyncDone)

Next ==
    \/ Copy \/ CopyCommand \/ CliCopy \/ OtherCopy \/ AskToSync
    \/ Clip(Quit) \/ Clip(Killed) \/ \E c \in Clis : Clip(CliKilled(c))
    \/ Ul(Answer) \/ Ul(Reopen) \/ Ul(Skip)
    \/ CountDown \/ Leave \/ \E c \in Clis : WaitOver(c)
    \/ \E p \in Procs : Clear(p) \/ WriteNil(p)
    \/ UnlockDone
    \/ \E c \in Channels : SyncWork(c) \/ SyncListen(c)
    \/ SyncProgressMsg \/ SyncDoneMsg

\* Timers fire, commands run, a blocked channel operation that can go on does,
\* and the update loop takes what was sent to it.  Nobody has to press a key.
Fairness ==
    /\ WF_vars(CountDown) /\ WF_vars(Leave)
    /\ \A c \in Clis : WF_vars(WaitOver(c))
    /\ \A p \in Procs : WF_vars(Clear(p)) /\ WF_vars(WriteNil(p))
    /\ WF_vars(UnlockDone)
    /\ \A c \in Channels : WF_vars(SyncWork(c)) /\ WF_vars(SyncListen(c))
    /\ WF_vars(SyncProgressMsg) /\ WF_vars(SyncDoneMsg)

Spec == Init /\ [][Next]_vars /\ Fairness

-------------------------------------------------------------------------------
(* Properties.                                                                 *)

\* Types, and: quitting waits for its clear, an unlock that is busy has an open
\* running, and a sync shows exactly while the model holds its channel.
TypeOK == ClipTypeOK /\ UnlockTypeOK /\ SyncTypeOK /\ copies \in 0..MaxCopies

\* Clearing takes a secret off the clipboard and nothing else; only a write of
\* another process between the read and the write is wiped with it, never one of
\* the same process, whose copies wait for the mutex (clip.go:58-75).
OnlySecretsCleared ==
    [][\A p \in Procs :
          holder[p] # "none" /\ board' = Empty /\ holder'[p] = "none" =>
             IF p \in clipPast.crossed THEN clipPast.source # p ELSE board \in Secrets]_vars

\* A secret that was copied leaves the clipboard: the countdown, the way out or
\* the command line's wait clears it, whatever was copied in between - unless a
\* read or write of the clipboard failed while clearing, a process was killed, or
\* the copy came between the clear and tea.Quit of the way out (tui.go:590-596,
\* :677, get.go:151).
SecretsLeave ==
    (board \in Secrets /\ clipPast.excuse = {}) ~> (board \notin Secrets \/ clipPast.excuse # {})

\* A source the session comes up without is named as excluded, and could not be read, or was skipped on
\* purpose: none is missing for a password that was given and thrown away, or
\* never asked for (unlock.go:243-254, :300).
NothingMissing ==
    ~locked => opened \cup excluded.skipped \cup excluded.failed = Sources
               /\ excluded.failed \cap world.readable = {}

\* Once a local vault's password was accepted, no later round asks for it, however
\* the master and the other sources fare (unlock.go:223-229), unless an open was
\* started while another one ran: the open that starts by itself does not set
\* ulBusy (tui.go:272), and the result of the older credentials may come last.
AcceptedOnce == locked /\ ~unlockPast.doubled => ul.todo \cap unlockPast.opened = {}

\* With the right credential given or saved for all that was not skipped, and an entry in
\* what opens, the vault comes up (unlock.go:290-330).
ReadyToOpen ==
    /\ ul.busy
    /\ \A o \in opens : Rejected(o) \subseteq ul.skip /\ Opened(o) \cap world.full # {}
RightAnswersOpen == (locked /\ ReadyToOpen) ~> (~locked \/ ~up)

\* A sync ends on the screen: its goroutine never stays blocked on the full
\* channel, whatever comes late from the sync before it (sync.go:52-91).
SyncEnds == syncing ~> (~syncing \/ ~up)

\* The phase on the screen goes forward, unless a message of an earlier sync came
\* late and left a second listener (tui.go:620-625).
PhaseForward ==
    [][~late' /\ phase'[1] = phase[1] => phase'[2] >= phase[2]]_vars
===============================================================================
