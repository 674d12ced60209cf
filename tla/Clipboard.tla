------------------------------ MODULE Clipboard ------------------------------
(* The system clipboard, as the processes of harmos use it: package clip        *)
(* (Copy, CopyUntracked, ClearIfUnchanged under one mutex per process), the      *)
(* interface's countdown with its tick commands, the way out, and the command     *)
(* line's `get --copy`.  Other programs write the clipboard whenever they like.   *)
(* Which copies are possible in which state of the interface is Session's.       *)
EXTENDS Naturals, FiniteSets

CONSTANTS
    Secrets,        \* what harmos copies and has to clear
    Clis,           \* `harmos get --copy` and `gen --copy`, each run once
    Timeout         \* the countdown, in ticks

Tui == "tui"
Procs == Clis \cup {Tui}

Empty == "empty"
Command == "command"    \* a `harmos get` invocation, copied untracked
Foreign == "foreign"    \* what another program puts there
Nothing == "nothing"    \* haveLast is false

ASSUME ClipboardAssumption ==
    /\ Timeout \in Nat \ {0}
    /\ IsFiniteSet(Secrets) /\ {Tui, Foreign} \cap Clis = {}

Values == Secrets \cup {Empty, Command, Foreign}

VARIABLES
    up,         \* the interface is running
    board,      \* what the clipboard holds
    last,       \* per process: the value whose hash it keeps
    remaining,  \* the countdown on the screen
    ticks,      \* tick commands that have not fired yet
    clears,     \* ClearIfUnchanged calls waiting for the mutex, by what they are for
    holder,     \* per process: the call that has read the clipboard and not yet written it
    leaving,    \* where tea.Sequence(clearClip, tea.Quit) is
    cli,        \* per command-line process: where it is
    clipPast        \* history: see ClipHistory

clipVars == <<up, board, last, remaining, ticks, clears, holder, leaving, cli, clipPast>>

\* Why a call of ClearIfUnchanged was made.
Purposes == {"expiry", "quit", "cli"}

ClipHistory ==
    [source : Procs \cup {Foreign},     \* who wrote what the clipboard holds
     crossed : SUBSET Procs,            \* whose read is older than what is there
     excuse : SUBSET {"failed", "killed", "quitting"}]

ClipInit ==
    /\ up = TRUE /\ board = Empty
    /\ last = [p \in Procs |-> Nothing]
    /\ remaining = 0 /\ ticks = 0
    /\ clears = [w \in {"expiry", "quit"} |-> 0]
    /\ holder = [p \in Procs |-> "none"]
    /\ leaving = "no"
    /\ cli = [c \in Clis |-> "idle"]
    /\ clipPast = [source |-> Foreign, crossed |-> {}, excuse |-> {}]

\* What a write of the clipboard leaves for the properties to look at: every
\* process between its read and its write now holds an outdated answer.
Wrote(who) ==
    clipPast' = [clipPast EXCEPT !.source = who,
                 !.crossed = {p \in Procs : holder[p] # "none"},
                 !.excuse = @ \cup IF who = Tui /\ leaving = "quit" THEN {"quitting"} ELSE {}]

-------------------------------------------------------------------------------
(* The interface.                                                              *)

\* (mutant) no copy starts a tick
CopyStringNoTick(v) ==
    /\ up /\ holder[Tui] = "none"
    /\ board' = v /\ last' = [last EXCEPT ![Tui] = v]
    /\ remaining' = Timeout
    /\ UNCHANGED <<up, ticks, clears, holder, leaving, cli>>
    /\ Wrote(Tui)

\* A secret is copied: the update loop waits for the mutex, then writes, and
\* starts a tick unless a countdown shows.  A copy that fails changes nothing.
CopyString(v) ==
    /\ up /\ holder[Tui] = "none"
    /\ board' = v /\ last' = [last EXCEPT ![Tui] = v]
    /\ remaining' = Timeout
    /\ ticks' = IF remaining > 0 THEN ticks ELSE ticks + 1
    /\ UNCHANGED <<up, clears, holder, leaving, cli>>
    /\ Wrote(Tui)

\* (mutant) the command is copied without taking the mutex
CopyGetCommandUnlocked ==
    /\ up
    /\ board' = Command /\ last' = [last EXCEPT ![Tui] = Nothing]
    /\ remaining' = 0
    /\ UNCHANGED <<up, ticks, clears, holder, leaving, cli>>
    /\ Wrote(Tui)

\* `c` copies the scriptable command, untracked, and stops the countdown; the
\* tick that carried it is still pending.
CopyGetCommand ==
    /\ up /\ holder[Tui] = "none"
    /\ board' = Command /\ last' = [last EXCEPT ![Tui] = Nothing]
    /\ remaining' = 0
    /\ UNCHANGED <<up, ticks, clears, holder, leaving, cli>>
    /\ Wrote(Tui)

\* tickMsg: count down, go on, or clear; with nothing to count the loop ends.
Tick ==
    /\ up /\ ticks > 0
    /\ remaining' = IF remaining > 0 THEN remaining - 1 ELSE 0
    /\ ticks' = IF remaining' > 0 THEN ticks ELSE ticks - 1
    /\ clears' = IF remaining = 1 THEN [clears EXCEPT !["expiry"] = @ + 1] ELSE clears
    /\ UNCHANGED <<up, board, last, holder, leaving, cli, clipPast>>

\* q, ctrl+c, or the quit guard's answer: clearClip first, tea.Quit after it.
Quit ==
    /\ up /\ leaving = "no"
    /\ leaving' = "clear"
    /\ clears' = [clears EXCEPT !["quit"] = @ + 1]
    /\ UNCHANGED <<up, board, last, remaining, ticks, holder, cli, clipPast>>

QuitMsg ==
    /\ up /\ leaving = "quit"
    /\ up' = FALSE
    /\ UNCHANGED <<board, last, remaining, ticks, clears, holder, leaving, cli, clipPast>>

\* SIGTERM or SIGHUP: the runtime ends the program and no clearClip runs.
Killed ==
    /\ up /\ up' = FALSE
    /\ clipPast' = [clipPast EXCEPT !.excuse = @ \cup {"killed"}]
    /\ UNCHANGED <<board, last, remaining, ticks, clears, holder, leaving, cli>>

-------------------------------------------------------------------------------
(* ClearIfUnchanged: under the mutex it forgets what it tracks, reads, compares,  *)
(* and writes nil.  Another process may write between the two.                   *)

Alive(p) == IF p = Tui THEN up ELSE cli[p] = "clearing"

\* The calls p has waiting.
Waiting(p) ==
    IF p = Tui THEN {w \in {"expiry", "quit"} : clears[w] > 0} ELSE {"cli"}

\* The call made for w returns.
Returned(p, w) ==
    /\ leaving' = IF w = "quit" THEN "quit" ELSE leaving
    /\ cli' = IF p = Tui THEN cli ELSE [cli EXCEPT ![p] = "gone"]

\* (mutant) clears whatever is there
ClearReadAnything(p) ==
    /\ Alive(p) /\ holder[p] = "none"
    /\ \E w \in Waiting(p) :
          /\ clears' = IF p = Tui THEN [clears EXCEPT ![w] = @ - 1] ELSE clears
          /\ last' = [last EXCEPT ![p] = Nothing]
          /\ IF last[p] # Nothing
             THEN /\ holder' = [holder EXCEPT ![p] = w]
                  /\ clipPast' = [clipPast EXCEPT !.crossed = @ \ {p}]
                  /\ UNCHANGED <<leaving, cli>>
             ELSE Returned(p, w) /\ UNCHANGED <<holder, clipPast>>
    /\ UNCHANGED <<up, board, remaining, ticks>>

ClearRead(p) ==
    /\ Alive(p) /\ holder[p] = "none"
    /\ \E w \in Waiting(p) :
          /\ clears' = IF p = Tui THEN [clears EXCEPT ![w] = @ - 1] ELSE clears
          /\ last' = [last EXCEPT ![p] = Nothing]
          /\ IF last[p] # Nothing /\ board = last[p]
             THEN /\ holder' = [holder EXCEPT ![p] = w]
                  /\ clipPast' = [clipPast EXCEPT !.crossed = @ \ {p}]
                  /\ UNCHANGED <<leaving, cli>>
             ELSE Returned(p, w) /\ UNCHANGED <<holder, clipPast>>
    /\ UNCHANGED <<up, board, remaining, ticks>>

\* The read fails: what was tracked has been forgotten already.
ClearReadFails(p) ==
    /\ Alive(p) /\ holder[p] = "none" /\ last[p] # Nothing
    /\ \E w \in Waiting(p) :
          /\ clears' = IF p = Tui THEN [clears EXCEPT ![w] = @ - 1] ELSE clears
          /\ last' = [last EXCEPT ![p] = Nothing]
          /\ Returned(p, w)
    /\ clipPast' = [clipPast EXCEPT !.excuse = @ \cup {"failed"}]
    /\ UNCHANGED <<up, board, remaining, ticks, holder>>

ClearWrite(p) ==
    /\ Alive(p) /\ holder[p] # "none"
    /\ board' = Empty
    /\ holder' = [holder EXCEPT ![p] = "none"]
    /\ Returned(p, holder[p])
    /\ clipPast' = [clipPast EXCEPT
          !.source = Foreign,
          !.crossed = {q \in Procs \ {p} : holder[q] # "none"}]
    /\ UNCHANGED <<up, last, remaining, ticks, clears>>

ClearWriteFails(p) ==
    /\ Alive(p) /\ holder[p] # "none"
    /\ holder' = [holder EXCEPT ![p] = "none"]
    /\ Returned(p, holder[p])
    /\ clipPast' = [clipPast EXCEPT !.excuse = @ \cup {"failed"}]
    /\ UNCHANGED <<up, board, last, remaining, ticks, clears>>

-------------------------------------------------------------------------------
(* The command line, and everybody else.                                       *)

\* copyConcealed: copy, then wait for the timeout or an interrupt.
CopyConcealed(c, v) ==
    /\ cli[c] = "idle"
    /\ cli' = [cli EXCEPT ![c] = "waiting"]
    /\ board' = v /\ last' = [last EXCEPT ![c] = v]
    /\ UNCHANGED <<up, remaining, ticks, clears, holder, leaving>>
    /\ Wrote(c)

TimeoutOrInterrupt(c) ==
    /\ cli[c] = "waiting"
    /\ cli' = [cli EXCEPT ![c] = "clearing"]
    /\ UNCHANGED <<up, board, last, remaining, ticks, clears, holder, leaving, clipPast>>

\* SIGTERM, or an interrupt before NotifyContext is in place.
CliKilled(c) ==
    /\ cli[c] \in {"waiting", "clearing"}
    /\ cli' = [cli EXCEPT ![c] = "gone"]
    /\ clipPast' = [clipPast EXCEPT !.excuse = @ \cup {"killed"}]
    /\ UNCHANGED <<up, board, last, remaining, ticks, clears, holder, leaving>>

ForeignCopy ==
    /\ board # Foreign
    /\ board' = Foreign
    /\ UNCHANGED <<up, last, remaining, ticks, clears, holder, leaving, cli>>
    /\ Wrote(Foreign)

ClipTypeOK ==
    /\ up \in BOOLEAN /\ board \in Values
    /\ last \in [Procs -> Secrets \cup {Nothing}]
    /\ remaining \in 0..Timeout /\ ticks \in Nat
    /\ clears \in [{"expiry", "quit"} -> Nat]
    /\ holder \in [Procs -> Purposes \cup {"none"}]
    /\ leaving \in {"no", "clear", "quit"}
    /\ cli \in [Clis -> {"idle", "waiting", "clearing", "gone"}]
    /\ clipPast \in ClipHistory
    /\ leaving = "clear" => clears["quit"] = 1 \/ holder[Tui] = "quit"
===============================================================================
