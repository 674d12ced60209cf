------------------------------- MODULE Unlock -------------------------------
(* internal/tui/unlock.go and internal/session: the credentials the start of the *)
(* program collects, the open that runs off the update loop with them, and what  *)
(* is asked again.  The steps still to be answered are a set: the master comes   *)
(* first, then the sources by their number, and no answered step is looked at    *)
(* again.                                                                        *)
EXTENDS Naturals, FiniteSets, FiniteSetsExt

CONSTANTS
    Sources,        \* numbered in the order of the config
    Caches,         \* which of them are Pleasant caches
    Masters         \* the masters the caches are under

Files == Sources \ Caches

Master == 0             \* the step that asks for the shared master
None == "none"          \* no password: of a keyfile-only vault, or not given
Right == "right"        \* the password of a local vault
Wrong == "wrong"

ASSUME UnlockAssumption ==
    /\ Sources \subseteq Nat \ {Master} /\ Caches \subseteq Sources
    /\ {None, Right, Wrong} \cap Masters = {}

\* What can be typed into a step.
MasterAnswers == Masters \cup {Wrong, None}
FileAnswers == {Right, Wrong, None}
Answers(step) == IF step = Master THEN MasterAnswers ELSE FileAnswers

VARIABLES
    world,      \* the files and the keyring, which nothing here changes
    locked,     \* the unlock phase owns the keyboard
    ul,         \* the ul* fields of the model
    opens,      \* the opens running off the loop: the credentials each captured
    opened,     \* the sources the session shows
    excluded,   \* the sources it names as excluded: skipped, and failed
    unlockPast  \* history: the local vaults some open has opened, and whether an
                \* open was started while another one ran

unlockVars == <<world, locked, ul, opens, opened, excluded, unlockPast>>

\* What has been typed for each local vault.
Got == [Files -> FileAnswers \cup {"unanswered"}]

NothingPast == [opened |-> {}, doubled |-> FALSE]

\* key: what opens the source; readable: it is there and whole; saved: what
\* HARMOS_MASTER or the keyring hold; full: the sources that hold an entry.
Worlds ==
    [key : [Caches -> Masters], pw : [Files -> {Right, None}], readable : SUBSET Sources,
     saved : {m \in [Files \cup {Master} -> MasterAnswers \cup FileAnswers] :
                \A s \in Files \cup {Master} : m[s] \in Answers(s)},
     full : SUBSET Sources]

Asks(w, s) ==
    IF s = Master THEN Caches # {} /\ w.saved[Master] = None ELSE w.saved[s] = None

\* NewLocked: the steps for whatever is not saved, and the open that starts by
\* itself when there is none (Model.Init, which leaves ulBusy alone).
UnlockInit(WorldSet) ==
    /\ world \in WorldSet
    /\ locked = TRUE
    /\ ul = [todo |-> {s \in Files \cup {Master} : Asks(world, s)}, busy |-> FALSE,
             master |-> world.saved[Master], got |-> [f \in Files |-> "unanswered"], skip |-> {}]
    /\ opens = IF ul.todo = {}
               THEN {[id |-> 1, master |-> ul.master, got |-> ul.got]} ELSE {}
    /\ opened = {} /\ excluded = [skipped |-> {}, failed |-> {}] /\ unlockPast = NothingPast

\* openCmd: the credentials as they are when it is called.
Captured(u) == [id |-> IF \E o \in opens : o.id = 1 THEN 2 ELSE 1, master |-> u.master, got |-> u.got]

\* After an answer: the next step, or the open.
Advance(u) ==
    IF u.todo # {}
    THEN ul' = u /\ UNCHANGED <<opens, unlockPast>>
    ELSE /\ ul' = [u EXCEPT !.busy = TRUE]
         /\ opens' = opens \cup {Captured(u)}
         /\ unlockPast' = [unlockPast EXCEPT !.doubled = @ \/ opens # {}]

OnStep == ul.todo # {}
Step == Min(ul.todo)

\* enter on a step.
Answer ==
    /\ locked /\ ~ul.busy /\ OnStep
    /\ \E a \in Answers(Step) :
          Advance(IF Step = Master
                  THEN [ul EXCEPT !.todo = @ \ {Step}, !.master = a]
                  ELSE [ul EXCEPT !.todo = @ \ {Step}, !.got[Step] = a])
    /\ UNCHANGED <<world, locked, opened, excluded>>

\* enter with every step answered: another open, with the same answers.
Reopen ==
    /\ locked /\ ~ul.busy /\ ~OnStep
    /\ Advance(ul)
    /\ UNCHANGED <<world, locked, opened, excluded>>

\* esc: the source is left out; the master cannot be.
Skip ==
    /\ locked /\ ~ul.busy /\ OnStep /\ Step # Master
    /\ Advance([ul EXCEPT !.todo = @ \ {Step}, !.skip = @ \cup {Step}])
    /\ UNCHANGED <<world, locked, opened, excluded>>

-------------------------------------------------------------------------------
(* session.Open, and its result.                                               *)

\* The AskFunc of openCmd: what was typed comes before what is saved, and a
\* source with neither gets the empty password.
Password(o, f) ==
    IF o.got[f] # "unanswered" THEN o.got[f] ELSE world.saved[f]

Fits(o, s) ==
    IF s \in Caches THEN o.master = world.key[s] ELSE Password(o, s) = world.pw[s]

\* A source that cannot be read is no matter of credentials.
Opened(o) == {s \in world.readable : Fits(o, s)}
Rejected(o) == world.readable \ Opened(o)

\* (mutant) whoever was skipped is asked for again
AskAgainSkipped(u, o) == Rejected(o)

\* (mutant) whoever has answered is not asked for again
AskAgainUnanswered(u, o) == Rejected(o) \ {f \in Files : u.got[f] # "unanswered"}

\* The rejected sources that are asked for again: not those skipped on purpose.
AskAgain(u, o) == Rejected(o) \ u.skip

\* The steps of the next round: the master once, and each local vault.
RetrySteps(again) ==
    (IF again \cap Caches # {} THEN {Master} ELSE {}) \cup (again \cap Files)

\* (mutant) the answers are thrown away with the steps that asked for them
ForgetfulRetry(u, again) ==
    [u EXCEPT !.busy = FALSE, !.todo = RetrySteps(again),
              !.got = [f \in Files |-> "unanswered"]]

\* (mutant) the keyboard stays blocked
BusyRetry(u, again) == [u EXCEPT !.todo = RetrySteps(again)]

\* The answers are kept beside the steps, so a rejected source does not cost the
\* others theirs.
Retry(u, again) == [u EXCEPT !.busy = FALSE, !.todo = RetrySteps(again)]

\* While browsing, with no open left running, nothing reads the ul* fields again.
Unread == [todo |-> {}, busy |-> FALSE, master |-> None,
           got |-> [f \in Files |-> "unanswered"], skip |-> {}]

\* unlockDoneMsg: ask again for what was rejected; stay, with nothing to ask, when
\* no entry came out; else browse what opened.  The result of a second open does
\* the same to a session that is browsing already.
OnUnlockDone ==
    \E o \in opens :
       LET again == AskAgain(ul, o) IN
       /\ opens' = opens \ {o}
       /\ \/ /\ again # {}
             /\ ul' = Retry(ul, again)
             /\ unlockPast' = [unlockPast EXCEPT !.opened = @ \cup (Opened(o) \cap Files)]
             /\ UNCHANGED <<locked, opened, excluded>>
          \/ /\ again = {} /\ Opened(o) \cap world.full = {}
             /\ ul' = [ul EXCEPT !.busy = FALSE]
             /\ unlockPast' = [unlockPast EXCEPT !.opened = @ \cup (Opened(o) \cap Files)]
             /\ UNCHANGED <<locked, opened, excluded>>
          \/ /\ again = {} /\ Opened(o) \cap world.full # {}
             /\ locked' = FALSE
             /\ opened' = Opened(o)
             /\ excluded' = [skipped |-> ul.skip \ Opened(o),
                            failed |-> Sources \ (Opened(o) \cup ul.skip)]
             /\ IF opens' = {} THEN ul' = Unread /\ unlockPast' = NothingPast
                ELSE ul' = [ul EXCEPT !.busy = FALSE, !.todo = {}] /\ UNCHANGED unlockPast
       /\ UNCHANGED world

UnlockKeys == Answer \/ Reopen \/ Skip

UnlockTypeOK ==
    /\ world \in Worlds /\ locked \in BOOLEAN
    /\ ul \in [todo : SUBSET (Files \cup {Master}), busy : BOOLEAN, master : MasterAnswers,
               got : Got, skip : SUBSET Files]
    /\ opens \subseteq [id : {1, 2}, master : MasterAnswers, got : Got]
    /\ IsFiniteSet(opens) /\ Cardinality(opens) <= IF ul.busy THEN 2 ELSE 1
    /\ opened \subseteq Sources
    /\ excluded \in [skipped : SUBSET (Sources \ opened), failed : SUBSET (Sources \ opened)]
    /\ unlockPast \in [opened : SUBSET Files, doubled : BOOLEAN]
    /\ ul.busy => opens # {}
===============================================================================
