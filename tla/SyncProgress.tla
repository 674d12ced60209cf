----------------------------- MODULE SyncProgress -----------------------------
(* A Pleasant sync started from the Settings tab (tui/sync.go, pleasant.Sync):    *)
(* the goroutine that works and reports through a bounded channel, the commands   *)
(* that listen to it, and the messages the update loop gets, in any order.       *)
EXTENDS Naturals, Sequences, FiniteSets

CONSTANTS
    MaxSyncs,   \* bound: syncs started
    Reports,    \* progress reports of a complete sync
    Capacity    \* of the progress channel: 32 in the code

ASSUME SyncAssumption == MaxSyncs \in Nat /\ Reports \in Nat /\ Capacity \in Nat \ {0}

NoChannel == 0
Channels == 1..MaxSyncs

VARIABLES
    syncing,    \* setMode = setSyncing
    syncCh,     \* the channel the model holds: the sync's number, or none
    phase,      \* what the screen shows: <<sync, report>>
    work,       \* per sync: the reports made so far, and whether it goes on
    buffer,     \* per channel: what nobody has received yet
    closed,     \* the channels that are closed
    listeners,  \* per channel: the commands blocked on it; index 0 is the nil channel
    inflight,   \* the messages on their way to Update
    late        \* history: a message of an earlier sync arrived during a later one

syncVars == <<syncing, syncCh, phase, work, buffer, closed, listeners, inflight, late>>

Started == {c \in Channels : work[c].state # "idle"}

SyncInit ==
    /\ syncing = FALSE /\ syncCh = NoChannel /\ phase = <<0, 0>>
    /\ work = [c \in Channels |-> [made |-> 0, state |-> "idle"]]
    /\ buffer = [c \in Channels |-> <<>>] /\ closed = {}
    /\ listeners = [c \in Channels \cup {NoChannel} |-> 0]
    /\ inflight = {} /\ late = FALSE

\* (mutant) two listeners from the start
StartSyncTwice ==
    /\ ~syncing /\ Cardinality(Started) < MaxSyncs
    /\ LET c == Cardinality(Started) + 1 IN
       /\ syncing' = TRUE /\ syncCh' = c /\ phase' = <<c, 0>>
       /\ work' = [work EXCEPT ![c].state = "running"]
       /\ listeners' = [listeners EXCEPT ![c] = 2]
    /\ UNCHANGED <<buffer, closed, inflight, late>>

\* startSync with the credentials in place: the work and the first listener.
StartSync ==
    /\ ~syncing /\ Cardinality(Started) < MaxSyncs
    /\ LET c == Cardinality(Started) + 1 IN
       /\ syncing' = TRUE /\ syncCh' = c /\ phase' = <<c, 0>>
       /\ work' = [work EXCEPT ![c].state = "running"]
       /\ listeners' = [listeners EXCEPT ![c] = 1]
    /\ UNCHANGED <<buffer, closed, inflight, late>>

\* The Reporter's callbacks send on the channel, and wait while it is full.
Report(c) ==
    /\ work[c].state = "running" /\ work[c].made < Reports
    /\ Len(buffer[c]) < Capacity
    /\ work' = [work EXCEPT ![c].made = @ + 1]
    /\ buffer' = [buffer EXCEPT ![c] = Append(@, work[c].made + 1)]
    /\ UNCHANGED <<syncing, syncCh, phase, closed, listeners, inflight, late>>

\* (mutant) an error leaves the channel open and the work without an answer
FinishSilently(c) ==
    /\ work[c].state = "running"
    /\ work' = [work EXCEPT ![c].state = "over"]
    /\ inflight' = IF work[c].made = Reports
                   THEN inflight \cup {<<"done", c, 0>>} ELSE inflight
    /\ closed' = closed \cup {c}
    /\ UNCHANGED <<syncing, syncCh, phase, buffer, listeners, late>>

\* Login, the keyfile, or any phase may fail; either way the channel is closed
\* and the outcome is the message the command returns.
Finish(c) ==
    /\ work[c].state = "running"
    /\ work' = [work EXCEPT ![c].state = "over"]
    /\ inflight' = inflight \cup {<<"done", c, 0>>}
    /\ closed' = closed \cup {c}
    /\ UNCHANGED <<syncing, syncCh, phase, buffer, listeners, late>>

\* listenSync receives, or finds the channel closed and drained and ends.  On the
\* nil channel it waits for ever.
Listen(c) ==
    /\ listeners[c] > 0
    /\ listeners' = [listeners EXCEPT ![c] = @ - 1]
    /\ \/ /\ buffer[c] # <<>>
          /\ buffer' = [buffer EXCEPT ![c] = Tail(@)]
          /\ inflight' = inflight \cup {<<"progress", c, Head(buffer[c])>>}
       \/ /\ buffer[c] = <<>> /\ c \in closed
          /\ UNCHANGED <<buffer, inflight>>
    /\ UNCHANGED <<syncing, syncCh, phase, work, closed, late>>

\* syncProgressMsg: show it, and listen again on the channel held by now.
OnProgress ==
    \E msg \in inflight :
       /\ msg[1] = "progress"
       /\ inflight' = inflight \ {msg}
       /\ phase' = <<msg[2], msg[3]>>
       /\ listeners' = [listeners EXCEPT ![syncCh] = @ + 1]
       /\ late' = (late \/ (syncing /\ msg[2] # syncCh))
       /\ UNCHANGED <<syncing, syncCh, work, buffer, closed>>

OnSyncDone ==
    \E msg \in inflight :
       /\ msg[1] = "done"
       /\ inflight' = inflight \ {msg}
       /\ syncing' = FALSE /\ syncCh' = NoChannel
       /\ UNCHANGED <<phase, work, buffer, closed, listeners, late>>

SyncRuntime ==
    \/ \E c \in Channels : Report(c) \/ Finish(c) \/ Listen(c)
    \/ OnProgress \/ OnSyncDone

SyncTypeOK ==
    /\ syncing \in BOOLEAN /\ syncCh \in Channels \cup {NoChannel}
    /\ work \in [Channels -> [made : 0..Reports, state : {"idle", "running", "over"}]]
    /\ \A c \in Channels : Len(buffer[c]) <= Capacity
    /\ closed \subseteq Channels
    /\ listeners \in [Channels \cup {NoChannel} -> Nat]
    /\ inflight \subseteq {"progress", "done"} \X Channels \X (0..Reports)
    /\ late \in BOOLEAN
    /\ syncing <=> syncCh # NoChannel
===============================================================================
