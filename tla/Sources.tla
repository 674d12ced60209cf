------------------------------- MODULE Sources -------------------------------
(* What is known about each source and where it is kept: its block in the config *)
(* file, its passwords in the OS keyring, its cache and the keyfile that opens    *)
(* it.  The Settings tab of one interface and one command at a time change them,   *)
(* and the two share nothing but the files and take no lock: every change loads the *)
(* config, reads it, replaces it, loads it again, and then sees to the cache and the *)
(* keyring, and the other process may come in between any two of these steps.      *)
EXTENDS ConfigFile

CONSTANTS
    Configs,    \* the config files a behaviour starts from
    OldCaches,  \* sources that may have a cache from before keyfiles existed
    MaxOps      \* bound: operations begun

\* A name is one ValidSourceName takes: never the bad one, never the empty one.
ASSUME SourcesAssumption ==
    Names # {} /\ {BadName, ""} \cap Names = {} /\ OldCaches \subseteq Names /\ MaxOps \in Nat

Procs == {"tui", "cli"}

\* Keyring accounts: the shared master, a file's password, a server's password.
Master == <<"master", "">>
FileAcct(n) == <<"file", n>>
ServerAcct(n) == <<"server", n>>
Accounts == {Master} \cup {FileAcct(n) : n \in Names} \cup {ServerAcct(n) : n \in Names}

\* What a cache is encrypted with beside the master: nothing, or the keyfile of a
\* given making.  Absent: there is no cache, or no keyfile.
Absent == -1
MasterOnly == 0

VARIABLES
    config,     \* the config file
    keyring,    \* the accounts that hold a password
    keyfiles,   \* [Names -> Absent or which making of the keyfile is there]
    caches,     \* [Names -> Absent, MasterOnly or a making]; the default paths
    jobs,       \* what each process is in the middle of
    ui,         \* the Settings tab: which screen, and what it was opened on
    handles,    \* local sources this interface has open for writing
    writeOK,    \* those unlocked for editing
    ops,        \* operations begun, up to MaxOps
    torn,       \* history: a keyfile was made that the cache is not encrypted with yet
    gone,       \* history: sources removed or renamed since the interface started
    unsaved,    \* history: sources whose lock could not be saved, which was said
    clash,      \* history: an edit replaced something else than what it had read
    doubled,    \* history: names added to a file that had got them after it was loaded
    since       \* history: [Procs -> sources the other made Pleasant ones in the meantime]

vars == <<config, keyring, keyfiles, caches, jobs, ui, handles, writeOK, ops,
          torn, gone, unsaved, clash, doubled, since>>
files == <<keyring, keyfiles, caches>>
session == <<handles, writeOK>>
lost == <<clash, doubled>>
begun == <<torn, gone, unsaved, lost>>
history == <<begun, since>>

\* A job is a sync, or the edits still to make, what follows the last one (the cache
\* to delete, the accounts to forget), the plan of the edit at hand, what it read and
\* will write, and (history) the names that were there when it was planned.
Edit(do, name, block, arg) == [do |-> do, name |-> name, block |-> block, arg |-> arg]
After(file, forget) == [file |-> file, forget |-> forget]
NoAfter == After("", <<>>)
Idle == [kind |-> "idle"]
LoadsFirst(e) == e.do \in {"add", "overwrite", "remove"}
Editing(todo, after) ==
    [kind |-> IF LoadsFirst(Head(todo)) THEN "load" ELSE "read", todo |-> todo, after |-> after,
     plan |-> Plan("set", Head(todo).do = "writable"), had |-> {}, read |-> NoFile, next |-> NoFile]
Syncing(n, step) == [kind |-> "sync", name |-> n, step |-> step]

List == [mode |-> "list"]

Sources == IF Loads(config) THEN SourcesOf(config) ELSE <<>>
IsPleasant(s) == s["type"] = "pleasant"
Pleasants(L) == {n \in Named(L) : IsPleasant(SourceNamed(L, n))}

\* writableFromConfig: only a source that is open, only when its block says so.
WritableFrom(open, F) == {n \in open : SourceNamed(F, n)["writable"] = "true"}

\* What a launch opens.  Without sources it offers to add the first one.
LocalSources == {n \in Named(config) : ~IsPleasant(SourceNamed(config, n))}
Launchable == config = NoFile \/ HasNoSources(config) \/ Loads(config)

Init ==
    /\ config \in Configs
    /\ keyring \in {{}, Accounts}
    /\ keyfiles = [n \in Names |-> Absent]
    /\ caches \in [Names -> {Absent, MasterOnly}]
    /\ \A n \in Names : caches[n] # Absent => n \in OldCaches
    /\ jobs = [p \in Procs |-> Idle]
    /\ ui = List
    /\ handles = LocalSources
    /\ writeOK = WritableFrom(handles, config)
    /\ ops = 0
    /\ torn = {} /\ gone = {} /\ unsaved = {} /\ clash = FALSE /\ doubled = {}
    /\ since = [p \in Procs |-> {}]

Free(p) == jobs[p] = Idle
MayBegin == ops < MaxOps
Counted == MayBegin /\ ops' = ops + 1
Begin(p, job) ==
    /\ Free(p) /\ Counted
    /\ jobs' = [jobs EXCEPT ![p] = job]
    /\ since' = [since EXCEPT ![p] = {}]

-------------------------------------------------------------------------------
(* An edit: load the file, read it, replace it, and load it again.              *)

PlanOf(e, F) ==
    CASE e.do = "add" -> PlanUpsert(F, e.name, FALSE)
      [] e.do = "overwrite" -> PlanUpsert(F, e.name, TRUE)
      [] e.do = "remove" -> PlanRemove(F, e.name)

\* The new file, of what was read.
Apply(plan, e, F) ==
    CASE plan.way = "append" -> Done(AppendBlock(F, e.block))
      [] plan.way = "replace" -> Replaced(F, e.name, e.block)
      [] plan.way \in {"remove", "undefault"} -> Removed(F, e.name, plan.way)
      [] e.do = "top" -> SetTopLevel(F, e.name, e.arg)
      [] e.do = "many" -> SetTopLevelMany(F, e.arg)
      [] e.do = "writable" -> SetWritable(F, e.name, e.arg)

Only(e) == Editing(<<e>>, NoAfter)

\* An edit that cannot be made or written ends the operation, whatever it has
\* already done.
GiveUp(p) ==
    LET e == Head(jobs[p].todo) IN
    /\ jobs' = [jobs EXCEPT ![p] = Idle]
    /\ unsaved' = IF e.do = "writable" THEN unsaved \cup {e.name} ELSE unsaved

\* Load; a file that is not there is not read but made.
LoadConfig(p) ==
    LET j == jobs[p]
        plan == PlanOf(Head(j.todo), config)
    IN /\ j.kind = "load"
       /\ IF plan = NoPlan THEN GiveUp(p)
          ELSE /\ jobs' = [jobs EXCEPT ![p] = [j EXCEPT !.plan = plan, !.had = Named(config),
                             !.kind = IF plan.way = "create" THEN "write" ELSE "read",
                             !.next = IF plan.way = "create" THEN NewFile(Head(j.todo).block) ELSE NoFile]]
               /\ UNCHANGED unsaved
       /\ UNCHANGED <<config, files, ui, session, ops, torn, gone, lost, since>>

ReadConfig(p) ==
    LET j == jobs[p]
        r == Apply(j.plan, Head(j.todo), config)
    IN /\ j.kind = "read"
       /\ IF r.ok
          THEN /\ jobs' = [jobs EXCEPT ![p] = [j EXCEPT !.kind = "write", !.read = config, !.next = r.file]]
               /\ UNCHANGED unsaved
          ELSE GiveUp(p)
       /\ UNCHANGED <<config, files, ui, session, ops, torn, gone, lost, since>>

\* What an operation does next when an edit is done: the next edit, the cache, the
\* keyring.
Forgetting(j) == IF j.after.forget = <<>> THEN Idle ELSE [j EXCEPT !.kind = "forget"]
Proceed(j) ==
    LET done == [j EXCEPT !.plan = NoPlan, !.had = {}, !.read = NoFile, !.next = NoFile] IN
    IF Len(j.todo) > 1 THEN Editing(Tail(j.todo), j.after)
    ELSE IF j.after.file # "" THEN [done EXCEPT !.kind = "file"]
    ELSE Forgetting(done)

\* The form of a finished edit closes.
Closes(p, done) == ui' = IF p = "tui" /\ done /\ Len(jobs[p].todo) = 1 THEN List ELSE ui

WriteConfig(p) ==
    LET j == jobs[p]
        e == Head(j.todo)
        again == j.plan.reload
    IN /\ j.kind = "write"
       /\ config' = j.next
       /\ clash' = (clash \/ config # j.read)
       /\ doubled' = doubled \cup IF j.plan.way = "append" THEN ({e.name} \cap Named(j.read)) \ j.had ELSE {}
       /\ gone' = IF e.do = "remove" THEN gone \cup {e.name} ELSE gone
       /\ since' = [q \in Procs |-> IF q = p THEN since[q]
                                     ELSE since[q] \cup (Pleasants(j.next) \ Pleasants(config))]
       /\ jobs' = [jobs EXCEPT ![p] = IF again THEN [j EXCEPT !.kind = "check", !.had = {}, !.read = NoFile, !.next = NoFile]
                                      ELSE Proceed(j)]
       /\ Closes(p, ~again)
       /\ UNCHANGED <<files, session, ops, unsaved, torn>>

\* The disk is full, the directory read-only: the file stays as it was.
WriteFails(p) ==
    /\ jobs[p].kind = "write"
    /\ GiveUp(p)
    /\ UNCHANGED <<config, files, ui, session, ops, torn, gone, lost, since>>

\* What is loaded again may be the other's; what does not load ends the operation.
CheckConfig(p) ==
    /\ jobs[p].kind = "check"
    /\ jobs' = [jobs EXCEPT ![p] = IF Loads(config) THEN Proceed(@) ELSE Idle]
    /\ Closes(p, Loads(config))
    /\ UNCHANGED <<config, files, session, ops, history>>

\* An error of these two is told, or not even that, and nothing follows from it.
DeleteCache(p) ==
    LET j == jobs[p]
        n == j.after.file
    IN /\ j.kind = "file"
       /\ \E deleted \in BOOLEAN :
             /\ caches' = IF deleted THEN [caches EXCEPT ![n] = Absent] ELSE caches
             /\ torn' = IF deleted THEN torn \ {n} ELSE torn
       /\ jobs' = [jobs EXCEPT ![p] = Forgetting(j)]
       /\ UNCHANGED <<config, keyring, keyfiles, ui, session, ops, gone, unsaved, lost, since>>

ForgetPassword(p) ==
    LET j == jobs[p] IN
    /\ j.kind = "forget"
    /\ \E forgotten \in BOOLEAN :
          keyring' = IF forgotten THEN keyring \ {Head(j.after.forget)} ELSE keyring
    /\ jobs' = [jobs EXCEPT ![p] = Forgetting([j EXCEPT !.after.forget = Tail(@)])]
    /\ UNCHANGED <<config, keyfiles, caches, ui, session, ops, history>>

\* A process ends anywhere: a command that is killed is gone, and an interface that
\* was closed or killed is launched again, when the config lets it.
Killed ==
    /\ ~Free("cli")
    /\ jobs' = [jobs EXCEPT !["cli"] = Idle]
    /\ UNCHANGED <<config, files, ui, session, ops, history>>

Relaunch ==
    /\ Launchable
    /\ jobs' = [jobs EXCEPT !["tui"] = Idle] /\ ui' = List
    /\ handles' = LocalSources /\ writeOK' = WritableFrom(handles', config)
    /\ gone' = {} /\ unsaved' = {} /\ clash' = FALSE
    /\ UNCHANGED <<config, files, ops, torn, doubled, since>>

-------------------------------------------------------------------------------
(* The Settings tab.                                                           *)

AtList == ui = List /\ Free("tui")

\* The overlay keeps a row, not a source: what is removed is read again at enter.
OpenRemove(i) ==
    /\ AtList
    /\ ui' = [mode |-> "remove", row |-> i]
    /\ UNCHANGED <<config, files, jobs, session, ops, history>>

\* (mutant) nobody asks whether there are others
NoOthers(n) == {}

\* What m.sources() shows; a command that gets to count has loaded the config.
OtherPleasants(n) == IF Loads(config) THEN Pleasants(config) \ {n} ELSE {}

\* What doRemove forgets of source s, the master only if no other needs it.
ForgetOnRemove(s) ==
    IF IsPleasant(s) THEN <<ServerAcct(s["name"]), Master>> ELSE <<FileAcct(s["name"])>>

CacheOf(s, delete) == IF delete /\ IsPleasant(s) THEN s["name"] ELSE ""

DoRemove(delete, forget) ==
    /\ ui.mode = "remove" /\ Free("tui") /\ ui' = List
    /\ IF ui.row \in DOMAIN Sources
       THEN LET s == Sources[ui.row]
                job == Editing(<<Edit("remove", s["name"], <<>>, "")>>,
                               After(CacheOf(s, delete), IF forget THEN ForgetOnRemove(s) ELSE <<>>))
            IN Begin("tui", [job EXCEPT !.kind = "count"])
       ELSE UNCHANGED <<jobs, ops, since>>
    /\ UNCHANGED <<config, files, session, begun>>

\* doRemove reads the sources once more, to count the other Pleasant ones.
CountOthers ==
    LET j == jobs["tui"]
        others == OtherPleasants(Head(j.todo).name)
        forget == IF others = {} THEN j.after.forget ELSE SelectSeq(j.after.forget, LAMBDA a : a # Master)
    IN /\ j.kind = "count"
       /\ jobs' = [jobs EXCEPT !["tui"] = [j EXCEPT !.kind = "load", !.after.forget = forget]]
       /\ since' = [since EXCEPT !["tui"] = {}]
       /\ UNCHANGED <<config, files, ui, session, ops, begun>>

OpenAddForm ==
    /\ AtList /\ ui' = [mode |-> "form", orig |-> "", pps |-> FALSE]
    /\ UNCHANGED <<config, files, jobs, session, ops, history>>

OpenEditForm(s) ==
    /\ AtList
    /\ ui' = [mode |-> "form", orig |-> s["name"], pps |-> IsPleasant(s)]
    /\ UNCHANGED <<config, files, jobs, session, ops, history>>

\* The Type toggle of a form that adds; switching it rebuilds the fields.
ToggleType ==
    /\ ui.mode = "form" /\ Free("tui") /\ ui.orig = ""
    /\ ui' = [ui EXCEPT !.pps = ~@]
    /\ UNCHANGED <<config, files, jobs, session, ops, history>>

\* Every key, enter too, asks the toggle which type it is.  A form that edits has
\* no toggle, and a field that is not there answers with the first choice, kdbx:
\* the fields are those of the type the form was opened with, and in a Pleasant
\* source's the path is not among them, so that it is the working directory.
AskedType == ui.orig = "" /\ ui.pps

FormBlock(name) ==
    IF AskedType THEN PleasantBlock(name, name, "")
    ELSE IF ui.pps THEN KdbxBlock(name, "cwd", "")
    ELSE KdbxBlock(name, "path", "")

\* writeSource; the form stays open until what it asked for is written.
SubmitForm(name) ==
    /\ ui.mode = "form"
    /\ LET block == FormBlock(name)
           add == Edit("add", name, block, "")
       IN IF ui.orig = "" THEN Begin("tui", Only(add))
          ELSE IF name = ui.orig THEN Begin("tui", Only([add EXCEPT !.do = "overwrite"]))
          ELSE /\ ~(Loads(config) /\ name \in Named(config))
               /\ Begin("tui", Editing(<<Edit("remove", ui.orig, <<>>, ""), add>>, NoAfter))
    /\ UNCHANGED <<config, files, ui, session, begun>>

\* Save password: the queue is decided when the prompt opens.
OpenSavePassword(s) ==
    /\ AtList
    /\ ui' = [mode |-> "prompt",
              queue |-> IF ~IsPleasant(s) THEN <<FileAcct(s["name"])>>
                        ELSE (IF Master \in keyring THEN <<>> ELSE <<Master>>) \o <<ServerAcct(s["name"])>>]
    /\ UNCHANGED <<config, files, jobs, session, ops, history>>

EnterPassword ==
    /\ ui.mode = "prompt" /\ Counted
    /\ keyring' = keyring \cup {Head(ui.queue)}
    /\ ui' = IF Len(ui.queue) = 1 THEN List ELSE [ui EXCEPT !.queue = Tail(ui.queue)]
    /\ UNCHANGED <<config, keyfiles, caches, jobs, session, history>>

ClearPassword(s) ==
    /\ AtList /\ Counted
    /\ keyring' = keyring \ {IF IsPleasant(s) THEN ServerAcct(s["name"]) ELSE FileAcct(s["name"])}
    /\ UNCHANGED <<config, keyfiles, caches, jobs, ui, session, history>>

\* The preferences in one write, the theme and the icons one key at a time.
SetPreference(e) ==
    /\ AtList /\ config # NoFile
    /\ Begin("tui", Only(e))
    /\ UNCHANGED <<config, files, ui, session, begun>>

\* esc, anywhere in an overlay
Cancel ==
    /\ ui.mode \in {"remove", "form", "prompt", "unlock"} /\ Free("tui") /\ ui' = List
    /\ UNCHANGED <<config, files, jobs, session, ops, history>>

-------------------------------------------------------------------------------
(* The write lock.                                                             *)

\* Locking is immediate; unlocking asks.  Both are remembered in the config, and
\* what cannot be remembered is said and holds for this run.
Persist(n, on) == Begin("tui", Only(Edit("writable", n, <<>>, on)))

LockSource(n) ==
    /\ AtList /\ n \in writeOK
    /\ writeOK' = writeOK \ {n} /\ Persist(n, FALSE)
    /\ UNCHANGED <<config, files, ui, handles, begun>>

\* (mutant) nobody asks whether the source can be written
AskUnlockAny(n) ==
    /\ AtList /\ n \in Names \ writeOK
    /\ ui' = [mode |-> "unlock", name |-> n]
    /\ UNCHANGED <<config, files, jobs, session, ops, history>>

AskUnlock(n) ==
    /\ AtList /\ n \in handles \ writeOK
    /\ ui' = [mode |-> "unlock", name |-> n]
    /\ UNCHANGED <<config, files, jobs, session, ops, history>>

ConfirmUnlock ==
    /\ ui.mode = "unlock" /\ Free("tui")
    /\ writeOK' = writeOK \cup {ui.name} /\ Persist(ui.name, TRUE)
    /\ ui' = List
    /\ UNCHANGED <<config, files, handles, begun>>

-------------------------------------------------------------------------------
(* Syncing a Pleasant source, in either process.                               *)

StartSync(s) ==
    /\ AtList /\ IsPleasant(s)
    /\ {Master, ServerAcct(s["name"])} \subseteq keyring
    /\ Begin("tui", Syncing(s["name"], "login"))
    /\ UNCHANGED <<config, files, ui, session, begun>>

SyncOne(n) ==
    /\ Loads(config) /\ n \in Pleasants(config)
    /\ Begin("cli", Syncing(n, "login"))
    /\ UNCHANGED <<config, files, ui, session, begun>>

SyncStep(p, step) == jobs' = [jobs EXCEPT ![p] = Syncing(jobs[p].name, step)]

\* Login, a package that cannot be fetched, read or has expired, a cache that
\* cannot be written: nothing is undone.
SyncFails(p) ==
    /\ jobs[p].kind = "sync"
    /\ jobs' = [jobs EXCEPT ![p] = Idle]
    /\ UNCHANGED <<config, files, ui, session, ops, history>>

\* EnsureKeyfile: is it there?
StatKeyfile(p) ==
    /\ jobs[p].kind = "sync" /\ jobs[p].step = "login"
    /\ SyncStep(p, IF keyfiles[jobs[p].name] = Absent THEN "make" ELSE "fetch")
    /\ UNCHANGED <<config, files, ui, session, ops, history>>

\* What is there, if anything, is written over.
MakeKeyfile(p) ==
    LET n == jobs[p].name IN
    /\ jobs[p].kind = "sync" /\ jobs[p].step = "make"
    /\ keyfiles' = [keyfiles EXCEPT ![n] = IF @ = Absent THEN 1 ELSE @ + 1]
    /\ torn' = IF keyfiles[n] # Absent \/ caches[n] # Absent THEN torn \cup {n} ELSE torn
    /\ SyncStep(p, "fetch")
    /\ UNCHANGED <<config, keyring, caches, ui, session, ops, gone, unsaved, lost, since>>

\* (mutant) the cache is encrypted with the master alone
WriteCacheMasterOnly(p) ==
    LET n == jobs[p].name IN
    /\ jobs[p].kind = "sync" /\ jobs[p].step = "fetch"
    /\ caches' = [caches EXCEPT ![n] = MasterOnly]
    /\ torn' = torn \ {n}
    /\ jobs' = [jobs EXCEPT ![p] = Idle]
    /\ \E save \in BOOLEAN :
          keyring' = IF p = "cli" /\ save THEN keyring \cup {Master, ServerAcct(n)} ELSE keyring
    /\ UNCHANGED <<config, keyfiles, ui, session, ops, gone, unsaved, lost, since>>

\* The package is fetched, mapped and written in one replacement, encrypted with
\* the keyfile that is there when it is written; --save-password comes last.
WriteCache(p) ==
    LET n == jobs[p].name IN
    /\ jobs[p].kind = "sync" /\ jobs[p].step = "fetch"
    /\ caches' = [caches EXCEPT ![n] = keyfiles[n]]
    /\ torn' = torn \ {n}
    /\ jobs' = [jobs EXCEPT ![p] = Idle]
    /\ \E save \in BOOLEAN :
          keyring' = IF p = "cli" /\ save THEN keyring \cup {Master, ServerAcct(n)} ELSE keyring
    /\ UNCHANGED <<config, keyfiles, ui, session, ops, gone, unsaved, lost, since>>

-------------------------------------------------------------------------------
(* The command line.                                                           *)

\* add-source: confirmOverwrite looks first; the write goes by what it saw.
AddSource(name, block, force) ==
    LET exists == Loads(config) /\ name \in Named(config) IN
    /\ exists => force
    /\ Begin("cli", Only(Edit(IF exists THEN "overwrite" ELSE "add", name, block, "")))
    /\ UNCHANGED <<config, files, ui, session, begun>>

\* forgetSourcePassword: the server password is not among what it forgets.
ForgetSourcePassword(n) ==
    IF n \notin Pleasants(config) THEN <<FileAcct(n)>>
    ELSE IF OtherPleasants(n) = {} THEN <<Master>> ELSE <<>>

RunRemoveSource(n, delete, forget) ==
    /\ Loads(config) /\ n \in Named(config)
    /\ Begin("cli", Editing(<<Edit("remove", n, <<>>, "")>>,
                After(CacheOf(SourceNamed(config, n), delete), IF forget THEN ForgetSourcePassword(n) ELSE <<>>)))
    /\ UNCHANGED <<config, files, ui, session, begun>>

\* save-password and remove-password change the keyring and nothing else.
RunSavePassword(n) ==
    /\ Free("cli") /\ Counted
    /\ Loads(config) /\ n \in Named(config)
    /\ keyring' = keyring \cup IF n \in Pleasants(config) THEN {Master, ServerAcct(n)} ELSE {FileAcct(n)}
    /\ UNCHANGED <<config, keyfiles, caches, jobs, ui, session, history>>

RunRemovePassword(n) ==
    /\ Free("cli") /\ Counted
    /\ Loads(config) /\ n \in Named(config)
    /\ keyring' = keyring \ IF n \in Pleasants(config) THEN {Master, ServerAcct(n)} ELSE {FileAcct(n)}
    /\ UNCHANGED <<config, keyfiles, caches, jobs, ui, session, history>>

-------------------------------------------------------------------------------
Typed == Names \cup {BadName}

Preferences ==
    { Edit("top", "nerdfont", <<>>, "true"),
      Edit("many", "", <<>>, ("clipboard_timeout" :> "30s") @@ ("cache_stale_after" :> "24h")) }

\* A row opens a screen only while an operation can still be begun (bound).
Settings ==
    \/ AtList /\ MayBegin /\ LET ss == Sources IN
          \E i \in DOMAIN ss :
             \/ OpenRemove(i) \/ OpenEditForm(ss[i]) \/ OpenSavePassword(ss[i])
             \/ ClearPassword(ss[i]) \/ StartSync(ss[i])
    \/ \E delete, forget \in BOOLEAN : DoRemove(delete, forget)
    \/ CountOthers
    \/ OpenAddForm \/ ToggleType
    \/ \E name \in Typed : SubmitForm(name)
    \/ EnterPassword \/ Cancel
    \/ \E e \in Preferences : SetPreference(e)

Lock == ConfirmUnlock \/ \E n \in Names : LockSource(n) \/ AskUnlock(n)

Cli ==
    /\ Free("cli") /\ MayBegin
    /\ \/ \E n \in Typed, force \in BOOLEAN :
             AddSource(n, PleasantBlock(n, n, ""), force) \/ AddSource(n, KdbxBlock(n, "path", "k"), force)
       \/ \E n \in Names, delete, forget \in BOOLEAN : RunRemoveSource(n, delete, forget)
       \/ \E n \in Names : RunSavePassword(n) \/ RunRemovePassword(n) \/ SyncOne(n)

Steps(p) ==
    \/ LoadConfig(p) \/ ReadConfig(p) \/ WriteConfig(p) \/ WriteFails(p) \/ CheckConfig(p)
    \/ DeleteCache(p) \/ ForgetPassword(p)
    \/ StatKeyfile(p) \/ MakeKeyfile(p) \/ WriteCache(p) \/ SyncFails(p)

Next == Settings \/ Lock \/ Cli \/ Killed \/ Relaunch \/ \E p \in Procs : Steps(p)

Spec == Init /\ [][Next]_vars

-------------------------------------------------------------------------------
JobType(j) ==
    \/ j = Idle
    \/ /\ j.kind \in {"count", "load", "read", "write", "check", "file", "forget"}
       /\ j.todo # <<>> /\ Range(j.after.forget) \subseteq Accounts
       /\ j.kind = "file" => j.after.file \in Names
       /\ j.kind = "forget" => j.after.forget # <<>>
    \/ j.kind = "sync" /\ j.name \in Names /\ j.step \in {"login", "make", "fetch"}

TypeOK ==
    /\ config = NoFile \/ Parses(config)
    /\ keyring \subseteq Accounts
    /\ keyfiles \in [Names -> {Absent} \cup 1..(2 * MaxOps)]
    /\ caches \in [Names -> {Absent} \cup 0..(2 * MaxOps)]
    /\ \A p \in Procs : JobType(jobs[p])
    /\ ui.mode \in {"list", "remove", "form", "prompt", "unlock"}
    /\ writeOK \subseteq handles /\ handles \subseteq Names
    /\ torn \subseteq Names /\ gone \subseteq Names /\ unsaved \subseteq Names
    /\ ops \in 0..MaxOps /\ clash \in BOOLEAN
    /\ doubled \subseteq Names /\ since \in [Procs -> SUBSET Names]

\* Whatever the interface and a command write, in whatever order they load, read and
\* write, and wherever one of them ends, a config that loaded still does, or has no
\* source left; all that can be wrong with it is that a source is there twice, which
\* the other added after this one had loaded the file and before it read it
\* (config/edit.go upsert, RemoveSource, setTopLevelMany, setSourceKey).
ConfigLoads ==
    \/ config = NoFile \/ HasNoSources(config)
    \/ /\ Parses(config) /\ NamedTwice(config) \subseteq doubled
       /\ \A n \in DOMAIN SourcesOf(config) : Complete(SourcesOf(config)[n])

\* A write that replaces what its edit read leaves everything else as it was: the
\* other sources key by key, the comments outside the block it rewrites, the
\* default, and of that block the keys its form does not know (edit.go:394 "leaving
\* every other line", carryOver).
CommentsIn(t) == Len(SelectSeq(t, LAMBDA l : l = Comment))
AllComments(F) == CommentsIn(FlattenSeq(F))
CommentsOutside(F, name) ==
    AllComments(F) - IF Blocks(F, name) = {} THEN 0 ELSE CommentsIn(Block(F[First(Blocks(F, name))]))
Others(L, n) == {m \in Named(L) : m # n}
LeavesTheRest(e) ==
    /\ Others(config', e.name) = Others(config, e.name)
    /\ \A n \in Others(config, e.name) : SourceNamed(config', n) = SourceNamed(config, n)
    /\ AllComments(config') = IF e.do \in {"overwrite", "remove"} THEN CommentsOutside(config, e.name)
                              ELSE AllComments(config)
    /\ Default(config) # e.name => Default(config') = Default(config)
    /\ e.do = "overwrite" /\ e.name \in Named(config) =>
          SourceNamed(config', e.name)["writable"] = SourceNamed(config, e.name)["writable"]
WritesAlone(p) == jobs[p].kind = "write" /\ jobs'[p] # jobs[p] /\ config = jobs[p].read
RestLeftVerbatim ==
    [][\A p \in Procs : WritesAlone(p) /\ config' # config => LeavesTheRest(Head(jobs[p].todo))]_vars

\* What the interface lets be edited is what the next launch will: the lock and the
\* source's block agree, but for a lock that could not be saved, a source removed or
\* renamed since, and a write lost to another process (writelock.go:283
\* persistWritable, edit.go:414 "the interface and the config disagreed about it").
LockAgrees ==
    Free("tui") /\ ~clash =>
       \A n \in (handles \cap Named(config)) \ (gone \cup unsaved) :
          n \in writeOK <=> SourceNamed(config, n)["writable"] = "true"

\* A cache opens with what openWith will open it with: the source's keyfile when
\* there is one and the master alone when not, except while, and after, a sync
\* that has made a keyfile has not written the cache (session.go:182 cacheKeyfile).
CachesOpen ==
    \A n \in Names \ torn :
       caches[n] # Absent => caches[n] = IF keyfiles[n] = Absent THEN MasterOnly ELSE keyfiles[n]

\* The master that opens every cache is forgotten when asked for by name, or when a
\* removal leaves no source that needs it; but for those the other process made
\* Pleasant sources, or brought back, after the removal had counted them
\* (settings.go:290 otherPleasant, remove.go:86).
ForgetsMaster == {Master} \subseteq keyring \ keyring'
MasterKept ==
    [][ForgetsMaster =>
          \/ jobs' = jobs
          \/ \E p \in Procs : jobs'[p] # jobs[p] /\ Pleasants(config) \subseteq since[p]]_vars
===============================================================================
