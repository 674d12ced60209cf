----------------------------- MODULE SourcesProofs -----------------------------
(***************************************************************************)
(* What holds of the caches and their keyfiles for any sources, any config  *)
(* files and any number of operations of the interface and the commands.    *)
(***************************************************************************)
EXTENDS Sources, TLAPS

(* Both tables have a place for every source, and CachesOpen is inductive  *)
(* with that: only three steps touch a keyfile or a cache, and each of     *)
(* them leaves the pair together or says in `torn` that it does not.       *)
Together ==
  /\ keyfiles = [n \in Names |-> keyfiles[n]]
  /\ caches = [n \in Names |-> caches[n]]
  /\ \A n \in Names : keyfiles[n] \in {Absent} \cup Nat
  /\ CachesOpen

(* A sync that makes a keyfile over one that is there, or beside a cache   *)
(* from before, has torn the pair until the cache is written.              *)
LEMMA TogetherMake ==
  ASSUME Together, NEW p \in Procs, MakeKeyfile(p)
  PROVE  Together'
  <1> DEFINE n == jobs[p].name
  <1>1. /\ keyfiles' = [keyfiles EXCEPT ![n] = IF @ = Absent THEN 1 ELSE @ + 1]
        /\ torn' = IF keyfiles[n] # Absent \/ caches[n] # Absent THEN torn \cup {n} ELSE torn
        /\ caches' = caches
    BY DEF MakeKeyfile
  <1> HIDE DEF n
  <1>2. \A x \in Names : keyfiles'[x] = IF x = n THEN IF keyfiles[x] = Absent THEN 1 ELSE keyfiles[x] + 1
                                        ELSE keyfiles[x]
    BY <1>1 DEF Together
  <1>3. keyfiles' = [x \in Names |-> keyfiles'[x]]
    BY <1>1 DEF Together
  <1>4. \A x \in Names : keyfiles'[x] \in {Absent} \cup Nat
    BY <1>2 DEF Together, Absent
  <1>5. CachesOpen'
    <2> SUFFICES ASSUME NEW x \in Names \ torn', caches'[x] # Absent
                 PROVE  caches'[x] = IF keyfiles'[x] = Absent THEN MasterOnly ELSE keyfiles'[x]
      BY DEF CachesOpen
    <2>1. x \notin torn /\ x # n
      BY <1>1
    <2>2. QED
      BY <1>1, <1>2, <2>1 DEF Together, CachesOpen
  <1>6. QED
    BY <1>1, <1>3, <1>4, <1>5 DEF Together

(* The cache is written with the keyfile that is there by then.            *)
LEMMA TogetherWrite ==
  ASSUME Together, NEW p \in Procs, WriteCache(p)
  PROVE  Together'
  <1> DEFINE n == jobs[p].name
  <1>1. caches' = [caches EXCEPT ![n] = keyfiles[n]] /\ torn' = torn \ {n} /\ keyfiles' = keyfiles
    BY DEF WriteCache
  <1> HIDE DEF n
  <1>2. caches' = [x \in Names |-> caches'[x]]
    BY <1>1 DEF Together
  <1>3. \A x \in Names : caches'[x] = IF x = n THEN keyfiles[x] ELSE caches[x]
    BY <1>1 DEF Together
  <1>4. QED
    BY <1>1, <1>2, <1>3 DEF Together, CachesOpen

(* A cache that is deleted leaves nothing to be opened.                     *)
LEMMA TogetherDelete ==
  ASSUME Together, NEW p \in Procs, DeleteCache(p)
  PROVE  Together'
  <1> DEFINE n == jobs[p].after.file
  <1>1. keyfiles' = keyfiles
    BY DEF DeleteCache
  <1>2. \/ caches' = caches /\ torn' = torn
        \/ caches' = [caches EXCEPT ![n] = Absent] /\ torn' = torn \ {n}
    BY DEF DeleteCache
  <1> HIDE DEF n
  <1>3. CASE caches' = caches /\ torn' = torn
    BY <1>1, <1>3 DEF Together, CachesOpen
  <1>4. CASE caches' = [caches EXCEPT ![n] = Absent] /\ torn' = torn \ {n}
    <2>1. caches' = [x \in Names |-> caches'[x]]
      BY <1>4 DEF Together
    <2>2. \A x \in Names : caches'[x] = IF x = n THEN Absent ELSE caches[x]
      BY <1>4 DEF Together
    <2>3. QED
      BY <1>1, <1>4, <2>1, <2>2 DEF Together, CachesOpen
  <1>5. QED
    BY <1>2, <1>3, <1>4

LEMMA TogetherInit == Init => Together
  <1> SUFFICES ASSUME Init PROVE Together
    OBVIOUS
  <1>1. keyfiles = [n \in Names |-> Absent] /\ caches \in [Names -> {Absent, MasterOnly}]
    BY DEF Init
  <1>2. QED
    BY <1>1 DEF Together, CachesOpen, Absent, MasterOnly

LEMMA TogetherStep == Together /\ [Next]_vars => Together'
  <1> SUFFICES ASSUME Together, [Next]_vars PROVE Together'
    OBVIOUS
  <1>1. ASSUME UNCHANGED <<keyfiles, caches, torn>> PROVE Together'
    BY <1>1 DEF Together, CachesOpen
  <1>2. CASE Settings
    <2>1. UNCHANGED <<keyfiles, caches, torn>>
      BY <1>2 DEF Settings, OpenRemove, OpenEditForm, OpenSavePassword, ClearPassword, StartSync, DoRemove,
         CountOthers, OpenAddForm, ToggleType, SubmitForm, EnterPassword, Cancel, SetPreference,
         files, begun, history
    <2>2. QED
      BY <1>1, <2>1
  <1>3. CASE Lock
    BY <1>1, <1>3 DEF Lock, ConfirmUnlock, LockSource, AskUnlock, files, begun, history
  <1>4. CASE Cli
    BY <1>1, <1>4 DEF Cli, AddSource, RunRemoveSource, RunSavePassword, RunRemovePassword, SyncOne, files,
       begun, history
  <1>5. CASE Killed \/ Relaunch
    BY <1>1, <1>5 DEF Killed, Relaunch, files, begun, history
  <1>6. ASSUME NEW p \in Procs, Steps(p) PROVE Together'
    <2>1. CASE LoadConfig(p) \/ ReadConfig(p) \/ WriteConfig(p) \/ WriteFails(p) \/ CheckConfig(p)
      BY <1>1, <2>1 DEF LoadConfig, ReadConfig, WriteConfig, WriteFails, CheckConfig, files, begun, history
    <2>2. CASE ForgetPassword(p) \/ StatKeyfile(p) \/ SyncFails(p)
      BY <1>1, <2>2 DEF ForgetPassword, StatKeyfile, SyncFails, files, begun, history
    <2>3. CASE DeleteCache(p)
      BY <2>3, TogetherDelete
    <2>4. CASE MakeKeyfile(p)
      BY <2>4, TogetherMake
    <2>5. CASE WriteCache(p)
      BY <2>5, TogetherWrite
    <2>6. QED
      BY <1>6, <2>1, <2>2, <2>3, <2>4, <2>5 DEF Steps
  <1>7. CASE UNCHANGED vars
    BY <1>1, <1>7 DEF vars
  <1>8. QED
    BY <1>2, <1>3, <1>4, <1>5, <1>6, <1>7 DEF Next

(* A cache always opens with what openWith will take for it, the keyfile    *)
(* that is there or the master alone, however syncs of the interface and of  *)
(* commands overlap and fail, unless a sync that made a keyfile has not      *)
(* written the cache.                                                       *)
THEOREM CachesStayOpenable == Spec => []CachesOpen
  <1>1. Together => CachesOpen
    BY DEF Together
  <1>2. QED
    BY TogetherInit, TogetherStep, <1>1, PTL DEF Spec
===============================================================================
