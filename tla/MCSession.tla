------------------------------ MODULE MCSession ------------------------------
(* A cache and two local vaults; a handful of worlds that differ in what is      *)
(* saved, what can be read and what each source takes.                           *)
EXTENDS Session

Work == 1
Home == 2
Key == 3

TheSources == {Work, Home, Key}
TheCaches == {Work}

World(pwKey, readable, master, home, key, full) ==
    [key |-> [c \in {Work} |-> "m1"],
     pw |-> [f \in {Home, Key} |-> IF f = Key THEN pwKey ELSE Right],
     readable |-> readable,
     saved |-> [s \in {Home, Key, Master} |->
                   CASE s = Master -> master [] s = Home -> home [] s = Key -> key],
     full |-> full]

TheWorlds ==
    { World(Right, {Work, Home, Key}, "m1", Right, Right, {Work}),      \* all saved
      World(None, {Work, Home, Key}, None, None, None, {Home, Key}),    \* nothing saved, a keyfile
      World(Right, {Home, Key}, Wrong, Wrong, Right, {Work, Home}),    \* no cache, stale keyring
      World(Right, {Home, Key}, Wrong, Wrong, Wrong, {}) }              \* all stale, and no entries
===============================================================================
