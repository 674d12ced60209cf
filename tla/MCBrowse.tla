------------------------------ MODULE MCBrowse --------------------------------
EXTENDS Screens

\* The folder f holds a and b; nf and ne can be created.
TheStart ==
    [at |-> [i \in Items |-> CASE i = "f" -> Root [] i \in {"a", "b"} -> "f" [] OTHER -> Gone],
     name |-> [i \in Items |-> CASE i = "a" -> 2 [] i = "b" -> 3 [] i = "f" -> 2 [] OTHER -> 0]]

TheHits == "q" :> {"a", "b"}
TheFiles == [e \in Entries |-> IF e = "a" THEN 2 ELSE 1]
===============================================================================
