----------------------------- MODULE MCStaging -----------------------------
(***************************************************************************)
(* Staging for TLC: a file with one folder inside another and an entry     *)
(* inside both, an empty folder to move things to, and one identity of     *)
(* each kind for the session to mint.                                      *)
(***************************************************************************)
EXTENDS StagingProperties

CONSTANTS home, x, s, y, e, newFolder, newEntry, bin, bin2,
          v0, v1, plain, named, binName, own

(* x holds s, s holds e, y is empty; nothing was ever deleted.             *)
NestedFile ==
  [node |-> [id \in {home, x, s, y, e} |->
               CASE id = home   -> Item(None, plain)
                 [] id = s      -> Item(x, plain)
                 [] id = e      -> Item(s, v0)
                 [] id \in {x, y} -> Item(home, plain)],
   bin |-> None, tombs |-> {}]

NestedFiles == {NestedFile}
=============================================================================
