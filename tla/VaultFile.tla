------------------------------ MODULE VaultFile ------------------------------
(* What internal/vault promises about the kdbx on disk, without the steps that *)
(* keep the promise: the file is replaced as a whole, and only over a version  *)
(* whose content the writer holds, except one that landed while that very save *)
(* (or an earlier one of the same kind) was already in flight.                 *)
(* A version is its id and the ids of every version its content descends from. *)
EXTENDS Naturals

CONSTANT Versions

VARIABLES
    content,    \* the version the path names
    older,      \* the versions a power loss may bring back in its place
    base,       \* the versions the program's database descends from
    busy,       \* a save is in flight
    raced       \* other writers' versions that landed while one was

vars == <<content, older, base, busy, raced>>

Init ==
    /\ content = [id |-> 0, has |-> {0}]
    /\ older = {} /\ base = {} /\ raced = {}
    /\ busy = FALSE

\* The program reads the file, or stops.
Read ==
    /\ ~busy
    /\ base' = content.has
    /\ UNCHANGED <<content, older, busy, raced>>

Stop ==
    /\ base' = {} /\ busy' = FALSE
    /\ UNCHANGED <<content, older, raced>>

\* A save begins only over a version the program holds, or one that raced.
Begin ==
    /\ ~busy /\ content.id \in base \cup raced
    /\ busy' = TRUE
    /\ UNCHANGED <<content, older, base, raced>>

\* The replacement: one step, everything the program holds and one new version.
Replace ==
    /\ busy
    /\ \E v \in Versions \ content.has :
          /\ content' = [id |-> v, has |-> base \cup {v}]
          /\ base' = base \cup {v}
    /\ older' = older \cup {content}
    /\ UNCHANGED <<busy, raced>>

Settle ==
    /\ older' = {}
    /\ UNCHANGED <<content, base, busy, raced>>

End ==
    /\ busy' = FALSE
    /\ UNCHANGED <<content, older, base, raced>>

\* Another writer: KeePassXC or a sync tool, building on what the file says.
Foreign ==
    /\ \E v \in Versions \ content.has :
          /\ content' = [id |-> v, has |-> content.has \cup {v}]
          /\ raced' = IF busy THEN raced \cup {v} ELSE raced
    /\ older' = {}
    /\ UNCHANGED <<base, busy>>

PowerLoss ==
    /\ content' \in older \cup {content}
    /\ older' = {} /\ base' = {} /\ busy' = FALSE
    /\ UNCHANGED raced

Next == Read \/ Stop \/ Begin \/ Replace \/ Settle \/ End \/ Foreign \/ PowerLoss

Spec == Init /\ [][Next]_vars
==============================================================================
