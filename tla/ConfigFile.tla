------------------------------ MODULE ConfigFile ------------------------------
(* internal/config: the TOML file as tables of lines, what Load reads from it, and *)
(* the edits made in place.  The editors find a block by its header and name and  *)
(* end it at the first blank line or header; TOML lets a table's keys go on past a *)
(* blank line.                                                                  *)
EXTENDS Naturals, Sequences, FiniteSets, SequencesExt

CONSTANT Names      \* names a source can be given

BadName == "a:b"    \* what ValidSourceName refuses

\* A line that is no key: `[[source]]`, a header TOML reads the same way and the
\* editors do not (`[[ source ]]`), one of any other table, a comment, a blank line.
Line(kind) == [kind |-> kind, key |-> "", val |-> ""]
Blank == Line("blank")
Comment == Line("comment")
Header == Line("source")
OddHeader == Line("odd")
Key(k, v) == [kind |-> "key", key |-> k, val |-> v]

SourceKeys == {"name", "type", "url", "cache", "ca_bundle", "path", "keyfile", "writable"}

\* A file is its tables: the lines above the first header, then a header and the
\* lines up to the next one, for each.
NoFile == <<>>
Top(F) == IF F = NoFile THEN <<>> ELSE F[1]
Tables(F) == 2..Len(F)

-------------------------------------------------------------------------------
(* Load.                                                                       *)

KeysOf(t) == {j \in DOMAIN t : t[j].kind = "key"}

ValueOf(t, k) ==
    IF \E j \in DOMAIN t : t[j].key = k
    THEN t[CHOOSE j \in DOMAIN t : t[j].key = k].val ELSE ""

\* TOML refuses a key twice in a table.
Parses(F) == \A i \in DOMAIN F : Cardinality({F[i][j].key : j \in KeysOf(F[i])}) = Cardinality(KeysOf(F[i]))

IsSource(t) == t[1].kind \in {"source", "odd"}

\* The sources in the order of the file, each a value per key.
SourcesOf(F) ==
    LET ts == SelectSeq(SubSeq(F, 2, Len(F)), IsSource) IN
    [n \in DOMAIN ts |-> [k \in SourceKeys |-> ValueOf(ts[n], k)]]

Complete(s) ==
    /\ s["name"] # ""
    /\ \/ s["type"] = "pleasant" /\ s["url"] # "" /\ s["cache"] # ""
       \/ s["type"] = "kdbx" /\ s["path"] # ""

\* The names two blocks have, for which Load refuses the file.
NamedTwice(F) ==
    LET ss == SourcesOf(F) IN
    {ss[n]["name"] : n \in {n \in DOMAIN ss : \E m \in DOMAIN ss : m # n /\ ss[m]["name"] = ss[n]["name"]}}

\* Load and normalizeAndValidate: an empty list is an error of its own.
HasNoSources(F) == F # NoFile /\ Parses(F) /\ SourcesOf(F) = <<>>

Loads(F) ==
    /\ F # NoFile /\ Parses(F)
    /\ LET ss == SourcesOf(F) IN
       /\ ss # <<>>
       /\ \A n \in DOMAIN ss : Complete(ss[n])
       /\ NamedTwice(F) = {}

Named(F) == LET ss == SourcesOf(F) IN {ss[n]["name"] : n \in DOMAIN ss}

SourceNamed(F, name) ==
    LET ss == SourcesOf(F) IN ss[CHOOSE n \in DOMAIN ss : ss[n]["name"] = name]

\* A default that names no source is dropped, not refused.
Default(F) == LET d == ValueOf(Top(F), "default") IN IF d \in Named(F) THEN d ELSE ""

-------------------------------------------------------------------------------
(* The edits.  Each returns whether it could, and the new file.                *)

Refused == [ok |-> FALSE, file |-> NoFile]
Done(F) == [ok |-> TRUE, file |-> F]

\* What the editors take for a table's block: its lines up to the first blank one.
BlockEnd(t) ==
    CHOOSE j \in 1..(Len(t) + 1) :
       /\ j = Len(t) + 1 \/ t[j] = Blank
       /\ \A k \in 1..(j - 1) : t[k] # Blank

Block(t) == SubSeq(t, 1, BlockEnd(t) - 1)
AfterBlock(t) == SubSeq(t, BlockEnd(t), Len(t))

\* The tables whose block has this name; the editors take the first.
Blocks(F, name) ==
    {i \in Tables(F) : F[i][1] = Header /\ \E j \in DOMAIN Block(F[i]) : F[i][j] = Key("name", name)}

First(I) == CHOOSE i \in I : \A j \in I : i <= j

KdbxBlock(name, path, keyfile) ==
    <<Header, Key("name", name), Key("type", "kdbx"), Key("path", path)>>
        \o IF keyfile = "" THEN <<>> ELSE <<Key("keyfile", keyfile)>>

PleasantBlock(name, cache, ca) ==
    <<Header, Key("name", name), Key("type", "pleasant"), Key("url", "url"), Key("cache", cache)>>
        \o IF ca = "" THEN <<>> ELSE <<Key("ca_bundle", ca)>>

\* (mutant) what the form does not write is gone
NoCarryOver(old, block) == block

\* Keys of the old block that the new one does not write stay, with a blank line
\* after them.
CarryOver(old, block) ==
    LET kept == SelectSeq(old, LAMBDA l : l.kind = "key" /\ \A j \in DOMAIN block : block[j].key # l.key)
    IN IF kept = <<>> THEN block ELSE block \o kept \o <<Blank>>

ReplaceBlock(F, i, block) ==
    [F EXCEPT ![i] = CarryOver(Block(@), block) \o AfterBlock(@)]

\* (mutant) the block is taken to end with its table
RemoveBlockWide(F, i) == RemoveAt(F, i)

\* With the one blank line after it; what follows that joins the table above.
RemoveBlock(F, i) ==
    LET rest == AfterBlock(F[i]) IN
    RemoveAt([F EXCEPT ![i - 1] = @ \o IF rest = <<>> THEN <<>> ELSE Tail(rest)], i)

\* More lines at the end of the file: they belong to its last table.
AppendLines(F, lines) == [F EXCEPT ![Len(F)] = @ \o lines]

\* upsert and RemoveSource load the file and then read it, so what is to be done
\* goes by one content and is done to another.  A plan is what Load decided, and
\* whether the result is loaded again once it is written.
Plan(way, reload) == [way |-> way, reload |-> reload]
NoPlan == Plan("refuse", FALSE)

\* (mutant) a source that is there already is added like any other
PlanAppend(F, name, overwrite) ==
    IF name \notin Names THEN NoPlan
    ELSE IF F = NoFile THEN Plan("create", FALSE)
    ELSE IF ~Loads(F) /\ ~HasNoSources(F) THEN NoPlan
    ELSE Plan("append", TRUE)

\* Into a file that loads, or has no sources, or does not exist.
PlanUpsert(F, name, overwrite) ==
    IF name \notin Names THEN NoPlan
    ELSE IF F = NoFile THEN Plan("create", FALSE)
    ELSE IF ~Loads(F) /\ ~HasNoSources(F) THEN NoPlan
    ELSE IF name \notin Named(F) THEN Plan("append", TRUE)
    ELSE IF overwrite THEN Plan("replace", TRUE) ELSE NoPlan

PlanRemove(F, name) ==
    IF ~Loads(F) \/ name \notin Named(F) THEN NoPlan
    ELSE Plan(IF Default(F) = name THEN "undefault" ELSE "remove", Len(SourcesOf(F)) > 1)

NewFile(block) == << <<>>, Append(block, Blank) >>

AppendBlock(F, block) ==
    Append(IF Last(F) # <<>> /\ Last(Last(F)) = Blank THEN F ELSE AppendLines(F, <<Blank>>),
           Append(block, Blank))

\* replaceSourceBlock and removeSourceBlock may find no block by their own rules.
Replaced(F, name, block) ==
    IF Blocks(F, name) = {} THEN Refused ELSE Done(ReplaceBlock(F, First(Blocks(F, name)), block))

RemoveTopLevelKey(F, k) == [F EXCEPT ![1] = SelectSeq(@, LAMBDA l : l.key # k)]

Removed(F, name, way) ==
    IF Blocks(F, name) = {} THEN Refused
    ELSE LET rest == RemoveBlock(F, First(Blocks(F, name))) IN
         Done(IF way = "undefault" THEN RemoveTopLevelKey(rest, "default") ELSE rest)

\* setTopLevel: in place, or before the first table.
SetTopLevel(F, k, v) ==
    IF F = NoFile THEN Refused
    ELSE LET at == {j \in KeysOf(Top(F)) : Top(F)[j].key = k} IN
         Done(IF at # {} THEN [F EXCEPT ![1][First(at)] = Key(k, v)]
              ELSE [F EXCEPT ![1] = @ \o <<Key(k, v), Blank>>])

\* setTopLevelMany: every key in one write, into a new file when there is none.
SetTopLevelMany(F, kv) ==
    LET top == Top(F)
        set == [j \in DOMAIN top |-> IF top[j].key \in DOMAIN kv THEN Key(top[j].key, kv[top[j].key]) ELSE top[j]]
        absent == SetToSeq({k \in DOMAIN kv : \A j \in DOMAIN top : top[j].key # k})
        new == [n \in DOMAIN absent |-> Key(absent[n], kv[absent[n]])]
        gap == IF new # <<>> /\ Len(F) > 1 THEN <<Blank>> ELSE <<>>
    IN Done(<<set \o new \o gap>> \o IF F = NoFile THEN <<>> ELSE Tail(F))

\* SetSourceWritable: the key is set, added at the end of the block, or removed;
\* the file is not loaded first.
SetWritable(F, name, on) ==
    IF F = NoFile \/ Blocks(F, name) = {} THEN Refused
    ELSE LET i == First(Blocks(F, name))
             at == {j \in DOMAIN Block(F[i]) : F[i][j].key = "writable"}
             mark == Key("writable", "true")
         IN Done(CASE on /\ at # {} -> [F EXCEPT ![i][First(at)] = mark]
                   [] on /\ at = {} -> [F EXCEPT ![i] = Append(Block(@), mark) \o AfterBlock(@)]
                   [] ~on /\ at # {} -> [F EXCEPT ![i] = RemoveAt(@, First(at))]
                   [] OTHER -> F)
===============================================================================
