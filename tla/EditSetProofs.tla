--------------------------- MODULE EditSetProofs ---------------------------
(***************************************************************************)
(* Package edit, for a log of any length: what applyOrder returns, what    *)
(* the reduction can and cannot lose, and what reverting takes along.      *)
(***************************************************************************)
EXTENDS EditSet, SetLemmas

(* A log whose operations are numbered, as Add numbers them.               *)
Numbered(ops) ==
  /\ \E top \in Nat : \A op \in ops : op.seq \in 0 .. top
  /\ \A op, other \in ops : op.seq = other.seq => op = other

(* Such a log is finite, as there are no more operations than numbers.     *)
LEMMA NumberedIsFinite ==
  ASSUME NEW ops, Numbered(ops)
  PROVE  IsFiniteSet(ops) /\ \A op \in ops : op.seq \in Nat
  <1>1. PICK top \in Nat : \A op \in ops : op.seq \in 0 .. top
    BY DEF Numbered
  <1> DEFINE number == [op \in ops |-> op.seq]
  <1>2. number \in Injection(ops, 0 .. top)
    BY <1>1 DEF Numbered, Injection, IsInjective
  <1>3. IsFiniteSet(0 .. top)
    BY FS_Interval
  <1>4. IsFiniteSet(ops)
    <2> HIDE DEF number
    <2>1. QED
      BY <1>2, <1>3, FS_Injection
  <1>5. QED
    BY <1>1, <1>4

-----------------------------------------------------------------------------
(* First and last.                                                         *)

(* Some operation comes first.                                             *)
LEMMA EarliestComesFirst ==
  ASSUME NEW ops, ops # {}, \A op \in ops : op.seq \in Nat
  PROVE  Earliest(ops) \in ops /\ \A other \in ops : Earliest(ops).seq <= other.seq
  <1> DEFINE Seqs == {op.seq : op \in ops}
  <1>1. Seqs \subseteq Nat /\ Seqs # {}
    OBVIOUS
  <1>2. PICK n \in Seqs : \A m \in Seqs : n <= m
    <2> HIDE DEF Seqs
    <2>1. QED
      BY <1>1, MinIsLeast
  <1>3. PICK op \in ops : op.seq = n
    OBVIOUS
  <1>4. \A other \in ops : op.seq <= other.seq
    BY <1>2, <1>3
  <1>5. QED
    BY <1>4 DEF Earliest

(* And some operation comes last.                                          *)
LEMMA LatestComesLast ==
  ASSUME NEW ops, ops # {}, Numbered(ops)
  PROVE  Latest(ops) \in ops /\ \A other \in ops : Latest(ops).seq >= other.seq
  <1>0. PICK top \in Nat : \A op \in ops : op.seq \in 0 .. top
    BY DEF Numbered
  <1> DEFINE Left == {top - op.seq : op \in ops}
  <1>1. Left \subseteq Nat /\ Left # {}
    BY <1>0
  <1>2. PICK n \in Left : \A m \in Left : n <= m
    <2> HIDE DEF Left
    <2>1. QED
      BY <1>1, MinIsLeast
  <1>3. PICK op \in ops : top - op.seq = n
    OBVIOUS
  <1>4. \A other \in ops : op.seq >= other.seq
    <2> SUFFICES ASSUME NEW other \in ops PROVE op.seq >= other.seq
      OBVIOUS
    <2>1. n <= top - other.seq
      BY <1>2
    <2>2. op.seq \in Nat /\ other.seq \in Nat
      BY <1>0
    <2>3. QED
      BY <1>3, <2>1, <2>2
  <1>5. QED
    BY <1>4 DEF Latest

-----------------------------------------------------------------------------
(* applyOrder.                                                             *)

(* What it takes next of those that are left.                              *)
NextOf(ops, left) == Earliest(IF Cyclic(ops) THEN left ELSE Ready(left))

(* The order of those that are left, for every choice of them.             *)
Lists(ops, f) ==
  f = [left \in SUBSET ops |->
         IF left = {} THEN <<>>
         ELSE <<NextOf(ops, left)>> \o f[left \ {NextOf(ops, left)}]]

(* It never gets stuck: what it takes next is there, and unless the rules   *)
(* are cyclic nothing left has to come before it, and whatever was staged   *)
(* earlier still waits for something.                                      *)
LEMMA NextIsThere ==
  ASSUME NEW ops, Numbered(ops), NEW left \in SUBSET ops, left # {}
  PROVE  /\ NextOf(ops, left) \in left
         /\ Cyclic(ops) => \A other \in left : NextOf(ops, left).seq <= other.seq
         /\ ~Cyclic(ops) => \A other \in left :
              /\ ~Precedes(other, NextOf(ops, left))
              /\ other.seq < NextOf(ops, left).seq => \E u \in left : Precedes(u, other)
  <1>1. \A op \in left : op.seq \in Nat
    BY NumberedIsFinite
  <1>2. CASE Cyclic(ops)
    BY <1>1, <1>2, EarliestComesFirst DEF NextOf
  <1>3. CASE ~Cyclic(ops)
    <2>1. Ready(left) # {} /\ Ready(left) \subseteq left
      BY <1>3 DEF Cyclic, Ready
    <2>2. /\ Earliest(Ready(left)) \in Ready(left)
          /\ \A other \in Ready(left) : Earliest(Ready(left)).seq <= other.seq
      BY <1>1, <2>1, EarliestComesFirst
    <2>3. NextOf(ops, left) = Earliest(Ready(left))
      BY <1>3 DEF NextOf
    <2>4. ASSUME NEW other \in left, other.seq < NextOf(ops, left).seq
          PROVE  \E u \in left : Precedes(u, other)
      <3>1. other.seq \in Nat /\ NextOf(ops, left).seq \in Nat
        BY <1>1, <2>1, <2>2, <2>3
      <3>2. other \notin Ready(left)
        BY <2>2, <2>3, <2>4, <3>1
      <3>3. QED
        BY <3>2 DEF Ready
    <2>5. QED
      BY <1>3, <2>2, <2>3, <2>4 DEF Ready
  <1>4. QED
    BY <1>2, <1>3

(* The order of those that are left is defined whatever is left.           *)
LEMMA OrderExists ==
  ASSUME NEW ops, Numbered(ops)
  PROVE  \E f : Lists(ops, f)
  <1> DEFINE Small(n) == {left \in SUBSET ops : Cardinality(left) < n}
             Upto(n, f) ==
               f = [left \in Small(n) |->
                      IF left = {} THEN <<>>
                      ELSE <<NextOf(ops, left)>> \o f[left \ {NextOf(ops, left)}]]
             Found == {n \in Nat : \E f : Upto(n, f)}
  <1>0. ASSUME NEW left \in SUBSET ops
        PROVE  IsFiniteSet(left) /\ Cardinality(left) \in Nat /\ Cardinality(left) <= Cardinality(ops)
    BY FS_Subset, FS_CardinalityType, NumberedIsFinite
  <1>1. 0 \in Found
    <2>1. Small(0) = {}
      BY <1>0
    <2> DEFINE none == [left \in {} |-> <<>>]
    <2>2. Upto(0, none)
      <3> HIDE DEF Small
      <3>1. QED
        BY <2>1
    <2> HIDE DEF Upto, none
    <2>3. QED
      BY <2>2
  <1>2. ASSUME NEW n \in Nat, n \in Found PROVE n + 1 \in Found
    <2>1. PICK f : Upto(n, f)
      BY <1>2
    <2> DEFINE g == [left \in Small(n + 1) |->
                       IF left = {} THEN <<>>
                       ELSE <<NextOf(ops, left)>> \o f[left \ {NextOf(ops, left)}]]
    <2>2. Small(n) \subseteq Small(n + 1)
      BY <1>0
    <2>3. ASSUME NEW left \in Small(n) PROVE g[left] = f[left]
      <3> HIDE DEF Small
      <3>1. QED
        BY <2>1, <2>2
    <2>4. ASSUME NEW left \in Small(n + 1), left # {}
          PROVE  left \ {NextOf(ops, left)} \in Small(n)
      <3>1. NextOf(ops, left) \in left
        BY <2>4, NextIsThere
      <3>2. Cardinality(left \ {NextOf(ops, left)}) = Cardinality(left) - 1
        BY <3>1, <1>0, FS_RemoveElement
      <3>3. QED
        BY <3>2, <1>0
    <2>5. g = [left \in Small(n + 1) |->
                 IF left = {} THEN <<>>
                 ELSE <<NextOf(ops, left)>> \o g[left \ {NextOf(ops, left)}]]
      <3> DEFINE h == [left \in Small(n + 1) |->
                         IF left = {} THEN <<>>
                         ELSE <<NextOf(ops, left)>> \o g[left \ {NextOf(ops, left)}]]
      <3>1. ASSUME NEW left \in Small(n + 1) PROVE g[left] = h[left]
        <4> HIDE DEF Small
        <4>1. CASE left = {}
          BY <4>1
        <4>2. CASE left # {}
          <5>1. g[left] = <<NextOf(ops, left)>> \o f[left \ {NextOf(ops, left)}]
            BY <4>2
          <5>2. h[left] = <<NextOf(ops, left)>> \o g[left \ {NextOf(ops, left)}]
            BY <4>2
          <5>3. g[left \ {NextOf(ops, left)}] = f[left \ {NextOf(ops, left)}]
            <6> HIDE DEF g, h
            <6>1. QED
              BY <4>2, <2>3, <2>4
          <5>4. QED
            BY <5>1, <5>2, <5>3
        <4>3. QED
          BY <4>1, <4>2
      <3>2. QED
        <4> HIDE DEF Small
        <4>1. DOMAIN g = Small(n + 1) /\ DOMAIN h = Small(n + 1)
          OBVIOUS
        <4>2. g = [left \in Small(n + 1) |-> g[left]] /\ h = [left \in Small(n + 1) |-> h[left]]
          OBVIOUS
        <4>3. g = h
          <5> HIDE DEF g, h
          <5>1. QED
            BY <3>1, <4>2
        <4>4. QED
          BY <4>3
    <2>6. Upto(n + 1, g)
      BY <2>5
    <2> HIDE DEF Upto, g
    <2>7. QED
      BY <2>6
  <1>3. PICK f : Upto(Cardinality(ops) + 1, f)
    <2>1. Nat \subseteq Found
      <3> HIDE DEF Found
      <3>1. QED
        BY <1>1, <1>2, CountingUp
    <2>2. Cardinality(ops) + 1 \in Nat
      BY <1>0
    <2> HIDE DEF Upto
    <2>3. QED
      BY <2>1, <2>2
  <1>4. Small(Cardinality(ops) + 1) = SUBSET ops
    BY <1>0
  <1>5. QED
    <2> HIDE DEF Small
    <2>1. Lists(ops, f)
      BY <1>3, <1>4 DEF Lists
    <2>2. QED
      BY <2>1

(* What applyOrder returns is such an order of the whole log.              *)
LEMMA OrderTaken ==
  ASSUME NEW ops, Numbered(ops)
  PROVE  \E f : Lists(ops, f) /\ ApplyOrder(ops) = f[ops]
  <1>1. ApplyOrder(ops) = (CHOOSE f : Lists(ops, f))[ops]
    BY DEF ApplyOrder, Lists, NextOf
  <1>2. QED
    BY <1>1, OrderExists

(* A sequence with one more in front.                                      *)
LEMMA InFront ==
  ASSUME NEW S, NEW a \in S, NEW s \in Seq(S)
  PROVE  /\ <<a>> \o s \in Seq(S)
         /\ DOMAIN (<<a>> \o s) = 1 .. Len(s) + 1
         /\ (<<a>> \o s)[1] = a
         /\ \A i \in 2 .. Len(s) + 1 : (<<a>> \o s)[i] = s[i - 1]
         /\ Members(<<a>> \o s) = {a} \cup Members(s)
  <1>1. /\ <<a>> \o s \in Seq(S)
        /\ DOMAIN (<<a>> \o s) = 1 .. Len(s) + 1
        /\ (<<a>> \o s)[1] = a
        /\ \A i \in 2 .. Len(s) + 1 : (<<a>> \o s)[i] = s[i - 1]
    OBVIOUS
  <1>2. PICK t : t = <<a>> \o s
    OBVIOUS
  <1>3. /\ Len(s) \in Nat /\ DOMAIN s = 1 .. Len(s)
        /\ DOMAIN t = 1 .. Len(s) + 1 /\ t[1] = a
        /\ \A i \in 2 .. Len(s) + 1 : t[i] = s[i - 1]
    BY <1>1, <1>2
  <1>4. ASSUME NEW x \in Members(t) PROVE x \in {a} \cup Members(s)
    <2>1. PICK i \in 1 .. Len(s) + 1 : x = t[i]
      BY <1>3 DEF Members
    <2>2. CASE i = 1
      BY <2>1, <2>2, <1>3
    <2>3. CASE i # 1
      <3>1. i \in 2 .. Len(s) + 1 /\ i - 1 \in 1 .. Len(s)
        BY <2>3, <1>3
      <3>2. QED
        BY <3>1, <2>1, <1>3 DEF Members
    <2>4. QED
      BY <2>2, <2>3
  <1>5. ASSUME NEW x \in {a} \cup Members(s) PROVE x \in Members(t)
    <2>1. CASE x = a
      BY <2>1, <1>3 DEF Members
    <2>2. CASE x \in Members(s)
      <3>1. PICK i \in 1 .. Len(s) : x = s[i]
        BY <2>2, <1>3 DEF Members
      <3>2. i + 1 \in 2 .. Len(s) + 1 /\ (i + 1) - 1 = i
        BY <1>3
      <3>3. t[i + 1] = s[i] /\ i + 1 \in DOMAIN t
        BY <3>2, <1>3
      <3>4. QED
        BY <3>1, <3>3 DEF Members
    <2>3. QED
      BY <2>1, <2>2
  <1>6. QED
    BY <1>1, <1>2, <1>4, <1>5

(* An order a save can keep to: each operation once, and no later one has   *)
(* to come before an earlier one; and by number, but for what had to wait   *)
(* for something, or altogether when the rules are cyclic.                  *)
Sorted(ops, left, order) ==
  /\ order \in Seq(left)
  /\ Members(order) = left
  /\ \A i, j \in DOMAIN order : i < j =>
       /\ order[i] # order[j]
       /\ IF Cyclic(ops) THEN order[i].seq <= order[j].seq
          ELSE /\ ~Precedes(order[j], order[i])
               /\ order[j].seq < order[i].seq =>
                    \E k \in DOMAIN order : i <= k /\ Precedes(order[k], order[j])

(* Taking one that may come next, and then the others in order.            *)
LEMMA SortedInFront ==
  ASSUME NEW ops, NEW left, NEW a \in left, NEW s, Sorted(ops, left \ {a}, s),
         IF Cyclic(ops) THEN \A other \in left : a.seq <= other.seq
         ELSE \A other \in left :
                /\ ~Precedes(other, a)
                /\ other.seq < a.seq => \E u \in left : Precedes(u, other)
  PROVE  Sorted(ops, left, <<a>> \o s)
  <1>1. s \in Seq(left) /\ Members(s) = left \ {a} /\ Len(s) \in Nat /\ DOMAIN s = 1 .. Len(s)
    BY DEF Sorted
  <1>2. PICK t : t = <<a>> \o s
    OBVIOUS
  <1>3. /\ t \in Seq(left) /\ DOMAIN t = 1 .. Len(s) + 1 /\ t[1] = a
        /\ \A i \in 2 .. Len(s) + 1 : t[i] = s[i - 1]
        /\ Members(t) = {a} \cup Members(s)
    BY <1>1, <1>2, InFront
  <1>4. ASSUME NEW i \in DOMAIN t, NEW j \in DOMAIN t, i < j
        PROVE  /\ t[i] # t[j]
               /\ IF Cyclic(ops) THEN t[i].seq <= t[j].seq
                  ELSE /\ ~Precedes(t[j], t[i])
                       /\ t[j].seq < t[i].seq => \E k \in DOMAIN t : i <= k /\ Precedes(t[k], t[j])
    <2>1. j \in 2 .. Len(s) + 1 /\ j - 1 \in DOMAIN s /\ t[j] = s[j - 1]
      BY <1>1, <1>3, <1>4
    <2>2. CASE i = 1
      <3>1. t[i] = a /\ t[j] \in left \ {a}
        BY <1>1, <1>3, <2>1, <2>2 DEF Members
      <3>2. \A u \in left : \E k \in DOMAIN t : u = t[k] /\ i <= k
        <4>1. left = Members(t)
          BY <1>1, <1>3
        <4>2. QED
          BY <1>1, <1>3, <2>2, <4>1 DEF Members
      <3>3. QED
        BY <3>1, <3>2
    <2>3. CASE i # 1
      <3>1. i - 1 \in DOMAIN s /\ t[i] = s[i - 1] /\ i - 1 < j - 1
        BY <1>1, <1>3, <1>4, <2>3
      <3>2. \A k \in DOMAIN s : i - 1 <= k => k + 1 \in DOMAIN t /\ i <= k + 1 /\ t[k + 1] = s[k]
        <4>1. \A k \in 1 .. Len(s) : k + 1 \in 2 .. Len(s) + 1 /\ (k + 1) - 1 = k
          BY <1>1
        <4>2. QED
          BY <1>1, <1>3, <1>4, <4>1
      <3>3. QED
        BY <2>1, <3>1, <3>2 DEF Sorted
    <2>4. QED
      BY <2>2, <2>3
  <1>5. t \in Seq(left) /\ Members(t) = left
    BY <1>1, <1>3
  <1>6. Sorted(ops, left, t)
    BY ONLY <1>4, <1>5, Zenon DEF Sorted
  <1>7. QED
    BY <1>2, <1>6

(* However many operations a change set comes down to, applyOrder gives     *)
(* each of them back once, creations before what they are to hold, moves    *)
(* before the deletion of what they leave, and otherwise as staged; and it  *)
(* never gets stuck.                                                       *)
THEOREM OrderIsSorted ==
  ASSUME NEW ops, Numbered(ops)
  PROVE  Sorted(ops, ops, ApplyOrder(ops))
  <1>1. PICK f : Lists(ops, f) /\ ApplyOrder(ops) = f[ops]
    BY OrderTaken
  <1> DEFINE G == {left \in SUBSET ops : Sorted(ops, left, f[left])}
  <1>2. ASSUME NEW left \in SUBSET ops, \A x \in left : left \ {x} \in G
        PROVE  left \in G
    <2> SUFFICES Sorted(ops, left, f[left])
      OBVIOUS
    <2>1. CASE left = {}
      <3>1. f[left] = <<>>
        BY <1>1, <2>1 DEF Lists
      <3>2. <<>> \in Seq({}) /\ DOMAIN <<>> = {}
        OBVIOUS
      <3>3. Sorted(ops, {}, <<>>)
        BY <3>2, Zenon DEF Sorted, Members
      <3>4. QED
        BY <2>1, <3>1, <3>3
    <2>2. CASE left # {}
      <3> DEFINE a == NextOf(ops, left)
      <3>1. f[left] = <<a>> \o f[left \ {a}]
        BY <1>1, <2>2 DEF Lists
      <3>2. /\ a \in left
            /\ IF Cyclic(ops) THEN \A other \in left : a.seq <= other.seq
               ELSE \A other \in left :
                      /\ ~Precedes(other, a)
                      /\ other.seq < a.seq => \E u \in left : Precedes(u, other)
        BY <2>2, NextIsThere
      <3>3. Sorted(ops, left \ {a}, f[left \ {a}])
        BY <1>2, <3>2
      <3> HIDE DEF a, G
      <3>4. QED
        BY <3>1, <3>2, <3>3, SortedInFront
    <2>3. QED
      BY <2>1, <2>2
  <1>3. SUBSET ops \subseteq G
    <2> HIDE DEF G
    <2>1. QED
      BY <1>2, OneMore, NumberedIsFinite
  <1>4. QED
    BY <1>1, <1>3

-----------------------------------------------------------------------------
(* The reduction of one target.                                            *)

(* An operation, field by field.                                           *)
Shaped(op) ==
  op = [seq |-> op.seq, kind |-> op.kind, source |-> op.source, target |-> op.target,
        parent |-> op.parent, name |-> op.name, was |-> op.was,
        before |-> op.before, after |-> op.after, perm |-> op.perm]

(* A log as Add makes it.                                                  *)
Log(ops) == Numbered(ops) /\ \A op \in ops : Shaped(op)

(* The kinds that are reduced together.                                    *)
Families == {{"CreateEntry"}, {"CreateGroup"}, {"EditEntry"}, MoveKinds, {"RenameGroup"}, DeleteKinds}

(* A part of a log is one.                                                 *)
LEMMA PartOfALog ==
  ASSUME NEW ops, Log(ops), NEW some \in SUBSET ops
  PROVE  Log(some)
  BY DEF Log, Numbered

(* Of a family of operations, the last is one of them.                     *)
LEMMA LastIsOne ==
  ASSUME NEW ops, Log(ops)
  PROVE  /\ \A r \in LastOf(ops) : r \in ops /\ r = Latest(ops)
         /\ ops # {} => Latest(ops) \in ops /\ LastOf(ops) = {Latest(ops)}
  BY LatestComesLast DEF Log, LastOf

(* Collapsing a family makes one operation of two: the latest of them, with *)
(* the number, the origin and the draft of the earliest.                   *)
LEMMA CollapsedIsMade ==
  ASSUME NEW ops, Log(ops), NEW r \in Collapsed(ops)
  PROVE  \E first, last \in ops :
           /\ first = Earliest(ops) /\ last = Latest(ops)
           /\ Shaped(r)
           /\ r.seq = first.seq /\ r.was = first.was /\ r.before = first.before
           /\ r.kind = last.kind /\ r.source = last.source /\ r.target = last.target
           /\ r.parent = last.parent /\ r.name = last.name /\ r.after = last.after
           /\ r.perm = last.perm
  <1>1. ops # {}
    BY DEF Collapsed
  <1>2. PICK last \in ops : last = Latest(ops)
    BY <1>1, LatestComesLast DEF Log
  <1>3. PICK first \in ops : first = Earliest(ops)
    BY <1>1, EarliestComesFirst, NumberedIsFinite DEF Log
  <1>4. r = [last EXCEPT !.seq = first.seq, !.was = first.was, !.before = first.before]
    BY <1>1, <1>2, <1>3 DEF Collapsed
  <1>5. r = [seq |-> first.seq, kind |-> last.kind, source |-> last.source,
             target |-> last.target, parent |-> last.parent, name |-> last.name,
             was |-> first.was, before |-> first.before, after |-> last.after,
             perm |-> last.perm]
    <2>1. last = [seq |-> last.seq, kind |-> last.kind, source |-> last.source,
                  target |-> last.target, parent |-> last.parent, name |-> last.name,
                  was |-> last.was, before |-> last.before, after |-> last.after,
                  perm |-> last.perm]
      BY <1>2 DEF Log, Shaped
    <2>2. PICK a, b, c, d, e, f, g, h, i, j :
            last = [seq |-> a, kind |-> b, source |-> c, target |-> d, parent |-> e, name |-> f,
                    was |-> g, before |-> h, after |-> i, perm |-> j]
      BY <2>1, Zenon
    <2>3. QED
      BY ONLY <1>4, <2>2
  <1>6. QED
    BY <1>2, <1>3, <1>5 DEF Shaped

LEMMA CollapsedIsOne ==
  ASSUME NEW ops, Log(ops)
  PROVE  /\ \A r \in Collapsed(ops) :
              /\ Shaped(r)
              /\ \E op \in ops : r.seq = op.seq
              /\ \E op \in ops : r.kind = op.kind /\ r.target = op.target /\ r.parent = op.parent
         /\ \A r, other \in Collapsed(ops) : r = other
  <1>1. \A r, other \in Collapsed(ops) : r = other
    BY DEF Collapsed
  <1>2. ASSUME NEW r \in Collapsed(ops)
        PROVE  /\ Shaped(r)
               /\ \E op \in ops : r.seq = op.seq
               /\ \E op \in ops : r.kind = op.kind /\ r.target = op.target /\ r.parent = op.parent
    BY CollapsedIsMade
  <1>3. QED
    BY <1>1, <1>2

(* One of a family stands for the family: it has the number of one of them, *)
(* and the kind, the target and the place of one of them.                  *)
Net(mine, family, r) ==
  /\ Shaped(r)
  /\ r.kind \in family
  /\ \E op \in OfKind(mine, family) : r.seq = op.seq
  /\ \E op \in OfKind(mine, family) :
       r.kind = op.kind /\ r.target = op.target /\ r.parent = op.parent

LEMMA CollapsedIsNet ==
  ASSUME NEW mine, Log(mine), NEW family, NEW r \in Collapsed(OfKind(mine, family))
  PROVE  Net(mine, family, r)
  <1>1. Log(OfKind(mine, family))
    BY PartOfALog DEF OfKind
  <1>2. \A op \in OfKind(mine, family) : op.kind \in family
    BY DEF OfKind
  <1>3. QED
    BY <1>1, <1>2, CollapsedIsOne DEF Net

LEMMA LastIsNet ==
  ASSUME NEW mine, Log(mine), NEW family, NEW r \in LastOf(OfKind(mine, family))
  PROVE  Net(mine, family, r) /\ r \in OfKind(mine, family)
  <1>1. Log(OfKind(mine, family))
    BY PartOfALog DEF OfKind
  <1>2. r \in OfKind(mine, family)
    BY <1>1, LastIsOne
  <1>3. QED
    BY <1>2 DEF Net, OfKind, Log

(* A creation that carries the values of a later edit, or the name of a     *)
(* later rename, is still that creation.                                   *)
LEMMA FilledIsNet ==
  ASSUME NEW mine, NEW family, NEW c, Net(mine, family, c), NEW value
  PROVE  /\ Net(mine, family, [c EXCEPT !.after = value])
         /\ Net(mine, family, [c EXCEPT !.name = value])
  <1>1. PICK s, k, o, t, p, n, w, b, a, m :
          c = [seq |-> s, kind |-> k, source |-> o, target |-> t, parent |-> p, name |-> n,
               was |-> w, before |-> b, after |-> a, perm |-> m]
    BY Zenon DEF Net, Shaped
  <1>2. /\ [c EXCEPT !.after = value] =
             [seq |-> s, kind |-> k, source |-> o, target |-> t, parent |-> p, name |-> n,
              was |-> w, before |-> b, after |-> value, perm |-> m]
        /\ [c EXCEPT !.name = value] =
             [seq |-> s, kind |-> k, source |-> o, target |-> t, parent |-> p, name |-> value,
              was |-> w, before |-> b, after |-> a, perm |-> m]
    BY <1>1
  <1>3. c.seq = s /\ c.kind = k /\ c.target = t /\ c.parent = p
    BY <1>1
  <1>4. PICK x, y : x = [c EXCEPT !.after = value] /\ y = [c EXCEPT !.name = value]
    OBVIOUS
  <1>5. /\ Shaped(x) /\ x.seq = s /\ x.kind = k /\ x.target = t /\ x.parent = p
        /\ Shaped(y) /\ y.seq = s /\ y.kind = k /\ y.target = t /\ y.parent = p
    BY <1>2, <1>4 DEF Shaped
  <1>6. QED
    BY <1>3, <1>4, <1>5 DEF Net

(* The six ways into a reduction, one for each family.                     *)
BornEntry(mine) ==
  {[c EXCEPT !.after = IF Collapsed(OfKind(mine, {"EditEntry"})) = {} THEN @
                       ELSE Latest(Collapsed(OfKind(mine, {"EditEntry"}))).after]
     : c \in LastOf(OfKind(mine, {"CreateEntry"}))}
BornGroup(mine) ==
  {[c EXCEPT !.name = IF Collapsed(OfKind(mine, {"RenameGroup"})) = {} THEN @
                      ELSE Latest(Collapsed(OfKind(mine, {"RenameGroup"}))).name]
     : c \in LastOf(OfKind(mine, {"CreateGroup"}))}

LEMMA WaysIn ==
  ASSUME NEW mine
  PROVE  LET born    == BornEntry(mine) \cup BornGroup(mine)
             edited  == Collapsed(OfKind(mine, {"EditEntry"}))
             moved   == Collapsed(OfKind(mine, MoveKinds))
             renamed == Collapsed(OfKind(mine, {"RenameGroup"}))
             deleted == LastOf(OfKind(mine, DeleteKinds))
         IN  /\ born # {} => ReduceTarget(mine) = IF deleted # {} THEN {} ELSE born \cup moved
             /\ born = {} => /\ ReduceTarget(mine) \subseteq edited \cup renamed \cup moved \cup deleted
                             /\ deleted \subseteq ReduceTarget(mine)
                             /\ deleted # {} => ReduceTarget(mine) \subseteq edited \cup deleted
  BY DEF ReduceTarget, BornEntry, BornGroup

LEMMA BornIsNet ==
  ASSUME NEW mine, Log(mine)
  PROVE  /\ \A r \in BornEntry(mine) : Net(mine, {"CreateEntry"}, r)
         /\ \A r \in BornGroup(mine) : Net(mine, {"CreateGroup"}, r)
         /\ \A r, other \in BornEntry(mine) : r = other
         /\ \A r, other \in BornGroup(mine) : r = other
         /\ OfKind(mine, CreateKinds) # {} => BornEntry(mine) \cup BornGroup(mine) # {}
  <1>1. ASSUME NEW r \in BornEntry(mine) PROVE Net(mine, {"CreateEntry"}, r)
    <2>1. PICK c \in LastOf(OfKind(mine, {"CreateEntry"})) : \E value : r = [c EXCEPT !.after = value]
      BY DEF BornEntry
    <2>2. Net(mine, {"CreateEntry"}, c)
      BY <2>1, LastIsNet
    <2>3. PICK value : r = [c EXCEPT !.after = value]
      BY <2>1
    <2>4. QED
      BY <2>2, <2>3, FilledIsNet
  <1>2. ASSUME NEW r \in BornGroup(mine) PROVE Net(mine, {"CreateGroup"}, r)
    <2>1. PICK c \in LastOf(OfKind(mine, {"CreateGroup"})) : \E value : r = [c EXCEPT !.name = value]
      BY DEF BornGroup
    <2>2. Net(mine, {"CreateGroup"}, c)
      BY <2>1, LastIsNet
    <2>3. PICK value : r = [c EXCEPT !.name = value]
      BY <2>1
    <2>4. QED
      BY <2>2, <2>3, FilledIsNet
  <1>3. \A S : \A c, other \in LastOf(S) : c = other
    BY DEF LastOf
  <1>4. \A r, other \in BornEntry(mine) : r = other
    BY <1>3 DEF BornEntry
  <1>5. \A r, other \in BornGroup(mine) : r = other
    BY <1>3 DEF BornGroup
  <1>6. ASSUME OfKind(mine, CreateKinds) # {} PROVE BornEntry(mine) \cup BornGroup(mine) # {}
    <2>1. CASE OfKind(mine, {"CreateEntry"}) # {}
      <3>1. LastOf(OfKind(mine, {"CreateEntry"})) # {}
        BY <2>1 DEF LastOf
      <3>2. QED
        BY <3>1 DEF BornEntry
    <2>2. CASE OfKind(mine, {"CreateGroup"}) # {}
      <3>1. LastOf(OfKind(mine, {"CreateGroup"})) # {}
        BY <2>2 DEF LastOf
      <3>2. QED
        BY <3>1 DEF BornGroup
    <2>3. QED
      BY <1>6, <2>1, <2>2 DEF OfKind, CreateKinds
  <1>7. QED
    BY <1>1, <1>2, <1>4, <1>5, <1>6

(* The net operations of a target: one of a family at most, each standing   *)
(* for its family, and a deletion one that was staged.                     *)
LEMMA NetOfTarget ==
  ASSUME NEW mine, Log(mine)
  PROVE  /\ \A r \in ReduceTarget(mine) :
              \E family \in Families : /\ Net(mine, family, r)
                                       /\ family = DeleteKinds => r \in mine
         /\ \A family \in Families : \A r, other \in ReduceTarget(mine) :
              r.kind \in family /\ other.kind \in family => r = other
  <1> DEFINE edited  == Collapsed(OfKind(mine, {"EditEntry"}))
             moved   == Collapsed(OfKind(mine, MoveKinds))
             renamed == Collapsed(OfKind(mine, {"RenameGroup"}))
             deleted == LastOf(OfKind(mine, DeleteKinds))
  <1>1. ReduceTarget(mine) \subseteq
          BornEntry(mine) \cup BornGroup(mine) \cup edited \cup moved \cup renamed \cup deleted
    BY WaysIn
  <1>2. /\ \A r \in edited : Net(mine, {"EditEntry"}, r)
        /\ \A r \in moved : Net(mine, MoveKinds, r)
        /\ \A r \in renamed : Net(mine, {"RenameGroup"}, r)
        /\ \A r \in deleted : Net(mine, DeleteKinds, r) /\ r \in mine
    BY CollapsedIsNet, LastIsNet DEF OfKind
  <1>3. /\ \A r \in BornEntry(mine) : Net(mine, {"CreateEntry"}, r)
        /\ \A r \in BornGroup(mine) : Net(mine, {"CreateGroup"}, r)
    BY BornIsNet
  <1>4. /\ \A r, other \in edited : r = other
        /\ \A r, other \in moved : r = other
        /\ \A r, other \in renamed : r = other
        /\ \A r, other \in deleted : r = other
        /\ \A r, other \in BornEntry(mine) : r = other
        /\ \A r, other \in BornGroup(mine) : r = other
    BY BornIsNet DEF Collapsed, LastOf
  <1> HIDE DEF edited, moved, renamed, deleted
  <1>5. /\ \A r \in edited : r.kind = "EditEntry"
        /\ \A r \in moved : r.kind \in MoveKinds
        /\ \A r \in renamed : r.kind = "RenameGroup"
        /\ \A r \in deleted : r.kind \in DeleteKinds
        /\ \A r \in BornEntry(mine) : r.kind = "CreateEntry"
        /\ \A r \in BornGroup(mine) : r.kind = "CreateGroup"
    BY <1>2, <1>3 DEF Net
  <1>6. ASSUME NEW r \in ReduceTarget(mine)
        PROVE  \E family \in Families : /\ Net(mine, family, r)
                                        /\ family = DeleteKinds => r \in mine
    <2>1. \A family \in {{"CreateEntry"}, {"CreateGroup"}, {"EditEntry"}, MoveKinds, {"RenameGroup"}} :
            family \in Families /\ family # DeleteKinds
      BY DEF Families, MoveKinds, DeleteKinds
    <2>2. DeleteKinds \in Families
      BY DEF Families
    <2>3. QED
      BY <1>1, <1>2, <1>3, <2>1, <2>2
  <1>7. ASSUME NEW family \in Families, NEW r \in ReduceTarget(mine), NEW other \in ReduceTarget(mine),
               r.kind \in family, other.kind \in family
        PROVE  r = other
    BY <1>1, <1>4, <1>5, <1>7 DEF Families, MoveKinds, DeleteKinds
  <1>8. QED
    BY <1>6, <1>7

-----------------------------------------------------------------------------
(* The reduction of the whole log.                                         *)

(* Effective, taken apart: reduced target by target, what depends on a      *)
(* creation that came to nothing removed, what is inside a deleted folder   *)
(* subsumed.                                                               *)
Reduction(ops) == UNION {ReduceTarget(On(ops, t)) : t \in Targets(ops)}
Gone(ops)      == Cancelled(ops, Reduction(ops))
Kept(ops)      == {op \in Reduction(ops) : op.target \notin Gone(ops) /\ op.parent \notin Gone(ops)}
Final(ops)     == SubsumeInsideDeletedFolders(Kept(ops))

(* A kind is in one family only.                                           *)
LEMMA FamiliesAreDisjoint ==
  ASSUME NEW family \in Families, NEW other \in Families, NEW kind \in family \cap other
  PROVE  family = other
  BY DEF Families, MoveKinds, DeleteKinds

(* A net operation is its target's, and stands for a family of its log.    *)
LEMMA ReductionIsNet ==
  ASSUME NEW ops, Log(ops), NEW r \in Reduction(ops)
  PROVE  /\ r \in ReduceTarget(On(ops, r.target))
         /\ r.target \in Targets(ops)
         /\ \E family \in Families : /\ Net(On(ops, r.target), family, r)
                                     /\ family = DeleteKinds => r \in ops
  <1>1. PICK t \in Targets(ops) : r \in ReduceTarget(On(ops, t))
    BY DEF Reduction
  <1>2. Log(On(ops, t))
    BY PartOfALog DEF On
  <1>3. PICK family \in Families : /\ Net(On(ops, t), family, r)
                                   /\ family = DeleteKinds => r \in On(ops, t)
    BY <1>1, <1>2, NetOfTarget
  <1>4. r.target = t
    BY <1>3 DEF Net, OfKind, On
  <1>5. QED
    BY <1>1, <1>3, <1>4 DEF On

(* One net operation of a family for each target, each under a number of    *)
(* its own.                                                                *)
LEMMA ReductionIsNumbered ==
  ASSUME NEW ops, Log(ops)
  PROVE  /\ Numbered(Reduction(ops))
         /\ \A family \in Families : \A r, other \in Reduction(ops) :
              r.target = other.target /\ r.kind \in family /\ other.kind \in family => r = other
  <1>1. ASSUME NEW family \in Families, NEW r \in Reduction(ops), NEW other \in Reduction(ops),
               r.target = other.target, r.kind \in family, other.kind \in family
        PROVE  r = other
    <2>1. Log(On(ops, r.target))
      BY PartOfALog DEF On
    <2>2. r \in ReduceTarget(On(ops, r.target)) /\ other \in ReduceTarget(On(ops, r.target))
      BY <1>1, ReductionIsNet
    <2>3. QED
      BY <1>1, <2>1, <2>2, NetOfTarget
  <1>2. ASSUME NEW r \in Reduction(ops), NEW other \in Reduction(ops), r.seq = other.seq
        PROVE  r = other
    <2>1. PICK f \in Families : Net(On(ops, r.target), f, r)
      BY ReductionIsNet
    <2>2. PICK g \in Families : Net(On(ops, other.target), g, other)
      BY ReductionIsNet
    <2>3. PICK a \in ops : a.seq = r.seq /\ a.target = r.target /\ a.kind \in f
      BY <2>1 DEF Net, OfKind, On
    <2>4. PICK b \in ops : b.seq = other.seq /\ b.target = other.target /\ b.kind \in g
      BY <2>2 DEF Net, OfKind, On
    <2>5. a = b
      BY <1>2, <2>3, <2>4 DEF Log, Numbered
    <2>6. f = g
      BY <2>3, <2>4, <2>5, FamiliesAreDisjoint
    <2>7. r.kind \in f /\ other.kind \in f /\ r.target = other.target
      BY <2>1, <2>2, <2>3, <2>4, <2>5, <2>6 DEF Net
    <2>8. QED
      BY <1>1, <2>7
  <1>3. PICK top \in Nat : \A op \in ops : op.seq \in 0 .. top
    BY DEF Log, Numbered
  <1>4. ASSUME NEW r \in Reduction(ops) PROVE r.seq \in 0 .. top
    <2>1. PICK f \in Families : Net(On(ops, r.target), f, r)
      BY ReductionIsNet
    <2>2. QED
      BY <1>3, <2>1 DEF Net, OfKind, On
  <1>5. QED
    BY <1>1, <1>2, <1>3, <1>4 DEF Numbered

(* What Effective returns is what the reduction comes to, in an order a     *)
(* save can keep to.                                                       *)
LEMMA EffectiveIsFinal ==
  ASSUME NEW ops, Log(ops)
  PROVE  /\ Final(ops) \subseteq Kept(ops) /\ Kept(ops) \subseteq Reduction(ops)
         /\ Members(Effective(ops)) = Final(ops)
         /\ Sorted(Final(ops), Final(ops), Effective(ops))
  <1>1. Final(ops) \subseteq Kept(ops) /\ Kept(ops) \subseteq Reduction(ops)
    BY DEF Final, Kept, SubsumeInsideDeletedFolders
  <1>2. Effective(ops) = ApplyOrder(Final(ops))
    BY DEF Effective, Final, Kept, Gone, Reduction
  <1>3. Numbered(Final(ops))
    <2>1. Numbered(Reduction(ops))
      BY ReductionIsNumbered
    <2>2. Final(ops) \subseteq Reduction(ops)
      BY <1>1
    <2>3. QED
      BY <2>1, <2>2 DEF Numbered
  <1>4. Sorted(Final(ops), Final(ops), Effective(ops))
    BY <1>2, <1>3, OrderIsSorted
  <1>5. QED
    BY <1>1, <1>4 DEF Sorted

-----------------------------------------------------------------------------
(* Where the fields of a net operation come from.                          *)

(* Every field was staged for the same target: the kind, the folder and the *)
(* way of a deletion in one operation, and the draft of an entry in one     *)
(* that carries a draft.                                                   *)
Composed(mine, r) ==
  /\ \E op \in mine : /\ op.kind = r.kind /\ op.source = r.source
                      /\ op.parent = r.parent /\ op.perm = r.perm
  /\ \E op \in mine : op.seq = r.seq
  /\ \E op \in mine : op.name = r.name
  /\ \E op \in mine : op.was = r.was
  /\ \E op \in mine : op.before = r.before
  /\ \E op \in mine :
       /\ op.after = r.after
       /\ r.kind \in {"CreateEntry", "EditEntry"} => op.kind \in {"CreateEntry", "EditEntry"}

LEMMA CollapsedIsComposed ==
  ASSUME NEW mine, Log(mine), NEW family, NEW r \in Collapsed(OfKind(mine, family))
  PROVE  Composed(mine, r)
  <1>1. Log(OfKind(mine, family))
    BY PartOfALog DEF OfKind
  <1>2. PICK first, last \in OfKind(mine, family) :
          /\ r.seq = first.seq /\ r.was = first.was /\ r.before = first.before
          /\ r.kind = last.kind /\ r.source = last.source /\ r.target = last.target
          /\ r.parent = last.parent /\ r.name = last.name /\ r.after = last.after
          /\ r.perm = last.perm
    BY <1>1, CollapsedIsMade
  <1>3. first \in mine /\ last \in mine
    BY DEF OfKind
  <1>4. QED
    BY <1>2, <1>3 DEF Composed

(* A creation may carry the draft or the name of a later operation.        *)
LEMMA FilledIsComposed ==
  ASSUME NEW mine, NEW c \in mine, Shaped(c), NEW op \in mine, NEW r
  PROVE  /\ r = [c EXCEPT !.after = op.after] /\ op.kind \in {"CreateEntry", "EditEntry"} => Composed(mine, r)
         /\ c.kind = "CreateGroup" /\ r = [c EXCEPT !.name = op.name] => Composed(mine, r)
  <1>1. PICK s, k, o, t, p, n, w, b, a, m :
          c = [seq |-> s, kind |-> k, source |-> o, target |-> t, parent |-> p, name |-> n,
               was |-> w, before |-> b, after |-> a, perm |-> m]
    BY Zenon DEF Shaped
  <1>2. ASSUME r = [c EXCEPT !.after = op.after], op.kind \in {"CreateEntry", "EditEntry"}
        PROVE  Composed(mine, r)
    <2>1. r = [seq |-> s, kind |-> k, source |-> o, target |-> t, parent |-> p, name |-> n,
               was |-> w, before |-> b, after |-> op.after, perm |-> m]
      BY ONLY <1>1, <1>2
    <2>2. QED
      BY <1>1, <1>2, <2>1 DEF Composed
  <1>3. ASSUME c.kind = "CreateGroup", r = [c EXCEPT !.name = op.name]
        PROVE  Composed(mine, r)
    <2>1. r = [seq |-> s, kind |-> k, source |-> o, target |-> t, parent |-> p, name |-> op.name,
               was |-> w, before |-> b, after |-> a, perm |-> m]
      BY ONLY <1>1, <1>3
    <2>2. k = "CreateGroup"
      BY <1>1, <1>3
    <2>3. QED
      BY <1>1, <2>1, <2>2 DEF Composed
  <1>4. QED
    BY <1>2, <1>3

LEMMA FieldsWereStaged ==
  ASSUME NEW ops, Log(ops), NEW r \in Reduction(ops)
  PROVE  Composed(On(ops, r.target), r)
  <1>1. PICK mine : mine = On(ops, r.target) /\ Log(mine) /\ r \in ReduceTarget(mine)
    <2>1. Log(On(ops, r.target))
      BY PartOfALog DEF On
    <2>2. QED
      BY <2>1, ReductionIsNet
  <1>2. CASE \E family : r \in Collapsed(OfKind(mine, family))
    BY <1>1, <1>2, CollapsedIsComposed
  <1>3. CASE r \in LastOf(OfKind(mine, DeleteKinds))
    <2>1. r \in mine /\ r.kind \in DeleteKinds
      BY <1>1, <1>3, LastIsNet DEF OfKind
    <2>2. Composed(mine, r)
      BY <2>1 DEF Composed, DeleteKinds
    <2>3. QED
      BY <1>1, <2>2
  <1>4. CASE r \in BornEntry(mine)
    <2> DEFINE edited == Collapsed(OfKind(mine, {"EditEntry"}))
    <2>1. PICK c \in LastOf(OfKind(mine, {"CreateEntry"})) :
            r = [c EXCEPT !.after = IF edited = {} THEN @ ELSE Latest(edited).after]
      BY <1>4 DEF BornEntry
    <2>2. c \in mine /\ c.kind = "CreateEntry" /\ Shaped(c)
      <3>1. c \in OfKind(mine, {"CreateEntry"})
        BY <1>1, LastIsNet
      <3>2. QED
        BY <1>1, <3>1 DEF OfKind, Log
    <2>3. PICK op \in mine : /\ op.kind \in {"CreateEntry", "EditEntry"}
                             /\ op.after = IF edited = {} THEN c.after ELSE Latest(edited).after
      <3>1. CASE edited = {}
        BY <2>2, <3>1
      <3>2. CASE edited # {}
        <4>1. Log(OfKind(mine, {"EditEntry"}))
          BY <1>1, PartOfALog DEF OfKind
        <4>2. PICK e : edited = {e}
          BY <3>2 DEF Collapsed
        <4>3. PICK last \in OfKind(mine, {"EditEntry"}) : e.after = last.after
          BY <4>1, <4>2, CollapsedIsMade
        <4>4. Latest(edited) = e
          BY <4>2 DEF Latest
        <4>5. last \in mine /\ last.kind = "EditEntry"
          BY DEF OfKind
        <4>6. QED
          BY <3>2, <4>3, <4>4, <4>5
      <3>3. QED
        BY <3>1, <3>2
    <2> HIDE DEF edited
    <2>4. r = [c EXCEPT !.after = op.after]
      BY <2>1, <2>3
    <2>5. QED
      BY <1>1, <2>2, <2>3, <2>4, FilledIsComposed
  <1>5. CASE r \in BornGroup(mine)
    <2> DEFINE renamed == Collapsed(OfKind(mine, {"RenameGroup"}))
    <2>1. PICK c \in LastOf(OfKind(mine, {"CreateGroup"})) :
            r = [c EXCEPT !.name = IF renamed = {} THEN @ ELSE Latest(renamed).name]
      BY <1>5 DEF BornGroup
    <2>2. c \in mine /\ c.kind = "CreateGroup" /\ Shaped(c)
      <3>1. c \in OfKind(mine, {"CreateGroup"})
        BY <1>1, LastIsNet
      <3>2. QED
        BY <1>1, <3>1 DEF OfKind, Log
    <2>3. PICK op \in mine : op.name = IF renamed = {} THEN c.name ELSE Latest(renamed).name
      <3>1. CASE renamed = {}
        BY <2>2, <3>1
      <3>2. CASE renamed # {}
        <4>1. Log(OfKind(mine, {"RenameGroup"}))
          BY <1>1, PartOfALog DEF OfKind
        <4>2. PICK e : renamed = {e}
          BY <3>2 DEF Collapsed
        <4>3. PICK last \in OfKind(mine, {"RenameGroup"}) : e.name = last.name
          BY <4>1, <4>2, CollapsedIsMade
        <4>4. Latest(renamed) = e
          BY <4>2 DEF Latest
        <4>5. last \in mine
          BY DEF OfKind
        <4>6. QED
          BY <3>2, <4>3, <4>4, <4>5
      <3>3. QED
        BY <3>1, <3>2
    <2> HIDE DEF renamed
    <2>4. r = [c EXCEPT !.name = op.name]
      BY <2>1, <2>3
    <2>5. QED
      BY <1>1, <2>2, <2>4, FilledIsComposed
  <1>6. r \in BornEntry(mine) \cup BornGroup(mine)
          \cup Collapsed(OfKind(mine, {"EditEntry"})) \cup Collapsed(OfKind(mine, MoveKinds))
          \cup Collapsed(OfKind(mine, {"RenameGroup"})) \cup LastOf(OfKind(mine, DeleteKinds))
    BY <1>1, WaysIn
  <1>7. QED
    BY <1>1, <1>2, <1>3, <1>4, <1>5, <1>6

(* What is deleted is not moved as well: a target with a net deletion is    *)
(* relocated by that alone.                                                *)
LEMMA NoMoveOfTheDeleted ==
  ASSUME NEW ops, Log(ops), NEW m \in Reduction(ops), NEW d \in Reduction(ops),
         m.kind \in MoveKinds, d.kind \in DeleteKinds
  PROVE  m.target # d.target
  <1> SUFFICES ASSUME m.target = d.target PROVE FALSE
    OBVIOUS
  <1>1. PICK mine : mine = On(ops, d.target) /\ Log(mine)
    BY PartOfALog DEF On
  <1>2. m \in ReduceTarget(mine) /\ d \in ReduceTarget(mine)
    BY <1>1, ReductionIsNet
  <1> DEFINE edited  == Collapsed(OfKind(mine, {"EditEntry"}))
             moved   == Collapsed(OfKind(mine, MoveKinds))
             renamed == Collapsed(OfKind(mine, {"RenameGroup"}))
             deleted == LastOf(OfKind(mine, DeleteKinds))
             born    == BornEntry(mine) \cup BornGroup(mine)
  <1>3. /\ \A r \in edited : r.kind = "EditEntry"
        /\ \A r \in moved : r.kind \in MoveKinds
        /\ \A r \in renamed : r.kind = "RenameGroup"
        /\ \A r \in deleted : r.kind \in DeleteKinds
        /\ \A r \in born : r.kind \in CreateKinds
    BY <1>1, BornIsNet, CollapsedIsNet, LastIsNet DEF Net, CreateKinds
  <1>4. /\ born # {} => ReduceTarget(mine) = IF deleted # {} THEN {} ELSE born \cup moved
        /\ born = {} => /\ ReduceTarget(mine) \subseteq edited \cup renamed \cup moved \cup deleted
                        /\ deleted # {} => ReduceTarget(mine) \subseteq edited \cup deleted
    BY WaysIn
  <1> HIDE DEF edited, moved, renamed, deleted, born
  <1>5. d \in deleted
    BY <1>2, <1>3, <1>4 DEF DeleteKinds, MoveKinds, CreateKinds
  <1>6. QED
    BY <1>2, <1>3, <1>4, <1>5 DEF DeleteKinds, MoveKinds

(* What is new is created and moved, and nothing else is to be done of it;  *)
(* what is deleted is edited at most, and that only on its way to the bin;  *)
(* and what names a folder was staged to.                                  *)
LEMMA NothingElseOfIt ==
  ASSUME NEW ops, Log(ops), NEW r \in Reduction(ops)
  PROVE  /\ \A c \in Reduction(ops) :
              c.kind \in CreateKinds /\ c.target = r.target => r.kind \in CreateKinds \cup MoveKinds
         /\ \A d \in Reduction(ops) :
              d.kind \in DeleteKinds /\ d.target = r.target => r = d \/ (r.kind = "EditEntry" /\ ~d.perm)
         /\ r.kind \in {"CreateGroup", "RenameGroup"} =>
              \E op \in ops : op.kind \in {"CreateGroup", "RenameGroup"} /\ op.name = r.name
  <1>1. PICK mine : mine = On(ops, r.target) /\ Log(mine)
    BY PartOfALog DEF On
  <1>2. /\ r \in ReduceTarget(mine)
        /\ \A q \in Reduction(ops) : q.target = r.target => q \in ReduceTarget(mine)
    BY <1>1, ReductionIsNet
  <1> DEFINE edited  == Collapsed(OfKind(mine, {"EditEntry"}))
             moved   == Collapsed(OfKind(mine, MoveKinds))
             renamed == Collapsed(OfKind(mine, {"RenameGroup"}))
             deleted == LastOf(OfKind(mine, DeleteKinds))
             born    == BornEntry(mine) \cup BornGroup(mine)
  <1>3. /\ \A q \in edited : q.kind = "EditEntry"
        /\ \A q \in moved : q.kind \in MoveKinds
        /\ \A q \in renamed : q.kind = "RenameGroup"
        /\ \A q \in deleted : q.kind \in DeleteKinds
        /\ \A q \in BornEntry(mine) : q.kind = "CreateEntry"
        /\ \A q \in BornGroup(mine) : q.kind = "CreateGroup"
        /\ \A q, other \in deleted : q = other
    BY <1>1, BornIsNet, CollapsedIsNet, LastIsNet DEF Net, LastOf
  <1>4. /\ born # {} => ReduceTarget(mine) = IF deleted # {} THEN {} ELSE born \cup moved
        /\ born = {} => /\ ReduceTarget(mine) \subseteq edited \cup renamed \cup moved \cup deleted
                        /\ deleted # {} => ReduceTarget(mine) \subseteq edited \cup deleted
    BY WaysIn
  <1>5. born = {} => ReduceTarget(mine) \subseteq
                       {e \in edited : \A d \in deleted : ~d.perm} \cup renamed \cup moved \cup deleted
    BY DEF ReduceTarget, BornEntry, BornGroup
  <1>6. \A c \in born : c.kind \in CreateKinds
    BY <1>3 DEF CreateKinds
  <1>7. ASSUME r.kind = "RenameGroup"
        PROVE  \E op \in ops : op.kind \in {"CreateGroup", "RenameGroup"} /\ op.name = r.name
    <2>1. r \in renamed
      <3> HIDE DEF edited, moved, renamed, deleted, born
      <3>1. QED
        BY <1>2, <1>3, <1>4, <1>6, <1>7 DEF CreateKinds, MoveKinds, DeleteKinds
    <2>2. Log(OfKind(mine, {"RenameGroup"}))
      BY <1>1, PartOfALog DEF OfKind
    <2>3. PICK last \in OfKind(mine, {"RenameGroup"}) : r.name = last.name
      BY <2>1, <2>2, CollapsedIsMade
    <2>4. QED
      BY <1>1, <2>3 DEF OfKind, On
  <1>8. ASSUME r.kind = "CreateGroup"
        PROVE  \E op \in ops : op.kind \in {"CreateGroup", "RenameGroup"} /\ op.name = r.name
    <2>1. r \in BornGroup(mine)
      <3>1. born \subseteq BornEntry(mine) \cup BornGroup(mine)
        OBVIOUS
      <3> HIDE DEF edited, moved, renamed, deleted, born
      <3>2. QED
        BY <1>2, <1>3, <1>4, <1>8, <3>1 DEF MoveKinds, DeleteKinds
    <2>2. PICK c \in LastOf(OfKind(mine, {"CreateGroup"})) :
            r = [c EXCEPT !.name = IF renamed = {} THEN @ ELSE Latest(renamed).name]
      BY <2>1 DEF BornGroup
    <2>3. c \in OfKind(mine, {"CreateGroup"}) /\ Shaped(c)
      BY <1>1, LastIsNet DEF Net
    <2>4. r.name = IF renamed = {} THEN c.name ELSE Latest(renamed).name
      BY <2>2, <2>3 DEF Shaped
    <2>5. CASE renamed = {}
      BY <1>1, <2>3, <2>4, <2>5 DEF OfKind, On
    <2>6. CASE renamed # {}
      <3>1. Log(OfKind(mine, {"RenameGroup"}))
        BY <1>1, PartOfALog DEF OfKind
      <3>2. PICK e : renamed = {e}
        BY <2>6 DEF Collapsed
      <3>3. PICK last \in OfKind(mine, {"RenameGroup"}) : e.name = last.name
        BY <3>1, <3>2, CollapsedIsMade
      <3>4. Latest(renamed) = e
        BY <3>2 DEF Latest
      <3>5. QED
        BY <1>1, <2>4, <2>6, <3>3, <3>4 DEF OfKind, On
    <2>7. QED
      BY <2>5, <2>6
  <1> HIDE DEF edited, moved, renamed, deleted, born
  <1>9. ASSUME NEW c \in Reduction(ops), c.kind \in CreateKinds, c.target = r.target
        PROVE  r.kind \in CreateKinds \cup MoveKinds
    <2>1. c \in born /\ born # {}
      BY <1>2, <1>3, <1>4, <1>9 DEF CreateKinds, MoveKinds, DeleteKinds
    <2>2. QED
      BY <1>2, <1>3, <1>4, <1>6, <2>1
  <1>10. ASSUME NEW d \in Reduction(ops), d.kind \in DeleteKinds, d.target = r.target
         PROVE  r = d \/ (r.kind = "EditEntry" /\ ~d.perm)
    <2>1. d \in deleted /\ born = {}
      BY <1>2, <1>3, <1>4, <1>6, <1>10 DEF CreateKinds, MoveKinds, DeleteKinds
    <2>2. r \in edited \cup deleted
      BY <1>2, <1>4, <2>1
    <2>3. CASE r \in deleted
      BY <1>3, <2>1, <2>3
    <2>4. CASE r \in edited
      BY <1>2, <1>3, <1>5, <2>1, <2>4 DEF MoveKinds, DeleteKinds
    <2>5. QED
      BY <2>2, <2>3, <2>4
  <1>11. QED
    BY <1>7, <1>8, <1>9, <1>10

(* A net edit is no edit that came to nothing, and it started from where    *)
(* the first one did.                                                      *)
LEMMA NetEditMatters ==
  ASSUME NEW ops, Log(ops), NEW e \in Reduction(ops), e.kind = "EditEntry"
  PROVE  LET edits == OfKind(On(ops, e.target), {"EditEntry"})
         IN  /\ ~SamePlace(e.before, e.after)
             /\ edits # {} /\ e.before = Earliest(edits).before
  <1>1. PICK mine : mine = On(ops, e.target) /\ Log(mine)
    BY PartOfALog DEF On
  <1>2. e \in ReduceTarget(mine)
    BY <1>1, ReductionIsNet
  <1> DEFINE edited  == Collapsed(OfKind(mine, {"EditEntry"}))
             moved   == Collapsed(OfKind(mine, MoveKinds))
             renamed == Collapsed(OfKind(mine, {"RenameGroup"}))
             deleted == LastOf(OfKind(mine, DeleteKinds))
             born    == BornEntry(mine) \cup BornGroup(mine)
  <1>3. /\ \A r \in moved : r.kind # "EditEntry"
        /\ \A r \in renamed : r.kind # "EditEntry"
        /\ \A r \in deleted : r.kind # "EditEntry"
        /\ \A r \in born : r.kind # "EditEntry"
    BY <1>1, BornIsNet, CollapsedIsNet, LastIsNet DEF Net, MoveKinds, DeleteKinds
  <1>4. ReduceTarget(mine) \subseteq
          born \cup moved \cup {r \in edited : ~SamePlace(r.before, r.after)} \cup renamed \cup deleted
    BY DEF ReduceTarget, BornEntry, BornGroup
  <1> HIDE DEF moved, renamed, deleted, born
  <1>5. e \in edited /\ ~SamePlace(e.before, e.after)
    BY <1>2, <1>3, <1>4
  <1>6. OfKind(mine, {"EditEntry"}) # {}
    BY <1>5 DEF Collapsed
  <1>7. Log(OfKind(mine, {"EditEntry"}))
    BY <1>1, PartOfALog DEF OfKind
  <1>8. e.before = Earliest(OfKind(mine, {"EditEntry"})).before
    BY <1>5, <1>7, CollapsedIsMade
  <1>9. QED
    BY <1>1, <1>5, <1>6, <1>8

-----------------------------------------------------------------------------
(* What the reduction keeps and what it drops.                             *)

(* A net creation was staged as one, and a net deletion is the very one     *)
(* that was staged.                                                        *)
LEMMA EffectiveWasStaged ==
  ASSUME NEW ops, Log(ops), NEW r \in Members(Effective(ops))
  PROVE  /\ r.target \in Targets(ops)
         /\ r.kind \in CreateKinds =>
              \E op \in OfKind(ops, CreateKinds) :
                op.kind = r.kind /\ op.target = r.target /\ op.parent = r.parent
         /\ r.kind \in DeleteKinds => r \in ops
  <1>1. r \in Reduction(ops)
    BY EffectiveIsFinal
  <1>2. PICK family \in Families : /\ Net(On(ops, r.target), family, r)
                                   /\ family = DeleteKinds => r \in ops
    BY <1>1, ReductionIsNet
  <1>3. r.target \in Targets(ops)
    BY <1>1, ReductionIsNet
  <1>4. ASSUME r.kind \in CreateKinds
        PROVE  \E op \in OfKind(ops, CreateKinds) :
                 op.kind = r.kind /\ op.target = r.target /\ op.parent = r.parent
    BY <1>2, <1>4 DEF Net, OfKind, On
  <1>5. ASSUME r.kind \in DeleteKinds PROVE r \in ops
    <2>1. r.kind \in family /\ DeleteKinds \in Families
      BY <1>2 DEF Net, Families
    <2>2. family = DeleteKinds
      BY <1>5, <2>1, FamiliesAreDisjoint
    <2>3. QED
      BY <1>2, <2>2
  <1>6. QED
    BY <1>3, <1>4, <1>5

(* grow: everything it starts from, everything staged inside, nothing else. *)
LEMMA GrowIsClosed ==
  ASSUME NEW ops, NEW seed
  PROVE  /\ seed \subseteq Grow(ops, seed)
         /\ Grow(ops, seed) \subseteq seed \cup Targets(OfKind(ops, CreateKinds))
         /\ \A op \in OfKind(ops, CreateKinds) :
              op.parent \in Grow(ops, seed) => op.target \in Grow(ops, seed)
  BY DEF Grow, Targets

(* A creation stays, as a creation, unless what it was to be made in went   *)
(* or it was deleted again.                                                *)
LEMMA CreationStays ==
  ASSUME NEW ops, Log(ops), NEW t \in Targets(OfKind(ops, CreateKinds)),
         t \notin Gone(ops)
  PROVE  \E c \in Members(Effective(ops)) : c.kind \in CreateKinds /\ c.target = t
  <1> DEFINE mine == On(ops, t)
  <1>1. Log(mine)
    BY PartOfALog DEF On
  <1>2. OfKind(mine, CreateKinds) # {} /\ t \in Targets(ops)
    BY DEF OfKind, On, Targets
  <1>3. t \in Targets(Reduction(ops))
    <2>1. CASE t \notin Targets(Reduction(ops))
      <3>1. t \in Gone(ops)
        BY <2>1, GrowIsClosed DEF Gone, Cancelled, Targets
      <3>2. QED
        BY <3>1
    <2>2. QED
      BY <2>1
  <1>4. PICK r \in Reduction(ops) : r.target = t
    BY <1>3 DEF Targets
  <1>5. r \in ReduceTarget(mine)
    BY <1>4, ReductionIsNet
  <1>6. PICK c \in BornEntry(mine) \cup BornGroup(mine) : TRUE
    BY <1>1, <1>2, BornIsNet
  <1>7. c \in ReduceTarget(mine)
    BY <1>5, <1>6, WaysIn
  <1>8. /\ c.kind \in CreateKinds
        /\ \E op \in OfKind(mine, CreateKinds) : op.target = c.target /\ op.parent = c.parent
    BY <1>1, <1>6, BornIsNet DEF Net, OfKind, CreateKinds
  <1>9. c.target = t
    BY <1>8 DEF OfKind, On
  <1>10. c \in Reduction(ops)
    BY <1>2, <1>7 DEF Reduction
  <1>11. c.parent \notin Gone(ops)
    <2>1. PICK op \in OfKind(ops, CreateKinds) : op.target = t /\ op.parent = c.parent
      BY <1>8, <1>9 DEF OfKind, On
    <2>2. c.parent \in Gone(ops) => t \in Gone(ops)
      BY <2>1, GrowIsClosed DEF Gone, Cancelled
    <2>3. QED
      BY <2>2
  <1>12. c \in Kept(ops)
    BY <1>9, <1>10, <1>11 DEF Kept
  <1>13. c \in Final(ops)
    BY <1>8, <1>12 DEF Final, SubsumeInsideDeletedFolders, CreateKinds
  <1>14. QED
    BY <1>8, <1>9, <1>13, EffectiveIsFinal

(* Only what was created in the session can be cancelled.                  *)
LEMMA GoneWasCreated ==
  ASSUME NEW ops
  PROVE  Gone(ops) \subseteq Targets(OfKind(ops, CreateKinds))
  <1> DEFINE seed == Targets({op \in OfKind(ops, CreateKinds) : op.target \notin Targets(Reduction(ops))}
                             \cup {op \in OfKind(ops, CreateKinds) :
                                     op.parent \in Targets(OfKind(Reduction(ops), {"DeleteGroup"}))})
  <1>1. Gone(ops) = Grow(ops, seed)
    BY DEF Gone, Cancelled
  <1>2. seed \subseteq Targets(OfKind(ops, CreateKinds))
    BY DEF Targets
  <1> HIDE DEF seed
  <1>3. QED
    BY <1>1, <1>2, GrowIsClosed

(* A net creation is the last one staged, but for what it fills in; and a   *)
(* net move is dated and originates from the first one staged, and leads    *)
(* where the last one does.                                                *)
LEMMA CreationIsTheLast ==
  ASSUME NEW ops, Log(ops), NEW r \in Reduction(ops), r.kind \in CreateKinds
  PROVE  \E c \in ops :
           /\ c.kind = r.kind /\ c.target = r.target /\ c.seq = r.seq /\ c.parent = r.parent
           /\ \A other \in ops : other.kind = r.kind /\ other.target = r.target => other.seq <= c.seq
  <1>1. PICK mine : mine = On(ops, r.target)
    OBVIOUS
  <1>2. Log(mine) /\ r \in ReduceTarget(mine)
    BY <1>1, PartOfALog, ReductionIsNet DEF On
  <1>3. r \in BornEntry(mine) \cup BornGroup(mine)
    <2> DEFINE edited  == Collapsed(OfKind(mine, {"EditEntry"}))
               moved   == Collapsed(OfKind(mine, MoveKinds))
               renamed == Collapsed(OfKind(mine, {"RenameGroup"}))
               deleted == LastOf(OfKind(mine, DeleteKinds))
    <2>1. ReduceTarget(mine) \subseteq
            BornEntry(mine) \cup BornGroup(mine) \cup edited \cup moved \cup renamed \cup deleted
      BY WaysIn
    <2>2. /\ \A q \in edited : q.kind = "EditEntry"
          /\ \A q \in moved : q.kind \in MoveKinds
          /\ \A q \in renamed : q.kind = "RenameGroup"
          /\ \A q \in deleted : q.kind \in DeleteKinds
      BY <1>2, CollapsedIsNet, LastIsNet DEF Net
    <2> HIDE DEF edited, moved, renamed, deleted
    <2>3. r.kind \notin {"EditEntry", "RenameGroup"} \cup MoveKinds \cup DeleteKinds
      BY DEF CreateKinds, MoveKinds, DeleteKinds
    <2>4. QED
      BY <1>2, <2>1, <2>2, <2>3
  <1>4. PICK kind \in CreateKinds : \E c \in LastOf(OfKind(mine, {kind})) : \E value :
          r = [c EXCEPT !.after = value] \/ r = [c EXCEPT !.name = value]
    BY <1>3 DEF BornEntry, BornGroup, CreateKinds
  <1>5. PICK c \in LastOf(OfKind(mine, {kind})) : \E value :
          r = [c EXCEPT !.after = value] \/ r = [c EXCEPT !.name = value]
    BY <1>4
  <1>6. /\ c \in OfKind(mine, {kind}) /\ Shaped(c)
        /\ \A other \in OfKind(mine, {kind}) : other.seq <= c.seq
    <2>1. Log(OfKind(mine, {kind}))
      BY <1>2, PartOfALog DEF OfKind
    <2>2. c \in OfKind(mine, {kind}) /\ c = Latest(OfKind(mine, {kind}))
      BY <2>1, LastIsOne
    <2>3. \A other \in OfKind(mine, {kind}) : c.seq >= other.seq
      BY <2>1, <2>2, LatestComesLast DEF Log
    <2>4. \A other \in OfKind(mine, {kind}) : other.seq \in Nat
      BY <2>1, NumberedIsFinite DEF Log
    <2>5. QED
      BY <2>1, <2>2, <2>3, <2>4 DEF Log
  <1>7. r.kind = c.kind /\ r.target = c.target /\ r.seq = c.seq /\ r.parent = c.parent
    BY <1>5, <1>6 DEF Shaped
  <1>8. QED
    BY <1>1, <1>6, <1>7 DEF OfKind, On

LEMMA MoveIsCollapsed ==
  ASSUME NEW ops, Log(ops), NEW r \in Reduction(ops), r.kind \in MoveKinds
  PROVE  LET moves == OfKind(On(ops, r.target), MoveKinds)
         IN  /\ \E first \in moves : /\ r.seq = first.seq /\ r.was = first.was
                                      /\ \A m \in moves : first.seq <= m.seq
             /\ \E last \in moves :  /\ r.kind = last.kind /\ r.parent = last.parent
                                      /\ \A m \in moves : m.seq <= last.seq
  <1>1. PICK mine : mine = On(ops, r.target)
    OBVIOUS
  <1>2. PICK moves : moves = OfKind(mine, MoveKinds)
    OBVIOUS
  <1>3. Log(mine) /\ r \in ReduceTarget(mine) /\ Log(moves)
    BY <1>1, <1>2, PartOfALog, ReductionIsNet DEF On, OfKind
  <1>4. r \in Collapsed(moves)
    <2> DEFINE edited  == Collapsed(OfKind(mine, {"EditEntry"}))
               renamed == Collapsed(OfKind(mine, {"RenameGroup"}))
               deleted == LastOf(OfKind(mine, DeleteKinds))
    <2>1. ReduceTarget(mine) \subseteq
            BornEntry(mine) \cup BornGroup(mine) \cup edited \cup Collapsed(moves) \cup renamed \cup deleted
      BY <1>2, WaysIn
    <2>2. /\ \A q \in edited : q.kind = "EditEntry"
          /\ \A q \in renamed : q.kind = "RenameGroup"
          /\ \A q \in deleted : q.kind \in DeleteKinds
      BY <1>3, CollapsedIsNet, LastIsNet DEF Net
    <2>3. \A q \in BornEntry(mine) \cup BornGroup(mine) : q.kind \in CreateKinds
      BY <1>3, BornIsNet DEF Net, CreateKinds
    <2> HIDE DEF edited, renamed, deleted
    <2>4. r.kind \notin {"EditEntry", "RenameGroup"} \cup CreateKinds \cup DeleteKinds
      BY DEF CreateKinds, MoveKinds, DeleteKinds
    <2>5. QED
      BY <1>3, <2>1, <2>2, <2>3, <2>4
  <1>5. PICK first, last \in moves :
          /\ first = Earliest(moves) /\ last = Latest(moves)
          /\ r.seq = first.seq /\ r.was = first.was
          /\ r.kind = last.kind /\ r.parent = last.parent
    BY <1>3, <1>4, CollapsedIsMade
  <1>6. \A m \in moves : first.seq <= m.seq /\ m.seq <= last.seq
    <2>1. moves # {} /\ \A m \in moves : m.seq \in Nat
      BY <1>3, <1>5, NumberedIsFinite DEF Log
    <2>2. \A m \in moves : first.seq <= m.seq /\ last.seq >= m.seq
      BY <1>3, <1>5, <2>1, EarliestComesFirst, LatestComesLast DEF Log
    <2>3. QED
      BY <2>1, <2>2
  <1>7. QED
    BY <1>1, <1>2, <1>5, <1>6

(* Whatever is put into a folder of the session is staged after the folder. *)
FilledLater(ops) ==
  \A g, op \in ops : g.kind \in CreateKinds /\ op.parent = g.target => g.seq < op.seq

(* Then applyOrder's two rules are never cyclic, so that it never falls     *)
(* back on the order of staging; and a creation is performed before         *)
(* whatever was staged after it.                                           *)
THEOREM CreationsComeFirst ==
  ASSUME NEW ops, Log(ops), FilledLater(ops)
  PROVE  /\ ~Cyclic(Members(Effective(ops)))
         /\ \A i, j \in DOMAIN Effective(ops) :
              Effective(ops)[j].kind \in CreateKinds /\ Effective(ops)[j].seq < Effective(ops)[i].seq
                => j < i
  <1>1. PICK eff, net : eff = Effective(ops) /\ net = Members(eff)
    OBVIOUS
  <1>2. net \subseteq Reduction(ops) /\ Sorted(net, net, eff)
    BY <1>1, EffectiveIsFinal
  <1>3. Numbered(net)
    <2>1. Numbered(Reduction(ops))
      BY ReductionIsNumbered
    <2>2. QED
      BY <1>2, <2>1 DEF Numbered
  <1>4. \A r \in net : r.seq \in Nat
    BY <1>3, NumberedIsFinite
  (* A new folder something goes into is staged before it.                  *)
  <1>5. ASSUME NEW u \in net, NEW v \in net, v.kind \in CreateKinds, Precedes(u, v)
        PROVE  u.kind \in CreateKinds /\ u.seq < v.seq
    <2>1. u.kind = "CreateGroup" /\ v.parent = u.target
      BY <1>5 DEF Precedes, CreateKinds
    <2>2. PICK g \in ops : g.kind = u.kind /\ g.target = u.target /\ g.seq = u.seq
      BY <1>2, <2>1, CreationIsTheLast DEF CreateKinds
    <2>3. PICK c \in ops : c.parent = v.parent /\ c.seq = v.seq
      BY <1>2, <1>5, CreationIsTheLast
    <2>4. QED
      BY <2>1, <2>2, <2>3 DEF FilledLater, CreateKinds
  (* So the first of some creations waits for none of them.                 *)
  <1>6. ASSUME NEW S \in SUBSET net, NEW n \in Nat,
               \E c \in S : c.kind \in CreateKinds /\ c.seq < n
        PROVE  \E c \in S : /\ c.kind \in CreateKinds /\ c.seq < n
                            /\ \A u \in S : ~Precedes(u, c)
    <2> DEFINE C == {c \in S : c.kind \in CreateKinds /\ c.seq < n}
    <2>1. C # {} /\ \A c \in C : c.seq \in Nat
      BY <1>4, <1>6
    <2>2. PICK c \in C : \A other \in C : c.seq <= other.seq
      <3> HIDE DEF C
      <3>1. QED
        BY <2>1, EarliestComesFirst
    <2>3. ASSUME NEW u \in S, Precedes(u, c) PROVE FALSE
      <3>1. u.kind \in CreateKinds /\ u.seq < c.seq
        BY <1>5, <2>3
      <3>2. u.seq \in Nat /\ c.seq \in Nat
        BY <1>4
      <3>3. u \in C
        BY <3>1, <3>2
      <3>4. QED
        BY <2>2, <3>1, <3>2, <3>3
    <2>4. QED
      BY <2>3
  <1>7. ~Cyclic(net)
    <2> SUFFICES ASSUME NEW S \in SUBSET net, S # {}, Ready(S) = {} PROVE FALSE
      BY DEF Cyclic
    <2>1. \A v \in S : \E u \in S : Precedes(u, v)
      BY DEF Ready
    <2>2. PICK v \in S : TRUE
      OBVIOUS
    <2>3. PICK u \in S : Precedes(u, v)
      BY <2>1
    <2>4. PICK w \in S : Precedes(w, u)
      BY <2>1
    <2>5. u.kind = "CreateGroup" \/ w.kind = "CreateGroup"
      BY <2>3, <2>4 DEF Precedes, MoveKinds
    <2>6. PICK c \in S : c.kind \in CreateKinds
      BY <2>5 DEF CreateKinds
    <2>7. PICK n \in Nat : n = c.seq + 1
      BY <1>4
    <2>8. c.seq < n
      BY <1>4, <2>7
    <2>9. QED
      BY <1>6, <2>1, <2>6, <2>8
  <1>8. ASSUME NEW i \in DOMAIN eff, NEW j \in DOMAIN eff,
               eff[j].kind \in CreateKinds, eff[j].seq < eff[i].seq
        PROVE  j < i
    <2>1. eff \in Seq(net) /\ Len(eff) \in Nat /\ DOMAIN eff = 1 .. Len(eff)
      BY <1>2 DEF Sorted
    <2>2. SUFFICES ASSUME ~(j < i) PROVE FALSE
      OBVIOUS
    <2>3. PICK n \in Nat : n = eff[i].seq
      BY <1>1, <1>4 DEF Members
    <2>4. i < j
      <3>1. i # j
        BY <1>8, <2>3
      <3>2. QED
        BY <2>1, <2>2, <3>1
    <2>5. PICK S : S = {eff[k] : k \in i .. Len(eff)}
      OBVIOUS
    <2>6. \A k \in i .. Len(eff) : k \in DOMAIN eff /\ i <= k /\ eff[k] \in net
      BY <1>1, <2>1 DEF Members
    <2>7. S \in SUBSET net /\ eff[j] \in S
      BY <2>1, <2>4, <2>5, <2>6
    <2>8. PICK c \in S : c.kind \in CreateKinds /\ c.seq < n /\ \A u \in S : ~Precedes(u, c)
      BY <1>6, <1>8, <2>3, <2>7
    <2>9. PICK k \in i .. Len(eff) : c = eff[k]
      BY <2>5
    <2>10. i < k
      <3>1. i # k
        BY <2>3, <2>8, <2>9
      <3>2. QED
        BY <2>1, <3>1
    <2>11. PICK l \in DOMAIN eff : i <= l /\ Precedes(eff[l], eff[k])
      <3>1. k \in DOMAIN eff /\ eff[k].seq < eff[i].seq
        BY <2>3, <2>6, <2>8, <2>9
      <3>2. QED
        BY <1>2, <1>7, <2>10, <3>1 DEF Sorted
    <2>12. eff[l] \in S
      BY <2>1, <2>5, <2>11
    <2>13. QED
      BY <2>8, <2>9, <2>11, <2>12
  <1>9. QED
    BY <1>1, <1>7, <1>8

(* What is put into a folder of this session is never written without the  *)
(* folder, however the reader created, filled, moved, deleted and took      *)
(* back: the folder's creation is in the net set too, and before it unless  *)
(* the rules are cyclic.                                                   *)
THEOREM CreatedBeforeFilled ==
  ASSUME NEW ops, Log(ops), NEW j \in DOMAIN Effective(ops),
         Effective(ops)[j].parent \in Targets(OfKind(ops, CreateKinds))
  PROVE  \E i \in DOMAIN Effective(ops) :
           /\ Effective(ops)[i].kind \in CreateKinds
           /\ Effective(ops)[i].target = Effective(ops)[j].parent
           /\ Effective(ops)[i].kind = "CreateGroup" /\ ~Cyclic(Members(Effective(ops)))
                => i <= j
  <1>1. PICK eff : eff = Effective(ops)
    OBVIOUS
  <1>2. eff[j] \in Members(eff)
    BY <1>1 DEF Members
  <1>3. eff[j].parent \notin Gone(ops)
    BY <1>1, <1>2, EffectiveIsFinal DEF Kept
  <1>4. PICK c \in Members(eff) : c.kind \in CreateKinds /\ c.target = eff[j].parent
    BY <1>1, <1>3, CreationStays
  <1>5. PICK i \in DOMAIN eff : c = eff[i]
    BY <1>4 DEF Members
  <1>6. ASSUME c.kind = "CreateGroup", ~Cyclic(Members(eff)), ~(i <= j) PROVE FALSE
    <2>1. Sorted(Members(eff), Members(eff), eff)
      BY <1>1, EffectiveIsFinal
    <2>2. eff \in Seq(Members(eff))
      BY <2>1 DEF Sorted
    <2>3. i \in Nat /\ j \in Nat /\ j < i /\ j \in DOMAIN eff
      BY <1>1, <1>6, <2>2
    <2>4. eff[j] # eff[i] /\ ~Precedes(eff[i], eff[j])
      BY <1>6, <2>1, <2>3 DEF Sorted
    <2>5. QED
      BY <1>4, <1>5, <1>6, <2>4 DEF Precedes
  <1>7. QED
    BY <1>1, <1>4, <1>5, <1>6

(* A deletion that was staged is performed, or is inside a deletion that    *)
(* is, unless its target was created in the same session; and nothing is    *)
(* moved or created in its place.                                          *)
LEMMA DeletionStays ==
  ASSUME NEW ops, Log(ops), NEW t, t \notin Targets(OfKind(ops, CreateKinds)),
         OfKind(On(ops, t), DeleteKinds) # {},
         NEW d, d = Latest(OfKind(On(ops, t), DeleteKinds)),
         d.parent \notin Targets(OfKind(ops, CreateKinds))
  PROVE  /\ \/ d \in Members(Effective(ops))
            \/ /\ d.kind = "DeleteEntry" /\ d.before # None
               /\ d.before.group \in Targets(OfKind(Members(Effective(ops)), {"DeleteGroup"}))
         /\ \A r \in Members(Effective(ops)) :
              r.target = t => r.kind \notin MoveKinds \cup CreateKinds
  <1> DEFINE mine == On(ops, t)
  <1>1. Log(mine) /\ Log(OfKind(mine, DeleteKinds))
    BY PartOfALog DEF On, OfKind
  <1>2. d \in OfKind(mine, DeleteKinds) /\ LastOf(OfKind(mine, DeleteKinds)) = {d}
    BY <1>1, LastIsOne
  <1>3. OfKind(mine, CreateKinds) = {}
    BY DEF OfKind, On, Targets
  <1>4. BornEntry(mine) \cup BornGroup(mine) = {}
    <2>1. OfKind(mine, {"CreateEntry"}) = {} /\ OfKind(mine, {"CreateGroup"}) = {}
      BY <1>3 DEF OfKind, CreateKinds
    <2>2. QED
      BY <2>1 DEF BornEntry, BornGroup, LastOf
  <1>5. /\ d \in ReduceTarget(mine)
        /\ ReduceTarget(mine) \subseteq Collapsed(OfKind(mine, {"EditEntry"})) \cup {d}
    BY <1>2, <1>4, WaysIn
  <1>6. d.target = t /\ t \in Targets(ops)
    BY <1>2 DEF OfKind, On, Targets
  <1>7. d \in Reduction(ops)
    BY <1>5, <1>6 DEF Reduction
  <1>8. d \in Kept(ops)
    BY <1>6, <1>7, GoneWasCreated DEF Kept
  <1>9. Targets(OfKind(Kept(ops), {"DeleteGroup"})) \subseteq Targets(OfKind(Final(ops), {"DeleteGroup"}))
    BY DEF Final, SubsumeInsideDeletedFolders, Targets, OfKind
  <1>10. \/ d \in Final(ops)
         \/ /\ d.kind = "DeleteEntry" /\ d.before # None
            /\ d.before.group \in Targets(OfKind(Kept(ops), {"DeleteGroup"}))
    BY <1>8 DEF Final, SubsumeInsideDeletedFolders
  <1>11. ASSUME NEW r \in Members(Effective(ops)), r.target = t
         PROVE  r.kind \notin MoveKinds \cup CreateKinds
    <2>1. r \in ReduceTarget(mine)
      BY <1>11, EffectiveIsFinal, ReductionIsNet
    <2>2. r \in Collapsed(OfKind(mine, {"EditEntry"})) \/ r = d
      BY <1>5, <2>1
    <2>3. r.kind \in {"EditEntry"} \/ r.kind \in DeleteKinds
      BY <1>1, <1>2, <2>2, CollapsedIsNet DEF Net, OfKind
    <2>4. QED
      BY <2>3 DEF MoveKinds, CreateKinds, DeleteKinds
  <1>12. QED
    BY <1>9, <1>10, <1>11, EffectiveIsFinal

(* What was created and deleted in one session comes to nothing.           *)
LEMMA CreatedAndDeleted ==
  ASSUME NEW ops, Log(ops), NEW t, t \in Targets(OfKind(ops, CreateKinds)),
         OfKind(On(ops, t), DeleteKinds) # {}
  PROVE  t \notin Targets(Members(Effective(ops)))
  <1> DEFINE mine == On(ops, t)
  <1>1. Log(mine)
    BY PartOfALog DEF On
  <1>2. OfKind(mine, CreateKinds) # {}
    BY DEF OfKind, On, Targets
  <1>3. BornEntry(mine) \cup BornGroup(mine) # {}
    BY <1>1, <1>2, BornIsNet
  <1>4. LastOf(OfKind(mine, DeleteKinds)) # {}
    BY DEF LastOf
  <1>5. ReduceTarget(mine) = {}
    BY <1>3, <1>4, WaysIn
  <1>6. QED
    BY <1>5, EffectiveIsFinal, ReductionIsNet DEF Targets

-----------------------------------------------------------------------------
(* What the reduction says of an entry.                                    *)

(* Collapsing a family that is not empty leaves one operation, which says   *)
(* what the latest says and started from where the earliest did.           *)
LEMMA CollapsedSays ==
  ASSUME NEW ops, Log(ops), ops # {}
  PROVE  \E r : /\ Collapsed(ops) = {r}
                /\ r.kind = Latest(ops).kind /\ r.target = Latest(ops).target
                /\ r.parent = Latest(ops).parent /\ r.after = Latest(ops).after
                /\ r.before = Earliest(ops).before
  <1>1. PICK r : Collapsed(ops) = {r}
    BY DEF Collapsed
  <1>2. QED
    BY <1>1, CollapsedIsMade

(* An entry of the file that is edited and not deleted: the net edit says   *)
(* what the last edit said, and there is none only when that is what the    *)
(* first one started from.                                                 *)
LEMMA LastEditStays ==
  ASSUME NEW ops, Log(ops), NEW t, t \notin Targets(OfKind(ops, CreateKinds)),
         OfKind(On(ops, t), DeleteKinds) = {},
         NEW edits, edits = OfKind(On(ops, t), {"EditEntry"}), edits # {},
         \A e \in edits : e.parent \notin Targets(OfKind(ops, CreateKinds))
  PROVE  LET net == OfKind(On(Members(Effective(ops)), t), {"EditEntry"})
         IN  IF SamePlace(Earliest(edits).before, Latest(edits).after)
             THEN net = {}
             ELSE net # {} /\ Latest(net).after = Latest(edits).after
  <1> DEFINE mine == On(ops, t)
             net  == OfKind(On(Members(Effective(ops)), t), {"EditEntry"})
  <1>1. Log(mine) /\ Log(edits)
    BY PartOfALog DEF On, OfKind
  <1>2. Latest(edits) \in edits
    BY <1>1, LastIsOne
  <1>3. PICK r : /\ Collapsed(edits) = {r}
                 /\ r.kind = Latest(edits).kind /\ r.target = Latest(edits).target
                 /\ r.parent = Latest(edits).parent /\ r.after = Latest(edits).after
                 /\ r.before = Earliest(edits).before
    BY <1>1, CollapsedSays
  <1>4. r.kind = "EditEntry" /\ r.target = t /\ r.parent \notin Targets(OfKind(ops, CreateKinds))
    BY <1>2, <1>3 DEF OfKind, On
  <1>5. \A x \in Members(Effective(ops)) : x \in Reduction(ops)
    BY EffectiveIsFinal
  <1>6. net \subseteq {x \in ReduceTarget(mine) : x.kind = "EditEntry"}
    BY <1>5, ReductionIsNet DEF OfKind, On
  <1>7. BornEntry(mine) \cup BornGroup(mine) = {}
    <2>1. OfKind(mine, {"CreateEntry"}) = {} /\ OfKind(mine, {"CreateGroup"}) = {}
      BY DEF OfKind, On, Targets, CreateKinds
    <2>2. QED
      BY <2>1 DEF BornEntry, BornGroup, LastOf
  <1>8. /\ ReduceTarget(mine) \subseteq {e \in Collapsed(edits) : ~SamePlace(e.before, e.after)}
             \cup {x \in ReduceTarget(mine) : x.kind # "EditEntry"}
        /\ {e \in Collapsed(edits) : ~SamePlace(e.before, e.after)} \subseteq ReduceTarget(mine)
    <2> DEFINE renamed == Collapsed(OfKind(mine, {"RenameGroup"}))
               moved   == Collapsed(OfKind(mine, MoveKinds))
               stays   == {e \in Collapsed(edits) : ~SamePlace(e.before, e.after)}
    <2>1. LastOf(OfKind(mine, DeleteKinds)) = {}
      BY DEF LastOf
    <2>2. /\ \A x \in renamed : x.kind \in {"RenameGroup"}
          /\ \A x \in moved : x.kind \in MoveKinds
      BY <1>1, CollapsedIsNet DEF Net
    <2>3. /\ ReduceTarget(mine) \subseteq stays \cup renamed \cup moved
          /\ stays \subseteq ReduceTarget(mine)
      BY <1>7, <2>1 DEF ReduceTarget, BornEntry, BornGroup
    <2>4. QED
      BY <2>2, <2>3 DEF MoveKinds
  <1>9. CASE SamePlace(Earliest(edits).before, Latest(edits).after)
    <2>1. net = {}
      BY <1>3, <1>6, <1>8, <1>9
    <2>2. QED
      BY <1>9, <2>1
  <1>10. CASE ~SamePlace(Earliest(edits).before, Latest(edits).after)
    <2>1. r \in ReduceTarget(mine)
      BY <1>3, <1>8, <1>10
    <2>2. t \in Targets(ops)
      BY DEF OfKind, On, Targets
    <2>3. r \in Reduction(ops)
      BY <2>1, <2>2 DEF Reduction
    <2>4. r \in Kept(ops)
      BY <1>4, <2>3, GoneWasCreated DEF Kept
    <2>5. r \in Final(ops)
      BY <1>4, <2>4 DEF Final, SubsumeInsideDeletedFolders
    <2>6. r \in net
      BY <1>4, <2>5, EffectiveIsFinal DEF OfKind, On
    <2>7. net = {r}
      BY <1>3, <1>6, <1>8, <2>6
    <2>8. Latest(net) = r
      <3>1. r.seq = r.seq
        OBVIOUS
      <3>2. Log({r})
        <4>1. Shaped(r)
          BY <1>1, <1>3, CollapsedIsOne
        <4>2. \E e \in edits : r.seq = e.seq
          BY <1>1, <1>3, CollapsedIsOne
        <4>3. r.seq \in Nat
          BY <1>1, <4>2, NumberedIsFinite DEF Log
        <4>4. Numbered({r})
          BY <4>3 DEF Numbered
        <4>5. QED
          BY <4>1, <4>4 DEF Log
      <3>3. QED
        BY <2>7, <3>2, LastIsOne
    <2>9. QED
      BY <1>3, <1>10, <2>7, <2>8
  <1>11. QED
    BY <1>9, <1>10

(* An entry of this session is one net creation, besides where it is moved: *)
(* it says what the last edit said, else what the last creation did.       *)
LEMMA NewEntrySays ==
  ASSUME NEW ops, Log(ops), NEW c \in Members(Effective(ops)), c.kind = "CreateEntry",
         OfKind(On(ops, c.target), {"CreateGroup"}) = {},
         NEW made, made = OfKind(On(ops, c.target), {"CreateEntry"}),
         NEW edits, edits = OfKind(On(ops, c.target), {"EditEntry"})
  PROVE  /\ made # {}
         /\ c.after = IF edits = {} THEN Latest(made).after ELSE Latest(edits).after
         /\ \A r \in Members(Effective(ops)) : r.target = c.target => r = c \/ r.kind \in MoveKinds
  <1> DEFINE mine == On(ops, c.target)
  <1>1. Log(mine) /\ Log(edits) /\ Log(made)
    BY PartOfALog DEF On, OfKind
  <1>2. \A r \in Members(Effective(ops)) : r.target = c.target => r \in ReduceTarget(mine)
    BY EffectiveIsFinal, ReductionIsNet
  <1>3. made # {}
    BY EffectiveWasStaged, ReductionIsNet, EffectiveIsFinal DEF Net, OfKind, On, CreateKinds
  <1>4. PICK last \in made : last = Latest(made) /\ LastOf(made) = {last}
    BY <1>1, <1>3, LastIsOne
  <1>5. BornGroup(mine) = {}
    BY DEF BornGroup, LastOf
  <1>6. PICK value : /\ BornEntry(mine) = {[last EXCEPT !.after = value]}
                     /\ value = IF Collapsed(edits) = {} THEN last.after
                                ELSE Latest(Collapsed(edits)).after
    BY <1>4 DEF BornEntry
  <1>7. value = IF edits = {} THEN last.after ELSE Latest(edits).after
    <2>1. CASE edits = {}
      BY <1>6, <2>1 DEF Collapsed
    <2>2. CASE edits # {}
      <3>1. PICK r : Collapsed(edits) = {r} /\ r.after = Latest(edits).after
        BY <1>1, <2>2, CollapsedSays
      <3>2. Log({r})
        <4>1. Shaped(r) /\ \E e \in edits : r.seq = e.seq
          BY <1>1, <3>1, CollapsedIsOne
        <4>2. r.seq \in Nat
          BY <1>1, <4>1, NumberedIsFinite DEF Log
        <4>3. Numbered({r})
          BY <4>2 DEF Numbered
        <4>4. QED
          BY <4>1, <4>3 DEF Log
      <3>3. Latest({r}) = r
        BY <3>2, LastIsOne
      <3>4. QED
        BY <1>6, <2>2, <3>1, <3>3
    <2>3. QED
      BY <2>1, <2>2
  <1>8. PICK b : b = [last EXCEPT !.after = value]
    OBVIOUS
  <1>9. b.after = value /\ b.kind = "CreateEntry"
    <2>1. PICK s, k, o, t, p, n, w, e, a, m :
            last = [seq |-> s, kind |-> k, source |-> o, target |-> t, parent |-> p, name |-> n,
                    was |-> w, before |-> e, after |-> a, perm |-> m]
      <3>1. Shaped(last)
        BY <1>1, <1>4 DEF Log
      <3>2. QED
        BY <3>1, Zenon DEF Shaped
    <2>2. b = [seq |-> s, kind |-> k, source |-> o, target |-> t, parent |-> p, name |-> n,
               was |-> w, before |-> e, after |-> value, perm |-> m]
      BY ONLY <1>8, <2>1
    <2>3. b.after = value /\ b.kind = last.kind
      BY ONLY <2>1, <2>2
    <2>4. QED
      BY <1>4, <2>3 DEF OfKind
  <1>10. \A r \in ReduceTarget(mine) : r = b \/ r.kind \in MoveKinds
    <2>1. ReduceTarget(mine) \subseteq {b} \cup Collapsed(OfKind(mine, MoveKinds))
      BY <1>5, <1>6, <1>8, WaysIn
    <2>2. \A r \in Collapsed(OfKind(mine, MoveKinds)) : r.kind \in MoveKinds
      BY <1>1, CollapsedIsNet DEF Net
    <2>3. QED
      BY <2>1, <2>2
  <1>11. c = b
    BY <1>2, <1>10 DEF MoveKinds
  <1>12. QED
    BY <1>2, <1>3, <1>4, <1>7, <1>9, <1>10, <1>11
===============================================================================
