-------------------------- MODULE PasswordsProofs ---------------------------
(***************************************************************************)
(* Proofs about Passwords: types, how long the journal can grow, and what  *)
(* it tells of the passwords in effect.                                    *)
(*                                                                         *)
(* First what the journal's operators do to a set of rows: the rows from   *)
(* LastIdToKeep on are KeepLast rows or all of them, so that deleting the  *)
(* others leaves the newest ones, and a row with a new id pushes each of   *)
(* the newest ones one place back.                                         *)
(***************************************************************************)
EXTENDS Passwords, FiniteSetTheorems, WellFoundedInduction, TLAPS

(* A finite set of numbers has a least and a greatest: the sets of those    *)
(* below, or above, each number are ordered like the numbers, and inclusion *)
(* of finite sets is well-founded.                                          *)
LEMMA Extremes ==
    ASSUME NEW S \in SUBSET Nat, IsFiniteSet(S), S # {}
    PROVE  /\ \E x \in S : \A y \in S : x <= y
           /\ \E x \in S : \A y \in S : x >= y
<1>1. IsWellFoundedOn(StrictSubsetOrdering(S), SUBSET S)
  BY FS_StrictSubsetOrderingWellFounded, FS_FiniteSubsetsOfFinite
<1>2. ASSUME NEW f \in [S -> SUBSET S]
      PROVE  \E x \in S : \A y \in S : ~(f[y] \subseteq f[x] /\ f[y] # f[x])
  <2> DEFINE T == {f[x] : x \in S}
  <2>1. T \subseteq SUBSET S /\ T # {}
    OBVIOUS
  <2>2. \E t \in T : \A u \in T : <<u, t>> \notin StrictSubsetOrdering(S)
    <3> HIDE DEF T
    <3> QED BY <1>1, <2>1, WFMin
  <2>3. \A u, t \in SUBSET S : u \subseteq t /\ u # t => <<u, t>> \in StrictSubsetOrdering(S)
    BY DEF StrictSubsetOrdering
  <2>4. PICK x \in S : \A u \in T : <<u, f[x]>> \notin StrictSubsetOrdering(S)
    BY <2>2
  <2>5. \A y \in S : f[y] \in T /\ f[y] \in SUBSET S
    OBVIOUS
  <2> HIDE DEF T
  <2> QED BY <2>3, <2>4, <2>5
<1>3. \E x \in S : \A y \in S : x <= y
  <2>1. PICK f \in [S -> SUBSET S] : f = [x \in S |-> {y \in S : y < x}]
    OBVIOUS
  <2>2. PICK x \in S : \A y \in S : ~(f[y] \subseteq f[x] /\ f[y] # f[x])
    BY <1>2
  <2>3. ASSUME NEW y \in S, y < x PROVE FALSE
    <3>1. \A w \in S : \A z : z \in f[w] <=> z \in S /\ z < w
      BY <2>1
    <3>2. \A z \in S : z \in Nat
      OBVIOUS
    <3>3. y \in f[x] /\ y \notin f[y]
      BY <2>3, <3>1, <3>2
    <3>4. f[y] \subseteq f[x]
      <4> SUFFICES ASSUME NEW z \in f[y] PROVE z \in f[x]
        OBVIOUS
      <4>1. z \in S
        BY <3>1
      <4> QED BY <2>3, <3>1, <3>2, <4>1
    <3> QED BY <2>2, <3>3, <3>4
  <2> QED BY <2>3
<1>4. \E x \in S : \A y \in S : x >= y
  <2>1. PICK f \in [S -> SUBSET S] : f = [x \in S |-> {y \in S : y > x}]
    OBVIOUS
  <2>2. PICK x \in S : \A y \in S : ~(f[y] \subseteq f[x] /\ f[y] # f[x])
    BY <1>2
  <2>3. ASSUME NEW y \in S, y > x PROVE FALSE
    <3>1. \A w \in S : \A z : z \in f[w] <=> z \in S /\ z > w
      BY <2>1
    <3>2. \A z \in S : z \in Nat
      OBVIOUS
    <3>3. y \in f[x] /\ y \notin f[y]
      BY <2>3, <3>1, <3>2
    <3>4. f[y] \subseteq f[x]
      <4> SUFFICES ASSUME NEW z \in f[y] PROVE z \in f[x]
        OBVIOUS
      <4>1. z \in S
        BY <3>1
      <4> QED BY <2>3, <3>1, <3>2, <4>1
    <3> QED BY <2>2, <3>3, <3>4
  <2> QED BY <2>3
<1> QED BY <1>3, <1>4

LEMMA MinIs ==
    ASSUME NEW S \in SUBSET Nat, IsFiniteSet(S), S # {}
    PROVE  Min(S) \in S /\ \A y \in S : Min(S) <= y
BY Extremes DEF Min

-----------------------------------------------------------------------------
\* Rows of the journal

(* A finite set of rows, whose ids tell them apart. *)
Table(rows) == /\ rows \subseteq Row
               /\ IsFiniteSet(rows)
               /\ \A r, s \in rows : r.id = s.id => r = s

From(rows, i) == {r \in rows : r.id >= i}

Newer(rows, i) == {r \in rows : r.id > i}

(* To delete the rows before i is to keep KeepLast rows, or all. *)
KeepsEnough(rows, i) == Cardinality(From(rows, i)) >= KeepLast \/ From(rows, i) = rows

LEMMA RowIds == ASSUME NEW r \in Row PROVE r.id \in 1..MaxId /\ r.id \in Nat /\ r.value \in Password
BY BoundAssumption DEF Row

LEMMA RowMade ==
    ASSUME NEW i \in 1..MaxId, NEW p \in Password
    PROVE  /\ [id |-> i, value |-> p] \in Row
           /\ [id |-> i, value |-> p].id = i
           /\ [id |-> i, value |-> p].value = p
BY DEF Row

LEMMA NewestIs ==
    ASSUME NEW rows, NEW n
    PROVE  Newest(rows, n) = {r \in rows : Cardinality(Newer(rows, r.id)) < n}
BY DEF Newest, Newer

LEMMA SubTable ==
    ASSUME NEW rows, Table(rows), NEW some, some \subseteq rows
    PROVE  Table(some)
BY FS_Subset DEF Table

LEMMA Sizes ==
    ASSUME NEW rows, Table(rows), NEW i \in Nat
    PROVE  /\ IsFiniteSet(From(rows, i)) /\ Cardinality(From(rows, i)) \in Nat
           /\ IsFiniteSet(Newer(rows, i)) /\ Cardinality(Newer(rows, i)) \in Nat
           /\ Cardinality(From(rows, i)) <= Cardinality(rows)
           /\ Cardinality(rows) \in Nat
<1>1. From(rows, i) \subseteq rows /\ Newer(rows, i) \subseteq rows
  BY DEF From, Newer
<1> QED BY <1>1, FS_Subset, FS_CardinalityType DEF Table

(* Ids of rows, and the row that has the least or the greatest. *)
LEMMA Ends ==
    ASSUME NEW rows, Table(rows), rows # {}
    PROVE  /\ {r.id : r \in rows} \in SUBSET Nat
           /\ IsFiniteSet({r.id : r \in rows})
           /\ \E r \in rows : \A s \in rows : r.id <= s.id
           /\ \E r \in rows : \A s \in rows : r.id >= s.id
<1> DEFINE S == {r.id : r \in rows}
<1>1. S \subseteq 1..MaxId
  BY RowIds DEF Table
<1>2. IsFiniteSet(1..MaxId)
  BY FS_Interval, BoundAssumption
<1>3. S \in SUBSET Nat /\ IsFiniteSet(S) /\ S # {}
  BY <1>1, <1>2, FS_Subset, BoundAssumption
<1>4. \A r \in rows : r.id \in S
  OBVIOUS
<1>5. \A i \in S : \E r \in rows : r.id = i
  OBVIOUS
<1>6. /\ \E i \in S : \A j \in S : i <= j
      /\ \E i \in S : \A j \in S : i >= j
  <2> HIDE DEF S
  <2> QED BY <1>3, Extremes
<1>7. S = {r.id : r \in rows}
  OBVIOUS
<1>8. \E r \in rows : \A s \in rows : r.id <= s.id
  <2> HIDE DEF S
  <2>1. PICK i \in S : \A j \in S : i <= j
    BY <1>6
  <2> QED BY <1>4, <1>5, <2>1
<1>9. \E r \in rows : \A s \in rows : r.id >= s.id
  <2> HIDE DEF S
  <2>1. PICK i \in S : \A j \in S : i >= j
    BY <1>6
  <2> QED BY <1>4, <1>5, <2>1
<1> HIDE DEF S
<1> QED BY <1>3, <1>7, <1>8, <1>9

(* keepLastNPasswords, for any journal. *)
LEMMA LastIdKeeps ==
    ASSUME NEW rows, Table(rows), rows # {}
    PROVE  /\ \E r \in rows : r.id = LastIdToKeep(rows)
           /\ Cardinality(From(rows, LastIdToKeep(rows))) <= KeepLast
           /\ KeepsEnough(rows, LastIdToKeep(rows))
<1> DEFINE kept == Newest(rows, KeepLast)
<1>1. kept \subseteq rows /\ Table(kept)
  BY SubTable DEF Newest
<1>2. kept # {}
  <2>1. PICK r \in rows : \A s \in rows : r.id >= s.id
    BY Ends
  <2>2. Newer(rows, r.id) = {}
    BY <2>1, RowIds DEF Newer, Table
  <2>3. Cardinality(Newer(rows, r.id)) < KeepLast
    BY <2>2, FS_EmptySet, KeepAssumption
  <2> QED BY <2>3, NewestIs
<1>3. PICK m : m = LastIdToKeep(rows)
  OBVIOUS
<1>4. m \in {r.id : r \in kept} /\ \A r \in kept : m <= r.id
  <2>1. {r.id : r \in kept} \in SUBSET Nat /\ IsFiniteSet({r.id : r \in kept})
    <3> HIDE DEF kept
    <3> QED BY <1>1, <1>2, Ends
  <2>2. {r.id : r \in kept} # {}
    BY <1>2
  <2>3. m = Min({r.id : r \in kept})
    BY <1>3 DEF LastIdToKeep
  <2>4. \A r \in kept : r.id \in {s.id : s \in kept}
    OBVIOUS
  <2> HIDE DEF kept
  <2> QED BY <2>1, <2>2, <2>3, <2>4, MinIs
<1>5. PICK r \in kept : r.id = m
  BY <1>4
<1>6. r \in rows /\ m \in Nat /\ Cardinality(Newer(rows, m)) < KeepLast
  BY <1>1, <1>5, NewestIs, RowIds DEF Table
<1>7. Cardinality(From(rows, m)) <= KeepLast
  <2>1. From(rows, m) = Newer(rows, m) \cup {r}
    BY <1>5, <1>6, RowIds DEF From, Newer, Table
  <2>2. r \notin Newer(rows, m)
    BY <1>5, <1>6 DEF Newer
  <2>3. Cardinality(From(rows, m)) = Cardinality(Newer(rows, m)) + 1
    BY <1>6, <2>1, <2>2, Sizes, FS_AddElement
  <2> QED BY <1>6, <2>3, Sizes, KeepAssumption
<1>8. KeepsEnough(rows, m)
  <2>1. SUFFICES ASSUME rows \ From(rows, m) # {}
                 PROVE  Cardinality(From(rows, m)) >= KeepLast
    BY DEF KeepsEnough, From
  <2> DEFINE older == rows \ From(rows, m)
  <2>2. Table(older)
    BY SubTable
  <2>3. PICK q \in older : \A s \in older : q.id >= s.id
    BY <2>1, <2>2, Ends
  <2>4. q \in rows /\ q.id \in Nat /\ q.id < m
    BY <1>6, <2>3, RowIds DEF From, Table
  <2>5. Newer(rows, q.id) = From(rows, m)
    BY <1>6, <2>3, <2>4, RowIds DEF Newer, From, Table
  <2>6. q \notin kept
    BY <1>4, <1>6, <2>4
  <2>7. ~(Cardinality(From(rows, m)) < KeepLast)
    BY <2>4, <2>5, <2>6, NewestIs
  <2> QED BY <1>6, <2>7, Sizes, KeepAssumption
<1> QED BY <1>1, <1>3, <1>5, <1>7, <1>8

(* What is kept still has the newest rows. *)
LEMMA NewestKept ==
    ASSUME NEW rows, Table(rows), NEW i \in Nat, KeepsEnough(rows, i),
           NEW n \in 1..KeepLast
    PROVE  Newest(rows, n) \subseteq Newest(From(rows, i), n)
<1> SUFFICES ASSUME NEW r \in Newest(rows, n) PROVE r \in Newest(From(rows, i), n)
  OBVIOUS
<1>1. r \in rows /\ r.id \in Nat /\ Cardinality(Newer(rows, r.id)) < n
  BY NewestIs, RowIds DEF Table
<1>2. r \in From(rows, i)
  <2> SUFFICES ASSUME r \notin From(rows, i) PROVE FALSE
    OBVIOUS
  <2>1. r.id < i /\ Cardinality(From(rows, i)) >= KeepLast
    BY <1>1 DEF From, KeepsEnough
  <2>2. From(rows, i) \subseteq Newer(rows, r.id)
    BY <1>1, <2>1, RowIds DEF From, Newer, Table
  <2>3. Cardinality(From(rows, i)) <= Cardinality(Newer(rows, r.id))
    BY <1>1, <2>2, Sizes, FS_Subset
  <2> QED BY <1>1, <2>1, <2>3, Sizes, KeepAssumption
<1>3. Newer(From(rows, i), r.id) \subseteq Newer(rows, r.id)
  BY DEF Newer, From
<1>4. Cardinality(Newer(From(rows, i), r.id)) <= Cardinality(Newer(rows, r.id))
  BY <1>1, <1>3, Sizes, FS_Subset
<1>5. Cardinality(Newer(From(rows, i), r.id)) \in Nat
  BY <1>1, <1>3, Sizes, FS_Subset, FS_CardinalityType
<1>6. Cardinality(Newer(From(rows, i), r.id)) < n
  BY <1>1, <1>4, <1>5, Sizes, KeepAssumption
<1> QED BY <1>2, <1>6, NewestIs

(* A row that is newer than all. *)
LEMMA NewestAdded ==
    ASSUME NEW rows, Table(rows), NEW r \in Row, \A s \in rows : s.id < r.id,
           NEW n \in Nat \ {0}
    PROVE  /\ Table(rows \cup {r})
           /\ r \in Newest(rows \cup {r}, n)
           /\ Newest(rows, n - 1) \subseteq Newest(rows \cup {r}, n)
<1> DEFINE all == rows \cup {r}
<1>1. Table(all)
  BY FS_AddElement, RowIds DEF Table
<1>2. \A s \in rows : s.id \in Nat /\ s.id < r.id
  BY RowIds DEF Table
<1>3. r.id \in Nat
  BY RowIds
<1>4. r \in Newest(all, n)
  <2>1. Newer(all, r.id) = {}
    BY <1>2, <1>3 DEF Newer
  <2> QED BY <2>1, FS_EmptySet, NewestIs
<1>5. ASSUME NEW s \in Newest(rows, n - 1) PROVE s \in Newest(all, n)
  <2>1. s \in rows /\ s.id \in Nat /\ Cardinality(Newer(rows, s.id)) < n - 1
    BY <1>5, <1>2, NewestIs
  <2>2. Newer(all, s.id) = Newer(rows, s.id) \cup {r}
    BY <1>2, <1>3, <2>1 DEF Newer
  <2>3. /\ IsFiniteSet(Newer(rows, s.id)) /\ Cardinality(Newer(rows, s.id)) \in Nat
        /\ IsFiniteSet(Newer(all, s.id)) /\ Cardinality(Newer(all, s.id)) \in Nat
    BY <1>1, <2>1, Sizes
  <2>4. Cardinality(Newer(all, s.id)) <= Cardinality(Newer(rows, s.id)) + 1
    <3>1. r \notin Newer(rows, s.id)
      BY <1>2, <1>3 DEF Newer
    <3>2. Cardinality(Newer(rows, s.id) \cup {r}) = Cardinality(Newer(rows, s.id)) + 1
      BY <2>3, <3>1, FS_AddElement
    <3> QED BY <2>2, <2>3, <3>2
  <2>5. Cardinality(Newer(all, s.id)) < n
    BY <2>1, <2>3, <2>4
  <2> QED BY <2>1, <2>5, NewestIs
<1> QED BY <1>1, <1>4, <1>5

-----------------------------------------------------------------------------
\* Types, and the rows the table and the snapshots hold

AllRows == {r \in Row : r \in journal \/ \E h \in Handler : r \in view[h]}

(* Every id is drawn once, and a snapshot has what its handler inserted. *)
Tables == /\ IsFiniteSet(journal)
          /\ \A h \in Handler : IsFiniteSet(view[h])
          /\ \A r \in AllRows : r.id < nextId
          /\ \A r, s \in AllRows : r.id = s.id => r = s
          /\ \A h \in Handler : pc[h] \in {"ids", "delete", "store"} => view[h] # {}

(* There are ids for the handlers that may still insert a row. *)
Waiting == {h \in Handler : pc[h] \in {"read", "insert"}}

RoomLeft == nextId + Cardinality(Waiting) <= MaxId + 1

Sent == \A h \in Busy : new[h] \in Password

Types == TypeOK /\ Tables /\ RoomLeft /\ Sent

LEMMA TablesAre ==
    ASSUME Types
    PROVE  Table(journal) /\ \A h \in Handler : Table(view[h])
<1>1. journal \subseteq AllRows /\ \A h \in Handler : view[h] \subseteq AllRows
  BY DEF Types, TypeOK, AllRows
<1>2. AllRows \subseteq Row
  BY DEF AllRows
<1> QED BY <1>1, <1>2 DEF Types, Tables, Table

LEMMA RowsSeen == Types => Cardinality(Waiting) \in Nat /\ IsFiniteSet(Waiting)
BY BoundAssumption, FS_Subset, FS_CardinalityType DEF Waiting

(* A step that inserts no row. *)
LEMMA TablesKept ==
    ASSUME Types, nextId' = nextId, AllRows' \subseteq AllRows, IsFiniteSet(journal'),
           \A h \in Handler : IsFiniteSet(view'[h]),
           \A h \in Handler : pc'[h] \in {"ids", "delete", "store"} => view'[h] # {}
    PROVE  Tables'
BY DEF Types, Tables

LEMMA RoomKept ==
    ASSUME Types, nextId' = nextId, Waiting' \subseteq Waiting
    PROVE  RoomLeft'
<1>1. Cardinality(Waiting') <= Cardinality(Waiting) /\ Cardinality(Waiting') \in Nat
  BY RowsSeen, FS_Subset, FS_CardinalityType
<1> QED BY <1>1, RowsSeen, BoundAssumption DEF Types, TypeOK, RoomLeft

LEMMA InitTypes == Init => Types
<1> SUFFICES ASSUME Init PROVE Types
  OBVIOUS
<1>1. PICK r \in Row : r = [id |-> 1, value |-> current] /\ r.id = 1
  <2>1. 1 \in 1..MaxId /\ current \in Password
    BY BoundAssumption DEF Init
  <2>2. [id |-> 1, value |-> current] \in Row /\ [id |-> 1, value |-> current].id = 1
    BY <2>1 DEF Row
  <2> QED BY <2>2, Zenon
<1>2. journal = {r} /\ current \in Password /\ nextId = 2
  BY <1>1 DEF Init
<1>3. TypeOK
  <2>1. 2 \in 1..MaxId + 1 /\ 0 \in 0..MaxId
    BY BoundAssumption
  <2>2. <<current>> \in Seq(Password)
    BY <1>2
  <2>3. /\ used \in Seq(Password)
        /\ journal \subseteq Row
        /\ nextId \in 1..MaxId + 1
    BY <1>2, <2>1, <2>2 DEF Init
  <2> QED BY <1>2, <2>1, <2>3 DEF Init, TypeOK
<1>4. Tables
  <2>1. \A h \in Handler : view[h] = {} /\ pc[h] = "idle"
    BY DEF Init
  <2>2. AllRows = {r}
    BY <1>2, <2>1 DEF AllRows
  <2>3. IsFiniteSet(journal) /\ \A h \in Handler : IsFiniteSet(view[h])
    BY <1>2, <2>1, FS_EmptySet, FS_Singleton
  <2>4. \A q \in AllRows : q = r /\ q.id < nextId
    BY <1>1, <1>2, <2>2
  <2> QED BY <2>1, <2>3, <2>4 DEF Tables
<1>5. Waiting = {}
  BY DEF Init, Waiting
<1>6. RoomLeft /\ Sent
  BY <1>5, FS_EmptySet, BoundAssumption DEF Init, RoomLeft, Sent, Busy
<1> QED BY <1>3, <1>4, <1>6 DEF Types

LEMMA FinishTypes ==
    ASSUME Types, NEW h \in Handler, Finish(h)
    PROVE  /\ pc' \in [Handler -> {"idle", "read", "insert", "ids", "delete", "store"}]
           /\ kind' \in [Handler -> {"change", "update"}]
           /\ new' \in [Handler -> Password \cup {NoPassword}]
           /\ view' \in [Handler -> SUBSET Row]
           /\ keepFrom' \in [Handler -> 0..MaxId]
           /\ Sent'
           /\ Waiting' \subseteq Waiting
           /\ \A g \in Handler : view'[g] \subseteq view[g] /\ IsFiniteSet(view'[g])
           /\ \A g \in Handler : pc'[g] \in {"ids", "delete", "store"} => view'[g] # {}
<1>1. \A g \in Handler : /\ g = h => pc'[g] = "idle" /\ new'[g] = NoPassword /\ view'[g] = {}
                         /\ g # h => pc'[g] = pc[g] /\ new'[g] = new[g] /\ view'[g] = view[g]
  BY DEF Finish, Types, TypeOK
<1>2. \A g \in Handler : view'[g] \subseteq view[g] /\ IsFiniteSet(view'[g])
  BY <1>1, FS_EmptySet DEF Types, Tables
<1>3. \A g \in Handler : pc'[g] \in {"ids", "delete", "store"} => view'[g] # {}
  BY <1>1 DEF Types, Tables
<1>4. Sent' /\ Waiting' \subseteq Waiting
  BY <1>1 DEF Types, Sent, Busy, Waiting
<1>5. /\ pc' \in [Handler -> {"idle", "read", "insert", "ids", "delete", "store"}]
      /\ kind' \in [Handler -> {"change", "update"}]
      /\ new' \in [Handler -> Password \cup {NoPassword}]
      /\ view' \in [Handler -> SUBSET Row]
  BY DEF Finish, Types, TypeOK
<1>6. keepFrom' \in [Handler -> 0..MaxId]
  BY BoundAssumption DEF Finish, Types, TypeOK
<1> QED BY <1>2, <1>3, <1>4, <1>5, <1>6

LEMMA BeginTypes == ASSUME Types, NEW h \in Handler, Begin(h) PROVE Types'
<1>1. PICK k \in {"change", "update"}, p \in Password :
          kind' = [kind EXCEPT ![h] = k] /\ new' = [new EXCEPT ![h] = p]
  BY DEF Begin
<1>2. /\ pc[h] = "idle" /\ nextId + Cardinality(Busy) <= MaxId
      /\ pc' = [pc EXCEPT ![h] = "read"]
      /\ UNCHANGED <<current, journal, nextId, view, keepFrom, used, cut, overlap>>
  BY DEF Begin, row, history
<1>3. TypeOK'
  BY <1>1, <1>2 DEF Types, TypeOK
<1>4. Tables'
  BY <1>2 DEF Types, TypeOK, Tables, AllRows
<1>5. RoomLeft'
  <2>1. IsFiniteSet(Busy) /\ Cardinality(Busy) \in Nat
    BY BoundAssumption, FS_Subset, FS_CardinalityType DEF Busy
  <2>2. Waiting' \subseteq Busy \cup {h}
    BY <1>2 DEF Types, TypeOK, Waiting, Busy
  <2>3. IsFiniteSet(Busy \cup {h}) /\ Cardinality(Busy \cup {h}) = Cardinality(Busy) + 1
    BY <1>2, <2>1, FS_AddElement DEF Busy
  <2>4. Cardinality(Waiting') <= Cardinality(Busy) + 1 /\ Cardinality(Waiting') \in Nat
    BY <2>2, <2>3, FS_Subset, FS_CardinalityType
  <2> QED BY <1>2, <2>1, <2>4, BoundAssumption DEF Types, TypeOK, RoomLeft
<1>6. Sent'
  BY <1>1, <1>2 DEF Types, TypeOK, Sent, Busy
<1> QED BY <1>3, <1>4, <1>5, <1>6 DEF Types

LEMMA OverlapsType ==
    ASSUME Types, NEW h \in Handler, Overlaps(h)
    PROVE  overlap' \subseteq {"change", "update"} /\ overlap \subseteq overlap'
BY DEF Types, TypeOK, Overlaps, Busy

LEMMA ReadLastTypes == ASSUME Types, NEW h \in Handler, ReadLast(h) PROVE Types'
<1>1. /\ pc[h] = "read" /\ Overlaps(h)
      /\ UNCHANGED <<current, journal, nextId, used, cut>>
  BY DEF ReadLast, row
<1>2. overlap' \subseteq {"change", "update"}
  BY <1>1, OverlapsType
<1>3. CASE Finish(h)
  <2>1. TypeOK'
    BY <1>1, <1>2, <1>3, FinishTypes DEF Types, TypeOK
  <2>2. AllRows' \subseteq AllRows
    BY <1>1, <1>3, FinishTypes DEF AllRows
  <2>3. IsFiniteSet(journal')
    BY <1>1 DEF Types, Tables
  <2> QED BY <1>1, <1>3, <2>1, <2>2, <2>3, FinishTypes, TablesKept, RoomKept DEF Types
<1>4. CASE ~Finish(h)
  <2>1. /\ pc' = [pc EXCEPT ![h] = "insert"]
        /\ view' = [view EXCEPT ![h] = journal]
        /\ UNCHANGED <<kind, new, keepFrom>>
    BY <1>4 DEF ReadLast, Goto
  <2>2. TypeOK'
    BY <1>1, <1>2, <2>1 DEF Types, TypeOK
  <2>3. AllRows' \subseteq AllRows
    BY <1>1, <2>1 DEF Types, TypeOK, AllRows
  <2>4. IsFiniteSet(journal') /\ \A g \in Handler : IsFiniteSet(view'[g])
    BY <1>1, <2>1 DEF Types, TypeOK, Tables
  <2>5. \A g \in Handler : pc'[g] \in {"ids", "delete", "store"} => view'[g] # {}
    BY <2>1 DEF Types, TypeOK, Tables
  <2>6. Waiting' \subseteq Waiting /\ Sent'
    BY <1>1, <2>1 DEF Types, TypeOK, Waiting, Sent, Busy
  <2> QED BY <1>1, <2>2, <2>3, <2>4, <2>5, <2>6, TablesKept, RoomKept DEF Types
<1> QED BY <1>3, <1>4

LEMMA InsertTypes ==
    ASSUME Types, NEW h \in Handler, Insert(h)
    PROVE  /\ Types'
           /\ \E r \in Row : /\ r = [id |-> nextId, value |-> new[h]]
                             /\ r.id = nextId /\ r.value = new[h]
<1>1. /\ pc[h] = "insert" /\ nextId' = nextId + 1
      /\ pc' = [pc EXCEPT ![h] = "ids"]
      /\ UNCHANGED <<current, kind, new, keepFrom, used, cut, overlap>>
  BY DEF Insert, Goto, history
<1>2. /\ Cardinality(Waiting) \in Nat /\ IsFiniteSet(Waiting)
      /\ Waiting' = Waiting \ {h} /\ h \in Waiting
  BY <1>1, RowsSeen DEF Types, TypeOK, Waiting
<1>3. Cardinality(Waiting') = Cardinality(Waiting) - 1 /\ Cardinality(Waiting') \in Nat
  BY <1>2, FS_RemoveElement, FS_CardinalityType
<1>4. nextId \in 1..MaxId
  BY <1>3, <1>2, BoundAssumption DEF Types, TypeOK, RoomLeft
<1>5. PICK r \in Row : r = [id |-> nextId, value |-> new[h]] /\ r.id = nextId /\ r.value = new[h]
  <2>1. new[h] \in Password
    BY <1>1 DEF Types, Sent, Busy
  <2> QED BY <1>4, <2>1, RowMade
<1>6. /\ view' = [view EXCEPT ![h] = @ \cup {r}]
      /\ journal' = IF kind[h] = "change" THEN journal \cup {r} ELSE journal
  BY <1>5 DEF Insert
<1>7. TypeOK'
  BY <1>1, <1>4, <1>6, BoundAssumption DEF Types, TypeOK
<1>8. Tables'
  <2>1. AllRows' \subseteq AllRows \cup {r}
    BY <1>6 DEF Types, TypeOK, AllRows
  <2>2. /\ IsFiniteSet(journal')
        /\ \A g \in Handler : IsFiniteSet(view'[g])
        /\ \A g \in Handler : pc'[g] \in {"ids", "delete", "store"} => view'[g] # {}
    BY <1>1, <1>6, FS_AddElement DEF Types, TypeOK, Tables
  <2>3. \A q \in AllRows : q.id \in Nat /\ q.id < nextId
    BY RowIds DEF Types, Tables, AllRows
  <2>4. \A q \in AllRows' : q.id < nextId'
    BY <1>1, <1>4, <1>5, <2>1, <2>3, BoundAssumption
  <2>5. \A q, t \in AllRows' : q.id = t.id => q = t
    BY <1>4, <1>5, <2>1, <2>3 DEF Types, Tables
  <2> QED BY <2>2, <2>4, <2>5 DEF Tables
<1>9. RoomLeft'
  BY <1>1, <1>2, <1>3, <1>4, BoundAssumption DEF Types, RoomLeft
<1>10. Sent'
  BY <1>1 DEF Types, TypeOK, Sent, Busy
<1> QED BY <1>5, <1>7, <1>8, <1>9, <1>10 DEF Types

LEMMA ReadIdsTypes ==
    ASSUME Types, NEW h \in Handler, ReadIds(h)
    PROVE  Types' /\ (Seen(h) # {} => LastIdToKeep(Seen(h)) \in 0..MaxId)
<1>1. /\ pc[h] = "ids" /\ UNCHANGED <<current, journal, nextId, kind, new, view, used, cut, overlap>>
      /\ keepFrom' = [keepFrom EXCEPT ![h] =
                         IF Seen(h) = {} THEN 0 ELSE LastIdToKeep(Seen(h))]
      /\ pc' = [pc EXCEPT ![h] = IF Seen(h) = {} THEN "store" ELSE "delete"]
  BY DEF ReadIds, Goto, row, history
<1>2. Table(Seen(h))
  BY TablesAre DEF Seen
<1>3. Seen(h) # {} => LastIdToKeep(Seen(h)) \in 0..MaxId
  BY <1>2, LastIdKeeps, RowIds, BoundAssumption DEF Table
<1>4. TypeOK'
  BY <1>1, <1>3, BoundAssumption DEF Types, TypeOK
<1>5. /\ AllRows' \subseteq AllRows /\ IsFiniteSet(journal')
      /\ \A g \in Handler : IsFiniteSet(view'[g])
      /\ \A g \in Handler : pc'[g] \in {"ids", "delete", "store"} => view'[g] # {}
  BY <1>1 DEF Types, TypeOK, Tables, AllRows
<1>6. Waiting' \subseteq Waiting /\ Sent'
  BY <1>1 DEF Types, TypeOK, Waiting, Sent, Busy
<1> QED BY <1>1, <1>3, <1>4, <1>5, <1>6, TablesKept, RoomKept DEF Types

LEMMA DeleteOlderTypes == ASSUME Types, NEW h \in Handler, DeleteOlder(h) PROVE Types'
<1>1. /\ pc[h] = "delete" /\ pc' = [pc EXCEPT ![h] = "store"]
      /\ UNCHANGED <<current, nextId, kind, new, view, keepFrom, used, cut, overlap>>
      /\ journal' \subseteq journal
  BY DEF DeleteOlder, Goto, history
<1>2. TypeOK'
  BY <1>1 DEF Types, TypeOK
<1>3. /\ AllRows' \subseteq AllRows
      /\ \A g \in Handler : IsFiniteSet(view'[g])
      /\ \A g \in Handler : pc'[g] \in {"ids", "delete", "store"} => view'[g] # {}
  BY <1>1 DEF Types, TypeOK, Tables, AllRows
<1>4. IsFiniteSet(journal')
  BY <1>1, FS_Subset DEF Types, Tables
<1>5. Waiting' \subseteq Waiting /\ Sent'
  BY <1>1 DEF Types, TypeOK, Waiting, Sent, Busy
<1> QED BY <1>1, <1>2, <1>3, <1>4, <1>5, TablesKept, RoomKept DEF Types

LEMMA StoreTypes == ASSUME Types, NEW h \in Handler, Store(h) PROVE Types'
<1>1. /\ pc[h] = "store" /\ Finish(h) /\ current' = new[h] /\ used' = Append(used, new[h])
      /\ UNCHANGED <<nextId, cut, overlap>>
      /\ journal' \subseteq journal \cup view[h]
  BY DEF Store, history
<1>2. new[h] \in Password
  BY <1>1 DEF Types, Sent, Busy
<1>3. /\ current' \in Password /\ used' \in Seq(Password) /\ journal' \subseteq Row
  BY <1>1, <1>2 DEF Types, TypeOK
<1>4. TypeOK'
  BY <1>1, <1>3, FinishTypes DEF Types, TypeOK
<1>5. AllRows' \subseteq AllRows
  BY <1>1, FinishTypes DEF AllRows
<1>6. IsFiniteSet(journal')
  <2>1. IsFiniteSet(journal \cup view[h])
    BY FS_Union DEF Types, Tables
  <2> QED BY <1>1, <2>1, FS_Subset
<1> QED BY <1>1, <1>4, <1>5, <1>6, FinishTypes, TablesKept, RoomKept DEF Types

LEMMA AbortTypes == ASSUME Types, NEW h \in Handler, Abort(h) PROVE Types'
<1>1. Finish(h) /\ UNCHANGED <<current, journal, nextId, used, overlap>>
  BY DEF Abort, row
<1>2. cut' \in BOOLEAN
  <2>1. cut' = (cut \/ (kind[h] = "change" /\ pc[h] \in {"ids", "delete", "store"}))
    BY DEF Abort
  <2>2. (cut \/ (kind[h] = "change" /\ pc[h] \in {"ids", "delete", "store"})) \in BOOLEAN
    OBVIOUS
  <2> QED BY <2>1, <2>2, Zenon
<1>3. TypeOK'
  BY <1>1, <1>2, FinishTypes DEF Types, TypeOK
<1>4. AllRows' \subseteq AllRows /\ IsFiniteSet(journal')
  BY <1>1, FinishTypes DEF Types, Tables, AllRows
<1> QED BY <1>1, <1>3, <1>4, FinishTypes, TablesKept, RoomKept DEF Types

LEMMA StutterTypes == ASSUME Types, UNCHANGED vars PROVE Types'
<1>1. UNCHANGED <<current, journal, nextId, pc, kind, new, view, keepFrom, used, cut, overlap>>
  BY DEF vars, row, local, history
<1>2. TypeOK' /\ Tables' /\ RoomLeft' /\ Sent'
  BY <1>1 DEF Types, TypeOK, Tables, AllRows, RoomLeft, Waiting, Sent, Busy
<1> QED BY <1>2 DEF Types

LEMMA NextTypes == ASSUME Types, [Next]_vars PROVE Types'
BY BeginTypes, ReadLastTypes, InsertTypes, ReadIdsTypes, DeleteOlderTypes, StoreTypes,
   AbortTypes, StutterTypes DEF Next

LEMMA TypesHold == Spec => []Types
BY InitTypes, NextTypes, PTL DEF Spec

(* Every variable keeps its type; above all, lastIdToKeep is an id of a row *)
(* the handler has seen, whatever others deleted meanwhile.                 *)
THEOREM TypeCorrect == Spec => []TypeOK
<1>1. Types => TypeOK
  BY DEF Types
<1> QED BY TypesHold, <1>1, PTL

-----------------------------------------------------------------------------
\* How long the journal can grow

Past(h) == pc[h] \in {"insert", "ids", "delete", "store"}

Inserters == {h \in Handler : kind[h] = "change" /\ pc[h] = "ids"}

Deleters == {h \in Handler : kind[h] = "change" /\ pc[h] = "delete"}

(* Those who will delete more. *)
Above(h) == {g \in Deleters : keepFrom[g] > keepFrom[h]}

(* What overlap records: two handlers that have both compared. *)
Overlapped == \A g, h \in Handler :
    g # h /\ Past(g) /\ Past(h) => kind[g] \in overlap /\ kind[h] \in overlap

(* A transaction's last id to keep is one of its snapshot until its commit. *)
SnapshotKeeps == \A h \in Handler :
    kind[h] = "update" /\ pc[h] \in {"delete", "store"} => keepFrom[h] = LastIdToKeep(view[h])

(* A transaction that overlaps nothing sees the table and its own row. *)
SnapshotOf(h) == /\ journal \subseteq view[h]
                 /\ pc[h] = "insert" => view[h] = journal
                 /\ \A r \in view[h] \ journal : r.value = new[h]

Snapshots == "update" \notin overlap =>
    \A h \in Handler : kind[h] = "update" /\ Past(h) => SnapshotOf(h)

Clean == ~cut /\ "update" \notin overlap

Short == Cardinality(journal) <= KeepLast + Cardinality(Inserters) + Cardinality(Deleters)

(* JournalShort alone is not inductive: it has to say what each handler that *)
(* is about to delete will leave, also when another deletes before it.  Put  *)
(* in the order of their last ids to keep, each leaves one row more than the *)
(* one that deletes more, and each leaves the newest KeepLast rows.          *)
TrimOf(h) == /\ keepFrom[h] < nextId
             /\ KeepsEnough(journal, keepFrom[h])
             /\ Cardinality(From(journal, keepFrom[h])) <=
                    KeepLast + Cardinality(Inserters) + Cardinality(Above(h))

Trims == \A h \in Deleters : TrimOf(h)

ShortInv == Clean => Short /\ Trims

JInv == Types /\ Overlapped /\ SnapshotKeeps /\ Snapshots /\ ShortInv

LEMMA Counts ==
    ASSUME NEW h
    PROVE  /\ IsFiniteSet(Inserters) /\ Cardinality(Inserters) \in Nat
           /\ IsFiniteSet(Deleters) /\ Cardinality(Deleters) \in Nat
           /\ IsFiniteSet(Above(h)) /\ Cardinality(Above(h)) \in Nat
<1>1. Inserters \subseteq Handler /\ Deleters \subseteq Handler /\ Above(h) \subseteq Handler
  BY DEF Inserters, Deleters, Above
<1> QED BY <1>1, BoundAssumption, FS_Subset, FS_CardinalityType

LEMMA ShortIs == JInv => JournalShort
<1> SUFFICES ASSUME JInv, Clean PROVE Cardinality(journal) <= KeepLast + Cardinality(Inserted)
  BY DEF JournalShort, Clean
<1>1. Inserted = Inserters \cup Deleters /\ Inserters \cap Deleters = {}
  BY DEF Inserted, Inserters, Deleters
<1>2. Cardinality(Inserters \cup Deleters) =
          Cardinality(Inserters) + Cardinality(Deleters) - Cardinality(Inserters \cap Deleters)
  BY Counts, FS_Union
<1>3. Cardinality(Inserted) = Cardinality(Inserters) + Cardinality(Deleters)
  <2>1. Cardinality(Inserters \cap Deleters) = 0
    BY <1>1, FS_EmptySet
  <2> QED BY <1>1, <1>2, <2>1, Counts
<1>4. Cardinality(journal) <= KeepLast + Cardinality(Inserters) + Cardinality(Deleters)
  BY DEF JInv, ShortInv, Short
<1> QED BY <1>3, <1>4, Counts, KeepAssumption

(* One handler acts; the others stay where they are. *)
LEMMA OthersStay ==
    ASSUME Types, NEW h \in Handler,
           \/ Begin(h) \/ ReadLast(h) \/ Insert(h) \/ ReadIds(h)
           \/ DeleteOlder(h) \/ Store(h) \/ Abort(h)
    PROVE  /\ \A g \in Handler \ {h} :
                /\ pc'[g] = pc[g] /\ kind'[g] = kind[g] /\ new'[g] = new[g]
                /\ view'[g] = view[g] /\ keepFrom'[g] = keepFrom[g]
           /\ overlap \subseteq overlap' /\ (cut => cut')
<1>1. ASSUME Finish(h)
      PROVE  \A g \in Handler \ {h} :
                /\ pc'[g] = pc[g] /\ kind'[g] = kind[g] /\ new'[g] = new[g]
                /\ view'[g] = view[g] /\ keepFrom'[g] = keepFrom[g]
  BY <1>1 DEF Finish, Types, TypeOK
<1>2. CASE Begin(h)
  BY <1>2 DEF Begin, Types, TypeOK, history
<1>3. CASE ReadLast(h)
  BY <1>1, <1>3, OverlapsType DEF ReadLast, Goto, Types, TypeOK
<1>4. CASE Insert(h)
  BY <1>4 DEF Insert, Goto, Types, TypeOK, history
<1>5. CASE ReadIds(h)
  BY <1>5 DEF ReadIds, Goto, Types, TypeOK, history
<1>6. CASE DeleteOlder(h)
  BY <1>6 DEF DeleteOlder, Goto, Types, TypeOK, history
<1>7. CASE Store(h)
  BY <1>1, <1>7 DEF Store, history
<1>8. CASE Abort(h)
  BY <1>1, <1>8 DEF Abort
<1> QED BY <1>2, <1>3, <1>4, <1>5, <1>6, <1>7, <1>8

LEMMA OverlappedKept ==
    ASSUME Overlapped, overlap \subseteq overlap',
           \A g \in Handler : Past(g)' => Past(g) /\ kind'[g] = kind[g]
    PROVE  Overlapped'
BY DEF Overlapped

LEMMA KeepsKept ==
    ASSUME SnapshotKeeps,
           \A g \in Handler : kind'[g] = "update" /\ pc'[g] \in {"delete", "store"} =>
               /\ kind[g] = "update" /\ pc[g] \in {"delete", "store"}
               /\ keepFrom'[g] = keepFrom[g] /\ view'[g] = view[g]
    PROVE  SnapshotKeeps'
BY DEF SnapshotKeeps, LastIdToKeep, Newest

LEMMA SnapshotsKept ==
    ASSUME Snapshots, journal' = journal, overlap \subseteq overlap',
           \A g \in Handler : kind'[g] = "update" /\ Past(g)' =>
               /\ kind[g] = "update" /\ Past(g) /\ view'[g] = view[g] /\ new'[g] = new[g]
               /\ pc'[g] = "insert" => pc[g] = "insert"
    PROVE  Snapshots'
BY DEF Snapshots, SnapshotOf

(* A step that neither inserts nor deletes. *)
LEMMA ShortKept ==
    ASSUME ShortInv, journal' = journal, nextId' = nextId,
           overlap \subseteq overlap', cut => cut',
           Inserters' = Inserters, Deleters' = Deleters,
           \A g \in Deleters : keepFrom'[g] = keepFrom[g]
    PROVE  ShortInv'
<1>1. Clean' => Clean
  BY DEF Clean
<1>2. \A h \in Deleters : Above(h)' = Above(h)
  BY DEF Above
<1>3. \A h \in Deleters : From(journal, keepFrom[h])' = From(journal, keepFrom[h])
  BY DEF From
<1> QED BY <1>1, <1>2, <1>3 DEF ShortInv, Short, Trims, TrimOf, KeepsEnough

LEMMA InitJournal == Init => JInv
<1> SUFFICES ASSUME Init PROVE JInv
  OBVIOUS
<1>1. Types
  BY InitTypes
<1>2. \A h \in Handler : pc[h] = "idle"
  BY DEF Init
<1>3. Overlapped /\ SnapshotKeeps /\ Snapshots
  BY <1>2 DEF Overlapped, Past, SnapshotKeeps, Snapshots
<1>4. Inserters = {} /\ Deleters = {}
  BY <1>2 DEF Inserters, Deleters
<1>5. Cardinality(journal) = 1
  BY FS_Singleton DEF Init
<1>6. ShortInv
  BY <1>4, <1>5, FS_EmptySet, KeepAssumption DEF ShortInv, Short, Trims
<1> QED BY <1>1, <1>3, <1>6 DEF JInv

LEMMA BeginJournal == ASSUME JInv, NEW h \in Handler, Begin(h) PROVE JInv'
<1>1. Types' /\ Types
  BY BeginTypes DEF JInv
<1>2. \A g \in Handler \ {h} :
          /\ pc'[g] = pc[g] /\ kind'[g] = kind[g] /\ new'[g] = new[g]
          /\ view'[g] = view[g] /\ keepFrom'[g] = keepFrom[g]
  BY <1>1, OthersStay
<1>3. /\ pc[h] = "idle" /\ pc'[h] = "read"
      /\ UNCHANGED <<current, journal, nextId, view, keepFrom, used, cut, overlap>>
  BY <1>1 DEF Begin, row, history, Types, TypeOK
<1>4. Inserters' = Inserters /\ Deleters' = Deleters
  BY <1>2, <1>3 DEF Inserters, Deleters
<1>5. Overlapped'
  BY <1>2, <1>3, OverlappedKept DEF JInv, Past
<1>6. SnapshotKeeps' /\ Snapshots'
  BY <1>2, <1>3, KeepsKept, SnapshotsKept DEF JInv, Past
<1> QED BY <1>1, <1>3, <1>4, <1>5, <1>6, ShortKept DEF JInv

(* A handler that goes idle, for any reason. *)
LEMMA FinishJournal ==
    ASSUME JInv, NEW h \in Handler, pc'[h] = "idle", overlap \subseteq overlap',
           \A g \in Handler \ {h} : /\ pc'[g] = pc[g] /\ kind'[g] = kind[g] /\ new'[g] = new[g]
                                   /\ view'[g] = view[g] /\ keepFrom'[g] = keepFrom[g]
    PROVE  Overlapped' /\ SnapshotKeeps' /\ (journal' = journal => Snapshots')
<1>1. Overlapped'
  BY OverlappedKept DEF JInv, Past
<1>2. SnapshotKeeps'
  BY KeepsKept DEF JInv
<1>3. ASSUME journal' = journal PROVE Snapshots'
  BY <1>3, SnapshotsKept DEF JInv, Past
<1> QED BY <1>1, <1>2, <1>3

LEMMA ReadLastJournal == ASSUME JInv, NEW h \in Handler, ReadLast(h) PROVE JInv'
<1>1. Types' /\ Types
  BY ReadLastTypes DEF JInv
<1>2. /\ \A g \in Handler \ {h} :
            /\ pc'[g] = pc[g] /\ kind'[g] = kind[g] /\ new'[g] = new[g]
            /\ view'[g] = view[g] /\ keepFrom'[g] = keepFrom[g]
      /\ overlap \subseteq overlap' /\ (cut => cut')
  BY <1>1, OthersStay
<1>3. pc[h] = "read" /\ UNCHANGED <<current, journal, nextId, used, cut>>
  BY DEF ReadLast, row
<1>4. CASE Finish(h)
  <2>1. pc'[h] = "idle"
    BY <1>1, <1>4 DEF Finish, Types, TypeOK
  <2>2. Inserters' = Inserters /\ Deleters' = Deleters /\ h \notin Deleters
    BY <1>2, <1>3, <2>1 DEF Inserters, Deleters
  <2>3. ShortInv'
    BY <1>2, <1>3, <2>2, ShortKept DEF JInv, Deleters
  <2> QED BY <1>1, <1>2, <1>3, <2>1, <2>3, FinishJournal DEF JInv
<1>5. CASE ~Finish(h)
  <2>1. pc'[h] = "insert" /\ view'[h] = journal /\ kind'[h] = kind[h]
    BY <1>1, <1>5 DEF ReadLast, Goto, Types, TypeOK
  <2>2. Inserters' = Inserters /\ Deleters' = Deleters /\ h \notin Deleters
    BY <1>2, <1>3, <2>1 DEF Inserters, Deleters
  <2>3. ShortInv'
    BY <1>2, <1>3, <2>2, ShortKept DEF JInv, Deleters
  <2>4. SnapshotKeeps'
    BY <1>2, <2>1, KeepsKept DEF JInv
  <2>5. Snapshots'
    BY <1>2, <1>3, <2>1 DEF JInv, Snapshots, SnapshotOf, Past
  <2>6. ASSUME NEW g \in Handler \ {h}, Past(g)
        PROVE  kind[g] \in overlap' /\ kind[h] \in overlap'
    <3> DEFINE others == {f \in Busy \ {h} : pc[f] # "read"}
    <3>1. g \in others
      BY <2>6 DEF Past, Busy
    <3>2. overlap' = overlap \cup {kind[f] : f \in others \cup {h}}
      BY <3>1 DEF ReadLast, Overlaps
    <3> QED BY <3>1, <3>2
  <2>7. Overlapped'
    BY <1>2, <2>1, <2>6 DEF JInv, Overlapped, Past
  <2> QED BY <1>1, <2>3, <2>4, <2>5, <2>7 DEF JInv
<1> QED BY <1>4, <1>5

(* While an update is under way that overlaps nothing, it is the only one. *)
LEMMA UpdateAlone ==
    ASSUME Overlapped, "update" \notin overlap, NEW g \in Handler, NEW h \in Handler,
           g # h, Past(g), Past(h)
    PROVE  kind[g] # "update" /\ kind[h] # "update"
BY DEF Overlapped

LEMMA InsertJournal == ASSUME JInv, NEW h \in Handler, Insert(h) PROVE JInv'
<1>1. Types' /\ Types
  BY InsertTypes DEF JInv
<1>2. /\ \A g \in Handler \ {h} :
            /\ pc'[g] = pc[g] /\ kind'[g] = kind[g] /\ new'[g] = new[g]
            /\ view'[g] = view[g] /\ keepFrom'[g] = keepFrom[g]
      /\ overlap \subseteq overlap' /\ (cut => cut')
  BY <1>1, OthersStay
<1>3. PICK r \in Row : r = [id |-> nextId, value |-> new[h]] /\ r.id = nextId /\ r.value = new[h]
  BY InsertTypes DEF JInv
<1>4. /\ pc[h] = "insert" /\ pc'[h] = "ids" /\ nextId' = nextId + 1
      /\ kind'[h] = kind[h] /\ new'[h] = new[h] /\ view'[h] = view[h] \cup {r}
      /\ journal' = IF kind[h] = "change" THEN journal \cup {r} ELSE journal
      /\ UNCHANGED <<keepFrom, cut, overlap>>
  BY <1>1, <1>3 DEF Insert, Goto, Types, TypeOK, history
<1>5. Overlapped' /\ SnapshotKeeps'
  BY <1>2, <1>4, OverlappedKept, KeepsKept DEF JInv, Past
<1>6. Deleters' = Deleters /\ \A g \in Deleters : Above(g)' = Above(g)
  BY <1>2, <1>4 DEF Deleters, Above
<1>7. nextId \in Nat /\ \A g \in Handler : keepFrom[g] \in Nat
  BY <1>1, BoundAssumption DEF Types, TypeOK
<1>8. Table(journal) /\ \A q \in journal : q.id \in Nat /\ q.id < nextId
  BY <1>1, TablesAre, RowIds DEF Types, TypeOK, Tables, AllRows
<1>9. CASE kind[h] = "change"
  <2>1. Snapshots'
    <3> SUFFICES ASSUME "update" \notin overlap, NEW g \in Handler, kind'[g] = "update", Past(g)'
                 PROVE  FALSE
      BY <1>4 DEF Snapshots
    <3> QED BY <1>2, <1>4, <1>9, UpdateAlone DEF JInv, Past
  <2>2. journal' = journal \cup {r} /\ r \notin journal
    BY <1>3, <1>4, <1>8, <1>9
  <2>3. Inserters' = Inserters \cup {h} /\ h \notin Inserters
    BY <1>2, <1>4, <1>9 DEF Inserters
  <2>4. Cardinality(Inserters') = Cardinality(Inserters) + 1
    BY <2>3, Counts, FS_AddElement
  <2>5. Cardinality(journal') = Cardinality(journal) + 1 /\ Cardinality(journal) \in Nat
    BY <2>2, <1>8, FS_AddElement, FS_CardinalityType DEF Table
  <2>6. ASSUME Short PROVE Short'
    BY <1>6, <2>4, <2>5, <2>6, Counts, KeepAssumption DEF Short
  <2>7. ASSUME NEW g \in Deleters, TrimOf(g) PROVE TrimOf(g)'
    <3>1. PICK i : i = keepFrom[g]
      OBVIOUS
    <3>2. i \in Nat /\ i < nextId /\ keepFrom'[g] = i
      BY <1>4, <1>7, <2>7, <3>1 DEF TrimOf, Deleters
    <3>3. From(journal', i) = From(journal, i) \cup {r} /\ r \notin From(journal, i)
      BY <1>3, <1>7, <2>2, <3>2 DEF From
    <3>4. IsFiniteSet(From(journal, i)) /\ Cardinality(From(journal, i)) \in Nat
      BY <1>8, <3>2, Sizes
    <3>5. Cardinality(From(journal', i)) = Cardinality(From(journal, i)) + 1
      BY <3>3, <3>4, FS_AddElement
    <3>6. KeepsEnough(journal', i)
      <4>1. CASE Cardinality(From(journal, i)) >= KeepLast
        BY <3>4, <3>5, <4>1, KeepAssumption DEF KeepsEnough
      <4>2. CASE From(journal, i) = journal
        BY <2>2, <3>3, <4>2 DEF KeepsEnough
      <4> QED BY <2>7, <3>1, <4>1, <4>2 DEF TrimOf, KeepsEnough
    <3>7. Cardinality(From(journal', i)) <=
              KeepLast + Cardinality(Inserters') + Cardinality(Above(g)')
      BY <1>6, <2>4, <2>7, <3>1, <3>4, <3>5, Counts, KeepAssumption DEF TrimOf
    <3>8. i < nextId'
      BY <1>4, <1>7, <3>2
    <3> QED BY <3>2, <3>6, <3>7, <3>8 DEF TrimOf, KeepsEnough, From
  <2>8. ShortInv'
    BY <1>4, <1>6, <2>6, <2>7 DEF JInv, ShortInv, Clean, Trims
  <2> QED BY <1>1, <1>5, <2>1, <2>8 DEF JInv
<1>10. CASE kind[h] # "change"
  <2>1. kind[h] = "update" /\ journal' = journal
    BY <1>1, <1>4, <1>10 DEF Types, TypeOK
  <2>2. Snapshots'
    <3> SUFFICES ASSUME "update" \notin overlap, NEW g \in Handler, kind'[g] = "update", Past(g)'
                 PROVE  SnapshotOf(g)'
      BY <1>4 DEF Snapshots
    <3>1. g = h
      BY <1>2, <1>4, <2>1, UpdateAlone DEF JInv, Past
    <3>2. SnapshotOf(h)
      BY <1>4, <2>1 DEF JInv, Snapshots, Past
    <3> QED BY <1>3, <1>4, <2>1, <3>1, <3>2 DEF SnapshotOf
  <2>3. Inserters' = Inserters
    BY <1>2, <1>4, <1>10 DEF Inserters
  <2>4. Clean' = Clean /\ (Short => Short')
    BY <1>4, <1>6, <2>1, <2>3 DEF Clean, Short
  <2>5. ASSUME NEW g \in Deleters, TrimOf(g) PROVE TrimOf(g)'
    <3>1. From(journal', keepFrom'[g]) = From(journal, keepFrom[g])
      BY <1>4, <2>1
    <3>2. keepFrom[g] < nextId'
      BY <1>4, <1>7, <2>5 DEF TrimOf, Deleters
    <3> QED BY <1>4, <1>6, <2>1, <2>3, <2>5, <3>1, <3>2 DEF TrimOf, KeepsEnough, From
  <2>6. ShortInv'
    BY <1>6, <2>4, <2>5 DEF JInv, ShortInv, Trims
  <2> QED BY <1>1, <1>5, <2>2, <2>6 DEF JInv
<1> QED BY <1>9, <1>10

(* The last of the ids to keep is the highest that any handler has read. *)
LEMMA LastIdHighest ==
    ASSUME Types, journal # {}, NEW i \in Nat, KeepsEnough(journal, i)
    PROVE  i <= LastIdToKeep(journal)
<1>1. Table(journal)
  BY TablesAre
<1>2. PICK r \in journal : r.id = LastIdToKeep(journal)
  BY <1>1, LastIdKeeps
<1>3. r \in Newest(journal, KeepLast)
  <2> DEFINE kept == Newest(journal, KeepLast)
  <2>1. Table(kept) /\ kept \subseteq journal
    BY <1>1, SubTable DEF Newest
  <2>2. kept # {}
    <3>1. PICK q \in journal : \A t \in journal : q.id >= t.id
      BY <1>1, Ends
    <3>2. Newer(journal, q.id) = {}
      BY <1>1, <3>1, RowIds DEF Newer, Table
    <3>3. Cardinality(Newer(journal, q.id)) < KeepLast
      BY <3>2, FS_EmptySet, KeepAssumption
    <3> QED BY <3>3, NewestIs
  <2>3. Min({q.id : q \in kept}) \in {q.id : q \in kept}
    <3>1. {q.id : q \in kept} \in SUBSET Nat /\ IsFiniteSet({q.id : q \in kept})
      <4> HIDE DEF kept
      <4> QED BY <2>1, <2>2, Ends
    <3>2. {q.id : q \in kept} # {}
      BY <2>2
    <3> HIDE DEF kept
    <3> QED BY <3>1, <3>2, MinIs
  <2>4. PICK q \in kept : q.id = r.id
    BY <1>2, <2>3 DEF LastIdToKeep
  <2> QED BY <1>1, <1>2, <2>1, <2>4 DEF Table
<1>4. r.id \in Nat /\ Cardinality(Newer(journal, r.id)) < KeepLast
  BY <1>1, <1>2, <1>3, NewestIs, RowIds DEF Table
<1>5. SUFFICES ASSUME r.id < i PROVE FALSE
  BY <1>2, <1>4
<1>6. r \notin From(journal, i)
  BY <1>4, <1>5 DEF From
<1>7. Cardinality(From(journal, i)) >= KeepLast
  BY <1>6 DEF KeepsEnough
<1>8. From(journal, i) \subseteq Newer(journal, r.id)
  BY <1>1, <1>4, <1>5, RowIds DEF From, Newer, Table
<1>9. Cardinality(From(journal, i)) <= Cardinality(Newer(journal, r.id))
  BY <1>1, <1>4, <1>8, Sizes, FS_Subset
<1> QED BY <1>1, <1>4, <1>7, <1>9, Sizes, KeepAssumption

LEMMA ReadIdsJournal == ASSUME JInv, NEW h \in Handler, ReadIds(h) PROVE JInv'
<1>1. Types' /\ Types
  BY ReadIdsTypes DEF JInv
<1>2. /\ \A g \in Handler \ {h} :
            /\ pc'[g] = pc[g] /\ kind'[g] = kind[g] /\ new'[g] = new[g]
            /\ view'[g] = view[g] /\ keepFrom'[g] = keepFrom[g]
      /\ overlap \subseteq overlap' /\ (cut => cut')
  BY <1>1, OthersStay
<1>3. /\ pc[h] = "ids" /\ UNCHANGED <<journal, nextId, kind, new, view, cut, overlap>>
      /\ keepFrom'[h] = (IF Seen(h) = {} THEN 0 ELSE LastIdToKeep(Seen(h)))
      /\ pc'[h] = (IF Seen(h) = {} THEN "store" ELSE "delete")
  BY <1>1 DEF ReadIds, Goto, row, history, Types, TypeOK
<1>4. Overlapped' /\ Snapshots'
  BY <1>2, <1>3, OverlappedKept, SnapshotsKept DEF JInv, Past
<1>5. SnapshotKeeps'
  <2>1. kind[h] = "update" => Seen(h) = view[h] /\ view[h] # {}
    BY <1>1, <1>3 DEF Seen, Types, Tables
  <2> QED BY <1>2, <1>3, <2>1 DEF JInv, SnapshotKeeps
<1>6. CASE kind[h] # "change"
  <2>1. Inserters' = Inserters /\ Deleters' = Deleters /\ h \notin Deleters
    BY <1>2, <1>3, <1>6 DEF Inserters, Deleters
  <2>2. ShortInv'
    BY <1>2, <1>3, <2>1, ShortKept DEF JInv, Deleters
  <2> QED BY <1>1, <1>4, <1>5, <2>2 DEF JInv
<1>7. CASE kind[h] = "change"
  <2>1. Seen(h) = journal
    BY <1>7 DEF Seen
  <2>2. Inserters' = Inserters \ {h} /\ h \in Inserters /\ h \notin Deleters
    BY <1>2, <1>3, <1>7 DEF Inserters, Deleters
  <2>3. Cardinality(Inserters') = Cardinality(Inserters) - 1 /\ Cardinality(Inserters') \in Nat
    BY <2>2, Counts, FS_RemoveElement, FS_CardinalityType
  <2>4. Clean' = Clean
    BY <1>3 DEF Clean
  <2>5. Table(journal)
    BY <1>1, TablesAre
  <2>6. CASE journal = {}
    <3>1. Deleters' = Deleters
      BY <1>2, <1>3, <2>1, <2>6 DEF Deleters
    <3>2. \A g \in Deleters : Above(g)' = Above(g) /\ keepFrom'[g] = keepFrom[g]
      BY <1>2, <2>2, <3>1 DEF Above, Deleters
    <3>3. \A i : From(journal', i) = {} /\ From(journal, i) = {}
      BY <1>3, <2>6 DEF From
    <3>4. Cardinality(journal') = 0 /\ \A i : Cardinality(From(journal', i)) = 0
      BY <1>3, <2>6, <3>3, FS_EmptySet
    <3>5. Short'
      BY <2>3, <3>1, <3>4, Counts, KeepAssumption DEF Short
    <3>6. ASSUME NEW g \in Deleters, TrimOf(g) PROVE TrimOf(g)'
      <4>1. keepFrom'[g] < nextId'
        BY <1>3, <3>2, <3>6 DEF TrimOf
      <4>2. KeepsEnough(journal', keepFrom'[g])
        BY <1>3, <2>6, <3>3 DEF KeepsEnough
      <4>3. Cardinality(From(journal', keepFrom'[g])) <=
               KeepLast + Cardinality(Inserters') + Cardinality(Above(g)')
        BY <2>3, <3>2, <3>4, Counts, KeepAssumption
      <4> QED BY <4>1, <4>2, <4>3 DEF TrimOf, KeepsEnough, From
    <3>7. ShortInv'
      BY <2>4, <3>1, <3>5, <3>6 DEF JInv, ShortInv, Trims
    <3> QED BY <1>1, <1>4, <1>5, <3>7 DEF JInv
  <2>7. CASE journal # {}
    <3>1. PICK m : m = LastIdToKeep(journal)
      OBVIOUS
    <3>2. /\ \E r \in journal : r.id = m
          /\ Cardinality(From(journal, m)) <= KeepLast /\ KeepsEnough(journal, m)
      BY <2>5, <2>7, <3>1, LastIdKeeps
    <3>3. m \in Nat /\ m < nextId
      BY <1>1, <2>5, <3>2, RowIds DEF Types, TypeOK, Tables, Table, AllRows
    <3>4. keepFrom'[h] = m /\ Deleters' = Deleters \cup {h}
      BY <1>2, <1>3, <1>7, <2>1, <2>7, <3>1 DEF Deleters
    <3>5. Cardinality(Deleters') = Cardinality(Deleters) + 1
      BY <2>2, <3>4, Counts, FS_AddElement
    <3>6. ASSUME Short PROVE Short'
      BY <1>3, <2>3, <3>5, <3>6, Counts, KeepAssumption DEF Short
    <3>7. TrimOf(h)'
      <4>1. IsFiniteSet(Above(h)') /\ Cardinality(Above(h)') \in Nat
        <5>1. Above(h)' \subseteq Handler
          BY DEF Above, Deleters
        <5> QED BY <5>1, BoundAssumption, FS_Subset, FS_CardinalityType
      <4>2. Cardinality(From(journal, m)) \in Nat
        BY <2>5, <3>3, Sizes
      <4>3. Cardinality(From(journal, m)) <=
               KeepLast + Cardinality(Inserters') + Cardinality(Above(h)')
        BY <2>3, <3>2, <4>1, <4>2, KeepAssumption
      <4> QED BY <1>3, <3>2, <3>3, <3>4, <4>3 DEF TrimOf, KeepsEnough, From
    <3>8. ASSUME NEW g \in Deleters, TrimOf(g) PROVE TrimOf(g)'
      <4>1. PICK i : i = keepFrom[g]
        OBVIOUS
      <4>2. g \in Handler \ {h} /\ i \in Nat /\ keepFrom'[g] = i
        BY <1>1, <1>2, <2>2, <4>1, BoundAssumption DEF Deleters, Types, TypeOK
      <4>3. i <= m
        BY <1>1, <2>7, <3>1, <3>8, <4>1, <4>2, LastIdHighest DEF TrimOf
      <4>4. Cardinality(From(journal, i)) \in Nat /\ Cardinality(From(journal, m)) \in Nat
        BY <2>5, <3>3, <4>2, Sizes
      <4>5. \A f \in Deleters : keepFrom'[f] = keepFrom[f] /\ f # h
        BY <1>2, <2>2 DEF Deleters
      <4>6. Cardinality(From(journal, i)) <=
                KeepLast + Cardinality(Inserters') + Cardinality(Above(g)')
        <5>1. CASE i < m
          <6>1. Above(g)' = Above(g) \cup {h} /\ h \notin Above(g)
            BY <2>2, <3>4, <4>1, <4>2, <4>5, <5>1 DEF Above
          <6>2. Cardinality(Above(g)') = Cardinality(Above(g)) + 1
            BY <6>1, Counts, FS_AddElement
          <6> QED BY <2>3, <3>8, <4>1, <4>4, <6>2, Counts, KeepAssumption DEF TrimOf
        <5>2. CASE i = m
          <6>1. Above(g)' \subseteq Handler
            BY DEF Above, Deleters
          <6>2. Cardinality(Above(g)') \in Nat
            BY <6>1, BoundAssumption, FS_Subset, FS_CardinalityType
          <6> QED BY <2>3, <3>2, <4>4, <5>2, <6>2, KeepAssumption
        <5> QED BY <3>3, <4>2, <4>3, <5>1, <5>2
      <4> QED BY <1>3, <3>8, <4>1, <4>2, <4>6 DEF TrimOf, KeepsEnough, From
    <3>9. ShortInv'
      BY <2>4, <3>4, <3>6, <3>7, <3>8 DEF JInv, ShortInv, Trims
    <3> QED BY <1>1, <1>4, <1>5, <3>9 DEF JInv
  <2> QED BY <2>6, <2>7
<1> QED BY <1>6, <1>7

LEMMA FromTwice ==
    ASSUME NEW rows, Table(rows), NEW i \in Nat, NEW j \in Nat
    PROVE  From(From(rows, i), j) = From(rows, IF i <= j THEN j ELSE i)
BY RowIds DEF From, Table

LEMMA DeleteOlderJournal == ASSUME JInv, NEW h \in Handler, DeleteOlder(h) PROVE JInv'
<1>1. Types' /\ Types
  BY DeleteOlderTypes DEF JInv
<1>2. /\ \A g \in Handler \ {h} :
            /\ pc'[g] = pc[g] /\ kind'[g] = kind[g] /\ new'[g] = new[g]
            /\ view'[g] = view[g] /\ keepFrom'[g] = keepFrom[g]
      /\ overlap \subseteq overlap' /\ (cut => cut')
  BY <1>1, OthersStay
<1>3. /\ pc[h] = "delete" /\ pc'[h] = "store"
      /\ UNCHANGED <<nextId, kind, new, view, keepFrom, cut, overlap>>
      /\ journal' = IF kind[h] = "change" THEN From(journal, keepFrom[h]) ELSE journal
  BY <1>1 DEF DeleteOlder, Goto, history, Types, TypeOK, From
<1>4. Overlapped'
  BY <1>2, <1>3, OverlappedKept DEF JInv, Past
<1>5. SnapshotKeeps'
  BY <1>2, <1>3 DEF JInv, SnapshotKeeps
<1>6. Inserters' = Inserters
  BY <1>2, <1>3 DEF Inserters
<1>7. CASE kind[h] # "change"
  <2>1. Deleters' = Deleters /\ h \notin Deleters
    BY <1>2, <1>3, <1>7 DEF Deleters
  <2>2. ShortInv'
    BY <1>2, <1>3, <1>6, <1>7, <2>1, ShortKept DEF JInv, Deleters
  <2>3. Snapshots'
    BY <1>2, <1>3, <1>7, SnapshotsKept DEF JInv, Past
  <2> QED BY <1>1, <1>4, <1>5, <2>2, <2>3 DEF JInv
<1>8. CASE kind[h] = "change"
  <2>1. Snapshots'
    <3> SUFFICES ASSUME "update" \notin overlap, NEW g \in Handler, kind'[g] = "update", Past(g)'
                 PROVE  FALSE
      BY <1>3 DEF Snapshots
    <3> QED BY <1>2, <1>3, <1>8, UpdateAlone DEF JInv, Past
  <2>2. Deleters' = Deleters \ {h} /\ h \in Deleters
    BY <1>2, <1>3, <1>8 DEF Deleters
  <2>3. Cardinality(Deleters') = Cardinality(Deleters) - 1 /\ Cardinality(Deleters') \in Nat
    BY <2>2, Counts, FS_RemoveElement, FS_CardinalityType
  <2>4. PICK m : m = keepFrom[h]
    OBVIOUS
  <2>5. m \in Nat /\ \A g \in Handler : keepFrom[g] \in Nat
    BY <1>1, <2>4, BoundAssumption DEF Types, TypeOK
  <2>6. Table(journal) /\ journal' = From(journal, m)
    BY <1>1, <1>3, <1>8, <2>4, TablesAre
  <2>7. Cardinality(From(journal, m)) \in Nat
    BY <2>5, <2>6, Sizes
  <2>8. Clean' = Clean
    BY <1>3 DEF Clean
  <2>9. ASSUME TrimOf(h) PROVE Short'
    <3>1. Above(h) \subseteq Deleters'
      BY <2>2, <2>5 DEF Above
    <3>2. IsFiniteSet(Deleters')
      BY <2>2, Counts, FS_Subset
    <3>3. Cardinality(Above(h)) <= Cardinality(Deleters')
      BY <3>1, <3>2, FS_Subset
    <3>4. Cardinality(From(journal, m)) <= KeepLast + Cardinality(Inserters) + Cardinality(Above(h))
      BY <2>4, <2>9 DEF TrimOf
    <3> QED BY <1>6, <2>3, <2>6, <2>7, <3>3, <3>4, Counts, KeepAssumption DEF Short
  <2>10. ASSUME NEW g \in Deleters', TrimOf(g), TrimOf(h) PROVE TrimOf(g)'
    <3>1. PICK i : i = keepFrom[g]
      OBVIOUS
    <3>2. g \in Handler /\ g # h /\ i \in Nat /\ keepFrom'[g] = i /\ i < nextId'
      BY <1>3, <2>2, <2>5, <2>10, <3>1 DEF Deleters, TrimOf
    <3>3. Cardinality(From(journal, i)) \in Nat
      BY <2>6, <3>2, Sizes
    <3>4. IsFiniteSet(Above(g)') /\ Cardinality(Above(g)') \in Nat
      <4>1. Above(g)' \subseteq Handler
        BY DEF Above, Deleters
      <4> QED BY <4>1, BoundAssumption, FS_Subset, FS_CardinalityType
    <3>5. From(journal', i) = From(journal, IF m <= i THEN i ELSE m)
      BY <2>5, <2>6, <3>2, FromTwice
    <3>6. CASE m <= i
      <4>1. From(journal', i) = From(journal, i)
        BY <3>5, <3>6
      <4>2. Above(g)' = Above(g)
        BY <1>3, <2>2, <2>4, <2>5, <3>1, <3>2, <3>6 DEF Above
      <4>3. KeepsEnough(journal', i)
        <5>1. CASE Cardinality(From(journal, i)) >= KeepLast
          BY <4>1, <5>1 DEF KeepsEnough
        <5>2. CASE From(journal, i) = journal
          <6>1. journal' \subseteq journal /\ From(journal', i) \subseteq journal'
            BY <2>6 DEF From
          <6> QED BY <4>1, <5>2, <6>1 DEF KeepsEnough
        <5> QED BY <2>10, <3>1, <5>1, <5>2 DEF TrimOf, KeepsEnough
      <4>4. Cardinality(From(journal', i)) <=
                KeepLast + Cardinality(Inserters') + Cardinality(Above(g)')
        BY <1>6, <2>10, <3>1, <4>1, <4>2 DEF TrimOf
      <4> QED BY <3>2, <4>3, <4>4 DEF TrimOf, KeepsEnough, From
    <3>7. CASE i < m
      <4>1. From(journal', i) = journal'
        BY <2>5, <2>6, <3>2, <3>5, <3>7
      <4>2. KeepsEnough(journal', i)
        BY <4>1 DEF KeepsEnough
      <4>3. Above(h) \subseteq Above(g)'
        <5>1. \A f \in Deleters : keepFrom[f] \in Nat
          BY <2>5 DEF Deleters
        <5> QED BY <1>3, <2>2, <2>4, <2>5, <3>1, <3>2, <3>7, <5>1 DEF Above
      <4>4. Cardinality(Above(h)) <= Cardinality(Above(g)')
        BY <3>4, <4>3, FS_Subset
      <4>5. Cardinality(From(journal, m)) <=
                KeepLast + Cardinality(Inserters) + Cardinality(Above(h))
        BY <2>4, <2>10 DEF TrimOf
      <4>6. Cardinality(From(journal', i)) <=
                KeepLast + Cardinality(Inserters') + Cardinality(Above(g)')
        BY <1>6, <2>6, <2>7, <3>4, <4>1, <4>4, <4>5, Counts, KeepAssumption
      <4> QED BY <3>2, <4>2, <4>6 DEF TrimOf, KeepsEnough, From
    <3> QED BY <2>5, <3>2, <3>6, <3>7
  <2>11. ShortInv'
    BY <2>2, <2>8, <2>9, <2>10 DEF JInv, ShortInv, Trims
  <2> QED BY <1>1, <1>4, <1>5, <2>1, <2>11 DEF JInv
<1> QED BY <1>7, <1>8

LEMMA StoreJournal == ASSUME JInv, NEW h \in Handler, Store(h) PROVE JInv'
<1>1. Types' /\ Types
  BY StoreTypes DEF JInv
<1>2. /\ \A g \in Handler \ {h} :
            /\ pc'[g] = pc[g] /\ kind'[g] = kind[g] /\ new'[g] = new[g]
            /\ view'[g] = view[g] /\ keepFrom'[g] = keepFrom[g]
      /\ overlap \subseteq overlap' /\ (cut => cut')
  BY <1>1, OthersStay
<1>3. /\ pc[h] = "store" /\ pc'[h] = "idle" /\ kind' = kind
      /\ UNCHANGED <<nextId, cut, overlap>>
      /\ kind[h] = "change" => journal' = journal
  BY <1>1 DEF Store, Finish, history, Types, TypeOK
<1>4. Overlapped' /\ SnapshotKeeps' /\ (journal' = journal => Snapshots')
  BY <1>2, <1>3, FinishJournal
<1>5. Inserters' = Inserters /\ Deleters' = Deleters /\ h \notin Deleters
  BY <1>2, <1>3 DEF Inserters, Deleters
<1>6. CASE kind[h] = "change"
  <2>1. ShortInv'
    BY <1>2, <1>3, <1>5, <1>6, ShortKept DEF JInv, Deleters
  <2> QED BY <1>1, <1>3, <1>4, <1>6, <2>1 DEF JInv
<1>7. CASE kind[h] # "change"
  <2>1. kind[h] = "update"
    BY <1>1, <1>7 DEF Types, TypeOK
  <2>2. "update" \notin overlap => \A g \in Handler \ {h} : ~Past(g)
    BY <1>3, <2>1, UpdateAlone DEF JInv, Past
  <2>3. Snapshots'
    BY <1>2, <1>3, <2>2 DEF Snapshots, Past
  <2>4. ShortInv'
    <3> SUFFICES ASSUME Clean PROVE Short' /\ Trims'
      BY <1>3 DEF ShortInv, Clean
    <3>1. Inserters' = {} /\ Deleters' = {}
      BY <1>3, <1>5, <2>1, <2>2 DEF Clean, Past, Inserters, Deleters
    <3>2. view[h] # {} /\ Table(view[h])
      BY <1>1, <1>3, TablesAre DEF Types, Tables
    <3>3. PICK m : m = keepFrom[h]
      OBVIOUS
    <3>4. m = LastIdToKeep(view[h]) /\ m \in Nat
      BY <1>1, <1>3, <2>1, <3>3, BoundAssumption DEF JInv, SnapshotKeeps, Types, TypeOK
    <3>5. journal \subseteq view[h]
      BY <1>3, <2>1 DEF JInv, Clean, Snapshots, SnapshotOf, Past
    <3>6. journal' \subseteq From(view[h], m)
      BY <1>7, <3>3, <3>5 DEF Store, From
    <3>7. Cardinality(From(view[h], m)) <= KeepLast
      BY <3>2, <3>4, LastIdKeeps
    <3>8. Cardinality(journal') <= Cardinality(From(view[h], m)) /\ Cardinality(journal') \in Nat
      BY <3>2, <3>4, <3>6, Sizes, FS_Subset, FS_CardinalityType
    <3>9. Cardinality(journal') <= KeepLast
      BY <3>2, <3>4, <3>7, <3>8, Sizes, KeepAssumption
    <3>10. Cardinality(Inserters') = 0 /\ Cardinality(Deleters') = 0
      BY <3>1, FS_EmptySet
    <3>11. Short'
      BY <3>8, <3>9, <3>10, KeepAssumption DEF Short
    <3>12. Trims'
      BY <3>1 DEF Trims
    <3> QED BY <3>11, <3>12
  <2> QED BY <1>1, <1>4, <2>3, <2>4 DEF JInv
<1> QED BY <1>6, <1>7

LEMMA AbortJournal == ASSUME JInv, NEW h \in Handler, Abort(h) PROVE JInv'
<1>1. Types' /\ Types
  BY AbortTypes DEF JInv
<1>2. /\ \A g \in Handler \ {h} :
            /\ pc'[g] = pc[g] /\ kind'[g] = kind[g] /\ new'[g] = new[g]
            /\ view'[g] = view[g] /\ keepFrom'[g] = keepFrom[g]
      /\ overlap \subseteq overlap' /\ (cut => cut')
  BY <1>1, OthersStay
<1>3. /\ pc'[h] = "idle" /\ UNCHANGED <<journal, nextId, kind, overlap>>
      /\ kind[h] = "change" /\ pc[h] \in {"ids", "delete", "store"} => cut'
  BY <1>1 DEF Abort, Finish, row, Types, TypeOK
<1>4. Overlapped' /\ SnapshotKeeps' /\ Snapshots'
  BY <1>2, <1>3, FinishJournal
<1>5. ShortInv'
  <2>1. CASE kind[h] = "change" /\ pc[h] \in {"ids", "delete", "store"}
    BY <1>3, <2>1 DEF ShortInv, Clean
  <2>2. CASE ~(kind[h] = "change" /\ pc[h] \in {"ids", "delete", "store"})
    <3>1. Inserters' = Inserters /\ Deleters' = Deleters /\ h \notin Deleters
      BY <1>2, <1>3, <2>2 DEF Inserters, Deleters
    <3> QED BY <1>2, <1>3, <3>1, ShortKept DEF JInv, Deleters
  <2> QED BY <2>1, <2>2
<1> QED BY <1>1, <1>4, <1>5 DEF JInv

LEMMA StutterJournal == ASSUME JInv, UNCHANGED vars PROVE JInv'
<1>1. UNCHANGED <<current, journal, nextId, pc, kind, new, view, keepFrom, used, cut, overlap>>
  BY DEF vars, row, local, history
<1>2. Types'
  BY StutterTypes DEF JInv
<1>3. Overlapped' /\ SnapshotKeeps' /\ Snapshots'
  BY <1>1 DEF JInv, Overlapped, SnapshotKeeps, Snapshots, SnapshotOf, Past
<1>4. ShortInv'
  BY <1>1 DEF JInv, ShortInv, Clean, Short, Trims, TrimOf, KeepsEnough, From, Inserters,
     Deleters, Above
<1> QED BY <1>2, <1>3, <1>4 DEF JInv

LEMMA NextJournal == ASSUME JInv, [Next]_vars PROVE JInv'
BY BeginJournal, ReadLastJournal, InsertJournal, ReadIdsJournal, DeleteOlderJournal,
   StoreJournal, AbortJournal, StutterJournal DEF Next

LEMMA JournalHolds == Spec => []JInv
BY InitJournal, NextJournal, PTL DEF Spec

(* keepLastNPasswords keeps the journal short however changes overlap: no   *)
(* more than KeepLast rows and one per change that has inserted its row and *)
(* not deleted yet, unless a change was cut off or an update overlapped.    *)
THEOREM ShortJournal == Spec => []JournalShort
BY JournalHolds, ShortIs, PTL

-----------------------------------------------------------------------------
\* What the journal tells of the passwords in effect

Wrote(h) == pc[h] \in {"ids", "delete", "store"}

LastOf(u, n) == {u[i] : i \in {j \in DOMAIN u : j > Len(u) - n}}

(* The newest n rows have the last n passwords in effect. *)
Tells(u, rows) == \A n \in 1..KeepLast : \A p \in LastOf(u, n) :
                      \E r \in Newest(rows, n) : r.value = p

Precise == ~cut /\ overlap = {}

UsedInv == used # <<>> /\ used[Len(used)] = current

(* Neither NoReuse nor JournalTellsCurrent follows from itself: the newest   *)
(* row alone says nothing of the last KeepLast passwords, and what a handler *)
(* read is only as good at its store as nobody else's row is newer.          *)
Told == Precise =>
    /\ (\A h \in Handler : ~(kind[h] = "change" /\ Wrote(h))) => Tells(used, journal)
    /\ \A h \in Handler : Wrote(h) => Tells(Append(used, new[h]), Seen(h))
    /\ \A h \in Handler : Past(h) => new[h] \notin LastOf(used, KeepLast)

TellInv == JInv /\ UsedInv /\ Told

LEMMA ToldPrimed ==
    /\ Tells(used, journal)' = Tells(used', journal')
    /\ \A h \in Handler : Tells(Append(used, new[h]), Seen(h))' = Tells(Append(used', new'[h]), Seen(h)')
    /\ LastOf(used, KeepLast)' = LastOf(used', KeepLast)
BY DEF Tells, LastOf, Newest, Seen

LEMMA LastAppended ==
    ASSUME NEW u \in Seq(Password), NEW p \in Password, NEW n \in Nat \ {0}
    PROVE  LastOf(Append(u, p), n) \subseteq {p} \cup LastOf(u, n - 1)
<1> SUFFICES ASSUME NEW i \in DOMAIN Append(u, p), i > Len(u) + 1 - n
             PROVE  Append(u, p)[i] \in {p} \cup LastOf(u, n - 1)
  BY DEF LastOf
<1>1. i \in 1..Len(u) + 1 /\ Len(u) \in Nat
  OBVIOUS
<1>2. CASE i = Len(u) + 1
  BY <1>1, <1>2
<1>3. CASE i # Len(u) + 1
  <2>1. i \in DOMAIN u /\ i > Len(u) - (n - 1) /\ Append(u, p)[i] = u[i]
    BY <1>1, <1>3
  <2> QED BY <2>1 DEF LastOf
<1> QED BY <1>2, <1>3

LEMMA TellsAdded ==
    ASSUME NEW rows, Table(rows), NEW u \in Seq(Password), Tells(u, rows),
           NEW r \in Row, \A s \in rows : s.id < r.id
    PROVE  Tells(Append(u, r.value), rows \cup {r})
<1> SUFFICES ASSUME NEW n \in 1..KeepLast, NEW p \in LastOf(Append(u, r.value), n)
             PROVE  \E s \in Newest(rows \cup {r}, n) : s.value = p
  BY DEF Tells
<1>1. n \in Nat \ {0} /\ (n = 1 \/ n - 1 \in 1..KeepLast)
  BY KeepAssumption
<1>2. p = r.value \/ p \in LastOf(u, n - 1)
  BY <1>1, RowIds, LastAppended
<1>3. r \in Newest(rows \cup {r}, n) /\ Newest(rows, n - 1) \subseteq Newest(rows \cup {r}, n)
  BY <1>1, NewestAdded
<1>4. CASE p \in LastOf(u, n - 1)
  <2>1. LastOf(u, 0) = {}
    BY DEF LastOf
  <2>2. n - 1 \in 1..KeepLast
    BY <1>1, <1>4, <2>1
  <2>3. PICK s \in Newest(rows, n - 1) : s.value = p
    BY <1>4, <2>2 DEF Tells
  <2> QED BY <1>3, <2>3
<1> QED BY <1>2, <1>3, <1>4

LEMMA TellsKept ==
    ASSUME NEW rows, Table(rows), NEW u, Tells(u, rows), NEW i \in Nat, KeepsEnough(rows, i)
    PROVE  Tells(u, From(rows, i))
BY NewestKept DEF Tells

(* While nothing has overlapped, one handler at most has compared. *)
LEMMA Alone ==
    ASSUME Overlapped, overlap = {}, NEW g \in Handler, NEW h \in Handler, Past(g), Past(h)
    PROVE  g = h
BY DEF Overlapped

(* A step that changes neither the journal nor the passwords in effect. *)
LEMMA ToldKept ==
    ASSUME Told, journal' = journal, used' = used, overlap \subseteq overlap', cut => cut',
           Precise' => \A g \in Handler : Wrote(g) /\ kind[g] = "change" =>
                           Wrote(g)' /\ kind'[g] = "change",
           \A g \in Handler : Wrote(g)' => /\ Wrote(g) /\ kind'[g] = kind[g]
                                           /\ view'[g] = view[g] /\ new'[g] = new[g],
           \A g \in Handler : Past(g)' => Past(g) /\ new'[g] = new[g]
    PROVE  Told'
<1> SUFFICES ASSUME Precise' PROVE Told'
  BY DEF Told
<1>1. Precise
  BY DEF Precise
<1>2. (\A h \in Handler : ~(kind[h] = "change" /\ Wrote(h)))' => Tells(used, journal)'
  BY <1>1, ToldPrimed DEF Told
<1>3. \A h \in Handler : Wrote(h)' => Seen(h)' = Seen(h)
  BY DEF Seen
<1>4. \A h \in Handler : Wrote(h)' => Tells(Append(used, new[h]), Seen(h))'
  BY <1>1, <1>3, ToldPrimed DEF Told
<1>5. \A h \in Handler : Past(h)' => new'[h] \notin LastOf(used, KeepLast)'
  BY <1>1, ToldPrimed DEF Told
<1> QED BY <1>2, <1>4, <1>5 DEF Told

LEMMA InitTold == Init => TellInv
<1> SUFFICES ASSUME Init PROVE TellInv
  OBVIOUS
<1>1. JInv
  BY InitJournal
<1>2. PICK r : journal = {r} /\ r.value = current
  <2>1. PICK r : r = [id |-> 1, value |-> current]
    OBVIOUS
  <2>2. r.value = current
    BY <2>1
  <2>3. journal = {r}
    BY <2>1, Zenon DEF Init
  <2> QED BY <2>2, <2>3
<1>3. used = <<current>> /\ \A h \in Handler : pc[h] = "idle"
  BY DEF Init
<1>4. ASSUME NEW n \in 1..KeepLast PROVE r \in Newest(journal, n)
  <2>1. {s \in journal : s.id > r.id} = {}
    <3>1. r.id \in Nat
      BY <1>1, <1>2, RowIds DEF JInv, Types, TypeOK
    <3> QED BY <1>2, <3>1
  <2>2. Cardinality({s \in journal : s.id > r.id}) < n
    BY <2>1, FS_EmptySet, KeepAssumption
  <2> QED BY <1>2, <2>2 DEF Newest
<1>5. Tells(used, journal)
  <2>1. \A n : \A p \in LastOf(used, n) : p = current
    BY <1>3 DEF LastOf
  <2> QED BY <1>2, <1>4, <2>1 DEF Tells
<1>6. UsedInv
  BY <1>3 DEF UsedInv
<1>7. Told
  BY <1>3, <1>5 DEF Told, Wrote, Past
<1> QED BY <1>1, <1>6, <1>7 DEF TellInv

LEMMA BeginTold == ASSUME TellInv, NEW h \in Handler, Begin(h) PROVE TellInv'
<1>1. JInv' /\ JInv /\ Types
  BY BeginJournal DEF TellInv, JInv
<1>2. \A g \in Handler \ {h} : /\ pc'[g] = pc[g] /\ kind'[g] = kind[g]
                               /\ new'[g] = new[g] /\ view'[g] = view[g]
  BY <1>1, OthersStay
<1>3. pc[h] = "idle" /\ pc'[h] = "read" /\ UNCHANGED <<current, journal, used, cut, overlap>>
  BY <1>1 DEF Begin, row, history, Types, TypeOK
<1>4. Told'
  BY <1>2, <1>3, ToldKept DEF TellInv, Wrote, Past
<1> QED BY <1>1, <1>3, <1>4 DEF TellInv, UsedInv

(* A handler that ends before it has written, or is cut off. *)
LEMMA FinishTold ==
    ASSUME TellInv, NEW h \in Handler, Finish(h), UNCHANGED <<journal, used>>,
           overlap \subseteq overlap', cut => cut',
           kind[h] = "change" /\ Wrote(h) => cut'
    PROVE  Told'
<1>1. Types
  BY DEF TellInv, JInv
<1>2. \A g \in Handler \ {h} : /\ pc'[g] = pc[g] /\ kind'[g] = kind[g]
                               /\ new'[g] = new[g] /\ view'[g] = view[g]
  BY <1>1 DEF Finish, Types, TypeOK
<1>3. pc'[h] = "idle"
  BY <1>1 DEF Finish, Types, TypeOK
<1>4. ~Wrote(h)' /\ ~Past(h)'
  BY <1>3 DEF Wrote, Past
<1>5. Precise' => ~(kind[h] = "change" /\ Wrote(h))
  BY DEF Precise
<1> QED BY <1>2, <1>4, <1>5, ToldKept DEF TellInv, Wrote, Past

LEMMA ReadLastTold == ASSUME TellInv, NEW h \in Handler, ReadLast(h) PROVE TellInv'
<1>1. JInv' /\ JInv /\ Types
  BY ReadLastJournal DEF TellInv, JInv
<1>2. /\ \A g \in Handler \ {h} : /\ pc'[g] = pc[g] /\ kind'[g] = kind[g]
                                  /\ new'[g] = new[g] /\ view'[g] = view[g]
      /\ overlap \subseteq overlap' /\ (cut => cut')
  BY <1>1, OthersStay
<1>3. pc[h] = "read" /\ UNCHANGED <<current, journal, used, cut>>
  BY DEF ReadLast, row
<1>4. UsedInv'
  BY <1>3 DEF TellInv, UsedInv
<1>5. CASE Finish(h)
  BY <1>1, <1>2, <1>3, <1>4, <1>5, FinishTold DEF TellInv, Wrote
<1>6. CASE ~Finish(h)
  <2>1. /\ pc'[h] = "insert" /\ new'[h] = new[h]
        /\ ~ \E r \in Newest(journal, KeepLast) : r.value = new[h]
    BY <1>1, <1>6 DEF ReadLast, Goto, Types, TypeOK
  <2> SUFFICES ASSUME Precise' PROVE Told'
    BY <1>1, <1>4 DEF TellInv, Told
  <2>2. Precise
    BY <1>2 DEF Precise
  <2>3. \A g \in Handler \ {h} : ~Past(g)
    BY <1>1, <1>2, <2>1, Alone DEF JInv, Precise, Past, Overlapped
  <2>4. \A g \in Handler : ~Wrote(g)
    BY <1>3, <2>3 DEF Wrote, Past
  <2>5. Tells(used, journal)
    BY <2>2, <2>4 DEF TellInv, Told
  <2>6. new[h] \notin LastOf(used, KeepLast)
    <3>1. KeepLast \in 1..KeepLast
      BY KeepAssumption
    <3> QED BY <2>1, <2>5, <3>1 DEF Tells
  <2>7. Tells(used, journal)' /\ LastOf(used, KeepLast)' = LastOf(used, KeepLast)
    BY <1>3, <2>5, ToldPrimed
  <2>8. \A g \in Handler : ~Wrote(g)'
    BY <1>2, <2>1, <2>4 DEF Wrote
  <2>9. \A g \in Handler : Past(g)' => new'[g] \notin LastOf(used, KeepLast)'
    BY <1>2, <2>1, <2>3, <2>6, <2>7 DEF Past
  <2> QED BY <2>7, <2>8, <2>9 DEF Told
<1> QED BY <1>5, <1>6

LEMMA InsertTold == ASSUME TellInv, NEW h \in Handler, Insert(h) PROVE TellInv'
<1>1. JInv' /\ JInv /\ Types /\ Types'
  BY InsertJournal DEF TellInv, JInv
<1>2. \A g \in Handler \ {h} : /\ pc'[g] = pc[g] /\ kind'[g] = kind[g]
                               /\ new'[g] = new[g] /\ view'[g] = view[g]
  BY <1>1, OthersStay
<1>3. PICK r \in Row : r = [id |-> nextId, value |-> new[h]] /\ r.id = nextId /\ r.value = new[h]
  BY <1>1, InsertTypes
<1>4. /\ pc[h] = "insert" /\ pc'[h] = "ids"
      /\ kind'[h] = kind[h] /\ new'[h] = new[h] /\ view'[h] = view[h] \cup {r}
      /\ journal' = IF kind[h] = "change" THEN journal \cup {r} ELSE journal
      /\ UNCHANGED <<current, used, cut, overlap>>
  BY <1>1, <1>3 DEF Insert, Goto, Types, TypeOK, history
<1>5. UsedInv'
  BY <1>4 DEF TellInv, UsedInv
<1> SUFFICES ASSUME Precise' PROVE Told'
  BY <1>1, <1>5 DEF TellInv, Told
<1>6. Precise /\ overlap = {}
  BY <1>4 DEF Precise
<1>7. \A g \in Handler \ {h} : ~Past(g)
  BY <1>1, <1>4, <1>6, Alone DEF JInv, Past
<1>8. \A g \in Handler : ~Wrote(g)
  BY <1>4, <1>7 DEF Wrote, Past
<1>9. Tells(used, journal) /\ new[h] \notin LastOf(used, KeepLast)
  BY <1>4, <1>6, <1>8 DEF TellInv, Told, Past
<1>10. Tells(Append(used, new[h]), journal \cup {r})
  <2>1. Table(journal) /\ \A s \in journal : s.id < r.id
    BY <1>1, <1>3, TablesAre DEF Types, TypeOK, Tables, AllRows
  <2>2. used \in Seq(Password)
    BY <1>1 DEF Types, TypeOK
  <2> QED BY <1>3, <1>9, <2>1, <2>2, TellsAdded
<1>11. Seen(h)' = journal \cup {r}
  <2>1. CASE kind[h] = "change"
    BY <1>4, <2>1 DEF Seen
  <2>2. CASE kind[h] = "update"
    <3>1. view[h] = journal
      BY <1>1, <1>4, <1>6, <2>2 DEF JInv, Snapshots, SnapshotOf, Past
    <3> QED BY <1>4, <2>2, <3>1 DEF Seen
  <2> QED BY <1>1, <2>1, <2>2 DEF Types, TypeOK
<1>12. Tells(Append(used, new[h]), Seen(h))'
  BY <1>4, <1>10, <1>11, ToldPrimed
<1>13. \A g \in Handler : Wrote(g)' \/ Past(g)' => g = h
  BY <1>2, <1>7 DEF Wrote, Past
<1>14. new'[h] \notin LastOf(used, KeepLast)'
  BY <1>4, <1>9, ToldPrimed
<1>15. (\A g \in Handler : ~(kind[g] = "change" /\ Wrote(g)))' => Tells(used, journal)'
  <2>1. Wrote(h)'
    BY <1>4 DEF Wrote
  <2> QED BY <1>4, <1>9, <2>1, ToldPrimed
<1> QED BY <1>12, <1>13, <1>14, <1>15 DEF Told

LEMMA ReadIdsTold == ASSUME TellInv, NEW h \in Handler, ReadIds(h) PROVE TellInv'
<1>1. JInv' /\ JInv /\ Types
  BY ReadIdsJournal DEF TellInv, JInv
<1>2. \A g \in Handler \ {h} : pc'[g] = pc[g]
  BY <1>1, OthersStay
<1>3. /\ pc[h] = "ids" /\ pc'[h] \in {"delete", "store"}
      /\ UNCHANGED <<current, journal, kind, new, view, used, cut, overlap>>
  BY <1>1 DEF ReadIds, Goto, row, history, Types, TypeOK
<1>4. Told'
  <2>1. \A g \in Handler : (Wrote(g)' <=> Wrote(g)) /\ (Past(g)' <=> Past(g))
    BY <1>2, <1>3 DEF Wrote, Past
  <2> QED BY <1>3, <2>1, ToldKept DEF TellInv
<1> QED BY <1>1, <1>3, <1>4 DEF TellInv, UsedInv

LEMMA DeleteOlderTold == ASSUME TellInv, NEW h \in Handler, DeleteOlder(h) PROVE TellInv'
<1>1. JInv' /\ JInv /\ Types
  BY DeleteOlderJournal DEF TellInv, JInv
<1>2. \A g \in Handler \ {h} : pc'[g] = pc[g]
  BY <1>1, OthersStay
<1>3. /\ pc[h] = "delete" /\ pc'[h] = "store"
      /\ UNCHANGED <<current, kind, new, view, used, cut, overlap>>
      /\ journal' = IF kind[h] = "change" THEN From(journal, keepFrom[h]) ELSE journal
  BY <1>1 DEF DeleteOlder, Goto, history, Types, TypeOK, From
<1>4. UsedInv'
  BY <1>3 DEF TellInv, UsedInv
<1>5. \A g \in Handler : (Wrote(g)' <=> Wrote(g)) /\ (Past(g)' <=> Past(g))
  BY <1>2, <1>3 DEF Wrote, Past
<1>6. CASE kind[h] # "change"
  <2>1. Told'
    BY <1>3, <1>5, <1>6, ToldKept DEF TellInv
  <2> QED BY <1>1, <1>4, <2>1 DEF TellInv
<1>7. CASE kind[h] = "change"
  <2> SUFFICES ASSUME Precise' PROVE Told'
    BY <1>1, <1>4 DEF TellInv, Told
  <2>1. Precise /\ overlap = {}
    BY <1>3 DEF Precise
  <2>2. Wrote(h) /\ Past(h)
    BY <1>3 DEF Wrote, Past
  <2>3. \A g \in Handler : Wrote(g) \/ Past(g) => g = h
    BY <1>1, <2>1, <2>2, Alone DEF JInv, Wrote, Past
  <2>4. KeepsEnough(journal, keepFrom[h])
    BY <1>1, <1>3, <1>7, <2>1 DEF JInv, ShortInv, Clean, Precise, Trims, TrimOf, Deleters
  <2>5. keepFrom[h] \in Nat /\ Table(journal)
    BY <1>1, TablesAre, BoundAssumption DEF Types, TypeOK
  <2>6. Tells(Append(used, new[h]), journal)
    BY <1>7, <2>1, <2>2 DEF TellInv, Told, Seen
  <2>7. Tells(Append(used, new[h]), journal')
    BY <1>3, <1>7, <2>4, <2>5, <2>6, TellsKept
  <2>8. Tells(Append(used, new[h]), Seen(h))'
    <3>1. Seen(h)' = journal'
      BY <1>3, <1>7 DEF Seen
    <3> QED BY <1>3, <2>7, <3>1, ToldPrimed
  <2>9. new'[h] \notin LastOf(used, KeepLast)'
    BY <1>3, <2>1, <2>2, ToldPrimed DEF TellInv, Told
  <2>10. \E g \in Handler : kind'[g] = "change" /\ Wrote(g)'
    BY <1>3, <1>5, <1>7, <2>2
  <2> QED BY <1>5, <2>3, <2>8, <2>9, <2>10 DEF Told
<1> QED BY <1>6, <1>7

LEMMA StoreTold == ASSUME TellInv, NEW h \in Handler, Store(h) PROVE TellInv'
<1>1. JInv' /\ JInv /\ Types
  BY StoreJournal DEF TellInv, JInv
<1>2. \A g \in Handler \ {h} : pc'[g] = pc[g]
  BY <1>1, OthersStay
<1>3. /\ pc[h] = "store" /\ pc'[h] = "idle" /\ UNCHANGED <<cut, overlap>>
      /\ current' = new[h] /\ used' = Append(used, new[h])
  BY <1>1 DEF Store, Finish, history, Types, TypeOK
<1>4. used \in Seq(Password) /\ new[h] \in Password
  BY <1>1, <1>3 DEF Types, TypeOK, Sent, Busy
<1>5. UsedInv'
  BY <1>3, <1>4 DEF UsedInv
<1> SUFFICES ASSUME Precise' PROVE Told'
  BY <1>1, <1>5 DEF TellInv, Told
<1>6. Precise /\ overlap = {} /\ "update" \notin overlap
  BY <1>3 DEF Precise
<1>7. Wrote(h) /\ Past(h)
  BY <1>3 DEF Wrote, Past
<1>8. \A g \in Handler : ~Wrote(g)' /\ ~Past(g)'
  <2>1. \A g \in Handler : Past(g) => g = h
    BY <1>1, <1>6, <1>7, Alone DEF JInv
  <2> QED BY <1>2, <1>3, <2>1 DEF Wrote, Past
<1>9. Tells(used', Seen(h))
  BY <1>3, <1>6, <1>7 DEF TellInv, Told
<1>10. Tells(used', journal')
  <2>1. CASE kind[h] = "change"
    BY <1>9, <2>1 DEF Seen, Store
  <2>2. CASE kind[h] = "update"
    <3>1. SnapshotOf(h)
      BY <1>1, <1>6, <1>7, <2>2 DEF JInv, Snapshots
    <3>2. PICK m : m = keepFrom[h]
      OBVIOUS
    <3>3. journal' = {r \in journal \cup {s \in view[h] : s.value = new[h] /\ s.id >= m} : r.id >= m}
      BY <2>2, <3>2 DEF Store
    <3>4. journal' = From(view[h], m)
      BY <3>1, <3>3 DEF SnapshotOf, From
    <3>5. view[h] # {} /\ Table(view[h])
      BY <1>1, <1>3, TablesAre DEF Types, Tables
    <3>6. m = LastIdToKeep(view[h]) /\ m \in Nat
      BY <1>1, <1>3, <2>2, <3>2, BoundAssumption DEF JInv, SnapshotKeeps, Types, TypeOK
    <3>7. KeepsEnough(view[h], m)
      BY <3>5, <3>6, LastIdKeeps
    <3>8. Tells(used', view[h])
      BY <1>9, <2>2 DEF Seen
    <3> QED BY <3>4, <3>5, <3>6, <3>7, <3>8, TellsKept
  <2> QED BY <1>1, <2>1, <2>2 DEF Types, TypeOK
<1> QED BY <1>8, <1>10, ToldPrimed DEF Told

LEMMA AbortTold == ASSUME TellInv, NEW h \in Handler, Abort(h) PROVE TellInv'
<1>1. JInv'
  BY AbortJournal DEF TellInv
<1>2. /\ Finish(h) /\ UNCHANGED <<current, journal, used, overlap>>
      /\ (cut => cut') /\ (kind[h] = "change" /\ Wrote(h) => cut')
  BY DEF Abort, row, Wrote
<1>3. Told'
  BY <1>2, FinishTold
<1> QED BY <1>1, <1>2, <1>3 DEF TellInv, UsedInv

LEMMA StutterTold == ASSUME TellInv, UNCHANGED vars PROVE TellInv'
<1>1. UNCHANGED <<current, journal, pc, kind, new, view, used, cut, overlap>>
  BY DEF vars, row, local, history
<1>2. JInv'
  BY StutterJournal DEF TellInv
<1>3. Told'
  BY <1>1, ToldKept DEF TellInv, Wrote, Past
<1> QED BY <1>1, <1>2, <1>3 DEF TellInv, UsedInv

LEMMA NextTold == ASSUME TellInv, [Next]_vars PROVE TellInv'
BY BeginTold, ReadLastTold, InsertTold, ReadIdsTold, DeleteOlderTold, StoreTold,
   AbortTold, StutterTold DEF Next

LEMMA ToldHolds == Spec => []TellInv
BY InitTold, NextTold, PTL DEF Spec

(* The newest row of the journal is the password in effect whenever no      *)
(* change is between its insert and its store, as long as none was cut off  *)
(* there and none compared while another was about to store.                *)
THEOREM TellsCurrent == Spec => []JournalTellsCurrent
<1>1. TellInv => JournalTellsCurrent
  <2> SUFFICES ASSUME TellInv, Precise,
                      \A h \in Busy : kind[h] = "update" \/ pc[h] \in {"read", "insert"}
               PROVE  \E r \in Newest(journal, 1) : r.value = current
    BY DEF JournalTellsCurrent, Precise
  <2>1. Tells(used, journal)
    BY DEF TellInv, Told, Wrote, Busy
  <2>2. current \in LastOf(used, 1)
    <3>1. used \in Seq(Password) /\ used # <<>>
      BY DEF TellInv, JInv, Types, TypeOK, UsedInv
    <3>2. Len(used) \in DOMAIN used /\ Len(used) > Len(used) - 1
      BY <3>1
    <3> QED BY <3>2 DEF LastOf, TellInv, UsedInv
  <2>3. 1 \in 1..KeepLast
    BY KeepAssumption
  <2> QED BY <2>1, <2>2, <2>3 DEF Tells
<1> QED BY <1>1, ToldHolds, PTL

(* A password that takes effect is none of the last KeepLast in effect,     *)
(* whichever of the two ways led to them, on the same condition.            *)
THEOREM NeverReused == Spec => NoReuse
<1>1. ASSUME TellInv, [Next]_vars
      PROVE  [used' # used /\ ~cut /\ overlap = {} => current' \notin LastUsed]_vars
  <2> SUFFICES ASSUME Next, used' # used, Precise PROVE current' \notin LastUsed
    BY <1>1 DEF Precise
  <2>1. PICK h \in Handler : Store(h)
    <3>1. ASSUME NEW h \in Handler,
                 \/ Begin(h) \/ ReadLast(h) \/ Insert(h) \/ ReadIds(h)
                 \/ DeleteOlder(h) \/ Abort(h)
          PROVE  used' = used
      BY <3>1 DEF Begin, ReadLast, Insert, ReadIds, DeleteOlder, Abort
    <3> QED BY <3>1 DEF Next
  <2>2. Past(h) /\ current' = new[h]
    BY <2>1 DEF Store, Past
  <2>3. new[h] \notin LastOf(used, KeepLast)
    BY <1>1, <2>2 DEF TellInv, Told
  <2> QED BY <2>2, <2>3 DEF LastUsed, LastOf
<1> QED BY <1>1, ToldHolds, PTL DEF Spec, NoReuse
=============================================================================
