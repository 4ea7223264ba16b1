---------------------------- MODULE AdminsProofs -----------------------------
(* Proofs about Admins: types, confinement, no lock-out, patches. *)
EXTENDS Admins, TLAPS

Writers == {"admin", "system", "reseller"}

(* What a row may do was some account's to do at the start. *)
Granted(row) == \A other \in Row : Rules(row, other) => \E b \in Id : Rules(first[b], other)

Ruled(row) == \E b \in Id : Rules(first[b], row)

RuledAtFirst(a) == first[a] # None => Ruled(first[a])

(* Rows, and the copies that requests work with, confer nothing new. *)
Powers ==
    /\ \A a \in Id : Granted(admins[a])
    /\ \A h \in Handler : pc[h] = "read" =>
         /\ user[h].row \in Row
         /\ user[h].row.role \in Writers
         /\ Granted(user[h].row)
    /\ \A h \in Handler : pc[h] = "write" =>
         /\ op[h] # "delete" => entity[h] \in Row /\ Granted(entity[h]) /\ Ruled(entity[h])
         /\ op[h] = "create" => target[h] = {}
         /\ \A a \in target[h] : RuledAtFirst(a)

(* The actor as the rows have him now. *)
ActorNow(h) == [id |-> user[h].id, row |-> admins[user[h].id]]

UsableWriter(row) == row \in Row /\ row.active /\ row.role \in Writers

(* A row that replaces its own actor's leaves him what he can do. *)
KeepsPowers(old, row) ==
    /\ row \in Row
    /\ \A f \in {"role", "master", "active"} : row[f] = old[f]
    /\ old.role = "reseller" => row.reseller = old.reseller

(* What a patch will write is what it names, and what the row has. *)
PatchUpToDate(h) ==
    op[h] = "adjust" =>
        \A a \in target[h], f \in Field \ {field[h]} :
            Updated(admins[a], entity[h])[f] = Kept(h, a, f)

(* While nothing has been written since a request was authenticated, what it *)
(* read is what there is, and what it will write obeys the rules by that.    *)
UpToDate ==
    \A h \in Handler : h \notin stale =>
        /\ pc[h] = "read" =>
             /\ user[h].row = admins[user[h].id]
             /\ user[h].row.active
        /\ pc[h] = "write" =>
             /\ UsableWriter(admins[user[h].id])
             /\ \A a \in target[h] :
                  IF a = user[h].id
                  THEN op[h] # "delete" /\ KeepsPowers(admins[a], entity[h])
                  ELSE admins[user[h].id].master /\ Visible(ActorNow(h), a)
             /\ PatchUpToDate(h)

Types == TypeOK /\ first \in [Id -> Row \cup {None}]

IInv == Types /\ Powers /\ Confined /\ UpToDate /\ NeverLockedOut

-----------------------------------------------------------------------------
(* What a permitted row looks like: the actor rules it, and through it        *)
(* nobody he does not rule (hasPermission, populateAdmin).                    *)
LEMMA PermittedRow ==
    ASSUME NEW u, u.row \in Row, u.row.role \in Writers,
           NEW row \in Row, HasPermission(u, row.role)
    PROVE  /\ Populated(u, row) \in Row
           /\ Rules(u.row, Populated(u, row))
           /\ \A other \in Row : Rules(Populated(u, row), other) => Rules(u.row, other)
<1> DEFINE e == Populated(u, row)
<1>1. /\ e \in Row /\ e.role = row.role
      /\ u.row.role = "reseller" => e.reseller = u.row.reseller
  BY DEF Populated, ResellerRequired, Row
<1>2. /\ e.role \in Access[u.row.role] /\ e.role \in Role /\ u.row.role \in Role
      /\ u.row.role # "system" => u.row.master
  BY <1>1 DEF HasPermission, Writers, Row
<1>3. u.row # None
  BY DEF Row, None
<1>4. Rules(u.row, e)
  BY <1>1, <1>2, <1>3 DEF Rules, Writers
<1>5. ASSUME NEW other \in Row, Rules(e, other)
      PROVE  Rules(u.row, other)
  <2>1. other.role \in Access[e.role] /\ e.role \in Writers
    BY <1>5 DEF Rules, Writers
  <2>2. other.role \in Access[u.row.role]
    BY <1>2, <2>1, HierarchyAssumption
  <2>3. u.row.role = "reseller" => u.row.reseller \in {NoReseller, other.reseller}
    <3>1. u.row.role = "reseller" => e.role = "reseller"
      BY <1>2, <2>1, HierarchyAssumption DEF Writers
    <3> QED BY <1>1, <1>5, <3>1 DEF Rules
  <2> QED BY <1>2, <1>3, <2>2, <2>3 DEF Rules, Writers
<1> QED BY <1>1, <1>4, <1>5

(* A master rules what he sees (addPermissionCheckToQueryBuilder). *)
LEMMA SeenRow ==
    ASSUME NEW u, u.row \in Row, u.row.role \in Writers, u.row.master,
           NEW a \in Id, Visible(u, a)
    PROVE  Rules(u.row, admins[a])
<1>1. u.row # None
  BY DEF Row, None
<1> QED BY <1>1 DEF Visible, ResellerRequired, Rules, Writers

(* What is left of a row's rights and of others' over it, where its NULL      *)
(* reseller is not written (update of the repository).                        *)
LEMMA UpdatedRow ==
    ASSUME NEW row \in Row, NEW old \in Row
    PROVE  /\ Updated(old, row) \in Row
           /\ Granted(row) => Granted(Updated(old, row))
           /\ Ruled(row) => Ruled(Updated(old, row))
           /\ KeepsPowers(old, row) => KeepsPowers(old, Updated(old, row))
<1> DEFINE e == Updated(old, row)
<1>1. /\ e \in Row /\ e.role = row.role /\ e.master = row.master /\ e.active = row.active
      /\ row.reseller # NoReseller => e = row
      /\ row.reseller = NoReseller => e.reseller = old.reseller
  BY DEF Updated, Row
<1>2. row # None /\ e # None
  BY <1>1 DEF Row, None
<1>3. CASE row.reseller # NoReseller
  BY <1>1, <1>3
<1>4. CASE row.reseller = NoReseller
  <2>1. \A other : Rules(e, other) => Rules(row, other)
    BY <1>1, <1>2, <1>4 DEF Rules
  <2>2. \A r : Rules(r, row) => Rules(r, e)
    BY <1>1, <1>4 DEF Rules
  <2>3. KeepsPowers(old, row) => KeepsPowers(old, e)
    BY <1>1, <1>4 DEF KeepsPowers
  <2> QED BY <1>1, <2>1, <2>2, <2>3 DEF Granted, Ruled
<1> QED BY <1>3, <1>4

(* Who rules an account rules whatever that account rules. *)
LEMMA RulesThrough ==
    ASSUME NEW x \in Row, NEW y \in Row, NEW other \in Row,
           x.role \in Writers, Rules(x, y), Rules(y, other)
    PROVE  Rules(x, other)
<1>1. /\ y.role \in Access[x.role] /\ other.role \in Access[y.role]
      /\ x.role \in Role /\ y.role \in Role
  BY DEF Rules, Row
<1>2. other.role \in Access[x.role]
  BY <1>1, HierarchyAssumption
<1>3. x.role = "reseller" => y.role = "reseller"
  BY <1>1, HierarchyAssumption DEF Rules
<1> QED BY <1>2, <1>3 DEF Rules

(* An update passes its checks (AdminService.update, validateUpdate). *)
LEMMA UpdateChecked ==
    ASSUME IInv, NEW h \in Handler, pc[h] = "read",
           NEW a \in Id, NEW row \in Row,
           Visible(user[h], a), HasPermission(user[h], row.role),
           SelfUpdateValid(user[h], a, admins[a], row)
    PROVE  /\ admins[a] \in Row
           /\ Populated(user[h], row) \in Row
           /\ Granted(Populated(user[h], row))
           /\ Ruled(Populated(user[h], row))
           /\ RuledAtFirst(a)
           /\ a # user[h].id => user[h].row.master
<1>1. user[h].row \in Row /\ user[h].row.role \in Writers /\ Granted(user[h].row)
  BY DEF IInv, Powers
<1>2. admins[a] \in Row
  BY DEF Visible, Exists, IInv, Types, TypeOK
<1>3. /\ Populated(user[h], row) \in Row
      /\ Rules(user[h].row, Populated(user[h], row))
      /\ \A other \in Row : Rules(Populated(user[h], row), other) => Rules(user[h].row, other)
  BY <1>1, PermittedRow
<1>4. Granted(Populated(user[h], row)) /\ Ruled(Populated(user[h], row))
  BY <1>1, <1>3 DEF Granted, Ruled
<1>5. a # user[h].id => user[h].row.master
  BY DEF Visible
<1>6. Rules(user[h].row, admins[a])
  <2>1. CASE user[h].row.master
    BY <1>1, <2>1, SeenRow
  <2>2. CASE ~user[h].row.master
    <3>1. a = user[h].id /\ admins[a].role = row.role
      BY <2>2 DEF Visible, SelfUpdateValid
    <3>2. user[h].row.role = "system"
      BY <1>1, <2>2 DEF HasPermission, Writers
    <3>3. user[h].row # None
      BY <1>1 DEF Row, None
    <3> QED BY <3>1, <3>2, <3>3 DEF HasPermission, Rules
  <2> QED BY <2>1, <2>2
<1>7. RuledAtFirst(a)
  <2>1. CASE admins[a] = first[a]
    BY <1>1, <1>2, <1>6, <2>1 DEF Granted, Ruled, RuledAtFirst
  <2>2. CASE admins[a] # first[a]
    BY <2>2 DEF IInv, Confined, Ruled, RuledAtFirst
  <2> QED BY <2>1, <2>2
<1> QED BY <1>2, <1>3, <1>4, <1>5, <1>7

-----------------------------------------------------------------------------
LEMMA InitInv == Init => IInv
<1> SUFFICES ASSUME Init PROVE IInv
  OBVIOUS
<1>1. Types
  BY IdAssumption DEF Init, Types, TypeOK, Idle, Field
<1>2. Powers
  BY DEF Init, Powers, Granted
<1>3. Confined /\ UpToDate
  BY DEF Init, Confined, UpToDate
<1>4. NeverLockedOut
  BY DEF Init, NeverLockedOut, Exists
<1> QED BY <1>1, <1>2, <1>3, <1>4 DEF IInv

(* A copy of the actor's row is taken, of an active account that may write. *)
LEMMA AuthenticateInv ==
    ASSUME IInv, NEW h \in Handler, Authenticate(h)
    PROVE  IInv'
<1>1. PICK a \in Id : /\ Exists(a) /\ admins[a].active
                      /\ admins[a].role \in {"admin", "system", "reseller"}
                      /\ user' = [user EXCEPT ![h] = [id |-> a, row |-> admins[a]]]
  BY DEF Authenticate
<1>2. PICK o \in {"create", "update", "adjust", "delete"} : op' = [op EXCEPT ![h] = o]
  BY DEF Authenticate
<1>3. /\ pc' = [pc EXCEPT ![h] = "read"] /\ stale' = stale \ {h}
      /\ UNCHANGED <<admins, target, entity, field, first, raced>>
  BY DEF Authenticate
<1>4. admins[a] \in Row
  BY <1>1 DEF Exists, IInv, Types, TypeOK
<1>5. Types'
  BY <1>1, <1>2, <1>3, <1>4 DEF IInv, Types, TypeOK
<1>6. /\ user'[h] = [id |-> a, row |-> admins[a]] /\ pc'[h] = "read"
      /\ \A g \in Handler \ {h} : user'[g] = user[g] /\ pc'[g] = pc[g] /\ op'[g] = op[g]
  BY <1>1, <1>2, <1>3 DEF IInv, Types, TypeOK
<1>7. Powers'
  BY <1>1, <1>3, <1>4, <1>6 DEF IInv, Powers, Granted, Ruled, RuledAtFirst, Writers
<1>8. Confined'
  BY <1>3 DEF IInv, Confined
<1>9. UpToDate'
  <2>1. \A g \in Handler \ {h} : PatchUpToDate(g)' = PatchUpToDate(g)
    BY <1>3, <1>6 DEF PatchUpToDate, Updated, Kept
  <2> QED BY <1>1, <1>3, <1>6, <2>1 DEF IInv, UpToDate, UsableWriter, KeepsPowers, Visible,
                                        Exists, ResellerRequired, ActorNow
<1>10. NeverLockedOut'
  BY <1>3 DEF IInv, NeverLockedOut, Exists
<1> QED BY <1>5, <1>7, <1>8, <1>9, <1>10 DEF IInv

(* A request that is answered leaves nothing behind. *)
LEMMA RefuseInv ==
    ASSUME IInv, NEW h \in Handler, Refuse(h)
    PROVE  IInv'
<1>1. Types'
  BY IdAssumption DEF Refuse, IInv, Types, TypeOK, Idle, Field
<1>2. /\ pc'[h] = "idle" /\ UNCHANGED <<admins, first, raced>> /\ stale' = stale \ {h}
      /\ \A g \in Handler \ {h} : /\ user'[g] = user[g] /\ pc'[g] = pc[g] /\ op'[g] = op[g]
                                  /\ target'[g] = target[g] /\ entity'[g] = entity[g]
                                  /\ field'[g] = field[g]
  BY DEF Refuse, IInv, Types, TypeOK
<1>3. Powers'
  BY <1>2 DEF IInv, Powers, Granted, Ruled, RuledAtFirst
<1>4. Confined' /\ NeverLockedOut'
  BY <1>2 DEF IInv, Confined, NeverLockedOut, Exists
<1>5. UpToDate'
  <2>1. \A g \in Handler \ {h} : PatchUpToDate(g)' = PatchUpToDate(g)
    BY <1>2 DEF PatchUpToDate, Updated, Kept
  <2> QED BY <1>2, <2>1 DEF IInv, UpToDate, UsableWriter, KeepsPowers, Visible, Exists,
                            ResellerRequired, ActorNow
<1> QED BY <1>1, <1>3, <1>4, <1>5 DEF IInv

(* What a request has to have found out before it writes. *)
Decided(h, ids, row, f) ==
    /\ ids \in SUBSET Id /\ row \in Row \cup {None} /\ f \in Field
    /\ op[h] # "delete" => row \in Row /\ Granted(row) /\ Ruled(row)
    /\ op[h] = "create" => ids = {}
    /\ \A a \in ids : RuledAtFirst(a)
    /\ h \notin stale =>
         \A a \in ids :
            /\ IF a = user[h].id
               THEN op[h] # "delete" /\ KeepsPowers(admins[a], row)
               ELSE user[h].row.master /\ Visible(user[h], a)
            /\ op[h] = "adjust" =>
                 \A g \in Field \ {f} : Updated(admins[a], row)[g] = Kept(h, a, g)

LEMMA ProceedInv ==
    ASSUME IInv, NEW h \in Handler, pc[h] = "read", NEW ids, NEW row, NEW f,
           Decided(h, ids, row, f), Proceed(h, ids, row, f)
    PROVE  IInv'
<1>1. Types'
  BY DEF Decided, Proceed, IInv, Types, TypeOK
<1>2. /\ pc'[h] = "write" /\ target'[h] = ids /\ entity'[h] = row /\ field'[h] = f
      /\ user'[h].id = user[h].id
      /\ UNCHANGED <<admins, op, first, stale, raced>>
      /\ \A g \in Handler \ {h} : /\ user'[g] = user[g] /\ pc'[g] = pc[g]
                                  /\ target'[g] = target[g] /\ entity'[g] = entity[g]
                                  /\ field'[g] = field[g]
  BY DEF Proceed, IInv, Types, TypeOK
<1>3. Powers'
  <2>1. \A r : Granted(r)' = Granted(r) /\ Ruled(r)' = Ruled(r)
    BY <1>2 DEF Granted, Ruled
  <2>2. \A a : RuledAtFirst(a)' = RuledAtFirst(a)
    BY <1>2 DEF RuledAtFirst, Ruled
  <2>3. \A a \in Id : Granted(admins[a])'
    BY <1>2, <2>1 DEF IInv, Powers
  <2>4. \A g \in Handler : pc'[g] = "read" =>
           user'[g].row \in Row /\ user'[g].row.role \in Writers /\ Granted(user[g].row)'
    BY <1>2, <2>1 DEF IInv, Powers
  <2>5. ASSUME NEW g \in Handler, pc'[g] = "write"
        PROVE  /\ op'[g] # "delete" =>
                    entity'[g] \in Row /\ Granted(entity[g])' /\ Ruled(entity[g])'
               /\ op'[g] = "create" => target'[g] = {}
               /\ \A a \in target'[g] : RuledAtFirst(a)'
    <3>1. CASE g = h
      BY <1>2, <2>1, <2>2, <3>1 DEF Decided, Granted, Ruled
    <3>2. CASE g # h
      BY <1>2, <2>1, <2>2, <2>5, <3>2 DEF IInv, Powers, Granted, Ruled
    <3> QED BY <3>1, <3>2
  <2> QED BY <1>2, <2>3, <2>4, <2>5 DEF Powers, Granted, Ruled
<1>4. Confined' /\ NeverLockedOut'
  BY <1>2 DEF IInv, Confined, NeverLockedOut, Exists
<1>5. UpToDate'
  <2> SUFFICES ASSUME NEW g \in Handler, g \notin stale
               PROVE  /\ pc'[g] = "read" =>
                           user'[g].row = admins[user'[g].id] /\ user'[g].row.active
                      /\ pc'[g] = "write" =>
                           /\ UsableWriter(admins[user'[g].id])
                           /\ \A a \in target'[g] :
                                IF a = user'[g].id
                                THEN op[g] # "delete" /\ KeepsPowers(admins[a], entity'[g])
                                ELSE /\ admins[user'[g].id].master
                                     /\ Visible([id |-> user'[g].id,
                                                 row |-> admins[user'[g].id]], a)
                           /\ PatchUpToDate(g)'
    BY <1>2 DEF UpToDate, UsableWriter, KeepsPowers, Visible, Exists, ResellerRequired, ActorNow
  <2>1. CASE g # h
    <3>1. PatchUpToDate(g)' = PatchUpToDate(g)
      BY <1>2, <2>1 DEF PatchUpToDate, Updated, Kept
    <3> QED BY <1>2, <2>1, <3>1 DEF IInv, UpToDate, ActorNow
  <2>2. CASE g = h
    <3>1. /\ user[h].row = admins[user[h].id] /\ user[h].row.active
          /\ user[h].row \in Row /\ user[h].row.role \in Writers
      BY <2>2 DEF IInv, UpToDate, Powers
    <3>2. \A a : Visible(user[h], a) =>
                   Visible([id |-> user[h].id, row |-> admins[user[h].id]], a)
      BY <3>1 DEF Visible, ResellerRequired
    <3>3. PatchUpToDate(h)'
      BY <1>2, <2>2 DEF Decided, PatchUpToDate, Updated, Kept
    <3> QED BY <1>2, <2>2, <3>1, <3>2, <3>3 DEF Decided, UsableWriter
  <2> QED BY <2>1, <2>2
<1> QED BY <1>1, <1>3, <1>4, <1>5 DEF IInv

(* An account made is one its actor may make. *)
LEMMA CreateInv ==
    ASSUME IInv, NEW h \in Handler, Create(h)
    PROVE  IInv'
<1>1. PICK row \in Row : /\ HasPermission(user[h], row.role)
                         /\ Proceed(h, {}, Populated(user[h], row), "role")
  BY DEF Create
<1>2. pc[h] = "read" /\ op[h] = "create"
  BY DEF Create
<1>3. user[h].row \in Row /\ user[h].row.role \in Writers /\ Granted(user[h].row)
  BY <1>2 DEF IInv, Powers
<1>4. /\ Populated(user[h], row) \in Row
      /\ Granted(Populated(user[h], row)) /\ Ruled(Populated(user[h], row))
  BY <1>1, <1>3, PermittedRow DEF Granted, Ruled
<1>5. Decided(h, {}, Populated(user[h], row), "role")
  BY <1>2, <1>4 DEF Decided, Field
<1> QED BY <1>1, <1>2, <1>5, ProceedInv

(* Of his own account an actor keeps what he can do (validateUpdate). *)
LEMMA OwnRow ==
    ASSUME IInv, NEW h \in Handler, pc[h] = "read", h \notin stale,
           NEW row \in Row, SelfUpdateValid(user[h], user[h].id, admins[user[h].id], row)
    PROVE  KeepsPowers(admins[user[h].id], Populated(user[h], row))
<1>1. user[h].row = admins[user[h].id] /\ user[h].row \in Row
  BY DEF IInv, UpToDate, Powers
<1> QED BY <1>1 DEF SelfUpdateValid, KeepsPowers, Populated, ResellerRequired, Row

LEMMA UpdateManyInv ==
    ASSUME IInv, NEW h \in Handler, UpdateMany(h)
    PROVE  IInv'
<1>1. PICK a \in Id, row \in Row : Update(h, a, row, "role")
  BY DEF UpdateMany
<1>2. pc[h] = "read" /\ op[h] = "update"
  BY DEF UpdateMany
<1>3. /\ Visible(user[h], a) /\ HasPermission(user[h], row.role)
      /\ SelfUpdateValid(user[h], a, admins[a], row)
      /\ Proceed(h, {a}, Populated(user[h], row), "role")
  BY <1>1 DEF Update
<1>4. Decided(h, {a}, Populated(user[h], row), "role")
  BY <1>2, <1>3, UpdateChecked, OwnRow DEF Decided, Field
<1> QED BY <1>2, <1>3, <1>4, ProceedInv

(* The reseller that is put into a patched row is the one it has, or the    *)
(* actor's where it has none.                                               *)
LEMMA AdjustInv ==
    ASSUME IInv, NEW h \in Handler, Adjust(h)
    PROVE  IInv'
<1>1. PICK a \in Id, from \in Row, f \in Field :
        Exists(a) /\ Update(h, a, [admins[a] EXCEPT ![f] = from[f]], f)
  BY DEF Adjust
<1> DEFINE row == [admins[a] EXCEPT ![f] = from[f]]
<1>2. pc[h] = "read" /\ op[h] = "adjust"
  BY DEF Adjust
<1>3. /\ Visible(user[h], a) /\ HasPermission(user[h], row.role)
      /\ SelfUpdateValid(user[h], a, admins[a], row)
      /\ Proceed(h, {a}, Populated(user[h], row), f)
  BY <1>1 DEF Update
<1>4. admins[a] \in Row
  BY <1>1 DEF Exists, IInv, Types, TypeOK
<1>5. row \in Row
  BY <1>4 DEF Row, Field
<1> HIDE DEF row
<1>6. ASSUME h \notin stale, NEW g \in Field \ {f}
      PROVE  Updated(admins[a], Populated(user[h], row))[g] = Kept(h, a, g)
  <2>1. row[g] = admins[a][g] /\ g \in Field
    BY <1>4 DEF row, Row, Field
  <2>2. user[h].row = admins[user[h].id]
    BY <1>2, <1>6 DEF IInv, UpToDate
  <2>3. ASSUME user[h].row.role = "reseller", user[h].row.reseller # NoReseller
        PROVE  user[h].row.reseller = admins[a].reseller
    <3>1. user[h].row.master
      BY <1>3, <2>3 DEF HasPermission
    <3> QED BY <1>3, <2>3, <3>1 DEF Visible, ResellerRequired
  <2>4. /\ Populated(user[h], row) \in Row
        /\ g # "reseller" => Updated(admins[a], Populated(user[h], row))[g] = row[g]
    <3>1. user[h].row \in Row
      BY <1>2 DEF IInv, Powers
    <3> QED BY <1>4, <1>5, <2>1, <3>1 DEF Populated, Updated, Row, Field
  <2>5. CASE g # "reseller"
    BY <2>1, <2>4, <2>5 DEF Kept
  <2>6. CASE g = "reseller"
    <3>1. Kept(h, a, g) = IF admins[a].reseller = NoReseller THEN user[h].row.reseller
                          ELSE admins[a].reseller
      BY <2>2, <2>6 DEF Kept
    <3>2. Populated(user[h], row).reseller =
            IF user[h].row.role = "reseller" \/ admins[a].reseller = NoReseller
            THEN user[h].row.reseller ELSE admins[a].reseller
      BY <1>5, <2>1, <2>6 DEF Populated, ResellerRequired, Row
    <3>3. Updated(admins[a], Populated(user[h], row)).reseller =
            IF Populated(user[h], row).reseller = NoReseller THEN admins[a].reseller
            ELSE Populated(user[h], row).reseller
      BY <2>4 DEF Updated, Row
    <3> QED BY <2>3, <2>6, <3>1, <3>2, <3>3
  <2> QED BY <2>5, <2>6
<1>7. Decided(h, {a}, Populated(user[h], row), f)
  BY <1>2, <1>3, <1>5, <1>6, UpdateChecked, OwnRow DEF Decided
<1> QED BY <1>2, <1>3, <1>7, ProceedInv

(* Nobody deletes himself; whoever sees others is a master. *)
LEMMA DeleteInv ==
    ASSUME IInv, NEW h \in Handler, Delete(h)
    PROVE  IInv'
<1>1. PICK ids \in SUBSET Id : /\ user[h].id \notin ids
                               /\ \A a \in ids : Visible(user[h], a)
                               /\ Proceed(h, ids, None, "role")
  BY DEF Delete
<1>2. pc[h] = "read" /\ op[h] = "delete"
  BY DEF Delete
<1>3. user[h].row \in Row /\ user[h].row.role \in Writers /\ Granted(user[h].row)
  BY <1>2 DEF IInv, Powers
<1>4. ASSUME NEW a \in ids PROVE a # user[h].id /\ user[h].row.master /\ RuledAtFirst(a)
  <2>1. a # user[h].id /\ user[h].row.master /\ Visible(user[h], a)
    BY <1>1 DEF Visible
  <2>2. Rules(user[h].row, admins[a])
    BY <1>3, <2>1, SeenRow
  <2>3. CASE admins[a] = first[a]
    <3>1. admins[a] \in Row
      BY <2>1 DEF Visible, Exists, IInv, Types, TypeOK
    <3> QED BY <1>3, <2>1, <2>2, <2>3, <3>1 DEF Granted, Ruled, RuledAtFirst
  <2>4. CASE admins[a] # first[a]
    BY <2>1, <2>4 DEF IInv, Confined, Ruled, RuledAtFirst
  <2> QED BY <2>1, <2>3, <2>4
<1>5. Decided(h, ids, None, "role")
  BY <1>1, <1>2, <1>4 DEF Decided, Field
<1> QED BY <1>1, <1>2, <1>5, ProceedInv

-----------------------------------------------------------------------------
(* What a commit makes of each row. *)
LEMMA WrittenRows ==
    ASSUME IInv, NEW h \in Handler, pc[h] = "write", NEW a \in Id,
           op[h] = "create" => ~Exists(a), NEW b \in Id
    PROVE  LET new == Written(h, a)[b]
           IN  \/ new = admins[b] /\ (b \in target[h] => op[h] # "delete" /\ ~Exists(b))
               \/ op[h] = "delete" /\ b \in target[h] /\ new = None
               \/ /\ op[h] \in {"update", "adjust"} /\ b \in target[h] /\ Exists(b)
                  /\ new = Updated(admins[b], entity[h])
               \/ op[h] = "create" /\ ~Exists(b) /\ new = entity[h]
<1>1. op[h] \in {"create", "update", "adjust", "delete"} /\ DOMAIN admins = Id
  BY DEF IInv, Types, TypeOK
<1>2. op[h] = "create" => target[h] = {}
  BY DEF IInv, Powers
<1>3. CASE op[h] = "create"
  BY <1>1, <1>2, <1>3 DEF Written
<1>4. CASE op[h] = "delete"
  BY <1>1, <1>4 DEF Written
<1>5. CASE op[h] \in {"update", "adjust"}
  BY <1>1, <1>5 DEF Written
<1> QED BY <1>1, <1>3, <1>4, <1>5

LEMMA WriteInv ==
    ASSUME IInv, NEW h \in Handler, Write(h)
    PROVE  IInv'
<1>1. PICK a \in Id : (op[h] = "create" => ~Exists(a)) /\ admins' = Written(h, a)
  BY DEF Write
<1>2. /\ pc[h] = "write" /\ pc'[h] = "idle" /\ first' = first
      /\ stale' = {g \in Handler : g # h /\ pc[g] # "idle"}
      /\ raced' = (raced \/ h \in stale)
      /\ \A g \in Handler \ {h} : /\ user'[g] = user[g] /\ pc'[g] = pc[g] /\ op'[g] = op[g]
                                  /\ target'[g] = target[g] /\ entity'[g] = entity[g]
                                  /\ field'[g] = field[g]
  BY DEF Write, IInv, Types, TypeOK
<1>3. \A b \in Id :
        \/ admins'[b] = admins[b] /\ (b \in target[h] => op[h] # "delete" /\ ~Exists(b))
        \/ op[h] = "delete" /\ b \in target[h] /\ admins'[b] = None
        \/ /\ op[h] \in {"update", "adjust"} /\ b \in target[h] /\ Exists(b)
           /\ admins'[b] = Updated(admins[b], entity[h])
        \/ op[h] = "create" /\ ~Exists(b) /\ admins'[b] = entity[h]
  BY <1>1, <1>2, WrittenRows
<1>4. /\ op[h] # "delete" => entity[h] \in Row /\ Granted(entity[h]) /\ Ruled(entity[h])
      /\ \A b \in target[h] : RuledAtFirst(b)
      /\ op[h] # "delete" => \A b \in Id : Exists(b) =>
           LET e == Updated(admins[b], entity[h])
           IN  /\ e \in Row /\ Granted(e) /\ Ruled(e)
               /\ KeepsPowers(admins[b], entity[h]) => KeepsPowers(admins[b], e)
  BY <1>2, UpdatedRow DEF IInv, Powers, Types, TypeOK, Exists
<1>5. Types'
  <2>1. \A b \in Id : admins'[b] \in Row \cup {None}
    BY <1>3, <1>4 DEF IInv, Types, TypeOK
  <2>2. DOMAIN admins' = Id /\ admins' = [b \in DOMAIN admins' |-> admins'[b]]
    <3>1. admins = [b \in Id |-> admins[b]]
      BY DEF IInv, Types, TypeOK
    <3>2. op[h] \in {"create", "update", "adjust", "delete"}
      BY DEF IInv, Types, TypeOK
    <3> QED BY <1>1, <3>1, <3>2 DEF Written
  <2>3. admins' \in [Id -> Row \cup {None}]
    BY <2>1, <2>2
  <2>4. raced' \in BOOLEAN /\ stale' \in SUBSET Handler
    BY <1>2 DEF IInv, Types, TypeOK
  <2>5. /\ pc' \in [Handler -> {"idle", "read", "write"}]
        /\ user' \in [Handler -> [id : Id, row : Row \cup {None}]]
        /\ op' \in [Handler -> {"create", "update", "adjust", "delete"}]
        /\ target' \in [Handler -> SUBSET Id]
        /\ entity' \in [Handler -> Row \cup {None}]
        /\ field' \in [Handler -> Field]
    BY IdAssumption DEF Write, IInv, Types, TypeOK, Idle, Field
  <2> QED BY <1>2, <2>3, <2>4, <2>5 DEF IInv, Types, TypeOK
<1>6. \A r : Granted(r)' = Granted(r) /\ Ruled(r)' = Ruled(r)
  BY <1>2 DEF Granted, Ruled
<1>7. Powers'
  <2>1. Granted(None)
    BY DEF Granted, Rules
  <2>2. ASSUME NEW b \in Id PROVE Granted(admins'[b])
    BY <1>3, <1>4, <2>1 DEF IInv, Powers
  <2>3. \A b \in Id : Granted(admins[b])'
    BY <1>6, <2>2 DEF Granted
  <2>4. \A b : RuledAtFirst(b)' = RuledAtFirst(b)
    BY <1>2 DEF RuledAtFirst, Ruled
  <2>5. ASSUME NEW g \in Handler
        PROVE  /\ pc'[g] = "read" =>
                    /\ user'[g].row \in Row /\ user'[g].row.role \in Writers
                    /\ Granted(user'[g].row)
               /\ pc'[g] = "write" =>
                    /\ op'[g] # "delete" =>
                         /\ entity'[g] \in Row /\ Granted(entity'[g]) /\ Ruled(entity'[g])
                    /\ op'[g] = "create" => target'[g] = {}
                    /\ \A b \in target'[g] : RuledAtFirst(b)
    <3>1. CASE g = h
      BY <1>2, <3>1
    <3>2. CASE g # h
      BY <1>2, <3>2 DEF IInv, Powers
    <3> QED BY <3>1, <3>2
  <2> QED BY <1>2, <2>3, <2>4, <2>5 DEF Powers, Granted, Ruled
<1>8. Confined'
  <2> SUFFICES ASSUME NEW b \in Id, admins'[b] # first[b]
               PROVE  /\ admins'[b] # None => Ruled(admins'[b])
                      /\ RuledAtFirst(b)
    BY <1>2 DEF Confined, Ruled, RuledAtFirst
  <2>1. admins[b] # first[b] => (admins[b] # None => Ruled(admins[b])) /\ RuledAtFirst(b)
    BY DEF IInv, Confined, Ruled, RuledAtFirst
  <2>2. ~Exists(b) => RuledAtFirst(b)
    BY <2>1 DEF Exists, RuledAtFirst
  <2> QED BY <1>3, <1>4, <2>1, <2>2
<1>9. UpToDate'
  BY <1>2 DEF UpToDate, IInv, Types, TypeOK
<1>10. NeverLockedOut'
  <2> SUFFICES ASSUME h \notin stale, ~raced, NEW b \in Id,
                      first[b] # None, first[b].active, Rules(first[b], first[b])
               PROVE  \E c \in Id : /\ admins'[c] # None /\ admins'[c].active
                                    /\ Rules(admins'[c], first[b])
    BY <1>2 DEF NeverLockedOut, Exists
  <2> DEFINE u == user[h].id
  <2>1. PICK c \in Id : admins[c] # None /\ admins[c].active /\ Rules(admins[c], first[b])
    BY DEF IInv, NeverLockedOut, Exists
  <2>2. /\ u \in Id
        /\ UsableWriter(admins[u])
        /\ \A x \in target[h] :
             IF x = u THEN op[h] # "delete" /\ KeepsPowers(admins[x], entity[h])
                      ELSE admins[u].master /\ Visible(ActorNow(h), x)
    BY <1>2 DEF IInv, Types, TypeOK, UpToDate
  <2>3. admins[c] \in Row /\ first[b] \in Row
    BY <2>1 DEF IInv, Types, TypeOK
  <2>4. admins'[c] = admins[c] \/ c \in target[h]
    BY <1>3, <2>1 DEF Exists
  <2>5. CASE admins'[c] = admins[c]
    BY <2>1, <2>5
  <2>6. CASE c \in target[h] /\ c = u
    <3> DEFINE e == Updated(admins[c], entity[h])
    <3>1. admins'[c] = admins[c] \/ admins'[c] = e
      BY <1>3, <2>1, <2>2, <2>6 DEF Exists
    <3>2. KeepsPowers(admins[c], e)
      BY <1>4, <2>1, <2>2, <2>6 DEF Exists
    <3>3. e \in Row /\ e # None
      BY <3>2 DEF KeepsPowers, Row, None
    <3>4. e.active /\ Rules(e, first[b])
      BY <2>1, <3>2, <3>3 DEF KeepsPowers, Rules
    <3> QED BY <2>1, <3>1, <3>3, <3>4
  <2>7. CASE c \in target[h] /\ c # u
    <3>1. /\ admins[u] \in Row /\ admins[u].active /\ admins[u].role \in Writers
          /\ admins[u].master /\ Visible(ActorNow(h), c)
      BY <2>2, <2>7 DEF UsableWriter
    <3>2. Rules(admins[u], admins[c])
      <4>1. /\ ActorNow(h).row = admins[u]
        BY DEF ActorNow
      <4> QED BY <3>1, <4>1, SeenRow
    <3>3. Rules(admins[u], first[b])
      BY <2>1, <2>3, <3>1, <3>2, RulesThrough
    <3>4. admins[u] # None
      BY <3>1 DEF Row, None
    <3>5. admins'[u] = admins[u] \/ u \in target[h]
      BY <1>3, <2>2, <3>4 DEF Exists
    <3>6. CASE u \in target[h]
      <4> DEFINE e == Updated(admins[u], entity[h])
      <4>1. op[h] # "delete" /\ KeepsPowers(admins[u], e)
        BY <1>4, <2>2, <3>4, <3>6 DEF Exists
      <4>2. admins'[u] = admins[u] \/ admins'[u] = e
        BY <1>3, <2>2, <3>4, <4>1 DEF Exists
      <4>3. e # None /\ e.active /\ Rules(e, first[b])
        <5>1. e \in Row /\ e # None
          BY <4>1 DEF KeepsPowers, Row, None
        <5> QED BY <3>1, <3>3, <4>1, <5>1 DEF KeepsPowers, Rules
      <4> QED BY <2>2, <3>1, <3>3, <3>4, <4>2, <4>3
    <3> QED BY <2>2, <3>1, <3>3, <3>4, <3>5, <3>6
  <2> QED BY <2>4, <2>5, <2>6, <2>7
<1> QED BY <1>5, <1>7, <1>8, <1>9, <1>10 DEF IInv

LEMMA Unchanged == IInv /\ UNCHANGED vars => IInv'
<1> SUFFICES ASSUME IInv, UNCHANGED vars PROVE IInv'
  OBVIOUS
<1> USE DEF vars, local, IInv
<1>1. Types' /\ Confined' /\ NeverLockedOut'
  BY DEF Types, TypeOK, Confined, NeverLockedOut, Exists
<1>2. Powers'
  BY DEF Powers, Granted, Ruled, RuledAtFirst
<1>3. UpToDate'
  BY DEF UpToDate, UsableWriter, KeepsPowers, Visible, Exists, ResellerRequired, ActorNow,
         PatchUpToDate, Updated, Kept
<1> QED BY <1>1, <1>2, <1>3

LEMMA InvCorrect == Spec => []IInv
<1>1. IInv /\ [Next]_vars => IInv'
  BY AuthenticateInv, CreateInv, UpdateManyInv, AdjustInv, DeleteInv, WriteInv, RefuseInv,
     Unchanged DEF Next
<1> QED BY InitInv, <1>1, PTL DEF Spec

-----------------------------------------------------------------------------
(* Accounts and requests keep their types, whatever is written in between. *)
THEOREM TypeCorrect == Spec => []TypeOK
<1>1. IInv => TypeOK
  BY DEF IInv, Types
<1> QED BY <1>1, InvCorrect, PTL

(* Through any number of accounts and of requests in flight, nobody does    *)
(* what no account could do at the start (admin.service.ts).                *)
THEOREM ConfinedCorrect == Spec => []Confined
<1>1. IInv => Confined
  BY DEF IInv
<1> QED BY <1>1, InvCorrect, PTL

(* As long as no request wrote by what was no longer so, an account that can *)
(* be used rules whom a master account of the start ruled.                   *)
THEOREM LockOutAvoided == Spec => []NeverLockedOut
<1>1. IInv => NeverLockedOut
  BY DEF IInv
<1> QED BY <1>1, InvCorrect, PTL

(* A PATCH that nobody overtook changes the field it names and no other,    *)
(* although it writes back all of them, but for a reseller that was NULL    *)
(* and becomes the actor's.                                                 *)
THEOREM PatchCorrect == Spec => PatchKeeps
<1> DEFINE Keeps == \A h \in Handler, a \in Id :
           /\ pc[h] = "write" /\ pc'[h] = "idle" /\ admins' # admins
           /\ op[h] = "adjust" /\ a \in target[h] /\ h \notin stale
           => \A f \in Field \ {field[h]} : admins'[a][f] = Kept(h, a, f)
<1>1. IInv /\ [Next]_vars => [Keeps]_vars
  <2> SUFFICES ASSUME IInv, Next, NEW h \in Handler, NEW a \in Id,
                      pc[h] = "write", pc'[h] = "idle", admins' # admins,
                      op[h] = "adjust", a \in target[h], h \notin stale,
                      NEW f \in Field \ {field[h]}
               PROVE  admins'[a][f] = Kept(h, a, f)
    OBVIOUS
  <2>1. Write(h)
    <3>1. PICK g \in Handler : Write(g)
      <4>1. ASSUME NEW g \in Handler, UpdateMany(g) \/ Adjust(g) PROVE admins' = admins
        BY <4>1 DEF UpdateMany, Adjust, Update, Proceed
      <4>2. ASSUME NEW g \in Handler, Create(g) \/ Delete(g) PROVE admins' = admins
        BY <4>2 DEF Create, Delete, Proceed
      <4>3. ASSUME NEW g \in Handler, Authenticate(g) \/ Refuse(g) PROVE admins' = admins
        BY <4>3 DEF Authenticate, Refuse
      <4> QED BY <4>1, <4>2, <4>3 DEF Next
    <3>2. g = h
      BY <3>1 DEF Write, IInv, Types, TypeOK
    <3> QED BY <3>1, <3>2
  <2>2. Updated(admins[a], entity[h])[f] = Kept(h, a, f)
    BY DEF IInv, UpToDate, PatchUpToDate
  <2>3. Exists(a)
    BY DEF IInv, UpToDate, Visible, Exists, UsableWriter, Row, None
  <2>4. admins'[a] = Updated(admins[a], entity[h])
    BY <2>1, <2>3 DEF Write, Written, IInv, Types, TypeOK
  <2> QED BY <2>2, <2>4
<1>2. Spec => [][Keeps]_vars
  BY <1>1, InvCorrect, PTL DEF Spec
<1> QED BY <1>2 DEF PatchKeeps
=============================================================================
