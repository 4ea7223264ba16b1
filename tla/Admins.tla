------------------------------- MODULE Admins -------------------------------
(***************************************************************************)
(* Accounts of administrators, and requests of administrators that create, *)
(* replace (PUT), patch and delete them.                                   *)
(*                                                                         *)
(* A request is authenticated first, with the actor's row as it is then.   *)
(* Later its transaction reads what it needs and checks it, and writes at  *)
(* its commit; what it writes to a row it updates is every field of it     *)
(* that is not NULL. Two requests may interleave between these steps.      *)
(***************************************************************************)
EXTENDS Integers, FiniteSets

CONSTANTS
    Id,        \* ids of accounts
    Reseller,
    NoReseller, \* the reseller_id NULL
    Role,
    Access,    \* acl_role_mappings: the roles each role has access to
    Handler    \* requests in flight

ASSUME AccessAssumption == /\ {"admin", "reseller"} \cap Role # {}
                           /\ Access \in [Role -> SUBSET Role]
ASSUME IdAssumption == Id # {}
ASSUME ResellerAssumption == NoReseller \notin Reseller
(* A role with access to another has access to all that one has access to; a *)
(* reseller has none to those that no reseller limits.                       *)
ASSUME HierarchyAssumption ==
    \A r, s \in Role : s \in Access[r] =>
        /\ Access[s] \subseteq Access[r]
        /\ r = "reseller" => s \notin {"admin", "system"}

None == [role |-> "none"]

Row == [role : Role, master : BOOLEAN, active : BOOLEAN,
        reseller : Reseller \cup {NoReseller}]

Field == {"role", "master", "active", "reseller"}

VARIABLES
    admins,   \* billing.admins: a row or None
    pc,       \* where each request is
    user,     \* its actor: id and row, as authenticated
    op,       \* "create", "update", "adjust" or "delete"
    target,   \* the ids it is about
    entity,   \* the row it will write
    field,    \* the field a patch names
    first,    \* history: the accounts at the start
    stale,    \* history: requests that saw rows written since
    raced     \* history: one of these has written

local == <<pc, user, op, target, entity, field>>
vars == <<admins, local, first, stale, raced>>

TypeOK == /\ admins \in [Id -> Row \cup {None}]
          /\ pc \in [Handler -> {"idle", "read", "write"}]
          /\ user \in [Handler -> [id : Id, row : Row \cup {None}]]
          /\ op \in [Handler -> {"create", "update", "adjust", "delete"}]
          /\ target \in [Handler -> SUBSET Id]
          /\ entity \in [Handler -> Row \cup {None}]
          /\ field \in [Handler -> Field]
          /\ stale \subseteq Handler
          /\ raced \in BOOLEAN

Exists(a) == admins[a] # None

Idle == [id |-> CHOOSE a \in Id : TRUE, row |-> None]

Init == /\ admins \in [Id -> Row \cup {None}]
        /\ pc = [h \in Handler |-> "idle"]
        /\ user = [h \in Handler |-> Idle]
        /\ op = [h \in Handler |-> "create"]
        /\ target = [h \in Handler |-> {}]
        /\ entity = [h \in Handler |-> None]
        /\ field = [h \in Handler |-> "role"]
        /\ first = admins
        /\ stale = {}
        /\ raced = FALSE

-----------------------------------------------------------------------------
(* reseller_id_required *)
ResellerRequired(u) == u.row.role = "reseller"

(* addPermissionCheckToQueryBuilder: without a reseller there is no filter. *)
Visible(u, a) ==
    /\ Exists(a)
    /\ IF u.row.master
       THEN /\ admins[a].role \in Access[u.row.role]
            /\ ResellerRequired(u) /\ u.row.reseller # NoReseller
                 => admins[a].reseller = u.row.reseller
       ELSE a = u.id

(* AclRole.hasPermission *)
HasPermission(u, role) ==
    /\ role \in Access[u.row.role]
    /\ u.row.role \in {"admin", "reseller"} => u.row.master

(* Mutant: the id of the actor is taken for the id of the reseller. *)
PopulatedWithActor(u, row) ==
    IF ResellerRequired(u) \/ row.reseller = NoReseller
    THEN [row EXCEPT !.reseller = u.id] ELSE row

(* Mutant: the reseller of the request is taken as it is. *)
PopulatedAsIs(u, row) == row

(* populateAdmin: the actor's reseller is given to the account, if he is one *)
(* of a reseller, and if the account has none.                               *)
Populated(u, row) ==
    IF ResellerRequired(u) \/ row.reseller = NoReseller
    THEN [row EXCEPT !.reseller = u.row.reseller] ELSE row

(* Mutant: an actor may take his own powers away. *)
SelfUpdateValidUnchecked(u, a, old, row) == TRUE

(* validateUpdate *)
SelfUpdateValid(u, a, old, row) ==
    a = u.id => \A f \in {"role", "master", "active"} : row[f] = old[f]

-----------------------------------------------------------------------------
(* The guards: the user is read from the database, must be active and of a *)
(* role that may write.                                                    *)
Authenticate(h) ==
    /\ pc[h] = "idle"
    /\ \E a \in Id : /\ Exists(a)
                     /\ admins[a].active
                     /\ admins[a].role \in {"admin", "system", "reseller"}
                     /\ user' = [user EXCEPT ![h] = [id |-> a, row |-> admins[a]]]
    /\ \E o \in {"create", "update", "adjust", "delete"} : op' = [op EXCEPT ![h] = o]
    /\ pc' = [pc EXCEPT ![h] = "read"]
    /\ stale' = stale \ {h}
    /\ UNCHANGED <<admins, target, entity, field, first, raced>>

(* Every check has passed: what is left is to write. *)
Proceed(h, ids, row, f) ==
    /\ pc' = [pc EXCEPT ![h] = "write"]
    /\ target' = [target EXCEPT ![h] = ids]
    /\ entity' = [entity EXCEPT ![h] = row]
    /\ field' = [field EXCEPT ![h] = f]
    /\ user' = [user EXCEPT ![h].row = None]
    /\ UNCHANGED <<admins, op, first, stale, raced>>

Create(h) ==
    /\ pc[h] = "read"
    /\ op[h] = "create"
    /\ \E row \in Row :
         /\ HasPermission(user[h], row.role)
         /\ Proceed(h, {}, Populated(user[h], row), "role")

(* AdminService.update of one row, for PUT and PATCH. *)
Update(h, a, row, f) ==
    /\ Visible(user[h], a)
    /\ HasPermission(user[h], row.role)
    /\ SelfUpdateValid(user[h], a, admins[a], row)
    /\ Proceed(h, {a}, Populated(user[h], row), f)

UpdateMany(h) ==
    /\ pc[h] = "read"
    /\ op[h] = "update"
    /\ \E a \in Id, row \in Row : Update(h, a, row, "role")

(* Mutant: what the patch does not name gets its default. *)
AdjustDefaults(h) ==
    /\ pc[h] = "read"
    /\ op[h] = "adjust"
    /\ \E a \in Id, row \in Row, f \in Field :
         /\ Exists(a)
         /\ Update(h, a, [admins[a] EXCEPT ![f] = row[f], !.active = TRUE], f)

(* patchToEntity: the row as it was read, with the patch applied. *)
Adjust(h) ==
    /\ pc[h] = "read"
    /\ op[h] = "adjust"
    /\ \E a \in Id, row \in Row, f \in Field :
         /\ Exists(a)
         /\ Update(h, a, [admins[a] EXCEPT ![f] = row[f]], f)

Delete(h) ==
    /\ pc[h] = "read"
    /\ op[h] = "delete"
    /\ \E ids \in SUBSET Id :
         /\ user[h].id \notin ids
         /\ \A a \in ids : Visible(user[h], a)
         /\ Proceed(h, ids, None, "role")

(* An UPDATE does not write what is NULL. *)
Updated(old, row) ==
    IF row.reseller = NoReseller THEN [row EXCEPT !.reseller = old.reseller] ELSE row

(* What the rows are after the write of h, which inserted at id a. *)
Written(h, a) ==
    CASE op[h] = "create" -> [admins EXCEPT ![a] = entity[h]]
      [] op[h] = "delete" -> [b \in Id |-> IF b \in target[h] THEN None ELSE admins[b]]
      [] OTHER -> [b \in Id |-> IF b \in target[h] /\ Exists(b)
                               THEN Updated(admins[b], entity[h]) ELSE admins[b]]

(* The transaction commits. *)
Write(h) ==
    /\ pc[h] = "write"
    /\ \E a \in Id : /\ op[h] = "create" => ~Exists(a)
                     /\ admins' = Written(h, a)
    /\ pc' = [pc EXCEPT ![h] = "idle"]
    /\ user' = [user EXCEPT ![h] = Idle]
    /\ op' = [op EXCEPT ![h] = "create"]
    /\ target' = [target EXCEPT ![h] = {}]
    /\ entity' = [entity EXCEPT ![h] = None]
    /\ field' = [field EXCEPT ![h] = "role"]
    /\ stale' = {g \in Handler : g # h /\ pc[g] # "idle"}
    /\ raced' = (raced \/ h \in stale)
    /\ UNCHANGED first

(* A check that fails answers 403, 404 or 422; a failed statement rolls back. *)
Refuse(h) ==
    /\ pc[h] # "idle"
    /\ pc' = [pc EXCEPT ![h] = "idle"]
    /\ user' = [user EXCEPT ![h] = Idle]
    /\ op' = [op EXCEPT ![h] = "create"]
    /\ target' = [target EXCEPT ![h] = {}]
    /\ entity' = [entity EXCEPT ![h] = None]
    /\ field' = [field EXCEPT ![h] = "role"]
    /\ stale' = stale \ {h}
    /\ UNCHANGED <<admins, first, raced>>

Next == \E h \in Handler : \/ Authenticate(h) \/ Create(h) \/ UpdateMany(h) \/ Adjust(h)
                           \/ Delete(h) \/ Write(h) \/ Refuse(h)

Spec == Init /\ [][Next]_vars

-----------------------------------------------------------------------------
(* What a PATCH by h leaves in a field it does not name. *)
Kept(h, a, f) ==
    IF f = "reseller" /\ admins[a].reseller = NoReseller
    THEN admins[user[h].id].reseller ELSE admins[a][f]

(* A row whose account may make, change and delete the other: a reseller's   *)
(* account those of its reseller, and any if its own reseller is NULL.       *)
Rules(row, other) ==
    /\ row # None
    /\ row.role \in {"admin", "system", "reseller"}
    /\ row.role # "system" => row.master
    /\ other.role \in Access[row.role]
    /\ row.role = "reseller" => row.reseller \in {NoReseller, other.reseller}

(* Through any number of accounts made or changed in between, and although *)
(* an actor may lose his rights while his request runs, nobody does what    *)
(* no account could do at the start: what a row has become, and what it     *)
(* was, was for some account of the start to rule (getAdminOptions... and   *)
(* populateAdmin of admin.service.ts).                                      *)
Confined ==
    \A a \in Id : admins[a] # first[a] =>
        \A row \in {admins[a], first[a]} \ {None} : \E b \in Id : Rules(first[b], row)

(* Whatever master account there was at the start, some account that can be *)
(* used still rules its like, as actors cannot delete or disable themselves  *)
(* (154-155 and 235-248): unless requests raced, when two actors can remove  *)
(* each other.                                                               *)
NeverLockedOut ==
    ~raced => \A b \in Id :
        first[b] # None /\ first[b].active /\ Rules(first[b], first[b])
            => \E a \in Id : Exists(a) /\ admins[a].active /\ Rules(admins[a], first[b])

(* A PATCH changes nothing but the field it names, unless the row was       *)
(* written since it was read: all fields are written back (patchToEntity).  *)
(* The one other that changes is a reseller that was NULL: it becomes the   *)
(* actor's, whatever the PATCH is about (populateAdmin).                    *)
PatchKeeps ==
    [][\A h \in Handler, a \in Id :
           /\ pc[h] = "write" /\ pc'[h] = "idle" /\ admins' # admins
           /\ op[h] = "adjust" /\ a \in target[h] /\ h \notin stale
           => \A f \in Field \ {field[h]} : admins'[a][f] = Kept(h, a, f)]_vars
=============================================================================
