------------------------------ MODULE Customers ------------------------------
(***************************************************************************)
(* Customers, their contacts and what they are charged by                  *)
(* (api/customers, api/contacts, api/customercontacts).  A customer row    *)
(* names a contact and perhaps a profile package; which billing profile    *)
(* charges it is kept by a stored procedure as a schedule of mappings, of  *)
(* which the newest one begun counts.                                      *)
(*                                                                         *)
(* A request is a transaction (REPEATABLE READ): one step reads and checks *)
(* a snapshot, a later one writes what was decided and commits.  A PATCH   *)
(* and a DELETE write back every column they read, a PUT those it was sent.*)
(* One request carries at most one mapping; networks, and intervals that   *)
(* are over when they are stored, are left out.  Any request may be        *)
(* refused for reasons not modelled; nothing of it is then kept.           *)
(***************************************************************************)
EXTENDS Naturals, Sequences, SequencesExt, FiniteSets

CONSTANTS
    Customer, Contact, Reseller, Profile, Package, Request,
    None,
    Edited,           \* bound: the contacts that requests update
    FirstReseller,    \* the reseller each contact begins with
    ProfileReseller,  \* billing_profiles.reseller_id
    PackageProfile,   \* the initial profile of a package
    ScheduleBound     \* bound: mappings of one customer kept by the schedule

ASSUME CatalogueAssumption ==
    /\ FirstReseller \in [Contact -> Reseller]
    /\ ProfileReseller \in [Profile -> Reseller]
    /\ PackageProfile \in [Package -> Profile]
ASSUME BoundAssumption == ScheduleBound \in Nat /\ Edited \subseteq Contact
ASSUME NoneAssumption == None \notin Customer \cup Contact \cup Profile \cup Package

VARIABLES
    contact,   \* contacts: [status, reseller], or None when deleted
    customer,  \* contracts: [status, contact, package], or None
    begun,     \* the schedule: mappings that have begun, the newest last
    later,     \* the schedule: mappings that begin later
    req,       \* the transaction of each request, None when there is none
    made,      \* history: how each customer was created
    excuse     \* history: what else happened to a customer

schedule == <<begun, later>>
history == <<made, excuse>>
vars == <<contact, customer, schedule, req, history>>

-----------------------------------------------------------------------------
(* Data. *)

ContactRow == [status: {"active", "terminated"}, reseller: Reseller]

(* pending, active and locked are one status. *)
CustomerRow == [status: {"active", "terminated"},
                contact: Contact, package: Package \cup {None}]

(* A mapping has an end date or not; a proposed one begins at once or later. *)
Mapping == [profile: Profile, ends: BOOLEAN]
Proposal == [profile: Profile, ends: BOOLEAN, future: BOOLEAN]

(* billing_profile_definition *)
Definition == {"id", "profiles", "package"}

Made == {"undefined", "later", "now"}

(* overridden: a profile was set beside the package the row names, or a     *)
(* stale package was written back; rehomed: the reseller of the contact     *)
(* changed under its mappings; orphaned: its contact was terminated after   *)
(* it was checked.                                                          *)
Excuse == {"overridden", "rehomed", "orphaned"}

(* What a transaction read; the body of the request is chosen at its commit. *)
CreateRequest == [op: {"create"}, c: Customer, k: Contact, read: ContactRow]
UpdateRequest == [op: {"update"}, c: Customer, k: Contact, read: ContactRow,
                  status: {"active", "terminated"}, held: Package \cup {None},
                  charged: Profile]
DeleteRequest == [op: {"delete"}, c: Customer, old: CustomerRow]
DropRequest == [op: {"drop"}, k: Contact]

ASSUME NoRowAssumption ==
    /\ None \notin ContactRow /\ None \notin CustomerRow /\ None \notin Proposal
    /\ None \notin Made

OpenFirst(s) == \A i \in 2 .. Len(s) : s[i].ends

TypeOK ==
    /\ contact \in [Contact -> ContactRow \cup {None}]
    /\ customer \in [Customer -> CustomerRow \cup {None}]
    /\ begun \in [Customer -> Seq(Mapping)]
    /\ \A c \in Customer : OpenFirst(begun[c])
    /\ later \in [Customer -> SUBSET Mapping]
    /\ req \in [Request -> {None} \cup CreateRequest \cup UpdateRequest
                               \cup DeleteRequest \cup DropRequest]
    /\ made \in [Customer -> Made \cup {None}]
    /\ excuse \in [Customer -> SUBSET Excuse]

Present(c) == customer[c] # None
Active(k) == contact[k] # None /\ contact[k].status = "active"

(* v_actual_billing_profiles: the profile in force, if there is one. *)
Effective(c) == IF begun[c] = <<>> THEN None ELSE Last(begun[c]).profile

ProfilesOf(r) == {p \in Profile : ProfileReseller[p] = r}

(* Mutant: packages of other resellers are taken. *)
PackagesOfAny(r) == Package

PackagesOf(r) == {g \in Package : ProfileReseller[PackageProfile[g]] = r}

AtOnce(p) == [profile |-> p, ends |-> FALSE, future |-> FALSE]
Fresh(m) == m # None /\ ~m.future /\ ~m.ends
Strip(m) == [profile |-> m.profile, ends |-> m.ends]

RoomFor(c) == Len(begun[c]) + Cardinality(later[c]) < ScheduleBound

(* Mutant: the time given is not the present but the beginning. *)
ScheduleFromStart(c, m, delete) ==
    /\ begun' = [begun EXCEPT ![c] = IF m = None THEN @
                                     ELSE IF m.future THEN <<>>
                                     ELSE <<Strip(m)>>]
    /\ later' = [later EXCEPT ![c] = IF m # None /\ m.future THEN {Strip(m)} ELSE {}]

(* schedule_contract_billing_profile_network: with a time, what begins after *)
(* it is deleted; then the mapping is added.                                 *)
Schedule(c, m, delete) ==
    /\ begun' = [begun EXCEPT ![c] = IF m = None \/ m.future THEN @
                                     ELSE IF m.ends THEN Append(@, Strip(m))
                                     ELSE <<Strip(m)>>]
    /\ later' = [later EXCEPT ![c] =
                    (IF delete THEN {} ELSE @)
                    \cup (IF m # None /\ m.future THEN {Strip(m)} ELSE {})]

Init ==
    /\ contact = [k \in Contact |-> [status |-> "active", reseller |-> FirstReseller[k]]]
    /\ customer = [c \in Customer |-> None]
    /\ begun = [c \in Customer |-> <<>>]
    /\ later = [c \in Customer |-> {}]
    /\ req = [h \in Request |-> None]
    /\ made = [c \in Customer |-> None]
    /\ excuse = [c \in Customer |-> {}]

Begin(h, r) == /\ req[h] = None
               /\ req' = [req EXCEPT ![h] = r]
               /\ UNCHANGED <<contact, customer, schedule, history>>

Answer(h) == req' = [req EXCEPT ![h] = None]

(* An error after the checks: the transaction is rolled back. *)
Refuse(h) == req[h] # None /\ Answer(h) /\ UNCHANGED <<contact, customer, schedule, history>>

-----------------------------------------------------------------------------
(* Customers.  Each operation reads and checks, then commits or is refused. *)

(* What the body may ask for, with a contact of reseller r: a package for   *)
(* the row and a mapping for the schedule.  Without billing_profile_        *)
(* definition the mapping is not made, whatever else the body holds.        *)
CreateChoice(r) ==
    {<<g, None>> : g \in Package \cup {None}}
    \cup {<<None, AtOnce(p)>> : p \in ProfilesOf(r)}
    \cup {<<g, AtOnce(PackageProfile[g])>> : g \in PackagesOf(r)}
    \cup {<<None, m>> : m \in {n \in Proposal : /\ n.profile \in ProfilesOf(r)
                                               /\ (n.future \/ ~n.ends)}}

(* Mutant: the contact may be terminated. *)
CreateUnchecked(h) ==
    \E c \in Customer, k \in Contact :
        /\ ~Present(c) /\ contact[k] # None
        /\ Begin(h, [op |-> "create", c |-> c, k |-> k, read |-> contact[k]])

Create(h) ==
    \E c \in Customer, k \in Contact :
        /\ ~Present(c) /\ Active(k)
        /\ Begin(h, [op |-> "create", c |-> c, k |-> k, read |-> contact[k]])

(* history: the contact changed after the transaction read it. *)
Overtaken(r) ==
    {x \in {"orphaned"} : r.read.status = "active" /\ ~Active(r.k)}
    \cup {x \in {"rehomed"} : r.read.reseller # contact[r.k].reseller}

(* The row (its id is new), its mapping and its first balance are inserted; *)
(* the foreign key refuses a contact that is gone.                          *)
CommitCreate(h) ==
    LET r == req[h] IN
    /\ r # None /\ r.op = "create"
    /\ ~Present(r.c) /\ contact[r.k] # None
    /\ \E choice \in CreateChoice(r.read.reseller) :
          LET m == choice[2] IN
          /\ customer' = [customer EXCEPT ![r.c] =
                [status |-> "active", contact |-> r.k, package |-> choice[1]]]
          /\ Schedule(r.c, m, FALSE)
          /\ made' = [made EXCEPT ![r.c] = IF m = None THEN "undefined"
                                           ELSE IF Fresh(m) THEN "now" ELSE "later"]
    /\ excuse' = [excuse EXCEPT ![r.c] = Overtaken(r)]
    /\ Answer(h)
    /\ UNCHANGED contact

(* Mutant: the update to a package does not add its mappings. *)
UpdateChoiceRowOnly(r) ==
    {<<"id", r.held, None>>}
    \cup {<<"package", g, None>> : g \in PackagesOf(r.read.reseller)}

(* As CreateChoice, with the definition.  The profile in force and the package *)
(* the row has need no mapping and are not checked against the contact.       *)
UpdateChoice(r) ==
    LET own == ProfilesOf(r.read.reseller) IN
    {<<"id", r.held, None>>}
    \cup {<<"id", r.held, AtOnce(p)>> : p \in own \ {r.charged}}
    \cup {<<"profiles", r.held, m>> : m \in {n \in Proposal : n.profile \in own}}
    \cup {<<"package", g, AtOnce(PackageProfile[g])>> :
              g \in PackagesOf(r.read.reseller) \ {r.held}}
    \cup {<<"package", g, None>> : g \in {r.held} \ {None}}

BeginUpdate(h, c, k) ==
    Begin(h, [op |-> "update", c |-> c, k |-> k, read |-> contact[k],
              status |-> customer[c].status, held |-> customer[c].package,
              charged |-> Effective(c)])

(* PATCH and PUT.  Reading by id drops the filter on terminated customers, *)
(* and fails when no profile is in force.                                  *)
Update(h) ==
    \E c \in Customer, k \in Contact :
        /\ Present(c) /\ begun[c] # <<>>
        /\ Active(k)
        /\ BeginUpdate(h, c, k)

(* A PATCH writes back all it read and may keep the status; a PUT sets a     *)
(* package only with that definition.                                        *)
Written(r, now, op, s, by, g) ==
    [status |-> s,
     contact |-> r.k,
     package |-> IF op = "patch" \/ by = "package" THEN g ELSE now.package]

(* history: what the commit of `row' over `now' adds and, as a new mapping  *)
(* without end replaces all others, what it makes good.                     *)
UpdateExcuse(r, now, row, by, m) ==
    Overtaken(r)
    \cup {x \in {"overridden"} :
             /\ row.package # None
             /\ IF Fresh(m) THEN by # "package"
                ELSE m # None \/ r.held # now.package \/ x \in excuse[r.c]}
    \cup {x \in {"rehomed"} : ~Fresh(m) /\ (r.k # now.contact \/ x \in excuse[r.c])}

(* The row is updated, then the schedule. *)
CommitUpdate(h) ==
    LET r == req[h]
        now == customer[r.c] IN
    /\ r # None /\ r.op = "update"
    /\ contact[r.k] # None
    /\ \E op \in {"patch", "put"}, choice \in UpdateChoice(r) :
       \E s \in {"active"} \cup (IF op = "patch" THEN {r.status} ELSE {}) :
          LET by == choice[1]
              m == choice[3]
              row == Written(r, now, op, s, by, choice[2]) IN
          /\ m # None => RoomFor(r.c)
          /\ customer' = [customer EXCEPT ![r.c] = row]
          /\ Schedule(r.c, m, m # None)
          /\ excuse' = [excuse EXCEPT ![r.c] = UpdateExcuse(r, now, row, by, m)]
    /\ Answer(h)
    /\ UNCHANGED <<contact, made>>

(* DELETE terminates: the row read by the ids, terminated or not, is written *)
(* back with the status.                                                     *)
Terminate(h) ==
    \E c \in Customer : /\ Present(c)
                        /\ Begin(h, [op |-> "delete", c |-> c, old |-> customer[c]])

CommitTerminate(h) ==
    LET r == req[h] IN
    /\ r # None /\ r.op = "delete"
    /\ contact[r.old.contact] # None
    /\ customer' = [customer EXCEPT ![r.c] =
                       [r.old EXCEPT !.status = "terminated"]]
    /\ excuse' = [excuse EXCEPT ![r.c] =
          @ \cup {x \in {"overridden"} : r.old.package \notin {None, customer[r.c].package}}
            \cup {x \in {"rehomed"} : r.old.contact # customer[r.c].contact}]
    /\ Answer(h)
    /\ UNCHANGED <<contact, schedule, made>>

-----------------------------------------------------------------------------
(* Contacts. *)

(* PATCH and PUT: the customers of a contact are not asked when its status or *)
(* reseller change.  What a PATCH read and writes back late is some row too.  *)
UpdateContact(k) ==
    \E row \in ContactRow \ {contact[k]} :
        /\ contact[k] # None
        /\ contact' = [contact EXCEPT ![k] = row]
        /\ excuse' = [c \in Customer |->
              IF ~Present(c) \/ customer[c].contact # k THEN excuse[c]
              ELSE excuse[c]
                   \cup {x \in {"orphaned"} : row.status = "terminated"}
                   \cup {x \in {"rehomed"} : row.reseller # contact[k].reseller}]
        /\ UNCHANGED <<customer, schedule, req, made>>

(* 423 while a customer of the contact is not terminated. *)
DropContact(h) ==
    \E k \in Contact :
        /\ contact[k] # None
        /\ \A c \in Customer : Present(c) /\ customer[c].contact = k
                              => customer[c].status = "terminated"
        /\ Begin(h, [op |-> "drop", k |-> k])

(* The row is deleted, though just set to terminated if it has terminated   *)
(* customers: the foreign key then refuses, and takes the status back too.  *)
CommitDrop(h) ==
    LET r == req[h] IN
    /\ r # None /\ r.op = "drop"
    /\ \A c \in Customer : Present(c) => customer[c].contact # r.k
    /\ contact' = [contact EXCEPT ![r.k] = None]
    /\ Answer(h)
    /\ UNCHANGED <<customer, schedule, history>>

-----------------------------------------------------------------------------
(* Time. *)

MappingBegins(c) ==
    \E m \in later[c] :
        /\ begun' = [begun EXCEPT ![c] = IF m.ends THEN Append(@, m) ELSE <<m>>]
        /\ later' = [later EXCEPT ![c] = @ \ {m}]
        /\ UNCHANGED <<contact, customer, req, history>>

MappingEnds(c) ==
    \E i \in DOMAIN begun[c] :
        /\ begun[c][i].ends
        /\ begun' = [begun EXCEPT ![c] = RemoveAt(@, i)]
        /\ UNCHANGED <<contact, customer, later, req, history>>

Commit(h) == \/ CommitCreate(h) \/ CommitUpdate(h) \/ CommitTerminate(h)
             \/ CommitDrop(h)

Next == \/ \E h \in Request : \/ Create(h) \/ Update(h) \/ Terminate(h)
                              \/ DropContact(h) \/ Commit(h) \/ Refuse(h)
        \/ \E k \in Edited : UpdateContact(k)
        \/ \E c \in Customer : MappingBegins(c) \/ MappingEnds(c)

Spec == Init /\ [][Next]_vars

-----------------------------------------------------------------------------
(* A customer created with a mapping that began at once always has a profile *)
(* in force, whatever updates, deletes of future mappings and ends of        *)
(* intervals come later; so reading it, and listing all customers, works     *)
(* (customer.mariadb.repository.ts 193-196, 231-234).                        *)
Charged == \A c \in Customer : made[c] = "now" => begun[c] # <<>>

(* Every profile in a customer's schedule belongs to the reseller of its     *)
(* contact, unless the contact's reseller changed, or the customer's contact,*)
(* without a new mapping without end.                                        *)
ResellerMatches ==
    \A c \in Customer : Present(c) /\ "rehomed" \notin excuse[c] =>
        \A m \in later[c] \cup {begun[c][i] : i \in DOMAIN begun[c]} :
            ProfileReseller[m.profile] = contact[customer[c].contact].reseller

(* A customer that names a package is charged by it, and will be, unless a  *)
(* profile was set beside it (which leaves the package named) or a request  *)
(* wrote back a package it read before another changed it.                  *)
PackageCharged ==
    \A c \in Customer :
        Present(c) /\ begun[c] # <<>> /\ "overridden" \notin excuse[c] =>
            LET g == customer[c].package
            IN  g # None => Effective(c) = PackageProfile[g] /\ later[c] = {}

(* The contact of a customer exists, and is active unless the customer is   *)
(* terminated or the contact was terminated by an update of it, after the   *)
(* last request that wrote the customer had checked it.                     *)
ContactActive ==
    \A c \in Customer : Present(c) =>
        LET k == customer[c].contact IN
        /\ contact[k] # None
        /\ customer[c].status = "terminated" \/ "orphaned" \in excuse[c] \/ Active(k)

(* "The billing profile id used to charge this contract, required if        *)
(* billing_profile_definition is undefined or id" (customer-request.dto.ts  *)
(* 48; is-valid-customer-billing-profile-definition.ts 39): a customer      *)
(* created without the definition is charged by the profile it was given.   *)
ChargedByDefault == \A c \in Customer : made[c] = "undefined" => begun[c] # <<>>
=============================================================================
