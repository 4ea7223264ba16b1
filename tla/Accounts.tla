------------------------------ MODULE Accounts ------------------------------
(***************************************************************************)
(* Contacts, contracts and resellers (api/contacts, customercontacts,      *)
(* systemcontacts, contracts, resellers).  A contact of a reseller is a    *)
(* customer contact, one without is a system contact; a contract names a   *)
(* contact, a reseller names a contract.  Three resources share the table  *)
(* of contacts.  Contracts and resellers are for callers that see all.     *)
(*                                                                         *)
(* POST of contacts inserts into the table of administrators and fails,    *)
(* and there is no DELETE of contracts and resellers.                      *)
(***************************************************************************)
EXTENDS Store

CONSTANTS Contacts, Contracts, Resellers, \* ids
          Names,       \* that are asked for resellers, some of them like OldName
          FirstProduct \* what a contract without type gets

Statuses == {"active", "terminated"}

Products == {FirstProduct, "reseller"}

AccountCallers == {Admin} \cup Resellers

-----------------------------------------------------------------------------
\* The tables.  The name of a terminated reseller may be taken from it: it is
\* called old_<id>_<name> then, as any other reseller may be, too.

ContactRows == [reseller: Resellers \cup {None}, status: Statuses]

ContractRows == [contact: Contacts, status: Statuses, product: Products]

OldName(r, n) == <<"old", r, n>>

ResellerRows(r) ==
  [contract: Contracts, status: Statuses, name: Names \cup {OldName(r, n) : n \in Names}]

-----------------------------------------------------------------------------
\* What requests may say, and what answers show.  What is left out of a body of
\* a contact is None.

ContactBodies == [reseller: Resellers \cup {None}, status: Statuses]

CustomerContactBodies == [reseller: Resellers \cup {None}, status: Statuses]

SystemContactBodies == [reseller: {None}, status: Statuses]

ContractBodies == [contact: Contacts, status: Statuses, product: Products]

ResellerBodies == [contract: Contracts, name: Names, status: Statuses]

ContactResponse == {"reseller", "status"}

\* A reseller is not shown whose a contact is.
CustomerContactResponse(who) ==
  IF who = Admin THEN {"reseller", "status"} ELSE {"status"}

SystemContactResponse == {"status"}

\* The type of a contract is known from its product, which read() does not join.
ContractResponse == {"contact", "status"}

ResellerResponse == {"contract", "name", "status"}

-----------------------------------------------------------------------------
\* Contacts

AllContacts == {k \in Contacts : Exists(k)}

SystemContacts == {k \in Contacts : Exists(k) /\ row[k].reseller = None}

\* The customer contacts that a caller sees: with a role of a reseller, its own.
CustomerContacts(who) ==
  {k \in Contacts : /\ Exists(k)
                    /\ row[k].reseller \in IF who = Admin THEN Resellers ELSE {who}}

\* findOneBy({id: undefined}) finds any reseller.
ResellerKnown(r) == IF r = None THEN \E s \in Resellers : Exists(s) ELSE Exists(r)

\* Only a change of reseller is checked, not one between the kinds of contact.
ContactChangeable(k, new) == row[k].reseller = new.reseller \/ ResellerKnown(new.reseller)

SystemContactChangeable(k, new) == new.reseller = None /\ row[k].reseller = None

ContactWrite(w, shown) == Rewritten(w, [k \in DOMAIN w.upd |-> Given(w.upd[k])], shown)

WriteContacts(h) ==
  \E w \in Writes(AllContacts, ContactBodies) :
    /\ \A k \in DOMAIN w.upd : ContactChangeable(k, w.upd[k])
    /\ Begin(h, ContactWrite(w, ContactResponse))

\* A reseller's update keeps the contact its own.
OwnContacts(who, upd) ==
  IF who = Admin THEN upd ELSE [k \in DOMAIN upd |-> [upd[k] EXCEPT !.reseller = who]]

WriteCustomerContacts(h) ==
  \E who \in AccountCallers : \E v \in Writes(CustomerContacts(who), CustomerContactBodies) :
    LET w == [v EXCEPT !.upd = OwnContacts(who, v.upd)]
    IN  /\ \A k \in DOMAIN w.upd : ContactChangeable(k, w.upd[k])
        /\ Begin(h, ContactWrite(w, CustomerContactResponse(who)))

WriteSystemContacts(h) ==
  \E w \in Writes(SystemContacts, SystemContactBodies) :
    /\ \A k \in DOMAIN w.upd : SystemContactChangeable(k, w.upd[k])
    /\ Begin(h, ContactWrite(w, SystemContactResponse))

ContractsOf(k) == {c \in Contracts : Exists(c) /\ row[c].contact = k}

\* 423: something that is not terminated names the contact.
Locked(k) == \E c \in ContractsOf(k) : row[c].status # "terminated"

\* A contact of a terminated contract is terminated, and deleted all the same.
DeletesContacts(D) ==
  [Delete(D) EXCEPT
     !.upd = [k \in {k \in D : ContractsOf(k) # {}} |-> [status |-> "terminated"]],
     !.reads = Contracts]

DeleteContacts(h) ==
  \E D \in Batches(AllContacts) :
    /\ \A k \in D : ~Locked(k)
    /\ Begin(h, DeletesContacts(D))

DeleteCustomerContacts(h) ==
  \E who \in AccountCallers : \E D \in Batches(CustomerContacts(who)) :
    /\ \A k \in D : ~Locked(k)
    /\ Begin(h, DeletesContacts(D))

DeleteSystemContacts(h) == \E D \in Batches(SystemContacts) : Begin(h, Delete(D))

ContactHandlers(h) == WriteContacts(h) \/ DeleteContacts(h)

CustomerContactHandlers(h) == WriteCustomerContacts(h) \/ DeleteCustomerContacts(h)

SystemContactHandlers(h) == WriteSystemContacts(h) \/ DeleteSystemContacts(h)

-----------------------------------------------------------------------------
\* Contracts

\* readActiveSystemContact
Usable(k) == k \in SystemContacts /\ row[k].status # "terminated"

CreateContracts(h) ==
  \E c \in Fresh(Contracts), b \in ContractBodies :
    /\ Usable(b.contact)
    /\ Begin(h, Post(One(c, b)))

\* The contact is checked if it changes.
ContractChangeable(c, new) == new.contact # row[c].contact => Usable(new.contact)

(* The product follows from the type of the request, and a row as it is     *)
(* read, without its product, has none: a PATCH that does not name the type *)
(* makes it the first product.                                              *)
Retyped(w) ==
  IF w.field \in {None, "product"} THEN w.upd
  ELSE [c \in DOMAIN w.upd |-> [w.upd[c] EXCEPT !.product = FirstProduct]]

AllContracts == {c \in Contracts : Exists(c)}

WriteContracts(h) ==
  \E w \in Writes(AllContracts, ContractBodies) :
    /\ \A c \in DOMAIN w.upd : ContractChangeable(c, w.upd[c])
    /\ Begin(h, Rewritten(w, Retyped(w), ContractResponse))

ContractHandlers(h) == CreateContracts(h) \/ WriteContracts(h)

-----------------------------------------------------------------------------
\* Resellers

AllResellers == {r \in Resellers : Exists(r)}

Named(n) == {r \in AllResellers : row[r].name = n}

HasReseller(c) == \E r \in AllResellers : row[r].contract = c

HasSystemContact(c) == row[row[c].contact].reseller = None

\* Mutant: the contract of another reseller will do.
ContractFound(c) == Exists(c) /\ HasSystemContact(c)

\* The contract has no reseller yet, and its contact none either.
ContractFree(c) == Exists(c) /\ ~HasReseller(c) /\ HasSystemContact(c)

ResellerReads == Resellers \cup Contracts \cup Contacts

\* The terminated resellers whose names a new one gets are renamed.
Renamed(t) == [name |-> OldName(t, row[t].name)]

\* readByName: any one of those that have the name.
FoundByName(t, n) == IF Named(n) = {} THEN t = None ELSE t \in Named(n)

\* Each is checked as if the others of the request were not there.
ResellerCreatable(new, found) ==
  /\ ContractFree(new.contract)
  /\ FoundByName(found, new.name)
  /\ found # None => row[found].status = "terminated"

\* Only one is looked at of those who have the name already.
Shared(n) == \E t, s \in Named(n) : t # s

(* Bound: no name that two have, or that the batch makes by renaming, is    *)
(* asked for in a batch of several; those would look at what the batch has  *)
(* renamed so far.                                                          *)
CreateResellers(h) ==
  \E S \in Batches(Fresh(Resellers)) :
    \E body \in [S -> ResellerBodies], found \in [S -> Resellers \cup {None}] :
      /\ \A r \in S : ResellerCreatable(body[r], found[r])
      /\ \A r, s \in S : r # s => /\ ~Shared(body[r].name)
                                 /\ body[s].name # OldName(found[r], body[r].name)
      /\ LET taken == {found[r] : r \in S} \ {None}
         IN  Begin(h, [Post(body) EXCEPT !.upd = [t \in taken |-> Renamed(t)],
                                         !.reads = ResellerReads,
                                         !.batch = \E r, s \in S : r # s \/ Shared(body[r].name)])

ResellerChangeable(r, new) ==
  /\ new.contract # row[r].contract => ContractFree(new.contract)
  /\ new.name # row[r].name => Named(new.name) = {}

WriteResellers(h) ==
  \E w \in Writes(AllResellers, ResellerBodies) :
    /\ \A r \in DOMAIN w.upd : ResellerChangeable(r, w.upd[r])
    /\ Begin(h, [w EXCEPT !.shows = ResellerResponse, !.reads = ResellerReads,
                          !.batch = \E r, s \in DOMAIN w.upd : r # s])

ResellerHandlers(h) == CreateResellers(h) \/ WriteResellers(h)

-----------------------------------------------------------------------------
AccountRow(i, r) ==
  /\ i \in Contacts => r \in ContactRows
  /\ i \in Contracts => r \in ContractRows
  /\ i \in Resellers => r \in ResellerRows(i)

Renames(r) == {OldName(r, n) : n \in Names}

\* Of resellers r and s with rows p and q.
NamedApart(r, p, s, q) == p.name = q.name => p.name \in Renames(r) \cup Renames(s)

Apart(rows, S) ==
  \A r, s \in {r \in S : rows[r] # None} :
    r # s => /\ rows[r].contract # rows[s].contract
             /\ NamedApart(r, rows[r], s, rows[s])

(* No two resellers have a contract in common, nor a name, unless it is     *)
(* what the renaming of one of them makes: renaming does not ask whether    *)
(* somebody has that already.  Nor does it hold of what one batch or        *)
(* overlapping requests wrote, or of who got a name that several had.  A    *)
(* reseller is found by its name, its customers billed under its contract.  *)
ResellersApart == Apart(row, Resellers \ odd)
=============================================================================
