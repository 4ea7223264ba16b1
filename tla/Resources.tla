----------------------------- MODULE Resources -----------------------------
(***************************************************************************)
(* Accounts, NCOS, phonebooks and customers' data over the rows, requests  *)
(* and journals they share.  Their rows have nothing to do with each       *)
(* other, so a behaviour has the requests of one of them.                  *)
(***************************************************************************)
EXTENDS Accounts, Ncos, Phonebooks, CustomerData

CONSTANTS RequestBound, \* bound: requests of a behaviour, for each api
          First         \* bound: the rows a behaviour begins with, likewise

Tables == <<Contacts, Contracts, Resellers, Sets, SetLevels, Levels, Patterns, Preferences,
            Entries, SpeedDials, Balances, Templates, Voicemails>>

\* r is a row that the table of i may have.
Fits(i, r) == AccountRow(i, r) /\ NcosRow(i, r) /\ EntryRow(i, r) /\ CustomerDataRow(i, r)

RowsOK(rows) == \A i \in Ids : rows[i] # None => Fits(i, rows[i])

\* Every id is that of a row of one table, and neither it nor a row is None.
ASSUME TablesAssumption ==
  /\ None \notin Ids
  /\ Ids = UNION {Tables[m] : m \in DOMAIN Tables}
  /\ \A m, n \in DOMAIN Tables : m # n => Tables[m] \cap Tables[n] = {}
  /\ \A i \in Ids : ~Fits(i, None)

\* What a behaviour begins with: rows that the schema and the handlers allow.
ASSUME FirstAssumption ==
  \A a1 \in DOMAIN First : \A rows \in First[a1] :
    RowsOK(rows) /\ ForeignKeys(rows) /\ Apart(rows, Resellers) /\ Live(rows, Preferences)

VARIABLES api,  \* whose requests a behaviour has
          begun \* how many it has had

vars == <<row, req, late, told, untold, odd, api, begun>>

Apis == DOMAIN First

Init ==
  /\ api \in Apis
  /\ row \in First[api]
  /\ req = [h \in Requests |-> None] /\ late = {}
  /\ told = [i \in Ids |-> None]
  /\ untold = {} /\ odd = {}
  /\ begun = 0

AccountHandlers(h) ==
  \/ api = "contacts" /\ ContactHandlers(h)
  \/ api = "customercontacts" /\ CustomerContactHandlers(h)
  \/ api = "systemcontacts" /\ SystemContactHandlers(h)
  \/ api = "contracts" /\ (ContractHandlers(h) \/ WriteContacts(h))
  \/ api = "resellers" /\ ResellerHandlers(h)

NcosHandlers(h) ==
  \/ api = "ncos/sets" /\ (SetHandlers(h) \/ Assign(h))
  \/ api = "ncos/sets/levels" /\ (SetHandlers(h) \/ SetLevelHandlers(h))
  \/ api = "ncos/levels" /\ (LevelHandlers(h) \/ SetLevelHandlers(h))
  \/ api = "ncos/patterns" /\ (PatternHandlers(h) \/ LevelHandlers(h))

PhonebookHandlers(h) ==
  \/ api = "resellers/phonebook" /\ (PostResellerEntries(h) \/ ResellerEntryHandlers(h))
  \/ api = "customers/phonebook" /\ (PostCustomerEntries(h) \/ CustomerEntryHandlers(h))
  \/ api = "subscribers/phonebook" /\ (PostSubscriberEntries(h) \/ SubscriberEntryHandlers(h))

CustomerDataHandlers(h) ==
  \/ api = "customerspeeddials" /\ SpeedDialHandlers(h)
  \/ api = "customers/balances" /\ BalanceHandlers(h)
  \/ api = "templates/invoices" /\ TemplateHandlers(h)
  \/ api = "voicemails" /\ VoicemailHandlers(h)

Handle(h) ==
  /\ begun < RequestBound[api]
  /\ begun' = begun + 1
  /\ AccountHandlers(h) \/ NcosHandlers(h)
     \/ PhonebookHandlers(h) \/ CustomerDataHandlers(h)
  /\ UNCHANGED api

Next ==
  \/ \E h \in Requests : Handle(h)
  \/ StoreNext /\ UNCHANGED <<api, begun>>

Spec == Init /\ [][Next]_vars

-----------------------------------------------------------------------------
\* A request in progress names rows of its tables, and does one thing to each.
RequestOK(r) ==
  /\ DOMAIN r.add \cup DOMAIN r.upd \cup r.del \cup r.log \cup r.reads \subseteq Ids
  /\ DOMAIN r.add \cap (DOMAIN r.upd \cup r.del) = {}
  /\ r.log \subseteq DOMAIN r.upd \cup r.del
  /\ DOMAIN r.was = r.log
  /\ \A i \in DOMAIN r.add : ~Exists(i)
  /\ \A i \in DOMAIN r.upd : i \in r.log => r.was[i] # None

(* The rows are rows of their tables and name rows that exist, no two       *)
(* requests insert the same row, and nothing that a request inserts exists. *)
TypeOK ==
  /\ RowsOK(row)
  /\ ForeignKeys(row)
  /\ \A h \in Running : RequestOK(req[h])
  /\ \A g, h \in Running : g # h => DOMAIN req[g].add \cap DOMAIN req[h].add = {}
  /\ late \subseteq Running
  /\ untold \subseteq Ids /\ odd \subseteq Ids

Shows(entry, r) ==
  IF r = None THEN entry = Nothing
  ELSE entry # Nothing /\ \A f \in DOMAIN entry : entry[f] = r[f]

(* The last entry of a row's journal shows the row as it is: what it became *)
(* with an update, whoever else updated it at the same time, and that it is *)
(* gone.  The exceptions are rows that changed with a request that journals *)
(* nothing, and updates that came after another request had deleted the row *)
(* or made it the same already: these read back what they read before.      *)
JournalTells ==
  \A i \in Ids \ untold : told[i] # None => Shows(told[i], row[i])

(* A PATCH changes the field it names and leaves the others as they are,    *)
(* unless the row was changed after it was read.  Only a contract's product *)
(* changes with every PATCH, and a voicemail's path with its folder.        *)
PatchKeepsFields ==
  [][\A h \in Requests :
       ~Free(h) /\ req'[h] = None /\ row' # row /\ req[h].field # None /\ h \notin late =>
         \A i \in DOMAIN req[h].upd :
           \A f \in DOMAIN row[i] \ {req[h].field, "product", "bare"} : row'[i][f] = row[i][f]]_vars
=============================================================================
