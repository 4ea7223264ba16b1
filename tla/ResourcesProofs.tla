--------------------------- MODULE ResourcesProofs ---------------------------
(***************************************************************************)
(* Proofs about Resources, for any ids, bodies, callers and number of      *)
(* overlapping requests: its types, that journals tell what rows are, that *)
(* resellers stay apart and preferences name live sets, that a PATCH keeps *)
(* the other fields and that an import replaces books.                     *)
(*                                                                         *)
(* The invariant says of each request in progress what holds whatever      *)
(* others commit (Sound, Kinds, Reads), and what holds as long as none of  *)
(* them wrote a row it relied on (Sure).  Good is what a handler has to    *)
(* see to before it begins; there is a lemma that says so of each handler. *)
(***************************************************************************)
EXTENDS Resources, TLAPS

-----------------------------------------------------------------------------
\* The invariant

Fields == {"add", "upd", "del", "purge", "log", "shows", "field", "reads", "batch", "was"}

(* A row that fits its table still does when the columns of u are written. *)
Keeps(i, u) == \A q : Fits(i, q) => Fits(i, Over(u, q))

Touched(r) == DOMAIN r.add \cup DOMAIN r.upd \cup r.del \cup r.reads

Sound(r) ==
  /\ Touched(r) \subseteq Ids
  /\ DOMAIN r.add \cap (DOMAIN r.upd \cup r.del) = {}
  /\ r.log \subseteq DOMAIN r.upd \cup r.del
  /\ \A i \in DOMAIN r.add : Fits(i, r.add[i])
  /\ \A i \in DOMAIN r.upd : Keeps(i, r.upd[i])

(* What is updated in the request's rows is not deleted by it, and an entry *)
(* shows something.                                                         *)
Kinds(r) ==
  /\ DOMAIN r.upd \cap Preferences = {}
  /\ r.log \subseteq r.del \/ r.del \subseteq Preferences
  /\ r.field # None => r.del \subseteq Preferences
  /\ r.purge # {} => /\ DOMAIN r.upd = {} /\ r.del = {} /\ DOMAIN r.add \subseteq Entries
                     /\ \A e \in DOMAIN r.add : r.add[e].owner \in r.purge
  /\ \A i \in r.log \ r.del : \A q : Fits(i, q) => DOMAIN q \cap r.shows # {}

(* What changes sets has looked at the preferences, what changes resellers *)
(* at the others, and what assigns a set at that set.                      *)
Reads(r) ==
  /\ (DOMAIN r.upd \cup r.del) \cap Sets # {} => Preferences \subseteq r.reads
  /\ (DOMAIN r.add \cup DOMAIN r.upd) \cap Resellers # {} => Resellers \subseteq r.reads
  /\ \A p \in DOMAIN r.add \cap Preferences :
       r.add[p].names \subseteq r.reads /\ DOMAIN r.upd = {} /\ r.del = {}

(* A PATCH brings the other fields as they are. *)
Echo(rows, r) ==
  r.field # None =>
    \A i \in DOMAIN r.upd : rows[i] # None =>
      \A f \in (DOMAIN r.upd[i] \cap DOMAIN rows[i]) \ {r.field, "product", "bare"} :
        r.upd[i][f] = rows[i][f]

(* What a reseller will be, and which ones must be apart then: those that  *)
(* no late request and no batch has written, and the new ones.             *)
Becomes(rows, r, i) ==
  IF i \in DOMAIN r.add THEN r.add[i]
  ELSE IF i \in DOMAIN r.upd THEN Over(r.upd[i], rows[i])
  ELSE rows[i]

WillBe(rows, odds, r) ==
  {i \in Resellers : i \in DOMAIN r.add \/ (rows[i] # None /\ i \notin odds)}

StaysApart(rows, odds, r) ==
  ~r.batch =>
    \A t, s \in WillBe(rows, odds, r) :
      t # s /\ t \in DOMAIN r.add \cup DOMAIN r.upd =>
        /\ Becomes(rows, r, t).contract # Becomes(rows, r, s).contract
        /\ NamedApart(t, Becomes(rows, r, t), s, Becomes(rows, r, s))

(* A preference that is set names a set it may name. *)
AddsLive(rows, r) ==
  \A p \in DOMAIN r.add \cap Preferences : \A s \in r.add[p].names :
    rows[s] # None /\ (r.add[p].own => rows[s].exposed)

(* The preferences that a request leaves may still name their sets. *)
LeavesLive(rows, r) ==
  \A p \in Preferences \ r.del : rows[p] # None =>
    \A s \in rows[p].names :
      /\ s \notin r.del
      /\ s \in DOMAIN r.upd /\ rows[p].own /\ rows[s] # None /\ rows[s].exposed =>
           Over(r.upd[s], rows[s]).exposed

Sure(rows, odds, r) ==
  /\ Echo(rows, r)
  /\ StaysApart(rows, odds, r)
  /\ AddsLive(rows, r)
  /\ (DOMAIN r.upd \cup r.del) \cap Sets # {} => LeavesLive(rows, r)

(* What a request will insert is not there, and what it journals was. *)
Rows ==
  \A h \in Running :
    /\ \A i \in DOMAIN req[h].add : row[i] = None
    /\ DOMAIN req[h].was = req[h].log
    /\ \A i \in DOMAIN req[h].upd \cap req[h].log : req[h].was[i] # None

AddsDiffer ==
  \A g, h \in Running : g # h => DOMAIN req[g].add \cap DOMAIN req[h].add = {}

Types ==
  /\ DOMAIN req = Requests
  /\ RowsOK(row) /\ ForeignKeys(row)
  /\ late \subseteq Running /\ untold \subseteq Ids /\ odd \subseteq Ids

IInv ==
  /\ Types /\ Rows /\ AddsDiffer
  /\ \A h \in Running : Sound(req[h]) /\ Kinds(req[h]) /\ Reads(req[h])
  /\ \A h \in Running \ late : Sure(row, odd, req[h])
  /\ JournalTells /\ ResellersApart /\ PreferencesLive

(* What a handler has seen to when it begins. *)
Good(w) ==
  /\ DOMAIN w = Fields
  /\ Sound(w) /\ Kinds(w) /\ Reads(w)
  /\ \A i \in DOMAIN w.add : row[i] = None /\ \A g \in Running : i \notin DOMAIN req[g].add
  /\ \A i \in DOMAIN w.upd : row[i] # None
  /\ Sure(row, odd, w)

-----------------------------------------------------------------------------
\* Tables

LEMMA TablesAre ==
  /\ DOMAIN Tables = 1..13
  /\ Tables[1] = Contacts /\ Tables[2] = Contracts /\ Tables[3] = Resellers
  /\ Tables[4] = Sets /\ Tables[5] = SetLevels /\ Tables[6] = Levels
  /\ Tables[7] = Patterns /\ Tables[8] = Preferences /\ Tables[9] = Entries
  /\ Tables[10] = SpeedDials /\ Tables[11] = Balances /\ Tables[12] = Templates
  /\ Tables[13] = Voicemails
BY DEF Tables

LEMMA IdsOfTables ==
  /\ Contacts \subseteq Ids /\ Contracts \subseteq Ids /\ Resellers \subseteq Ids
  /\ Sets \subseteq Ids /\ SetLevels \subseteq Ids /\ Levels \subseteq Ids
  /\ Patterns \subseteq Ids /\ Preferences \subseteq Ids /\ Entries \subseteq Ids
  /\ SpeedDials \subseteq Ids /\ Balances \subseteq Ids /\ Templates \subseteq Ids
  /\ Voicemails \subseteq Ids
<1>1. \A n \in 1..13 : Tables[n] \subseteq Ids
  BY TablesAssumption, TablesAre
<1> QED BY <1>1, TablesAre

LEMMA OneTable ==
  ASSUME NEW i, NEW m \in 1..13, NEW n \in 1..13, i \in Tables[m], i \in Tables[n]
  PROVE  m = n
BY TablesAssumption, TablesAre

LEMMA TableOfId ==
  ASSUME NEW i \in Ids
  PROVE  \/ i \in Contacts \/ i \in Contracts \/ i \in Resellers \/ i \in Sets
         \/ i \in SetLevels \/ i \in Levels \/ i \in Patterns \/ i \in Preferences
         \/ i \in Entries \/ i \in SpeedDials \/ i \in Balances \/ i \in Templates
         \/ i \in Voicemails
<1>1. PICK n \in 1..13 : i \in Tables[n]
  BY TablesAssumption, TablesAre
<1> QED BY <1>1, TablesAre

LEMMA SetsApart ==
  /\ Sets \cap Preferences = {} /\ Sets \cap Entries = {} /\ Sets \cap Resellers = {}
  /\ Levels \cap Preferences = {} /\ Levels \cap Entries = {}
  /\ Resellers \cap Preferences = {} /\ Entries \cap Resellers = {} /\ Entries \cap Preferences = {}
BY TablesAre, OneTable

(* What a row of each table is. *)
LEMMA FitsContact ==
  ASSUME NEW i \in Contacts, NEW q PROVE Fits(i, q) <=> q \in ContactRows
BY TablesAre, OneTable DEF Fits, AccountRow, NcosRow, EntryRow, CustomerDataRow

LEMMA FitsContract ==
  ASSUME NEW i \in Contracts, NEW q PROVE Fits(i, q) <=> q \in ContractRows
BY TablesAre, OneTable DEF Fits, AccountRow, NcosRow, EntryRow, CustomerDataRow

LEMMA FitsReseller ==
  ASSUME NEW i \in Resellers, NEW q PROVE Fits(i, q) <=> q \in ResellerRows(i)
BY TablesAre, OneTable DEF Fits, AccountRow, NcosRow, EntryRow, CustomerDataRow

LEMMA FitsSet ==
  ASSUME NEW i \in Sets, NEW q PROVE Fits(i, q) <=> q \in SetRows
BY TablesAre, OneTable DEF Fits, AccountRow, NcosRow, EntryRow, CustomerDataRow

LEMMA FitsSetLevel ==
  ASSUME NEW i \in SetLevels, NEW q PROVE Fits(i, q) <=> q \in SetLevelRows
BY TablesAre, OneTable DEF Fits, AccountRow, NcosRow, EntryRow, CustomerDataRow

LEMMA FitsLevel ==
  ASSUME NEW i \in Levels, NEW q PROVE Fits(i, q) <=> q \in LevelRows
BY TablesAre, OneTable DEF Fits, AccountRow, NcosRow, EntryRow, CustomerDataRow

LEMMA FitsPattern ==
  ASSUME NEW i \in Patterns, NEW q PROVE Fits(i, q) <=> q \in PatternRows
BY TablesAre, OneTable DEF Fits, AccountRow, NcosRow, EntryRow, CustomerDataRow

LEMMA FitsPreference ==
  ASSUME NEW i \in Preferences, NEW q PROVE Fits(i, q) <=> q \in PreferenceRows
BY TablesAre, OneTable DEF Fits, AccountRow, NcosRow, EntryRow, CustomerDataRow

LEMMA FitsEntry ==
  ASSUME NEW i \in Entries, NEW q
  PROVE  Fits(i, q) <=> q \in ResellerEntryRows \cup CustomerEntryRows \cup SubscriberEntryRows
BY TablesAre, OneTable DEF Fits, AccountRow, NcosRow, EntryRow, CustomerDataRow

LEMMA FitsSpeedDial ==
  ASSUME NEW i \in SpeedDials, NEW q PROVE Fits(i, q) <=> q \in SpeedDialRows
BY TablesAre, OneTable DEF Fits, AccountRow, NcosRow, EntryRow, CustomerDataRow

LEMMA FitsBalance ==
  ASSUME NEW i \in Balances, NEW q PROVE Fits(i, q) <=> q \in BalanceRows
BY TablesAre, OneTable DEF Fits, AccountRow, NcosRow, EntryRow, CustomerDataRow

LEMMA FitsTemplate ==
  ASSUME NEW i \in Templates, NEW q PROVE Fits(i, q) <=> q \in TemplateRows
BY TablesAre, OneTable DEF Fits, AccountRow, NcosRow, EntryRow, CustomerDataRow

LEMMA FitsVoicemail ==
  ASSUME NEW i \in Voicemails, NEW q PROVE Fits(i, q) <=> q \in VoicemailRows
BY TablesAre, OneTable DEF Fits, AccountRow, NcosRow, EntryRow, CustomerDataRow

(* Only links and patterns go with another row: with a set or a level. *)
LEMMA CascadesTo ==
  ASSUME NEW i \in Ids, NEW q, Fits(i, q)
  PROVE  CascadesFrom(q) \subseteq Sets \cup Levels
<1> USE DEF CascadesFrom, Cascading
<1>1. CASE i \in SetLevels
  BY <1>1, FitsSetLevel DEF SetLevelRows
<1>2. CASE i \in Patterns
  BY <1>2, FitsPattern DEF PatternRows
<1>3. CASE "set" \notin DOMAIN q /\ "level" \notin DOMAIN q
  BY <1>3
<1>4. CASE i \in Contacts \/ i \in Contracts \/ i \in Resellers
  <2>1. "set" \notin DOMAIN q /\ "level" \notin DOMAIN q
    BY <1>4, FitsContact, FitsContract, FitsReseller DEF ContactRows, ContractRows, ResellerRows
  <2> QED BY <2>1, <1>3
<1>5. CASE i \in Sets \/ i \in Levels \/ i \in Preferences
  <2>1. "set" \notin DOMAIN q /\ "level" \notin DOMAIN q
    BY <1>5, FitsSet, FitsLevel, FitsPreference DEF SetRows, LevelRows, PreferenceRows
  <2> QED BY <2>1, <1>3
<1>6. CASE i \in Entries
  <2>1. "set" \notin DOMAIN q /\ "level" \notin DOMAIN q
    BY <1>6, FitsEntry DEF ResellerEntryRows, CustomerEntryRows, SubscriberEntryRows
  <2> QED BY <2>1, <1>3
<1>7. CASE i \in SpeedDials \/ i \in Balances
  <2>1. "set" \notin DOMAIN q /\ "level" \notin DOMAIN q
    BY <1>7, FitsSpeedDial, FitsBalance DEF SpeedDialRows, BalanceRows
  <2> QED BY <2>1, <1>3
<1>8. CASE i \in Templates \/ i \in Voicemails
  <2>1. "set" \notin DOMAIN q /\ "level" \notin DOMAIN q
    BY <1>8, FitsTemplate, FitsVoicemail DEF TemplateRows, VoicemailRows
  <2> QED BY <2>1, <1>3
<1> QED BY <1>1, <1>2, <1>4, <1>5, <1>6, <1>7, <1>8, TableOfId

LEMMA NoChildren ==
  ASSUME NEW rows, RowsOK(rows), NEW D, D \cap (Sets \cup Levels) = {}
  PROVE  WithChildren(rows, D) = D
<1>1. Children(rows, D) = {}
  BY CascadesTo DEF Children, RowsOK
<1>2. Children(rows, {}) = {}
  BY DEF Children
<1> QED BY <1>1, <1>2 DEF WithChildren

(* Entries are what has an owner. *)
LEMMA OwnedEntries ==
  ASSUME NEW i \in Ids, NEW q, Fits(i, q)
  PROVE  "owner" \in DOMAIN q <=> i \in Entries
<1>1. CASE i \in Entries
  BY <1>1, FitsEntry DEF ResellerEntryRows, CustomerEntryRows, SubscriberEntryRows
<1>2. CASE i \in Contacts \/ i \in Contracts \/ i \in Resellers
  <2>1. "owner" \notin DOMAIN q
    BY <1>2, FitsContact, FitsContract, FitsReseller DEF ContactRows, ContractRows, ResellerRows
  <2> QED BY <2>1, <1>2, TablesAre, OneTable
<1>3. CASE i \in Sets \/ i \in Levels \/ i \in Preferences
  <2>1. "owner" \notin DOMAIN q
    BY <1>3, FitsSet, FitsLevel, FitsPreference DEF SetRows, LevelRows, PreferenceRows
  <2> QED BY <2>1, <1>3, TablesAre, OneTable
<1>4. CASE i \in SetLevels \/ i \in Patterns
  <2>1. "owner" \notin DOMAIN q
    BY <1>4, FitsSetLevel, FitsPattern DEF SetLevelRows, PatternRows
  <2> QED BY <2>1, <1>4, TablesAre, OneTable
<1>5. CASE i \in SpeedDials \/ i \in Balances
  <2>1. "owner" \notin DOMAIN q
    BY <1>5, FitsSpeedDial, FitsBalance DEF SpeedDialRows, BalanceRows
  <2> QED BY <2>1, <1>5, TablesAre, OneTable
<1>6. CASE i \in Templates \/ i \in Voicemails
  <2>1. "owner" \notin DOMAIN q
    BY <1>6, FitsTemplate, FitsVoicemail DEF TemplateRows, VoicemailRows
  <2> QED BY <2>1, <1>6, TablesAre, OneTable
<1> QED BY <1>1, <1>2, <1>3, <1>4, <1>5, <1>6, TableOfId

-----------------------------------------------------------------------------
\* Rows after a request

LEMMA AfterIs ==
  ASSUME NEW rows, NEW r, NEW i \in Ids
  PROVE  /\ i \in DOMAIN r.add => After(rows, r)[i] = r.add[i]
         /\ i \notin DOMAIN r.add /\ i \in Removed(rows, r) => After(rows, r)[i] = None
         /\ i \notin DOMAIN r.add /\ i \in Updated(rows, r) =>
              After(rows, r)[i] = Over(r.upd[i], rows[i])
         /\ i \notin DOMAIN r.add \cup Removed(rows, r) \cup Updated(rows, r) =>
              After(rows, r)[i] = rows[i]
<1>1. Updated(rows, r) \cap Removed(rows, r) = {}
  BY DEF Updated
<1> QED BY <1>1 DEF After

LEMMA Frame ==
  ASSUME NEW rows, NEW r, NEW i \in Ids, i \notin Wrote(rows, r)
  PROVE  After(rows, r)[i] = rows[i]
BY AfterIs DEF Wrote

(* Nothing comes to be there but what is inserted. *)
LEMMA NotThere ==
  ASSUME NEW rows, NEW r, NEW i \in Ids, rows[i] = None, i \notin DOMAIN r.add
  PROVE  After(rows, r)[i] = None
BY AfterIs DEF Updated

LEMMA AfterFits ==
  ASSUME NEW rows, RowsOK(rows), NEW r, Sound(r)
  PROVE  RowsOK(After(rows, r))
<1> SUFFICES ASSUME NEW i \in Ids, After(rows, r)[i] # None
             PROVE  Fits(i, After(rows, r)[i])
  BY DEF RowsOK
<1>1. CASE i \in DOMAIN r.add
  BY <1>1, AfterIs DEF Sound
<1>2. CASE i \notin DOMAIN r.add /\ i \in Updated(rows, r)
  BY <1>2, AfterIs DEF Sound, Updated, Keeps, RowsOK
<1> QED BY <1>1, <1>2, AfterIs DEF RowsOK

(* What a request without a purge takes away: what it deletes and, with a    *)
(* set or a level, what hangs on it.                                         *)
LEMMA RemovedIs ==
  ASSUME NEW rows, RowsOK(rows), NEW r, Sound(r), Kinds(r)
  PROVE  /\ r.del \subseteq Removed(rows, r)
         /\ r.purge = {} => Purged(rows, r) = {}
         /\ r.purge = {} /\ r.del \subseteq Preferences => Removed(rows, r) = r.del
         /\ r.purge # {} => Removed(rows, r) = Purged(rows, r) /\ Purged(rows, r) \subseteq Entries
<1>1. Purged(rows, r) \subseteq Entries
  BY OwnedEntries DEF Purged, RowsOK
<1>2. r.purge = {} => Purged(rows, r) = {}
  BY DEF Purged
<1>3. r.del \subseteq Removed(rows, r)
  BY DEF Removed, WithChildren
<1>4. r.purge = {} /\ r.del \subseteq Preferences => Removed(rows, r) = r.del
  BY <1>2, NoChildren, SetsApart DEF Removed
<1>5. r.purge # {} => Removed(rows, r) = Purged(rows, r)
  <2>1. r.purge # {} => r.del \cup Purged(rows, r) = Purged(rows, r)
    BY DEF Kinds
  <2>2. WithChildren(rows, Purged(rows, r)) = Purged(rows, r)
    BY <1>1, NoChildren, SetsApart
  <2> QED BY <2>1, <2>2 DEF Removed
<1> QED BY <1>1, <1>2, <1>3, <1>4, <1>5

(* A row that goes with others is not a set, a reseller or a preference. *)
LEMMA RemovedOnly ==
  ASSUME NEW rows, RowsOK(rows), NEW r, Sound(r), Kinds(r), NEW i \in Sets,
         rows[i] # None, i \in Removed(rows, r)
  PROVE  i \in r.del
<1>1. CascadesFrom(rows[i]) = {}
  <2>1. rows[i] \in SetRows
    BY FitsSet, IdsOfTables DEF RowsOK
  <2> QED BY <2>1 DEF SetRows, CascadesFrom, Cascading
<1>2. i \notin Purged(rows, r)
  BY OwnedEntries, SetsApart DEF Purged, RowsOK
<1> QED BY <1>1, <1>2 DEF Removed, WithChildren, Children

(* What a request updates and journals, or patches, it does not remove. *)
LEMMA UpdatedStays ==
  ASSUME NEW rows, RowsOK(rows), NEW r, Sound(r), Kinds(r), NEW i \in DOMAIN r.upd,
         r.field # None \/ i \in r.log \ r.del
  PROVE  i \notin Removed(rows, r) /\ r.purge = {} /\ i \in Ids /\ i \notin DOMAIN r.add
<1>1. r.purge = {} /\ r.del \subseteq Preferences /\ i \notin Preferences
  BY DEF Kinds
<1> QED BY <1>1, RemovedIs DEF Sound, Touched

(* What others wrote and a request did not rely on is as it was.           *)
LEMMA SureStays ==
  ASSUME NEW rows, NEW odds, NEW after, NEW odder, NEW r,
         Sound(r), Kinds(r), Reads(r), Sure(rows, odds, r),
         \A i \in Touched(r) : after[i] = rows[i] /\ (i \in odds => i \in odder)
  PROVE  Sure(after, odder, r)
<1>1. Echo(after, r)
  BY DEF Sure, Echo, Sound, Touched
<1>2. StaysApart(after, odder, r)
  <2> SUFFICES ASSUME ~r.batch, NEW t \in WillBe(after, odder, r),
                      NEW s \in WillBe(after, odder, r), t # s,
                      t \in DOMAIN r.add \cup DOMAIN r.upd
               PROVE  /\ Becomes(after, r, t).contract # Becomes(after, r, s).contract
                      /\ NamedApart(t, Becomes(after, r, t), s, Becomes(after, r, s))
    BY DEF StaysApart
  <2>1. \A i \in Resellers : after[i] = rows[i] /\ (i \in odds => i \in odder)
    BY DEF WillBe, Reads, Touched
  <2>2. t \in WillBe(rows, odds, r) /\ s \in WillBe(rows, odds, r)
    BY <2>1 DEF WillBe
  <2>3. Becomes(after, r, t) = Becomes(rows, r, t) /\ Becomes(after, r, s) = Becomes(rows, r, s)
    BY <2>1 DEF WillBe, Becomes
  <2> QED BY <2>2, <2>3 DEF Sure, StaysApart
<1>3. AddsLive(after, r)
  BY DEF Sure, AddsLive, Reads, Sound, Touched
<1>4. ASSUME (DOMAIN r.upd \cup r.del) \cap Sets # {} PROVE LeavesLive(after, r)
  <2> SUFFICES ASSUME NEW p \in Preferences \ r.del, after[p] # None, NEW s \in after[p].names
               PROVE  /\ s \notin r.del
                      /\ s \in DOMAIN r.upd /\ after[p].own /\ after[s] # None /\ after[s].exposed =>
                           Over(r.upd[s], after[s]).exposed
    BY DEF LeavesLive
  <2>1. after[p] = rows[p]
    BY <1>4 DEF Reads, Touched
  <2>2. s \in DOMAIN r.upd => after[s] = rows[s]
    BY DEF Sound, Touched
  <2> QED BY <1>4, <2>1, <2>2 DEF Sure, LeavesLive
<1> QED BY <1>1, <1>2, <1>3, <1>4 DEF Sure

-----------------------------------------------------------------------------
\* Begin

LEMMA Begun ==
  ASSUME IInv, NEW h \in Requests, NEW w, Good(w), Begin(h, w)
  PROVE  IInv'
<1> DEFINE r == [w EXCEPT !.was = [i \in w.log |-> row[i]]]
<1>1. /\ Free(h) /\ req' = [req EXCEPT ![h] = r]
      /\ UNCHANGED <<row, late, told, untold, odd>>
  BY DEF Begin
<1>2. /\ req'[h] = r /\ DOMAIN req' = Requests
      /\ \A g \in Requests : g # h => req'[g] = req[g]
  BY <1>1 DEF IInv, Types
<1>3. /\ r.add = w.add /\ r.upd = w.upd /\ r.del = w.del /\ r.purge = w.purge /\ r.log = w.log
      /\ r.shows = w.shows /\ r.field = w.field /\ r.reads = w.reads /\ r.batch = w.batch
      /\ r.was = [i \in w.log |-> row[i]]
  BY DEF Good, Fields
<1> HIDE DEF r
<1>4. Running' \subseteq Running \cup {h} /\ Running \subseteq Running' \cup {h} /\ h \notin Running
  BY <1>1, <1>2 DEF Running, Free
<1>5. Sound(r) /\ Kinds(r) /\ Reads(r)
  BY <1>3 DEF Good, Sound, Kinds, Reads, Touched
<1>6. Sure(row, odd, r)
  BY <1>3 DEF Good, Sure, Echo, StaysApart, WillBe, Becomes, AddsLive, LeavesLive
<1>7. Types'
  <2>1. late' \subseteq Running'
    BY <1>1, <1>4 DEF IInv, Types
  <2> QED BY <1>1, <1>2, <2>1 DEF IInv, Types
<1>8. Rows'
  <2> SUFFICES ASSUME NEW g \in Running'
               PROVE  /\ \A i \in DOMAIN req'[g].add : row[i] = None
                      /\ DOMAIN req'[g].was = req'[g].log
                      /\ \A i \in DOMAIN req'[g].upd \cap req'[g].log : req'[g].was[i] # None
    BY <1>1 DEF Rows
  <2>1. CASE g = h
    BY <2>1, <1>2, <1>3 DEF Good
  <2>2. CASE g # h
    BY <2>2, <1>2, <1>4 DEF IInv, Rows, Running
  <2> QED BY <2>1, <2>2
<1>9. AddsDiffer'
  <2> SUFFICES ASSUME NEW f \in Running', NEW g \in Running', f # g
               PROVE  DOMAIN req'[f].add \cap DOMAIN req'[g].add = {}
    BY DEF AddsDiffer
  <2>1. CASE f = h
    BY <2>1, <1>2, <1>3, <1>4 DEF Good, Running
  <2>2. CASE g = h
    BY <2>2, <1>2, <1>3, <1>4 DEF Good, Running
  <2>3. CASE f # h /\ g # h
    BY <2>3, <1>2, <1>4 DEF IInv, AddsDiffer, Running
  <2> QED BY <2>1, <2>2, <2>3
<1>10. \A g \in Running' : Sound(req'[g]) /\ Kinds(req'[g]) /\ Reads(req'[g])
  BY <1>2, <1>4, <1>5 DEF IInv, Running
<1>11. \A g \in Running' \ late' : Sure(row', odd', req'[g])
  BY <1>1, <1>2, <1>4, <1>6 DEF IInv, Running
<1>12. JournalTells' /\ ResellersApart' /\ PreferencesLive'
  BY <1>1 DEF IInv, JournalTells, ResellersApart, PreferencesLive
<1> QED BY <1>7, <1>8, <1>9, <1>10, <1>11, <1>12 DEF IInv

-----------------------------------------------------------------------------
\* Rollback

LEMMA RolledBack == ASSUME IInv, NEW h \in Requests, Rollback(h) PROVE IInv'
<1>1. /\ req' = [req EXCEPT ![h] = None] /\ late' = late \ {h}
      /\ UNCHANGED <<row, told, untold, odd>>
  BY DEF Rollback
<1>2. /\ DOMAIN req' = Requests /\ \A g \in Requests : g # h => req'[g] = req[g]
      /\ Running' = Running \ {h}
  BY <1>1 DEF IInv, Types, Running, Free
<1>3. Types'
  BY <1>1, <1>2 DEF IInv, Types
<1>4. Rows' /\ AddsDiffer'
  BY <1>1, <1>2 DEF IInv, Rows, AddsDiffer, Running
<1>5. \A g \in Running' : Sound(req'[g]) /\ Kinds(req'[g]) /\ Reads(req'[g])
  BY <1>2 DEF IInv, Running
<1>6. \A g \in Running' \ late' : Sure(row', odd', req'[g])
  BY <1>1, <1>2 DEF IInv, Running
<1>7. JournalTells' /\ ResellersApart' /\ PreferencesLive'
  BY <1>1 DEF IInv, JournalTells, ResellersApart, PreferencesLive
<1> QED BY <1>3, <1>4, <1>5, <1>6, <1>7 DEF IInv

-----------------------------------------------------------------------------
\* Commit

LEMMA CommitIs ==
  ASSUME IInv, NEW h \in Requests, Commit(h)
  PROVE  /\ h \in Running
         /\ row' = After(row, req[h]) /\ ForeignKeys(row')
         /\ req' = [req EXCEPT ![h] = None]
         /\ late' = (late \cup Overtaken(Wrote(row, req[h]))) \ {h}
         /\ told' = [i \in Ids |-> IF i \in req[h].log THEN Entry(req[h], i)
                                   ELSE IF i \in DOMAIN req[h].add THEN None ELSE told[i]]
         /\ untold' = ((untold \cup Wrote(row, req[h])) \ (req[h].log \cup DOMAIN req[h].add))
                      \cup Outdated(req[h])
         /\ odd' = IF h \in late \/ req[h].batch THEN odd \cup Relied(req[h])
                   ELSE odd \ DOMAIN req[h].add
         /\ DOMAIN req' = Requests /\ Running' = Running \ {h}
         /\ \A g \in Running' : g \in Running /\ g # h /\ req'[g] = req[g]
<1>1. /\ h \in Running
      /\ row' = After(row, req[h]) /\ ForeignKeys(row')
      /\ req' = [req EXCEPT ![h] = None]
      /\ late' = (late \cup Overtaken(Wrote(row, req[h]))) \ {h}
      /\ told' = [i \in Ids |-> IF i \in req[h].log THEN Entry(req[h], i)
                                ELSE IF i \in DOMAIN req[h].add THEN None ELSE told[i]]
      /\ untold' = ((untold \cup Wrote(row, req[h])) \ (req[h].log \cup DOMAIN req[h].add))
                   \cup Outdated(req[h])
      /\ odd' = IF h \in late \/ req[h].batch THEN odd \cup Relied(req[h])
                ELSE odd \ DOMAIN req[h].add
  BY DEF Commit, Running
<1>2. /\ DOMAIN req' = Requests /\ Running' = Running \ {h}
      /\ \A g \in Running' : g \in Running /\ g # h /\ req'[g] = req[g]
  BY <1>1 DEF IInv, Types, Running, Free
<1> QED BY <1>1, <1>2

LEMMA TouchedRelied == ASSUME NEW r, NEW i, i \in Touched(r) PROVE i \in Relied(r)
BY DEF Touched, Relied

LEMMA WroteIds == ASSUME NEW rows, NEW r, Sound(r) PROVE Wrote(rows, r) \subseteq Ids
BY DEF Wrote, Sound, Touched, Updated, Removed, WithChildren, Children, Purged

LEMMA ReliedIds == ASSUME NEW r, Sound(r) PROVE Relied(r) \subseteq Ids
<1>1. \A q : References(q) \subseteq Ids
  BY DEF References
<1> QED BY <1>1 DEF Relied, Sound, Touched

LEMMA CommitTypes ==
  ASSUME IInv, NEW h \in Requests, Commit(h)
  PROVE  Types' /\ Rows' /\ AddsDiffer'
<1> DEFINE r == req[h]
<1>1. Sound(r) /\ h \in Running
  BY CommitIs DEF IInv
<1>2. RowsOK(row')
  BY <1>1, CommitIs, AfterFits DEF IInv, Types
<1>3. untold' \subseteq Ids /\ odd' \subseteq Ids
  <2>1. Wrote(row, r) \subseteq Ids /\ Relied(r) \subseteq Ids
    BY <1>1, WroteIds, ReliedIds
  <2>2. r.log \subseteq Ids
    BY <1>1 DEF Sound, Touched
  <2>3. Outdated(req[h]) \subseteq req[h].log
    BY DEF Outdated, Unchanged
  <2> QED BY <2>1, <2>2, <2>3, CommitIs DEF IInv, Types
<1>4. late' \subseteq Running'
  BY CommitIs DEF IInv, Types, Overtaken
<1>5. Types'
  BY <1>2, <1>3, <1>4, CommitIs DEF Types
<1>6. Rows'
  <2> SUFFICES ASSUME NEW g \in Running'
               PROVE  /\ \A i \in DOMAIN req'[g].add : row'[i] = None
                      /\ DOMAIN req'[g].was = req'[g].log
                      /\ \A i \in DOMAIN req'[g].upd \cap req'[g].log : req'[g].was[i] # None
    BY DEF Rows
  <2>1. g \in Running /\ g # h /\ req'[g] = req[g]
    BY CommitIs
  <2>2. ASSUME NEW i \in DOMAIN req[g].add PROVE row'[i] = None
    <3>1. i \in Ids /\ row[i] = None
      BY <2>1 DEF IInv, Rows, Sound, Touched
    <3>2. i \notin DOMAIN r.add
      BY <1>1, <2>1 DEF IInv, AddsDiffer
    <3> QED BY <3>1, <3>2, NotThere, CommitIs
  <2> QED BY <2>1, <2>2 DEF IInv, Rows
<1>7. AddsDiffer'
  BY CommitIs DEF IInv, AddsDiffer
<1> QED BY <1>5, <1>6, <1>7

LEMMA CommitRequests ==
  ASSUME IInv, NEW h \in Requests, Commit(h)
  PROVE  /\ \A g \in Running' : Sound(req'[g]) /\ Kinds(req'[g]) /\ Reads(req'[g])
         /\ \A g \in Running' \ late' : Sure(row', odd', req'[g])
<1>1. \A g \in Running' : Sound(req'[g]) /\ Kinds(req'[g]) /\ Reads(req'[g])
  BY CommitIs DEF IInv
<1>2. ASSUME NEW g \in Running' \ late' PROVE Sure(row', odd', req'[g])
  <2>1. g \in Running /\ g # h /\ req'[g] = req[g] /\ g \notin late
    BY <1>2, CommitIs
  <2>2. Relied(req[g]) \cap Wrote(row, req[h]) = {}
    BY <1>2, <2>1, CommitIs DEF Overtaken
  <2>3. ASSUME NEW i \in Touched(req[g])
        PROVE  row'[i] = row[i] /\ (i \in odd => i \in odd')
    <3>1. i \in Ids /\ i \notin Wrote(row, req[h])
      BY <2>1, <2>2, TouchedRelied DEF IInv, Sound
    <3>2. i \notin DOMAIN req[h].add
      BY <3>1 DEF Wrote
    <3> QED BY <3>1, <3>2, Frame, CommitIs
  <2>4. Sound(req[g]) /\ Kinds(req[g]) /\ Reads(req[g]) /\ Sure(row, odd, req[g])
    BY <2>1 DEF IInv
  <2>5. Sure(row', odd', req[g])
    BY <2>3, <2>4, SureStays
  <2> QED BY <2>1, <2>5
<1> QED BY <1>1, <1>2

LEMMA CommitJournal ==
  ASSUME IInv, NEW h \in Requests, Commit(h)
  PROVE  JournalTells'
<1> DEFINE r == req[h]
<1>1. /\ Sound(r) /\ Kinds(r) /\ h \in Running /\ RowsOK(row) /\ RowsOK(row')
  BY CommitIs, CommitTypes DEF IInv, Types
<1> SUFFICES ASSUME NEW i \in Ids, i \notin untold', told'[i] # None
             PROVE  Shows(told'[i], row'[i])
  BY DEF JournalTells
<1>2. CASE i \in r.log /\ i \in r.del
  <2>1. row'[i] = None
    BY <1>1, <1>2, AfterIs, RemovedIs, CommitIs DEF Sound
  <2> QED BY <1>2, <2>1, CommitIs DEF Entry, Shows
<1>3. CASE i \in r.log /\ i \notin r.del
  <2>0. i \in DOMAIN r.upd /\ r.was[i] # None
    BY <1>1, <1>3 DEF Sound, IInv, Rows
  <2>a. i \notin Removed(row, r) /\ i \notin DOMAIN r.add
    BY <1>1, <1>3, <2>0, UpdatedStays
  <2>b. i \notin Outdated(r)
    BY CommitIs
  <2>1. row[i] # None
    <3> SUFFICES ASSUME row[i] = None PROVE FALSE
      OBVIOUS
    <3>1. i \notin Updated(row, r)
      BY DEF Updated
    <3>2. After(row, r)[i] = row[i]
      BY <2>a, <3>1, AfterIs
    <3> HIDE DEF r
    <3> QED BY <1>3, <2>0, <2>b, <3>2 DEF Outdated, Unchanged
  <2>3. row'[i] = Over(r.upd[i], row[i]) /\ row'[i] = After(row, r)[i]
    BY <2>0, <2>1, <2>a, AfterIs, CommitIs DEF Updated
  <2>4. Fits(i, row'[i])
    BY <1>1, <2>0, <2>1, <2>3 DEF Sound, Keeps, RowsOK
  <2>5. row'[i] # None /\ DOMAIN row'[i] \cap r.shows # {}
    BY <1>1, <1>3, <2>4, TablesAssumption DEF Kinds
  <2>6. told'[i] = [f \in DOMAIN row'[i] \cap r.shows |-> row'[i][f]]
    <3>1. told'[i] = Entry(r, i)
      BY <1>3, CommitIs
    <3> HIDE DEF r
    <3>2. i \in Unchanged(r) => r.was[i] = After(row, r)[i]
      BY <2>b DEF Outdated, Unchanged
    <3>3. Entry(r, i) = [f \in DOMAIN After(row, r)[i] \cap r.shows |-> After(row, r)[i][f]]
      BY <1>3, <3>2 DEF Entry
    <3> QED BY <2>3, <3>1, <3>3
  <2>7. DOMAIN told'[i] # DOMAIN Nothing
    BY <2>5, <2>6 DEF Nothing
  <2> QED BY <2>5, <2>6, <2>7 DEF Shows
<1>4. CASE i \notin r.log
  <2>1. i \notin DOMAIN r.add
    BY <1>4, CommitIs
  <2>2. told'[i] = told[i] /\ i \notin untold /\ i \notin Wrote(row, r)
    BY <1>4, <2>1, CommitIs
  <2>3. row'[i] = row[i]
    BY <2>2, Frame, CommitIs
  <2> QED BY <2>2, <2>3 DEF IInv, JournalTells
<1> QED BY <1>2, <1>3, <1>4

LEMMA CommitApart ==
  ASSUME IInv, NEW h \in Requests, Commit(h)
  PROVE  ResellersApart'
<1> DEFINE r == req[h]
<1>1. /\ Sound(r) /\ Kinds(r) /\ Reads(r) /\ h \in Running
  BY CommitIs DEF IInv
<1> SUFFICES ASSUME NEW t \in Resellers \ odd', NEW s \in Resellers \ odd', t # s,
                    row'[t] # None, row'[s] # None
             PROVE  row'[t].contract # row'[s].contract /\ NamedApart(t, row'[t], s, row'[s])
  BY DEF ResellersApart, Apart, NamedApart
<1>2. t \in Ids /\ s \in Ids
  BY IdsOfTables
<1>3. ASSUME NEW i \in {t, s}, i \notin DOMAIN r.add \cup DOMAIN r.upd PROVE row'[i] = row[i]
  BY <1>2, <1>3, AfterIs, CommitIs DEF Updated
<1>4. ASSUME NEW i \in {t, s}, i \notin DOMAIN r.add PROVE i \notin odd /\ row[i] # None
  <2>1. i \notin odd
    BY <1>4, CommitIs
  <2> QED BY <1>2, <1>4, <2>1, NotThere, CommitIs
<1>5. CASE t \notin DOMAIN r.add \cup DOMAIN r.upd /\ s \notin DOMAIN r.add \cup DOMAIN r.upd
  BY <1>3, <1>4, <1>5 DEF IInv, ResellersApart, Apart
<1>6. ASSUME NEW i \in {t, s}, i \in DOMAIN r.add \cup DOMAIN r.upd
      PROVE  h \notin late /\ ~r.batch
  BY <1>1, <1>6, CommitIs DEF Relied
<1>7. ASSUME NEW i \in {t, s} PROVE i \in WillBe(row, odd, r) /\ row'[i] = Becomes(row, r, i)
  <2>1. CASE i \in DOMAIN r.add
    BY <2>1, <1>2, AfterIs, CommitIs DEF WillBe, Becomes
  <2>2. CASE i \notin DOMAIN r.add /\ i \in DOMAIN r.upd
    <3>1. row[i] # None
      BY <2>2, <1>4
    <3>2. i \notin Removed(row, r)
      BY <2>2, <1>2, AfterIs, CommitIs
    <3> QED BY <2>2, <3>1, <3>2, <1>2, AfterIs, CommitIs DEF WillBe, Becomes, Updated
  <2>3. CASE i \notin DOMAIN r.add \cup DOMAIN r.upd
    BY <2>3, <1>3, <1>4 DEF WillBe, Becomes
  <2> QED BY <2>1, <2>2, <2>3
<1>8. CASE t \in DOMAIN r.add \cup DOMAIN r.upd
  BY <1>1, <1>6, <1>7, <1>8 DEF IInv, Sure, StaysApart
<1>9. CASE s \in DOMAIN r.add \cup DOMAIN r.upd
  BY <1>1, <1>6, <1>7, <1>9 DEF IInv, Sure, StaysApart, NamedApart
<1> QED BY <1>5, <1>8, <1>9

LEMMA CommitLive ==
  ASSUME IInv, NEW h \in Requests, Commit(h)
  PROVE  PreferencesLive'
<1> DEFINE r == req[h]
<1>1. /\ Sound(r) /\ Kinds(r) /\ Reads(r) /\ h \in Running /\ RowsOK(row)
  BY CommitIs DEF IInv, Types
<1> SUFFICES ASSUME NEW p \in Preferences \ odd', row'[p] # None, NEW s \in row'[p].names
             PROVE  row'[s] # None /\ (row'[p].own => row'[s].exposed)
  BY DEF PreferencesLive, Live
<1>2. p \in Ids /\ p \notin DOMAIN r.upd
  BY <1>1, IdsOfTables DEF Kinds
<1>3. s \in Sets /\ s \in Ids
  <2>1. row'[p] \in PreferenceRows
    BY <1>2, CommitTypes, FitsPreference DEF Types, RowsOK
  <2> QED BY <2>1, IdsOfTables DEF PreferenceRows
<1>4. CASE p \in DOMAIN r.add
  <2>1. h \notin late
    BY <1>4, CommitIs DEF Relied
  <2>2. row'[p] = r.add[p]
    BY <1>2, <1>4, AfterIs, CommitIs
  <2>3. row[s] # None /\ (r.add[p].own => row[s].exposed)
    BY <1>1, <1>4, <2>1, <2>2 DEF IInv, Sure, AddsLive
  <2>4. s \notin DOMAIN r.upd /\ s \notin r.del /\ s \notin DOMAIN r.add
    BY <1>1, <1>4, <2>3 DEF Reads, IInv, Rows
  <2>5. s \notin Removed(row, r)
    BY <1>1, <1>3, <2>3, <2>4, RemovedOnly
  <2>6. row'[s] = row[s]
    BY <1>3, <2>4, <2>5, AfterIs, CommitIs DEF Updated
  <2> QED BY <2>2, <2>3, <2>6
<1>5. CASE p \notin DOMAIN r.add
  <2>1. p \notin odd
    BY <1>5, CommitIs
  <2>2. row'[p] = row[p] /\ row[p] # None /\ p \notin Removed(row, r)
    BY <1>2, <1>5, AfterIs, CommitIs DEF Updated
  <2>3. row[s] # None /\ (row[p].own => row[s].exposed)
    BY <2>1, <2>2 DEF IInv, PreferencesLive, Live
  <2>4. s \notin DOMAIN r.add
    BY <1>1, <2>3 DEF IInv, Rows
  <2>5. CASE s \notin DOMAIN r.upd \cup r.del
    <3>1. s \notin Removed(row, r)
      BY <1>1, <1>3, <2>3, <2>5, RemovedOnly
    <3>2. row'[s] = row[s]
      BY <1>3, <2>4, <2>5, <3>1, AfterIs, CommitIs DEF Updated
    <3> QED BY <2>2, <2>3, <3>2
  <2>6. CASE s \in DOMAIN r.upd \cup r.del
    <3>1. Preferences \subseteq r.reads
      BY <1>1, <1>3, <2>6 DEF Reads
    <3>2. h \notin late
      BY <3>1, CommitIs DEF Relied
    <3>3. p \notin r.del
      BY <1>1, <2>2, RemovedIs
    <3>4. LeavesLive(row, r)
      BY <1>1, <1>3, <2>6, <3>2 DEF IInv, Sure
    <3>5. s \notin r.del /\ (row[p].own => Over(r.upd[s], row[s]).exposed)
      BY <2>2, <2>3, <2>6, <3>3, <3>4 DEF LeavesLive
    <3>6. s \notin Removed(row, r)
      BY <1>1, <1>3, <2>3, <3>5, RemovedOnly
    <3>7. row'[s] = Over(r.upd[s], row[s])
      BY <1>3, <2>3, <2>4, <2>6, <3>5, <3>6, AfterIs, CommitIs DEF Updated
    <3>8. row'[s] # None
      <4>1. Fits(s, Over(r.upd[s], row[s]))
        BY <1>1, <1>3, <2>3, <2>6, <3>5 DEF Sound, Keeps, RowsOK
      <4> QED BY <1>3, <3>7, <4>1, TablesAssumption
    <3> QED BY <2>2, <3>5, <3>7, <3>8
  <2> QED BY <2>5, <2>6
<1> QED BY <1>4, <1>5

LEMMA Committed == ASSUME IInv, NEW h \in Requests, Commit(h) PROVE IInv'
BY CommitTypes, CommitRequests, CommitJournal, CommitApart, CommitLive DEF IInv

-----------------------------------------------------------------------------
\* What handlers begin with

Bare(w) ==
  /\ DOMAIN w = Fields
  /\ w.add = Nothing /\ w.del = {} /\ w.purge = {} /\ w.reads = {} /\ w.batch = FALSE
  /\ w.log \subseteq DOMAIN w.upd

LEMMA BlankIs ==
  /\ DOMAIN Blank = Fields
  /\ Blank.add = Nothing /\ Blank.upd = Nothing /\ Blank.del = {} /\ Blank.purge = {}
  /\ Blank.log = {} /\ Blank.shows = {} /\ Blank.field = None /\ Blank.reads = {}
  /\ Blank.batch = FALSE
BY DEF Blank, Fields

LEMMA NothingIs == DOMAIN Nothing = {}
BY DEF Nothing

LEMMA TargetsAre ==
  ASSUME NEW S, NEW t \in Targets(S)
  PROVE  t.ids \subseteq S /\ t.log \subseteq t.ids
BY DEF Targets, Batches

LEMMA PutsAre ==
  ASSUME NEW S, NEW B, NEW w \in Puts(S, B)
  PROVE  \E b \in B : /\ Bare(w) /\ DOMAIN w.upd \subseteq S /\ w.field = None
                      /\ \A i \in DOMAIN w.upd : w.upd[i] = b
<1>1. PICK t \in Targets(S), b \in B : w = Put(t, b)
  BY DEF Puts
<1>2. /\ DOMAIN w = Fields
      /\ w.add = Nothing /\ w.del = {} /\ w.purge = {} /\ w.reads = {} /\ w.batch = FALSE
      /\ w.field = None /\ w.log = t.log /\ w.upd = [i \in t.ids |-> b]
  BY <1>1, BlankIs DEF Put, Fields
<1> QED BY <1>2, TargetsAre DEF Bare

LEMMA PatchesAre ==
  ASSUME NEW S, NEW B, NEW w \in Patches(S, B)
  PROVE  \E b \in B : /\ Bare(w) /\ DOMAIN w.upd \subseteq S /\ w.field \in DOMAIN b
                      /\ \A i \in DOMAIN w.upd : w.upd[i] = Patched(row[i], w.field, b[w.field])
<1>1. PICK t \in Targets(S), b \in B : w \in {Patch(t, f, b[f]) : f \in DOMAIN b}
  BY DEF Patches
<1>2. PICK f \in DOMAIN b : w = Patch(t, f, b[f])
  BY <1>1
<1>3. /\ DOMAIN w = Fields
      /\ w.add = Nothing /\ w.del = {} /\ w.purge = {} /\ w.reads = {} /\ w.batch = FALSE
      /\ w.field = f /\ w.log = t.log /\ w.upd = [i \in t.ids |-> Patched(row[i], f, b[f])]
  BY <1>2, BlankIs DEF Patch, Fields
<1> QED BY <1>3, TargetsAre DEF Bare

LEMMA RewrittenIs ==
  ASSUME NEW w, Bare(w), NEW upd, DOMAIN upd = DOMAIN w.upd, NEW shown,
         NEW z, z = Rewritten(w, upd, shown)
  PROVE  Bare(z) /\ z.upd = upd /\ z.shows = shown /\ z.field = w.field /\ z.log = w.log
BY DEF Rewritten, Bare, Fields

LEMMA PatchedIs ==
  ASSUME NEW q, NEW f, NEW v
  PROVE  /\ DOMAIN Patched(q, f, v) = DOMAIN q
         /\ \A g \in DOMAIN q : g # f => Patched(q, f, v)[g] = q[g]
         /\ f \in DOMAIN q => Patched(q, f, v)[f] = v
BY DEF Patched

Begins(h) == \E w : Good(w) /\ Begin(h, w)

(* Handlers of rows that are neither sets, nor resellers, nor preferences.  *)
LEMMA PostGood ==
  ASSUME IInv, NEW rows, DOMAIN rows \subseteq Fresh(Ids),
         DOMAIN rows \cap Resellers = {}, DOMAIN rows \cap Preferences = {},
         \A i \in DOMAIN rows : Fits(i, rows[i])
  PROVE  Good(Post(rows))
<1> DEFINE w == Post(rows)
<1>1. /\ DOMAIN w = Fields
      /\ w.add = rows /\ w.upd = Nothing /\ w.del = {} /\ w.purge = {} /\ w.reads = {}
      /\ w.field = None /\ w.log = {} /\ w.batch = FALSE
  BY BlankIs DEF Post, Fields
<1> HIDE DEF w
<1>2. \A i \in DOMAIN rows : i \in Ids /\ row[i] = None /\ \A g \in Running : i \notin DOMAIN req[g].add
  BY DEF Fresh, Exists
<1>3. Sound(w) /\ Kinds(w) /\ Reads(w)
  BY <1>1, <1>2, NothingIs DEF Sound, Kinds, Reads, Touched
<1>4. Sure(row, odd, w)
  BY <1>1, NothingIs DEF Sure, Echo, StaysApart, AddsLive, WillBe
<1> QED BY <1>1, <1>2, <1>3, <1>4, NothingIs DEF Good, w

LEMMA WriteGood ==
  ASSUME IInv, NEW w, Bare(w),
         DOMAIN w.upd \subseteq Ids, \A i \in DOMAIN w.upd : row[i] # None,
         DOMAIN w.upd \cap Resellers = {}, DOMAIN w.upd \cap Preferences = {},
         DOMAIN w.upd \cap Sets = {},
         \A i \in DOMAIN w.upd : Keeps(i, w.upd[i]),
         \A i \in w.log : \A q : Fits(i, q) => DOMAIN q \cap w.shows # {},
         Echo(row, w)
  PROVE  Good(w)
<1>1. Sound(w) /\ Kinds(w) /\ Reads(w)
  BY NothingIs DEF Bare, Sound, Kinds, Reads, Touched
<1>2. Sure(row, odd, w)
  BY NothingIs DEF Bare, Sure, StaysApart, AddsLive, WillBe
<1> QED BY <1>1, <1>2, NothingIs DEF Good, Bare

LEMMA DeleteGood ==
  ASSUME IInv, NEW D, D \subseteq Ids, D \cap Sets = {}
  PROVE  Good(Delete(D))
<1> DEFINE w == Delete(D)
<1>1. /\ DOMAIN w = Fields
      /\ w.add = Nothing /\ w.upd = Nothing /\ w.del = D /\ w.purge = {} /\ w.reads = {}
      /\ w.field = None /\ w.log = D /\ w.batch = FALSE
  BY BlankIs DEF Delete, Fields
<1> HIDE DEF w
<1>2. Sound(w) /\ Kinds(w) /\ Reads(w)
  BY <1>1, NothingIs DEF Sound, Kinds, Reads, Touched
<1>3. Sure(row, odd, w)
  BY <1>1, NothingIs DEF Sure, Echo, StaysApart, AddsLive, WillBe
<1> QED BY <1>1, <1>2, <1>3, NothingIs DEF Good, w

-----------------------------------------------------------------------------
\* Rows of which some columns are written

LEMMA KeepsContact ==
  ASSUME NEW i \in Contacts, NEW u, DOMAIN u \subseteq {"reseller", "status"},
         "reseller" \in DOMAIN u => u["reseller"] \in Resellers \cup {None},
         "status" \in DOMAIN u => u["status"] \in Statuses
  PROVE  Keeps(i, u)
<1> SUFFICES ASSUME NEW q \in ContactRows PROVE Over(u, q) \in ContactRows
  BY FitsContact DEF Keeps
<1> QED BY DEF Over, ContactRows

LEMMA KeepsContract ==
  ASSUME NEW i \in Contracts, NEW u \in ContractRows PROVE Keeps(i, u)
<1> SUFFICES ASSUME NEW q \in ContractRows PROVE Over(u, q) \in ContractRows
  BY FitsContract DEF Keeps
<1> QED BY DEF Over, ContractRows

LEMMA KeepsReseller ==
  ASSUME NEW i \in Resellers, NEW u, DOMAIN u \subseteq {"contract", "name", "status"},
         "contract" \in DOMAIN u => u["contract"] \in Contracts,
         "name" \in DOMAIN u => u["name"] \in Names \cup {OldName(i, n) : n \in Names},
         "status" \in DOMAIN u => u["status"] \in Statuses
  PROVE  Keeps(i, u)
<1> SUFFICES ASSUME NEW q \in ResellerRows(i) PROVE Over(u, q) \in ResellerRows(i)
  BY FitsReseller DEF Keeps
<1> QED BY DEF Over, ResellerRows

LEMMA KeepsSet == ASSUME NEW i \in Sets, NEW u \in SetRows PROVE Keeps(i, u)
<1> SUFFICES ASSUME NEW q \in SetRows PROVE Over(u, q) \in SetRows
  BY FitsSet DEF Keeps
<1> QED BY DEF Over, SetRows

LEMMA KeepsLevel == ASSUME NEW i \in Levels, NEW u \in LevelRows PROVE Keeps(i, u)
<1> SUFFICES ASSUME NEW q \in LevelRows PROVE Over(u, q) \in LevelRows
  BY FitsLevel DEF Keeps
<1> QED BY DEF Over, LevelRows

LEMMA KeepsPattern == ASSUME NEW i \in Patterns, NEW u \in PatternRows PROVE Keeps(i, u)
<1> SUFFICES ASSUME NEW q \in PatternRows PROVE Over(u, q) \in PatternRows
  BY FitsPattern DEF Keeps
<1> QED BY DEF Over, PatternRows

LEMMA KeepsEntry ==
  ASSUME NEW i \in Entries,
         NEW u \in ResellerEntryRows \cup CustomerEntryRows \cup SubscriberEntryRows
  PROVE  Keeps(i, u)
<1> USE DEF ResellerEntryRows, CustomerEntryRows, SubscriberEntryRows
<1> SUFFICES ASSUME NEW q \in ResellerEntryRows \cup SubscriberEntryRows
             PROVE  Over(u, q) \in ResellerEntryRows \cup SubscriberEntryRows
  BY FitsEntry DEF Keeps
<1>1. CASE u \in SubscriberEntryRows
  BY <1>1 DEF Over
<1>2. CASE u \in ResellerEntryRows /\ q \in ResellerEntryRows
  BY <1>2 DEF Over
<1>3. CASE u \in ResellerEntryRows /\ q \in SubscriberEntryRows
  BY <1>3 DEF Over
<1> QED BY <1>1, <1>2, <1>3

LEMMA KeepsSpeedDial == ASSUME NEW i \in SpeedDials, NEW u \in SpeedDialRows PROVE Keeps(i, u)
<1> SUFFICES ASSUME NEW q \in SpeedDialRows PROVE Over(u, q) \in SpeedDialRows
  BY FitsSpeedDial DEF Keeps
<1> QED BY DEF Over, SpeedDialRows

LEMMA KeepsBalance ==
  ASSUME NEW i \in Balances, NEW u, DOMAIN u \subseteq {"customer", "cash", "debit"},
         "customer" \in DOMAIN u => u["customer"] \in Customers,
         "cash" \in DOMAIN u => u["cash"] \in Amounts,
         "debit" \in DOMAIN u => u["debit"] \in Amounts
  PROVE  Keeps(i, u)
<1> SUFFICES ASSUME NEW q \in BalanceRows PROVE Over(u, q) \in BalanceRows
  BY FitsBalance DEF Keeps
<1> QED BY DEF Over, BalanceRows

LEMMA KeepsTemplate ==
  ASSUME NEW i \in Templates, NEW u, DOMAIN u \subseteq {"reseller", "file"},
         "reseller" \in DOMAIN u => u["reseller"] \in Sellers,
         "file" \in DOMAIN u => u["file"] \in Files
  PROVE  Keeps(i, u)
<1> SUFFICES ASSUME NEW q \in TemplateRows PROVE Over(u, q) \in TemplateRows
  BY FitsTemplate DEF Keeps
<1> QED BY DEF Over, TemplateRows

LEMMA KeepsVoicemail ==
  ASSUME NEW i \in Voicemails, NEW u, DOMAIN u \subseteq {"folder", "bare"},
         "folder" \in DOMAIN u => u["folder"] \in Folders,
         "bare" \in DOMAIN u => u["bare"] \in BOOLEAN
  PROVE  Keeps(i, u)
<1> SUFFICES ASSUME NEW q \in VoicemailRows PROVE Over(u, q) \in VoicemailRows
  BY FitsVoicemail DEF Keeps
<1> QED BY DEF Over, VoicemailRows

-----------------------------------------------------------------------------
\* Writes

LEMMA WritesAre ==
  ASSUME NEW S, NEW B, NEW w \in Writes(S, B)
  PROVE  /\ Bare(w) /\ DOMAIN w.upd \subseteq S /\ Echo(row, w)
         /\ \E b \in B :
              \/ w.field = None /\ \A i \in DOMAIN w.upd : w.upd[i] = b
              \/ /\ w.field \in DOMAIN b
                 /\ \A i \in DOMAIN w.upd : w.upd[i] = Patched(row[i], w.field, b[w.field])
<1>1. CASE w \in Puts(S, B)
  BY <1>1, PutsAre DEF Echo
<1>2. CASE w \in Patches(S, B)
  BY <1>2, PatchesAre, PatchedIs DEF Echo
<1> QED BY <1>1, <1>2 DEF Writes

(* Every table but three. *)
LEMMA PlainTables ==
  \A T \in {Contacts, Contracts, SetLevels, Levels, Patterns, Entries, SpeedDials, Balances,
            Templates, Voicemails} :
    T \subseteq Ids /\ T \cap Sets = {} /\ T \cap Preferences = {} /\ T \cap Resellers = {}
BY IdsOfTables, TablesAre, OneTable

LEMMA OneIs == ASSUME NEW i, NEW q PROVE DOMAIN One(i, q) = {i} /\ One(i, q)[i] = q
BY DEF One

LEMMA FreshIs == ASSUME NEW S, S \subseteq Ids PROVE Fresh(S) \subseteq Fresh(Ids) \cap S
BY DEF Fresh

LEMMA BatchesAre == ASSUME NEW S, NEW D \in Batches(S) PROVE D \subseteq S
BY DEF Batches

LEMMA OneGood ==
  ASSUME IInv, NEW S, S \subseteq Ids, S \cap Resellers = {}, S \cap Preferences = {},
         NEW i \in Fresh(S), NEW q, Fits(i, q)
  PROVE  Good(Post(One(i, q)))
<1> DEFINE rows == One(i, q)
<1>1. i \in Fresh(Ids) /\ i \in S
  BY FreshIs
<1>2. DOMAIN rows = {i} /\ rows[i] = q
  BY OneIs
<1> HIDE DEF rows
<1>3. Good(Post(rows))
  BY <1>1, <1>2, PostGood
<1> QED BY <1>3 DEF rows

LEMMA RowFits == ASSUME IInv, NEW i \in Ids, row[i] # None PROVE Fits(i, row[i])
BY DEF IInv, Types, RowsOK

-----------------------------------------------------------------------------
\* Contacts

LEMMA ContactsFit == ASSUME IInv, NEW k \in AllContacts PROVE row[k] \in ContactRows
BY RowFits, FitsContact, IdsOfTables DEF AllContacts, Exists

LEMMA PatchedContact ==
  ASSUME NEW q \in ContactRows, NEW b \in ContactRows, NEW f \in DOMAIN b
  PROVE  Patched(q, f, b[f]) \in ContactRows
BY DEF Patched, ContactRows

LEMMA ContactWrites ==
  ASSUME IInv, NEW S, S \subseteq AllContacts, NEW B, B \subseteq ContactRows,
         NEW w \in Writes(S, B)
  PROVE  /\ Bare(w) /\ DOMAIN w.upd \subseteq S /\ Echo(row, w)
         /\ \A k \in DOMAIN w.upd : w.upd[k] \in ContactRows
BY WritesAre, ContactsFit, PatchedContact

LEMMA ContactWriteGood ==
  ASSUME IInv, NEW w, Bare(w), DOMAIN w.upd \subseteq AllContacts, Echo(row, w),
         \A k \in DOMAIN w.upd : w.upd[k] \in ContactRows,
         NEW shown, "status" \in shown
  PROVE  Good(ContactWrite(w, shown))
<1> DEFINE upd == [k \in DOMAIN w.upd |-> Given(w.upd[k])]
           z == Rewritten(w, upd, shown)
<1>1. /\ \A k \in DOMAIN w.upd : /\ DOMAIN upd[k] \subseteq DOMAIN w.upd[k]
                                 /\ \A f \in DOMAIN upd[k] : upd[k][f] = w.upd[k][f]
      /\ DOMAIN upd = DOMAIN w.upd
  BY DEF Given
<1>2. \A k \in DOMAIN upd : Keeps(k, upd[k])
  <2> SUFFICES ASSUME NEW k \in DOMAIN w.upd PROVE Keeps(k, upd[k])
    BY <1>1
  <2>1. k \in Contacts /\ w.upd[k] \in ContactRows
    BY DEF AllContacts
  <2> HIDE DEF upd
  <2> QED BY <1>1, <2>1, KeepsContact DEF ContactRows
<1> HIDE DEF upd
<1>3. Bare(z) /\ z.upd = upd /\ z.shows = shown /\ z.field = w.field /\ z.log = w.log
  BY <1>1, RewrittenIs
<1> HIDE DEF z
<1>4. Echo(row, z)
  BY <1>1, <1>3 DEF Echo
<1>5. \A k \in z.log : \A q : Fits(k, q) => DOMAIN q \cap z.shows # {}
  BY <1>1, <1>3, FitsContact DEF Bare, AllContacts, ContactRows
<1>6. /\ DOMAIN z.upd \subseteq Contacts /\ \A k \in DOMAIN z.upd : row[k] # None
  BY <1>1, <1>3 DEF AllContacts, Exists
<1>7. Good(z)
  BY <1>2, <1>3, <1>4, <1>5, <1>6, WriteGood, PlainTables
<1> QED BY <1>7 DEF ContactWrite, z, upd

LEMMA WriteContactsBegins == ASSUME IInv, NEW h \in Requests, WriteContacts(h) PROVE Begins(h)
<1>1. PICK w \in Writes(AllContacts, ContactBodies) : Begin(h, ContactWrite(w, ContactResponse))
  BY DEF WriteContacts
<1>2. ContactBodies \subseteq ContactRows /\ "status" \in ContactResponse
  BY DEF ContactBodies, ContactRows, ContactResponse
<1>3. Good(ContactWrite(w, ContactResponse))
  BY <1>2, ContactWrites, ContactWriteGood
<1> QED BY <1>1, <1>3 DEF Begins

LEMMA WriteSystemContactsBegins ==
  ASSUME IInv, NEW h \in Requests, WriteSystemContacts(h) PROVE Begins(h)
<1>1. PICK w \in Writes(SystemContacts, SystemContactBodies) :
        Begin(h, ContactWrite(w, SystemContactResponse))
  BY DEF WriteSystemContacts
<1>2. /\ SystemContactBodies \subseteq ContactRows /\ "status" \in SystemContactResponse
      /\ SystemContacts \subseteq AllContacts
  BY DEF SystemContactBodies, ContactRows, SystemContactResponse, SystemContacts, AllContacts
<1>3. Good(ContactWrite(w, SystemContactResponse))
  BY <1>2, ContactWrites, ContactWriteGood
<1> QED BY <1>1, <1>3 DEF Begins

(* A reseller's update leaves the contact its own: that is an echo too. *)
LEMMA WriteCustomerContactsBegins ==
  ASSUME IInv, NEW h \in Requests, WriteCustomerContacts(h) PROVE Begins(h)
<1>1. PICK who \in AccountCallers :
        \E v \in Writes(CustomerContacts(who), CustomerContactBodies) :
          Begin(h, ContactWrite([v EXCEPT !.upd = OwnContacts(who, v.upd)],
                                CustomerContactResponse(who)))
  BY DEF WriteCustomerContacts
<1>2. PICK v \in Writes(CustomerContacts(who), CustomerContactBodies) :
        Begin(h, ContactWrite([v EXCEPT !.upd = OwnContacts(who, v.upd)],
                              CustomerContactResponse(who)))
  BY <1>1
<1> DEFINE own == OwnContacts(who, v.upd)
           w == [v EXCEPT !.upd = own]
<1>3. /\ CustomerContactBodies \subseteq ContactRows /\ CustomerContacts(who) \subseteq AllContacts
      /\ "status" \in CustomerContactResponse(who)
  BY DEF CustomerContactBodies, ContactRows, CustomerContacts, AllContacts, CustomerContactResponse
<1>4. /\ Bare(v) /\ DOMAIN v.upd \subseteq CustomerContacts(who) /\ Echo(row, v)
      /\ \A k \in DOMAIN v.upd : v.upd[k] \in ContactRows
  BY <1>3, ContactWrites
<1>5. /\ DOMAIN own = DOMAIN v.upd
      /\ \A k \in DOMAIN own : /\ own[k] \in ContactRows
                               /\ own[k].status = v.upd[k].status
                               /\ own[k].reseller = v.upd[k].reseller \/ own[k].reseller = row[k].reseller
  <2>1. CASE who = Admin
    BY <2>1, <1>4 DEF OwnContacts
  <2>2. CASE who # Admin
    <3>1. who \in Resellers
      BY <2>2 DEF AccountCallers
    <3>2. \A k \in DOMAIN v.upd : row[k].reseller = who
      BY <2>2, <1>4 DEF CustomerContacts
    <3>3. /\ DOMAIN own = DOMAIN v.upd
          /\ \A k \in DOMAIN own : own[k] = [v.upd[k] EXCEPT !.reseller = who]
      BY <2>2 DEF OwnContacts
    <3> HIDE DEF own
    <3> QED BY <1>4, <3>1, <3>2, <3>3 DEF ContactRows
  <2> QED BY <2>1, <2>2
<1> HIDE DEF own
<1>6. Bare(w) /\ w.upd = own /\ w.field = v.field
  BY <1>4, <1>5 DEF Bare, Fields
<1> HIDE DEF w
<1>7. Echo(row, w)
  <2> SUFFICES ASSUME w.field # None, NEW k \in DOMAIN own, row[k] # None,
                      NEW f \in DOMAIN own[k] \cap DOMAIN row[k], f \notin {w.field, "product", "bare"}
               PROVE  own[k][f] = row[k][f]
    BY <1>6 DEF Echo
  <2>1. f \in {"reseller", "status"} /\ f \in DOMAIN v.upd[k] /\ v.upd[k][f] = row[k][f]
    BY <1>4, <1>5, <1>6 DEF Echo, ContactRows
  <2> QED BY <1>5, <2>1
<1>8. Good(ContactWrite(w, CustomerContactResponse(who)))
  BY <1>3, <1>4, <1>5, <1>6, <1>7, ContactWriteGood
<1> QED BY <1>2, <1>8 DEF Begins, w, own

(* A deleted contact of a terminated contract is terminated first. *)
LEMMA DeletesContactsGood ==
  ASSUME IInv, NEW D, D \subseteq Contacts, \A k \in D : row[k] # None
  PROVE  Good(DeletesContacts(D))
<1> DEFINE w == DeletesContacts(D)
           upd == [k \in {k \in D : ContractsOf(k) # {}} |-> [status |-> "terminated"]]
<1>1. /\ DOMAIN w = Fields
      /\ w.add = Nothing /\ w.upd = upd /\ w.del = D /\ w.purge = {} /\ w.reads = Contracts
      /\ w.field = None /\ w.log = D /\ w.batch = FALSE
  BY BlankIs DEF DeletesContacts, Delete, Fields
<1>2. DOMAIN upd \subseteq D /\ \A k \in DOMAIN upd : Keeps(k, upd[k])
  <2>1. \A k \in DOMAIN upd : k \in D /\ upd[k] = [status |-> "terminated"]
    OBVIOUS
  <2> HIDE DEF upd
  <2> QED BY <2>1, KeepsContact DEF Statuses
<1> HIDE DEF w, upd
<1>3. Sound(w) /\ Kinds(w) /\ Reads(w)
  BY <1>1, <1>2, NothingIs, PlainTables DEF Sound, Kinds, Reads, Touched
<1>4. Sure(row, odd, w)
  BY <1>1, <1>2, NothingIs, PlainTables DEF Sure, Echo, StaysApart, AddsLive, WillBe
<1> QED BY <1>1, <1>2, <1>3, <1>4, NothingIs DEF Good, w

LEMMA DeletesContactsBegins ==
  ASSUME IInv, NEW h \in Requests,
         DeleteContacts(h) \/ DeleteCustomerContacts(h) \/ DeleteSystemContacts(h)
  PROVE  Begins(h)
<1>1. CASE DeleteContacts(h)
  <2>1. PICK D \in Batches(AllContacts) : Begin(h, DeletesContacts(D))
    BY <1>1 DEF DeleteContacts
  <2>2. Good(DeletesContacts(D))
    BY DeletesContactsGood, BatchesAre DEF AllContacts, Exists
  <2> QED BY <2>1, <2>2 DEF Begins
<1>2. CASE DeleteCustomerContacts(h)
  <2>1. PICK who \in AccountCallers : \E D \in Batches(CustomerContacts(who)) :
          Begin(h, DeletesContacts(D))
    BY <1>2 DEF DeleteCustomerContacts
  <2>2. PICK D \in Batches(CustomerContacts(who)) : Begin(h, DeletesContacts(D))
    BY <2>1
  <2>3. Good(DeletesContacts(D))
    BY DeletesContactsGood, BatchesAre DEF CustomerContacts, Exists
  <2> QED BY <2>2, <2>3 DEF Begins
<1>3. CASE DeleteSystemContacts(h)
  <2>1. PICK D \in Batches(SystemContacts) : Begin(h, Delete(D))
    BY <1>3 DEF DeleteSystemContacts
  <2>2. Good(Delete(D))
    BY DeleteGood, BatchesAre, PlainTables DEF SystemContacts
  <2> QED BY <2>1, <2>2 DEF Begins
<1> QED BY <1>1, <1>2, <1>3

-----------------------------------------------------------------------------
\* Contracts

LEMMA CreateContractsBegins == ASSUME IInv, NEW h \in Requests, CreateContracts(h) PROVE Begins(h)
<1>1. PICK c \in Fresh(Contracts), b \in ContractBodies : Begin(h, Post(One(c, b)))
  BY DEF CreateContracts
<1>2. Fits(c, b)
  BY FreshIs, IdsOfTables, FitsContract DEF ContractBodies, ContractRows
<1>3. Good(Post(One(c, b)))
  BY <1>2, OneGood, PlainTables
<1> QED BY <1>1, <1>3 DEF Begins

LEMMA PatchedContract ==
  ASSUME NEW q \in ContractRows, NEW b \in ContractRows, NEW f \in DOMAIN b
  PROVE  Patched(q, f, b[f]) \in ContractRows
BY DEF Patched, ContractRows

LEMMA WriteContractsBegins == ASSUME IInv, NEW h \in Requests, WriteContracts(h) PROVE Begins(h)
<1>1. PICK w \in Writes(AllContracts, ContractBodies) :
        Begin(h, Rewritten(w, Retyped(w), ContractResponse))
  BY DEF WriteContracts
<1> DEFINE upd == Retyped(w)
           z == Rewritten(w, upd, ContractResponse)
<1>2. \A c \in AllContracts : c \in Contracts /\ row[c] # None /\ row[c] \in ContractRows
  BY RowFits, FitsContract, IdsOfTables DEF AllContracts, Exists
<1>3. ContractBodies = ContractRows
  BY DEF ContractBodies, ContractRows
<1>4. /\ Bare(w) /\ DOMAIN w.upd \subseteq AllContracts /\ Echo(row, w)
      /\ \A c \in DOMAIN w.upd : w.upd[c] \in ContractRows
  BY <1>2, <1>3, WritesAre, PatchedContract
<1>5. /\ DOMAIN upd = DOMAIN w.upd
      /\ \A c \in DOMAIN upd : /\ upd[c] \in ContractRows
                               /\ \A f \in DOMAIN upd[c] \ {"product"} : upd[c][f] = w.upd[c][f]
                               /\ DOMAIN upd[c] = DOMAIN w.upd[c]
  BY <1>4 DEF Retyped, ContractRows, Products
<1> HIDE DEF upd
<1>6. Bare(z) /\ z.upd = upd /\ z.shows = ContractResponse /\ z.field = w.field /\ z.log = w.log
  BY <1>4, <1>5, RewrittenIs
<1> HIDE DEF z
<1>7. Echo(row, z)
  BY <1>4, <1>5, <1>6 DEF Echo
<1>8. \A c \in DOMAIN z.upd : Keeps(c, z.upd[c])
  BY <1>2, <1>4, <1>5, <1>6, KeepsContract
<1>9. \A c \in z.log : \A q : Fits(c, q) => DOMAIN q \cap z.shows # {}
  BY <1>2, <1>4, <1>5, <1>6, FitsContract DEF Bare, ContractRows, ContractResponse
<1>10. Good(z)
  BY <1>2, <1>4, <1>5, <1>6, <1>7, <1>8, <1>9, WriteGood, PlainTables
<1> QED BY <1>1, <1>10 DEF Begins, z, upd

-----------------------------------------------------------------------------
\* Resellers

LEMMA ResellersFit ==
  ASSUME IInv, NEW r \in AllResellers
  PROVE  r \in Resellers /\ row[r] # None /\ row[r] \in ResellerRows(r)
BY RowFits, FitsReseller, IdsOfTables DEF AllResellers, Exists

LEMMA OverName ==
  ASSUME NEW t \in Resellers, NEW q \in ResellerRows(t), NEW u, u = [name |-> OldName(t, q.name)]
  PROVE  Over(u, q).name = OldName(t, q.name) /\ Over(u, q).contract = q.contract
BY DEF Over, ResellerRows

LEMMA OverReseller ==
  ASSUME NEW t \in Resellers, NEW q \in ResellerRows(t), NEW u \in ResellerRows(t)
  PROVE  Over(u, q).name = u.name /\ Over(u, q).contract = u.contract
BY DEF Over, ResellerRows

(* Resellers to be created one at a time stay apart from the others: their  *)
(* contract is free, and who had their name gets an old one.                *)
LEMMA CreatedApart ==
  ASSUME IInv, NEW r0 \in Resellers, row[r0] = None, NEW b \in ResellerBodies,
         ContractFree(b.contract), NEW w,
         w.add = [r \in {r0} |-> b], w.upd = [t \in Named(b.name) |-> Renamed(t)]
  PROVE  StaysApart(row, odd, w)
<1>1. DOMAIN w.add = {r0} /\ w.add[r0] = b /\ DOMAIN w.upd = Named(b.name)
  OBVIOUS
<1>2. ASSUME NEW t \in Named(b.name)
      PROVE  /\ t \in AllResellers /\ row[t].name = b.name /\ row[t].contract # b.contract
             /\ w.upd[t] = [name |-> OldName(t, row[t].name)]
             /\ Becomes(row, w, t).name = OldName(t, b.name)
             /\ Becomes(row, w, t).contract = row[t].contract
             /\ t # r0
  <2>1. t \in AllResellers /\ row[t].name = b.name /\ t # r0
    BY DEF Named, AllResellers, Exists
  <2>2. row[t].contract # b.contract
    BY <2>1 DEF ContractFree, HasReseller
  <2>3. w.upd[t] = [name |-> OldName(t, row[t].name)]
    BY DEF Renamed
  <2>4. Becomes(row, w, t) = Over(w.upd[t], row[t])
    BY <1>1, <2>1 DEF Becomes
  <2> QED BY <2>1, <2>2, <2>3, <2>4, OverName, ResellersFit
<1>3. b.name \in Names /\ \A t \in Resellers : OldName(t, b.name) \in Renames(t)
  BY DEF ResellerBodies, Renames
<1>4. Becomes(row, w, r0) = b
  BY <1>1 DEF Becomes
<1>5. ASSUME NEW s \in WillBe(row, odd, w), s # r0
      PROVE  s \in AllResellers /\ s \notin odd
  BY <1>1, <1>5 DEF WillBe, AllResellers, Exists
<1>6. ASSUME NEW s \in AllResellers, s \notin Named(b.name), s # r0
      PROVE  /\ Becomes(row, w, s) = row[s] /\ row[s].name # b.name
             /\ row[s].contract # b.contract
  <2>1. Becomes(row, w, s) = row[s] /\ row[s].name # b.name
    BY <1>1, <1>6 DEF Becomes, Named
  <2>2. row[s].contract # b.contract
    BY DEF ContractFree, HasReseller
  <2> QED BY <2>1, <2>2
<1>7. ASSUME NEW s \in WillBe(row, odd, w), s # r0
      PROVE  /\ Becomes(row, w, s).contract # b.contract
             /\ NamedApart(s, Becomes(row, w, s), r0, b)
             /\ NamedApart(r0, b, s, Becomes(row, w, s))
             /\ Becomes(row, w, s).contract = row[s].contract
  BY <1>2, <1>3, <1>5, <1>6, <1>7, ResellersFit DEF NamedApart
<1>8. ASSUME NEW t \in WillBe(row, odd, w), NEW s \in WillBe(row, odd, w), t # s,
             t # r0, s # r0, t \in Named(b.name)
      PROVE  /\ Becomes(row, w, t).contract # Becomes(row, w, s).contract
             /\ NamedApart(t, Becomes(row, w, t), s, Becomes(row, w, s))
  <2>1. t \in AllResellers /\ s \in AllResellers /\ t \notin odd /\ s \notin odd
    BY <1>5, <1>8
  <2>2. row[t].contract # row[s].contract
    BY <1>8, <2>1, ResellersFit DEF IInv, ResellersApart, Apart
  <2>3. Becomes(row, w, t).name \in Renames(t)
    BY <1>2, <1>3, <1>8, <2>1, ResellersFit
  <2> QED BY <1>2, <1>7, <1>8, <2>2, <2>3 DEF NamedApart
<1> QED BY <1>1, <1>4, <1>7, <1>8 DEF StaysApart

LEMMA CreateResellersBegins == ASSUME IInv, NEW h \in Requests, CreateResellers(h) PROVE Begins(h)
<1>a. PICK S \in Batches(Fresh(Resellers)) :
        \E body \in [S -> ResellerBodies], found \in [S -> Resellers \cup {None}] :
          /\ \A r \in S : ResellerCreatable(body[r], found[r])
          /\ \A r, s \in S : r # s => /\ ~Shared(body[r].name)
                                     /\ body[s].name # OldName(found[r], body[r].name)
          /\ LET taken == {found[r] : r \in S} \ {None}
             IN  Begin(h, [Post(body) EXCEPT
                             !.upd = [t \in taken |-> Renamed(t)],
                             !.reads = ResellerReads,
                             !.batch = \E r, s \in S : r # s \/ Shared(body[r].name)])
  BY DEF CreateResellers
<1>1. PICK body \in [S -> ResellerBodies], found \in [S -> Resellers \cup {None}] :
        /\ \A r \in S : ResellerCreatable(body[r], found[r])
        /\ LET taken == {found[r] : r \in S} \ {None}
           IN  Begin(h, [Post(body) EXCEPT
                           !.upd = [t \in taken |-> Renamed(t)],
                           !.reads = ResellerReads,
                           !.batch = \E r, s \in S : r # s \/ Shared(body[r].name)])
  BY <1>a
<1>2. \A r \in S : /\ ContractFree(body[r].contract)
                   /\ FoundByName(found[r], body[r].name)
  BY <1>1 DEF ResellerCreatable
<1> DEFINE taken == {found[r] : r \in S} \ {None}
           upd == [t \in taken |-> Renamed(t)]
           many == \E r, s \in S : r # s \/ Shared(body[r].name)
           w == [Post(body) EXCEPT !.upd = upd, !.reads = ResellerReads, !.batch = many]
<1>3. Begin(h, w)
  BY <1>1
<1>4. /\ DOMAIN w = Fields
      /\ w.add = body /\ w.upd = upd /\ w.del = {} /\ w.purge = {} /\ w.reads = ResellerReads
      /\ w.field = None /\ w.log = {} /\ w.batch = many
  BY BlankIs DEF Post, Fields
<1> HIDE DEF w
<1>5. /\ \A r \in S : /\ r \in Resellers /\ r \in Ids /\ row[r] = None
                      /\ \A g \in Running : r \notin DOMAIN req[g].add
                      /\ body[r] \in ResellerBodies
      /\ DOMAIN body = S /\ S # {}
  BY IdsOfTables DEF Batches, Fresh, Exists
<1>6. \A t \in taken : /\ t \in Resellers /\ t \in Ids /\ row[t] # None /\ row[t].name \in Names
                       /\ upd[t] = [name |-> OldName(t, row[t].name)]
  BY <1>2, <1>5, ResellersFit, IdsOfTables DEF FoundByName, Named, ResellerBodies, Renamed
<1>7. DOMAIN upd = taken
  OBVIOUS
<1>8. \A r \in S : Fits(r, body[r])
  BY <1>5, FitsReseller DEF ResellerBodies, ResellerRows
<1>9. \A t \in taken : Keeps(t, upd[t])
  <2> SUFFICES ASSUME NEW t \in taken PROVE Keeps(t, upd[t])
    OBVIOUS
  <2>1. t \in Resellers /\ row[t].name \in Names /\ upd[t] = [name |-> OldName(t, row[t].name)]
    BY <1>6
  <2> HIDE DEF upd, taken
  <2> QED BY <2>1, KeepsReseller
<1>10. StaysApart(row, odd, w)
  <2>1. CASE many
    BY <1>4, <2>1 DEF StaysApart
  <2>2. CASE ~many
    <3>1. PICK r0 \in S : S = {r0}
      BY <1>5, <2>2
    <3>2. taken = Named(body[r0].name)
      <4>1. \A t, s \in Named(body[r0].name) : t = s
        BY <2>2 DEF Shared
      <4>2. None \notin Named(body[r0].name)
        BY ResellersFit, IdsOfTables, TablesAssumption DEF Named
      <4> QED BY <1>2, <3>1, <4>1, <4>2 DEF FoundByName
    <3>3. /\ body = [r \in {r0} |-> body[r0]]
          /\ upd = [t \in Named(body[r0].name) |-> Renamed(t)]
      BY <1>5, <3>1, <3>2
    <3>4. ContractFree(body[r0].contract) /\ r0 \in Resellers /\ row[r0] = None
          /\ body[r0] \in ResellerBodies
      BY <1>2, <1>5
    <3> HIDE DEF upd, taken, many
    <3>5. /\ w.add = [r \in {r0} |-> body[r0]]
          /\ w.upd = [t \in Named(body[r0].name) |-> Renamed(t)]
      BY <1>4, <3>3
    <3> QED BY <3>4, <3>5, CreatedApart
  <2> QED BY <2>1, <2>2
<1> HIDE DEF upd, taken, many
<1>11. Sound(w)
  <2>1. ResellerReads \subseteq Ids
    BY IdsOfTables DEF ResellerReads
  <2>2. Touched(w) \subseteq Ids
    BY <1>4, <1>5, <1>6, <1>7, <2>1 DEF Touched
  <2>3. DOMAIN w.add \cap (DOMAIN w.upd \cup w.del) = {}
    BY <1>4, <1>5, <1>6, <1>7
  <2>4. \A i \in DOMAIN w.add : Fits(i, w.add[i])
    BY <1>4, <1>5, <1>8
  <2>5. \A i \in DOMAIN w.upd : Keeps(i, w.upd[i])
    BY <1>4, <1>7, <1>9
  <2> QED BY <1>4, <2>2, <2>3, <2>4, <2>5 DEF Sound
<1>12. Kinds(w) /\ Reads(w)
  BY <1>4, <1>5, <1>6, <1>7, SetsApart DEF Kinds, Reads, ResellerReads
<1>13. Sure(row, odd, w)
  BY <1>4, <1>5, <1>6, <1>7, <1>10, SetsApart DEF Sure, Echo, AddsLive
<1>14. Good(w)
  BY <1>4, <1>5, <1>6, <1>7, <1>11, <1>12, <1>13 DEF Good
<1> QED BY <1>3, <1>14 DEF Begins

LEMMA PatchedReseller ==
  ASSUME NEW r \in Resellers, NEW q \in ResellerRows(r), NEW b \in ResellerBodies,
         NEW f \in DOMAIN b
  PROVE  Patched(q, f, b[f]) \in ResellerRows(r)
BY DEF Patched, ResellerRows, ResellerBodies

LEMMA WriteResellersBegins == ASSUME IInv, NEW h \in Requests, WriteResellers(h) PROVE Begins(h)
<1>1. PICK v \in Writes(AllResellers, ResellerBodies) :
        /\ \A r \in DOMAIN v.upd : ResellerChangeable(r, v.upd[r])
        /\ Begin(h, [v EXCEPT !.shows = ResellerResponse, !.reads = ResellerReads,
                              !.batch = \E r, s \in DOMAIN v.upd : r # s])
  BY DEF WriteResellers
<1> DEFINE many == \E r, s \in DOMAIN v.upd : r # s
           w == [v EXCEPT !.shows = ResellerResponse, !.reads = ResellerReads, !.batch = many]
<1>2. Begin(h, w)
  BY <1>1
<1>3. /\ Bare(v) /\ DOMAIN v.upd \subseteq AllResellers /\ Echo(row, v)
      /\ \A r \in DOMAIN v.upd : v.upd[r] \in ResellerRows(r)
  <2>1. \A r \in Resellers : ResellerBodies \subseteq ResellerRows(r)
    BY DEF ResellerBodies, ResellerRows
  <2> QED BY <2>1, WritesAre, PatchedReseller, ResellersFit
<1>4. /\ DOMAIN w = Fields
      /\ w.add = Nothing /\ w.upd = v.upd /\ w.del = {} /\ w.purge = {} /\ w.reads = ResellerReads
      /\ w.field = v.field /\ w.log = v.log /\ w.batch = many /\ w.shows = ResellerResponse
  BY <1>3 DEF Bare, Fields
<1> HIDE DEF w
<1>5. \A r \in DOMAIN v.upd : r \in Resellers /\ r \in Ids /\ row[r] # None
                              /\ row[r] \in ResellerRows(r) /\ Keeps(r, v.upd[r])
  <2> SUFFICES ASSUME NEW r \in DOMAIN v.upd PROVE r \in Resellers /\ r \in Ids /\ row[r] # None
                              /\ row[r] \in ResellerRows(r) /\ Keeps(r, v.upd[r])
    OBVIOUS
  <2>1. r \in Resellers /\ row[r] # None /\ row[r] \in ResellerRows(r)
    BY <1>3, ResellersFit
  <2>2. v.upd[r] \in ResellerRows(r)
    BY <1>3
  <2>3. Keeps(r, v.upd[r])
    BY <2>1, <2>2, KeepsReseller DEF ResellerRows
  <2> QED BY <2>1, <2>3, IdsOfTables
<1>6. Sound(w)
  <2>1. ResellerReads \subseteq Ids
    BY IdsOfTables DEF ResellerReads
  <2> QED BY <1>3, <1>4, <1>5, <2>1, NothingIs DEF Sound, Touched, Bare
<1>7. Kinds(w) /\ Reads(w)
  <2>1. \A r \in v.log : \A q : Fits(r, q) => DOMAIN q \cap ResellerResponse # {}
    BY <1>3, <1>5, FitsReseller DEF Bare, ResellerRows, ResellerResponse
  <2> QED BY <1>3, <1>4, <1>5, <2>1, NothingIs, SetsApart DEF Kinds, Reads, ResellerReads, Bare
<1>8. StaysApart(row, odd, w)
  <2> SUFFICES ASSUME ~many, NEW t \in WillBe(row, odd, w), NEW s \in WillBe(row, odd, w), t # s,
                      t \in DOMAIN v.upd
               PROVE  /\ Becomes(row, w, t).contract # Becomes(row, w, s).contract
                      /\ NamedApart(t, Becomes(row, w, t), s, Becomes(row, w, s))
    BY <1>4, NothingIs DEF StaysApart
  <2>1. s \notin DOMAIN v.upd /\ s \in AllResellers /\ s \notin odd /\ t \notin odd
    BY <1>4, NothingIs DEF WillBe, AllResellers, Exists
  <2>2. Becomes(row, w, s) = row[s] /\ Becomes(row, w, t) = Over(v.upd[t], row[t])
    BY <1>4, <2>1, NothingIs DEF Becomes
  <2>3. /\ Becomes(row, w, t).contract = v.upd[t].contract
        /\ Becomes(row, w, t).name = v.upd[t].name
    BY <1>3, <1>5, <2>2, OverReseller
  <2>4. row[t].contract # row[s].contract /\ NamedApart(t, row[t], s, row[s])
    BY <1>5, <2>1, ResellersFit DEF IInv, ResellersApart, Apart
  <2>5. ResellerChangeable(t, v.upd[t])
    BY <1>1
  <2>6. v.upd[t].contract # row[s].contract
    BY <2>1, <2>4, <2>5 DEF ResellerChangeable, ContractFree, HasReseller
  <2>7. v.upd[t].name = row[t].name \/ v.upd[t].name # row[s].name
    BY <2>1, <2>5 DEF ResellerChangeable, Named
  <2> QED BY <2>2, <2>3, <2>4, <2>6, <2>7 DEF NamedApart
<1>9. Echo(row, w)
  BY <1>3, <1>4 DEF Echo
<1>10. Sure(row, odd, w)
  BY <1>4, <1>5, <1>8, <1>9, NothingIs, SetsApart DEF Sure, AddsLive
<1>11. Good(w)
  BY <1>4, <1>5, <1>6, <1>7, <1>10, NothingIs DEF Good
<1> QED BY <1>2, <1>11 DEF Begins

-----------------------------------------------------------------------------
\* NCOS sets

LEMMA PostReadsGood ==
  ASSUME IInv, NEW rows, DOMAIN rows \subseteq Fresh(Ids), DOMAIN rows \cap Resellers = {},
         \A i \in DOMAIN rows : Fits(i, rows[i]), NEW Q, Q \subseteq Ids,
         \A p \in DOMAIN rows \cap Preferences : \A s \in rows[p].names :
           s \in Q /\ row[s] # None /\ (rows[p].own => row[s].exposed)
  PROVE  Good([Post(rows) EXCEPT !.reads = Q])
<1> DEFINE w == [Post(rows) EXCEPT !.reads = Q]
<1>1. /\ DOMAIN w = Fields
      /\ w.add = rows /\ w.upd = Nothing /\ w.del = {} /\ w.purge = {} /\ w.reads = Q
      /\ w.field = None /\ w.log = {} /\ w.batch = FALSE
  BY BlankIs DEF Post, Fields
<1> HIDE DEF w
<1>2. \A i \in DOMAIN rows : i \in Ids /\ row[i] = None /\ \A g \in Running : i \notin DOMAIN req[g].add
  BY DEF Fresh, Exists
<1>3. Sound(w) /\ Kinds(w) /\ Reads(w)
  BY <1>1, <1>2, NothingIs DEF Sound, Kinds, Reads, Touched
<1>4. Sure(row, odd, w)
  <2>1. AddsLive(row, w)
    BY <1>1 DEF AddsLive
  <2> QED BY <1>1, <2>1, NothingIs DEF Sure, Echo, StaysApart, WillBe
<1> QED BY <1>1, <1>2, <1>3, <1>4, NothingIs DEF Good, w

LEMMA PreferencesFit ==
  ASSUME IInv, NEW p \in Preferences, row[p] # None, NEW s \in row[p].names
  PROVE  s \in Sets /\ row[p].names = {s} /\ row[p].own \in BOOLEAN
<1>1. row[p] \in PreferenceRows
  BY RowFits, FitsPreference, IdsOfTables
<1> QED BY <1>1 DEF PreferenceRows

LEMMA PatchedSet ==
  ASSUME NEW q \in SetRows, NEW b \in SetBodies, NEW f \in DOMAIN b
  PROVE  Patched(q, f, b[f]) \in SetRows
BY DEF Patched, SetRows, SetBodies

LEMMA CreateSetsBegins == ASSUME IInv, NEW h \in Requests, CreateSets(h) PROVE Begins(h)
<1>1. PICK who \in NcosCallers, s \in Fresh(Sets), b \in SetBodies :
        Begin(h, Post(One(s, Whose(who, b))))
  BY DEF CreateSets
<1>2. Whose(who, b) \in SetRows
  BY DEF Whose, NcosCallers, SetBodies, SetRows
<1>3. Fits(s, Whose(who, b))
  BY <1>2, FreshIs, IdsOfTables, FitsSet
<1>4. Good(Post(One(s, Whose(who, b))))
  BY <1>3, OneGood, IdsOfTables, SetsApart
<1> QED BY <1>1, <1>4 DEF Begins

(* A set that is no longer exposed takes along the customers' own preferences *)
(* that name it.                                                              *)
LEMMA SetChangeGood ==
  ASSUME IInv, NEW w \in Writes({s \in Sets : Exists(s)}, SetBodies)
  PROVE  Good([SetChange(w) EXCEPT !.shows = SetResponse])
<1> DEFINE z == [SetChange(w) EXCEPT !.shows = SetResponse]
           revokes == {s \in DOMAIN w.upd : row[s].exposed /\ ~w.upd[s].exposed}
           own == OwnReferences(revokes)
<1>1. \A s \in {s \in Sets : Exists(s)} : s \in Ids /\ row[s] # None /\ row[s] \in SetRows
  BY RowFits, FitsSet, IdsOfTables DEF Exists
<1>2. /\ Bare(w) /\ DOMAIN w.upd \subseteq {s \in Sets : Exists(s)} /\ Echo(row, w)
      /\ \A s \in DOMAIN w.upd : w.upd[s] \in SetRows
  <2>1. SetBodies = SetRows
    BY DEF SetBodies, SetRows
  <2> QED BY <1>1, <2>1, WritesAre, PatchedSet
<1>3. /\ DOMAIN z = Fields
      /\ z.add = Nothing /\ z.upd = w.upd /\ z.del = own /\ z.purge = {}
      /\ z.reads = Preferences /\ z.batch = FALSE
      /\ z.field = w.field /\ z.log = w.log /\ z.shows = SetResponse
      /\ w.log \subseteq DOMAIN w.upd
  BY <1>2 DEF Bare, SetChange, Fields
<1>4. own \subseteq Preferences
  BY DEF OwnReferences, SetReferences
<1>5. \A s \in DOMAIN w.upd : /\ s \in Sets /\ s \in Ids /\ row[s] # None
                              /\ row[s] \in SetRows /\ w.upd[s] \in SetRows /\ Keeps(s, w.upd[s])
  BY <1>1, <1>2, KeepsSet
<1>6. LeavesLive(row, z)
  <2> SUFFICES ASSUME NEW p \in Preferences \ own, row[p] # None, NEW s \in row[p].names
               PROVE  /\ s \notin own
                      /\ s \in DOMAIN w.upd /\ row[p].own /\ row[s] # None /\ row[s].exposed =>
                           Over(w.upd[s], row[s]).exposed
    BY <1>3 DEF LeavesLive
  <2>1. s \in Sets /\ row[p].names = {s} /\ row[p].own \in BOOLEAN
    BY PreferencesFit
  <2>2. ASSUME s \in DOMAIN w.upd, row[p].own, row[s].exposed PROVE w.upd[s].exposed
    <3>1. CASE s \in revokes
      BY <2>1, <2>2, <3>1 DEF OwnReferences, SetReferences, Exists
    <3>2. CASE s \notin revokes
      BY <1>5, <2>2, <3>2
    <3> QED BY <3>1, <3>2
  <2>3. ASSUME s \in DOMAIN w.upd PROVE Over(w.upd[s], row[s]).exposed = w.upd[s].exposed
    BY <1>5, <2>3 DEF Over, SetRows
  <2> QED BY <1>4, <2>1, <2>2, <2>3, SetsApart
<1> HIDE DEF z, own, revokes
<1>7. Sound(z)
  BY <1>3, <1>4, <1>5, NothingIs, IdsOfTables DEF Sound, Touched
<1>8. Kinds(z)
  <2>1. \A s \in w.log : \A q : Fits(s, q) => DOMAIN q \cap SetResponse # {}
    BY <1>3, <1>5, FitsSet DEF SetRows, SetResponse
  <2>2. DOMAIN w.upd \cap Preferences = {}
    BY <1>5, SetsApart
  <2> QED BY <1>3, <1>4, <2>1, <2>2 DEF Kinds
<1>9. Reads(z)
  BY <1>3, <1>4, <1>5, NothingIs, SetsApart DEF Reads
<1>10. Sure(row, odd, z)
  <2>1. Echo(row, z)
    BY <1>2, <1>3 DEF Echo
  <2>2. StaysApart(row, odd, z)
    BY <1>3, <1>5, NothingIs, SetsApart DEF StaysApart, WillBe
  <2>3. AddsLive(row, z)
    BY <1>3, NothingIs DEF AddsLive
  <2> QED BY <1>6, <2>1, <2>2, <2>3 DEF Sure
<1>11. Good(z)
  BY <1>3, <1>5, <1>7, <1>8, <1>9, <1>10, NothingIs DEF Good
<1> QED BY <1>11 DEF z

LEMMA WriteSetsBegins == ASSUME IInv, NEW h \in Requests, WriteSets(h) PROVE Begins(h)
<1>1. PICK w \in Writes({s \in Sets : Exists(s)}, SetBodies) :
        Begin(h, [SetChange(w) EXCEPT !.shows = SetResponse])
  BY DEF WriteSets
<1>2. Good([SetChange(w) EXCEPT !.shows = SetResponse])
  BY SetChangeGood
<1> QED BY <1>1, <1>2 DEF Begins

(* A set that is deleted takes along all the preferences that name it. *)
LEMMA SetDeleteGood ==
  ASSUME IInv, NEW D, D \subseteq Sets
  PROVE  Good(SetDelete(D))
<1> DEFINE w == SetDelete(D)
<1>1. /\ DOMAIN w = Fields
      /\ w.add = Nothing /\ w.upd = Nothing /\ w.del = D \cup AllReferences(D) /\ w.purge = {}
      /\ w.reads = Preferences /\ w.field = None /\ w.log = D /\ w.batch = FALSE
  BY BlankIs DEF SetDelete, Fields
<1> HIDE DEF w
<1>2. AllReferences(D) \subseteq Preferences
  BY DEF AllReferences, SetReferences
<1>3. Sound(w) /\ Kinds(w) /\ Reads(w)
  BY <1>1, <1>2, NothingIs, IdsOfTables DEF Sound, Kinds, Reads, Touched
<1>4. LeavesLive(row, w)
  <2> SUFFICES ASSUME NEW p \in Preferences, p \notin AllReferences(D), row[p] # None,
                      NEW s \in row[p].names
               PROVE  s \notin D \cup AllReferences(D)
    BY <1>1, NothingIs DEF LeavesLive
  <2>1. s \in Sets /\ row[p].names = {s} /\ row[p].own \in BOOLEAN
    BY PreferencesFit
  <2>2. s \notin D
    BY <2>1 DEF AllReferences, SetReferences, Exists
  <2> QED BY <1>2, <2>1, <2>2, SetsApart
<1>5. Sure(row, odd, w)
  BY <1>1, <1>4, NothingIs DEF Sure, Echo, StaysApart, AddsLive, WillBe
<1> QED BY <1>1, <1>3, <1>5, NothingIs DEF Good, w

LEMMA DeleteSetsBegins == ASSUME IInv, NEW h \in Requests, DeleteSets(h) PROVE Begins(h)
<1>1. PICK D \in Batches({s \in Sets : Exists(s)}) : Begin(h, SetDelete(D))
  BY DEF DeleteSets
<1>2. Good(SetDelete(D))
  BY BatchesAre, SetDeleteGood
<1> QED BY <1>1, <1>2 DEF Begins

LEMMA CreateSetLevelBegins == ASSUME IInv, NEW h \in Requests, CreateSetLevel(h) PROVE Begins(h)
<1>1. PICK n \in Fresh(SetLevels), s \in Sets, b \in SetLevelBodies :
        Begin(h, [Post(One(n, [set |-> s, level |-> b.level])) EXCEPT !.reads = {s}])
  BY DEF CreateSetLevel
<1> DEFINE q == [set |-> s, level |-> b.level]
           rows == One(n, q)
<1>2. n \in SetLevels /\ n \in Fresh(Ids) /\ n \notin Resellers /\ n \notin Preferences
  BY FreshIs, PlainTables, IdsOfTables
<1>3. Fits(n, q)
  BY <1>2, FitsSetLevel DEF SetLevelRows, SetLevelBodies
<1>4. DOMAIN rows = {n} /\ rows[n] = q
  BY OneIs
<1> HIDE DEF rows, q
<1>5. Good([Post(rows) EXCEPT !.reads = {s}])
  BY <1>2, <1>3, <1>4, PostReadsGood, IdsOfTables
<1> QED BY <1>1, <1>5 DEF Begins, rows, q

LEMMA DeleteSetLevelBegins == ASSUME IInv, NEW h \in Requests, DeleteSetLevel(h) PROVE Begins(h)
<1>1. PICK n \in {n \in SetLevels : Exists(n)} : Begin(h, Delete({n}))
  BY DEF DeleteSetLevel
<1>2. Good(Delete({n}))
  BY DeleteGood, PlainTables
<1> QED BY <1>1, <1>2 DEF Begins

LEMMA AssignBegins == ASSUME IInv, NEW h \in Requests, Assign(h) PROVE Begins(h)
<1>1. PICK p \in Fresh(Preferences), s \in {s \in Sets : Exists(s)}, own \in BOOLEAN :
        /\ own => row[s].exposed
        /\ Begin(h, [Post(One(p, [names |-> {s}, own |-> own])) EXCEPT !.reads = {s}])
  BY DEF Assign
<1> DEFINE q == [names |-> {s}, own |-> own]
           rows == One(p, q)
<1>2. p \in Preferences /\ p \in Fresh(Ids) /\ p \notin Resellers
  BY FreshIs, IdsOfTables, SetsApart
<1>3. Fits(p, q)
  BY <1>2, FitsPreference DEF PreferenceRows
<1>4. DOMAIN rows = {p} /\ rows[p] = q
  BY OneIs
<1>5. q.names = {s} /\ q.own = own
  OBVIOUS
<1>6. row[s] # None /\ (own => row[s].exposed) /\ s \in Ids
  BY <1>1, IdsOfTables DEF Exists
<1>7. Begin(h, [Post(rows) EXCEPT !.reads = {s}])
  BY <1>1
<1> HIDE DEF rows, q
<1>8. Good([Post(rows) EXCEPT !.reads = {s}])
  BY <1>2, <1>3, <1>4, <1>5, <1>6, PostReadsGood
<1> QED BY <1>7, <1>8 DEF Begins

-----------------------------------------------------------------------------
\* NCOS levels and patterns

LEMMA CreateLevelsBegins == ASSUME IInv, NEW h \in Requests, CreateLevels(h) PROVE Begins(h)
<1>1. PICK v \in Fresh(Levels), b \in LevelBodies : Begin(h, Post(One(v, b)))
  BY DEF CreateLevels
<1>2. Fits(v, b)
  BY FreshIs, IdsOfTables, FitsLevel DEF LevelBodies, LevelRows
<1>3. Good(Post(One(v, b)))
  BY <1>2, OneGood, PlainTables
<1> QED BY <1>1, <1>3 DEF Begins

(* An update of rows of a table, the answer of which shows a column of it. *)
LEMMA ShownGood ==
  ASSUME IInv, NEW w, Bare(w), NEW T, T \subseteq Ids, T \cap Resellers = {},
         T \cap Preferences = {}, T \cap Sets = {}, Echo(row, w),
         \A i \in DOMAIN w.upd : i \in T /\ row[i] # None /\ Keeps(i, w.upd[i]),
         NEW shown, \A i \in T : \A q : Fits(i, q) => DOMAIN q \cap shown # {}
  PROVE  Good([w EXCEPT !.shows = shown])
<1> DEFINE z == [w EXCEPT !.shows = shown]
<1>1. Bare(z) /\ z.upd = w.upd /\ z.log = w.log /\ z.field = w.field /\ z.shows = shown
  BY DEF Bare, Fields
<1> HIDE DEF z
<1>2. Echo(row, z)
  BY <1>1 DEF Echo
<1>3. \A i \in z.log : \A q : Fits(i, q) => DOMAIN q \cap z.shows # {}
  BY <1>1 DEF Bare
<1>4. Good(z)
  BY <1>1, <1>2, <1>3, WriteGood
<1> QED BY <1>4 DEF z

LEMMA PatchedLevel ==
  ASSUME NEW q \in LevelRows, NEW b \in LevelRows, NEW f \in DOMAIN b
  PROVE  Patched(q, f, b[f]) \in LevelRows
BY DEF Patched, LevelRows

LEMMA WriteLevelsBegins == ASSUME IInv, NEW h \in Requests, WriteLevels(h) PROVE Begins(h)
<1>1. PICK who \in NcosCallers : \E w \in LevelWrites(ReadableLevels(who)) :
        Begin(h, [w EXCEPT !.shows = LevelResponse])
  BY DEF WriteLevels
<1>2. PICK w \in LevelWrites(ReadableLevels(who)) : Begin(h, [w EXCEPT !.shows = LevelResponse])
  BY <1>1
<1>3. \A v \in ReadableLevels(who) : v \in Levels /\ row[v] # None /\ row[v] \in LevelRows
  BY RowFits, FitsLevel, IdsOfTables DEF ReadableLevels, Filtered, Exists
<1>4. LevelBodies \subseteq LevelRows /\ LevelPatches \subseteq LevelRows
  BY DEF LevelBodies, LevelPatches, LevelRows
<1>5. PICK B : B \subseteq LevelRows /\ w \in Writes(ReadableLevels(who), B)
  BY <1>4 DEF LevelWrites, Writes
<1>6. /\ Bare(w) /\ DOMAIN w.upd \subseteq ReadableLevels(who) /\ Echo(row, w)
      /\ \A v \in DOMAIN w.upd : w.upd[v] \in LevelRows
  BY <1>3, <1>5, WritesAre, PatchedLevel
<1>7. \A v \in Levels : \A q : Fits(v, q) => DOMAIN q \cap LevelResponse # {}
  BY FitsLevel DEF LevelRows, LevelResponse
<1>8. \A v \in DOMAIN w.upd : v \in Levels /\ row[v] # None /\ Keeps(v, w.upd[v])
  BY <1>3, <1>6, KeepsLevel
<1>9. Good([w EXCEPT !.shows = LevelResponse])
  BY <1>6, <1>7, <1>8, ShownGood, PlainTables
<1> QED BY <1>2, <1>9 DEF Begins

LEMMA DeleteLevelsBegins == ASSUME IInv, NEW h \in Requests, DeleteLevels(h) PROVE Begins(h)
<1>1. PICK D \in Batches(Levels) : Begin(h, Delete(D))
  BY DEF DeleteLevels
<1>2. Good(Delete(D))
  BY DeleteGood, BatchesAre, PlainTables
<1> QED BY <1>1, <1>2 DEF Begins

LEMMA CreatePatternsBegins == ASSUME IInv, NEW h \in Requests, CreatePatterns(h) PROVE Begins(h)
<1>1. PICK t \in Fresh(Patterns), b \in PatternBodies : Begin(h, Post(One(t, b)))
  BY DEF CreatePatterns
<1>2. Fits(t, b)
  BY FreshIs, IdsOfTables, FitsPattern DEF PatternBodies, PatternRows
<1>3. Good(Post(One(t, b)))
  BY <1>2, OneGood, PlainTables
<1> QED BY <1>1, <1>3 DEF Begins

LEMMA PatchedPattern ==
  ASSUME NEW q \in PatternRows, NEW b \in PatternBodies, NEW f \in DOMAIN b
  PROVE  Patched(q, f, b[f]) \in PatternRows
BY DEF Patched, PatternRows, PatternBodies

LEMMA WritePatternsBegins == ASSUME IInv, NEW h \in Requests, WritePatterns(h) PROVE Begins(h)
<1>1. PICK who \in NcosCallers : \E w \in Writes(ReadablePatterns(who), PatternBodies) :
        Begin(h, [w EXCEPT !.shows = PatternResponse])
  BY DEF WritePatterns
<1>2. PICK w \in Writes(ReadablePatterns(who), PatternBodies) :
        Begin(h, [w EXCEPT !.shows = PatternResponse])
  BY <1>1
<1>3. \A t \in ReadablePatterns(who) : t \in Patterns /\ row[t] # None /\ row[t] \in PatternRows
  BY RowFits, FitsPattern, IdsOfTables DEF ReadablePatterns, Exists
<1>4. PatternBodies = PatternRows
  BY DEF PatternBodies, PatternRows
<1>5. /\ Bare(w) /\ DOMAIN w.upd \subseteq ReadablePatterns(who) /\ Echo(row, w)
      /\ \A t \in DOMAIN w.upd : w.upd[t] \in PatternRows
  BY <1>3, <1>4, WritesAre, PatchedPattern
<1>6. \A t \in Patterns : \A q : Fits(t, q) => DOMAIN q \cap PatternResponse # {}
  BY FitsPattern DEF PatternRows, PatternResponse
<1>7. \A t \in DOMAIN w.upd : t \in Patterns /\ row[t] # None /\ Keeps(t, w.upd[t])
  BY <1>3, <1>5, KeepsPattern
<1>8. Good([w EXCEPT !.shows = PatternResponse])
  BY <1>5, <1>6, <1>7, ShownGood, PlainTables
<1> QED BY <1>2, <1>8 DEF Begins

LEMMA DeletePatternsBegins == ASSUME IInv, NEW h \in Requests, DeletePatterns(h) PROVE Begins(h)
<1>1. PICK D \in Batches(Patterns) : Begin(h, Delete(D))
  BY DEF DeletePatterns
<1>2. Good(Delete(D))
  BY DeleteGood, BatchesAre, PlainTables
<1> QED BY <1>1, <1>2 DEF Begins

-----------------------------------------------------------------------------
\* Phonebooks

BookRows == ResellerEntryRows \cup CustomerEntryRows \cup SubscriberEntryRows

LEMMA EntriesFit ==
  ASSUME IInv, NEW O, NEW e \in EntriesOf(O)
  PROVE  e \in Entries /\ row[e] # None /\ row[e] \in BookRows
BY RowFits, FitsEntry, IdsOfTables DEF EntriesOf, Exists, BookRows

LEMMA NewEntriesAre ==
  ASSUME NEW B, NEW O, NEW body \in NewEntries(B, O)
  PROVE  DOMAIN body \subseteq Fresh(Entries) /\ \A e \in DOMAIN body : body[e] \in B
<1>1. PICK S \in Batches(Fresh(Entries)) : body \in [S -> {b \in B : b.owner \in O}]
  BY DEF NewEntries
<1> QED BY <1>1, BatchesAre

LEMMA NewEntriesFit ==
  ASSUME NEW B, B \subseteq BookRows, NEW O, NEW body \in NewEntries(B, O)
  PROVE  /\ DOMAIN body \subseteq Fresh(Ids) /\ DOMAIN body \subseteq Entries
         /\ DOMAIN body \cap Resellers = {} /\ DOMAIN body \cap Preferences = {}
         /\ \A e \in DOMAIN body : Fits(e, body[e])
<1>1. DOMAIN body \subseteq Fresh(Ids) /\ DOMAIN body \subseteq Entries
  BY NewEntriesAre, FreshIs, IdsOfTables
<1>2. \A e \in DOMAIN body : Fits(e, body[e])
  BY <1>1, NewEntriesAre, FitsEntry DEF BookRows
<1> QED BY <1>1, <1>2, SetsApart

LEMMA NewEntriesGood ==
  ASSUME IInv, NEW B, B \subseteq BookRows, NEW O, NEW body \in NewEntries(B, O)
  PROVE  Good(Post(body))
BY NewEntriesFit, PostGood

(* An import inserts entries of the books that it empties. *)
LEMMA ImportBegins ==
  ASSUME IInv, NEW h \in Requests, NEW B, B \subseteq BookRows, NEW O,
         NEW body \in NewEntries(B, O), NEW purge, Import(h, body, purge)
  PROVE  Begins(h)
<1> DEFINE books == IF purge THEN BooksIn(body) ELSE {}
           w == [Post(body) EXCEPT !.purge = books]
<1>1. Begin(h, w)
  BY DEF Import
<1>2. /\ DOMAIN w = Fields
      /\ w.add = body /\ w.upd = Nothing /\ w.del = {} /\ w.purge = books /\ w.reads = {}
      /\ w.field = None /\ w.log = {} /\ w.batch = FALSE
  BY BlankIs DEF Post, Fields
<1>3. books # {} => \A e \in DOMAIN body : body[e].owner \in books
  BY DEF BooksIn
<1> HIDE DEF w, books
<1>4. /\ DOMAIN body \subseteq Fresh(Ids) /\ DOMAIN body \subseteq Entries
      /\ DOMAIN body \cap Resellers = {} /\ DOMAIN body \cap Preferences = {}
      /\ \A e \in DOMAIN body : Fits(e, body[e])
  BY NewEntriesFit
<1>5. \A i \in DOMAIN body : i \in Ids /\ row[i] = None /\ \A g \in Running : i \notin DOMAIN req[g].add
  BY <1>4 DEF Fresh, Exists
<1>6. Sound(w) /\ Reads(w)
  BY <1>2, <1>4, <1>5, NothingIs DEF Sound, Reads, Touched
<1>7. Kinds(w)
  BY <1>2, <1>3, <1>4, NothingIs DEF Kinds
<1>8. Sure(row, odd, w)
  BY <1>2, <1>4, NothingIs DEF Sure, Echo, StaysApart, AddsLive, WillBe
<1>9. Good(w)
  BY <1>2, <1>5, <1>6, <1>7, <1>8, NothingIs DEF Good
<1> QED BY <1>1, <1>9 DEF Begins

LEMMA PatchedEntry ==
  ASSUME NEW q \in BookRows, NEW b \in BookRows, NEW f \in DOMAIN b
  PROVE  Patched(q, f, b[f]) \in BookRows
<1> USE DEF Patched, BookRows, ResellerEntryRows, CustomerEntryRows, SubscriberEntryRows
<1>1. CASE q \in ResellerEntryRows
  BY <1>1
<1>2. CASE q \in SubscriberEntryRows
  BY <1>2
<1> QED BY <1>1, <1>2

LEMMA EntriesWriteGood ==
  ASSUME IInv, NEW B, B \subseteq BookRows, NEW O, NEW w \in Writes(EntriesOf(O), B),
         NEW shown, "owner" \in shown
  PROVE  Good([w EXCEPT !.shows = shown])
<1>1. /\ Bare(w) /\ DOMAIN w.upd \subseteq EntriesOf(O) /\ Echo(row, w)
      /\ \A e \in DOMAIN w.upd : w.upd[e] \in BookRows
  BY EntriesFit, WritesAre, PatchedEntry
<1>2. \A e \in DOMAIN w.upd : e \in Entries /\ row[e] # None /\ Keeps(e, w.upd[e])
  BY <1>1, EntriesFit, KeepsEntry DEF BookRows
<1>3. \A e \in Entries : \A q : Fits(e, q) => DOMAIN q \cap shown # {}
  BY FitsEntry DEF ResellerEntryRows, CustomerEntryRows, SubscriberEntryRows
<1> QED BY <1>1, <1>2, <1>3, ShownGood, PlainTables

LEMMA EntriesDeleteGood ==
  ASSUME IInv, NEW O, NEW D \in Batches(EntriesOf(O)) PROVE Good(Delete(D))
BY DeleteGood, BatchesAre, PlainTables DEF EntriesOf

LEMMA ResellerEntriesBegins ==
  ASSUME IInv, NEW h \in Requests, PostResellerEntries(h) \/ ResellerEntryHandlers(h)
  PROVE  Begins(h)
<1>1. CASE CreateResellerEntries(h)
  <2>1. PICK O \in ResellerFilters : \E body \in NewEntries(ResellerEntryBodies, O) :
          Begin(h, Post(body))
    BY <1>1 DEF CreateResellerEntries
  <2>2. PICK body \in NewEntries(ResellerEntryBodies, O) : Begin(h, Post(body))
    BY <2>1
  <2>3. ResellerEntryBodies \subseteq BookRows
    BY DEF ResellerEntryBodies, ResellerEntryRows, BookRows
  <2>4. Good(Post(body))
    BY <2>3, NewEntriesGood
  <2> QED BY <2>2, <2>4 DEF Begins
<1>2. CASE ImportResellerEntries(h)
  <2>1. PICK O \in ResellerFilters :
          \E body \in NewEntries(ResellerLines, O), purge \in BOOLEAN : Import(h, body, purge)
    BY <1>2 DEF ImportResellerEntries
  <2>2. PICK body \in NewEntries(ResellerLines, O), purge \in BOOLEAN : Import(h, body, purge)
    BY <2>1
  <2>3. ResellerLines \subseteq BookRows
    BY DEF ResellerLines, ResellerEntryRows, BookRows
  <2> QED BY <2>2, <2>3, ImportBegins
<1>3. CASE UpdateResellerEntries(h)
  <2>1. PICK O \in ResellerFilters : \E w \in Writes(ResellerEntries(O), ResellerEntryBodies) :
          Begin(h, [w EXCEPT !.shows = ResellerEntryResponse])
    BY <1>3 DEF UpdateResellerEntries
  <2>2. PICK w \in Writes(ResellerEntries(O), ResellerEntryBodies) :
          Begin(h, [w EXCEPT !.shows = ResellerEntryResponse])
    BY <2>1
  <2>3. /\ ResellerEntryBodies \subseteq BookRows /\ "owner" \in ResellerEntryResponse
        /\ ResellerEntries(O) = EntriesOf(O)
    BY DEF ResellerEntryBodies, ResellerEntryRows, BookRows, ResellerEntryResponse, ResellerEntries
  <2>4. Good([w EXCEPT !.shows = ResellerEntryResponse])
    BY <2>3, EntriesWriteGood
  <2> QED BY <2>2, <2>4 DEF Begins
<1>4. CASE DeleteResellerEntries(h)
  <2>1. PICK O \in ResellerFilters : \E D \in Batches(ResellerEntries(O)) : Begin(h, Delete(D))
    BY <1>4 DEF DeleteResellerEntries
  <2>2. PICK D \in Batches(ResellerEntries(O)) : Begin(h, Delete(D))
    BY <2>1
  <2>3. Good(Delete(D))
    BY EntriesDeleteGood DEF ResellerEntries
  <2> QED BY <2>2, <2>3 DEF Begins
<1> QED BY <1>1, <1>2, <1>3, <1>4 DEF PostResellerEntries, ResellerEntryHandlers

LEMMA CustomerEntriesBegins ==
  ASSUME IInv, NEW h \in Requests, PostCustomerEntries(h) \/ CustomerEntryHandlers(h)
  PROVE  Begins(h)
<1>1. CASE CreateCustomerEntries(h)
  <2>1. PICK O \in CustomerFilters : \E body \in NewEntries(CustomerEntryBodies, O) :
          Begin(h, Post(body))
    BY <1>1 DEF CreateCustomerEntries
  <2>2. PICK body \in NewEntries(CustomerEntryBodies, O) : Begin(h, Post(body))
    BY <2>1
  <2>3. CustomerEntryBodies \subseteq BookRows
    BY DEF CustomerEntryBodies, CustomerEntryRows, BookRows
  <2>4. Good(Post(body))
    BY <2>3, NewEntriesGood
  <2> QED BY <2>2, <2>4 DEF Begins
<1>2. CASE ImportCustomerEntries(h)
  <2>1. PICK O \in CustomerFilters :
          \E body \in NewEntries(CustomerLines, O), purge \in BOOLEAN : Import(h, body, purge)
    BY <1>2 DEF ImportCustomerEntries
  <2>2. PICK body \in NewEntries(CustomerLines, O), purge \in BOOLEAN : Import(h, body, purge)
    BY <2>1
  <2>3. CustomerLines \subseteq BookRows
    BY DEF CustomerLines, CustomerEntryRows, BookRows
  <2> QED BY <2>2, <2>3, ImportBegins
<1>3. CASE UpdateCustomerEntries(h)
  <2>1. PICK O \in CustomerFilters : \E w \in Writes(CustomerEntries(O), CustomerEntryBodies) :
          Begin(h, [w EXCEPT !.shows = CustomerEntryResponse])
    BY <1>3 DEF UpdateCustomerEntries
  <2>2. PICK w \in Writes(CustomerEntries(O), CustomerEntryBodies) :
          Begin(h, [w EXCEPT !.shows = CustomerEntryResponse])
    BY <2>1
  <2>3. /\ CustomerEntryBodies \subseteq BookRows /\ "owner" \in CustomerEntryResponse
        /\ CustomerEntries(O) = EntriesOf(O)
    BY DEF CustomerEntryBodies, CustomerEntryRows, BookRows, CustomerEntryResponse, CustomerEntries
  <2>4. Good([w EXCEPT !.shows = CustomerEntryResponse])
    BY <2>3, EntriesWriteGood
  <2> QED BY <2>2, <2>4 DEF Begins
<1>4. CASE DeleteCustomerEntries(h)
  <2>1. PICK O \in CustomerFilters : \E D \in Batches(CustomerEntries(O)) : Begin(h, Delete(D))
    BY <1>4 DEF DeleteCustomerEntries
  <2>2. PICK D \in Batches(CustomerEntries(O)) : Begin(h, Delete(D))
    BY <2>1
  <2>3. Good(Delete(D))
    BY EntriesDeleteGood DEF CustomerEntries
  <2> QED BY <2>2, <2>3 DEF Begins
<1> QED BY <1>1, <1>2, <1>3, <1>4 DEF PostCustomerEntries, CustomerEntryHandlers

LEMMA SubscriberEntriesBegins ==
  ASSUME IInv, NEW h \in Requests, PostSubscriberEntries(h) \/ SubscriberEntryHandlers(h)
  PROVE  Begins(h)
<1>1. CASE CreateSubscriberEntries(h)
  <2>1. PICK O \in SubscriberFilters : \E body \in NewEntries(SubscriberEntryBodies, AllowedSubscribers(O)) :
          Begin(h, Post(body))
    BY <1>1 DEF CreateSubscriberEntries
  <2>2. PICK body \in NewEntries(SubscriberEntryBodies, AllowedSubscribers(O)) : Begin(h, Post(body))
    BY <2>1
  <2>3. SubscriberEntryBodies \subseteq BookRows
    BY DEF SubscriberEntryBodies, SubscriberEntryRows, BookRows
  <2>4. Good(Post(body))
    BY <2>3, NewEntriesGood
  <2> QED BY <2>2, <2>4 DEF Begins
<1>2. CASE ImportSubscriberEntries(h)
  <2>1. PICK O \in OneOrAll :
          \E body \in NewEntries(SubscriberLines, O), purge \in BOOLEAN : Import(h, body, purge)
    BY <1>2 DEF ImportSubscriberEntries
  <2>2. PICK body \in NewEntries(SubscriberLines, O), purge \in BOOLEAN : Import(h, body, purge)
    BY <2>1
  <2>3. SubscriberLines \subseteq BookRows
    BY DEF SubscriberLines, SubscriberEntryRows, BookRows
  <2> QED BY <2>2, <2>3, ImportBegins
<1>3. CASE UpdateSubscriberEntries(h)
  <2>1. PICK O \in SubscriberFilters : \E w \in Writes(SubscriberEntries(O), SubscriberEntryBodies) :
          Begin(h, [w EXCEPT !.shows = SubscriberEntryResponse])
    BY <1>3 DEF UpdateSubscriberEntries
  <2>2. PICK w \in Writes(SubscriberEntries(O), SubscriberEntryBodies) :
          Begin(h, [w EXCEPT !.shows = SubscriberEntryResponse])
    BY <2>1
  <2>3. /\ SubscriberEntryBodies \subseteq BookRows /\ "owner" \in SubscriberEntryResponse
        /\ SubscriberEntries(O) = EntriesOf(O)
    BY DEF SubscriberEntryBodies, SubscriberEntryRows, BookRows, SubscriberEntryResponse, SubscriberEntries
  <2>4. Good([w EXCEPT !.shows = SubscriberEntryResponse])
    BY <2>3, EntriesWriteGood
  <2> QED BY <2>2, <2>4 DEF Begins
<1>4. CASE DeleteSubscriberEntries(h)
  <2>1. PICK O \in SubscriberFilters : \E D \in Batches(SubscriberEntries(O)) : Begin(h, Delete(D))
    BY <1>4 DEF DeleteSubscriberEntries
  <2>2. PICK D \in Batches(SubscriberEntries(O)) : Begin(h, Delete(D))
    BY <2>1
  <2>3. Good(Delete(D))
    BY EntriesDeleteGood DEF SubscriberEntries
  <2> QED BY <2>2, <2>3 DEF Begins
<1> QED BY <1>1, <1>2, <1>3, <1>4 DEF PostSubscriberEntries, SubscriberEntryHandlers

-----------------------------------------------------------------------------
\* Speed dials

(* A rewritten update of rows of a table. *)
LEMMA RewrittenGood ==
  ASSUME IInv, NEW w, Bare(w), NEW T, T \subseteq Ids, T \cap Resellers = {},
         T \cap Preferences = {}, T \cap Sets = {}, NEW upd, DOMAIN upd = DOMAIN w.upd,
         \A i \in DOMAIN upd : i \in T /\ row[i] # None /\ Keeps(i, upd[i]),
         w.field # None =>
           \A i \in DOMAIN upd :
             \A f \in (DOMAIN upd[i] \cap DOMAIN row[i]) \ {w.field, "product", "bare"} :
               upd[i][f] = row[i][f],
         NEW shown, \A i \in T : \A q : Fits(i, q) => DOMAIN q \cap shown # {}
  PROVE  Good(Rewritten(w, upd, shown))
<1> DEFINE z == Rewritten(w, upd, shown)
<1>1. Bare(z) /\ z.upd = upd /\ z.shows = shown /\ z.field = w.field /\ z.log = w.log
  BY RewrittenIs
<1> HIDE DEF z
<1>2. Echo(row, z)
  BY <1>1 DEF Echo
<1>3. \A i \in z.log : \A q : Fits(i, q) => DOMAIN q \cap z.shows # {}
  BY <1>1 DEF Bare
<1>4. Good(z)
  BY <1>1, <1>2, <1>3, WriteGood
<1> QED BY <1>4 DEF z

LEMMA TransformedIs ==
  ASSUME NEW b \in SpeedDialBodies
  PROVE  /\ Transformed(b) \in SpeedDialRows
         /\ Transformed(b).customer = b.customer
         /\ b.dest # None => Transformed(b).dest = b.dest
BY DEF Transformed, SpeedDialBodies, SpeedDialRows

LEMMA CreateSpeedDialsBegins == ASSUME IInv, NEW h \in Requests, CreateSpeedDials(h) PROVE Begins(h)
<1>1. PICK S \in Batches(Fresh(SpeedDials)), b \in SpeedDialBodies :
        Begin(h, Post([d \in S |-> Transformed(b)]))
  BY DEF CreateSpeedDials
<1> DEFINE rows == [d \in S |-> Transformed(b)]
<1>2. DOMAIN rows = S /\ \A d \in S : rows[d] = Transformed(b)
  OBVIOUS
<1> HIDE DEF rows
<1>3. S \subseteq Fresh(Ids) /\ S \subseteq SpeedDials
  BY BatchesAre, FreshIs, IdsOfTables
<1>4. \A d \in S : Fits(d, rows[d])
  BY <1>2, <1>3, TransformedIs, FitsSpeedDial
<1>5. Good(Post(rows))
  BY <1>2, <1>3, <1>4, PostGood, PlainTables
<1> QED BY <1>1, <1>5 DEF Begins, rows

LEMMA PatchedSpeedDial ==
  ASSUME NEW q \in SpeedDialRows, NEW b \in SpeedDialBodies, NEW f \in DOMAIN b
  PROVE  Patched(q, f, b[f]) \in SpeedDialBodies
BY DEF Patched, SpeedDialRows, SpeedDialBodies

(* A destination that a PATCH does not name has a domain already. *)
LEMMA WriteSpeedDialsBegins == ASSUME IInv, NEW h \in Requests, WriteSpeedDials(h) PROVE Begins(h)
<1>1. PICK who \in DialCallers : \E w \in DialWrites(who) :
        Begin(h, Rewritten(w, [d \in DOMAIN w.upd |-> Transformed(w.upd[d])], SpeedDialResponse))
  BY DEF WriteSpeedDials
<1>2. PICK w \in DialWrites(who) :
        Begin(h, Rewritten(w, [d \in DOMAIN w.upd |-> Transformed(w.upd[d])], SpeedDialResponse))
  BY <1>1
<1> DEFINE dials == {d \in SpeedDials : Exists(d)}
           upd == [d \in DOMAIN w.upd |-> Transformed(w.upd[d])]
<1>3. \A d \in dials : d \in SpeedDials /\ row[d] # None /\ row[d] \in SpeedDialRows
  BY RowFits, FitsSpeedDial, IdsOfTables DEF Exists
<1>4. ReadableDials(who) \subseteq dials
  BY DEF ReadableDials
<1>5. PICK S : S \subseteq dials /\ w \in Writes(S, SpeedDialBodies)
  BY <1>4 DEF DialWrites, Single, Writes
<1>6. SpeedDialRows \subseteq SpeedDialBodies
  BY DEF SpeedDialRows, SpeedDialBodies
<1>7. /\ Bare(w) /\ DOMAIN w.upd \subseteq dials /\ Echo(row, w)
      /\ \A d \in DOMAIN w.upd : w.upd[d] \in SpeedDialBodies
  BY <1>3, <1>5, WritesAre, PatchedSpeedDial
<1> HIDE DEF dials
<1>8. /\ DOMAIN upd = DOMAIN w.upd
      /\ \A d \in DOMAIN upd : /\ upd[d] \in SpeedDialRows
                               /\ upd[d].customer = w.upd[d].customer
                               /\ w.upd[d].dest # None => upd[d].dest = w.upd[d].dest
  BY <1>7, TransformedIs
<1> HIDE DEF upd
<1>9. ASSUME w.field # None, NEW d \in DOMAIN upd,
             NEW f \in (DOMAIN upd[d] \cap DOMAIN row[d]) \ {w.field, "product", "bare"}
      PROVE  upd[d][f] = row[d][f]
  <2>1. row[d] \in SpeedDialRows /\ row[d] # None /\ upd[d] \in SpeedDialRows
        /\ w.upd[d] \in SpeedDialBodies
    BY <1>3, <1>7, <1>8
  <2>2. f \in {"customer", "dest"} /\ f \in DOMAIN w.upd[d] /\ f \in DOMAIN row[d]
    BY <1>9, <2>1 DEF SpeedDialRows, SpeedDialBodies
  <2>3. w.upd[d][f] = row[d][f]
    BY <1>7, <1>8, <1>9, <2>1, <2>2 DEF Echo
  <2>4. row[d].dest # None
    BY <2>1, CustomersAssumption DEF SpeedDialRows
  <2> QED BY <1>8, <2>2, <2>3, <2>4
<1>10. \A d \in DOMAIN upd : d \in SpeedDials /\ row[d] # None /\ Keeps(d, upd[d])
  BY <1>3, <1>7, <1>8, KeepsSpeedDial
<1>11. \A d \in SpeedDials : \A q : Fits(d, q) => DOMAIN q \cap SpeedDialResponse # {}
  BY FitsSpeedDial DEF SpeedDialRows, SpeedDialResponse
<1>12. Good(Rewritten(w, upd, SpeedDialResponse))
  BY <1>7, <1>8, <1>9, <1>10, <1>11, RewrittenGood, PlainTables
<1> QED BY <1>2, <1>12 DEF Begins, upd

LEMMA DeleteSpeedDialsBegins == ASSUME IInv, NEW h \in Requests, DeleteSpeedDials(h) PROVE Begins(h)
<1>1. PICK D \in Batches({d \in SpeedDials : Exists(d)}) : Begin(h, Delete(D))
  BY DEF DeleteSpeedDials
<1>2. Good(Delete(D))
  BY DeleteGood, BatchesAre, PlainTables
<1> QED BY <1>1, <1>2 DEF Begins

-----------------------------------------------------------------------------
\* Balances

LEMMA BalancesFit ==
  ASSUME IInv, NEW i \in Balances, row[i] # None PROVE row[i] \in BalanceRows
BY RowFits, FitsBalance, IdsOfTables

LEMMA PatchedBalance ==
  ASSUME NEW q \in BalanceRows, NEW b \in BalanceBodies, NEW f \in DOMAIN b
  PROVE  Patched(q, f, b[f]) \in BalanceRows
BY DEF Patched, BalanceRows, BalanceBodies

(* A PATCH writes the debit that it read, a PUT none. *)
LEMMA WriteBalancesBegins == ASSUME IInv, NEW h \in Requests, WriteBalances(h) PROVE Begins(h)
<1>1. PICK who \in {Admin} \cup Sellers : \E w \in Writes(BalancesOf(who, Customers), BalanceBodies) :
        Begin(h, Rewritten(w, Settled(w), BalanceResponse))
  BY DEF WriteBalances
<1>2. PICK w \in Writes(BalancesOf(who, Customers), BalanceBodies) :
        Begin(h, Rewritten(w, Settled(w), BalanceResponse))
  BY <1>1
<1> DEFINE upd == Settled(w)
<1>3. \A i \in BalancesOf(who, Customers) : i \in Balances /\ row[i] # None /\ row[i] \in BalanceRows
  BY BalancesFit DEF BalancesOf, Exists
<1>4. /\ Bare(w) /\ DOMAIN w.upd \subseteq BalancesOf(who, Customers) /\ Echo(row, w)
      /\ \A i \in DOMAIN w.upd : w.upd[i].cash \in Amounts
      /\ w.field # None => \A i \in DOMAIN w.upd : w.upd[i] \in BalanceRows
  <2>1. Bare(w) /\ DOMAIN w.upd \subseteq BalancesOf(who, Customers) /\ Echo(row, w)
    BY WritesAre
  <2>2. PICK b \in BalanceBodies :
          \/ w.field = None /\ \A i \in DOMAIN w.upd : w.upd[i] = b
          \/ /\ w.field \in DOMAIN b
             /\ \A i \in DOMAIN w.upd : w.upd[i] = Patched(row[i], w.field, b[w.field])
    BY WritesAre
  <2>3. CASE w.field = None /\ \A i \in DOMAIN w.upd : w.upd[i] = b
    BY <2>1, <2>3 DEF BalanceBodies
  <2>4. CASE /\ w.field \in DOMAIN b
             /\ \A i \in DOMAIN w.upd : w.upd[i] = Patched(row[i], w.field, b[w.field])
    <3>1. \A i \in DOMAIN w.upd : w.upd[i] \in BalanceRows
      BY <1>3, <2>1, <2>4, PatchedBalance
    <3> QED BY <2>1, <3>1 DEF BalanceRows
  <2> QED BY <2>2, <2>3, <2>4
<1>5. /\ DOMAIN upd = DOMAIN w.upd
      /\ \A i \in DOMAIN upd :
           upd[i] = IF w.field # None THEN [w.upd[i] EXCEPT !.debit = row[i].debit]
                    ELSE [cash |-> w.upd[i].cash]
  BY DEF Settled, IsPatch
<1> HIDE DEF upd
<1>6. ASSUME NEW i \in DOMAIN upd
      PROVE  /\ i \in Balances /\ row[i] # None /\ Keeps(i, upd[i])
             /\ w.field # None => /\ DOMAIN upd[i] = DOMAIN w.upd[i]
                                  /\ upd[i].debit = row[i].debit
                                  /\ \A f \in DOMAIN upd[i] : f # "debit" => upd[i][f] = w.upd[i][f]
  <2>1. i \in Balances /\ row[i] # None /\ row[i] \in BalanceRows
    BY <1>3, <1>4, <1>5
  <2>2. CASE w.field = None
    <3>1. upd[i] = [cash |-> w.upd[i].cash] /\ w.upd[i].cash \in Amounts
      BY <1>4, <1>5, <2>2
    <3>2. DOMAIN upd[i] = {"cash"} /\ upd[i]["cash"] \in Amounts
      BY <3>1
    <3> QED BY <2>1, <2>2, <3>2, KeepsBalance
  <2>3. CASE w.field # None
    <3>1. w.upd[i] \in BalanceRows /\ upd[i] = [w.upd[i] EXCEPT !.debit = row[i].debit]
      BY <1>4, <1>5, <2>3
    <3>2. upd[i] \in BalanceRows /\ DOMAIN upd[i] = DOMAIN w.upd[i]
          /\ upd[i].debit = row[i].debit
          /\ \A f \in DOMAIN upd[i] : f # "debit" => upd[i][f] = w.upd[i][f]
      BY <2>1, <3>1 DEF BalanceRows
    <3>3. Keeps(i, upd[i])
      BY <2>1, <3>2, KeepsBalance DEF BalanceRows
    <3> QED BY <2>1, <3>2, <3>3
  <2> QED BY <2>2, <2>3
<1>7. ASSUME w.field # None, NEW i \in DOMAIN upd,
             NEW f \in (DOMAIN upd[i] \cap DOMAIN row[i]) \ {w.field, "product", "bare"}
      PROVE  upd[i][f] = row[i][f]
  BY <1>4, <1>5, <1>6, <1>7 DEF Echo
<1>8. \A i \in Balances : \A q : Fits(i, q) => DOMAIN q \cap BalanceResponse # {}
  BY FitsBalance DEF BalanceRows, BalanceResponse
<1>9. Good(Rewritten(w, upd, BalanceResponse))
  BY <1>4, <1>5, <1>6, <1>7, <1>8, RewrittenGood, PlainTables
<1> QED BY <1>2, <1>9 DEF Begins, upd

LEMMA ChargeBegins == ASSUME IInv, NEW h \in Requests, Charge(h) PROVE Begins(h)
<1>1. PICK i \in {i \in Balances : Exists(i)}, n \in Amounts :
        Begin(h, [Blank EXCEPT !.upd = One(i, [cash |-> n])])
  BY DEF Charge
<1> DEFINE u == [cash |-> n]
           upd == One(i, u)
           w == [Blank EXCEPT !.upd = upd]
<1>2. DOMAIN u = {"cash"} /\ u["cash"] = n
  OBVIOUS
<1>3. DOMAIN upd = {i} /\ upd[i] = u
  BY OneIs
<1>4. Begin(h, w)
  BY <1>1
<1>5. Bare(w) /\ w.upd = upd /\ w.field = None /\ w.log = {}
  BY BlankIs DEF Bare, Fields
<1> HIDE DEF u, upd, w
<1>6. i \in Balances /\ row[i] # None
  BY DEF Exists
<1>7. Keeps(i, u)
  BY <1>2, <1>6, KeepsBalance
<1>8. Echo(row, w)
  BY <1>5 DEF Echo
<1>9. Good(w)
  BY <1>3, <1>5, <1>6, <1>7, <1>8, WriteGood, PlainTables
<1> QED BY <1>4, <1>9 DEF Begins

-----------------------------------------------------------------------------
\* Invoice templates

LEMMA TemplatesFit ==
  ASSUME IInv, NEW t \in Templates, row[t] # None PROVE row[t] \in TemplateRows
BY RowFits, FitsTemplate, IdsOfTables

LEMMA CreateTemplateBegins == ASSUME IInv, NEW h \in Requests, CreateTemplate(h) PROVE Begins(h)
<1>1. PICK t \in Fresh(Templates), b \in TemplateBodies : b.file # None /\ Begin(h, Post(One(t, b)))
  BY DEF CreateTemplate
<1>2. Fits(t, b)
  BY <1>1, FreshIs, IdsOfTables, FitsTemplate DEF TemplateBodies, TemplateRows
<1>3. Good(Post(One(t, b)))
  BY <1>2, OneGood, PlainTables
<1> QED BY <1>1, <1>3 DEF Begins

LEMMA TemplateShown ==
  \A t \in Templates : \A q : Fits(t, q) => DOMAIN q \cap TemplateResponse # {}
BY FitsTemplate DEF TemplateRows, TemplateResponse

LEMMA TemplatePutsGood == ASSUME IInv, NEW z \in TemplatePuts PROVE Good(z)
<1>1. PICK w \in Puts({t \in Templates : Exists(t)}, TemplateBodies) :
        z = Rewritten(w, [t \in DOMAIN w.upd |-> Given(w.upd[t])], TemplateResponse)
  BY DEF TemplatePuts, Single
<1> DEFINE upd == [t \in DOMAIN w.upd |-> Given(w.upd[t])]
<1>2. /\ Bare(w) /\ DOMAIN w.upd \subseteq {t \in Templates : Exists(t)} /\ w.field = None
      /\ \A t \in DOMAIN w.upd : w.upd[t] \in TemplateBodies
  BY PutsAre
<1>3. /\ DOMAIN upd = DOMAIN w.upd
      /\ \A t \in DOMAIN upd : /\ DOMAIN upd[t] = {f \in DOMAIN w.upd[t] : w.upd[t][f] # None}
                               /\ \A f \in DOMAIN upd[t] : upd[t][f] = w.upd[t][f]
  BY DEF Given
<1> HIDE DEF upd
<1>4. ASSUME NEW t \in DOMAIN upd PROVE t \in Templates /\ row[t] # None /\ Keeps(t, upd[t])
  <2>1. t \in Templates /\ row[t] # None /\ w.upd[t] \in TemplateBodies
    BY <1>2, <1>3 DEF Exists
  <2>2. DOMAIN upd[t] \subseteq {"reseller", "file"}
    BY <1>3, <2>1 DEF TemplateBodies
  <2>3. "reseller" \in DOMAIN upd[t] => upd[t]["reseller"] \in Sellers
    BY <1>3, <2>1 DEF TemplateBodies
  <2>4. "file" \in DOMAIN upd[t] => upd[t]["file"] \in Files
    BY <1>3, <2>1 DEF TemplateBodies
  <2> QED BY <2>1, <2>2, <2>3, <2>4, KeepsTemplate
<1>5. Good(Rewritten(w, upd, TemplateResponse))
  BY <1>2, <1>3, <1>4, RewrittenGood, PlainTables, TemplateShown
<1> QED BY <1>1, <1>5 DEF upd

LEMMA TemplatePatchesGood == ASSUME IInv, NEW who, NEW z \in TemplatePatches(who) PROVE Good(z)
<1>1. PICK w \in Patches(TemplatesOf(who), [reseller: Sellers]) :
        z = [w EXCEPT !.shows = TemplateResponse]
  BY DEF TemplatePatches, Single
<1>2. \A t \in TemplatesOf(who) : t \in Templates /\ row[t] # None /\ row[t] \in TemplateRows
  BY TemplatesFit DEF TemplatesOf, Exists
<1>3. Bare(w) /\ DOMAIN w.upd \subseteq TemplatesOf(who) /\ Echo(row, w)
  BY WritesAre DEF Writes
<1>4. \A t \in DOMAIN w.upd : w.upd[t] \in TemplateRows
  <2> DEFINE bodies == [reseller: Sellers]
  <2>1. \A b \in bodies : DOMAIN b = {"reseller"} /\ b["reseller"] \in Sellers
    OBVIOUS
  <2>2. w \in Patches(TemplatesOf(who), bodies)
    OBVIOUS
  <2> HIDE DEF bodies
  <2>3. PICK b \in bodies :
          /\ w.field \in DOMAIN b
          /\ \A t \in DOMAIN w.upd : w.upd[t] = Patched(row[t], w.field, b[w.field])
    BY <2>2, PatchesAre
  <2>4. w.field = "reseller" /\ b["reseller"] \in Sellers
    BY <2>1, <2>3
  <2>5. \A q \in TemplateRows, v \in Sellers : Patched(q, "reseller", v) \in TemplateRows
    BY DEF Patched, TemplateRows
  <2> QED BY <1>2, <1>3, <2>3, <2>4, <2>5
<1>5. \A t \in DOMAIN w.upd : t \in Templates /\ row[t] # None /\ Keeps(t, w.upd[t])
  BY <1>2, <1>3, <1>4, KeepsTemplate DEF TemplateRows
<1> QED BY <1>1, <1>3, <1>5, ShownGood, PlainTables, TemplateShown

LEMMA WriteTemplatesBegins == ASSUME IInv, NEW h \in Requests, WriteTemplates(h) PROVE Begins(h)
<1>1. PICK who \in {Admin} \cup Sellers :
        \E w \in TemplatePuts \cup TemplatePatches(who) : Begin(h, w)
  BY DEF WriteTemplates
<1>2. PICK w \in TemplatePuts \cup TemplatePatches(who) : Begin(h, w)
  BY <1>1
<1>3. Good(w)
  BY TemplatePutsGood, TemplatePatchesGood
<1> QED BY <1>2, <1>3 DEF Begins

LEMMA DeleteTemplatesBegins == ASSUME IInv, NEW h \in Requests, DeleteTemplates(h) PROVE Begins(h)
<1>1. PICK who \in {Admin} \cup Sellers : \E D \in Batches(TemplatesOf(who)) : Begin(h, Delete(D))
  BY DEF DeleteTemplates
<1>2. PICK D \in Batches(TemplatesOf(who)) : Begin(h, Delete(D))
  BY <1>1
<1>3. Good(Delete(D))
  BY DeleteGood, BatchesAre, PlainTables DEF TemplatesOf
<1> QED BY <1>2, <1>3 DEF Begins

-----------------------------------------------------------------------------
\* Voicemails

(* A voicemail that moves gets a folder, with its path or without. *)
LEMMA MovedKeeps ==
  ASSUME NEW i \in Voicemails, NEW b, b.folder \in Folders \cup {None}, NEW exact \in BOOLEAN
  PROVE  Keeps(i, Moved(i, b, exact)) /\ DOMAIN Moved(i, b, exact) \subseteq {"folder", "bare"}
<1>1. CASE b.folder = None
  <2>1. DOMAIN Moved(i, b, exact) = {}
    BY <1>1, NothingIs DEF Moved
  <2> QED BY <2>1, KeepsVoicemail
<1>2. CASE b.folder # None
  <2> DEFINE m == [folder |-> b.folder, bare |-> exact /\ b.folder = row[i].folder]
  <2>1. Moved(i, b, exact) = m
    BY <1>2 DEF Moved
  <2>2. (exact /\ b.folder = row[i].folder) \in BOOLEAN
    OBVIOUS
  <2>3. DOMAIN m = {"folder", "bare"} /\ m["folder"] \in Folders
    BY <1>2
  <2>4. m["bare"] \in BOOLEAN
    BY <2>2
  <2> HIDE DEF m
  <2>5. Keeps(i, m)
    BY <2>3, <2>4, KeepsVoicemail
  <2> QED BY <2>1, <2>3, <2>5
<1> QED BY <1>1, <1>2

LEMMA WriteVoicemailsBegins == ASSUME IInv, NEW h \in Requests, WriteVoicemails(h) PROVE Begins(h)
<1>1. PICK exact \in BOOLEAN :
        \E w \in Puts(Spooled, VoicemailBodies) \cup Patches(Spooled, [folder: Folders]) :
          Begin(h, Rewritten(w, [i \in DOMAIN w.upd |-> Moved(i, w.upd[i], exact)], VoicemailResponse))
  BY DEF WriteVoicemails
<1>2. PICK w \in Puts(Spooled, VoicemailBodies) \cup Patches(Spooled, [folder: Folders]) :
        Begin(h, Rewritten(w, [i \in DOMAIN w.upd |-> Moved(i, w.upd[i], exact)], VoicemailResponse))
  BY <1>1
<1> DEFINE upd == [i \in DOMAIN w.upd |-> Moved(i, w.upd[i], exact)]
<1>3. \A i \in Spooled : i \in Voicemails /\ row[i] # None /\ row[i] \in VoicemailRows
  BY RowFits, FitsVoicemail, IdsOfTables DEF Spooled, Exists
<1>4. /\ Bare(w) /\ DOMAIN w.upd \subseteq Spooled /\ w.field \in {None, "folder"}
      /\ \A i \in DOMAIN w.upd : w.upd[i].folder \in Folders \cup {None}
  <2> DEFINE bodies == [folder: Folders]
  <2>1. CASE w \in Puts(Spooled, VoicemailBodies)
    <3>1. PICK b \in VoicemailBodies :
            /\ Bare(w) /\ DOMAIN w.upd \subseteq Spooled /\ w.field = None
            /\ \A i \in DOMAIN w.upd : w.upd[i] = b
      BY <2>1, PutsAre
    <3>2. b.folder \in Folders \cup {None}
      BY DEF VoicemailBodies
    <3> QED BY <3>1, <3>2
  <2>2. CASE w \in Patches(Spooled, bodies)
    <3>1. \A b \in bodies : DOMAIN b = {"folder"} /\ b["folder"] \in Folders
      OBVIOUS
    <3> HIDE DEF bodies
    <3>2. PICK b \in bodies :
            /\ Bare(w) /\ DOMAIN w.upd \subseteq Spooled /\ w.field \in DOMAIN b
            /\ \A i \in DOMAIN w.upd : w.upd[i] = Patched(row[i], w.field, b[w.field])
      BY <2>2, PatchesAre
    <3>3. w.field = "folder" /\ b["folder"] \in Folders
      BY <3>1, <3>2
    <3>4. \A i \in DOMAIN w.upd : w.upd[i]["folder"] = b["folder"]
      BY <1>3, <3>2, <3>3, PatchedIs DEF VoicemailRows
    <3> QED BY <3>2, <3>3, <3>4
  <2> QED BY <2>1, <2>2
<1>5. DOMAIN upd = DOMAIN w.upd /\ \A i \in DOMAIN upd : upd[i] = Moved(i, w.upd[i], exact)
  OBVIOUS
<1> HIDE DEF upd
<1>6. \A i \in DOMAIN upd : /\ i \in Voicemails /\ row[i] # None /\ Keeps(i, upd[i])
                            /\ DOMAIN upd[i] \subseteq {"folder", "bare"}
  BY <1>3, <1>4, <1>5, MovedKeeps
<1>7. ASSUME w.field # None, NEW i \in DOMAIN upd,
             NEW f \in (DOMAIN upd[i] \cap DOMAIN row[i]) \ {w.field, "product", "bare"}
      PROVE  upd[i][f] = row[i][f]
  BY <1>4, <1>6, <1>7
<1>8. \A i \in Voicemails : \A q : Fits(i, q) => DOMAIN q \cap VoicemailResponse # {}
  BY FitsVoicemail DEF VoicemailRows, VoicemailResponse
<1>9. Good(Rewritten(w, upd, VoicemailResponse))
  BY <1>4, <1>5, <1>6, <1>7, <1>8, RewrittenGood, PlainTables
<1> QED BY <1>2, <1>9 DEF Begins, upd

LEMMA DeleteVoicemailsBegins == ASSUME IInv, NEW h \in Requests, DeleteVoicemails(h) PROVE Begins(h)
<1>1. PICK D \in Batches(Voicemails) : Begin(h, Delete(D))
  BY DEF DeleteVoicemails
<1>2. Good(Delete(D))
  BY DeleteGood, BatchesAre, PlainTables
<1> QED BY <1>1, <1>2 DEF Begins

LEMMA RecordBegins == ASSUME IInv, NEW h \in Requests, Record(h) PROVE Begins(h)
<1>1. PICK i \in Fresh(Voicemails), f \in Folders : Begin(h, Post(One(i, [folder |-> f, bare |-> FALSE])))
  BY DEF Record
<1> DEFINE q == [folder |-> f, bare |-> FALSE]
<1>2. Fits(i, q)
  BY FreshIs, IdsOfTables, FitsVoicemail DEF VoicemailRows
<1> HIDE DEF q
<1>3. Good(Post(One(i, q)))
  BY <1>2, OneGood, PlainTables
<1> QED BY <1>1, <1>3 DEF Begins, q

-----------------------------------------------------------------------------
\* The invariant is inductive

LEMMA InitInv == Init => IInv
<1> SUFFICES ASSUME Init PROVE IInv
  OBVIOUS
<1>1. /\ DOMAIN req = Requests /\ Running = {} /\ late = {} /\ untold = {} /\ odd = {}
      /\ \A i \in Ids : told[i] = None
  BY DEF Init, Running, Free
<1>2. RowsOK(row) /\ ForeignKeys(row) /\ Apart(row, Resellers) /\ Live(row, Preferences)
  BY FirstAssumption DEF Init, Apis
<1>3. ResellersApart /\ PreferencesLive
  BY <1>1, <1>2 DEF ResellersApart, PreferencesLive, Apart, Live
<1> QED BY <1>1, <1>2, <1>3 DEF IInv, Types, Rows, AddsDiffer, JournalTells

LEMMA AccountsBegin == ASSUME IInv, NEW h \in Requests, AccountHandlers(h) PROVE Begins(h)
<1>1. CASE ContactHandlers(h)
  BY <1>1, WriteContactsBegins, DeletesContactsBegins DEF ContactHandlers
<1>2. CASE CustomerContactHandlers(h)
  BY <1>2, WriteCustomerContactsBegins, DeletesContactsBegins DEF CustomerContactHandlers
<1>3. CASE SystemContactHandlers(h)
  BY <1>3, WriteSystemContactsBegins, DeletesContactsBegins DEF SystemContactHandlers
<1>4. CASE ContractHandlers(h)
  BY <1>4, CreateContractsBegins, WriteContractsBegins DEF ContractHandlers
<1>5. CASE ResellerHandlers(h)
  BY <1>5, CreateResellersBegins, WriteResellersBegins DEF ResellerHandlers
<1> QED BY <1>1, <1>2, <1>3, <1>4, <1>5, WriteContactsBegins DEF AccountHandlers

LEMMA NcosBegin == ASSUME IInv, NEW h \in Requests, NcosHandlers(h) PROVE Begins(h)
<1>1. CASE SetHandlers(h)
  BY <1>1, CreateSetsBegins, WriteSetsBegins, DeleteSetsBegins DEF SetHandlers
<1>2. CASE SetLevelHandlers(h)
  BY <1>2, CreateSetLevelBegins, DeleteSetLevelBegins DEF SetLevelHandlers
<1>3. CASE LevelHandlers(h)
  BY <1>3, CreateLevelsBegins, WriteLevelsBegins, DeleteLevelsBegins DEF LevelHandlers
<1>4. CASE PatternHandlers(h)
  BY <1>4, CreatePatternsBegins, WritePatternsBegins, DeletePatternsBegins DEF PatternHandlers
<1> QED BY <1>1, <1>2, <1>3, <1>4, AssignBegins DEF NcosHandlers

LEMMA PhonebooksBegin == ASSUME IInv, NEW h \in Requests, PhonebookHandlers(h) PROVE Begins(h)
BY ResellerEntriesBegins, CustomerEntriesBegins, SubscriberEntriesBegins DEF PhonebookHandlers

LEMMA CustomerDataBegin ==
  ASSUME IInv, NEW h \in Requests, CustomerDataHandlers(h) PROVE Begins(h)
<1>1. CASE SpeedDialHandlers(h)
  BY <1>1, CreateSpeedDialsBegins, WriteSpeedDialsBegins, DeleteSpeedDialsBegins
     DEF SpeedDialHandlers
<1>2. CASE BalanceHandlers(h)
  BY <1>2, WriteBalancesBegins, ChargeBegins DEF BalanceHandlers
<1>3. CASE TemplateHandlers(h)
  BY <1>3, CreateTemplateBegins, WriteTemplatesBegins, DeleteTemplatesBegins DEF TemplateHandlers
<1>4. CASE VoicemailHandlers(h)
  BY <1>4, WriteVoicemailsBegins, DeleteVoicemailsBegins, RecordBegins DEF VoicemailHandlers
<1> QED BY <1>1, <1>2, <1>3, <1>4 DEF CustomerDataHandlers

(* What a step is: a handler that begins, the end of a request, or nothing. *)
LEMMA StepIs ==
  ASSUME IInv, [Next]_vars
  PROVE  \/ \E h \in Requests : Begins(h) \/ Commit(h) \/ Rollback(h)
         \/ UNCHANGED storeVars
<1>1. CASE UNCHANGED vars
  BY <1>1 DEF vars, storeVars
<1>2. ASSUME NEW h \in Requests, Handle(h) PROVE Begins(h)
  BY <1>2, AccountsBegin, NcosBegin, PhonebooksBegin, CustomerDataBegin DEF Handle
<1>3. CASE StoreNext
  BY <1>3 DEF StoreNext
<1> QED BY <1>1, <1>2, <1>3 DEF Next

LEMMA NextInv == ASSUME IInv, [Next]_vars PROVE IInv'
<1>1. ASSUME NEW h \in Requests, Begins(h) PROVE IInv'
  BY <1>1, Begun DEF Begins
<1>2. CASE UNCHANGED storeVars
  <2>1. /\ Types' /\ Rows' /\ AddsDiffer'
        /\ JournalTells' /\ ResellersApart' /\ PreferencesLive'
    BY <1>2 DEF storeVars, IInv, Types, Rows, AddsDiffer, Running, Free, JournalTells,
                ResellersApart, PreferencesLive
  <2>2. Running' = Running
    BY <1>2 DEF storeVars, Running, Free
  <2> QED BY <1>2, <2>1, <2>2 DEF storeVars, IInv
<1> QED BY <1>1, <1>2, StepIs, Committed, RolledBack

LEMMA Inductive == Spec => []IInv
<1>1. Init => IInv
  BY InitInv
<1>2. IInv /\ [Next]_vars => IInv'
  BY NextInv
<1> QED BY <1>1, <1>2, PTL DEF Spec

-----------------------------------------------------------------------------
(* The rows are rows of their tables and name rows that exist, a request in *)
(* progress names rows and inserts what neither exists nor another inserts. *)
THEOREM TypesHold == Spec => []TypeOK
<1>1. IInv => TypeOK
  <2> SUFFICES ASSUME IInv PROVE TypeOK
    OBVIOUS
  <2>1. ASSUME NEW h \in Running PROVE RequestOK(req[h])
    <3>1. Sound(req[h])
      BY DEF IInv
    <3>2. /\ \A i \in DOMAIN req[h].add : ~Exists(i)
          /\ DOMAIN req[h].was = req[h].log
          /\ \A i \in DOMAIN req[h].upd : i \in req[h].log => req[h].was[i] # None
      BY DEF IInv, Rows, Exists
    <3> QED BY <3>1, <3>2 DEF RequestOK, Sound, Touched
  <2> QED BY <2>1 DEF IInv, Types, AddsDiffer, TypeOK
<1> QED BY <1>1, Inductive, PTL

(* The last entry of a row's journal shows the row as it is, or that it is *)
(* gone, but for changes that nothing journals: generateJournal answers    *)
(* with what the handler read back in its own transaction.                 *)
THEOREM JournalsTell == Spec => []JournalTells
<1>1. IInv => JournalTells
  BY DEF IInv
<1> QED BY <1>1, Inductive, PTL

(* No two resellers have a contract or a name in common, which their        *)
(* handlers check, other than in one batch or by overlapping requests.      *)
THEOREM ResellersKeptApart == Spec => []ResellersApart
<1>1. IInv => ResellersApart
  BY DEF IInv
<1> QED BY <1>1, Inductive, PTL

(* A preference names an NCOS set that is there, and a customer's own one   *)
(* that is exposed: what deletes a set or hides it revokes the preferences, *)
(* unless one was assigned meanwhile.                                       *)
THEOREM PreferencesKeptLive == Spec => []PreferencesLive
<1>1. IInv => PreferencesLive
  BY DEF IInv
<1> QED BY <1>1, Inductive, PTL

-----------------------------------------------------------------------------
\* What a commit does to rows

LEMMA PatchKeeps ==
  ASSUME IInv, NEW h \in Requests, Commit(h), req[h].field # None, h \notin late,
         NEW i \in DOMAIN req[h].upd, NEW f \in DOMAIN row[i] \ {req[h].field, "product", "bare"}
  PROVE  row'[i][f] = row[i][f]
<1> DEFINE r == req[h]
<1>1. /\ Sound(r) /\ Kinds(r) /\ Echo(row, r) /\ RowsOK(row)
  BY CommitIs DEF IInv, Types, Sure
<1>2. i \notin Removed(row, r) /\ i \in Ids /\ i \notin DOMAIN r.add
  BY <1>1, UpdatedStays
<1>3. CASE row[i] = None
  <2>1. row'[i] = row[i]
    BY <1>2, <1>3, AfterIs, CommitIs DEF Updated
  <2> QED BY <2>1
<1>4. CASE row[i] # None
  <2>1. row'[i] = Over(r.upd[i], row[i])
    BY <1>2, <1>4, AfterIs, CommitIs DEF Updated
  <2>2. f \in DOMAIN r.upd[i] => r.upd[i][f] = row[i][f]
    BY <1>1, <1>4 DEF Echo
  <2> QED BY <2>1, <2>2 DEF Over
<1> QED BY <1>3, <1>4

(* The rows after an import that empties books. *)
LEMMA ImportIs ==
  ASSUME IInv, NEW h \in Requests, Commit(h), req[h].purge # {}, NEW e \in Entries
  PROVE  /\ e \in DOMAIN req[h].add => /\ row'[e] = req[h].add[e] /\ row'[e] # None
                                       /\ row[e] = None
                                       /\ req[h].add[e].owner \in req[h].purge
         /\ e \notin DOMAIN req[h].add /\ row[e] # None =>
              IF row[e].owner \in req[h].purge THEN row'[e] = None ELSE row'[e] = row[e]
         /\ e \notin DOMAIN req[h].add /\ row[e] = None => row'[e] = None
<1> DEFINE r == req[h]
<1>1. /\ Sound(r) /\ Kinds(r) /\ RowsOK(row) /\ e \in Ids /\ h \in Running
  BY CommitIs, IdsOfTables DEF IInv, Types
<1>2. DOMAIN r.upd = {} /\ Removed(row, r) = Purged(row, r)
  BY <1>1, RemovedIs DEF Kinds
<1>3. ASSUME e \in DOMAIN r.add
      PROVE  /\ row'[e] = r.add[e] /\ row'[e] # None /\ row[e] = None
             /\ r.add[e].owner \in r.purge
  <2>1. row'[e] = r.add[e]
    BY <1>1, <1>3, AfterIs, CommitIs
  <2>2. row'[e] # None
    BY <1>1, <1>3, <2>1, TablesAssumption DEF Sound
  <2>3. row[e] = None
    BY <1>1, <1>3 DEF IInv, Rows
  <2> QED BY <1>1, <1>3, <2>1, <2>2, <2>3 DEF Kinds
<1>4. ASSUME e \notin DOMAIN r.add, row[e] # None
      PROVE  IF row[e].owner \in r.purge THEN row'[e] = None ELSE row'[e] = row[e]
  <2>1. e \in Purged(row, r) <=> row[e].owner \in r.purge
    BY <1>1, <1>4, OwnedEntries DEF Purged, RowsOK
  <2> QED BY <1>1, <1>2, <1>4, <2>1, AfterIs, CommitIs DEF Updated
<1>5. ASSUME e \notin DOMAIN r.add, row[e] = None PROVE row'[e] = None
  BY <1>1, <1>5, NotThere, CommitIs
<1> QED BY <1>3, <1>4, <1>5

LEMMA ImportOfBook ==
  ASSUME IInv, NEW h \in Requests, Commit(h), req[h].purge # {}, NEW o
  PROVE  IF o \in req[h].purge
         THEN Book(o)' = {e \in DOMAIN req[h].add : req[h].add[e].owner = o}
         ELSE Book(o)' = Book(o)
<1>1. Book(o)' = {e \in Entries : row'[e] # None /\ row'[e].owner = o}
  BY DEF Book, Exists
<1>2. Book(o) = {e \in Entries : row[e] # None /\ row[e].owner = o}
  BY DEF Book, Exists
<1>3. DOMAIN req[h].add \subseteq Entries
  BY CommitIs DEF IInv, Kinds
<1>4. CASE o \in req[h].purge
  <2>1. \A e \in Entries : row'[e] # None /\ row'[e].owner = o <=>
                           e \in DOMAIN req[h].add /\ req[h].add[e].owner = o
    BY <1>4, ImportIs
  <2> QED BY <1>1, <1>3, <1>4, <2>1
<1>5. CASE o \notin req[h].purge
  <2>1. \A e \in Entries : row'[e] # None /\ row'[e].owner = o <=>
                           row[e] # None /\ row[e].owner = o
    BY <1>5, ImportIs
  <2> QED BY <1>1, <1>2, <1>5, <2>1
<1> QED BY <1>4, <1>5

(* What ends a request and changes rows is its commit. *)
LEMMA EndsByCommit ==
  ASSUME IInv, [Next]_vars, NEW h \in Requests, ~Free(h), req'[h] = None, row' # row
  PROVE  Commit(h)
<1>1. PICK g \in Requests : Commit(g)
  BY StepIs DEF Begins, Begin, Rollback, storeVars
<1>2. req' = [req EXCEPT ![g] = None]
  BY <1>1, CommitIs
<1>3. g = h
  BY <1>2 DEF Free, IInv, Types
<1> QED BY <1>1, <1>3

(* A PATCH, which reads a row and writes it back whole, leaves the columns *)
(* it does not name as they are, unless another request wrote the row or   *)
(* what the request relied on since it was read.                           *)
THEOREM PatchesKeep == Spec => PatchKeepsFields
<1>1. IInv /\ [Next]_vars =>
        [\A h \in Requests :
           ~Free(h) /\ req'[h] = None /\ row' # row /\ req[h].field # None /\ h \notin late =>
             \A i \in DOMAIN req[h].upd :
               \A f \in DOMAIN row[i] \ {req[h].field, "product", "bare"} :
                 row'[i][f] = row[i][f]]_vars
  BY EndsByCommit, PatchKeeps
<1> QED BY <1>1, Inductive, PTL DEF Spec, PatchKeepsFields

(* An import with purge_existing leaves in the books of the file's owners   *)
(* what the file says and nothing else, and leaves the other books alone,   *)
(* whatever others wrote to them since it began.                            *)
THEOREM ImportsReplace == Spec => ImportReplaces
<1>1. IInv /\ [Next]_vars =>
        [\A h \in Requests :
           ~Free(h) /\ row' # row /\ req'[h] = None /\ req[h].purge # {} =>
             \A o \in BookOwners :
               IF o \in req[h].purge
               THEN Book(o)' = {e \in DOMAIN req[h].add : req[h].add[e].owner = o}
               ELSE Book(o)' = Book(o)]_storeVars
  BY EndsByCommit, ImportOfBook
<1> QED BY <1>1, Inductive, PTL DEF Spec, ImportReplaces
=============================================================================
