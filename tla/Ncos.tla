-------------------------------- MODULE Ncos --------------------------------
(***************************************************************************)
(* Network class of service (api/ncos-sets, api/ncos/levels,               *)
(* api/ncos/patterns): sets of levels, levels of dial patterns, and the    *)
(* preferences of contracts, subscribers, profiles and domains that name a *)
(* set.  A preference of a customer's own (ncos_set_id) may only name a    *)
(* set that is exposed to customers; administrators' preferences           *)
(* (adm_ncos_set_id, adm_cf_ncos_set_id) may name any.                     *)
(*                                                                         *)
(* A preference names a set by value, not by a foreign key.                *)
(***************************************************************************)
EXTENDS Store

CONSTANTS Sets, Levels, SetLevels, Patterns, Preferences, \* ids
          Owners,                                         \* resellers
          TimeSets,                                       \* time sets, with
          OwnerOf                                         \* whose they are

NcosCallers == {Admin} \cup Owners

-----------------------------------------------------------------------------
\* The tables.  A preference is of a contract, a subscriber, a profile or a
\* domain; own are the ncos_set_id of contracts and subscribers.

SetRows == [reseller: Owners \cup {None}, exposed: BOOLEAN]

SetLevelRows == [set: Sets, level: Levels]

LevelRows == [reseller: Owners \cup {None}, timeset: TimeSets \cup {None}]

PatternRows == [level: Levels, pattern: BOOLEAN]

PreferenceRows == [names: {{s} : s \in Sets}, own: BOOLEAN]

-----------------------------------------------------------------------------
\* What requests may say, and what answers show.

SetBodies == [reseller: Owners \cup {None}, exposed: BOOLEAN]

SetLevelBodies == [level: Levels]

LevelBodies == [reseller: Owners, timeset: TimeSets \cup {None}]

\* A PATCH is validated without the fields that are null.
LevelPatches == [reseller: Owners \cup {None}, timeset: TimeSets \cup {None}]

PatternBodies == [level: Levels, pattern: BOOLEAN]

SetResponse == {"reseller", "exposed"}

LevelResponse == {"reseller", "timeset"}

PatternResponse == {"level", "pattern"}

-----------------------------------------------------------------------------
\* Sets

\* addFilterBy: a reseller reads what is its own.
Filtered(who, S) ==
  {i \in S : Exists(i) /\ (who = Admin \/ row[i].reseller = who)}

ReadableSets(who) == Filtered(who, Sets)

\* A reseller's default for what it creates is itself; checkPermissions tests
\* a field that no user has, and lets everybody name anybody.
Whose(who, b) == IF b.reseller = None /\ who # Admin THEN [b EXCEPT !.reseller = who] ELSE b

CreateSets(h) ==
  \E who \in NcosCallers, s \in Fresh(Sets), b \in SetBodies :
    Begin(h, Post(One(s, Whose(who, b))))

SetReferences(D, kinds) ==
  {p \in Preferences : Exists(p) /\ row[p].names \subseteq D /\ row[p].own \in kinds}

\* revokeNCOSSetPreferences and deleteNCOSSetPreferences
OwnReferences(D) == SetReferences(D, {TRUE})

AllReferences(D) == SetReferences(D, BOOLEAN)

\* Mutant: preferences are not revoked.
SetChangeKeeping(w) == w

\* What a set that is no longer exposed takes along: the customers' own
\* preferences that name it.
SetChange(w) ==
  LET revokes == {s \in DOMAIN w.upd : row[s].exposed /\ ~w.upd[s].exposed}
  IN  [w EXCEPT !.del = OwnReferences(revokes), !.reads = Preferences]

(* PUT and PATCH.  The rows are read without a filter before the update; a  *)
(* PATCH reads them, and a single one is read back, with the caller's.      *)
WriteSets(h) ==
  \E who \in NcosCallers, w \in Writes({s \in Sets : Exists(s)}, SetBodies) :
    /\ IsPatch(w) => DOMAIN w.upd \subseteq ReadableSets(who)
    /\ \A s \in w.log : who \in {Admin, w.upd[s].reseller}
    /\ Begin(h, [SetChange(w) EXCEPT !.shows = SetResponse])

\* Any set: the rows are read without a filter.
SetDelete(D) ==
  [Blank EXCEPT !.del = D \cup AllReferences(D), !.log = D, !.reads = Preferences]

DeleteSets(h) == \E D \in Batches({s \in Sets : Exists(s)}) : Begin(h, SetDelete(D))

\* Levels are linked to a set that the caller reads, one by one.
LinkAllowed(who, s) == s \in ReadableSets(who)

CreateSetLevel(h) ==
  \E who \in NcosCallers, n \in Fresh(SetLevels), s \in Sets, b \in SetLevelBodies :
    /\ LinkAllowed(who, s)
    /\ Begin(h, [Post(One(n, [set |-> s, level |-> b.level])) EXCEPT !.reads = {s}])

\* A link to be deleted is read without a filter, its set with it.
DeleteSetLevel(h) ==
  \E who \in NcosCallers, n \in {n \in SetLevels : Exists(n)} :
    /\ LinkAllowed(who, row[n].set)
    /\ Begin(h, Delete({n}))

SetHandlers(h) == CreateSets(h) \/ WriteSets(h) \/ DeleteSets(h)

SetLevelHandlers(h) == CreateSetLevel(h) \/ DeleteSetLevel(h)

\* Somebody assigns a set with the preferences API, which is not in this
\* program; a customer is only offered the exposed ones.
Assign(h) ==
  \E p \in Fresh(Preferences), s \in {s \in Sets : Exists(s)}, own \in BOOLEAN :
    /\ own => row[s].exposed
    /\ Begin(h, [Post(One(p, [names |-> {s}, own |-> own])) EXCEPT !.reads = {s}])

-----------------------------------------------------------------------------
\* Levels

ReadableLevels(who) == Filtered(who, Levels)

\* A reseller may only use time sets of its own, and one for every level.
TimeSetsAllowed(who, T) == who = Admin \/ \A t \in T : t # None /\ OwnerOf[t] = who

CreateLevels(h) ==
  \E who \in NcosCallers, v \in Fresh(Levels), b \in LevelBodies :
    /\ TimeSetsAllowed(who, {b.timeset})
    /\ Begin(h, Post(One(v, b)))

LevelWrites(S) == Puts(S, LevelBodies) \cup Patches(S, LevelPatches)

\* The time sets that are checked are the ones the levels had.
LevelsChangeable(who, V) ==
  /\ V \subseteq ReadableLevels(who)
  /\ TimeSetsAllowed(who, {row[v].timeset : v \in V})

WriteLevels(h) ==
  \E who \in NcosCallers : \E w \in LevelWrites(ReadableLevels(who)) :
    /\ LevelsChangeable(who, DOMAIN w.upd)
    /\ \A v \in w.log : who \in {Admin, w.upd[v].reseller}
    /\ Begin(h, [w EXCEPT !.shows = LevelResponse])

LevelsDeletable(who, V) == V \subseteq ReadableLevels(who)

DeleteLevels(h) ==
  \E who \in NcosCallers, D \in Batches(Levels) :
    /\ LevelsDeletable(who, D)
    /\ Begin(h, Delete(D))

LevelHandlers(h) == CreateLevels(h) \/ WriteLevels(h) \/ DeleteLevels(h)

-----------------------------------------------------------------------------
\* Patterns

ReadablePatterns(who) ==
  {t \in Patterns : Exists(t) /\ row[t].level \in ReadableLevels(who)}

\* hasAccessToLevels compares ids of patterns with ids of levels, and names its
\* parameter wrongly: it fails for every reseller.
LevelsAllowed(who) == who = Admin

CreatePatterns(h) ==
  \E who \in NcosCallers, t \in Fresh(Patterns), b \in PatternBodies :
    /\ LevelsAllowed(who)
    /\ Begin(h, Post(One(t, b)))

PatternsChangeable(who, T) == T \subseteq ReadablePatterns(who) /\ LevelsAllowed(who)

WritePatterns(h) ==
  \E who \in NcosCallers : \E w \in Writes(ReadablePatterns(who), PatternBodies) :
    /\ PatternsChangeable(who, DOMAIN w.upd)
    /\ Begin(h, [w EXCEPT !.shows = PatternResponse])

PatternsDeletable(who, T) == T \subseteq ReadablePatterns(who)

DeletePatterns(h) ==
  \E who \in NcosCallers, D \in Batches(Patterns) :
    /\ PatternsDeletable(who, D)
    /\ Begin(h, Delete(D))

PatternHandlers(h) == CreatePatterns(h) \/ WritePatterns(h) \/ DeletePatterns(h)

-----------------------------------------------------------------------------
NcosRow(i, r) ==
  /\ i \in Sets => r \in SetRows
  /\ i \in SetLevels => r \in SetLevelRows
  /\ i \in Levels => r \in LevelRows
  /\ i \in Patterns => r \in PatternRows
  /\ i \in Preferences => r \in PreferenceRows

Live(rows, S) ==
  \A p \in {p \in S : rows[p] # None} :
    \A s \in rows[p].names : rows[s] # None /\ (rows[p].own => rows[s].exposed)

(* A preference names a set that is there, and a customer's own one that is *)
(* exposed, unless it was assigned while its set was being changed or       *)
(* deleted: calls are matched against the levels of that set.               *)
PreferencesLive == Live(row, Preferences \ odd)
=============================================================================
