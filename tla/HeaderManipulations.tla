------------------------ MODULE HeaderManipulations ------------------------
(***************************************************************************)
(* The handlers of src/src/api/header-manipulations: sets, their rules,    *)
(* and the actions and conditions of a rule.  A proxy keeps a copy of each *)
(* set it has used, so a scope is a set: kam_proxy_invalidate_ruleset      *)
(* names one.  A subscriber has a set of its own, made with its first rule *)
(* and deleted with its last.                                              *)
(* Names, priorities, the values of conditions and the dialplan an action  *)
(* refers to are left out: writing them touches what writing the row does. *)
(***************************************************************************)
EXTENDS Reload

CONSTANTS HmSets, HmRules, Actions, Conditions \* ids of the four tables

ASSUME HmAssumption ==
  /\ (HmSets \cup HmRules \cup Actions \cup Conditions) \subseteq Ids
  /\ HmSets \cap HmRules = {}
  /\ (HmSets \cup HmRules) \cap (Actions \cup Conditions) = {}
  /\ HmSets \subseteq Scopes

\* A set may be a subscriber's; one subscriber stands for all.
HmSet(sub) == [parent |-> None, subscriber |-> sub]

HmRule(s) == [parent |-> s]

Element(r) == [parent |-> r]

\* The sets of rules, in the rows as read; a rule that is not there has none.
SetsOf(rows, R) == Parents(rows, R)

SetsOfElements(rows, E) == SetsOf(rows, Parents(rows, E))

\* What a reseller sees: its sets, a subscriber's only on demand, which updates
\* and deletes never are.  Without a reseller the filter is missing altogether.
VisibleHmSets(who) ==
  {s \in HmSets : /\ Exists(row, s)
                  /\ who # Admin => Owner[s] = who /\ ~row[s].subscriber}

VisibleHmRules(who) == Children(row, VisibleHmSets(who)) \cap HmRules

VisibleElements(who, E) == Children(row, VisibleHmRules(who)) \cap E

\* The copy of a set holds its rules and their elements, and not its own row.
HmTouched(old, new, I) ==
  (Above(old, I \ HmSets) \cup Above(new, I \ HmSets)) \cap HmSets

HmCommit(h) == Commit(h, HmTouched(row, After(h), Wrote(row, req[h])))

-----------------------------------------------------------------------------
\* Sets

\* POST, PUT and PATCH: no proxy is told, none has rules of a new set.
CreateHmSets(h) ==
  \E s \in Fresh(HmSets), sub \in BOOLEAN :
    Begin(h, [i \in {s} |-> HmSet(sub)], Nothing, {}, {}, {})

UpdateHmSets(h) ==
  \E who \in Callers : \E S \in Batches(VisibleHmSets(who)), sub \in BOOLEAN :
    Begin(h, Nothing, [s \in S |-> HmSet(sub)], {}, {}, {})

DeleteHmSets(h) ==
  \E who \in Callers : \E S \in Batches(VisibleHmSets(who)) :
    Begin(h, Nothing, Nothing, S, S, {})

-----------------------------------------------------------------------------
\* Rules

\* POST of rules to a set.
CreateHmRules(h) ==
  \E who \in Callers, s \in HmSets, R \in Batches(Fresh(HmRules)) :
    /\ Exists(row, s) => May(who, s)
    /\ Begin(h, [i \in R |-> HmRule(s)], Nothing, {}, {s}, {})

\* POST of a rule to a subscriber: to its set (the first found), or to a new one.
CreateSubscriberRule(h) ==
  LET own == {s \in HmSets : Exists(row, s) /\ row[s].subscriber}
  IN  \E s \in (IF own = {} THEN Fresh(HmSets) ELSE own), i \in Fresh(HmRules) :
        Begin(h, [j \in {i} \cup ({s} \ own) |-> IF j = i THEN HmRule(s) ELSE HmSet(TRUE)],
              Nothing, {}, {s}, {})

\* PUT and PATCH: the set a rule was in is invalidated, not the one it moves to.
UpdateHmRules(h) ==
  \E who \in Callers : \E R \in Batches(VisibleHmRules(who)) : \E to \in [R -> HmSets] :
    Begin(h, Nothing, [i \in R |-> HmRule(to[i])], {},
          SetsOf(row, R), {to[i] : i \in R} \ SetsOf(row, R))

\* DELETE: a subscriber's set goes with its last rule.  Only then are the sets
\* of the rules invalidated.
DeleteHmRules(h) ==
  \E who \in Callers : \E R \in Batches(VisibleHmRules(who)) :
    LET sets    == SetsOf(row, R)
        emptied == {s \in sets : row[s].subscriber /\ Children(row, {s}) \subseteq R}
    IN  Begin(h, Nothing, Nothing, R \cup emptied,
              IF emptied = {} THEN {} ELSE sets, IF emptied = {} THEN sets ELSE {})

-----------------------------------------------------------------------------
\* Actions and conditions

\* POST: the sets of the rules that are there are checked and invalidated.
CreateElements(h, E) ==
  \E who \in Callers, r \in HmRules, N \in Batches(Fresh(E)) :
    /\ \A s \in SetsOf(row, {r}) : May(who, s)
    /\ Begin(h, [e \in N |-> Element(r)], Nothing, {}, SetsOf(row, {r}), {})

\* PUT and PATCH: the set of the rule an element was in is invalidated, not that
\* of the rule it moves to.
UpdateElements(h, E) ==
  \E who \in Callers : \E N \in Batches(VisibleElements(who, E)) : \E to \in [N -> HmRules] :
    LET was == SetsOfElements(row, N)
    IN  Begin(h, Nothing, [e \in N |-> Element(to[e])], {},
              was, SetsOf(row, {to[e] : e \in N}) \ was)

\* Mutant: deleted elements are not asked to be unloaded.
DeleteElementsQuietly(h, E) ==
  \E who \in Callers : \E N \in Batches(VisibleElements(who, E)) :
    Begin(h, Nothing, Nothing, N, {}, {})

DeleteElements(h, E) ==
  \E who \in Callers : \E N \in Batches(VisibleElements(who, E)) :
    Begin(h, Nothing, Nothing, N, SetsOfElements(row, N), {})

\* Bulk PUT of actions: they are deleted and created anew.
RecreateActions(h) ==
  \E who \in Callers : \E N \in Batches(VisibleElements(who, Actions)), r \in HmRules :
    \E M \in Batches(Fresh(Actions)) :
      /\ Cardinality(M) = Cardinality(N)
      /\ \A s \in SetsOf(row, {r}) : May(who, s)
      /\ Begin(h, [e \in M |-> Element(r)], Nothing, N,
               SetsOfElements(row, N) \cup SetsOf(row, {r}), {})

ActionHandlers(h) ==
  CreateElements(h, Actions) \/ UpdateElements(h, Actions) \/ DeleteElements(h, Actions)
  \/ RecreateActions(h)

ConditionHandlers(h) ==
  CreateElements(h, Conditions) \/ UpdateElements(h, Conditions) \/ DeleteElements(h, Conditions)

HmSetHandlers(h) == CreateHmSets(h) \/ UpdateHmSets(h) \/ DeleteHmSets(h)

HmRuleHandlers(h) ==
  CreateHmRules(h) \/ CreateSubscriberRule(h) \/ UpdateHmRules(h) \/ DeleteHmRules(h)
=============================================================================
