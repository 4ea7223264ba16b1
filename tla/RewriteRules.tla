---------------------------- MODULE RewriteRules ----------------------------
(***************************************************************************)
(* The handlers of src/src/api/rewrite-rules: sets of rules, and rules.    *)
(* The proxies load all rules at once, so there is one scope, "dialplan".  *)
(* Names, descriptions, patterns and priorities are left out, as is the    *)
(* change of a set's reseller: writing them touches what writing the row   *)
(* touches.  PATCH of a set changes nothing that is modelled.              *)
(***************************************************************************)
EXTENDS Reload

CONSTANTS RewriteSets, Rules \* ids of voip_rewrite_rule_sets, voip_rewrite_rules

ASSUME RewriteAssumption ==
  /\ (RewriteSets \cup Rules) \subseteq Ids
  /\ RewriteSets \cap Rules = {}
  /\ "dialplan" \in Scopes

RewriteSet == [parent |-> None]

RuleOf(s) == [parent |-> s]

\* readWhereInIds with the reseller's filter.
VisibleSets(who) == {s \in RewriteSets : Exists(row, s) /\ May(who, s)}

\* A rule is visible if its set is: the filter joins the set.
VisibleRules(who) == Children(row, VisibleSets(who)) \cap Rules

\* A dialplan is all rules.
RewriteTouched(I) == IF I \cap Rules # {} THEN {"dialplan"} ELSE {}

RewriteCommit(h) == Commit(h, RewriteTouched(Wrote(row, req[h])))

\* POST of sets, each with the rules it is given; only rules ask for a reload.
CreateSets(h) ==
  \E s \in Fresh(RewriteSets), R \in SUBSET Fresh(Rules) :
    /\ R # {} => \E who \in Callers : May(who, s)
    /\ Begin(h, [i \in {s} \cup R |-> IF i = s THEN RewriteSet ELSE RuleOf(s)], Nothing, {},
             IF R = {} THEN {} ELSE {"dialplan"}, {})

\* PUT of sets: their rules are deleted (cleanSets), those of the body inserted.
\* Without any in the body nothing asks for a reload.
UpdateWithRuleRecreation(h) ==
  \E who \in Callers : \E S \in Batches(VisibleSets(who)), R \in SUBSET Fresh(Rules) :
    \E home \in [R -> S] :
      Begin(h, [i \in R |-> RuleOf(home[i])], [s \in S |-> None],
            Children(row, S) \cap Rules,
            IF R = {} THEN {} ELSE {"dialplan"}, IF R = {} THEN {"dialplan"} ELSE {})

\* DELETE of sets.
DeleteSets(h) ==
  \E who \in Callers : \E S \in Batches(VisibleSets(who)) :
    Begin(h, Nothing, Nothing, S, {"dialplan"}, {})

\* POST of rules.  The sets that exist must be the caller's.
CreateRules(h) ==
  \E who \in Callers, s \in RewriteSets, R \in Batches(Fresh(Rules)) :
    /\ Exists(row, s) => May(who, s)
    /\ Begin(h, [i \in R |-> RuleOf(s)], Nothing, {}, {"dialplan"}, {})

\* PUT and PATCH of rules.  Only the set a rule was in is checked; the body may
\* name any other.
UpdateRules(h) ==
  \E who \in Callers : \E R \in Batches(VisibleRules(who)) : \E to \in [R -> RewriteSets] :
    Begin(h, Nothing, [i \in R |-> RuleOf(to[i])], {}, {"dialplan"}, {})

\* DELETE of rules.
DeleteRules(h) ==
  \E who \in Callers : \E R \in Batches(VisibleRules(who)) :
    Begin(h, Nothing, Nothing, R, {"dialplan"}, {})

RewriteSetHandlers(h) == CreateSets(h) \/ UpdateWithRuleRecreation(h) \/ DeleteSets(h)

RewriteRuleHandlers(h) == CreateRules(h) \/ UpdateRules(h) \/ DeleteRules(h)
=============================================================================
