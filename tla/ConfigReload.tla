---------------------------- MODULE ConfigReload ----------------------------
(***************************************************************************)
(* Rewrite rules, header manipulations and peerings over the transactions  *)
(* and reloads they share.  They share no rows, so a behaviour has the     *)
(* requests of one of them.                                                *)
(***************************************************************************)
EXTENDS RewriteRules, HeaderManipulations, Peerings

VARIABLE api \* whose requests a behaviour has

vars == <<row, req, stale, excused, odd, api>>

Apis == {"rewrite rules", "header actions", "header conditions",
         "peering servers", "inbound rules"}

\* At first nothing is configured and nobody has loaded anything else.
Init ==
  /\ row = [i \in Ids |-> None]
  /\ req = [h \in Requests |-> None]
  /\ stale = {}
  /\ excused = {}
  /\ odd = {}
  /\ api \in Apis

RewriteStep(h) ==
  /\ api = "rewrite rules"
  /\ \/ Free(h) /\ (RewriteSetHandlers(h) \/ RewriteRuleHandlers(h))
     \/ RewriteCommit(h)
  /\ UNCHANGED <<odd, api>>

HmStep(h) ==
  /\ api \in {"header actions", "header conditions"}
  /\ \/ Free(h) /\ (HmSetHandlers(h) \/ HmRuleHandlers(h))
     \/ Free(h) /\ api = "header actions" /\ ActionHandlers(h)
     \/ Free(h) /\ api = "header conditions" /\ ConditionHandlers(h)
     \/ HmCommit(h)
  /\ UNCHANGED <<odd, api>>

PeeringStep(h) ==
  /\ api \in {"peering servers", "inbound rules"}
  /\ \/ Free(h) /\ GroupHandlers(h) /\ UNCHANGED odd
     \/ /\ Free(h) /\ api = "peering servers"
        /\ ServerHandlers(h) \/ PeeringRuleHandlers(h)
        /\ UNCHANGED odd
     \/ Free(h) /\ api = "inbound rules" /\ InboundRuleHandlers(h) /\ UNCHANGED odd
     \/ PeeringCommit(h)
  /\ UNCHANGED api

Next ==
  \/ \E h \in Requests : RewriteStep(h) \/ HmStep(h) \/ PeeringStep(h)
  \/ ReloadNext /\ UNCHANGED <<odd, api>>

Spec == Init /\ [][Next]_vars

-----------------------------------------------------------------------------
\* A scope that a proxy is yet to load for request h.
Owed(p, s) ==
  \E h \in Requests : req[h] # None /\ req[h].step = "hooks" /\ <<p, s>> \in req[h].due

PendingOK(r) ==
  /\ (DOMAIN r.add \cup DOMAIN r.upd \cup r.del) \subseteq Ids
  /\ (r.due \cup r.gap) \subseteq Scopes
  /\ r.late \in BOOLEAN

(* Types, and what committed transactions keep: every row has its parent, a *)
(* request that asks for no reload leaves no hook behind, and no proxy is   *)
(* excused for a scope it has loaded.                                       *)
TypeOK ==
  /\ \A i \in Ids : Exists(row, i) => row[i].parent \in Ids \cup {None}
  /\ ForeignKeys(row)
  /\ \A h \in Requests :
       \/ req[h] = None
       \/ req[h].step = "pending" /\ PendingOK(req[h])
       \/ /\ req[h].step = "hooks"
          /\ req[h].due # {} /\ req[h].due \subseteq Proxies \X Scopes
  /\ stale \subseteq Proxies \X Scopes /\ excused \subseteq stale
  /\ odd \subseteq Groups
  /\ api \in Apis

(* A change that has committed reaches the proxies: what a proxy has loaded *)
(* of a scope is out of date only while some request still owes it a reload *)
(* of that scope, or for a reason that is named: the handlers that ask for  *)
(* none (PUT of a rewrite set without rules, header rules and elements that *)
(* change parent, header rules deleted one by one, updates of a group, and  *)
(* updates that change nothing but the address of servers), a change by     *)
(* another request between a handler's reads and its commit, and tasks that *)
(* never arrive.  The services decide before they write, from what they     *)
(* have read, whether to reload and what (for a group, whether its servers  *)
(* count; for a server, which of its fields change), and the reload runs    *)
(* after the commit, when other requests may have changed and reloaded the  *)
(* same scope in between.                                                   *)
Reloaded == \A d \in stale : Owed(d[1], d[2]) \/ d \in excused

(* A group's has_inbound_rules, which the services of inbound rules keep by *)
(* hand, says whether it has any, except where a rule has changed groups, a *)
(* write of the flag nobody awaits came too late, or requests overlapped.   *)
InboundFlag == api = "inbound rules" => \A g \in Groups : FlagRight(row, g) \/ g \in odd
=============================================================================
