------------------------------ MODULE Peerings ------------------------------
(***************************************************************************)
(* The handlers of src/src/api/peerings: groups, and the servers, rules    *)
(* and inbound rules of a group.  They are the system administrator's:     *)
(* no reseller is checked.                                                 *)
(* The proxies load two things: "lcr", which is what routes calls through  *)
(* the servers of a group, so that a group none of whose servers is        *)
(* enabled or probed has no part in it, and "dispatcher", the servers that *)
(* are enabled and probed.                                                 *)
(* The column has_inbound_rules of a group is kept by hand.                *)
(***************************************************************************)
EXTENDS Reload

CONSTANTS Groups, Servers, PeeringRules, InboundRules, \* ids of the four tables
          Bodies \* what a request may say of a server: enabled, probe, transport,
                 \* and its address, which is its ip, port and host

VARIABLE odd \* groups whose has_inbound_rules is wrong, for a reason with a name

Group(flag) == [parent |-> None, has_inbound_rules |-> flag]

Server(g, b) ==
  [parent |-> g, enabled |-> b.enabled, probe |-> b.probe, transport |-> b.transport,
   address |-> b.address]

Rule(g, e) == [parent |-> g, enabled |-> e]

ASSUME PeeringAssumption ==
  /\ (Groups \cup Servers \cup PeeringRules \cup InboundRules) \subseteq Ids
  /\ Groups \cap (Servers \cup PeeringRules \cup InboundRules) = {}
  /\ Servers \cap (PeeringRules \cup InboundRules) = {}
  /\ PeeringRules \cap InboundRules = {}
  /\ {"lcr", "dispatcher"} \subseteq Scopes
  /\ \A flag \in BOOLEAN : Group(flag) # None
  /\ \A g \in Groups, e \in BOOLEAN : Rule(g, e) # None

\* hasEnabledOrProbedServerInGroups
Live(rows, G) == \E i \in Children(rows, G) \cap Servers : rows[i].enabled \/ rows[i].probe

\* What the dispatcher knows of a server.
Dispatched(rows, i) ==
  IF i \in Servers /\ Exists(rows, i) /\ rows[i].enabled /\ rows[i].probe
  THEN <<rows[i].address, rows[i].transport>> ELSE None

PeeringTouched(old, new, I) ==
  LET groups(rows) == Above(rows, I) \cap Groups
  IN  (IF Live(old, groups(old)) \/ Live(new, groups(new)) THEN {"lcr"} ELSE {})
      \cup (IF \E i \in I : Dispatched(old, i) # Dispatched(new, i) THEN {"dispatcher"} ELSE {})

Reloading(dispatcher) == {"lcr"} \cup (IF dispatcher THEN {"dispatcher"} ELSE {})

-----------------------------------------------------------------------------
\* Groups.  They are checked to have a contract of a peering product.

CreateGroups(h) ==
  \E g \in Fresh(Groups) : Begin(h, [i \in {g} |-> Group(FALSE)], Nothing, {}, {}, {})

\* PUT: nothing asks for a reload.
UpdateGroups(h) ==
  \E G \in Batches({g \in Groups : Exists(row, g)}) :
    Begin(h, Nothing, [g \in G |-> None], {}, {}, {"lcr"})

\* PATCH writes has_inbound_rules back as it was read.
AdjustGroups(h) ==
  \E G \in Batches({g \in Groups : Exists(row, g)}) :
    Begin(h, Nothing, [g \in G |-> row[g]], {}, {}, {"lcr"})

DeleteGroups(h) ==
  \E G \in Batches({g \in Groups : Exists(row, g)}) :
    Begin(h, Nothing, Nothing, G, IF Live(row, G) THEN Reloading(TRUE) ELSE {}, {})

-----------------------------------------------------------------------------
\* Servers

CreateServers(h) ==
  \E S \in Batches(Fresh(Servers)), g \in Groups, b \in Bodies :
    Begin(h, [i \in S |-> Server(g, b)], Nothing, {}, Reloading(b.enabled /\ b.probe), {})

\* requiresDispatcherReloadOnUpdate: it does not look at the address.
DispatcherOnUpdate(S, b) ==
  \E i \in S : \/ row[i].enabled # b.enabled
              \/ row[i].probe # b.probe
              \/ row[i].transport # b.transport

\* Servers of which nothing else changes get another address: no reload.
OnlyMoved(S, b) == ~DispatcherOnUpdate(S, b) /\ \E i \in S : row[i].address # b.address

UpdateServers(h) ==
  \E S \in Batches({i \in Servers : Exists(row, i)}), g \in Groups, b \in Bodies :
    Begin(h, Nothing, [i \in S |-> Server(g, b)], {}, Reloading(DispatcherOnUpdate(S, b)),
          IF OnlyMoved(S, b) THEN {"dispatcher"} ELSE {})

DeleteServers(h) ==
  \E S \in Batches({i \in Servers : Exists(row, i)}) :
    Begin(h, Nothing, Nothing, S, Reloading(\E i \in S : row[i].enabled /\ row[i].probe), {})

-----------------------------------------------------------------------------
\* Rules

CreatePeeringRules(h) ==
  \E R \in Batches(Fresh(PeeringRules)), g \in Groups, e \in BOOLEAN :
    Begin(h, [i \in R |-> Rule(g, e)], Nothing, {}, Reloading(e), {})

UpdatePeeringRules(h) ==
  \E R \in Batches({i \in PeeringRules : Exists(row, i)}), g \in Groups, e \in BOOLEAN :
    Begin(h, Nothing, [i \in R |-> Rule(g, e)], {},
          Reloading(\E i \in R : row[i].enabled # e), {})

DeletePeeringRules(h) ==
  \E R \in Batches({i \in PeeringRules : Exists(row, i)}) :
    Begin(h, Nothing, Nothing, R, Reloading(\E i \in R : row[i].enabled), {})

-----------------------------------------------------------------------------
\* Inbound rules.  Nobody awaits set- and unsetGroupInboundRulesCount, which may
\* find their transaction at its end: then they write nothing and reject.

Flagged(G, flag, done) == IF done THEN [g \in {g \in G : Exists(row, g)} |-> Group(flag)]
                          ELSE Nothing

CreateInboundRules(h) ==
  \E R \in Batches(Fresh(InboundRules)), g \in Groups, e \in BOOLEAN, done \in BOOLEAN :
    Begin(h, [i \in R |-> Rule(g, e)], Flagged({g}, TRUE, done), {}, Reloading(e), {})

\* The groups a rule leaves and enters keep their flags.
UpdateInboundRules(h) ==
  \E R \in Batches({i \in InboundRules : Exists(row, i)}), g \in Groups, e \in BOOLEAN :
    Begin(h, Nothing, [i \in R |-> Rule(g, e)], {},
          Reloading(\E i \in R : row[i].enabled # e), {})

\* Mutant: the flag is unset without counting the rules that remain.
DeleteInboundRulesUnset(h) ==
  \E R \in Batches({i \in InboundRules : Exists(row, i)}), done \in BOOLEAN :
    Begin(h, Nothing, Flagged(Parents(row, R), FALSE, done), R,
          Reloading(\E i \in R : row[i].enabled), {})

\* DELETE: the groups of the rules are counted again.
DeleteInboundRules(h) ==
  \E R \in Batches({i \in InboundRules : Exists(row, i)}), done \in BOOLEAN :
    LET remain(g) == (Children(row, {g}) \cap InboundRules) \ R # {}
        flags     == [g \in Parents(row, R) |-> Group(remain(g))]
    IN  Begin(h, Nothing, IF done THEN flags ELSE Nothing, R,
              Reloading(\E i \in R : row[i].enabled), {})

-----------------------------------------------------------------------------
FlagRight(rows, g) ==
  Exists(rows, g) =>
    (rows[g].has_inbound_rules <=> Children(rows, {g}) \cap InboundRules # {})

\* A commit whose flags may go wrong: rules that change groups, rules without
\* the write of their group's flag, and requests that were overtaken.
FlagUnsure(r) ==
  \/ r.late
  \/ \E i \in DOMAIN r.upd : i \in InboundRules
  \/ /\ (DOMAIN r.add \cup r.del) \cap InboundRules # {}
     /\ DOMAIN r.upd \cap Groups = {}

PeeringCommit(h) ==
  /\ Commit(h, PeeringTouched(row, After(h), Wrote(row, req[h])))
  /\ odd' = {g \in Groups : ~FlagRight(row', g) /\ (g \in odd \/ FlagUnsure(req[h]))}

GroupHandlers(h) == CreateGroups(h) \/ UpdateGroups(h) \/ AdjustGroups(h) \/ DeleteGroups(h)

ServerHandlers(h) == CreateServers(h) \/ UpdateServers(h) \/ DeleteServers(h)

PeeringRuleHandlers(h) ==
  CreatePeeringRules(h) \/ UpdatePeeringRules(h) \/ DeletePeeringRules(h)

InboundRuleHandlers(h) ==
  CreateInboundRules(h) \/ UpdateInboundRules(h) \/ DeleteInboundRules(h)
=============================================================================
