---------------------------- MODULE MCResources ----------------------------
(***************************************************************************)
(* A few rows of every table.  Ids of different tables stand for rows of   *)
(* different resources, so one model value is only used in one table.      *)
(***************************************************************************)
EXTENDS Resources, TLC
CONSTANTS h1, h2, x, y, k1, k2, c1, c2, c3, r1, r2, r3, s1, s2, v1, v2, n1, t1, t2, p1, p2,
          e1, e2, e3, d1, d2, g1, g2, i1, i2, m1, m2, u1, u2, a, b, own, other

MCIds == Contacts \cup Contracts \cup Resellers \cup Sets \cup Levels \cup SetLevels
         \cup Patterns \cup Preferences \cup Entries \cup SpeedDials \cup Balances
         \cup Templates \cup Voicemails
MCResellerOf == u1 :> a @@ u2 :> b
MCOwnerOf == own :> a @@ other :> b

Contact(r) == [reseller |-> r, status |-> "active"]
Contract(k) == [contact |-> k, status |-> "active", product |-> "reseller"]
Reseller(c, n) == [contract |-> c, name |-> n, status |-> "active"]
\* A reseller with its contract and system contact, and a contact k.
Begun(k) == k1 :> Contact(None) @@ c1 :> Contract(k1) @@ r1 :> Reseller(c1, a) @@ k2 :> k
\* Its name can be taken, and somebody has the one it would get.
Gone == Begun(Contact(None)) @@ r2 :> Reseller(c2, OldName(r1, a)) @@ c2 :> Contract(k2)
        @@ c3 :> Contract(k1)
MCNames == {a, b, OldName(r1, a)}
Customer == c2 :> [Contract(k2) EXCEPT !.status = "terminated"]
Levels2 == v1 :> [reseller |-> a, timeset |-> own] @@ v2 :> [reseller |-> b, timeset |-> other]
Sets1 == s1 :> [reseller |-> a, exposed |-> TRUE] @@ s2 :> [reseller |-> b, exposed |-> FALSE]

MCRows ==
  "contacts" :> {Begun(Contact(None)), Begun(Contact(r1)) @@ Customer}
  @@ "customercontacts" :> {Begun(Contact(r1)), Begun(Contact(r1)) @@ Customer}
  @@ "systemcontacts" :> {Begun(Contact(None)), Begun(Contact(r1))}
  @@ "contracts" :> {Begun(Contact(None)), Begun(Contact(r1))}
  @@ "resellers" :> {Begun(Contact(None)) @@ c2 :> Contract(k2) @@ c3 :> Contract(k1),
                     [Gone EXCEPT ![r1].status = "terminated"]}
  @@ "ncos/sets" :> {Sets1 @@ p1 :> [names |-> {s1}, own |-> TRUE]}
  @@ "ncos/sets/levels" :> {Sets1 @@ Levels2}
  @@ "ncos/levels" :> {Sets1 @@ Levels2}
  @@ "ncos/patterns" :> {Levels2}
  @@ "resellers/phonebook" :> {Nothing}
  @@ "customers/phonebook" :> {Nothing}
  @@ "subscribers/phonebook" :> {Nothing}
  @@ "customerspeeddials" :> {d1 :> [customer |-> u1, dest |-> u1]}
  @@ "customers/balances" :> {g1 :> [customer |-> u1, cash |-> x, debit |-> x]
                              @@ g2 :> [customer |-> u2, cash |-> x, debit |-> y]}
  @@ "templates/invoices" :> {i1 :> [reseller |-> a, file |-> x]}
  @@ "voicemails" :> {m1 :> [folder |-> x, bare |-> FALSE]}
MCFirst == [a1 \in DOMAIN MCRows |-> {f @@ [i \in Ids |-> None] : f \in MCRows[a1]}]
MCBound == [f \in DOMAIN MCRows |->
  IF f \in {"customercontacts", "systemcontacts", "resellers/phonebook"} THEN 3 ELSE 2]
MCSym == Permutations(Requests) \cup Permutations(Entries) \cup Permutations(Numbers)
=============================================================================
