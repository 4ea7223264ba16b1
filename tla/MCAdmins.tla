------------------------------ MODULE MCAdmins ------------------------------
(* Instances of Admins for TLC: the roles of acl-role.mock.repository.ts. *)
EXTENDS Admins, TLC

MCAccess == [r \in Role |-> CASE r = "admin" -> Role
                              [] r = "reseller" -> Role \ {"admin"}
                              [] OTHER -> {r} \cap {"ccare"}]

Account(role, master, reseller) ==
    [role |-> role, master |-> master, active |-> TRUE, reseller |-> reseller]

(* A reseller's master account, an administrator's it may not touch, one  *)
(* id left; the reseller of either may be NULL.                            *)
MCInit == /\ Init
          /\ \E a, b \in Id, q, r \in Reseller \cup {NoReseller}, m \in BOOLEAN :
                 /\ a # b
                 /\ q # r \/ q = NoReseller
                 /\ m => q = NoReseller /\ r # NoReseller
                 /\ \A c \in Id \ {a, b} : admins[c] = None
                 /\ admins[a] = Account("reseller", TRUE, q)
                 /\ admins[b] = Account("admin", m, r)

(* Where an administrator rules all there is: two accounts, and one request *)
(* at a time.                                                               *)
Bounded == (\E b \in Id : first[b] # None /\ first[b].role = "admin" /\ first[b].master)
           => /\ Cardinality({a \in Id : Exists(a)}) <= 2
              /\ Cardinality({h \in Handler : pc[h] # "idle"}) <= 1

MCSpec == MCInit /\ [][Next]_vars

Symmetry == Permutations(Id) \cup Permutations(Reseller) \cup Permutations(Handler)
=============================================================================
