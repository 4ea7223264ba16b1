----------------------------- MODULE MCLoginBan -----------------------------
(* Instances of LoginBan for TLC. *)
EXTENDS LoginBan, Combinatorics, TLC

CONSTANTS a1, u1, s1, s2, o1, o2

(* An admin and a login without a row, or two subscribers of one name in two *)
(* domains.                                                                  *)
MCName == [a \in Account |-> IF a \in {s1, s2} THEN "alice" ELSE a]

(* The admin comes from two addresses. *)
MCLogins == [r \in Realm |-> IF r = "admin" THEN {<<a1, o1>>, <<a1, o2>>, <<u1, o1>>}
                              ELSE {<<s1, o1>>, <<s2, o1>>}]

Symmetry == Permutations(Request)

(* N requests can hold M values in as many ways as there are multisets. *)
ASSUME BinomialBound ==
    \A n \in 0 .. 4, m \in 1 .. 4 :
        Cardinality(Multisets(1 .. n, 0 .. m - 1)) = choose(n + m - 1, n)
=============================================================================
