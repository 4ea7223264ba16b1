---------------------------- MODULE MCFileshare -----------------------------
(* Instances of Fileshare for TLC: a subscriber, who may see his own files, *)
(* and a user of his reseller, who may see the files of both.               *)
EXTENDS Fileshare

CONSTANTS r1, s1, x1

Subscriber(s) == [role |-> "subscriber", reseller |-> r1, id |-> s]
MCUser == {Subscriber(s1), [role |-> "reseller", reseller |-> r1, id |-> x1]}
=============================================================================
