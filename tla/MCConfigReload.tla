--------------------------- MODULE MCConfigReload ---------------------------
(***************************************************************************)
(* Tables draw their ids from their own sequences, so rows of different    *)
(* resources may share one; a behaviour only has rows of one resource.     *)
(***************************************************************************)
EXTENDS ConfigReload, TLC
CONSTANTS x1, x2, y1, y2, z1, z2, a1, a2, udp, tls, here, there, R1
MCIds == {x1, x2, y1, y2, z1, z2, a1, a2}
MCScopes == HmSets \cup {"dialplan", "lcr", "dispatcher"}
MCOwner == [s \in {x1, x2} |-> R1]
Body(e, p, t, a) == [enabled |-> e, probe |-> p, transport |-> t, address |-> a]
MCBodies == {Body(FALSE, FALSE, udp, here), Body(FALSE, TRUE, udp, here),
             Body(TRUE, TRUE, udp, here), Body(TRUE, TRUE, tls, here),
             Body(TRUE, TRUE, udp, there)}
MCSym == Permutations(Requests) \cup Permutations({x1, x2}) \cup Permutations({y1, y2})
         \cup Permutations({a1, a2})
=============================================================================
