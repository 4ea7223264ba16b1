----------------------------- MODULE ProxyBans ------------------------------
(***************************************************************************)
(* DELETE of bans the proxies keep themselves (bans/registrations and      *)
(* bans/ips): for each id a dump of the bans is asked of the active        *)
(* proxies, and if one of them reports the id, a second task removes it.   *)
(* The second task is not waited for: the id is reported deleted while it  *)
(* runs, and if it throws, nothing catches it and the worker stops.        *)
(*                                                                         *)
(* A task is a call of TaskCall.  A ban is an entry of a proxy's table.    *)
(* The ids of a request are a set: one that is repeated is asked about     *)
(* again, in the same way.                                                 *)
(***************************************************************************)
EXTENDS TaskCall

CONSTANTS
    Handler,  \* DELETE requests, served by one worker
    Ban,      \* ids of bans
    NoBan

ASSUME CallAssumption == Call = Handler \X Ban \X {"dump", "delete"}
ASSUME NoBanAssumption == NoBan \notin Ban

VARIABLES
    barred,    \* the bans each proxy has
    dumped,    \* per dump call and proxy: the asked ban, if its dump held it
    at,        \* where each request is
    ids,       \* the ids it was sent, without repetitions
    todo,      \* the ids it has not come to
    current,   \* the one whose dump it waits for
    alive,     \* the worker runs
    renewed    \* history: <<h, n, b>>: n banned b again after h began

handler == <<at, ids, todo, current>>
proxyVars == <<callVars, barred, dumped, handler, alive, renewed>>

Dump(h, b) == <<h, b, "dump">>
Remove(h, b) == <<h, b, "delete">>

(* Types: proved in BansProofs. *)
ProxyTypeOK == /\ CallTypeOK
               /\ barred \in [Node -> SUBSET Ban]
               /\ dumped \in [Call -> [Node -> SUBSET Ban]]
               /\ at \in [Handler -> {"idle", "loop", "dump", "ok", "error"}]
               /\ ids \in [Handler -> SUBSET Ban]
               /\ todo \in [Handler -> SUBSET Ban]
               /\ current \in [Handler -> Ban \cup {NoBan}]
               /\ alive \in BOOLEAN
               /\ renewed \subseteq Handler \X Node \X Ban

ProxyInit == /\ CallInit
             /\ barred \in [Node -> SUBSET Ban]
             /\ dumped = [c \in Call |-> [n \in Node |-> {}]]
             /\ at = [h \in Handler |-> "idle"]
             /\ ids = [h \in Handler |-> {}]
             /\ todo = [h \in Handler |-> {}]
             /\ current = [h \in Handler |-> NoBan]
             /\ alive = TRUE
             /\ renewed = {}

-----------------------------------------------------------------------------
Delete(h) == /\ alive /\ at[h] = "idle"
             /\ \E S \in (SUBSET Ban) \ {{}} :
                    ids' = [ids EXCEPT ![h] = S] /\ todo' = [todo EXCEPT ![h] = S]
             /\ at' = [at EXCEPT ![h] = "loop"]
             /\ UNCHANGED <<callVars, barred, dumped, current, alive, renewed>>

NextId(h) == /\ alive /\ at[h] = "loop"
             /\ IF todo[h] = {}
                THEN /\ at' = [at EXCEPT ![h] = "ok"]
                     /\ UNCHANGED <<callVars, todo, current>>
                ELSE \E b \in todo[h] :
                     /\ Open(Dump(h, b))
                     /\ at' = [at EXCEPT ![h] = "dump"]
                     /\ todo' = [todo EXCEPT ![h] = @ \ {b}]
                     /\ current' = [current EXCEPT ![h] = b]
             /\ UNCHANGED <<barred, dumped, ids, alive, renewed>>

(* `undefined' is read as no entries. *)
Entries(c) == IF value[c] = Undefined THEN {}
              ELSE UNION {dumped[c][n] : n \in value[c]}

(* Mutant: every id is removed, whatever the dump says. *)
AfterDumpAll(h) ==
    LET b == current[h] IN
    /\ alive /\ at[h] = "dump"
    /\ value[Dump(h, b)] # Pending
    /\ \E label \in {"loop", "error"} : at' = [at EXCEPT ![h] = label]
    /\ Open(Remove(h, b))
    /\ current' = [current EXCEPT ![h] = NoBan]
    /\ UNCHANGED <<barred, dumped, ids, todo, alive, renewed>>

(* Mutant: the removal is sent only if every proxy reports the ban. *)
AfterDumpEvery(h) ==
    LET b == current[h]
        c == Dump(h, b)
    IN
    /\ alive /\ at[h] = "dump"
    /\ value[c] # Pending
    /\ IF value[c] = Failed
       THEN at' = [at EXCEPT ![h] = "error"] /\ UNCHANGED callVars
       ELSE /\ at' = [at EXCEPT ![h] = "loop"]
            /\ IF value[c] # Undefined /\ \A n \in value[c] : b \in dumped[c][n]
               THEN Open(Remove(h, b)) ELSE UNCHANGED callVars
    /\ current' = [current EXCEPT ![h] = NoBan]
    /\ UNCHANGED <<barred, dumped, ids, todo, alive, renewed>>

(* Mutant: a dump that has timed out is still waited for. *)
AfterDumpData(h) ==
    LET b == current[h]
        c == Dump(h, b)
    IN
    /\ alive /\ at[h] = "dump"
    /\ value[c] \notin {Pending, Undefined}
    /\ at' = [at EXCEPT ![h] = IF value[c] = Failed THEN "error" ELSE "loop"]
    /\ IF value[c] # Failed /\ b \in Entries(c) THEN Open(Remove(h, b)) ELSE UNCHANGED callVars
    /\ current' = [current EXCEPT ![h] = NoBan]
    /\ UNCHANGED <<barred, dumped, ids, todo, alive, renewed>>

AfterDump(h) ==
    LET b == current[h]
        c == Dump(h, b)
    IN
    /\ alive /\ at[h] = "dump"
    /\ value[c] # Pending
    /\ IF value[c] = Failed
       THEN at' = [at EXCEPT ![h] = "error"] /\ UNCHANGED callVars
       ELSE /\ at' = [at EXCEPT ![h] = "loop"]
            /\ IF b \in Entries(c) THEN Open(Remove(h, b)) ELSE UNCHANGED callVars
    /\ current' = [current EXCEPT ![h] = NoBan]
    /\ UNCHANGED <<barred, dumped, ids, todo, alive, renewed>>

-----------------------------------------------------------------------------
(* The proxies and the tasks. *)

ProxyRuns(c, n) ==
    /\ n \notin ran[c]
    /\ Run(c, n)
    /\ IF c[3] = "dump"
       THEN dumped' = [dumped EXCEPT ![c][n] = barred[n] \cap {c[2]}] /\ UNCHANGED barred
       ELSE barred' = [barred EXCEPT ![n] = @ \ {c[2]}] /\ UNCHANGED dumped
    /\ UNCHANGED <<handler, alive, renewed>>

ProxyBans(n, b) ==
    /\ b \notin barred[n]
    /\ barred' = [barred EXCEPT ![n] = @ \cup {b}]
    /\ renewed' = renewed \cup {<<h, n, b>> : h \in {g \in Handler : at[g] # "idle"}}
    /\ UNCHANGED <<callVars, dumped, handler, alive>>

BanExpires(n, b) ==
    /\ b \in barred[n]
    /\ barred' = [barred EXCEPT ![n] = @ \ {b}]
    /\ UNCHANGED <<callVars, dumped, handler, alive, renewed>>

(* The promise of asyncLib.some is dropped: its rejection is unhandled. *)
TaskEnds(c) ==
    /\ alive
    /\ \E v \in Value :
          /\ Close(c, v)
          /\ alive' = ~(c[3] = "delete" /\ v = Failed)
    /\ UNCHANGED <<barred, dumped, handler, renewed>>

Serve(h) == NextId(h) \/ AfterDump(h)

ProxyNext == \/ \E h \in Handler : Delete(h)
             \/ \E h \in Handler : Serve(h)
             \/ \E c \in Call : TaskEnds(c)
             \/ \E c \in Call, n \in Node : ProxyRuns(c, n)
             \/ \E n \in Node, b \in Ban : ProxyBans(n, b) \/ BanExpires(n, b)

ProxySpec == ProxyInit /\ [][ProxyNext]_proxyVars

(* Handlers run on and every task ends (TaskAgent); the proxies owe nothing. *)
ProxyFairSpec == /\ ProxySpec
                 /\ \A h \in Handler : WF_proxyVars(Serve(h))
                 /\ \A c \in Call : WF_proxyVars(TaskEnds(c))

-----------------------------------------------------------------------------
(* An id that was reported deleted may still be banned only on a proxy that *)
(* banned it again, that has not run the removal yet, or when no removal    *)
(* was sent because no proxy whose answer was counted had the ban           *)
(* (28-42, 195-214).                                                        *)
Unreported(h, b) == LET c == Dump(h, b)
                    IN  \/ value[c] = Undefined
                        \/ \A n \in value[c] : b \notin dumped[c][n]

DeletedUnless ==
    \A h \in Handler, n \in Node : \A b \in barred[n] \cap ids[h] :
        at[h] = "ok" => \/ <<h, n, b>> \in renewed
                        \/ Remove(h, b) \in open /\ n \notin ran[Remove(h, b)]
                        \/ Unreported(h, b)

(* The table of a proxy loses by a DELETE only what a proxy reported to it. *)
RemovesReported ==
    \A h \in Handler, b \in Ban : Remove(h, b) \in open =>
        value[Dump(h, b)] \in SUBSET Node /\ ~Unreported(h, b)

(* Every DELETE is answered, unless a removal that nobody waited for threw *)
(* and took the worker, and every request in it, down (198-213).           *)
Answered ==
    \A h \in Handler : at[h] = "loop" ~> \/ at[h] \in {"ok", "error"}
                                         \/ \E c \in Call : /\ c[3] = "delete"
                                                            /\ value[c] = Failed
=============================================================================
