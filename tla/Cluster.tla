------------------------------ MODULE Cluster -------------------------------
(***************************************************************************)
(* The primary process: it forks the workers once, counts the ones that    *)
(* listen, tells systemd READY when all do, and STOPPING when it believes  *)
(* that none is left, or at the first disconnect.  A worker that dies is   *)
(* not forked again.                                                       *)
(*                                                                         *)
(* A death reaches the primary as two events, `exit' and `disconnect', in  *)
(* any order and after `listening'.                                        *)
(***************************************************************************)
EXTENDS Integers, FiniteSets

CONSTANT Worker    \* workersAmount forked processes

ASSUME WorkerAssumption == IsFiniteSet(Worker) /\ Worker # {}

VARIABLES
    life,           \* of each worker: forked, serving (it listens) or dead
    events,         \* events the primary has not handled yet, per worker
    workersOnline,
    started,
    pidfile,        \* the pid file exists
    status,         \* what systemd was told last
    unheard         \* history: workers whose disconnect came before READY

clusterVars == <<life, events, workersOnline, started, pidfile, status, unheard>>

Event == {"listening", "exit", "disconnect"}

ClusterTypeOK ==
  /\ life \in [Worker -> {"forked", "serving", "dead"}]
  /\ events \in [Worker -> SUBSET Event]
  /\ workersOnline \in 0..Cardinality(Worker)
  /\ started \in BOOLEAN
  /\ pidfile \in BOOLEAN
  /\ status \in {"", "READY=1", "STOPPING=1"}
  /\ unheard \subseteq Worker

ClusterInit ==
  /\ life = [w \in Worker |-> "forked"]
  /\ events = [w \in Worker |-> {}]
  /\ workersOnline = 0
  /\ started = FALSE
  /\ pidfile \in BOOLEAN    \* RuntimeDirectoryPreserve: of an earlier run
  /\ status = ""
  /\ unheard = {}

-----------------------------------------------------------------------------
(* A worker. *)

Listen(w) == /\ life[w] = "forked"
             /\ life' = [life EXCEPT ![w] = "serving"]
             /\ events' = [events EXCEPT ![w] = @ \cup {"listening"}]
             /\ UNCHANGED <<workersOnline, started, pidfile, status, unheard>>

Die(w) == /\ life[w] # "dead"
          /\ life' = [life EXCEPT ![w] = "dead"]
          /\ events' = [events EXCEPT ![w] = @ \cup {"exit", "disconnect"}]
          /\ UNCHANGED <<workersOnline, started, pidfile, status, unheard>>

(* The primary. *)

Take(w, e) == /\ e \in events[w]
              /\ e # "listening" => "listening" \notin events[w]
              /\ events' = [events EXCEPT ![w] = @ \ {e}]
              /\ UNCHANGED life

Stopped == /\ status' = "STOPPING=1"
           /\ pidfile' = FALSE
           /\ started' = FALSE

(* Mutant: the counter may go below zero. *)
OnExitUnguarded(w) ==
    /\ Take(w, "exit")
    /\ workersOnline' = workersOnline - 1
    /\ IF workersOnline' = 0 THEN Stopped ELSE UNCHANGED <<started, pidfile, status>>
    /\ UNCHANGED unheard

(* Mutant: a worker that died is not taken off. *)
OnExitUncounted(w) ==
    /\ Take(w, "exit")
    /\ IF workersOnline = 0 THEN Stopped ELSE UNCHANGED <<started, pidfile, status>>
    /\ UNCHANGED <<workersOnline, unheard>>

OnExit(w) ==
    /\ Take(w, "exit")
    /\ workersOnline' = IF workersOnline > 0 THEN workersOnline - 1 ELSE 0
    /\ IF workersOnline' = 0 THEN Stopped ELSE UNCHANGED <<started, pidfile, status>>
    /\ UNCHANGED unheard

Hear(w) == unheard' = IF started THEN unheard ELSE unheard \cup {w}

OnDisconnect(w) ==
    /\ Take(w, "disconnect")
    /\ IF started THEN Stopped ELSE UNCHANGED <<started, pidfile, status>>
    /\ Hear(w)
    /\ UNCHANGED workersOnline

(* Mutant: ready as soon as one worker is. *)
OnListeningFirst(w) ==
    /\ Take(w, "listening")
    /\ workersOnline' = workersOnline + 1
    /\ IF ~started
       THEN started' = TRUE /\ pidfile' = TRUE /\ status' = "READY=1"
       ELSE UNCHANGED <<started, pidfile, status>>
    /\ UNCHANGED unheard

OnListening(w) ==
    /\ Take(w, "listening")
    /\ workersOnline' = workersOnline + 1
    /\ IF ~started /\ workersOnline' = Cardinality(Worker)
       THEN started' = TRUE /\ pidfile' = TRUE /\ status' = "READY=1"
       ELSE UNCHANGED <<started, pidfile, status>>
    /\ UNCHANGED unheard

ClusterNext ==
  \E w \in Worker :
    \/ Listen(w)
    \/ Die(w)
    \/ OnExit(w)
    \/ OnDisconnect(w)
    \/ OnListening(w)

ClusterSpec == ClusterInit /\ [][ClusterNext]_clusterVars

(* Events are handled; workers need neither come up nor die. *)
ClusterFairSpec ==
  ClusterSpec /\ \A w \in Worker : WF_clusterVars(OnExit(w) \/ OnDisconnect(w) \/ OnListening(w))

-----------------------------------------------------------------------------
(* The counter never promises a worker that is gone for good: it is at most *)
(* the number of workers that serve, or whose exit is still to be handled   *)
(* (36-49, 60-73).  It may be less: a worker that dies before it listens is *)
(* taken off although it was never counted.                                 *)
Online == {w \in Worker : \/ life[w] = "serving" /\ "listening" \notin events[w]
                          \/ life[w] = "dead" /\ "exit" \in events[w]}

CountsNoGhost == workersOnline <= Cardinality(Online)

(* While systemd and the pid file say the server is up, every worker does   *)
(* serve, or its `disconnect' is on its way, or came before READY: that one *)
(* is ignored, and if the `exit' is handled later still, the dead worker    *)
(* counts as online when the others listen (36-73).                         *)
ReadyMeansAll ==
    started => /\ pidfile /\ status = "READY=1"
               /\ \A w \in Worker : \/ life[w] = "serving"
                                    \/ "disconnect" \in events[w]
                                    \/ w \in unheard

(* READY is announced once: after STOPPING nothing starts the server again. *)
ReadyOnce == [][status = "STOPPING=1" => status' = "STOPPING=1"]_clusterVars

(* When the last exit has been handled, whatever the order of the other      *)
(* events, the primary has said so, and what comes late changes it no more: *)
(* a count that lost track of a worker would never reach zero (36-73).      *)
ExitsStop == (\A w \in Worker : life[w] = "dead" /\ "exit" \notin events[w])
                 => status = "STOPPING=1" /\ ~pidfile /\ ~started

(* Once the last worker is dead, the server is reported stopped, and no pid *)
(* file of it is left (36-59).                                              *)
DeathReported == (\A w \in Worker : life[w] = "dead")
                     ~> (status = "STOPPING=1" /\ ~pidfile /\ ~started)
=============================================================================
