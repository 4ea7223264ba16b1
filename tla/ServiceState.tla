---------------------------- MODULE ServiceState ----------------------------
(***************************************************************************)
(* Whether one worker serves requests: the availability flags of           *)
(* AppService, the checks that set them every 5 seconds, and the           *)
(* StateMiddleware that answers 503 unless they are all set.               *)
(*                                                                         *)
(* The timer starts a check whether or not the last one has ended: Check   *)
(* are slots for Redis checks in flight, and every await ends an action.   *)
(* The connections never reconnect by themselves (retryStrategy returns    *)
(* nothing): a dropped one stays closed until a check calls connect().     *)
(***************************************************************************)
EXTENDS FiniteSets

CONSTANTS Check, DbCheck

Conn == {"main", "pubsub"}

VARIABLES
    up,              \* the servers that can be reached: "main", "pubsub", "db"
    connections,     \* the status of the two Redis connections
    redisAvailable,
    checkPc,         \* where each Redis check is
    isInitialized,   \* db.isInitialized
    dbAvailable,
    dbPc,            \* where each database check is
    refused          \* history: a live connection answered PING with an error

redis == <<connections, redisAvailable, checkPc, refused>>
database == <<isInitialized, dbAvailable, dbPc>>
serviceVars == <<up, redis, database>>

(* What a check awaits, of which connection; <<"cut", c>>: its PING was *)
(* rejected when the connection closed.                                 *)
Idle == <<"idle", "idle">>
Awaiting == {"ping", "cut", "connect"} \X Conn

(* Types: proved in ProcessProofs. *)
ServiceTypeOK ==
    /\ up \subseteq Conn \cup {"db"}
    /\ connections \in [Conn -> {"end", "connecting", "ready"}]
    /\ redisAvailable \in BOOLEAN
    /\ checkPc \in [Check -> {Idle} \cup Awaiting]
    /\ isInitialized \in BOOLEAN
    /\ dbAvailable \in BOOLEAN
    /\ dbPc \in [DbCheck -> {"idle", "initialize", "query"}]
    /\ refused \in BOOLEAN

(* The providers connect once before the server listens; a failure is only *)
(* logged.                                                                 *)
ServiceInit ==
    /\ up \in SUBSET (Conn \cup {"db"})
    /\ connections \in [Conn -> {"end", "ready"}]
    /\ \A c \in Conn : connections[c] = "ready" => c \in up
    /\ redisAvailable = TRUE
    /\ checkPc = [k \in Check |-> Idle]
    /\ isInitialized \in BOOLEAN
    /\ isInitialized => "db" \in up
    /\ dbAvailable = TRUE
    /\ dbPc = [k \in DbCheck |-> "idle"]
    /\ refused = FALSE

(* StateMiddleware lets a request pass. *)
Serving == isInitialized /\ dbAvailable /\ redisAvailable

-----------------------------------------------------------------------------
(* The Redis check.  Each operator below is what runs without an await from *)
(* one point of checkRedisAvailable to the next.                            *)

(* A rejected PING's continuation runs before anything else does. *)
NoCut == \A k \in Check : checkPc[k][1] # "cut"

Wait(k, label, flag) == /\ checkPc' = [checkPc EXCEPT ![k] = label]
                        /\ redisAvailable' = flag
                        /\ UNCHANGED connections
Connecting(k, c, flag) == /\ checkPc' = [checkPc EXCEPT ![k] = <<"connect", c>>]
                          /\ redisAvailable' = flag
                          /\ connections' = [connections EXCEPT ![c] = "connecting"]

(* connect() rejects at once while another check's connect() is under way. *)
PubSubPart(k, flag) ==
    \/ connections["pubsub"] = "ready" /\ Wait(k, Idle, flag)
    \/ connections["pubsub"] = "connecting" /\ Wait(k, Idle, FALSE)
    \/ connections["pubsub"] = "end" /\ Connecting(k, "pubsub", flag)

MainPart(k, flag) ==
    \/ connections["main"] = "ready" /\ PubSubPart(k, flag)
    \/ connections["main"] = "connecting" /\ Wait(k, Idle, FALSE)
    \/ connections["main"] = "end" /\ Connecting(k, "main", flag)

PingPubSub(k, flag) ==
    \/ connections["pubsub"] = "ready" /\ Wait(k, <<"ping", "pubsub">>, flag)
    \/ connections["pubsub"] # "ready" /\ MainPart(k, flag)

StartCheck(k) ==
    /\ NoCut /\ checkPc[k] = Idle
    /\ \/ connections["main"] = "ready" /\ Wait(k, <<"ping", "main">>, redisAvailable)
       \/ connections["main"] # "ready" /\ PingPubSub(k, redisAvailable)
    /\ UNCHANGED <<up, database, refused>>

AfterPing(k, c, flag) == IF c = "main" THEN PingPubSub(k, flag)
                         ELSE MainPart(k, flag)

PingAnswered(k, c) ==
    /\ NoCut /\ checkPc[k] = <<"ping", c>>
    /\ c \in up
    /\ AfterPing(k, c, redisAvailable)
    /\ UNCHANGED <<up, database, refused>>

PingRefused(k, c) ==
    /\ NoCut /\ checkPc[k] = <<"ping", c>>
    /\ c \in up
    /\ refused' = TRUE
    /\ AfterPing(k, c, FALSE)
    /\ UNCHANGED <<up, database>>

PingCut(k, c) ==
    /\ checkPc[k] = <<"cut", c>>
    /\ AfterPing(k, c, FALSE)
    /\ UNCHANGED <<up, database, refused>>

(* Mutant: only a failure sets the flag. *)
ConnectedUnset(k, c) ==
    /\ NoCut /\ checkPc[k] = <<"connect", c>>
    /\ c \in up
    /\ connections' = [connections EXCEPT ![c] = "ready"]
    /\ IF c = "main" /\ connections["pubsub"] = "end"
       THEN /\ checkPc' = [checkPc EXCEPT ![k] = <<"connect", "pubsub">>]
            /\ UNCHANGED redisAvailable
       ELSE /\ checkPc' = [checkPc EXCEPT ![k] = Idle]
            /\ UNCHANGED redisAvailable
    /\ UNCHANGED <<up, database, refused>>

(* After the main connection the check goes on to the other one. *)
Connected(k, c) ==
    /\ NoCut /\ checkPc[k] = <<"connect", c>>
    /\ c \in up
    /\ LET other == connections["pubsub"]
       IN  IF c = "main" /\ other # "ready"
           THEN \/ /\ other = "end"
                   /\ connections' = [main |-> "ready", pubsub |-> "connecting"]
                   /\ checkPc' = [checkPc EXCEPT ![k] = <<"connect", "pubsub">>]
                   /\ redisAvailable' = TRUE
                \/ /\ other = "connecting"
                   /\ connections' = [connections EXCEPT ![c] = "ready"]
                   /\ checkPc' = [checkPc EXCEPT ![k] = Idle]
                   /\ redisAvailable' = FALSE
           ELSE /\ connections' = [connections EXCEPT ![c] = "ready"]
                /\ checkPc' = [checkPc EXCEPT ![k] = Idle]
                /\ redisAvailable' = TRUE
    /\ UNCHANGED <<up, database, refused>>

(* Mutant: the failure is only logged. *)
ConnectFailedLogged(k, c) ==
    /\ NoCut /\ checkPc[k] = <<"connect", c>>
    /\ c \notin up
    /\ connections' = [connections EXCEPT ![c] = "end"]
    /\ checkPc' = [checkPc EXCEPT ![k] = Idle]
    /\ UNCHANGED <<up, database, refused, redisAvailable>>

ConnectFailed(k, c) ==
    /\ NoCut /\ checkPc[k] = <<"connect", c>>
    /\ c \notin up
    /\ connections' = [connections EXCEPT ![c] = "end"]
    /\ checkPc' = [checkPc EXCEPT ![k] = Idle]
    /\ redisAvailable' = FALSE
    /\ UNCHANGED <<up, database, refused>>

-----------------------------------------------------------------------------
(* The database check. *)

StartDbCheck(k) ==
    /\ NoCut /\ dbPc[k] = "idle"
    /\ dbPc' = [dbPc EXCEPT ![k] = IF isInitialized THEN "query" ELSE "initialize"]
    /\ UNCHANGED <<up, redis, isInitialized, dbAvailable>>

DbAnswers(k) ==
    /\ NoCut /\ dbPc[k] # "idle"
    /\ dbAvailable' = ("db" \in up)
    /\ isInitialized' = (isInitialized \/ (dbPc[k] = "initialize" /\ "db" \in up))
    /\ dbPc' = [dbPc EXCEPT ![k] = "idle"]
    /\ UNCHANGED <<up, redis>>

-----------------------------------------------------------------------------
(* The world: a Redis server that goes away takes its connection with it. *)

Restore(c) == /\ NoCut /\ c \notin up
              /\ up' = up \cup {c}
              /\ UNCHANGED <<redis, database>>

Drop(c) == /\ NoCut /\ c \in up
           /\ up' = up \ {c}
           /\ IF c \in Conn /\ connections[c] = "ready"
              THEN /\ connections' = [connections EXCEPT ![c] = "end"]
                   /\ checkPc' = [k \in Check |-> IF checkPc[k] = <<"ping", c>>
                                                  THEN <<"cut", c>> ELSE checkPc[k]]
              ELSE UNCHANGED <<connections, checkPc>>
           /\ UNCHANGED <<redisAvailable, refused, database>>

Answer(k) == \E c \in Conn : \/ PingAnswered(k, c)
                             \/ PingRefused(k, c)
                             \/ PingCut(k, c)
                             \/ Connected(k, c)
                             \/ ConnectFailed(k, c)

ServiceNext ==
    \/ \E k \in Check : StartCheck(k) \/ Answer(k)
    \/ \E k \in DbCheck : StartDbCheck(k) \/ DbAnswers(k)
    \/ \E c \in Conn \cup {"db"} : Restore(c) \/ Drop(c)

ServiceSpec == ServiceInit /\ [][ServiceNext]_serviceVars

(* Timers fire, and Redis and the database answer or fail. *)
ServiceFairSpec ==
    /\ ServiceSpec
    /\ \A k \in Check : WF_serviceVars(StartCheck(k)) /\ WF_serviceVars(Answer(k))
    /\ \A k \in DbCheck : WF_serviceVars(StartDbCheck(k)) /\ WF_serviceVars(DbAnswers(k))

-----------------------------------------------------------------------------
AllUp == up = Conn \cup {"db"}

(* When Redis and the database are back for good, so is the API: except     *)
(* that a PING an established connection refuses clears a flag that only a  *)
(* reconnect sets again (redisstate.schedule.ts 17-62).                     *)
Recovers == <>[]AllUp => <>[]Serving \/ <>refused

(* ... since what keeps it down never outlasts its cause: while the flag is *)
(* down, a connection is not ready and will be connected by a check (or a   *)
(* live one refused a PING); while a connection is connecting, there is a   *)
(* check that waits for it, however many overlap (17-62).                   *)
Recoverable ==
    /\ redisAvailable \/ refused \/ \E c \in Conn : connections[c] # "ready"
    /\ \A c \in Conn : connections[c] = "connecting" =>
           \E k \in Check : checkPc[k] = <<"connect", c>>

(* When one of them is away for good and the others settle, the API stops *)
(* serving for good.                                                      *)
Settled(c) == <>[](c \in up) \/ <>[](c \notin up)
OutageSeen == (\A c \in Conn \cup {"db"} : Settled(c)) /\ ~<>[]AllUp
                  => <>[]~Serving
=============================================================================
