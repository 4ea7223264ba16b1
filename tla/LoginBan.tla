------------------------------ MODULE LoginBan ------------------------------
(***************************************************************************)
(* Login throttling and bans: pwd_auth of the Basic strategy, the BanGuard *)
(* in front of it, the Redis counters and ban keys of AuthService, the     *)
(* ban_increment_stage column of the user's database row, and the DELETE   *)
(* of a ban by an operator.                                                *)
(*                                                                         *)
(* Every `await' of the handlers is the end of an action: the handlers of  *)
(* several requests, of one worker process or of several, interleave       *)
(* there.  A request or an operator call may also end at any await, by a   *)
(* Redis or database error or with its worker (Abort, OpAbort).            *)
(*                                                                         *)
(* Time is a count of ticks: the configured times are small multiples of   *)
(* one tick, and Tick is the passing of one.                               *)
(***************************************************************************)
EXTENDS Integers, FiniteSets

CONSTANTS
    Account,      \* the users: what a client logs in as
    Unknown,      \* those of them that have no database row
    UserName,     \* [Account -> names]: login or webusername, without domain
    Origin,       \* what else identifies a login: client address (and host)
    Request,      \* slots for login requests in flight
    Operator,     \* slots for DELETE /bans/... calls in flight
    Realm,        \* the realms, a set of "admin" and "subscriber"
    Logins,       \* the logins that clients try, of each realm
    MaxAttempts,  \* security.login.max_attempts
    MinTime,      \* security.login.ban_min_time
    MaxTime,      \* security.login.ban_max_time
    Increment,    \* security.login.ban_increment
    ScanLimit,    \* findKeys' default limit
    StageBound,   \* bound of the model: no new request for a higher stage
    None          \* the login, or account, of a slot that is free

ASSUME UnknownAssumption == Unknown \subseteq Account
ASSUME RealmAssumption == /\ Realm \subseteq {"admin", "subscriber"}
                          /\ Logins \in [Realm -> SUBSET (Account \X Origin)]
ASSUME LimitAssumption == /\ MaxAttempts \in Nat \ {0}
                          /\ ScanLimit \in Nat \ {0}
                          /\ StageBound \in Nat
ASSUME RequestAssumption == IsFiniteSet(Request)
ASSUME NoneAssumption == None \notin Account /\ None \notin Account \X Origin
ASSUME TimeAssumption ==  /\ MinTime \in Nat \ {0}
                          /\ MaxTime \in Nat \ {0}
                          /\ Increment \in Nat

VARIABLES
    realm,      \* the realm whose users log in: realms share no key and no row
    attempts,   \* Redis login:fail::...: the 'attempts' field, 0 without key
    failTtl,    \* ... and the key's time to live
    banned,     \* Redis login:ban::...: the keys that exist
    banTtl,     \* ... and their time to live, 0 for a key without one
    stage,      \* database: ban_increment_stage
    pc,         \* where the handler of each request is
    key,        \* the login it is for
    seen,       \* what it read: attempts + 1, then the stage
    opc,        \* where each operator call is
    target,     \* the account it is for
    found,      \* the ban keys it found
    stuck,      \* history: bans left without a time to live by an Abort
    excused,    \* history: bans whose stage was reset, or never stored
    window      \* history: failures recorded since the counter was deleted

redis == <<attempts, failTtl, banned, banTtl>>
request == <<pc, key, seen>>
operator == <<opc, target, found>>
history == <<stuck, excused, window>>
vars == <<realm, redis, stage, request, operator, history>>

-----------------------------------------------------------------------------
(* Data.  A ban key names the user, domain, realm and address. *)

Key == Account \X Origin
KeysOf(a) == {a} \X Origin

(* The rows that `update({[userField]: username}, ...)' matches. *)
SameName(a) == {b \in Account \ Unknown : UserName[b] = UserName[a]}
KeysOfName(a) == SameName(a) \X Origin

BanTime(s) == LET t == MinTime + s * Increment
              IN  IF t < MaxTime THEN t ELSE MaxTime

RequestPc == {"idle", "validate", "read", "count", "lookup", "hset", "expire",
              "delfail", "store", "clear", "reset"}
Banning == {"hset", "expire", "delfail", "store"}
OperatorPc == {"idle", "visible", "find", "del", "reset"}

Goto(r, label) == pc' = [pc EXCEPT ![r] = label]
Step(r, label) == Goto(r, label) /\ UNCHANGED key
Answer(r) == /\ Goto(r, "idle")
             /\ key' = [key EXCEPT ![r] = None]
             /\ seen' = [seen EXCEPT ![r] = 0]

OpStep(o, label) == opc' = [opc EXCEPT ![o] = label] /\ UNCHANGED target
OpAnswer(o) == /\ opc' = [opc EXCEPT ![o] = "idle"]
               /\ target' = [target EXCEPT ![o] = None]
               /\ found' = [found EXCEPT ![o] = {}]

(* findKeys: some of the matching keys, at most ScanLimit of them. *)
ScanResult(keys) ==
    {ks \in SUBSET keys : Cardinality(ks) =
        IF Cardinality(keys) < ScanLimit THEN Cardinality(keys) ELSE ScanLimit}

Init ==
    /\ realm \in Realm
    /\ attempts = [k \in Key |-> 0]
    /\ failTtl = [k \in Key |-> 0]
    /\ banned = {}
    /\ banTtl = [k \in Key |-> 0]
    /\ stage = [a \in Account |-> 0]
    /\ pc = [r \in Request |-> "idle"]
    /\ key = [r \in Request |-> None]
    /\ seen = [r \in Request |-> 0]
    /\ opc = [o \in Operator |-> "idle"]
    /\ target = [o \in Operator |-> None]
    /\ found = [o \in Operator |-> {}]
    /\ stuck = {}
    /\ excused = {}
    /\ window = [k \in Key |-> 0]

-----------------------------------------------------------------------------
(* The login request. *)

(* BanGuard: a login that is banned is refused with 403 and changes nothing. *)
Admit(r, k) ==
    /\ pc[r] = "idle"
    /\ k \in Logins[realm]
    /\ k \notin banned
    /\ \A a \in SameName(k[1]) : stage[a] < StageBound
    /\ \A q \in Request : pc[q] \in Banning => seen[q] < StageBound
    /\ key' = [key EXCEPT ![r] = k]
    /\ Goto(r, "validate")
    /\ UNCHANGED <<redis, stage, seen, operator, history>>

(* validateAdmin / validateSubscriber: the password matches or not; an      *)
(* inactive admin is refused with 403 and neither counted nor cleared.      *)
Validate(r) ==
    /\ pc[r] = "validate"
    /\ \/ Step(r, "read") /\ UNCHANGED seen
       \/ /\ key[r][1] \notin Unknown
          /\ \/ Step(r, "clear") /\ UNCHANGED seen
             \/ realm = "admin" /\ Answer(r)
    /\ UNCHANGED <<redis, stage, operator, history>>

(* Mutant: the attempt just made is not counted. *)
ReadAttemptsBefore(r) ==
    /\ pc[r] = "read"
    /\ seen' = [seen EXCEPT ![r] = attempts[key[r]]]
    /\ Step(r, IF attempts[key[r]] >= MaxAttempts THEN "lookup" ELSE "count")
    /\ UNCHANGED <<redis, stage, operator, history>>

(* registerFailedLoginAttempt: HGET, and the decision taken on its answer. *)
ReadAttempts(r) ==
    /\ pc[r] = "read"
    /\ seen' = [seen EXCEPT ![r] = attempts[key[r]] + 1]
    /\ Step(r, IF attempts[key[r]] + 1 >= MaxAttempts THEN "lookup" ELSE "count")
    /\ UNCHANGED <<redis, stage, operator, history>>

(* The MULTI that stores what was read plus one, and its time to live. *)
CountAttempt(r) ==
    /\ pc[r] = "count"
    /\ attempts' = [attempts EXCEPT ![key[r]] = seen[r]]
    /\ failTtl' = [failTtl EXCEPT ![key[r]] = MaxTime]
    /\ window' = [window EXCEPT ![key[r]] = @ + 1]
    /\ Answer(r)
    /\ UNCHANGED <<banned, banTtl, stage, operator, stuck, excused>>

(* ban: the row is read, and the length of the ban follows from its stage; *)
(* without a row the answer is 401 and the counter stays where it is.      *)
LookupStage(r) ==
    /\ pc[r] = "lookup"
    /\ IF key[r][1] \in Unknown
       THEN Answer(r)
       ELSE Step(r, "hset") /\ seen' = [seen EXCEPT ![r] = stage[key[r][1]]]
    /\ UNCHANGED <<redis, stage, operator, history>>

(* HSET creates the ban key without a time to live, or leaves it the one it has. *)
SetBan(r) ==
    /\ pc[r] = "hset"
    /\ banned' = banned \cup {key[r]}
    /\ excused' = IF key[r] \in banned THEN excused ELSE excused \ {key[r]}
    /\ Step(r, "expire")
    /\ UNCHANGED <<attempts, failTtl, banTtl, stage, seen, operator, stuck, window>>

(* Mutant: the ban key is left without a time to live. *)
ExpireBanNever(r) ==
    /\ pc[r] = "expire"
    /\ Step(r, "delfail")
    /\ UNCHANGED <<redis, stage, seen, operator, history>>

(* EXPIRE does nothing when the key is gone. *)
ExpireBan(r) ==
    /\ pc[r] = "expire"
    /\ banTtl' = IF key[r] \in banned
                 THEN [banTtl EXCEPT ![key[r]] = BanTime(seen[r])]
                 ELSE banTtl
    /\ stuck' = stuck \ {key[r]}
    /\ Step(r, "delfail")
    /\ UNCHANGED <<attempts, failTtl, banned, stage, seen, operator, excused, window>>

ForgetAttempts(k) ==
    /\ attempts' = [attempts EXCEPT ![k] = 0]
    /\ failTtl' = [failTtl EXCEPT ![k] = 0]
    /\ window' = [window EXCEPT ![k] = 0]

DeleteFailKey(r) ==
    /\ pc[r] = "delfail"
    /\ ForgetAttempts(key[r])
    /\ Step(r, "store")
    /\ UNCHANGED <<banned, banTtl, stage, seen, operator, stuck, excused>>

(* Mutant: the stage that was read is stored again. *)
StoreStageSame(r) ==
    /\ pc[r] = "store"
    /\ stage' = [a \in Account |-> IF a \in SameName(key[r][1]) THEN seen[r] ELSE stage[a]]
    /\ Answer(r)
    /\ UNCHANGED <<redis, operator, history>>

(* The next stage goes to every row with this user name, and the answer is 401. *)
StoreStage(r) ==
    /\ pc[r] = "store"
    /\ stage' = [a \in Account |-> IF a \in SameName(key[r][1]) THEN seen[r] + 1
                                                                ELSE stage[a]]
    /\ Answer(r)
    /\ UNCHANGED <<redis, operator, history>>

(* clearFailedLoginAttempts and resetBanIncrementStage, after a good password. *)
ClearAttempts(r) ==
    /\ pc[r] = "clear"
    /\ ForgetAttempts(key[r])
    /\ Step(r, "reset")
    /\ UNCHANGED <<banned, banTtl, stage, seen, operator, stuck, excused>>

ResetStage(r) ==
    /\ pc[r] = "reset"
    /\ stage' = [a \in Account |-> IF a \in SameName(key[r][1]) THEN 0 ELSE stage[a]]
    /\ excused' = excused \cup (banned \cap KeysOfName(key[r][1]))
    /\ Answer(r)
    /\ UNCHANGED <<redis, operator, stuck, window>>

(* The handler ends between two awaits: an exception, or its worker died. *)
Abort(r) ==
    /\ pc[r] # "idle"
    /\ Answer(r)
    /\ stuck' = IF /\ pc[r] = "expire"
                   /\ key[r] \in banned
                   /\ banTtl[key[r]] = 0
                THEN stuck \cup {key[r]} ELSE stuck
    /\ excused' = IF pc[r] \in {"expire", "delfail", "store"}
                  THEN excused \cup (banned \cap {key[r]}) ELSE excused
    /\ UNCHANGED <<redis, stage, operator, window>>

-----------------------------------------------------------------------------
(* The operator's DELETE: BanAdminService / BanSubscriberService.delete for one *)
(* account, then removeAdminBan / removeSubscriberBan.                          *)

(* filterNotBanned...: the accounts named in the scanned keys. *)
OpFilter(o, a) ==
    /\ opc[o] = "idle"
    /\ \E ks \in ScanResult(banned) : ks \cap KeysOf(a) # {}
    /\ target' = [target EXCEPT ![o] = a]
    /\ opc' = [opc EXCEPT ![o] = "visible"]
    /\ UNCHANGED <<redis, stage, request, found, history>>

(* readWhereInIds: subscribers are only found while their stage is above 0. *)
OpVisible(o) ==
    /\ opc[o] = "visible"
    /\ IF realm = "admin" \/ stage[target[o]] > 0
       THEN OpStep(o, "find") /\ UNCHANGED found
       ELSE OpAnswer(o)
    /\ UNCHANGED <<redis, stage, request, history>>

OpFind(o) ==
    /\ opc[o] = "find"
    /\ \E ks \in ScanResult(banned \cap KeysOf(target[o])) :
          IF ks = {} THEN OpAnswer(o)
          ELSE OpStep(o, "del") /\ found' = [found EXCEPT ![o] = ks]
    /\ UNCHANGED <<redis, stage, request, history>>

OpDelete(o) ==
    /\ opc[o] = "del"
    /\ banned' = banned \ found[o]
    /\ banTtl' = [k \in Key |-> IF k \in found[o] THEN 0 ELSE banTtl[k]]
    /\ stuck' = stuck \ found[o]
    /\ excused' = excused \ found[o]
    /\ OpStep(o, "reset")
    /\ UNCHANGED <<attempts, failTtl, stage, request, found, window>>

OpReset(o) ==
    /\ opc[o] = "reset"
    /\ stage' = [stage EXCEPT ![target[o]] = 0]
    /\ excused' = excused \cup (banned \cap KeysOf(target[o]))
    /\ OpAnswer(o)
    /\ UNCHANGED <<redis, request, stuck, window>>

OpAbort(o) ==
    /\ opc[o] # "idle"
    /\ OpAnswer(o)
    /\ UNCHANGED <<redis, stage, request, history>>

-----------------------------------------------------------------------------
(* Redis: one tick off every time to live; a key whose time is up is gone. *)

EndsNow(ttl) == {k \in Key : ttl[k] = 1}

Tick ==
    /\ \E k \in Key : failTtl[k] > 0 \/ banTtl[k] > 0
    /\ attempts' = [k \in Key |-> IF k \in EndsNow(failTtl) THEN 0 ELSE attempts[k]]
    /\ window' = [k \in Key |-> IF k \in EndsNow(failTtl) THEN 0 ELSE window[k]]
    /\ failTtl' = [k \in Key |-> IF failTtl[k] > 0 THEN failTtl[k] - 1 ELSE 0]
    /\ banned' = banned \ EndsNow(banTtl)
    /\ excused' = excused \ EndsNow(banTtl)
    /\ banTtl' = [k \in Key |-> IF banTtl[k] > 0 THEN banTtl[k] - 1 ELSE 0]
    /\ UNCHANGED <<stage, request, operator, stuck>>

RequestStep(r) ==
    \/ Validate(r) \/ ReadAttempts(r) \/ CountAttempt(r)
    \/ LookupStage(r) \/ SetBan(r) \/ ExpireBan(r) \/ DeleteFailKey(r) \/ StoreStage(r)
    \/ ClearAttempts(r) \/ ResetStage(r)

OperatorStep(o) == OpVisible(o) \/ OpFind(o) \/ OpDelete(o) \/ OpReset(o)

Next ==
    /\ \/ \E r \in Request : RequestStep(r) \/ Abort(r) \/ \E k \in Key : Admit(r, k)
       \/ \E o \in Operator : OperatorStep(o) \/ OpAbort(o) \/ \E a \in Account : OpFilter(o, a)
       \/ Tick
    /\ UNCHANGED realm

Spec == Init /\ [][Next]_vars

-----------------------------------------------------------------------------
(* Properties. *)

TypeOK ==
    /\ attempts \in [Key -> Nat]
    /\ failTtl \in [Key -> 0 .. MaxTime]
    /\ banned \subseteq Key
    /\ banTtl \in [Key -> 0 .. MaxTime]
    /\ stage \in [Account -> Nat]
    /\ pc \in [Request -> RequestPc]
    /\ key \in [Request -> Key \cup {None}]
    /\ \A r \in Request : pc[r] # "idle" => key[r] \in Key
    /\ seen \in [Request -> Nat]
    /\ opc \in [Operator -> OperatorPc]
    /\ target \in [Operator -> Account \cup {None}]
    /\ \A o \in Operator : opc[o] # "idle" => target[o] \in Account
    /\ found \in [Operator -> SUBSET Key]
    /\ stuck \subseteq Key
    /\ excused \subseteq Key
    /\ window \in [Key -> Nat]

(* A ban key without a time to live is on its way to get one: a handler is  *)
(* between HSET and EXPIRE for it, or one was cut off there (ban, 387-388). *)
BanHasExpiry ==
    \A k \in banned : banTtl[k] = 0 =>
        k \in stuck \/ \E r \in Request : pc[r] = "expire" /\ key[r] = k

(* A ban in force shows in the user's row (the bans API only lists and lifts *)
(* bans of rows with a stage above 0), unless its handler has not stored the *)
(* stage yet or was cut off, or a reset of the stage came after the ban.     *)
BanVisible ==
    \A k \in banned : stage[k[1]] > 0 \/ k \in excused
        \/ \E r \in Request : pc[r] \in {"expire", "delfail", "store"} /\ key[r] = k

(* How many of the members of R hold each value of C, and all the ways they *)
(* can: GuessBound is one less than the ways in which the requests can hold *)
(* the values that the counter takes before it bans, a binomial number.     *)
Tally(R, C, h) == [v \in C |-> Cardinality({r \in R : h[r] = v})]
Multisets(R, C) == {Tally(R, C, h) : h \in [R -> C]}
Counts == 0 .. MaxAttempts - 1
GuessBound == Cardinality(Multisets(Request, Counts)) - 1

(* The counter is read with HGET and written by a later MULTI, so failures  *)
(* of concurrent requests overwrite one another, and a late write takes the *)
(* counter back.  Still no more failures than this are recorded against one *)
(* counter before it bans, is cleared or expires, however N requests in     *)
(* flight interleave: MaxAttempts - 1 of them when N is 1 (398-417).        *)
GuessesBounded == \A k \in Key : window[k] <= GuessBound
=============================================================================
