----------------------------- MODULE Fileshare ------------------------------
(***************************************************************************)
(* Uploads of files that expire: POST checks the limits of the user and    *)
(* inserts, DELETE looks the ids up and deletes, each in a transaction of  *)
(* its own; an interval timer deletes what has expired.                    *)
(*                                                                         *)
(* An upload lives in a slot, which stands for its id.  Its ttl counts     *)
(* ticks down: at 0 expires_at is past.                                    *)
(***************************************************************************)
EXTENDS Integers, FiniteSets, FiniteSetsExt

CONSTANTS
    Slot,
    User,         \* records: role, reseller, id
    Size,         \* sizes a file may have
    Ttl,          \* times to live a request may ask for
    DefaultTtl,   \* ... and that of one that asks for none
    UserFiles,    \* fileshare.limits.user_files
    UserQuota,    \* fileshare.limits.user_quota
    Handler

ASSUME SizeAssumption == Size \subseteq 1..99
ASSUME TtlAssumption == Ttl \subseteq Nat /\ DefaultTtl \in Nat
ASSUME FiniteAssumption == IsFiniteSet(Slot) /\ IsFiniteSet(Handler)
ASSUME UserAssumption == User # {} /\ \A u \in User : DOMAIN u = {"role", "reseller", "id"}
(* The id of a subscriber is the key of provisioning.voip_subscribers. *)
ASSUME SubscriberAssumption ==
    \A u, v \in User : u.role = "subscriber" /\ v.role = "subscriber" /\ u.id = v.id => u = v
ASSUME LimitAssumption == UserFiles \in Nat \ {0} /\ UserQuota \in Nat \ {0}

VARIABLES
    uploads,    \* fileshare.uploads: an upload or None, per slot
    available,  \* isDbAvailable
    pc, user,   \* where each request is, and its user
    file,       \* size and ttl of the file it was sent
    ids         \* the ids it was sent

vars == <<uploads, available, pc, user, file, ids>>

None == [size |-> 0]

Upload == [owner : User, size : Size, ttl : Nat]
File == [size : Size, ttl : Ttl \cup {DefaultTtl}]

TypeOK == /\ uploads \in [Slot -> Upload \cup {None}]
          /\ available \in BOOLEAN
          /\ pc \in [Handler -> {"idle", "check", "insert", "find", "remove"}]
          /\ user \in [Handler -> User]
          /\ file \in [Handler -> File \cup {None}]
          /\ ids \in [Handler -> SUBSET Slot]

AnyUser == CHOOSE u \in User : TRUE

Init == /\ uploads = [i \in Slot |-> None]
        /\ available = TRUE
        /\ pc = [h \in Handler |-> "idle"]
        /\ user = [h \in Handler |-> AnyUser]
        /\ file = [h \in Handler |-> None]
        /\ ids = [h \in Handler |-> {}]

-----------------------------------------------------------------------------
Stored == {i \in Slot : uploads[i] # None}

(* Mutant: a subscriber is filtered by reseller. *)
SeesReseller(u, f) == u.role \in {"reseller", "ccare", "subscriber"} => f.owner.reseller = u.reseller

(* filterOptions: where a row has the user's reseller, or subscriber, id. *)
Sees(u, f) ==
    /\ u.role \in {"reseller", "ccare"} => f.owner.reseller = u.reseller
    /\ u.role = "subscriber" => f.owner.role = "subscriber" /\ f.owner.id = u.id

SeenBy(u) == {i \in Stored : Sees(u, uploads[i])}

SizeOf(slots) == MapThenSumSet(LAMBDA i : uploads[i].size, slots)

(* SUM() comes from the driver as a decimal string, or as null for no rows: *)
(* `+' puts the digits of the size behind those of the sum.                 *)
SumPlus(slots, size) ==
    IF slots = {} THEN size
    ELSE SizeOf(slots) * (IF size < 10 THEN 10 ELSE 100) + size

Answer(h) ==
    /\ pc' = [pc EXCEPT ![h] = "idle"]
    /\ user' = [user EXCEPT ![h] = AnyUser]
    /\ file' = [file EXCEPT ![h] = None]
    /\ ids' = [ids EXCEPT ![h] = {}]

Post(h) ==
    /\ pc[h] = "idle"
    /\ \E u \in User, f \in File : /\ user' = [user EXCEPT ![h] = u]
                                   /\ file' = [file EXCEPT ![h] = f]
    /\ pc' = [pc EXCEPT ![h] = "check"]
    /\ UNCHANGED <<uploads, available, ids>>

(* Mutant: the limit of files is one more than configured. *)
CheckLimitsOff(h) ==
    LET mine == SeenBy(user[h])
        sum == SumPlus(mine, file[h].size)
    IN  /\ pc[h] = "check"
        /\ IF Cardinality(mine) > UserFiles \/ sum > UserQuota THEN Answer(h)
           ELSE pc' = [pc EXCEPT ![h] = "insert"] /\ UNCHANGED <<user, file, ids>>
        /\ UNCHANGED <<uploads, available>>

(* create: the files and their sum, in one snapshot. *)
CheckLimits(h) ==
    LET mine == SeenBy(user[h])
        sum == SumPlus(mine, file[h].size)
    IN  /\ pc[h] = "check"
        /\ IF Cardinality(mine) >= UserFiles \/ sum > UserQuota THEN Answer(h)
           ELSE pc' = [pc EXCEPT ![h] = "insert"] /\ UNCHANGED <<user, file, ids>>
        /\ UNCHANGED <<uploads, available>>

(* Mutant: expires_at is left empty. *)
InsertForever(h) ==
    /\ pc[h] = "insert"
    /\ \E i \in Slot \ Stored :
         uploads' = [uploads EXCEPT ![i] = [owner |-> user[h], size |-> file[h].size, ttl |-> -1]]
    /\ Answer(h)
    /\ UNCHANGED available

Insert(h) ==
    /\ pc[h] = "insert"
    /\ \E i \in Slot \ Stored :
         uploads' = [uploads EXCEPT ![i] =
                        [owner |-> user[h], size |-> file[h].size, ttl |-> file[h].ttl]]
    /\ Answer(h)
    /\ UNCHANGED available

Delete(h) ==
    /\ pc[h] = "idle"
    /\ \E u \in User, is \in (SUBSET Slot) \ {{}} : /\ user' = [user EXCEPT ![h] = u]
                                                  /\ ids' = [ids EXCEPT ![h] = is]
    /\ pc' = [pc EXCEPT ![h] = "find"]
    /\ UNCHANGED <<uploads, available, file>>

(* delete: every id has to be found, or it is 404 or 422. *)
Find(h) ==
    /\ pc[h] = "find"
    /\ IF ids[h] \subseteq SeenBy(user[h])
       THEN pc' = [pc EXCEPT ![h] = "remove"] /\ UNCHANGED <<user, file, ids>>
       ELSE Answer(h)
    /\ UNCHANGED <<uploads, available>>

(* The filter applies again, to the rows as they are now. *)
Remove(h) ==
    /\ pc[h] = "remove"
    /\ uploads' = [i \in Slot |-> IF i \in ids[h] \cap SeenBy(user[h]) THEN None ELSE uploads[i]]
    /\ Answer(h)
    /\ UNCHANGED available

(* The whole quota is reached, as the size of the table in information_schema *)
(* says; a statement fails; the worker dies.                                  *)
Fail(h) ==
    /\ pc[h] # "idle"
    /\ Answer(h)
    /\ UNCHANGED <<uploads, available>>

(* cleanupExpiredUploads *)
Cleanup ==
    /\ available
    /\ \E i \in Stored : uploads[i].ttl = 0
    /\ uploads' = [i \in Slot |-> IF i \in Stored /\ uploads[i].ttl = 0 THEN None ELSE uploads[i]]
    /\ UNCHANGED <<available, pc, user, file, ids>>

Tick ==
    /\ \E i \in Stored : uploads[i].ttl > 0
    /\ uploads' = [i \in Slot |-> IF i \in Stored /\ uploads[i].ttl > 0
                                  THEN [uploads[i] EXCEPT !.ttl = @ - 1] ELSE uploads[i]]
    /\ UNCHANGED <<available, pc, user, file, ids>>

(* The flag of the database check (ServiceState). *)
DbDown == available /\ available' = FALSE /\ UNCHANGED <<uploads, pc, user, file, ids>>
DbUp == ~available /\ available' = TRUE /\ UNCHANGED <<uploads, pc, user, file, ids>>

Next == \/ \E h \in Handler : \/ Post(h) \/ CheckLimits(h) \/ Insert(h)
                              \/ Delete(h) \/ Find(h) \/ Remove(h) \/ Fail(h)
        \/ Cleanup
        \/ Tick
        \/ DbDown
        \/ DbUp

Spec == Init /\ [][Next]_vars

(* Time passes, outages end (Recovers of ServiceState), and the timer, which *)
(* runs every 5 s, finds the database available again and again.             *)
FairSpec == Spec /\ WF_vars(Tick) /\ WF_vars(DbUp) /\ SF_vars(Cleanup)

-----------------------------------------------------------------------------
(* A user has no more files than user_files but for one per request that    *)
(* runs besides the last: check and insert are not atomic (75-112), and a    *)
(* file may go and another come in between, by anyone.                       *)
FilesBounded ==
    \A u \in User : Cardinality({i \in Stored : uploads[i].owner = u})
                      <= UserFiles + Cardinality(Handler) - 1

(* Before its time an upload goes only by a DELETE of a user who may see it: *)
(* a subscriber's file by that subscriber, by a user of his reseller, or by  *)
(* one of the roles that filterOptions (27-36) does not limit.  The timer,   *)
(* which tests expires_at in a statement of its own, never takes one that    *)
(* has time left.                                                            *)
KeptUntilDeleted ==
    [][\A i \in Stored : uploads'[i] = None /\ uploads[i].ttl > 0 =>
           \E h \in Handler :
               /\ pc[h] = "remove" /\ pc'[h] = "idle" /\ i \in ids[h]
               /\ \/ user[h].role \notin {"reseller", "ccare", "subscriber"}
                  \/ /\ user[h].role \in {"reseller", "ccare"}
                     /\ user[h].reseller = uploads[i].owner.reseller
                  \/ user[h] = uploads[i].owner]_vars

(* Every upload is gone in the end. *)
UploadEnds == \A i \in Slot : (uploads[i] # None) ~> (uploads[i] = None)
=============================================================================
