----------------------------- MODULE Passwords ------------------------------
(***************************************************************************)
(* The password of one user and the journal of the last ones, that a new   *)
(* password is compared with.                                              *)
(*                                                                         *)
(* Two ways lead to a new password.  A "change" (POST                      *)
(* /auth/password/change, of an admin or a subscriber) runs outside of a   *)
(* transaction: each of its statements takes effect at once, and it may be *)
(* cut off after any of them.  An "update" (PUT or PATCH of an admin) is   *)
(* one transaction: it reads the journal as it was at its first read,      *)
(* nobody sees its writes before its commit, and a failure undoes them.    *)
(*                                                                         *)
(* Passwords are model values: what bcrypt says of two of them is whether  *)
(* they are equal.                                                         *)
(***************************************************************************)
EXTENDS Integers, Sequences, FiniteSets, FiniteSetsExt

CONSTANTS
    Password,
    Handler,     \* requests in flight
    KeepLast,    \* security.password.web_keep_last_used
    MaxId,       \* bound of the model: ids of journal rows
    NoPassword

ASSUME KeepAssumption == KeepLast \in Nat \ {0}
ASSUME BoundAssumption == IsFiniteSet(Handler) /\ MaxId \in Nat \ {0}
ASSUME NoPasswordAssumption == NoPassword \notin Password

VARIABLES
    current,   \* the user's saltedpass
    journal,   \* rows of the password journal
    nextId,    \* its auto-increment
    pc, kind,  \* where each handler is; "change" or "update"
    new,       \* the password it was sent
    view,      \* the rows its transaction sees
    keepFrom,  \* lastIdToKeep, 0 for none
    used,      \* history: the passwords in effect, oldest first
    cut,       \* history: a change was cut off after its insert
    overlap    \* history: the kinds of handlers that overlapped

row == <<current, journal, nextId>>
local == <<pc, kind, new, view, keepFrom>>
history == <<cut, overlap>>
vars == <<row, local, used, history>>

Row == [id : 1..MaxId, value : Password]

TypeOK == /\ current \in Password
          /\ journal \subseteq Row
          /\ nextId \in 1..MaxId + 1
          /\ pc \in [Handler -> {"idle", "read", "insert", "ids", "delete", "store"}]
          /\ kind \in [Handler -> {"change", "update"}]
          /\ new \in [Handler -> Password \cup {NoPassword}]
          /\ view \in [Handler -> SUBSET Row]
          /\ keepFrom \in [Handler -> 0..MaxId]
          /\ used \in Seq(Password)
          /\ cut \in BOOLEAN
          /\ overlap \subseteq {"change", "update"}

(* The user was created by this API, which journals the first password *)
(* (50-64 of admin.service.ts).                                        *)
Init == /\ current \in Password
        /\ journal = {[id |-> 1, value |-> current]}
        /\ nextId = 2
        /\ pc = [h \in Handler |-> "idle"]
        /\ kind = [h \in Handler |-> "change"]
        /\ new = [h \in Handler |-> NoPassword]
        /\ view = [h \in Handler |-> {}]
        /\ keepFrom = [h \in Handler |-> 0]
        /\ used = <<current>>
        /\ cut = FALSE
        /\ overlap = {}

-----------------------------------------------------------------------------
(* orderBy('id', 'DESC').limit(n): the n newest rows. *)
Newest(rows, n) == {r \in rows : Cardinality({s \in rows : s.id > r.id}) < n}

(* What a handler reads: the table, or the snapshot of its transaction. *)
Seen(h) == IF kind[h] = "update" THEN view[h] ELSE journal

Busy == {h \in Handler : pc[h] # "idle"}

Begin(h) == /\ pc[h] = "idle"
            /\ nextId + Cardinality(Busy) <= MaxId
            /\ \E k \in {"change", "update"}, p \in Password :
                   /\ kind' = [kind EXCEPT ![h] = k]
                   /\ new' = [new EXCEPT ![h] = p]
            /\ pc' = [pc EXCEPT ![h] = "read"]
            /\ UNCHANGED <<row, view, keepFrom, used, history>>

Finish(h) == /\ pc' = [pc EXCEPT ![h] = "idle"]
             /\ new' = [new EXCEPT ![h] = NoPassword]
             /\ view' = [view EXCEPT ![h] = {}]
             /\ keepFrom' = [keepFrom EXCEPT ![h] = 0]
             /\ UNCHANGED kind

Goto(h, label) == pc' = [pc EXCEPT ![h] = label] /\ UNCHANGED <<kind, new>>

(* History: h compares while others are between comparing and storing. *)
Overlaps(h) ==
    LET others == {g \in Busy \ {h} : pc[g] # "read"} IN
    overlap' = IF others = {} THEN overlap
               ELSE overlap \cup {kind[g] : g \in others \cup {h}}

(* Mutant: the password in effect is not compared. *)
ReadLastButOne(h) ==
    /\ pc[h] = "read"
    /\ IF \E r \in Newest(journal, KeepLast) \ Newest(journal, 1) : r.value = new[h]
       THEN Finish(h)
       ELSE /\ Goto(h, "insert")
            /\ view' = [view EXCEPT ![h] = journal]
            /\ UNCHANGED keepFrom
    /\ Overlaps(h)
    /\ UNCHANGED <<row, used, cut>>

(* A password among the last ones is refused: PASSWORD_ALREADY_USED. *)
ReadLast(h) ==
    /\ pc[h] = "read"
    /\ IF \E r \in Newest(journal, KeepLast) : r.value = new[h]
       THEN Finish(h)
       ELSE /\ Goto(h, "insert")
            /\ view' = [view EXCEPT ![h] = journal]
            /\ UNCHANGED keepFrom
    /\ Overlaps(h)
    /\ UNCHANGED <<row, used, cut>>

Insert(h) ==
    LET r == [id |-> nextId, value |-> new[h]] IN
    /\ pc[h] = "insert"
    /\ nextId' = nextId + 1
    /\ view' = [view EXCEPT ![h] = @ \cup {r}]
    /\ journal' = IF kind[h] = "change" THEN journal \cup {r} ELSE journal
    /\ Goto(h, "ids")
    /\ UNCHANGED <<current, keepFrom, used, history>>

(* keepLastNPasswords: the id of the last row to keep. *)
LastIdToKeep(rows) == Min({r.id : r \in Newest(rows, KeepLast)})

ReadIds(h) ==
    /\ pc[h] = "ids"
    /\ keepFrom' = [keepFrom EXCEPT ![h] =
                       IF Seen(h) = {} THEN 0 ELSE LastIdToKeep(Seen(h))]
    /\ Goto(h, IF Seen(h) = {} THEN "store" ELSE "delete")
    /\ UNCHANGED <<row, view, used, history>>

(* Mutant: nothing is deleted. *)
DeleteOlderNone(h) ==
    /\ pc[h] = "delete"
    /\ Goto(h, "store")
    /\ UNCHANGED <<row, view, keepFrom, used, history>>

DeleteOlder(h) ==
    /\ pc[h] = "delete"
    /\ journal' = IF kind[h] = "change"
                  THEN {r \in journal : r.id >= keepFrom[h]} ELSE journal
    /\ Goto(h, "store")
    /\ UNCHANGED <<current, nextId, view, keepFrom, used, history>>

(* Mutant: an update does not journal its password. *)
StoreUnjournaled(h) ==
    /\ pc[h] = "store"
    /\ current' = new[h]
    /\ used' = Append(used, new[h])
    /\ Finish(h)
    /\ UNCHANGED <<journal, nextId, history>>

(* The user's row; an update commits here what it inserted and deleted. *)
Store(h) ==
    /\ pc[h] = "store"
    /\ current' = new[h]
    /\ used' = Append(used, new[h])
    /\ journal' =
         IF kind[h] = "change" THEN journal
         ELSE {r \in journal \cup {s \in view[h] : s.value = new[h] /\ s.id >= keepFrom[h]} :
                   r.id >= keepFrom[h]}
    /\ Finish(h)
    /\ UNCHANGED <<nextId, history>>

(* A failed statement or a worker that dies: a transaction leaves nothing. *)
Abort(h) ==
    /\ pc[h] # "idle"
    /\ Finish(h)
    /\ cut' = (cut \/ (kind[h] = "change" /\ pc[h] \in {"ids", "delete", "store"}))
    /\ UNCHANGED <<row, used, overlap>>

Next == \E h \in Handler : \/ Begin(h) \/ ReadLast(h) \/ Insert(h) \/ ReadIds(h)
                           \/ DeleteOlder(h) \/ Store(h) \/ Abort(h)

Spec == Init /\ [][Next]_vars

-----------------------------------------------------------------------------
(* A password that takes effect is none of the last KeepLast in effect      *)
(* (49-67), whichever ways led to those.  Not so once a change was cut off  *)
(* or two requests compared before either had stored: the journal then no   *)
(* longer tells what was in effect.                                         *)
LastUsed == {used[i] : i \in {j \in DOMAIN used : j > Len(used) - KeepLast}}

NoReuse == [][used' # used /\ ~cut /\ overlap = {} => current' \notin LastUsed]_vars

(* keepLastNPasswords keeps the journal short whatever overlaps: beyond     *)
(* KeepLast rows there is at most one per change that has inserted its row  *)
(* and not deleted yet.  Not so once a change was cut off in between, or an *)
(* update overlapped, whose snapshot lacks the rows of the other.           *)
Inserted == {h \in Handler : kind[h] = "change" /\ pc[h] \in {"ids", "delete"}}

JournalShort == ~cut /\ "update" \notin overlap =>
                    Cardinality(journal) <= KeepLast + Cardinality(Inserted)

(* The newest row of the journal is the password in effect whenever no      *)
(* change is between its insert and its store.                              *)
JournalTellsCurrent ==
    /\ ~cut
    /\ overlap = {}
    /\ \A h \in Busy : kind[h] = "update" \/ pc[h] \in {"read", "insert"}
    => \E r \in Newest(journal, 1) : r.value = current
=============================================================================
