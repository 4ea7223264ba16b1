--------------------------- MODULE FileshareProofs ---------------------------
(* Proofs about Fileshare: types, the limit of files, who deletes. *)
EXTENDS Fileshare, FiniteSetTheorems, TLAPS

(* The uploads of a user, and his requests that have passed the limits. *)
Owned(u) == {i \in Stored : uploads[i].owner = u}
Pending(u) == {h \in Handler : pc[h] = "insert" /\ user[h] = u}

(* An upload counts from the check on: what the limit was compared with is   *)
(* short of at most the other requests that have passed it by then.          *)
Counted ==
    \A u \in User : Cardinality(Owned(u)) + Cardinality(Pending(u))
                      <= UserFiles + Cardinality(Handler) - 1

(* What insert writes is the file of the request. *)
Received == \A h \in Handler : pc[h] \in {"check", "insert"} => file[h] \in File

IInv == TypeOK /\ Received /\ Counted

-----------------------------------------------------------------------------
LEMMA AnyUserType == AnyUser \in User
BY UserAssumption DEF AnyUser

LEMMA NoneIsNoUpload == \A f \in Upload : f # None
<1> TAKE f \in Upload
<1>1. f.size \in 1..99
  BY SizeAssumption DEF Upload
<1> QED BY <1>1 DEF None

(* The sets that are counted are finite, and a handler pends for one user. *)
LEMMA Finite ==
    ASSUME NEW u
    PROVE  /\ IsFiniteSet(Stored) /\ IsFiniteSet(Owned(u)) /\ IsFiniteSet(Pending(u))
           /\ Cardinality(Stored) \in Nat
           /\ Cardinality(Owned(u)) \in Nat /\ Cardinality(Pending(u)) \in Nat
           /\ Cardinality(Handler) \in Nat
           /\ Cardinality(Pending(u)) <= Cardinality(Handler)
<1>1. /\ Stored \in SUBSET Slot /\ Owned(u) \in SUBSET Slot
      /\ Pending(u) \in SUBSET Handler
  BY DEF Stored, Owned, Pending
<1>2. IsFiniteSet(Stored) /\ IsFiniteSet(Owned(u))
  BY <1>1, FiniteAssumption, FS_Subset
<1>3. IsFiniteSet(Pending(u)) /\ Cardinality(Pending(u)) <= Cardinality(Handler)
  BY <1>1, FiniteAssumption, FS_Subset
<1> QED BY <1>2, <1>3, FiniteAssumption, FS_CardinalityType

(* Whoever uploads sees his own files, so that he is counted. *)
LEMMA OwnersSee ==
    ASSUME TypeOK, NEW u \in User
    PROVE  Owned(u) \in SUBSET SeenBy(u)
<1> SUFFICES ASSUME NEW i \in Owned(u) PROVE i \in SeenBy(u)
  OBVIOUS
<1>1. i \in Stored /\ uploads[i].owner = u
  BY DEF Owned
<1> QED BY <1>1 DEF SeenBy, Sees

-----------------------------------------------------------------------------
LEMMA InitInv == Init => IInv
<1> SUFFICES ASSUME Init PROVE IInv
  OBVIOUS
<1>1. TypeOK
  BY AnyUserType DEF Init, TypeOK
<1>2. Received
  BY DEF Init, Received
<1>3. ASSUME NEW u \in User
      PROVE  Cardinality(Owned(u)) + Cardinality(Pending(u))
               <= UserFiles + Cardinality(Handler) - 1
  <2>1. Owned(u) = {} /\ Pending(u) = {}
    BY DEF Init, Owned, Stored, Pending
  <2>2. Cardinality(Handler) \in Nat
    BY Finite
  <2> QED BY <2>1, <2>2, FS_EmptySet, LimitAssumption
<1> QED BY <1>1, <1>2, <1>3 DEF IInv, Counted

LEMMA AnswerTypes ==
    ASSUME TypeOK, NEW h \in Handler, Answer(h)
    PROVE  /\ pc' \in [Handler -> {"idle", "check", "insert", "find", "remove"}]
           /\ user' \in [Handler -> User]
           /\ file' \in [Handler -> File \cup {None}]
           /\ ids' \in [Handler -> SUBSET Slot]
BY AnyUserType DEF Answer, TypeOK

LEMMA TypesStep == IInv /\ [Next]_vars => TypeOK'
<1> SUFFICES ASSUME IInv, [Next]_vars PROVE TypeOK'
  OBVIOUS
<1> USE DEF IInv
<1>1. ASSUME NEW h \in Handler, Post(h) PROVE TypeOK'
  BY <1>1 DEF Post, TypeOK
<1>2. ASSUME NEW h \in Handler, CheckLimits(h) PROVE TypeOK'
  <2>1. CASE Answer(h)
    BY <1>2, <2>1, AnswerTypes DEF CheckLimits, TypeOK
  <2>2. CASE pc' = [pc EXCEPT ![h] = "insert"] /\ UNCHANGED <<user, file, ids>>
    BY <1>2, <2>2 DEF CheckLimits, TypeOK
  <2> QED BY <1>2, <2>1, <2>2 DEF CheckLimits
<1>3. ASSUME NEW h \in Handler, Insert(h) PROVE TypeOK'
  <2>1. file[h] \in File /\ user[h] \in User
    BY <1>3 DEF Insert, Received, TypeOK
  <2>2. [owner |-> user[h], size |-> file[h].size, ttl |-> file[h].ttl] \in Upload
    BY <2>1, TtlAssumption DEF File, Upload
  <2>3. uploads' \in [Slot -> Upload \cup {None}]
    BY <1>3, <2>2 DEF Insert, TypeOK
  <2> QED BY <1>3, <2>3, AnswerTypes DEF Insert, TypeOK
<1>4. ASSUME NEW h \in Handler, Delete(h) PROVE TypeOK'
  BY <1>4 DEF Delete, TypeOK
<1>5. ASSUME NEW h \in Handler, Find(h) PROVE TypeOK'
  <2>1. CASE Answer(h)
    BY <1>5, <2>1, AnswerTypes DEF Find, TypeOK
  <2>2. CASE pc' = [pc EXCEPT ![h] = "remove"] /\ UNCHANGED <<user, file, ids>>
    BY <1>5, <2>2 DEF Find, TypeOK
  <2> QED BY <1>5, <2>1, <2>2 DEF Find
<1>6. ASSUME NEW h \in Handler, Remove(h) PROVE TypeOK'
  BY <1>6, AnswerTypes DEF Remove, TypeOK
<1>7. ASSUME NEW h \in Handler, Fail(h) PROVE TypeOK'
  BY <1>7, AnswerTypes DEF Fail, TypeOK
<1>8. CASE Cleanup
  BY <1>8 DEF Cleanup, TypeOK
<1>9. CASE Tick
  <2>1. ASSUME NEW i \in Stored, uploads[i].ttl > 0
        PROVE  [uploads[i] EXCEPT !.ttl = @ - 1] \in Upload
    <3>1. uploads[i] \in Upload
      BY DEF Stored, TypeOK
    <3> QED BY <2>1, <3>1 DEF Upload
  <2>2. uploads' \in [Slot -> Upload \cup {None}]
    BY <1>9, <2>1 DEF Tick, TypeOK
  <2> QED BY <1>9, <2>2 DEF Tick, TypeOK
<1>10. CASE DbDown \/ DbUp
  BY <1>10 DEF DbDown, DbUp, TypeOK
<1>11. CASE UNCHANGED vars
  BY <1>11 DEF vars, TypeOK
<1> QED BY <1>1, <1>2, <1>3, <1>4, <1>5, <1>6, <1>7, <1>8, <1>9, <1>10, <1>11 DEF Next

LEMMA ReceivedStep == IInv /\ [Next]_vars => Received'
<1> SUFFICES ASSUME IInv, [Next]_vars PROVE Received'
  OBVIOUS
<1> USE DEF IInv, Received
<1>1. ASSUME NEW h \in Handler, Post(h) PROVE Received'
  BY <1>1 DEF Post, TypeOK
<1>2. ASSUME NEW h \in Handler, CheckLimits(h) PROVE Received'
  BY <1>2 DEF CheckLimits, Answer, TypeOK
<1>3. ASSUME NEW h \in Handler, Insert(h) \/ Remove(h) \/ Fail(h) PROVE Received'
  BY <1>3 DEF Insert, Remove, Fail, Answer, TypeOK
<1>4. ASSUME NEW h \in Handler, Delete(h) \/ Find(h) PROVE Received'
  BY <1>4 DEF Delete, Find, Answer, TypeOK
<1>5. CASE Cleanup \/ Tick \/ DbDown \/ DbUp \/ UNCHANGED vars
  BY <1>5 DEF Cleanup, Tick, DbDown, DbUp, vars
<1> QED BY <1>1, <1>2, <1>3, <1>4, <1>5 DEF Next

-----------------------------------------------------------------------------
(* A step that stores nothing and lets no request pass the limits. *)
LEMMA CountedFalls ==
    ASSUME Counted,
           \A u \in User : Owned(u)' \subseteq Owned(u) /\ Pending(u)' \subseteq Pending(u)
    PROVE  Counted'
<1> SUFFICES ASSUME NEW u \in User
             PROVE  Cardinality(Owned(u)') + Cardinality(Pending(u)')
                      <= UserFiles + Cardinality(Handler) - 1
  BY DEF Counted
<1>1. /\ Owned(u)' \in SUBSET Owned(u) /\ Pending(u)' \in SUBSET Pending(u)
      /\ Cardinality(Owned(u)) + Cardinality(Pending(u))
           <= UserFiles + Cardinality(Handler) - 1
  BY DEF Counted
<1>2. Cardinality(Owned(u)') <= Cardinality(Owned(u)) /\ IsFiniteSet(Owned(u)')
  BY <1>1, Finite, FS_Subset
<1>3. Cardinality(Pending(u)') <= Cardinality(Pending(u)) /\ IsFiniteSet(Pending(u)')
  BY <1>1, Finite, FS_Subset
<1>4. Cardinality(Owned(u)') \in Nat /\ Cardinality(Pending(u)') \in Nat
  BY <1>2, <1>3, FS_CardinalityType
<1> QED BY <1>1, <1>2, <1>3, <1>4, Finite, LimitAssumption

(* An answer takes a request out of those that pend. *)
LEMMA AnswerPending ==
    ASSUME TypeOK, NEW h \in Handler, Answer(h), NEW u
    PROVE  Pending(u)' = Pending(u) \ {h}
BY DEF Answer, Pending, TypeOK

(* The check: his files are fewer than the limit, the requests that pend, *)
(* this one among them, at most all there are.                            *)
LEMMA CheckCounted ==
    ASSUME IInv, NEW h \in Handler, CheckLimits(h)
    PROVE  Counted'
<1> USE DEF IInv
<1>1. \A u : Owned(u)' = Owned(u)
  BY DEF CheckLimits, Owned, Stored
<1>2. CASE Answer(h)
  BY <1>1, <1>2, AnswerPending, CountedFalls
<1>3. CASE ~Answer(h)
  <2>1. /\ ~(Cardinality(SeenBy(user[h])) >= UserFiles)
        /\ pc' = [pc EXCEPT ![h] = "insert"]
        /\ user' = user
    BY <1>3 DEF CheckLimits
  <2> SUFFICES ASSUME NEW u \in User
               PROVE  Cardinality(Owned(u)') + Cardinality(Pending(u)')
                        <= UserFiles + Cardinality(Handler) - 1
    BY DEF Counted
  <2>2. CASE u # user[h]
    <3>1. Pending(u)' = Pending(u)
      BY <2>1, <2>2 DEF Pending, TypeOK
    <3> QED BY <1>1, <3>1 DEF Counted
  <2>3. CASE u = user[h]
    <3>1. SeenBy(u) \in SUBSET Stored /\ Owned(u) \in SUBSET SeenBy(u)
      BY OwnersSee DEF SeenBy
    <3>2. IsFiniteSet(SeenBy(u)) /\ Cardinality(SeenBy(u)) \in Nat
      BY <3>1, Finite, FS_Subset, FS_CardinalityType
    <3>3. Cardinality(Owned(u)) <= Cardinality(SeenBy(u))
      BY <3>1, <3>2, FS_Subset
    <3>4. Pending(u)' \in SUBSET Handler
      BY DEF Pending
    <3>5. Cardinality(Pending(u)') <= Cardinality(Handler) /\ Cardinality(Pending(u)') \in Nat
      BY <3>4, FiniteAssumption, FS_Subset, FS_CardinalityType
    <3> QED BY <1>1, <2>1, <2>3, <3>2, <3>3, <3>5, Finite, LimitAssumption
  <2> QED BY <2>2, <2>3
<1> QED BY <1>2, <1>3

(* The insert: one upload more, one request less that pends. *)
LEMMA InsertCounted ==
    ASSUME IInv, NEW h \in Handler, Insert(h)
    PROVE  Counted'
<1> USE DEF IInv
<1>1. PICK i \in Slot \ Stored :
        uploads' = [uploads EXCEPT ![i] =
                      [owner |-> user[h], size |-> file[h].size, ttl |-> file[h].ttl]]
  BY DEF Insert
<1>2. pc[h] = "insert" /\ Answer(h)
  BY DEF Insert
<1> SUFFICES ASSUME NEW u \in User
             PROVE  Cardinality(Owned(u)') + Cardinality(Pending(u)')
                      <= UserFiles + Cardinality(Handler) - 1
  BY DEF Counted
<1>3. Owned(u)' \subseteq Owned(u) \cup (IF u = user[h] THEN {i} ELSE {})
  <2> SUFFICES ASSUME NEW j \in Owned(u)', j \notin Owned(u)
               PROVE  u = user[h] /\ j = i
    OBVIOUS
  <2>1. j \in Slot /\ uploads'[j] # None /\ uploads'[j].owner = u
    BY DEF Owned, Stored
  <2>2. j = i
    BY <1>1, <2>1 DEF Owned, Stored, TypeOK
  <2>3. uploads'[i].owner = user[h]
    BY <1>1 DEF TypeOK
  <2> QED BY <2>1, <2>2, <2>3
<1>4. Pending(u)' = Pending(u) \ {h}
  BY <1>2, AnswerPending
<1>5. CASE u # user[h]
  <2>1. Owned(u)' \in SUBSET Owned(u) /\ Pending(u)' \in SUBSET Pending(u)
    BY <1>3, <1>4, <1>5
  <2>2. /\ Cardinality(Owned(u)') <= Cardinality(Owned(u)) /\ IsFiniteSet(Owned(u)')
        /\ Cardinality(Pending(u)') <= Cardinality(Pending(u)) /\ IsFiniteSet(Pending(u)')
    BY <2>1, Finite, FS_Subset
  <2>3. Cardinality(Owned(u)') \in Nat /\ Cardinality(Pending(u)') \in Nat
    BY <2>2, FS_CardinalityType
  <2> QED BY <2>2, <2>3, Finite, LimitAssumption DEF Counted
<1>6. CASE u = user[h]
  <2>1. h \in Pending(u)
    BY <1>2, <1>6 DEF Pending
  <2>2. Cardinality(Pending(u)') = Cardinality(Pending(u)) - 1
    BY <1>4, <2>1, Finite, FS_RemoveElement
  <2>3. i \notin Owned(u)
    BY <1>1 DEF Owned
  <2>4. /\ IsFiniteSet(Owned(u) \cup {i})
        /\ Cardinality(Owned(u) \cup {i}) = Cardinality(Owned(u)) + 1
    BY <2>3, Finite, FS_AddElement
  <2>5. Owned(u)' \in SUBSET (Owned(u) \cup {i})
    BY <1>3
  <2>6. Cardinality(Owned(u)') <= Cardinality(Owned(u) \cup {i}) /\ IsFiniteSet(Owned(u)')
    BY <2>4, <2>5, FS_Subset
  <2>7. Cardinality(Owned(u)') \in Nat
    BY <2>6, FS_CardinalityType
  <2> QED BY <2>2, <2>4, <2>6, <2>7, Finite, LimitAssumption DEF Counted
<1> QED BY <1>5, <1>6

LEMMA CountedStep == IInv /\ [Next]_vars => Counted'
<1> SUFFICES ASSUME IInv, [Next]_vars PROVE Counted'
  OBVIOUS
<1> USE DEF IInv
<1>1. ASSUME NEW h \in Handler, CheckLimits(h) PROVE Counted'
  BY <1>1, CheckCounted
<1>2. ASSUME NEW h \in Handler, Insert(h) PROVE Counted'
  BY <1>2, InsertCounted
<1>3. ASSUME NEW h \in Handler, Post(h) \/ Delete(h) PROVE Counted'
  <2>1. \A u \in User : Owned(u)' \subseteq Owned(u) /\ Pending(u)' \subseteq Pending(u)
    BY <1>3 DEF Post, Delete, Owned, Stored, Pending, TypeOK
  <2> QED BY <2>1, CountedFalls
<1>4. ASSUME NEW h \in Handler, Find(h) PROVE Counted'
  <2>1. \A u \in User : Owned(u)' \subseteq Owned(u)
    BY <1>4 DEF Find, Owned, Stored
  <2>2. \A u \in User : Pending(u)' \subseteq Pending(u)
    <3>1. CASE Answer(h)
      BY <3>1, AnswerPending
    <3>2. CASE pc' = [pc EXCEPT ![h] = "remove"] /\ user' = user
      BY <3>2 DEF Pending, TypeOK
    <3> QED BY <1>4, <3>1, <3>2 DEF Find
  <2> QED BY <2>1, <2>2, CountedFalls
<1>5. ASSUME NEW h \in Handler, Remove(h) \/ Fail(h) PROVE Counted'
  <2>1. \A u \in User : Owned(u)' \subseteq Owned(u)
    BY <1>5 DEF Remove, Fail, Owned, Stored, TypeOK
  <2>2. \A u \in User : Pending(u)' \subseteq Pending(u)
    BY <1>5, AnswerPending DEF Remove, Fail
  <2> QED BY <2>1, <2>2, CountedFalls
<1>6. CASE Cleanup \/ DbDown \/ DbUp \/ UNCHANGED vars
  <2>1. \A u \in User : Owned(u)' \subseteq Owned(u) /\ Pending(u)' \subseteq Pending(u)
    BY <1>6 DEF Cleanup, DbDown, DbUp, vars, Owned, Stored, Pending, TypeOK
  <2> QED BY <2>1, CountedFalls
<1>7. CASE Tick
  <2>1. ASSUME NEW u \in User PROVE Owned(u)' \subseteq Owned(u)
    <3> SUFFICES ASSUME NEW i \in Owned(u)' PROVE i \in Owned(u)
      OBVIOUS
    <3>1. i \in Slot /\ uploads'[i] # None /\ uploads'[i].owner = u
      BY DEF Owned, Stored
    <3>2. CASE i \in Stored /\ uploads[i].ttl > 0
      <4>1. uploads'[i] = [uploads[i] EXCEPT !.ttl = @ - 1] /\ uploads[i] \in Upload
        BY <1>7, <3>2 DEF Tick, Stored, TypeOK
      <4>2. uploads[i].owner = u
        BY <3>1, <4>1 DEF Upload
      <4> QED BY <3>2, <4>2 DEF Owned
    <3>3. CASE ~(i \in Stored /\ uploads[i].ttl > 0)
      BY <1>7, <3>1, <3>3 DEF Tick, Owned, Stored
    <3> QED BY <3>2, <3>3
  <2>2. \A u \in User : Pending(u)' = Pending(u)
    BY <1>7 DEF Tick, Pending
  <2> QED BY <2>1, <2>2, CountedFalls
<1> QED BY <1>1, <1>2, <1>3, <1>4, <1>5, <1>6, <1>7 DEF Next

-----------------------------------------------------------------------------
(* The inductive invariant. *)
LEMMA InvCorrect == Spec => []IInv
<1>1. IInv /\ [Next]_vars => IInv'
  BY TypesStep, ReceivedStep, CountedStep DEF IInv
<1> QED BY InitInv, <1>1, PTL DEF Spec

(* Rows and requests keep their types: in particular an upload always has *)
(* an owner and an expiry, whatever the order of requests.                *)
THEOREM TypeCorrect == Spec => []TypeOK
<1>1. IInv => TypeOK
  BY DEF IInv
<1> QED BY <1>1, InvCorrect, PTL

(* The limit of files holds but for the other requests in flight (create, *)
(* 75-112), for any number of requests and any limit.                     *)
THEOREM LimitCorrect == Spec => []FilesBounded
<1>1. IInv => FilesBounded
  <2> SUFFICES ASSUME IInv, NEW u \in User
               PROVE  Cardinality(Owned(u)) <= UserFiles + Cardinality(Handler) - 1
    BY DEF FilesBounded, Owned
  <2>1. Cardinality(Owned(u)) + Cardinality(Pending(u))
          <= UserFiles + Cardinality(Handler) - 1
    BY DEF IInv, Counted
  <2> QED BY <2>1, Finite, LimitAssumption
<1> QED BY <1>1, InvCorrect, PTL

-----------------------------------------------------------------------------
(* A DELETE takes the files its user sees (delete, 162-169). *)
LEMMA RemoveAllowed ==
    ASSUME TypeOK, NEW h \in Handler, Remove(h), NEW i \in Stored, uploads'[i] = None
    PROVE  /\ pc[h] = "remove" /\ pc'[h] = "idle" /\ i \in ids[h]
           /\ \/ user[h].role \notin {"reseller", "ccare", "subscriber"}
              \/ /\ user[h].role \in {"reseller", "ccare"}
                 /\ user[h].reseller = uploads[i].owner.reseller
              \/ user[h] = uploads[i].owner
<1>1. pc[h] = "remove" /\ pc'[h] = "idle"
  BY DEF Remove, Answer, TypeOK
<1>2. i \in ids[h] /\ i \in SeenBy(user[h])
  BY DEF Remove, Stored
<1>3. Sees(user[h], uploads[i])
  BY <1>2 DEF SeenBy
<1>4. user[h] \in User /\ uploads[i].owner \in User
  BY DEF Stored, TypeOK, Upload
<1> QED BY <1>1, <1>2, <1>3, <1>4, SubscriberAssumption DEF Sees

(* Nothing but such a DELETE takes a file that has time left: neither the   *)
(* timer, however late, nor another upload (fileshare.schedule.ts 18-31).   *)
THEOREM DeletesCorrect == Spec => KeptUntilDeleted
<1> DEFINE Allowed(i) ==
      \E h \in Handler :
               /\ pc[h] = "remove" /\ pc'[h] = "idle" /\ i \in ids[h]
               /\ \/ user[h].role \notin {"reseller", "ccare", "subscriber"}
                  \/ /\ user[h].role \in {"reseller", "ccare"}
                     /\ user[h].reseller = uploads[i].owner.reseller
                  \/ user[h] = uploads[i].owner
<1> DEFINE Kept == \A i \in Stored : uploads'[i] = None /\ uploads[i].ttl > 0 => Allowed(i)
<1>1. IInv /\ [Next]_vars => [Kept]_vars
  <2> SUFFICES ASSUME IInv, Next,
                      NEW i \in Stored, uploads'[i] = None, uploads[i].ttl > 0
               PROVE  Allowed(i)
    OBVIOUS
  <2>1. i \in Slot /\ uploads[i] # None /\ uploads[i] \in Upload
    BY DEF IInv, Stored, TypeOK
  <2>2. ASSUME NEW h \in Handler, Remove(h) PROVE Allowed(i)
    BY <2>2, RemoveAllowed DEF IInv
  <2>3. uploads' # uploads
    BY <2>1
  <2>4. ASSUME NEW h \in Handler, Insert(h) PROVE FALSE
    BY <2>1, <2>4 DEF Insert, IInv, TypeOK
  <2>5. CASE Cleanup
    BY <2>1, <2>5 DEF Cleanup
  <2>6. CASE Tick
    <3>1. uploads'[i] = [uploads[i] EXCEPT !.ttl = @ - 1]
      BY <2>1, <2>6 DEF Tick
    <3>2. uploads'[i] \in Upload
      BY <2>1, <3>1 DEF Upload
    <3> QED BY <3>2, NoneIsNoUpload
  <2>7. ASSUME NEW h \in Handler,
               Post(h) \/ CheckLimits(h) \/ Delete(h) \/ Find(h) \/ Fail(h)
        PROVE  FALSE
    BY <2>3, <2>7 DEF Post, CheckLimits, Delete, Find, Fail
  <2>8. CASE DbDown \/ DbUp
    BY <2>3, <2>8 DEF DbDown, DbUp
  <2> QED BY <2>2, <2>4, <2>5, <2>6, <2>7, <2>8 DEF Next
<1>2. Spec => [][Kept]_vars
  BY <1>1, InvCorrect, PTL DEF Spec
<1> QED BY <1>2 DEF KeptUntilDeleted
=============================================================================
