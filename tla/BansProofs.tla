------------------------------ MODULE BansProofs ------------------------------
(***************************************************************************)
(* Proofs about the two kinds of bans.  About LoginBan, for any set of     *)
(* accounts, origins, requests and operators and any configured limits:    *)
(* its types, that no ban is left without an expiry but by a handler cut   *)
(* off before EXPIRE, that a ban in force shows in the user's row, and how *)
(* many failures a counter records before it bans, however many requests   *)
(* guess at once.                                                          *)
(*                                                                         *)
(* About ProxyBans: types, that a removal is sent only of what a proxy     *)
(* reported, and that a ban which was reported deleted is gone unless one  *)
(* of three things happened.  The invariant behind the second is that the  *)
(* value of a call, once it is there, names proxies that ran the task, and *)
(* what these dumped does not change any more; the third needs besides     *)
(* what a request has seen of each of its bans so far.  Last, that the     *)
(* calls of requests are those of TaskCall.                                *)
(***************************************************************************)
EXTENDS LoginBan, ProxyBans, FiniteSetTheorems, TLAPS

-----------------------------------------------------------------------------
\* LoginBan

(* Handlers that ban do so for a user with a row: the lookup found it. *)
BanningKnown ==
    \A r \in Request : pc[r] \in Banning => key[r][1] \in Account \ Unknown

IInv == TypeOK /\ BanningKnown /\ BanHasExpiry /\ BanVisible

(* The length of a ban is positive and at most MaxTime (ban, 373). *)
LEMMA BanTimeRange == ASSUME NEW s \in Nat PROVE BanTime(s) \in 1 .. MaxTime
<1>1. s * Increment \in Nat
  BY TimeAssumption
<1>2. \A i \in Nat : MinTime + i \in Nat \ {0}
  BY TimeAssumption
<1>3. MinTime + s * Increment \in Nat \ {0}
  BY <1>1, <1>2
<1>4. QED
  BY <1>3, TimeAssumption DEF BanTime

(* What ends a request, a step of one, and a step of an operator do to the types. *)
LEMMA AnswerType ==
    ASSUME TypeOK, NEW r \in Request, Answer(r)
    PROVE  /\ pc' \in [Request -> RequestPc]
           /\ key' \in [Request -> Key \cup {None}]
           /\ \A q \in Request : pc'[q] # "idle" => key'[q] \in Key
           /\ seen' \in [Request -> Nat]
BY DEF TypeOK, Answer, Goto, RequestPc

LEMMA StepType ==
    ASSUME TypeOK, NEW r \in Request, NEW l \in RequestPc, pc[r] # "idle", Step(r, l)
    PROVE  /\ pc' \in [Request -> RequestPc]
           /\ key' \in [Request -> Key \cup {None}]
           /\ \A q \in Request : pc'[q] # "idle" => key'[q] \in Key
           /\ key[r] \in Key
BY DEF TypeOK, Step, Goto

LEMMA OpStepType ==
    ASSUME TypeOK, NEW o \in Operator, NEW l \in OperatorPc, opc[o] # "idle",
           OpStep(o, l)
    PROVE  /\ opc' \in [Operator -> OperatorPc]
           /\ target' \in [Operator -> Account \cup {None}]
           /\ \A p \in Operator : opc'[p] # "idle" => target'[p] \in Account
BY DEF TypeOK, OpStep

LEMMA OpAnswerType ==
    ASSUME TypeOK, NEW o \in Operator, OpAnswer(o)
    PROVE  /\ opc' \in [Operator -> OperatorPc]
           /\ target' \in [Operator -> Account \cup {None}]
           /\ \A p \in Operator : opc'[p] # "idle" => target'[p] \in Account
           /\ found' \in [Operator -> SUBSET Key]
BY DEF TypeOK, OpAnswer, OperatorPc

LEMMA ForgetType ==
    ASSUME TypeOK, NEW k \in Key, ForgetAttempts(k)
    PROVE  /\ attempts' \in [Key -> Nat]
           /\ failTtl' \in [Key -> 0 .. MaxTime]
           /\ window' \in [Key -> Nat]
BY TimeAssumption DEF TypeOK, ForgetAttempts

LEMMA InitType == Init => TypeOK
BY TimeAssumption DEF Init, TypeOK, RequestPc, OperatorPc

(* Every step keeps the types. *)
LEMMA NextType == TypeOK /\ [Next]_vars => TypeOK'
<1> SUFFICES ASSUME TypeOK, [Next]_vars PROVE TypeOK'
  OBVIOUS
<1> USE DEF redis, request, operator, history
<1>1. ASSUME NEW r \in Request, NEW k \in Key, Admit(r, k) PROVE TypeOK'
  BY <1>1 DEF Admit, Goto, TypeOK, RequestPc
<1>2. ASSUME NEW r \in Request, Validate(r) PROVE TypeOK'
  <2>1. CASE Step(r, "read") /\ UNCHANGED seen
    BY <1>2, <2>1, StepType DEF Validate, TypeOK, RequestPc
  <2>2. CASE Step(r, "clear") /\ UNCHANGED seen
    BY <1>2, <2>2, StepType DEF Validate, TypeOK, RequestPc
  <2>3. CASE Answer(r)
    BY <1>2, <2>3, AnswerType DEF Validate, TypeOK
  <2>4. QED
    BY <1>2, <2>1, <2>2, <2>3 DEF Validate
<1>3. ASSUME NEW r \in Request, ReadAttempts(r) PROVE TypeOK'
  <2>1. key[r] \in Key
    BY <1>3 DEF ReadAttempts, TypeOK
  <2>2. attempts[key[r]] + 1 \in Nat
    BY <2>1 DEF TypeOK
  <2>3. seen' \in [Request -> Nat]
    BY <1>3, <2>2 DEF ReadAttempts, TypeOK
  <2>4. QED
    BY <1>3, <2>3, StepType DEF ReadAttempts, TypeOK, RequestPc
<1>4. ASSUME NEW r \in Request, CountAttempt(r) PROVE TypeOK'
  <2>1. key[r] \in Key
    BY <1>4 DEF CountAttempt, TypeOK
  <2>2. attempts' \in [Key -> Nat] /\ window' \in [Key -> Nat]
    BY <1>4, <2>1 DEF CountAttempt, TypeOK
  <2>3. failTtl' \in [Key -> 0 .. MaxTime]
    BY <1>4, <2>1, TimeAssumption DEF CountAttempt, TypeOK
  <2>4. QED
    BY <1>4, <2>2, <2>3, AnswerType DEF CountAttempt, TypeOK
<1>5. ASSUME NEW r \in Request, LookupStage(r) PROVE TypeOK'
  <2>1. CASE Answer(r)
    BY <1>5, <2>1, AnswerType DEF LookupStage, TypeOK
  <2>2. CASE Step(r, "hset") /\ seen' = [seen EXCEPT ![r] = stage[key[r][1]]]
    <3>1. key[r] \in Key
      BY <1>5 DEF LookupStage, TypeOK
    <3>2. stage[key[r][1]] \in Nat
      BY <3>1 DEF TypeOK, Key
    <3>3. seen' \in [Request -> Nat]
      BY <2>2, <3>2 DEF TypeOK
    <3>4. QED
      BY <1>5, <2>2, <3>3, StepType DEF LookupStage, TypeOK, RequestPc
  <2>3. QED
    BY <1>5, <2>1, <2>2 DEF LookupStage
<1>6. ASSUME NEW r \in Request, SetBan(r) PROVE TypeOK'
  BY <1>6, StepType DEF SetBan, TypeOK, RequestPc
<1>7. ASSUME NEW r \in Request, ExpireBan(r) PROVE TypeOK'
  <2>1. BanTime(seen[r]) \in 0 .. MaxTime
    BY BanTimeRange, TimeAssumption DEF TypeOK
  <2>2. banTtl' \in [Key -> 0 .. MaxTime]
    BY <1>7, <2>1 DEF ExpireBan, TypeOK
  <2>3. QED
    BY <1>7, <2>2, StepType DEF ExpireBan, TypeOK, RequestPc
<1>8. ASSUME NEW r \in Request, DeleteFailKey(r) PROVE TypeOK'
  BY <1>8, StepType, ForgetType DEF DeleteFailKey, TypeOK, RequestPc
<1>9. ASSUME NEW r \in Request, StoreStage(r) PROVE TypeOK'
  <2>1. stage' \in [Account -> Nat]
    BY <1>9 DEF StoreStage, TypeOK
  <2>2. QED
    BY <1>9, <2>1, AnswerType DEF StoreStage, TypeOK
<1>10. ASSUME NEW r \in Request, ClearAttempts(r) PROVE TypeOK'
  BY <1>10, StepType, ForgetType DEF ClearAttempts, TypeOK, RequestPc
<1>11. ASSUME NEW r \in Request, ResetStage(r) PROVE TypeOK'
  <2>1. stage' \in [Account -> Nat] /\ excused' \subseteq Key
    BY <1>11 DEF ResetStage, TypeOK
  <2>2. QED
    BY <1>11, <2>1, AnswerType DEF ResetStage, TypeOK
<1>12. ASSUME NEW r \in Request, Abort(r) PROVE TypeOK'
  <2>1. stuck' \subseteq Key /\ excused' \subseteq Key
    BY <1>12 DEF Abort, TypeOK
  <2>2. QED
    BY <1>12, <2>1, AnswerType DEF Abort, TypeOK
<1>13. ASSUME NEW o \in Operator, NEW a \in Account, OpFilter(o, a) PROVE TypeOK'
  BY <1>13 DEF OpFilter, TypeOK, OperatorPc
<1>14. ASSUME NEW o \in Operator, OpVisible(o) PROVE TypeOK'
  <2>1. CASE OpStep(o, "find") /\ UNCHANGED found
    BY <1>14, <2>1, OpStepType DEF OpVisible, TypeOK, OperatorPc
  <2>2. CASE OpAnswer(o)
    BY <1>14, <2>2, OpAnswerType DEF OpVisible, TypeOK
  <2>3. QED
    BY <1>14, <2>1, <2>2 DEF OpVisible
<1>15. ASSUME NEW o \in Operator, OpFind(o) PROVE TypeOK'
  <2>1. PICK ks \in ScanResult(banned \cap KeysOf(target[o])) :
            IF ks = {} THEN OpAnswer(o)
            ELSE OpStep(o, "del") /\ found' = [found EXCEPT ![o] = ks]
    BY <1>15 DEF OpFind
  <2>2. ks \subseteq Key
    BY DEF ScanResult, TypeOK
  <2>3. CASE OpAnswer(o)
    BY <1>15, <2>3, OpAnswerType DEF OpFind, TypeOK
  <2>4. CASE OpStep(o, "del") /\ found' = [found EXCEPT ![o] = ks]
    <3>1. found' \in [Operator -> SUBSET Key]
      BY <2>2, <2>4 DEF TypeOK
    <3>2. QED
      BY <1>15, <2>4, <3>1, OpStepType DEF OpFind, TypeOK, OperatorPc
  <2>5. QED
    BY <2>1, <2>3, <2>4
<1>16. ASSUME NEW o \in Operator, OpDelete(o) PROVE TypeOK'
  <2>1. banTtl' \in [Key -> 0 .. MaxTime]
    BY <1>16, TimeAssumption DEF OpDelete, TypeOK
  <2>2. QED
    BY <1>16, <2>1, OpStepType DEF OpDelete, TypeOK, OperatorPc
<1>17. ASSUME NEW o \in Operator, OpReset(o) PROVE TypeOK'
  <2>1. stage' \in [Account -> Nat] /\ excused' \subseteq Key
    BY <1>17 DEF OpReset, TypeOK
  <2>2. QED
    BY <1>17, <2>1, OpAnswerType DEF OpReset, TypeOK
<1>18. ASSUME NEW o \in Operator, OpAbort(o) PROVE TypeOK'
  BY <1>18, OpAnswerType DEF OpAbort, TypeOK
<1>19. ASSUME Tick PROVE TypeOK'
  <2>1. /\ attempts' \in [Key -> Nat] /\ window' \in [Key -> Nat]
        /\ failTtl' \in [Key -> 0 .. MaxTime] /\ banTtl' \in [Key -> 0 .. MaxTime]
    BY <1>19, TimeAssumption DEF Tick, TypeOK
  <2>2. QED
    BY <1>19, <2>1 DEF Tick, TypeOK
<1>20. CASE UNCHANGED vars
  BY <1>20 DEF vars, TypeOK
<1>21. QED
  BY <1>1, <1>2, <1>3, <1>4, <1>5, <1>6, <1>7, <1>8, <1>9, <1>10, <1>11, <1>12,
     <1>13, <1>14, <1>15, <1>16, <1>17, <1>18, <1>19, <1>20
     DEF Next, RequestStep, OperatorStep

(* Only a handler that found a row sets a ban. *)
LEMMA NextKnown == TypeOK /\ BanningKnown /\ [Next]_vars => BanningKnown'
<1> SUFFICES ASSUME TypeOK, BanningKnown, [Next]_vars, NEW q \in Request,
                    pc'[q] \in Banning
             PROVE  key'[q][1] \in Account \ Unknown
  BY DEF BanningKnown
<1> USE DEF redis, request, operator, history
<1>1. CASE pc'[q] = pc[q] /\ key'[q] = key[q]
  BY <1>1 DEF BanningKnown
<1>2. CASE \E r \in Request : RequestStep(r)
  <2>1. PICK r \in Request : RequestStep(r)
    BY <1>2
  <2>2. CASE q # r
    BY <1>1, <2>1, <2>2 DEF TypeOK, RequestStep, Validate, ReadAttempts, CountAttempt,
       LookupStage, SetBan, ExpireBan, DeleteFailKey, StoreStage, ClearAttempts,
       ResetStage, Step, Answer, Goto
  <2>3. CASE q = r /\ pc[r] \in Banning
    BY <2>1, <2>3 DEF TypeOK, RequestStep, Validate, ReadAttempts, CountAttempt,
       LookupStage, SetBan, ExpireBan, DeleteFailKey, StoreStage, ClearAttempts,
       ResetStage, Step, Answer, Goto, Banning, BanningKnown
  <2>4. CASE q = r /\ pc[r] \notin Banning
    <3>1. LookupStage(r) /\ Step(r, "hset") /\ key[r][1] \notin Unknown
      BY <2>1, <2>4 DEF TypeOK, RequestStep, Validate, ReadAttempts, CountAttempt,
         LookupStage, SetBan, ExpireBan, DeleteFailKey, StoreStage, ClearAttempts,
         ResetStage, Step, Answer, Goto, Banning
    <3>2. QED
      BY <2>4, <3>1 DEF LookupStage, Step, TypeOK, Key
  <2>5. QED
    BY <2>2, <2>3, <2>4
<1>3. CASE \E r \in Request : Abort(r) \/ \E k \in Key : Admit(r, k)
  BY <1>1, <1>3 DEF TypeOK, Abort, Admit, Answer, Goto, Banning
<1>4. CASE UNCHANGED request
  BY <1>1, <1>4
<1>5. QED
  BY <1>2, <1>3, <1>4
     DEF Next, vars, OperatorStep, OpFilter, OpVisible, OpFind, OpDelete, OpReset, OpAbort,
         Tick

(* A ban key without a time to live stays one that is about to get it, or that *)
(* an Abort left; every other step leaves it alone or gives it one.            *)
LEMMA NextHasExpiry == TypeOK /\ BanHasExpiry /\ [Next]_vars => BanHasExpiry'
<1> SUFFICES ASSUME TypeOK, BanHasExpiry, [Next]_vars, NEW k \in banned',
                    banTtl'[k] = 0
             PROVE  k \in stuck' \/ \E q \in Request : pc'[q] = "expire" /\ key'[q] = k
  BY DEF BanHasExpiry
<1> USE DEF redis, request, operator, history
<1> DEFINE Waiting == \E q \in Request : pc[q] = "expire" /\ key[q] = k
           WaitingNext == \E q \in Request : pc'[q] = "expire" /\ key'[q] = k
<1>1. CASE /\ k \in banned /\ banTtl[k] = 0
           /\ stuck \subseteq stuck'
           /\ Waiting => WaitingNext
  BY <1>1 DEF BanHasExpiry
<1>2. ASSUME NEW r \in Request, SetBan(r) PROVE k \in stuck' \/ WaitingNext
  <2>1. CASE k = key[r]
    BY <1>2, <2>1 DEF SetBan, Step, Goto, TypeOK
  <2>2. CASE k # key[r]
    <3>1. Waiting => WaitingNext
      BY <1>2 DEF SetBan, Step, Goto, TypeOK
    <3>2. QED
      BY <1>1, <1>2, <2>2, <3>1 DEF SetBan
  <2>3. QED
    BY <2>1, <2>2
<1>3. ASSUME NEW r \in Request, ExpireBan(r) PROVE k \in stuck' \/ WaitingNext
  <2>1. BanTime(seen[r]) # 0
    BY BanTimeRange DEF TypeOK
  <2>2. k # key[r] /\ banTtl[k] = 0 /\ k \in banned
    BY <1>3, <2>1 DEF ExpireBan, TypeOK
  <2>3. Waiting => WaitingNext
    BY <1>3, <2>2 DEF ExpireBan, Step, Goto, TypeOK
  <2>4. QED
    BY <1>3, <2>2, <2>3 DEF ExpireBan, BanHasExpiry
<1>4. ASSUME NEW r \in Request, Abort(r) PROVE k \in stuck' \/ WaitingNext
  <2>1. k \in banned /\ banTtl[k] = 0
    BY <1>4 DEF Abort
  <2>2. CASE pc[r] = "expire" /\ key[r] = k
    BY <1>4, <2>1, <2>2 DEF Abort
  <2>3. CASE ~(pc[r] = "expire" /\ key[r] = k)
    <3>1. Waiting => WaitingNext
      BY <1>4, <2>3 DEF Abort, Answer, Goto, TypeOK
    <3>2. stuck \subseteq stuck'
      BY <1>4 DEF Abort
    <3>3. QED
      BY <1>1, <2>1, <3>1, <3>2
  <2>4. QED
    BY <2>2, <2>3
<1>5. ASSUME NEW r \in Request, NEW l \in Key, Admit(r, l)
      PROVE  k \in stuck' \/ WaitingNext
  BY <1>1, <1>5 DEF Admit, Goto, TypeOK
<1>6. ASSUME NEW r \in Request,
             RequestStep(r), ~SetBan(r), ~ExpireBan(r)
      PROVE  k \in stuck' \/ WaitingNext
  <2>1. pc[r] # "expire" /\ UNCHANGED <<banned, banTtl, stuck>>
    BY <1>6 DEF RequestStep, Validate, ReadAttempts, CountAttempt, LookupStage,
       DeleteFailKey, StoreStage, ClearAttempts, ResetStage, ExpireBan, SetBan
  <2>2. \A q \in Request : q # r => pc'[q] = pc[q] /\ key'[q] = key[q]
    BY <1>6 DEF RequestStep, Validate, ReadAttempts, CountAttempt, LookupStage,
       DeleteFailKey, StoreStage, ClearAttempts, ResetStage, Step, Answer, Goto, TypeOK
  <2>3. QED
    BY <1>1, <2>1, <2>2
<1>7. ASSUME NEW o \in Operator, OpDelete(o) PROVE k \in stuck' \/ WaitingNext
  <2>1. k \in banned /\ k \notin found[o] /\ banTtl[k] = 0
    BY <1>7 DEF OpDelete, TypeOK
  <2>2. QED
    BY <1>7, <2>1 DEF OpDelete, BanHasExpiry
<1>8. ASSUME Tick PROVE k \in stuck' \/ WaitingNext
  <2>1. k \in banned /\ k \notin EndsNow(banTtl) /\ k \in Key
    BY <1>8 DEF Tick, TypeOK
  <2>2. banTtl[k] = 0
    BY <1>8, <2>1 DEF Tick, EndsNow, TypeOK
  <2>3. QED
    BY <1>1, <1>8, <2>1, <2>2 DEF Tick
<1>9. CASE UNCHANGED <<banned, banTtl, stuck, request>>
  BY <1>1, <1>9
<1>10. QED
  BY <1>2, <1>3, <1>4, <1>5, <1>6, <1>7, <1>8, <1>9
     DEF Next, vars, OperatorStep, OpFilter, OpVisible, OpFind, OpReset, OpAbort

(* Rows leave stage 0 for good but by a reset, and a reset excuses the bans of *)
(* its user; so does an Abort before the stage of a new ban was stored.        *)
LEMMA NextVisible ==
    TypeOK /\ BanningKnown /\ BanVisible /\ [Next]_vars => BanVisible'
<1> SUFFICES ASSUME TypeOK, BanningKnown, BanVisible, [Next]_vars
             PROVE  BanVisible'
  OBVIOUS
<1>a. TypeOK'
  BY NextType
<1>b. banned' \subseteq Key
  BY <1>a DEF TypeOK
<1> SUFFICES ASSUME NEW k \in Key, k \in banned'
             PROVE  \/ stage'[k[1]] > 0
                    \/ k \in excused'
                    \/ \E q \in Request : /\ pc'[q] \in {"expire", "delfail", "store"}
                                         /\ key'[q] = k
  BY <1>b DEF BanVisible
<1> USE DEF redis, request, operator, history
<1> DEFINE Waiting == \E q \in Request : /\ pc[q] \in {"expire", "delfail", "store"}
                                         /\ key[q] = k
           WaitingNext == \E q \in Request : /\ pc'[q] \in {"expire", "delfail", "store"}
                                             /\ key'[q] = k
           Goal == stage'[k[1]] > 0 \/ k \in excused' \/ WaitingNext
<1>0. k[1] \in Account
  BY DEF Key
<1>1. CASE /\ k \in banned
           /\ stage[k[1]] > 0 => stage'[k[1]] > 0
           /\ k \in excused => k \in excused'
           /\ Waiting => WaitingNext
  BY <1>1 DEF BanVisible
<1>2. ASSUME NEW r \in Request, SetBan(r) PROVE Goal
  <2>1. CASE k = key[r]
    BY <1>2, <2>1 DEF SetBan, Step, Goto, TypeOK
  <2>2. CASE k # key[r]
    <3>1. Waiting => WaitingNext
      BY <1>2 DEF SetBan, Step, Goto, TypeOK
    <3>2. QED
      BY <1>1, <1>2, <2>2, <3>1 DEF SetBan
  <2>3. QED
    BY <2>1, <2>2
<1>3. ASSUME NEW r \in Request, ExpireBan(r) \/ DeleteFailKey(r) PROVE Goal
  <2>1. Waiting => WaitingNext
    BY <1>3 DEF ExpireBan, DeleteFailKey, Step, Goto, TypeOK
  <2>2. QED
    BY <1>1, <1>3, <2>1 DEF ExpireBan, DeleteFailKey
<1>4. ASSUME NEW r \in Request, StoreStage(r) PROVE Goal
  <2>1. seen[r] + 1 > 0
    BY DEF TypeOK
  <2>2. CASE key[r] = k
    <3>1. k[1] \in SameName(k[1])
      BY <1>0, <1>4, <2>2 DEF StoreStage, BanningKnown, Banning, SameName
    <3>2. QED
      BY <1>0, <1>4, <2>1, <2>2, <3>1 DEF StoreStage
  <2>3. CASE key[r] # k
    <3>1. Waiting => WaitingNext
      BY <1>4, <2>3 DEF StoreStage, Answer, Goto, TypeOK
    <3>2. stage[k[1]] > 0 => stage'[k[1]] > 0
      BY <1>0, <1>4, <2>1 DEF StoreStage
    <3>3. QED
      BY <1>1, <1>4, <3>1, <3>2 DEF StoreStage
  <2>4. QED
    BY <2>2, <2>3
<1>5. ASSUME NEW r \in Request, ResetStage(r) PROVE Goal
  <2>1. key[r] \in Key /\ k \in banned
    BY <1>5 DEF ResetStage, TypeOK
  <2>2. CASE k[1] \in SameName(key[r][1])
    BY <1>5, <2>1, <2>2 DEF ResetStage, KeysOfName, Key
  <2>3. CASE k[1] \notin SameName(key[r][1])
    <3>1. Waiting => WaitingNext
      BY <1>5 DEF ResetStage, Answer, Goto, TypeOK
    <3>2. stage'[k[1]] = stage[k[1]]
      BY <1>0, <1>5, <2>3 DEF ResetStage
    <3>3. QED
      BY <1>1, <1>5, <2>1, <3>1, <3>2 DEF ResetStage
  <2>4. QED
    BY <2>2, <2>3
<1>6. ASSUME NEW r \in Request,
             Validate(r) \/ ReadAttempts(r) \/ CountAttempt(r) \/ LookupStage(r)
                \/ ClearAttempts(r)
      PROVE  Goal
  <2>1. /\ pc[r] \notin {"expire", "delfail", "store"}
        /\ UNCHANGED <<banned, stage, excused>>
    BY <1>6 DEF Validate, ReadAttempts, CountAttempt, LookupStage, ClearAttempts
  <2>2. \A q \in Request : q # r => pc'[q] = pc[q] /\ key'[q] = key[q]
    BY <1>6 DEF Validate, ReadAttempts, CountAttempt, LookupStage, ClearAttempts, Step,
       Answer, Goto, TypeOK
  <2>3. QED
    BY <1>1, <2>1, <2>2
<1>7. ASSUME NEW r \in Request, Abort(r) PROVE Goal
  <2>1. k \in banned
    BY <1>7 DEF Abort
  <2>2. CASE pc[r] \in {"expire", "delfail", "store"} /\ key[r] = k
    BY <1>7, <2>1, <2>2 DEF Abort
  <2>3. CASE ~(pc[r] \in {"expire", "delfail", "store"} /\ key[r] = k)
    <3>1. Waiting => WaitingNext
      BY <1>7, <2>3 DEF Abort, Answer, Goto, TypeOK
    <3>2. excused \subseteq excused' /\ stage' = stage
      BY <1>7 DEF Abort
    <3>3. QED
      BY <1>1, <2>1, <3>1, <3>2
  <2>4. QED
    BY <2>2, <2>3
<1>8. ASSUME NEW r \in Request, NEW l \in Key, Admit(r, l) PROVE Goal
  BY <1>1, <1>8 DEF Admit, Goto, TypeOK
<1>9. ASSUME NEW o \in Operator, OpDelete(o) PROVE Goal
  <2>1. k \in banned /\ k \notin found[o]
    BY <1>9 DEF OpDelete
  <2>2. QED
    BY <1>1, <1>9, <2>1 DEF OpDelete
<1>10. ASSUME NEW o \in Operator, OpReset(o) PROVE Goal
  <2>1. k \in banned /\ target[o] \in Account
    BY <1>10 DEF OpReset, TypeOK
  <2>2. CASE k[1] = target[o]
    BY <1>10, <2>1, <2>2 DEF OpReset, KeysOf, Key
  <2>3. CASE k[1] # target[o]
    <3>1. stage'[k[1]] = stage[k[1]]
      BY <1>0, <1>10, <2>1, <2>3 DEF OpReset, TypeOK
    <3>2. QED
      BY <1>1, <1>10, <2>1, <3>1 DEF OpReset
  <2>4. QED
    BY <2>2, <2>3
<1>11. ASSUME Tick PROVE Goal
  <2>1. k \in banned /\ k \notin EndsNow(banTtl)
    BY <1>11 DEF Tick
  <2>2. QED
    BY <1>1, <1>11, <2>1 DEF Tick
<1>12. CASE UNCHANGED <<banned, stage, excused, request>>
  BY <1>1, <1>12
<1>13. QED
  BY <1>2, <1>3, <1>4, <1>5, <1>6, <1>7, <1>8, <1>9, <1>10, <1>11, <1>12
     DEF Next, vars, RequestStep, OperatorStep, OpFilter, OpVisible, OpFind, OpAbort

LEMMA InitInv == Init => IInv
BY InitType DEF Init, IInv, BanningKnown, Banning, BanHasExpiry, BanVisible

LEMMA NextInv == IInv /\ [Next]_vars => IInv'
BY NextType, NextKnown, NextHasExpiry, NextVisible DEF IInv

(* Type correctness of the throttle, for all values of the constants. *)
THEOREM TypeCorrect == Spec => []TypeOK
<1>1. QED
  BY InitType, NextType, PTL DEF Spec

(* No ban without an expiry, whatever the requests and operators do, but the *)
(* ones an Abort between HSET and EXPIRE leaves behind (ban, 387-388).       *)
THEOREM ExpiryCorrect == Spec => []BanHasExpiry
<1>1. IInv => BanHasExpiry
  BY DEF IInv
<1>2. QED
  BY <1>1, InitInv, NextInv, PTL DEF Spec

(* A ban in force is one the bans API can show, but for the exceptions that *)
(* BanVisible names (ban, 389-395; resetBanIncrementStage; remove...Ban).   *)
THEOREM VisibilityCorrect == Spec => []BanVisible
<1>1. IInv => BanVisible
  BY DEF IInv
<1>2. QED
  BY <1>1, InitInv, NextInv, PTL DEF Spec

-----------------------------------------------------------------------------
\* The number of guesses.  The requests that are about to write the counter,
\* and the counter for the others, make a multiset of values; each failure that
\* is recorded moves it forward in an order, and a chain of multisets is no
\* longer than there are multisets.

(* x comes before y: it holds more of the lowest value in which they differ. *)
Before(C, x, y) == \E v \in C : x[v] > y[v] /\ \A u \in C : u < v => x[u] = y[u]

(* The multisets before x. *)
Passed(R, C, x) == {y \in Multisets(R, C) : Before(C, y, x)}

LEMMA MultisetType ==
    ASSUME NEW R, IsFiniteSet(R), NEW C, NEW x \in Multisets(R, C)
    PROVE  x \in [C -> Nat]
<1>1. PICK h \in [R -> C] : x = Tally(R, C, h)
  BY DEF Multisets
<1>2. ASSUME NEW v \in C PROVE Cardinality({r \in R : h[r] = v}) \in Nat
  <2>1. IsFiniteSet({r \in R : h[r] = v})
    BY FS_Subset
  <2>2. QED
    BY <2>1, FS_CardinalityType
<1>3. QED
  BY <1>1, <1>2 DEF Tally

(* A function from R to C is told by its pairs, so there are finitely many. *)
LEMMA FunctionsFinite ==
    ASSUME NEW R, IsFiniteSet(R), NEW C, IsFiniteSet(C)
    PROVE  IsFiniteSet([R -> C])
<1> DEFINE Pairs(h) == {p \in R \X C : h[p[1]] = p[2]}
           f == [h \in [R -> C] |-> Pairs(h)]
<1>1. IsFiniteSet(SUBSET (R \X C))
  BY FS_Product, FS_SUBSET
<1>2. ASSUME NEW g \in [R -> C], NEW h \in [R -> C], Pairs(g) = Pairs(h) PROVE g = h
  <2>1. ASSUME NEW r \in R PROVE g[r] = h[r]
    <3>1. <<r, g[r]>> \in Pairs(g)
      OBVIOUS
    <3>2. <<r, g[r]>> \in Pairs(h)
      BY <1>2, <3>1
    <3>3. QED
      BY <3>2
  <2>2. QED
    BY <2>1
<1>3. f \in [[R -> C] -> SUBSET (R \X C)]
  OBVIOUS
<1>4. \A g, h \in [R -> C] : f[g] = f[h] => g = h
  BY <1>2
<1>5. f \in Injection([R -> C], SUBSET (R \X C))
  BY <1>3, <1>4 DEF Injection, IsInjective
<1>6. QED
  BY <1>1, <1>5, FS_Injection

LEMMA MultisetsFinite ==
    ASSUME NEW R, IsFiniteSet(R), NEW C, IsFiniteSet(C)
    PROVE  IsFiniteSet(Multisets(R, C))
<1> DEFINE f == [h \in [R -> C] |-> Tally(R, C, h)]
<1>1. f \in Surjection([R -> C], Multisets(R, C))
  BY DEF Surjection, Multisets
<1>2. QED
  BY <1>1, FunctionsFinite, FS_Surjection

LEMMA BeforeTransitive ==
    ASSUME NEW C \in SUBSET Int,
           NEW x \in [C -> Nat], NEW y \in [C -> Nat], NEW z \in [C -> Nat],
           Before(C, x, y), Before(C, y, z)
    PROVE  Before(C, x, z)
<1>1. PICK v \in C : x[v] > y[v] /\ \A u \in C : u < v => x[u] = y[u]
  BY DEF Before
<1>2. PICK w \in C : y[w] > z[w] /\ \A u \in C : u < w => y[u] = z[u]
  BY DEF Before
<1>3. CASE v < w
  BY <1>1, <1>2, <1>3 DEF Before
<1>4. CASE v = w
  BY <1>1, <1>2, <1>4 DEF Before
<1>5. CASE w < v
  BY <1>1, <1>2, <1>5 DEF Before
<1>6. QED
  BY <1>3, <1>4, <1>5

(* Moving some of R from p to higher values, and others among values that are *)
(* not below p and end above it, is a step forward.                           *)
LEMMA Forward ==
    ASSUME NEW R, IsFiniteSet(R), NEW C \in SUBSET Int,
           NEW f \in [R -> C], NEW g \in [R -> C], NEW p \in C,
           \A r \in R : f[r] = g[r] \/ (f[r] >= p /\ g[r] > p),
           \E r \in R : f[r] = p /\ g[r] > p
    PROVE  Before(C, Tally(R, C, f), Tally(R, C, g))
<1> DEFINE At(h, v) == {r \in R : h[r] = v}
<1>1. \A u \in C : u < p => At(f, u) = At(g, u)
  OBVIOUS
<1>2. At(g, p) \subseteq At(f, p) /\ At(g, p) # At(f, p)
  OBVIOUS
<1>3. IsFiniteSet(At(f, p))
  BY FS_Subset
<1>4. /\ IsFiniteSet(At(g, p))
      /\ Cardinality(At(g, p)) <= Cardinality(At(f, p))
      /\ Cardinality(At(f, p)) # Cardinality(At(g, p))
  <2> HIDE DEF At
  <2>1. At(g, p) \in SUBSET At(f, p)
    BY <1>2
  <2>2. QED
    BY <1>2, <1>3, <2>1, FS_Subset
<1>5. Cardinality(At(f, p)) \in Nat /\ Cardinality(At(g, p)) \in Nat
  BY <1>3, <1>4, FS_CardinalityType
<1>6. \A h, v : v \in C => Tally(R, C, h)[v] = Cardinality(At(h, v))
  BY DEF Tally
<1>7. Tally(R, C, f)[p] > Tally(R, C, g)[p]
  <2> HIDE DEF At
  <2>1. QED
    BY <1>4, <1>5, <1>6
<1>8. \A u \in C : u < p => Tally(R, C, f)[u] = Tally(R, C, g)[u]
  <2> HIDE DEF At
  <2>1. QED
    BY <1>1, <1>6
<1>9. QED
  BY <1>7, <1>8 DEF Before

LEMMA PassedFinite ==
    ASSUME NEW R, IsFiniteSet(R), NEW C, IsFiniteSet(C), NEW x
    PROVE  /\ IsFiniteSet(Passed(R, C, x))
           /\ Cardinality(Passed(R, C, x)) \in Nat
<1>1. Passed(R, C, x) \in SUBSET Multisets(R, C)
  BY DEF Passed
<1>2. IsFiniteSet(Passed(R, C, x))
  BY <1>1, MultisetsFinite, FS_Subset
<1>3. QED
  BY <1>2, FS_CardinalityType

LEMMA NotBeforeItself ==
    ASSUME NEW C, NEW x \in [C -> Nat]
    PROVE  ~ Before(C, x, x)
BY DEF Before

(* A step forward leaves at least one more multiset behind. *)
LEMMA RankGrows ==
    ASSUME NEW R, IsFiniteSet(R), NEW C \in SUBSET Int, IsFiniteSet(C),
           NEW x \in Multisets(R, C), NEW y \in Multisets(R, C), Before(C, x, y)
    PROVE  Cardinality(Passed(R, C, x)) + 1 <= Cardinality(Passed(R, C, y))
<1>1. x \notin Passed(R, C, x)
  BY MultisetType, NotBeforeItself DEF Passed
<1>2. Passed(R, C, x) \cup {x} \in SUBSET Passed(R, C, y)
  <2>1. ASSUME NEW z \in Passed(R, C, x) PROVE z \in Passed(R, C, y)
    BY MultisetType, BeforeTransitive DEF Passed
  <2>2. QED
    BY <2>1 DEF Passed
<1>3. Cardinality(Passed(R, C, x) \cup {x}) = Cardinality(Passed(R, C, x)) + 1
  BY <1>1, PassedFinite, FS_AddElement
<1>4. Cardinality(Passed(R, C, x) \cup {x}) <= Cardinality(Passed(R, C, y))
  BY <1>2, PassedFinite, FS_Subset
<1>5. QED
  BY <1>3, <1>4

LEMMA RankBound ==
    ASSUME NEW R, IsFiniteSet(R), NEW C \in SUBSET Int, IsFiniteSet(C),
           NEW x \in Multisets(R, C)
    PROVE  /\ Cardinality(Multisets(R, C)) \in Nat
           /\ Cardinality(Passed(R, C, x)) <= Cardinality(Multisets(R, C)) - 1
<1>1. x \notin Passed(R, C, x)
  BY MultisetType, NotBeforeItself DEF Passed
<1>2. Passed(R, C, x) \cup {x} \in SUBSET Multisets(R, C)
  BY DEF Passed
<1>3. Cardinality(Passed(R, C, x) \cup {x}) = Cardinality(Passed(R, C, x)) + 1
  BY <1>1, PassedFinite, FS_AddElement
<1>4. Cardinality(Passed(R, C, x) \cup {x}) <= Cardinality(Multisets(R, C))
  BY <1>2, MultisetsFinite, FS_Subset
<1>5. Cardinality(Multisets(R, C)) \in Nat /\ Cardinality(Passed(R, C, x)) \in Nat
  BY MultisetsFinite, PassedFinite, FS_CardinalityType
<1>6. QED
  BY <1>3, <1>4, <1>5

(* The handlers that have read the counter of k and have yet to write it. *)
Holding(k) == {r \in Request : pc[r] = "count" /\ key[r] = k}

(* What the requests of S read, s being one more, and c for all the others. *)
Held(s, c, S) == [r \in Request |-> IF r \in S THEN s[r] - 1 ELSE c]
Rank(s, c, S) ==
    Cardinality(Passed(Request, Counts, Tally(Request, Counts, Held(s, c, S))))

(* The counter stays below the limit, and so does what is to be written. *)
Counting == /\ attempts \in [Key -> Counts]
            /\ \A r \in Request : pc[r] = "count" => seen[r] \in 1 .. MaxAttempts - 1

(* The failures recorded are no more than the multisets passed, even when  *)
(* some of the handlers that hold a value end without writing it.          *)
WindowRanked ==
    \A k \in Key : \A S \in SUBSET Holding(k) : window[k] <= Rank(seen, attempts[k], S)

GInv == TypeOK /\ Counting /\ WindowRanked

LEMMA CountsFinite == Counts \in SUBSET Int /\ IsFiniteSet(Counts) /\ 0 \in Counts
BY LimitAssumption, FS_Interval DEF Counts

LEMMA HeldType ==
    ASSUME NEW s, NEW c \in Counts, NEW S, \A q \in S : s[q] \in 1 .. MaxAttempts - 1
    PROVE  Held(s, c, S) \in [Request -> Counts]
BY LimitAssumption DEF Held, Counts

LEMMA RankType == ASSUME NEW s, NEW c, NEW S PROVE Rank(s, c, S) \in Nat
BY CountsFinite, RequestAssumption, PassedFinite DEF Rank

(* Writing what r read plus one is a step forward, whoever else holds a value: *)
(* r and the requests that hold none move from the lower of their two values.  *)
LEMMA CountAdvances ==
    ASSUME NEW c \in Counts, NEW T \in SUBSET Request, NEW r \in T, NEW s, NEW t,
           \A q \in T : s[q] \in 1 .. MaxAttempts - 1,
           \A q \in T \ {r} : t[q] = s[q]
    PROVE  Rank(s, c, T) + 1 <= Rank(t, s[r], T \ {r})
<1> DEFINE f == Held(s, c, T)
           g == Held(t, s[r], T \ {r})
           v == s[r] - 1
           p == IF Request \ T # {} /\ c < v THEN c ELSE v
<1>1. s[r] \in Counts /\ v \in Counts
  BY LimitAssumption DEF Counts
<1>2. f \in [Request -> Counts]
  BY HeldType
<1>3. g \in [Request -> Counts]
  BY <1>1, HeldType
<1>4. p \in Counts
  BY <1>1
<1>5. /\ f[r] = v /\ g[r] = v + 1
      /\ \A q \in T \ {r} : f[q] = g[q]
      /\ \A q \in Request \ T : f[q] = c /\ g[q] = v + 1
  BY <1>1, CountsFinite DEF Held
<1>6. p \in Int /\ c \in Int /\ v \in Int
  BY <1>1, <1>4, CountsFinite
<1>7. \E q \in Request : f[q] = p /\ g[q] > p
  <2> HIDE DEF f, g, v
  <2>1. CASE Request \ T # {} /\ c < v
    BY <1>5, <1>6, <2>1
  <2>2. CASE ~ (Request \ T # {} /\ c < v)
    BY <1>5, <1>6, <2>2
  <2>3. QED
    BY <2>1, <2>2
<1>8. \A q \in Request : f[q] = g[q] \/ (f[q] >= p /\ g[q] > p)
  <2> HIDE DEF f, g, v
  <2>1. f[r] >= p /\ g[r] > p
    BY <1>5, <1>6
  <2>2. ASSUME NEW q \in Request \ T PROVE f[q] = g[q] \/ (f[q] >= p /\ g[q] > p)
    BY <1>5, <1>6, <2>2
  <2>3. QED
    BY <1>5, <2>1, <2>2
<1>9. Before(Counts, Tally(Request, Counts, f), Tally(Request, Counts, g))
  <2> HIDE DEF f, g, p
  <2>1. QED
    BY <1>2, <1>3, <1>4, <1>7, <1>8, CountsFinite, RequestAssumption, Forward
<1>10. /\ Tally(Request, Counts, f) \in Multisets(Request, Counts)
       /\ Tally(Request, Counts, g) \in Multisets(Request, Counts)
  BY <1>2, <1>3 DEF Multisets
<1>11. QED
  BY <1>9, <1>10, CountsFinite, RequestAssumption, RankGrows DEF Rank

(* A step that leaves a counter and its window alone keeps the rank, when who *)
(* now holds a value held it before or has just read the counter.             *)
LEMMA RankKept ==
    ASSUME WindowRanked, NEW k \in Key,
           attempts'[k] = attempts[k], window'[k] = window[k],
           \A r \in Holding(k)' : \/ r \in Holding(k) /\ seen'[r] = seen[r]
                                  \/ seen'[r] - 1 = attempts[k]
    PROVE  \A S \in SUBSET Holding(k)' : window'[k] <= Rank(seen', attempts'[k], S)
<1> SUFFICES ASSUME NEW S \in SUBSET Holding(k)'
             PROVE  window'[k] <= Rank(seen', attempts'[k], S)
  OBVIOUS
<1> DEFINE T == {r \in S : r \in Holding(k) /\ seen'[r] = seen[r]}
<1>1. T \in SUBSET Holding(k)
  OBVIOUS
<1>2. Held(seen', attempts'[k], S) = Held(seen, attempts[k], T)
  BY DEF Held
<1>3. Rank(seen', attempts'[k], S) = Rank(seen, attempts[k], T)
  BY <1>2 DEF Rank
<1>4. window[k] <= Rank(seen, attempts[k], T)
  BY <1>1 DEF WindowRanked
<1>5. QED
  BY <1>3, <1>4

(* A counter that starts again has nothing recorded against it. *)
LEMMA RankEmpty ==
    ASSUME NEW k \in Key, window'[k] = 0
    PROVE  \A S \in SUBSET Holding(k)' : window'[k] <= Rank(seen', attempts'[k], S)
BY RankType

(* What a step does that is not CountAttempt: nobody joins those who hold a *)
(* value but by reading the counter, and a counter only changes to none.    *)
LEMMA OthersRanked ==
    ASSUME WindowRanked,
           \A k \in Key : \/ attempts'[k] = attempts[k] /\ window'[k] = window[k]
                          \/ window'[k] = 0,
           \A r \in Request : pc'[r] = "count" =>
               \/ pc[r] = "count" /\ key'[r] = key[r] /\ seen'[r] = seen[r]
               \/ seen'[r] - 1 = attempts[key'[r]]
    PROVE  WindowRanked'
<1>1. ASSUME NEW k \in Key
      PROVE  \A S \in SUBSET Holding(k)' : window'[k] <= Rank(seen', attempts'[k], S)
  <2>1. \A r \in Holding(k)' : \/ r \in Holding(k) /\ seen'[r] = seen[r]
                               \/ seen'[r] - 1 = attempts[k]
    BY DEF Holding
  <2>2. CASE attempts'[k] = attempts[k] /\ window'[k] = window[k]
    BY <2>1, <2>2, RankKept
  <2>3. CASE window'[k] = 0
    BY <2>3, RankEmpty
  <2>4. QED
    BY <2>2, <2>3
<1>2. QED
  BY <1>1 DEF WindowRanked

LEMMA InitGuesses == Init => GInv
<1> SUFFICES ASSUME Init PROVE GInv
  OBVIOUS
<1>1. TypeOK
  BY InitType
<1>2. Counting
  BY CountsFinite DEF Init, Counting
<1>3. WindowRanked
  BY RankType DEF Init, WindowRanked
<1>4. QED
  BY <1>1, <1>2, <1>3 DEF GInv

LEMMA CountGuesses ==
    ASSUME GInv, NEW r \in Request, NEW k \in Key, key[r] = k, CountAttempt(r)
    PROVE  Counting' /\ WindowRanked'
<1>1. /\ pc[r] = "count" /\ seen[r] \in 1 .. MaxAttempts - 1
      /\ attempts \in [Key -> Counts] /\ window \in [Key -> Nat]
      /\ pc \in [Request -> RequestPc] /\ seen \in [Request -> Nat]
  BY DEF GInv, TypeOK, Counting, CountAttempt
<1>2. /\ attempts' = [attempts EXCEPT ![k] = seen[r]]
      /\ window' = [window EXCEPT ![k] = @ + 1]
      /\ pc' = [pc EXCEPT ![r] = "idle"]
      /\ key' = [key EXCEPT ![r] = None]
      /\ seen' = [seen EXCEPT ![r] = 0]
  BY DEF CountAttempt, Answer, Goto
<1>3. seen[r] \in Counts
  BY <1>1, LimitAssumption DEF Counts
<1>4. Counting'
  BY <1>1, <1>2, <1>3 DEF GInv, Counting
<1>5. \A q \in Request : pc'[q] = "count" =>
          q # r /\ pc[q] = "count" /\ key'[q] = key[q] /\ seen'[q] = seen[q]
  BY <1>1, <1>2 DEF GInv, TypeOK
<1>6. ASSUME NEW l \in Key, l # k
      PROVE  \A S \in SUBSET Holding(l)' : window'[l] <= Rank(seen', attempts'[l], S)
  <2>1. attempts'[l] = attempts[l] /\ window'[l] = window[l]
    BY <1>1, <1>2, <1>6
  <2>2. \A q \in Holding(l)' : q \in Holding(l) /\ seen'[q] = seen[q]
    BY <1>5 DEF Holding
  <2>3. QED
    BY <2>1, <2>2, RankKept DEF GInv
<1>7. ASSUME NEW S \in SUBSET Holding(k)'
      PROVE  window'[k] <= Rank(seen', attempts'[k], S)
  <2> DEFINE T == S \cup {r}
  <2>1. r \notin S /\ T \in SUBSET Holding(k)
    BY <1>1, <1>5 DEF Holding
  <2>2. T \ {r} = S /\ T \in SUBSET Request
    BY <2>1 DEF Holding
  <2>3. \A q \in T : seen[q] \in 1 .. MaxAttempts - 1
    BY <2>1 DEF Holding, GInv, Counting
  <2>4. \A q \in T \ {r} : seen'[q] = seen[q]
    BY <1>1, <1>2, <2>2
  <2>5. attempts[k] \in Counts
    BY <1>1
  <2>6. window[k] <= Rank(seen, attempts[k], T)
    BY <1>1, <2>1 DEF GInv, WindowRanked
  <2>7. Rank(seen, attempts[k], T) + 1 <= Rank(seen', seen[r], S)
    <3> HIDE DEF T
    <3>1. r \in T
      BY DEF T
    <3>2. Rank(seen, attempts[k], T) + 1 <= Rank(seen', seen[r], T \ {r})
      BY <2>2, <2>3, <2>4, <2>5, <3>1, CountAdvances
    <3>3. QED
      BY <2>2, <3>2
  <2>8. attempts'[k] = seen[r] /\ window'[k] = window[k] + 1 /\ window[k] \in Nat
    BY <1>1, <1>2
  <2>9. QED
    BY <2>6, <2>7, <2>8, RankType
<1>8. QED
  BY <1>4, <1>6, <1>7 DEF WindowRanked

LEMMA ReadGuesses ==
    ASSUME GInv, NEW r \in Request, ReadAttempts(r)
    PROVE  Counting' /\ WindowRanked'
<1>1. /\ key[r] \in Key /\ pc[r] = "read"
      /\ attempts[key[r]] \in Counts
      /\ pc \in [Request -> RequestPc] /\ seen \in [Request -> Nat]
  BY DEF GInv, TypeOK, Counting, ReadAttempts
<1>2. /\ seen' = [seen EXCEPT ![r] = attempts[key[r]] + 1]
      /\ pc' = [pc EXCEPT ![r] = IF attempts[key[r]] + 1 >= MaxAttempts
                                 THEN "lookup" ELSE "count"]
      /\ key' = key /\ attempts' = attempts /\ window' = window
  BY DEF ReadAttempts, Step, Goto, redis, history
<1>3. pc'[r] = "count" => seen'[r] \in 1 .. MaxAttempts - 1
  BY <1>1, <1>2, LimitAssumption DEF Counts
<1>4. seen'[r] - 1 = attempts[key'[r]]
  <2>1. seen'[r] = attempts[key[r]] + 1 /\ key'[r] = key[r]
    BY <1>1, <1>2
  <2>2. attempts[key[r]] \in Int
    BY <1>1, CountsFinite
  <2>3. QED
    BY <2>1, <2>2
<1>5. \A q \in Request \ {r} : pc'[q] = pc[q] /\ seen'[q] = seen[q] /\ key'[q] = key[q]
  BY <1>1, <1>2
<1>6. Counting'
  BY <1>2, <1>3, <1>5 DEF GInv, Counting
<1>7. WindowRanked'
  BY <1>2, <1>4, <1>5, OthersRanked DEF GInv
<1>8. QED
  BY <1>6, <1>7

(* A step after which no more requests hold a value than before. *)
Quiet == \A q \in Request :
    pc'[q] = "count" => pc[q] = "count" /\ key'[q] = key[q] /\ seen'[q] = seen[q]

LEMMA QuietGuesses ==
    ASSUME GInv, Quiet, attempts' \in [Key -> Counts],
           \A k \in Key : \/ attempts'[k] = attempts[k] /\ window'[k] = window[k]
                          \/ window'[k] = 0
    PROVE  Counting' /\ WindowRanked'
<1>1. Counting'
  BY DEF GInv, Counting, Quiet
<1>2. WindowRanked'
  BY OthersRanked DEF GInv, Quiet
<1>3. QED
  BY <1>1, <1>2

LEMMA StepQuiet ==
    ASSUME TypeOK, NEW r \in Request, NEW l, l # "count", Step(r, l),
           \A q \in Request \ {r} : seen'[q] = seen[q]
    PROVE  Quiet
BY DEF TypeOK, Step, Goto, Quiet

LEMMA AnswerQuiet == ASSUME TypeOK, NEW r \in Request, Answer(r) PROVE Quiet
BY DEF TypeOK, Answer, Goto, Quiet

LEMMA ForgetGuesses ==
    ASSUME GInv, NEW k \in Key, ForgetAttempts(k), Quiet
    PROVE  Counting' /\ WindowRanked'
<1>1. attempts' \in [Key -> Counts]
  BY CountsFinite DEF GInv, Counting, ForgetAttempts
<1>2. \A l \in Key : \/ attempts'[l] = attempts[l] /\ window'[l] = window[l]
                     \/ window'[l] = 0
  BY DEF GInv, TypeOK, ForgetAttempts
<1>3. QED
  BY <1>1, <1>2, QuietGuesses

LEMMA TickGuesses == ASSUME GInv, Tick PROVE Counting' /\ WindowRanked'
<1>1. Quiet
  BY DEF Tick, request, Quiet
<1>2. attempts' \in [Key -> Counts]
  BY CountsFinite DEF GInv, Counting, Tick
<1>3. \A l \in Key : \/ attempts'[l] = attempts[l] /\ window'[l] = window[l]
                     \/ window'[l] = 0
  BY DEF Tick
<1>4. QED
  BY <1>1, <1>2, <1>3, QuietGuesses

(* The steps that leave every counter and every window alone. *)
LEMMA UntouchedGuesses ==
    ASSUME GInv, Quiet, UNCHANGED <<attempts, window>>
    PROVE  Counting' /\ WindowRanked'
<1>1. attempts' \in [Key -> Counts]
  BY DEF GInv, Counting
<1>2. QED
  BY <1>1, QuietGuesses

(* Every step keeps it: one case for each kind of step of Next. *)
LEMMA NextGuesses == GInv /\ [Next]_vars => GInv'
<1> SUFFICES ASSUME GInv, [Next]_vars PROVE Counting' /\ WindowRanked'
  BY NextType DEF GInv
<1>0. TypeOK
  BY DEF GInv
<1>1. ASSUME NEW r \in Request, NEW k \in Key, Admit(r, k)
      PROVE  Counting' /\ WindowRanked'
  <2>1. Quiet
    BY <1>0, <1>1 DEF TypeOK, Admit, Goto, Quiet
  <2>2. QED
    BY <1>1, <2>1, UntouchedGuesses DEF Admit, redis, history
<1>2. ASSUME NEW r \in Request, Validate(r) PROVE Counting' /\ WindowRanked'
  <2>1. CASE (Step(r, "read") \/ Step(r, "clear")) /\ UNCHANGED seen
    <3>1. Quiet
      BY <1>0, <2>1, StepQuiet
    <3>2. QED
      BY <1>2, <3>1, UntouchedGuesses DEF Validate, redis, history
  <2>2. CASE Answer(r)
    BY <1>0, <1>2, <2>2, AnswerQuiet, UntouchedGuesses DEF Validate, redis, history
  <2>3. QED
    BY <1>2, <2>1, <2>2 DEF Validate
<1>3. ASSUME NEW r \in Request, ReadAttempts(r) PROVE Counting' /\ WindowRanked'
  BY <1>3, ReadGuesses
<1>4. ASSUME NEW r \in Request, CountAttempt(r) PROVE Counting' /\ WindowRanked'
  <2>1. key[r] \in Key
    BY <1>0, <1>4 DEF CountAttempt, TypeOK
  <2>2. QED
    BY <1>4, <2>1, CountGuesses
<1>5. ASSUME NEW r \in Request, LookupStage(r) PROVE Counting' /\ WindowRanked'
  <2>1. CASE Answer(r)
    BY <1>0, <1>5, <2>1, AnswerQuiet, UntouchedGuesses DEF LookupStage, redis, history
  <2>2. CASE Step(r, "hset") /\ seen' = [seen EXCEPT ![r] = stage[key[r][1]]]
    <3>1. \A q \in Request \ {r} : seen'[q] = seen[q]
      BY <1>0, <2>2 DEF TypeOK
    <3>2. Quiet
      BY <1>0, <2>2, <3>1, StepQuiet
    <3>3. QED
      BY <1>5, <3>2, UntouchedGuesses DEF LookupStage, redis, history
  <2>3. QED
    BY <1>5, <2>1, <2>2 DEF LookupStage
<1>6. ASSUME NEW r \in Request, SetBan(r) PROVE Counting' /\ WindowRanked'
  <2>1. Quiet
    BY <1>0, <1>6, StepQuiet DEF SetBan
  <2>2. QED
    BY <1>6, <2>1, UntouchedGuesses DEF SetBan
<1>7. ASSUME NEW r \in Request, ExpireBan(r) PROVE Counting' /\ WindowRanked'
  <2>1. Quiet
    BY <1>0, <1>7, StepQuiet DEF ExpireBan
  <2>2. QED
    BY <1>7, <2>1, UntouchedGuesses DEF ExpireBan
<1>8. ASSUME NEW r \in Request, DeleteFailKey(r) PROVE Counting' /\ WindowRanked'
  <2>1. key[r] \in Key /\ ForgetAttempts(key[r])
    BY <1>0, <1>8 DEF DeleteFailKey, TypeOK
  <2>2. Quiet
    BY <1>0, <1>8, StepQuiet DEF DeleteFailKey
  <2>3. QED
    BY <2>1, <2>2, ForgetGuesses
<1>9. ASSUME NEW r \in Request, StoreStage(r) PROVE Counting' /\ WindowRanked'
  BY <1>0, <1>9, AnswerQuiet, UntouchedGuesses DEF StoreStage, redis, history
<1>10. ASSUME NEW r \in Request, ClearAttempts(r) PROVE Counting' /\ WindowRanked'
  <2>1. key[r] \in Key /\ ForgetAttempts(key[r])
    BY <1>0, <1>10 DEF ClearAttempts, TypeOK
  <2>2. Quiet
    BY <1>0, <1>10, StepQuiet DEF ClearAttempts
  <2>3. QED
    BY <2>1, <2>2, ForgetGuesses
<1>11. ASSUME NEW r \in Request, ResetStage(r) PROVE Counting' /\ WindowRanked'
  BY <1>0, <1>11, AnswerQuiet, UntouchedGuesses DEF ResetStage, redis
<1>12. ASSUME NEW r \in Request, Abort(r) PROVE Counting' /\ WindowRanked'
  BY <1>0, <1>12, AnswerQuiet, UntouchedGuesses DEF Abort, redis
<1>13. ASSUME UNCHANGED <<attempts, window, pc, key, seen>>
       PROVE  Counting' /\ WindowRanked'
  <2>1. Quiet
    BY <1>13 DEF Quiet
  <2>2. QED
    BY <1>13, <2>1, UntouchedGuesses
<1>14. ASSUME NEW o \in Operator,
              OperatorStep(o) \/ OpAbort(o) \/ \E a \in Account : OpFilter(o, a)
       PROVE  Counting' /\ WindowRanked'
  BY <1>13, <1>14 DEF OperatorStep, OpVisible, OpFind, OpDelete, OpReset, OpAbort,
                      OpFilter, redis, request, history
<1>15. CASE Tick
  BY <1>15, TickGuesses
<1>16. CASE UNCHANGED vars
  BY <1>13, <1>16 DEF vars, redis, request, history
<1>17. QED
  BY <1>1, <1>2, <1>3, <1>4, <1>5, <1>6, <1>7, <1>8, <1>9, <1>10, <1>11, <1>12, <1>14,
     <1>15, <1>16 DEF Next, RequestStep

(* However many requests guess at once, the counter lets through no more   *)
(* failures than there are multisets of what they can hold, less one       *)
(* (registerFailedLoginAttempt, 398-417).                                  *)
THEOREM GuessesCorrect == Spec => []GuessesBounded
<1>1. ASSUME GInv, NEW k \in Key PROVE window[k] <= GuessBound
  <2>1. window[k] <= Rank(seen, attempts[k], {})
    BY <1>1 DEF GInv, WindowRanked
  <2>2. Held(seen, attempts[k], {}) \in [Request -> Counts]
    BY <1>1, HeldType DEF GInv, Counting
  <2>3. Tally(Request, Counts, Held(seen, attempts[k], {})) \in Multisets(Request, Counts)
    BY <2>2 DEF Multisets
  <2>4. /\ Cardinality(Multisets(Request, Counts)) \in Nat
        /\ Rank(seen, attempts[k], {}) <= Cardinality(Multisets(Request, Counts)) - 1
    BY <2>3, CountsFinite, RequestAssumption, RankBound DEF Rank
  <2>5. window[k] \in Nat
    BY <1>1 DEF GInv, TypeOK
  <2>6. QED
    BY <2>1, <2>4, <2>5, RankType DEF GuessBound
<1>2. GInv => GuessesBounded
  BY <1>1 DEF GuessesBounded
<1>3. QED
  BY <1>2, InitGuesses, NextGuesses, PTL DEF Spec

(* A single request can hold as many values as the counter has below the limit. *)
LEMMA OneRequest == ASSUME NEW r, Request = {r} PROVE GuessBound = MaxAttempts - 1
<1> DEFINE f == [c \in Counts |-> Tally({r}, Counts, [q \in {r} |-> c])]
           At(h, v) == {q \in {r} : h[q] = v}
<1>1. ASSUME NEW h \in [{r} -> Counts] PROVE h = [q \in {r} |-> h[r]] /\ h[r] \in Counts
  OBVIOUS
<1>2. f \in [Counts -> Multisets({r}, Counts)]
  BY DEF Multisets
<1>3. \A m \in Multisets({r}, Counts) : \E c \in Counts : f[c] = m
  <2>1. ASSUME NEW h \in [{r} -> Counts] PROVE f[h[r]] = Tally({r}, Counts, h)
    BY <1>1
  <2> HIDE DEF f
  <2>2. QED
    BY <2>1, <1>1 DEF Multisets
<1>4. ASSUME NEW c \in Counts, NEW d \in Counts, f[c] = f[d] PROVE c = d
  <2> DEFINE g == [q \in {r} |-> c]
             h == [q \in {r} |-> d]
  <2>1. At(g, c) = {r} /\ (c # d => At(h, c) = {})
    OBVIOUS
  <2>2. Tally({r}, Counts, g)[c] = Cardinality(At(g, c))
    BY DEF Tally
  <2>3. Tally({r}, Counts, h)[c] = Cardinality(At(h, c))
    BY DEF Tally
  <2>4. Tally({r}, Counts, g)[c] = Tally({r}, Counts, h)[c]
    BY <1>4
  <2>5. Cardinality({r}) = 1 /\ Cardinality({}) = 0
    BY FS_Singleton, FS_EmptySet
  <2> HIDE DEF g, h, At
  <2>6. QED
    BY <2>1, <2>2, <2>3, <2>4, <2>5
<1> HIDE DEF f
<1>5. f \in Surjection(Counts, Multisets({r}, Counts))
  BY <1>2, <1>3 DEF Surjection
<1>6. f \in Injection(Counts, Multisets({r}, Counts))
  BY <1>2, <1>4 DEF Injection, IsInjective
<1>7. Cardinality(Multisets({r}, Counts)) = Cardinality(Counts)
  BY <1>5, <1>6, CountsFinite, FS_Surjection
<1>8. Cardinality(Counts) = MaxAttempts
  BY LimitAssumption, FS_Interval DEF Counts
<1>9. QED
  BY <1>7, <1>8 DEF GuessBound

(* Requests that come one at a time get MaxAttempts - 1 failures counted, and *)
(* the next one bans: what the code intends, and the bound says (398-410).    *)
THEOREM GuessesInTurn ==
    ASSUME NEW r, Request = {r}
    PROVE  Spec => [](\A k \in Key : window[k] <= MaxAttempts - 1)
<1>1. GuessesBounded => \A k \in Key : window[k] <= MaxAttempts - 1
  BY OneRequest DEF GuessesBounded
<1>2. QED
  BY <1>1, GuessesCorrect, PTL

-----------------------------------------------------------------------------
\* ProxyBans

(* A request that waits for a dump knows of which ban. *)
Waits == \A h \in Handler : at[h] = "dump" => current[h] \in Ban

(* Data are of nodes that ran the task. *)
DataRan == \A c \in Call : value[c] \in SUBSET Node => value[c] \subseteq ran[c]

(* RemovesReported, positively. *)
Reported(h, b) == /\ value[Dump(h, b)] \in SUBSET Node
                  /\ \E n \in value[Dump(h, b)] : b \in dumped[Dump(h, b)][n]

AllReported == \A h \in Handler, b \in Ban : Remove(h, b) \in open => Reported(h, b)

ProxyInv == ProxyTypeOK /\ Waits /\ DataRan /\ AllReported

LEMMA Calls ==
    ASSUME NEW h \in Handler, NEW b \in Ban
    PROVE  Dump(h, b) \in Call /\ Remove(h, b) \in Call
BY CallAssumption DEF Dump, Remove

LEMMA CallsDiffer ==
    /\ \A h \in Handler, b \in Ban : Dump(h, b)[3] # "delete" /\ Remove(h, b)[3] = "delete"
    /\ \A h \in Handler, b \in Ban, g \in Handler, d \in Ban :
           /\ Dump(h, b) # Remove(g, d)
           /\ Remove(h, b) = Remove(g, d) => h = g /\ b = d
BY DEF Dump, Remove

LEMMA ReportedIs == AllReported => RemovesReported
BY ValueAssumption DEF AllReported, RemovesReported, Reported, Unreported

(* A step that opens no removal, and leaves values and dumps alone. *)
LEMMA ReportedKept ==
    ASSUME AllReported, UNCHANGED <<value, dumped>>,
           \A h \in Handler, b \in Ban : Remove(h, b) \in open' => Remove(h, b) \in open
    PROVE  AllReported'
BY DEF AllReported, Reported, Dump, Remove

LEMMA ProxyInitInv == ProxyInit => ProxyInv
<1> SUFFICES ASSUME ProxyInit PROVE ProxyInv
  OBVIOUS
<1>1. ProxyTypeOK
  BY DEF ProxyInit, CallInit, ProxyTypeOK, CallTypeOK, Value
<1>2. Waits /\ AllReported
  BY DEF ProxyInit, CallInit, Waits, AllReported
<1>3. DataRan
  BY ValueAssumption DEF ProxyInit, CallInit, DataRan, Value
<1> QED BY <1>1, <1>2, <1>3 DEF ProxyInv

LEMMA DeleteInv == ASSUME ProxyInv, NEW h \in Handler, Delete(h) PROVE ProxyInv'
<1>1. ProxyTypeOK'
  BY DEF ProxyInv, ProxyTypeOK, CallTypeOK, callVars, Delete
<1>2. Waits' /\ DataRan'
  BY DEF ProxyInv, ProxyTypeOK, Waits, DataRan, callVars, Delete
<1>3. AllReported'
  BY ReportedKept DEF ProxyInv, callVars, Delete
<1> QED BY <1>1, <1>2, <1>3 DEF ProxyInv

LEMMA NextIdInv == ASSUME ProxyInv, NEW h \in Handler, NextId(h) PROVE ProxyInv'
<1>1. CASE todo[h] = {}
  <2>1. ProxyTypeOK' /\ Waits' /\ DataRan'
    BY <1>1 DEF ProxyInv, ProxyTypeOK, CallTypeOK, Waits, DataRan, callVars, NextId
  <2>2. AllReported'
    BY <1>1, ReportedKept DEF ProxyInv, callVars, NextId
  <2> QED BY <2>1, <2>2 DEF ProxyInv
<1>2. CASE todo[h] # {}
  <2>1. PICK b \in todo[h] : /\ Open(Dump(h, b))
                             /\ at' = [at EXCEPT ![h] = "dump"]
                             /\ todo' = [todo EXCEPT ![h] = @ \ {b}]
                             /\ current' = [current EXCEPT ![h] = b]
    BY <1>2 DEF NextId
  <2>2. b \in Ban
    BY <2>1 DEF ProxyInv, ProxyTypeOK
  <2>3. UNCHANGED <<barred, dumped, ids, alive, renewed>>
    BY DEF NextId
  <2>4. ProxyTypeOK'
    BY <2>1, <2>2, <2>3, Calls DEF ProxyInv, ProxyTypeOK, CallTypeOK, Open
  <2>5. Waits' /\ DataRan'
    BY <2>1, <2>2, <2>3 DEF ProxyInv, ProxyTypeOK, Waits, DataRan, Open
  <2>6. AllReported'
    BY <2>1, <2>2, <2>3, CallsDiffer, ReportedKept DEF ProxyInv, Open
  <2> QED BY <2>4, <2>5, <2>6 DEF ProxyInv
<1> QED BY <1>1, <1>2

LEMMA AfterDumpInv == ASSUME ProxyInv, NEW h \in Handler, AfterDump(h) PROVE ProxyInv'
<1> DEFINE b == current[h]
           c == Dump(h, b)
<1>1. b \in Ban /\ c \in Call /\ Remove(h, b) \in Call
  BY Calls DEF ProxyInv, Waits, AfterDump
<1>2. /\ value[c] # Pending
      /\ current' = [current EXCEPT ![h] = NoBan]
      /\ UNCHANGED <<barred, dumped, ids, todo, alive, renewed>>
  BY DEF AfterDump
<1>3. at' = [at EXCEPT ![h] = "error"] \/ at' = [at EXCEPT ![h] = "loop"]
  BY DEF AfterDump
<1>4. UNCHANGED <<ran, value>> /\ (open' = open \/ open' = open \cup {Remove(h, b)})
  BY DEF AfterDump, Open, callVars
<1>5. ProxyTypeOK'
  BY <1>1, <1>2, <1>3, <1>4 DEF ProxyInv, ProxyTypeOK, CallTypeOK
<1>6. Waits' /\ DataRan'
  BY <1>2, <1>3, <1>4 DEF ProxyInv, ProxyTypeOK, Waits, DataRan
<1>7. AllReported'
  <2>1. CASE open' = open
    BY <1>2, <1>4, <2>1, ReportedKept DEF ProxyInv
  <2>2. CASE open' # open
    <3>1. value[c] # Failed /\ b \in Entries(c) /\ open' = open \cup {Remove(h, b)}
      BY <2>2 DEF AfterDump, Open, callVars
    <3>2. value[c] \in SUBSET Node
      BY <1>1, <1>2, <3>1 DEF ProxyInv, ProxyTypeOK, CallTypeOK, Value, Entries
    <3>3. Reported(h, b)
      BY <3>1, <3>2 DEF Reported, Entries
    <3>4. \A g \in Handler, d \in Ban : Remove(g, d) \in open' => Reported(g, d)
      BY <1>1, <3>1, <3>3, CallsDiffer DEF ProxyInv, AllReported
    <3> QED BY <1>2, <1>4, <3>4 DEF AllReported, Reported, Dump, Remove
  <2> QED BY <2>1, <2>2
<1> QED BY <1>5, <1>6, <1>7 DEF ProxyInv

(* A run of a task after the call's value is there is of a node outside it. *)
LEMMA ProxyRunsInv ==
    ASSUME ProxyInv, NEW c \in Call, NEW n \in Node, ProxyRuns(c, n) PROVE ProxyInv'
<1>1. /\ n \notin ran[c]
      /\ ran' = [ran EXCEPT ![c] = @ \cup {n}]
      /\ UNCHANGED <<open, value, at, ids, todo, current, alive, renewed>>
  BY DEF ProxyRuns, Run, handler
<1>2. c[2] \in Ban
  BY CallAssumption
<1>3. /\ dumped' \in [Call -> [Node -> SUBSET Ban]]
      /\ \A d \in Call : \A m \in ran[d] : dumped'[d][m] = dumped[d][m]
  <2> DEFINE row == [dumped[c] EXCEPT ![n] = barred[n] \cap {c[2]}]
  <2>1. CASE c[3] = "dump"
    <3>1. dumped' = [dumped EXCEPT ![c] = row]
      BY <2>1 DEF ProxyRuns
    <3>2. dumped \in [Call -> [Node -> SUBSET Ban]]
      BY DEF ProxyInv, ProxyTypeOK
    <3>3. row \in [Node -> SUBSET Ban] /\ \A m \in Node : m # n => row[m] = dumped[c][m]
      BY <1>2, <3>2
    <3>4. \A d \in Call : ran[d] \subseteq Node
      BY DEF ProxyInv, ProxyTypeOK, CallTypeOK
    <3> HIDE DEF row
    <3> QED BY <1>1, <3>1, <3>2, <3>3, <3>4
  <2>2. CASE c[3] # "dump"
    BY <2>2 DEF ProxyRuns, ProxyInv, ProxyTypeOK
  <2> QED BY <2>1, <2>2
<1>5. ProxyTypeOK'
  <2>1. barred' \in [Node -> SUBSET Ban]
    BY DEF ProxyRuns, ProxyInv, ProxyTypeOK
  <2>2. CallTypeOK'
    BY <1>1 DEF ProxyInv, ProxyTypeOK, CallTypeOK
  <2> QED BY <1>1, <1>3, <2>1, <2>2 DEF ProxyInv, ProxyTypeOK
<1>4. Waits' /\ DataRan'
  BY <1>1 DEF ProxyInv, ProxyTypeOK, CallTypeOK, Waits, DataRan
<1>6. AllReported'
  <2>1. SUFFICES ASSUME NEW h \in Handler, NEW b \in Ban, Remove(h, b) \in open
        PROVE  \E m \in value[Dump(h, b)] : b \in dumped'[Dump(h, b)][m]
    BY <1>1 DEF ProxyInv, AllReported, Reported, Dump, Remove
  <2>2. PICK m \in value[Dump(h, b)] : b \in dumped[Dump(h, b)][m]
    BY <2>1 DEF ProxyInv, AllReported, Reported
  <2>3. m \in ran[Dump(h, b)]
    BY <2>1, <2>2, Calls DEF ProxyInv, AllReported, Reported, DataRan
  <2> QED BY <2>2, <2>3, <1>3, Calls
<1> QED BY <1>4, <1>5, <1>6 DEF ProxyInv

LEMMA TaskEndsInv == ASSUME ProxyInv, NEW c \in Call, TaskEnds(c) PROVE ProxyInv'
<1>1. PICK v \in Value : Close(c, v) /\ alive' = ~(c[3] = "delete" /\ v = Failed)
  BY DEF TaskEnds
<1>2. UNCHANGED <<open, ran, barred, dumped, at, ids, todo, current, renewed>>
  BY <1>1 DEF TaskEnds, Close, handler
<1>3. value' = [value EXCEPT ![c] = v] /\ value[c] = Pending
  BY <1>1 DEF Close
<1>4. alive' \in BOOLEAN
  BY <1>1
<1>5. ProxyTypeOK'
  BY <1>2, <1>3, <1>4 DEF ProxyInv, ProxyTypeOK, CallTypeOK
<1>6. Waits'
  BY <1>2 DEF ProxyInv, Waits
<1>7. DataRan'
  <2>1. v \in SUBSET Node => v \subseteq ran[c]
    BY <1>1, ValueAssumption DEF Close, Value
  <2> QED BY <1>2, <1>3, <2>1 DEF ProxyInv, ProxyTypeOK, CallTypeOK, DataRan
<1>8. AllReported'
  <2>1. Pending \notin SUBSET Node
    BY ValueAssumption DEF Value
  <2>2. \A h \in Handler, b \in Ban : Remove(h, b) \in open => Dump(h, b) # c
    BY <1>3, <2>1 DEF ProxyInv, AllReported, Reported
  <2> QED BY <1>2, <1>3, <2>2, Calls DEF ProxyInv, AllReported, Reported, ProxyTypeOK, CallTypeOK,
                                         Dump, Remove
<1> QED BY <1>5, <1>6, <1>7, <1>8 DEF ProxyInv

LEMMA BansInv ==
    ASSUME ProxyInv, NEW n \in Node, NEW b \in Ban, ProxyBans(n, b) \/ BanExpires(n, b)
    PROVE  ProxyInv'
<1>1. UNCHANGED <<open, ran, value, dumped, at, ids, todo, current, alive>>
  BY DEF ProxyBans, BanExpires, callVars, handler
<1>2. ProxyTypeOK'
  BY DEF ProxyBans, BanExpires, callVars, handler, ProxyInv, ProxyTypeOK, CallTypeOK
<1>3. Waits' /\ DataRan' /\ AllReported'
  BY <1>1, ReportedKept DEF ProxyInv, Waits, DataRan
<1> QED BY <1>2, <1>3 DEF ProxyInv

LEMMA StutterInv == ASSUME ProxyInv, UNCHANGED proxyVars PROVE ProxyInv'
<1>1. UNCHANGED <<open, ran, value, barred, dumped, at, ids, todo, current, alive, renewed>>
  BY DEF proxyVars, callVars, handler
<1>2. ProxyTypeOK' /\ Waits' /\ DataRan'
  BY <1>1 DEF ProxyInv, ProxyTypeOK, CallTypeOK, Waits, DataRan
<1> QED BY <1>1, <1>2, ReportedKept DEF ProxyInv

LEMMA ProxyNextInv == ASSUME ProxyInv, [ProxyNext]_proxyVars PROVE ProxyInv'
BY DeleteInv, NextIdInv, AfterDumpInv, TaskEndsInv, ProxyRunsInv, BansInv, StutterInv
   DEF ProxyNext, Serve

LEMMA Invariant == ProxySpec => []ProxyInv
BY ProxyInitInv, ProxyNextInv, PTL DEF ProxySpec

(* Every variable keeps its type. *)
THEOREM ProxyTypes == ProxySpec => []ProxyTypeOK
<1>1. ProxyInv => ProxyTypeOK
  BY DEF ProxyInv
<1> QED BY Invariant, <1>1, PTL

(* For any number of requests, proxies and bans, the removal that follows a *)
(* dump is only sent of a ban that a proxy reported in it.                  *)
THEOREM RemovalsReported == ProxySpec => []RemovesReported
<1>1. ProxyInv => RemovesReported
  BY ReportedIs DEF ProxyInv
<1> QED BY Invariant, <1>1, PTL
-----------------------------------------------------------------------------
(* The second invariant.  An id whose dump has been looked at is either not *)
(* banned any more on a proxy, or excused on that proxy by one of the three *)
(* reasons DeletedUnless names; the value of its dump is final by then, and *)
(* a call that was not made has not run anywhere.                           *)
Seen(h) == {b \in ids[h] \ todo[h] : \/ at[h] \in {"loop", "ok"}
                                     \/ at[h] = "dump" /\ b # current[h]}

Excused(h, n, b) == \/ <<h, n, b>> \in renewed
                    \/ Remove(h, b) \in open /\ n \notin ran[Remove(h, b)]
                    \/ Unreported(h, b)

SeenGone ==
    \A h \in Handler : \A b \in Seen(h) :
        /\ value[Dump(h, b)] \in (SUBSET Node) \cup {Undefined}
        /\ \A n \in Node : b \in barred[n] => Excused(h, n, b)

UnmadeIdle == \A c \in Call \ open : ran[c] = {}

(* A request has none of its ids behind it before it begins. *)
NotBegun == \A h \in Handler : at[h] = "idle" => ids[h] = {}

(* It has nothing left when it answers. *)
NothingLeft == \A h \in Handler : at[h] = "ok" => todo[h] = {}

DInv == ProxyInv /\ SeenGone /\ UnmadeIdle /\ NotBegun /\ NothingLeft

LEMMA SeenBans == ASSUME ProxyTypeOK, NEW h \in Handler PROVE Seen(h) \subseteq Ban
BY DEF ProxyTypeOK, Seen

LEMMA DeletedIs == DInv => DeletedUnless
<1> SUFFICES ASSUME DInv, NEW h \in Handler, NEW n \in Node, NEW b \in barred[n] \cap ids[h],
                    at[h] = "ok"
             PROVE  Excused(h, n, b)
  BY DEF DeletedUnless, Excused
<1>1. b \in Seen(h)
  BY DEF DInv, NothingLeft, Seen
<1> QED BY <1>1 DEF DInv, SeenGone

(* An excuse lasts while values and dumps that were counted do. *)
LEMMA ExcusedKept ==
    ASSUME NEW h \in Handler, NEW n \in Node, NEW b \in Ban, Excused(h, n, b),
           UNCHANGED <<ran, value, dumped>>, open \subseteq open', renewed \subseteq renewed'
    PROVE  Excused(h, n, b)'
BY DEF Excused, Unreported, Dump, Remove

(* A step that looks at no further dump. *)
LEMMA SeenGoneKept ==
    ASSUME DInv, UNCHANGED <<ran, value, dumped>>, open \subseteq open',
           \A n \in Node : barred'[n] \subseteq barred[n], renewed' = renewed,
           \A h \in Handler : Seen(h)' \subseteq Seen(h)
    PROVE  SeenGone'
<1> SUFFICES ASSUME NEW h \in Handler, NEW b \in Seen(h)'
             PROVE  /\ value'[Dump(h, b)] \in (SUBSET Node) \cup {Undefined}
                    /\ \A n \in Node : b \in barred'[n] => Excused(h, n, b)'
  BY DEF SeenGone, Dump
<1>1. b \in Seen(h) /\ b \in Ban
  BY SeenBans DEF DInv, ProxyInv
<1>2. /\ value[Dump(h, b)] \in (SUBSET Node) \cup {Undefined}
      /\ \A n \in Node : b \in barred[n] => Excused(h, n, b)
  BY <1>1 DEF DInv, SeenGone
<1> QED BY <1>1, <1>2, ExcusedKept

LEMMA InitDeleted == ProxyInit => DInv
BY ProxyInitInv DEF ProxyInit, CallInit, DInv, SeenGone, Seen, UnmadeIdle, NotBegun, NothingLeft

LEMMA DeleteDeleted == ASSUME DInv, NEW h \in Handler, Delete(h) PROVE DInv'
<1>1. ProxyInv'
  BY DeleteInv DEF DInv
<1>2. PICK S \in (SUBSET Ban) \ {{}} :
          ids' = [ids EXCEPT ![h] = S] /\ todo' = [todo EXCEPT ![h] = S]
  BY DEF Delete
<1>3. /\ at' = [at EXCEPT ![h] = "loop"]
      /\ UNCHANGED <<open, ran, value, barred, dumped, current, alive, renewed>>
  BY DEF Delete, callVars
<1>4. UnmadeIdle' /\ NotBegun' /\ NothingLeft'
  BY <1>2, <1>3 DEF DInv, ProxyInv, ProxyTypeOK, UnmadeIdle, NotBegun, NothingLeft
<1>5. \A g \in Handler : Seen(g)' \subseteq Seen(g)
  BY <1>2, <1>3 DEF DInv, ProxyInv, ProxyTypeOK, Seen
<1> QED BY <1>1, <1>3, <1>4, <1>5, SeenGoneKept DEF DInv

LEMMA NextIdDeleted == ASSUME DInv, NEW h \in Handler, NextId(h) PROVE DInv'
<1>1. ProxyInv'
  BY NextIdInv DEF DInv
<1>2. at[h] = "loop" /\ UNCHANGED <<barred, dumped, ids, alive, renewed>>
  BY DEF NextId
<1>3. CASE todo[h] = {}
  <2>1. at' = [at EXCEPT ![h] = "ok"] /\ UNCHANGED <<open, ran, value, todo, current>>
    BY <1>3 DEF NextId, callVars
  <2>2. UnmadeIdle' /\ NotBegun' /\ NothingLeft'
    BY <1>2, <1>3, <2>1 DEF DInv, ProxyInv, ProxyTypeOK, UnmadeIdle, NotBegun, NothingLeft
  <2>3. \A g \in Handler : Seen(g)' \subseteq Seen(g)
    BY <1>2, <2>1 DEF DInv, ProxyInv, ProxyTypeOK, Seen
  <2> QED BY <1>1, <1>2, <2>1, <2>2, <2>3, SeenGoneKept DEF DInv
<1>4. CASE todo[h] # {}
  <2>1. PICK b \in todo[h] : /\ Open(Dump(h, b))
                             /\ at' = [at EXCEPT ![h] = "dump"]
                             /\ todo' = [todo EXCEPT ![h] = @ \ {b}]
                             /\ current' = [current EXCEPT ![h] = b]
    BY <1>4 DEF NextId
  <2>2. UnmadeIdle' /\ NotBegun' /\ NothingLeft'
    BY <1>2, <2>1 DEF DInv, ProxyInv, ProxyTypeOK, UnmadeIdle, NotBegun, NothingLeft, Open
  <2>3. \A g \in Handler : Seen(g)' \subseteq Seen(g)
    BY <1>2, <2>1 DEF DInv, ProxyInv, ProxyTypeOK, Seen
  <2>4. open \subseteq open' /\ UNCHANGED <<ran, value>>
    BY <2>1 DEF Open
  <2> QED BY <1>1, <1>2, <2>2, <2>3, <2>4, SeenGoneKept DEF DInv
<1> QED BY <1>3, <1>4

(* Now the id whose dump is there is seen, too. *)
LEMMA AfterDumpDeleted == ASSUME DInv, NEW h \in Handler, AfterDump(h) PROVE DInv'
<1>1. ProxyInv'
  BY AfterDumpInv DEF DInv
<1>2. PICK b : b = current[h]
  OBVIOUS
<1>3. /\ b \in Ban
      /\ at[h] = "dump"
      /\ value[Dump(h, b)] # Pending
      /\ current' = [current EXCEPT ![h] = NoBan]
      /\ UNCHANGED <<barred, dumped, ids, todo, alive, renewed>>
  BY <1>2 DEF DInv, ProxyInv, Waits, AfterDump
<1>4. UNCHANGED <<ran, value>> /\ (open' = open \/ Open(Remove(h, b)))
  BY <1>2 DEF AfterDump, Open, callVars
<1>5. Dump(h, b) \in Call /\ Remove(h, b) \in Call
  BY <1>3, Calls
<1>6. UnmadeIdle'
  BY <1>4 DEF DInv, UnmadeIdle, Open
<1>7. CASE value[Dump(h, b)] = Failed
  <2>1. at' = [at EXCEPT ![h] = "error"]
    BY <1>2, <1>7 DEF AfterDump
  <2>2. NotBegun' /\ NothingLeft'
    BY <1>3, <2>1 DEF DInv, ProxyInv, ProxyTypeOK, NotBegun, NothingLeft
  <2>3. \A g \in Handler : Seen(g)' \subseteq Seen(g)
    BY <1>3, <2>1 DEF DInv, ProxyInv, ProxyTypeOK, Seen
  <2>4. open \subseteq open'
    BY <1>4 DEF Open
  <2> QED BY <1>1, <1>3, <1>4, <1>6, <2>2, <2>3, <2>4, SeenGoneKept DEF DInv
<1>8. CASE value[Dump(h, b)] # Failed
  <2>1. /\ at' = [at EXCEPT ![h] = "loop"]
        /\ IF b \in Entries(Dump(h, b)) THEN Open(Remove(h, b)) ELSE UNCHANGED callVars
    BY <1>2, <1>8 DEF AfterDump
  <2>2. NotBegun' /\ NothingLeft'
    BY <1>3, <2>1 DEF DInv, ProxyInv, ProxyTypeOK, NotBegun, NothingLeft
  <2>3. \A g \in Handler : Seen(g)' \subseteq Seen(g) \cup (IF g = h THEN {b} ELSE {})
    BY <1>2, <1>3, <2>1 DEF DInv, ProxyInv, ProxyTypeOK, Seen
  <2>4. open \subseteq open'
    BY <1>4 DEF Open
  <2>5. value[Dump(h, b)] \in (SUBSET Node) \cup {Undefined}
    BY <1>3, <1>5, <1>8 DEF DInv, ProxyInv, ProxyTypeOK, CallTypeOK, Value
  <2>6. ASSUME NEW n \in Node PROVE Excused(h, n, b)'
    <3>1. CASE b \in Entries(Dump(h, b))
      <4>1. Open(Remove(h, b)) /\ ran[Remove(h, b)] = {}
        BY <1>5, <2>1, <3>1 DEF Open, DInv, UnmadeIdle
      <4> QED BY <4>1 DEF Excused, Open, Remove
    <3>2. CASE b \notin Entries(Dump(h, b))
      <4>1. Unreported(h, b)
        BY <3>2, <2>5 DEF Unreported, Entries
      <4> QED BY <4>1, <1>3, <1>4 DEF Excused, Unreported, Dump
    <3> QED BY <3>1, <3>2
  <2>7. SeenGone'
    <3> SUFFICES ASSUME NEW g \in Handler, NEW d \in Seen(g)'
                 PROVE  /\ value'[Dump(g, d)] \in (SUBSET Node) \cup {Undefined}
                        /\ \A n \in Node : d \in barred'[n] => Excused(g, n, d)'
      BY DEF SeenGone, Dump
    <3>1. CASE g = h /\ d = b
      BY <3>1, <2>5, <2>6, <1>4
    <3>2. CASE d \in Seen(g)
      <4>1. /\ value[Dump(g, d)] \in (SUBSET Node) \cup {Undefined}
            /\ \A n \in Node : d \in barred[n] => Excused(g, n, d)
        BY <3>2 DEF DInv, SeenGone
      <4>2. d \in Ban
        BY <3>2, SeenBans DEF DInv, ProxyInv
      <4> QED BY <4>1, <4>2, <1>3, <1>4, <2>4, ExcusedKept
    <3> QED BY <2>3, <3>1, <3>2
  <2> QED BY <1>1, <1>6, <2>2, <2>7 DEF DInv
<1> QED BY <1>7, <1>8

(* A removal that runs on a proxy takes its excuse, and the ban, away. *)
LEMMA ProxyRunsDeleted ==
    ASSUME DInv, NEW c \in Call, NEW n \in Node, ProxyRuns(c, n) PROVE DInv'
<1>1. ProxyInv'
  BY ProxyRunsInv DEF DInv
<1>2. /\ n \notin ran[c] /\ c \in open
      /\ ran' = [ran EXCEPT ![c] = @ \cup {n}]
      /\ UNCHANGED <<open, value, at, ids, todo, current, alive, renewed>>
  BY DEF ProxyRuns, Run, handler
<1>3. UnmadeIdle' /\ NotBegun' /\ NothingLeft'
  BY <1>2 DEF DInv, ProxyInv, ProxyTypeOK, CallTypeOK, UnmadeIdle, NotBegun, NothingLeft
<1>4. SeenGone'
  <2> SUFFICES ASSUME NEW h \in Handler, NEW b \in Seen(h), NEW m \in Node, b \in barred'[m]
               PROVE  Excused(h, m, b)'
    BY <1>2 DEF DInv, SeenGone, Seen, Dump
  <2>1. b \in Ban
    BY SeenBans DEF DInv, ProxyInv
  <2>2. b \in barred[m]
    BY DEF ProxyRuns, DInv, ProxyInv, ProxyTypeOK
  <2>3. Excused(h, m, b)
    BY <2>2 DEF DInv, SeenGone
  <2>4. value[Dump(h, b)] \in (SUBSET Node) \cup {Undefined}
    BY DEF DInv, SeenGone
  <2>5. CASE <<h, m, b>> \in renewed
    BY <2>5, <1>2 DEF Excused
  <2>6. CASE Remove(h, b) \in open /\ m \notin ran[Remove(h, b)]
    <3>1. CASE c = Remove(h, b) /\ m = n
      <4>1. c[2] = b /\ c[3] # "dump"
        BY <3>1 DEF Remove
      <4>2. barred' = [barred EXCEPT ![n] = @ \ {b}]
        BY <4>1 DEF ProxyRuns
      <4> QED BY <3>1, <4>2 DEF DInv, ProxyInv, ProxyTypeOK
    <3>2. CASE ~(c = Remove(h, b) /\ m = n)
      <4>1. Remove(h, b) \in open' /\ m \notin ran'[Remove(h, b)]
        BY <2>1, <2>6, <3>2, <1>2, Calls DEF DInv, ProxyInv, ProxyTypeOK, CallTypeOK
      <4> QED BY <4>1 DEF Excused, Remove
    <3> QED BY <3>1, <3>2
  <2>7. CASE Unreported(h, b)
    <3>1. CASE value[Dump(h, b)] = Undefined
      BY <3>1, <1>2 DEF Excused, Unreported, Dump
    <3>2. CASE value[Dump(h, b)] # Undefined
      <4>1. value[Dump(h, b)] \subseteq ran[Dump(h, b)]
        BY <2>1, <2>4, <3>2, Calls DEF DInv, ProxyInv, DataRan
      <4>2. \A k \in value[Dump(h, b)] : dumped'[Dump(h, b)][k] = dumped[Dump(h, b)][k]
        <5>1. CASE c = Dump(h, b)
          <6>1. c[3] = "dump"
            BY <5>1 DEF Dump
          <6>2. dumped' = [dumped EXCEPT ![c][n] = barred[n] \cap {c[2]}]
            BY <6>1 DEF ProxyRuns
          <6>3. n \notin value[Dump(h, b)]
            BY <4>1, <5>1, <1>2
          <6> QED BY <5>1, <6>2, <6>3, <2>4, <3>2 DEF DInv, ProxyInv, ProxyTypeOK
        <5>2. CASE c # Dump(h, b)
          BY <5>2, <2>1, Calls DEF ProxyRuns, DInv, ProxyInv, ProxyTypeOK
        <5> QED BY <5>1, <5>2
      <4>3. Unreported(h, b)'
        BY <2>7, <4>2, <1>2 DEF Unreported, Dump
      <4> QED BY <4>3 DEF Excused
    <3> QED BY <3>1, <3>2
  <2> QED BY <2>3, <2>5, <2>6, <2>7 DEF Excused
<1> QED BY <1>1, <1>3, <1>4 DEF DInv

LEMMA TaskEndsDeleted == ASSUME DInv, NEW c \in Call, TaskEnds(c) PROVE DInv'
<1>1. ProxyInv'
  BY TaskEndsInv DEF DInv
<1>2. PICK v \in Value : Close(c, v)
  BY DEF TaskEnds
<1>3. UNCHANGED <<open, ran, barred, dumped, at, ids, todo, current, renewed>>
  BY <1>2 DEF TaskEnds, Close, handler
<1>4. value' = [value EXCEPT ![c] = v] /\ value[c] = Pending
  BY <1>2 DEF Close
<1>5. UnmadeIdle' /\ NotBegun' /\ NothingLeft'
  BY <1>3 DEF DInv, UnmadeIdle, NotBegun, NothingLeft
<1>6. SeenGone'
  <2> SUFFICES ASSUME NEW h \in Handler, NEW b \in Seen(h)
               PROVE  /\ value'[Dump(h, b)] \in (SUBSET Node) \cup {Undefined}
                      /\ \A n \in Node : b \in barred[n] => Excused(h, n, b)'
    BY <1>3 DEF SeenGone, Seen, Dump
  <2>1. /\ value[Dump(h, b)] \in (SUBSET Node) \cup {Undefined}
        /\ \A n \in Node : b \in barred[n] => Excused(h, n, b)
    BY DEF DInv, SeenGone
  <2>2. Dump(h, b) # c /\ Dump(h, b) \in Call
    BY <2>1, <1>4, ValueAssumption, SeenBans, Calls DEF DInv, ProxyInv, Value
  <2>3. value'[Dump(h, b)] = value[Dump(h, b)]
    BY <2>2, <1>4 DEF DInv, ProxyInv, ProxyTypeOK, CallTypeOK
  <2> QED BY <2>1, <2>3, <1>3 DEF Excused, Unreported, Dump, Remove
<1> QED BY <1>1, <1>5, <1>6 DEF DInv

(* A proxy that bans an id again excuses it for every request that began. *)
LEMMA BansDeleted ==
    ASSUME DInv, NEW n \in Node, NEW b \in Ban, ProxyBans(n, b) \/ BanExpires(n, b)
    PROVE  DInv'
<1>1. ProxyInv'
  BY BansInv DEF DInv
<1>2. UNCHANGED <<open, ran, value, dumped, at, ids, todo, current, alive>>
  BY DEF ProxyBans, BanExpires, callVars, handler
<1>3. UnmadeIdle' /\ NotBegun' /\ NothingLeft'
  BY <1>2 DEF DInv, UnmadeIdle, NotBegun, NothingLeft
<1>4. \A g \in Handler : Seen(g)' = Seen(g)
  BY <1>2 DEF Seen
<1>5. CASE BanExpires(n, b)
  <2>1. renewed' = renewed /\ \A m \in Node : barred'[m] \subseteq barred[m]
    BY <1>5 DEF BanExpires, DInv, ProxyInv, ProxyTypeOK
  <2> QED BY <1>1, <1>2, <1>3, <1>4, <2>1, SeenGoneKept DEF DInv
<1>6. CASE ProxyBans(n, b)
  <2>1. /\ barred' = [barred EXCEPT ![n] = @ \cup {b}]
        /\ renewed' = renewed \cup {<<h, n, b>> : h \in {g \in Handler : at[g] # "idle"}}
    BY <1>6 DEF ProxyBans
  <2>2. ASSUME NEW h \in Handler, NEW d \in Seen(h), NEW m \in Node, d \in barred'[m]
        PROVE  Excused(h, m, d)'
    <3>1. d \in Ban /\ at[h] # "idle"
      BY <2>2, SeenBans DEF DInv, ProxyInv, Seen
    <3>2. CASE m = n /\ d = b
      BY <3>1, <3>2, <2>1 DEF Excused
    <3>3. CASE ~(m = n /\ d = b)
      <4>1. d \in barred[m]
        BY <2>2, <3>3, <2>1 DEF DInv, ProxyInv, ProxyTypeOK
      <4>2. Excused(h, m, d)
        BY <2>2, <4>1 DEF DInv, SeenGone
      <4> QED BY <3>1, <4>2, <1>2, <2>1, ExcusedKept
    <3> QED BY <3>2, <3>3
  <2>3. SeenGone'
    BY <1>2, <1>4, <2>2 DEF DInv, SeenGone, Dump
  <2> QED BY <1>1, <1>3, <2>3 DEF DInv
<1> QED BY <1>5, <1>6

LEMMA StutterDeleted == ASSUME DInv, UNCHANGED proxyVars PROVE DInv'
<1>1. UNCHANGED <<open, ran, value, barred, dumped, at, ids, todo, current, alive, renewed>>
  BY DEF proxyVars, callVars, handler
<1>2. ProxyInv'
  BY StutterInv DEF DInv
<1>3. UnmadeIdle' /\ NotBegun' /\ NothingLeft'
  BY <1>1 DEF DInv, UnmadeIdle, NotBegun, NothingLeft
<1>4. \A h \in Handler : Seen(h)' \subseteq Seen(h)
  BY <1>1 DEF Seen
<1> QED BY <1>1, <1>2, <1>3, <1>4, SeenGoneKept DEF DInv

LEMMA NextDeleted == ASSUME DInv, [ProxyNext]_proxyVars PROVE DInv'
BY DeleteDeleted, NextIdDeleted, AfterDumpDeleted, TaskEndsDeleted, ProxyRunsDeleted,
   BansDeleted, StutterDeleted DEF ProxyNext, Serve

(* For any number of requests, proxies and bans: a ban that a DELETE has      *)
(* answered for is still in a proxy's table only if the proxy set it again,   *)
(* has yet to run the removal, or if no proxy whose answer was counted had it. *)
THEOREM DeletedBans == ProxySpec => []DeletedUnless
<1>1. ProxyInit => DInv
  BY InitDeleted
<1>2. DInv /\ [ProxyNext]_proxyVars => DInv'
  BY NextDeleted
<1>3. DInv => DeletedUnless
  BY DeletedIs
<1> QED BY <1>1, <1>2, <1>3, PTL DEF ProxySpec

-----------------------------------------------------------------------------
\* The calls

(* What the handlers do with the task agent is what TaskCall allows, so the  *)
(* helper, which implements TaskCall, may stand for it: a step makes or ends *)
(* one call, lets a proxy run one task, or leaves the calls alone (28-45,    *)
(* 195-214 of ban-registration.service.ts and its repository).               *)
THEOREM CallsRefine == ProxySpec => CallSpec
<1>1. ProxyInit => CallInit
  BY DEF ProxyInit
<1>2. ASSUME [ProxyNext]_proxyVars, ProxyInv, ProxyTypeOK PROVE [CallNext]_callVars
  <2>1. ASSUME NEW h \in Handler, Delete(h) PROVE UNCHANGED callVars
    BY <2>1 DEF Delete
  <2>2. ASSUME NEW h \in Handler, NextId(h) PROVE [CallNext]_callVars
    <3>1. CASE todo[h] = {}
      BY <2>2, <3>1 DEF NextId
    <3>2. CASE todo[h] # {}
      <4>1. PICK b \in todo[h] : Open(Dump(h, b))
        BY <2>2, <3>2 DEF NextId
      <4>2. b \in Ban
        BY <1>2 DEF ProxyTypeOK
      <4>3. Dump(h, b) \in Call
        BY <4>2, Calls
      <4>4. QED
        BY <4>1, <4>3 DEF CallNext
    <3>3. QED
      BY <3>1, <3>2
  <2>3. ASSUME NEW h \in Handler, AfterDump(h) PROVE [CallNext]_callVars
    <3>1. current[h] \in Ban
      BY <1>2, <2>3 DEF AfterDump, ProxyInv, Waits
    <3>2. Remove(h, current[h]) \in Call
      BY <3>1, Calls
    <3>3. UNCHANGED callVars \/ Open(Remove(h, current[h]))
      BY <2>3 DEF AfterDump
    <3>4. QED
      BY <3>2, <3>3 DEF CallNext
  <2>4. ASSUME NEW c \in Call, TaskEnds(c) PROVE CallNext
    BY <2>4 DEF TaskEnds, CallNext
  <2>5. ASSUME NEW c \in Call, NEW n \in Node, ProxyRuns(c, n) PROVE CallNext
    BY <2>5 DEF ProxyRuns, CallNext
  <2>6. ASSUME NEW n \in Node, NEW b \in Ban, ProxyBans(n, b) \/ BanExpires(n, b)
        PROVE  UNCHANGED callVars
    BY <2>6 DEF ProxyBans, BanExpires
  <2>7. CASE UNCHANGED proxyVars
    BY <2>7 DEF proxyVars, callVars
  <2>8. QED
    BY <1>2, <2>1, <2>2, <2>3, <2>4, <2>5, <2>6, <2>7 DEF ProxyNext, Serve
<1>3. QED
  BY <1>1, <1>2, Invariant, ProxyTypes, PTL DEF ProxySpec, CallSpec
=============================================================================
