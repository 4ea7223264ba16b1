--------------------------- MODULE CustomersProofs ---------------------------
(* Proofs about Customers: types, the schedule, contacts, resellers, packages. *)
EXTENDS Customers, SequenceTheorems, TLAPS

Requested == CreateRequest \cup UpdateRequest \cup DeleteRequest \cup DropRequest

(* A customer that a request changes is there; the contact that it was given *)
(* was active when it was read; what is not there has no schedule.           *)
Known ==
    /\ \A h \in Request : req[h] # None /\ req[h].op \in {"update", "delete"} =>
         customer[req[h].c] \in CustomerRow
    /\ \A h \in Request : req[h] # None /\ req[h].op \in {"create", "update"} =>
         req[h].read.status = "active"
    /\ \A c \in Customer : ~Present(c) => begun[c] = <<>> /\ later[c] = {}

(* The oldest mapping begun of who was charged from the start has no end. *)
Anchored == \A c \in Customer : made[c] = "now" => begun[c] # <<>> /\ ~begun[c][1].ends

(* A package that nothing overrode is charged by its mapping alone. *)
PackageAlone ==
    \A c \in Customer : Present(c) /\ "overridden" \notin excuse[c] =>
        LET g == customer[c].package
        IN  g # None => /\ later[c] = {}
                        /\ begun[c] \in {<<>>, <<[profile |-> PackageProfile[g],
                                                 ends |-> FALSE]>>}

IInv == TypeOK /\ Known /\ Anchored /\ ResellerMatches /\ PackageAlone /\ ContactActive

-----------------------------------------------------------------------------
(* The schedule. *)

(* The mappings of a customer, begun or not. *)
Mappings(c) == later[c] \cup {begun[c][i] : i \in DOMAIN begun[c]}

(* A sequence of mappings to which one is added as the schedule does it. *)
LEMMA AddedMapping ==
    ASSUME NEW s \in Seq(Mapping), OpenFirst(s), NEW m \in Mapping
    PROVE  LET t == IF m.ends THEN Append(s, m) ELSE <<m>>
           IN  /\ t \in Seq(Mapping) /\ OpenFirst(t) /\ t # <<>>
               /\ s # <<>> /\ ~s[1].ends => ~t[1].ends
               /\ \A i \in DOMAIN t : t[i] = m \/ \E j \in DOMAIN s : t[i] = s[j]
<1>1. CASE m.ends
  <2> DEFINE t == Append(s, m)
  <2>1. /\ t \in Seq(Mapping) /\ t # <<>> /\ Len(t) = Len(s) + 1
        /\ \A i \in 1 .. Len(s) : t[i] = s[i]
        /\ t[Len(s) + 1] = m
    BY AppendProperties
  <2>2. Len(s) \in Nat /\ DOMAIN s = 1 .. Len(s) /\ DOMAIN t = 1 .. Len(t)
    BY <2>1, LenProperties
  <2>3. OpenFirst(t)
    BY <1>1, <2>1, <2>2 DEF OpenFirst
  <2>4. s # <<>> => Len(s) \in Nat \ {0}
    BY EmptySeq
  <2>5. s # <<>> => t[1] = s[1]
    BY <2>1, <2>4
  <2>6. \A i \in DOMAIN t : t[i] = m \/ \E j \in DOMAIN s : t[i] = s[j]
    BY <2>1, <2>2
  <2> HIDE DEF t
  <2> QED BY <1>1, <2>1, <2>3, <2>5, <2>6 DEF t
<1>2. CASE ~m.ends
  <2>1. /\ <<m>> \in Seq(Mapping) /\ <<m>> # <<>> /\ Len(<<m>>) = 1
        /\ <<m>>[1] = m /\ DOMAIN <<m>> = 1 .. 1
    OBVIOUS
  <2>2. OpenFirst(<<m>>)
    BY <2>1 DEF OpenFirst
  <2> QED BY <1>2, <2>1, <2>2
<1> QED BY <1>1, <1>2

(* The part of a sequence from m to n. *)
LEMMA Segment ==
    ASSUME NEW S, NEW s \in Seq(S), NEW m \in 1 .. Len(s) + 1, NEW n \in m - 1 .. Len(s)
    PROVE  /\ SubSeq(s, m, n) \in Seq(S)
           /\ Len(SubSeq(s, m, n)) = n - m + 1
           /\ \A k \in 1 .. n - m + 1 : SubSeq(s, m, n)[k] = s[m + k - 1]
OBVIOUS

(* One whose interval is over is taken out. *)
LEMMA EndedMapping ==
    ASSUME NEW s \in Seq(Mapping), OpenFirst(s), NEW i \in DOMAIN s, s[i].ends
    PROVE  LET t == RemoveAt(s, i)
           IN  /\ t \in Seq(Mapping) /\ OpenFirst(t)
               /\ ~s[1].ends => t # <<>> /\ ~t[1].ends
               /\ \A j \in DOMAIN t : \E k \in DOMAIN s : t[j] = s[k]
<1> DEFINE t == RemoveAt(s, i)
<1>1. Len(s) \in Nat /\ DOMAIN s = 1 .. Len(s) /\ i \in 1 .. Len(s)
  BY LenProperties
<1>2. t \in Seq(Mapping)
  BY <1>1 DEF RemoveAt
<1>3. Len(t) = Len(s) - 1
  BY <1>1 DEF RemoveAt
<1>4. ASSUME NEW j \in 1 .. Len(s) - 1
      PROVE  t[j] = IF j <= i - 1 THEN s[j] ELSE s[j + 1]
  <2> DEFINE a == SubSeq(s, 1, i - 1)
             b == SubSeq(s, i + 1, Len(s))
  <2> HIDE DEF t, a, b
  <2>1. a \in Seq(Mapping) /\ Len(a) = i - 1 /\ (j <= i - 1 => a[j] = s[j])
    <3>1. 1 \in 1 .. Len(s) + 1 /\ i - 1 \in 1 - 1 .. Len(s)
      BY <1>1
    <3>2. /\ a \in Seq(Mapping) /\ Len(a) = i - 1 - 1 + 1
          /\ \A k \in 1 .. i - 1 - 1 + 1 : a[k] = s[1 + k - 1]
      BY <3>1, Segment DEF a
    <3> QED BY <1>1, <3>2
  <2>2. b \in Seq(Mapping) /\ Len(b) = Len(s) - i /\ (j >= i => b[j - (i - 1)] = s[j + 1])
    <3>1. i + 1 \in 1 .. Len(s) + 1 /\ Len(s) \in i + 1 - 1 .. Len(s)
      BY <1>1
    <3>2. /\ b \in Seq(Mapping) /\ Len(b) = Len(s) - (i + 1) + 1
          /\ \A k \in 1 .. Len(s) - (i + 1) + 1 : b[k] = s[i + 1 + k - 1]
      BY <3>1, Segment DEF b
    <3>3. ASSUME j >= i PROVE b[j - (i - 1)] = s[j + 1]
      <4>1. /\ j - (i - 1) \in 1 .. Len(s) - (i + 1) + 1
            /\ i + 1 + (j - (i - 1)) - 1 = j + 1
        BY <1>1, <3>3
      <4> QED BY <3>2, <4>1
    <3> QED BY <1>1, <3>2, <3>3
  <2>3. t[j] = IF j <= i - 1 THEN a[j] ELSE b[j - (i - 1)]
    <3>1. t = a \o b
      BY DEF RemoveAt, a, b, t
    <3>2. \A k \in 1 .. Len(a) + Len(b) :
             (a \o b)[k] = IF k <= Len(a) THEN a[k] ELSE b[k - Len(a)]
      BY <2>1, <2>2, ConcatProperties
    <3>3. j \in 1 .. Len(a) + Len(b)
      BY <1>1, <2>1, <2>2
    <3>4. t[j] = IF j <= Len(a) THEN a[j] ELSE b[j - Len(a)]
      BY <3>1, <3>2, <3>3
    <3> QED BY <2>1, <3>4
  <2> QED BY <1>1, <2>1, <2>2, <2>3
<1>5. /\ t \in Seq(Mapping) /\ Len(t) = Len(s) - 1
      /\ \A j \in 1 .. Len(s) - 1 : t[j] = IF j <= i - 1 THEN s[j] ELSE s[j + 1]
  BY <1>2, <1>3, <1>4
<1> HIDE DEF t
<1>7. DOMAIN t = 1 .. Len(s) - 1
  BY <1>5, LenProperties
<1>8. OpenFirst(t)
  BY <1>1, <1>5 DEF OpenFirst
<1>9. ASSUME ~s[1].ends PROVE t # <<>> /\ ~t[1].ends
  <2>1. i # 1 /\ Len(s) - 1 >= 1
    BY <1>1, <1>9
  <2>2. t # <<>>
    BY <1>5, <2>1, EmptySeq
  <2>3. t[1] = s[1]
    BY <1>1, <1>5, <2>1
  <2> QED BY <1>9, <2>2, <2>3
<1>10. ASSUME NEW j \in DOMAIN t PROVE \E k \in DOMAIN s : t[j] = s[k]
  BY <1>1, <1>5, <1>7
<1> QED BY <1>5, <1>8, <1>9, <1>10 DEF t

(* What Schedule makes of a customer's mappings. *)
LEMMA ScheduleKeeps ==
    ASSUME TypeOK, NEW c \in Customer, NEW m \in Proposal \cup {None}, NEW delete \in BOOLEAN,
           Schedule(c, m, delete)
    PROVE  /\ begun' \in [Customer -> Seq(Mapping)] /\ later' \in [Customer -> SUBSET Mapping]
           /\ \A d \in Customer : OpenFirst(begun'[d])
           /\ \A d \in Customer \ {c} : begun'[d] = begun[d] /\ later'[d] = later[d]
           /\ m = None => begun'[c] = begun[c] /\ (~delete => later'[c] = later[c])
           /\ Fresh(m) => begun'[c] = <<Strip(m)>> /\ (later[c] = {} \/ delete => later'[c] = {})
           /\ begun[c] # <<>> /\ ~begun[c][1].ends => begun'[c] # <<>> /\ ~begun'[c][1].ends
           /\ \A x \in Mappings(c)' : x \in Mappings(c) \/ (m # None /\ x = Strip(m))
<1>1. begun[c] \in Seq(Mapping) /\ OpenFirst(begun[c]) /\ later[c] \in SUBSET Mapping
  BY DEF TypeOK
<1>2. m # None => m \in Proposal /\ Strip(m) \in Mapping /\ Strip(m).ends = m.ends
  BY DEF Strip, Proposal, Mapping
<1>3. /\ begun' = [begun EXCEPT ![c] = begun'[c]] /\ later' = [later EXCEPT ![c] = later'[c]]
      /\ later'[c] = (IF delete THEN {} ELSE later[c])
                     \cup (IF m # None /\ m.future THEN {Strip(m)} ELSE {})
      /\ begun'[c] = IF m = None \/ m.future THEN begun[c]
                     ELSE IF m.ends THEN Append(begun[c], Strip(m)) ELSE <<Strip(m)>>
  BY DEF Schedule, TypeOK
<1>4. CASE m = None \/ m.future
  <2>1. begun'[c] = begun[c]
    BY <1>3, <1>4
  <2>2. later'[c] \in SUBSET Mapping
    BY <1>1, <1>2, <1>3
  <2>3. /\ begun' \in [Customer -> Seq(Mapping)] /\ later' \in [Customer -> SUBSET Mapping]
        /\ \A d \in Customer \ {c} : begun'[d] = begun[d] /\ later'[d] = later[d]
    BY <1>1, <1>3, <2>1, <2>2 DEF TypeOK
  <2>4. \A d \in Customer : OpenFirst(begun'[d])
    BY <2>1, <2>3 DEF TypeOK
  <2>5. \A x \in Mappings(c)' : x \in Mappings(c) \/ (m # None /\ x = Strip(m))
    BY <1>3, <2>1 DEF Mappings
  <2>6. ~Fresh(m)
    BY <1>4 DEF Fresh
  <2>7. m = None /\ ~delete => later'[c] = later[c]
    BY <1>3
  <2> QED BY <2>1, <2>3, <2>4, <2>5, <2>6, <2>7
<1>5. CASE ~(m = None \/ m.future)
  <2>1. begun'[c] = IF Strip(m).ends THEN Append(begun[c], Strip(m)) ELSE <<Strip(m)>>
    BY <1>2, <1>3, <1>5
  <2>2. /\ begun'[c] \in Seq(Mapping) /\ OpenFirst(begun'[c]) /\ begun'[c] # <<>>
        /\ begun[c] # <<>> /\ ~begun[c][1].ends => ~begun'[c][1].ends
        /\ \A i \in DOMAIN begun'[c] :
             begun'[c][i] = Strip(m) \/ \E j \in DOMAIN begun[c] : begun'[c][i] = begun[c][j]
    <3> DEFINE t == IF Strip(m).ends THEN Append(begun[c], Strip(m)) ELSE <<Strip(m)>>
    <3>1. /\ t \in Seq(Mapping) /\ OpenFirst(t) /\ t # <<>>
          /\ begun[c] # <<>> /\ ~begun[c][1].ends => ~t[1].ends
          /\ \A i \in DOMAIN t : t[i] = Strip(m) \/ \E j \in DOMAIN begun[c] : t[i] = begun[c][j]
      BY <1>1, <1>2, <1>5, AddedMapping
    <3> HIDE DEF t
    <3>2. begun'[c] = t
      BY <2>1 DEF t
    <3> QED BY <3>1, <3>2
  <2>3. later'[c] = IF delete THEN {} ELSE later[c]
    BY <1>3, <1>5
  <2>4. Fresh(m) => begun'[c] = <<Strip(m)>>
    BY <1>2, <2>1 DEF Fresh
  <2>5. /\ begun' \in [Customer -> Seq(Mapping)] /\ later' \in [Customer -> SUBSET Mapping]
        /\ \A d \in Customer \ {c} : begun'[d] = begun[d] /\ later'[d] = later[d]
    BY <1>1, <1>3, <2>2, <2>3 DEF TypeOK
  <2>6. \A d \in Customer : OpenFirst(begun'[d])
    BY <2>2, <2>5 DEF TypeOK
  <2>7. \A x \in Mappings(c)' : x \in Mappings(c) \/ (m # None /\ x = Strip(m))
    BY <1>5, <2>2, <2>3 DEF Mappings
  <2> QED BY <1>5, <2>2, <2>3, <2>4, <2>5, <2>6, <2>7
<1> QED BY <1>4, <1>5

-----------------------------------------------------------------------------
LEMMA InitInv == Init => IInv
<1> SUFFICES ASSUME Init PROVE IInv
  OBVIOUS
<1>1. TypeOK
  <2>1. <<>> \in Seq(Mapping) /\ OpenFirst(<<>>)
    BY DEF OpenFirst
  <2>2. contact \in [Contact -> ContactRow \cup {None}]
    BY CatalogueAssumption DEF Init, ContactRow
  <2> QED BY <2>1, <2>2 DEF Init, TypeOK
<1>2. Known
  BY DEF Init, Known
<1>3. Anchored
  BY NoRowAssumption DEF Init, Anchored, Made
<1>4. ResellerMatches /\ PackageAlone /\ ContactActive
  BY DEF Init, ResellerMatches, PackageAlone, ContactActive, Present
<1> QED BY <1>1, <1>2, <1>3, <1>4 DEF IInv

(* A step that begins or ends a transaction without writing. *)
LEMMA RequestOnly ==
    ASSUME IInv, UNCHANGED <<contact, customer, schedule, history>>,
           req' \in [Request -> {None} \cup Requested],
           \A h \in Request : req'[h] = req[h] \/ req'[h] = None
             \/ /\ req'[h].op \in {"update", "delete"} => customer[req'[h].c] \in CustomerRow
                /\ req'[h].op \in {"create", "update"} => req'[h].read.status = "active"
    PROVE  IInv'
<1> USE DEF IInv, schedule, history
<1>1. TypeOK'
  BY DEF TypeOK, Requested
<1>2. Known'
  BY DEF Known, Present
<1>3. Anchored' /\ ResellerMatches' /\ PackageAlone' /\ ContactActive'
  BY DEF Anchored, ResellerMatches, PackageAlone, ContactActive, Present, Active
<1> QED BY <1>1, <1>2, <1>3

LEMMA BeginInv ==
    ASSUME IInv, NEW h \in Request, NEW r \in Requested, Begin(h, r),
           r.op \in {"update", "delete"} => customer[r.c] \in CustomerRow,
           r.op \in {"create", "update"} => r.read.status = "active"
    PROVE  IInv'
<1>1. /\ req' \in [Request -> {None} \cup Requested]
      /\ \A g \in Request : req'[g] = req[g] \/ req'[g] = r
  BY DEF Begin, IInv, TypeOK, Requested
<1> QED BY <1>1, RequestOnly DEF Begin

LEMMA ReadsInv ==
    ASSUME IInv, NEW h \in Request,
           Create(h) \/ Update(h) \/ Terminate(h) \/ DropContact(h) \/ Refuse(h)
    PROVE  IInv'
<1>1. CASE Create(h)
  <2>1. PICK c \in Customer, k \in Contact :
          Active(k) /\ Begin(h, [op |-> "create", c |-> c, k |-> k, read |-> contact[k]])
    BY <1>1 DEF Create
  <2>2. contact[k] \in ContactRow /\ contact[k].status = "active"
    BY <2>1 DEF Active, IInv, TypeOK
  <2>3. [op |-> "create", c |-> c, k |-> k, read |-> contact[k]] \in Requested
    BY <2>2 DEF Requested, CreateRequest
  <2> QED BY <2>1, <2>2, <2>3, BeginInv
<1>2. CASE Update(h)
  <2>1. PICK c \in Customer, k \in Contact :
          Present(c) /\ begun[c] # <<>> /\ Active(k) /\ BeginUpdate(h, c, k)
    BY <1>2 DEF Update
  <2> DEFINE r == [op |-> "update", c |-> c, k |-> k, read |-> contact[k],
                   status |-> customer[c].status, held |-> customer[c].package,
                   charged |-> Effective(c)]
  <2>2. contact[k] \in ContactRow /\ contact[k].status = "active" /\ customer[c] \in CustomerRow
    BY <2>1 DEF Active, Present, IInv, TypeOK
  <2>3. Effective(c) \in Profile
    <3>1. begun[c] \in Seq(Mapping)
      BY DEF IInv, TypeOK
    <3>2. Len(begun[c]) \in 1 .. Len(begun[c])
      BY <2>1, <3>1, EmptySeq
    <3>3. begun[c][Len(begun[c])] \in Mapping
      BY <3>1, <3>2, ElementOfSeq
    <3> QED BY <2>1, <3>3 DEF Effective, Last, Mapping
  <2>4. r \in Requested
    BY <2>2, <2>3 DEF Requested, UpdateRequest, CustomerRow
  <2>5. Begin(h, r)
    BY <2>1 DEF BeginUpdate
  <2>6. r.c = c /\ r.read = contact[k]
    OBVIOUS
  <2> HIDE DEF r
  <2> QED BY <2>2, <2>4, <2>5, <2>6, BeginInv
<1>3. CASE Terminate(h)
  <2>1. PICK c \in Customer :
          Present(c) /\ Begin(h, [op |-> "delete", c |-> c, old |-> customer[c]])
    BY <1>3 DEF Terminate
  <2>2. customer[c] \in CustomerRow
    BY <2>1 DEF Present, IInv, TypeOK
  <2>3. [op |-> "delete", c |-> c, old |-> customer[c]] \in Requested
    BY <2>2 DEF Requested, DeleteRequest
  <2> QED BY <2>1, <2>2, <2>3, BeginInv
<1>4. CASE DropContact(h)
  <2>1. PICK k \in Contact : Begin(h, [op |-> "drop", k |-> k])
    BY <1>4 DEF DropContact
  <2>2. [op |-> "drop", k |-> k] \in Requested
    BY DEF Requested, DropRequest
  <2> QED BY <2>1, <2>2, BeginInv
<1>5. CASE Refuse(h)
  <2>1. /\ req' \in [Request -> {None} \cup Requested]
        /\ \A g \in Request : req'[g] = req[g] \/ req'[g] = None
    BY <1>5 DEF Refuse, Answer, IInv, TypeOK, Requested
  <2> QED BY <1>5, <2>1, RequestOnly DEF Refuse
<1> QED BY <1>1, <1>2, <1>3, <1>4, <1>5

-----------------------------------------------------------------------------
(* The choices a body has. *)
LEMMA CreateChoices ==
    ASSUME NEW r \in Reseller, NEW choice \in CreateChoice(r)
    PROVE  /\ choice[1] \in Package \cup {None} /\ choice[2] \in Proposal \cup {None}
           /\ choice[2] # None => ProfileReseller[choice[2].profile] = r
           /\ choice[1] # None => choice[2] \in {None, AtOnce(PackageProfile[choice[1]])}
<1>1. \A p \in Profile : AtOnce(p) \in Proposal /\ AtOnce(p).profile = p
  BY DEF AtOnce, Proposal
<1>2. \A g \in PackagesOf(r) : /\ g \in Package /\ PackageProfile[g] \in Profile
                               /\ ProfileReseller[PackageProfile[g]] = r
  BY CatalogueAssumption DEF PackagesOf
<1>3. CASE choice \in {<<g, None>> : g \in Package \cup {None}}
  BY <1>3
<1>4. CASE choice \in {<<None, AtOnce(p)>> : p \in ProfilesOf(r)}
  BY <1>1, <1>4 DEF ProfilesOf
<1>5. CASE choice \in {<<g, AtOnce(PackageProfile[g])>> : g \in PackagesOf(r)}
  BY <1>1, <1>2, <1>5
<1>6. CASE choice \in {<<None, m>> : m \in {n \in Proposal : /\ n.profile \in ProfilesOf(r)
                                                             /\ (n.future \/ ~n.ends)}}
  BY <1>6 DEF ProfilesOf
<1> QED BY <1>3, <1>4, <1>5, <1>6 DEF CreateChoice

LEMMA UpdateChoices ==
    ASSUME NEW r \in UpdateRequest, NEW choice \in UpdateChoice(r)
    PROVE  /\ choice[2] \in Package \cup {None} /\ choice[3] \in Proposal \cup {None}
           /\ choice[3] # None => ProfileReseller[choice[3].profile] = r.read.reseller
           /\ choice[3] # None /\ choice[1] = "package" =>
                choice[3] = AtOnce(PackageProfile[choice[2]])
           /\ choice[3] = None => choice[2] = r.held
<1> DEFINE own == ProfilesOf(r.read.reseller)
<1>1. \A p \in Profile : AtOnce(p) \in Proposal /\ AtOnce(p).profile = p
  BY DEF AtOnce, Proposal
<1>2. r.held \in Package \cup {None}
  BY DEF UpdateRequest
<1>3. \A g \in PackagesOf(r.read.reseller) :
        /\ g \in Package /\ PackageProfile[g] \in Profile
        /\ ProfileReseller[PackageProfile[g]] = r.read.reseller
  BY CatalogueAssumption DEF PackagesOf
<1>4. CASE choice = <<"id", r.held, None>>
  BY <1>2, <1>4
<1>5. CASE choice \in {<<"id", r.held, AtOnce(p)>> : p \in own \ {r.charged}}
  <2>1. PICK p \in own : choice = <<"id", r.held, AtOnce(p)>>
    BY <1>5
  <2>2. p \in Profile /\ ProfileReseller[p] = r.read.reseller
    BY DEF ProfilesOf
  <2> QED BY <1>1, <1>2, <2>1, <2>2, NoRowAssumption
<1>6. CASE choice \in {<<"profiles", r.held, m>> : m \in {n \in Proposal : n.profile \in own}}
  BY <1>2, <1>6, NoRowAssumption DEF ProfilesOf
<1>7. CASE choice \in {<<"package", g, AtOnce(PackageProfile[g])>> :
                           g \in PackagesOf(r.read.reseller) \ {r.held}}
  BY <1>1, <1>3, <1>7, NoRowAssumption
<1>8. CASE choice \in {<<"package", g, None>> : g \in {r.held} \ {None}}
  BY <1>2, <1>8
<1> QED BY <1>4, <1>5, <1>6, <1>7, <1>8 DEF UpdateChoice

(* What a commit needs of the requests that are left. *)
LEMMA AnswerKnown ==
    ASSUME IInv, NEW h \in Request, Answer(h), customer' \in [Customer -> CustomerRow \cup {None}],
           \A c \in Customer : customer[c] \in CustomerRow => customer'[c] \in CustomerRow,
           \A c \in Customer : ~Present(c)' => begun'[c] = <<>> /\ later'[c] = {}
    PROVE  Known' /\ req' \in [Request -> {None} \cup Requested]
<1>1. /\ req' \in [Request -> {None} \cup Requested]
      /\ \A g \in Request : req'[g] = None \/ req'[g] = req[g]
  BY DEF Answer, IInv, TypeOK, Requested
<1>2. \A g \in Request : req[g] # None /\ req[g].op \in {"update", "delete"} =>
        req[g].c \in Customer
  BY DEF IInv, TypeOK, UpdateRequest, DeleteRequest, CreateRequest, DropRequest
<1>3. Known'
  <2>1. ASSUME NEW g \in Request, req'[g] # None, req'[g].op \in {"update", "delete"}
        PROVE  customer'[req'[g].c] \in CustomerRow
    BY <1>1, <1>2, <2>1 DEF IInv, Known
  <2>2. ASSUME NEW g \in Request, req'[g] # None, req'[g].op \in {"create", "update"}
        PROVE  req'[g].read.status = "active"
    BY <1>1, <2>2 DEF IInv, Known
  <2> QED BY <2>1, <2>2 DEF Known
<1> QED BY <1>1, <1>3

(* A new customer. *)
LEMMA CommitCreateInv ==
    ASSUME IInv, NEW h \in Request, CommitCreate(h)
    PROVE  IInv'
<1>0. PICK r \in CreateRequest : r = req[h]
  BY DEF CommitCreate, IInv, TypeOK, CreateRequest, UpdateRequest, DeleteRequest, DropRequest,
         ContactRow
<1>1. /\ r.c \in Customer /\ r.k \in Contact
      /\ r.read \in ContactRow /\ r.read.reseller \in Reseller
  BY DEF CreateRequest, ContactRow
<1>2. r.read.status = "active"
  BY <1>0 DEF IInv, Known, CommitCreate
<1>3. /\ ~Present(r.c) /\ contact[r.k] # None /\ Answer(h)
      /\ excuse' = [excuse EXCEPT ![r.c] = Overtaken(r)] /\ contact' = contact
  BY <1>0 DEF CommitCreate
<1>4. PICK choice \in CreateChoice(r.read.reseller) :
        /\ customer' = [customer EXCEPT ![r.c] =
              [status |-> "active", contact |-> r.k, package |-> choice[1]]]
        /\ Schedule(r.c, choice[2], FALSE)
        /\ made' = [made EXCEPT ![r.c] = IF choice[2] = None THEN "undefined"
                                         ELSE IF Fresh(choice[2]) THEN "now" ELSE "later"]
  BY <1>0 DEF CommitCreate
<1> DEFINE m == choice[2]
           g == choice[1]
           c == r.c
           row == [status |-> "active", contact |-> r.k, package |-> g]
<1>5. /\ g \in Package \cup {None} /\ m \in Proposal \cup {None}
      /\ m # None => ProfileReseller[m.profile] = r.read.reseller
      /\ g # None => m \in {None, AtOnce(PackageProfile[g])}
  BY <1>1, CreateChoices
<1>20. /\ c \in Customer /\ ~Present(c) /\ Answer(h)
       /\ contact' = contact /\ contact[r.k] # None
       /\ customer' = [customer EXCEPT ![c] = row] /\ row.contact = r.k /\ row.package = g
       /\ Schedule(c, m, FALSE)
       /\ excuse' = [excuse EXCEPT ![c] = Overtaken(r)]
       /\ made' = [made EXCEPT ![c] = IF m = None THEN "undefined"
                                      ELSE IF Fresh(m) THEN "now" ELSE "later"]
  BY <1>1, <1>3, <1>4
<1>21. row \in CustomerRow /\ row # None
  BY <1>1, <1>5, NoRowAssumption DEF CustomerRow
<1> HIDE DEF m, g, c, row
<1>6. /\ begun' \in [Customer -> Seq(Mapping)] /\ later' \in [Customer -> SUBSET Mapping]
      /\ \A d \in Customer : OpenFirst(begun'[d])
      /\ \A d \in Customer \ {c} : begun'[d] = begun[d] /\ later'[d] = later[d]
      /\ m = None => begun'[c] = begun[c] /\ later'[c] = later[c]
      /\ Fresh(m) => begun'[c] = <<Strip(m)>> /\ (later[c] = {} => later'[c] = {})
      /\ \A x \in Mappings(c)' : x \in Mappings(c) \/ (m # None /\ x = Strip(m))
  <2>1. TypeOK /\ FALSE \in BOOLEAN
    BY DEF IInv
  <2> QED BY <1>5, <1>20, <2>1, ScheduleKeeps
<1>7. begun[c] = <<>> /\ later[c] = {} /\ Mappings(c) = {}
  <2>1. begun[c] = <<>> /\ later[c] = {}
    BY <1>20 DEF IInv, Known
  <2> QED BY <2>1 DEF Mappings
<1>9. /\ customer' \in [Customer -> CustomerRow \cup {None}] /\ customer'[c] = row
      /\ \A d \in Customer \ {c} : customer'[d] = customer[d]
  BY <1>20, <1>21 DEF IInv, TypeOK
<1>10. /\ excuse' \in [Customer -> SUBSET Excuse] /\ excuse'[c] = Overtaken(r)
       /\ \A d \in Customer \ {c} : excuse'[d] = excuse[d]
  BY <1>20 DEF IInv, TypeOK, Overtaken, Excuse
<1>11. /\ made' \in [Customer -> Made \cup {None}] /\ (made'[c] = "now" => m # None /\ Fresh(m))
       /\ \A d \in Customer \ {c} : made'[d] = made[d]
  BY <1>20 DEF IInv, TypeOK, Made
<1>12. Known' /\ req' \in [Request -> {None} \cup Requested]
  <2>1. \A d \in Customer : ~Present(d)' => begun'[d] = <<>> /\ later'[d] = {}
    BY <1>6, <1>9, <1>21 DEF Present, IInv, Known
  <2>2. \A d \in Customer : customer[d] \in CustomerRow => customer'[d] \in CustomerRow
    BY <1>9, <1>21
  <2> QED BY <1>9, <1>20, <2>1, <2>2, AnswerKnown
<1>13. TypeOK'
  <2>1. contact' \in [Contact -> ContactRow \cup {None}]
    BY <1>20 DEF IInv, TypeOK
  <2> QED BY <1>6, <1>9, <1>10, <1>11, <1>12, <2>1 DEF TypeOK, Requested
<1>14. Anchored'
  <2>1. made'[c] = "now" => begun'[c] = <<Strip(m)>> /\ ~Strip(m).ends
    BY <1>6, <1>11 DEF Fresh, Strip
  <2>2. \A x : <<x>> # <<>> /\ <<x>>[1] = x
    OBVIOUS
  <2>3. made'[c] = "now" => begun'[c] # <<>> /\ ~begun'[c][1].ends
    BY <2>1, <2>2
  <2> QED BY <1>6, <1>11, <2>3 DEF IInv, Anchored
<1>15. ResellerMatches'
  <2> SUFFICES ASSUME NEW d \in Customer, Present(d)', "rehomed" \notin excuse'[d],
                      NEW x \in Mappings(d)'
               PROVE  ProfileReseller[x.profile] = contact'[customer'[d].contact].reseller
    BY DEF ResellerMatches, Mappings
  <2>1. CASE d = c
    <3>1. r.read.reseller = contact[r.k].reseller
      BY <1>10, <2>1 DEF Overtaken
    <3>2. m # None /\ x = Strip(m)
      BY <1>6, <1>7, <2>1
    <3> QED BY <1>5, <1>9, <1>20, <2>1, <3>1, <3>2 DEF Strip
  <2>2. CASE d # c
    <3>1. Mappings(d)' = Mappings(d) /\ Present(d) /\ "rehomed" \notin excuse[d]
      BY <1>6, <1>9, <1>10, <2>2 DEF Mappings, Present
    <3>2. x \in Mappings(d)
      BY <3>1
    <3>3. ProfileReseller[x.profile] = contact[customer[d].contact].reseller
      BY <3>1, <3>2 DEF IInv, ResellerMatches, Mappings
    <3> QED BY <1>9, <1>20, <2>2, <3>3
  <2> QED BY <2>1, <2>2
<1>16. PackageAlone'
  <2> SUFFICES ASSUME NEW d \in Customer, Present(d)', "overridden" \notin excuse'[d],
                      customer'[d].package # None
               PROVE  /\ later'[d] = {}
                      /\ begun'[d] \in {<<>>, <<[profile |-> PackageProfile[customer'[d].package],
                                                 ends |-> FALSE]>>}
    BY DEF PackageAlone
  <2>1. CASE d = c
    <3>1. CASE m = None
      BY <1>6, <1>7, <2>1, <3>1
    <3>2. CASE m # None
      <4>1. m = AtOnce(PackageProfile[g]) /\ customer'[d].package = g
        BY <1>5, <1>9, <1>20, <2>1, <3>2
      <4>2. Fresh(m) /\ Strip(m) = [profile |-> PackageProfile[g], ends |-> FALSE]
        BY <3>2, <4>1 DEF AtOnce, Fresh, Strip
      <4> QED BY <1>6, <1>7, <2>1, <4>1, <4>2
    <3> QED BY <3>1, <3>2
  <2>2. CASE d # c
    BY <1>6, <1>9, <1>10, <2>2 DEF IInv, PackageAlone, Present
  <2> QED BY <2>1, <2>2
<1>17. ContactActive'
  <2>1. "orphaned" \in excuse'[c] \/ Active(r.k)
    BY <1>2, <1>10 DEF Overtaken
  <2> QED BY <1>9, <1>10, <1>20, <2>1 DEF IInv, ContactActive, Present, Active
<1> QED BY <1>12, <1>13, <1>14, <1>15, <1>16, <1>17 DEF IInv

(* A customer changed: its row is what was read, what came in between is lost. *)
LEMMA CommitUpdateInv ==
    ASSUME IInv, NEW h \in Request, CommitUpdate(h)
    PROVE  IInv'
<1>0. PICK r \in UpdateRequest : r = req[h]
  BY DEF CommitUpdate, IInv, TypeOK, CreateRequest, UpdateRequest, DeleteRequest, DropRequest
<1>1. /\ r.c \in Customer /\ r.k \in Contact /\ r.op = "update"
      /\ r.status \in {"active", "terminated"}
  BY DEF UpdateRequest
<1>2. /\ r.read.status = "active" /\ contact[r.k] # None
      /\ customer[r.c] \in CustomerRow /\ customer[r.c] # None
  BY <1>0, <1>1, NoRowAssumption DEF IInv, Known, CommitUpdate
<1>20. PICK op \in {"patch", "put"}, choice \in UpdateChoice(req[h]) :
         \E s \in {"active"} \cup (IF op = "patch" THEN {req[h].status} ELSE {}) :
            LET row == Written(req[h], customer[req[h].c], op, s, choice[1], choice[2])
            IN  /\ customer' = [customer EXCEPT ![req[h].c] = row]
                /\ Schedule(req[h].c, choice[3], choice[3] # None)
                /\ excuse' = [excuse EXCEPT ![req[h].c] =
                     UpdateExcuse(req[h], customer[req[h].c], row, choice[1], choice[3])]
  BY Zenon DEF CommitUpdate
<1>21. PICK s \in {"active"} \cup (IF op = "patch" THEN {req[h].status} ELSE {}) :
         LET row == Written(req[h], customer[req[h].c], op, s, choice[1], choice[2])
         IN  /\ customer' = [customer EXCEPT ![req[h].c] = row]
             /\ Schedule(req[h].c, choice[3], choice[3] # None)
             /\ excuse' = [excuse EXCEPT ![req[h].c] =
                  UpdateExcuse(req[h], customer[req[h].c], row, choice[1], choice[3])]
  BY <1>20
<1>3. /\ s \in {"active", "terminated"} /\ choice \in UpdateChoice(r)
      /\ customer' = [customer EXCEPT ![r.c] =
           Written(r, customer[r.c], op, s, choice[1], choice[2])]
      /\ Schedule(r.c, choice[3], choice[3] # None)
      /\ excuse' = [excuse EXCEPT ![r.c] =
           UpdateExcuse(r, customer[r.c],
                        Written(r, customer[r.c], op, s, choice[1], choice[2]),
                        choice[1], choice[3])]
  BY <1>0, <1>1, <1>21
<1>4. PICK c \in Customer : c = r.c
  BY <1>1
<1>5. PICK now \in CustomerRow : now = customer[c]
  BY <1>2, <1>4
<1> DEFINE by == choice[1]
           g == choice[2]
           m == choice[3]
           row == Written(r, now, op, s, by, g)
<1>6. /\ g \in Package \cup {None} /\ m \in Proposal \cup {None}
      /\ m # None => ProfileReseller[m.profile] = r.read.reseller
      /\ m # None /\ by = "package" => m = AtOnce(PackageProfile[g])
      /\ m = None => g = r.held
  BY <1>3, UpdateChoices
<1>7. /\ row \in CustomerRow /\ row.contact = r.k /\ row.package \in {g, now.package}
      /\ by = "package" => row.package = g
  BY <1>1, <1>3, <1>6 DEF Written, CustomerRow
<1>8. /\ customer' = [customer EXCEPT ![c] = row]
      /\ Schedule(c, m, m # None)
      /\ excuse' = [excuse EXCEPT ![c] = UpdateExcuse(r, now, row, by, m)]
      /\ Answer(h) /\ contact' = contact /\ made' = made
  BY <1>0, <1>3, <1>4, <1>5 DEF CommitUpdate
<1> HIDE DEF by, g, m, row
<1>9. /\ begun' \in [Customer -> Seq(Mapping)] /\ later' \in [Customer -> SUBSET Mapping]
      /\ \A d \in Customer : OpenFirst(begun'[d])
      /\ \A d \in Customer \ {c} : begun'[d] = begun[d] /\ later'[d] = later[d]
      /\ m = None => begun'[c] = begun[c] /\ later'[c] = later[c]
      /\ Fresh(m) => begun'[c] = <<Strip(m)>> /\ later'[c] = {}
      /\ begun[c] # <<>> /\ ~begun[c][1].ends => begun'[c] # <<>> /\ ~begun'[c][1].ends
      /\ \A x \in Mappings(c)' : x \in Mappings(c) \/ (m # None /\ x = Strip(m))
  <2>1. TypeOK /\ (m # None) \in BOOLEAN /\ (Fresh(m) => m # None)
    BY DEF IInv, Fresh
  <2> DEFINE delete == m # None
  <2>2. Schedule(c, m, delete) /\ delete \in BOOLEAN
    BY <1>8
  <2> HIDE DEF delete
  <2>3. /\ begun' \in [Customer -> Seq(Mapping)] /\ later' \in [Customer -> SUBSET Mapping]
        /\ \A d \in Customer : OpenFirst(begun'[d])
        /\ \A d \in Customer \ {c} : begun'[d] = begun[d] /\ later'[d] = later[d]
        /\ m = None => begun'[c] = begun[c] /\ (~delete => later'[c] = later[c])
        /\ Fresh(m) => begun'[c] = <<Strip(m)>> /\ (later[c] = {} \/ delete => later'[c] = {})
        /\ begun[c] # <<>> /\ ~begun[c][1].ends => begun'[c] # <<>> /\ ~begun'[c][1].ends
        /\ \A x \in Mappings(c)' : x \in Mappings(c) \/ (m # None /\ x = Strip(m))
    BY <1>6, <2>1, <2>2, ScheduleKeeps
  <2> QED BY <2>1, <2>3 DEF delete
<1>10. /\ customer' \in [Customer -> CustomerRow \cup {None}] /\ customer'[c] = row
       /\ \A d \in Customer \ {c} : customer'[d] = customer[d]
       /\ Present(c) /\ row # None
  BY <1>5, <1>7, <1>8, NoRowAssumption DEF IInv, TypeOK, Present
<1>11. /\ excuse' \in [Customer -> SUBSET Excuse]
       /\ excuse'[c] = UpdateExcuse(r, now, row, by, m)
       /\ \A d \in Customer \ {c} : excuse'[d] = excuse[d]
  <2>1. UpdateExcuse(r, now, row, by, m) \in SUBSET Excuse
    BY DEF UpdateExcuse, Overtaken, Excuse
  <2> QED BY <1>8, <2>1 DEF IInv, TypeOK
<1>12. Known' /\ req' \in [Request -> {None} \cup Requested]
  <2>1. \A d \in Customer : ~Present(d)' => begun'[d] = <<>> /\ later'[d] = {}
    BY <1>9, <1>10 DEF Present, IInv, Known
  <2>2. \A d \in Customer : customer[d] \in CustomerRow => customer'[d] \in CustomerRow
    BY <1>7, <1>10
  <2> QED BY <1>8, <1>10, <2>1, <2>2, AnswerKnown
<1>13. TypeOK'
  BY <1>8, <1>9, <1>10, <1>11, <1>12 DEF IInv, TypeOK, Requested
<1>14. Anchored'
  BY <1>8, <1>9 DEF IInv, Anchored
<1>15. ResellerMatches'
  <2> SUFFICES ASSUME NEW d \in Customer, Present(d)', "rehomed" \notin excuse'[d],
                      NEW x \in Mappings(d)'
               PROVE  ProfileReseller[x.profile] = contact'[customer'[d].contact].reseller
    BY DEF ResellerMatches, Mappings
  <2>1. CASE d = c
    <3>1. /\ r.read.reseller = contact[r.k].reseller
          /\ Fresh(m) \/ (r.k = now.contact /\ "rehomed" \notin excuse[c])
      BY <1>4, <1>11, <2>1 DEF Overtaken, UpdateExcuse
    <3>2. CASE m # None /\ x = Strip(m)
      BY <1>6, <1>7, <1>8, <1>10, <2>1, <3>1, <3>2 DEF Strip
    <3>3. CASE ~(m # None /\ x = Strip(m))
      <4>1. x \in Mappings(c)
        BY <1>9, <2>1, <3>3
      <4>2. ~Fresh(m)
        <5> SUFFICES ASSUME Fresh(m) PROVE FALSE
          OBVIOUS
        <5>1. begun'[c] = <<Strip(m)>> /\ later'[c] = {} /\ m # None
          BY <1>9 DEF Fresh
        <5>2. \A y : DOMAIN <<y>> = {1} /\ <<y>>[1] = y
          OBVIOUS
        <5> QED BY <2>1, <3>3, <5>1, <5>2 DEF Mappings
      <4>3. ProfileReseller[x.profile] = contact[customer[c].contact].reseller
        BY <1>10, <3>1, <4>1, <4>2 DEF IInv, ResellerMatches, Mappings
      <4> QED BY <1>5, <1>7, <1>8, <1>10, <2>1, <3>1, <4>2, <4>3
    <3> QED BY <3>2, <3>3
  <2>2. CASE d # c
    <3>1. Mappings(d)' = Mappings(d) /\ Present(d) /\ "rehomed" \notin excuse[d]
      BY <1>9, <1>10, <1>11, <2>2 DEF Mappings, Present
    <3>2. ProfileReseller[x.profile] = contact[customer[d].contact].reseller
      BY <3>1 DEF IInv, ResellerMatches, Mappings
    <3> QED BY <1>8, <1>10, <2>2, <3>2
  <2> QED BY <2>1, <2>2
<1>16. PackageAlone'
  <2> SUFFICES ASSUME NEW d \in Customer, Present(d)', "overridden" \notin excuse'[d],
                      customer'[d].package # None
               PROVE  /\ later'[d] = {}
                      /\ begun'[d] \in {<<>>, <<[profile |-> PackageProfile[customer'[d].package],
                                                 ends |-> FALSE]>>}
    BY DEF PackageAlone
  <2>1. CASE d = c
    <3>1. /\ row.package # None
          /\ IF Fresh(m) THEN by = "package"
             ELSE m = None /\ r.held = now.package /\ "overridden" \notin excuse[c]
      BY <1>4, <1>10, <1>11, <2>1 DEF UpdateExcuse
    <3>2. CASE Fresh(m)
      <4>1. m = AtOnce(PackageProfile[g]) /\ row.package = g
        BY <1>6, <1>7, <3>1, <3>2 DEF Fresh
      <4>2. Strip(m) = [profile |-> PackageProfile[g], ends |-> FALSE]
        BY <4>1 DEF AtOnce, Strip
      <4> QED BY <1>9, <1>10, <2>1, <3>2, <4>1, <4>2
    <3>3. CASE ~Fresh(m)
      <4>1. row.package = now.package /\ begun'[c] = begun[c] /\ later'[c] = later[c]
        BY <1>6, <1>7, <1>9, <3>1, <3>3
      <4> QED BY <1>5, <1>10, <2>1, <3>1, <3>3, <4>1 DEF IInv, PackageAlone
    <3> QED BY <3>2, <3>3
  <2>2. CASE d # c
    BY <1>9, <1>10, <1>11, <2>2 DEF IInv, PackageAlone, Present
  <2> QED BY <2>1, <2>2
<1>17. ContactActive'
  <2>1. "orphaned" \in excuse'[c] \/ Active(r.k)
    BY <1>2, <1>11 DEF UpdateExcuse, Overtaken
  <2> QED BY <1>2, <1>7, <1>8, <1>10, <1>11, <2>1 DEF IInv, ContactActive, Present, Active
<1> QED BY <1>12, <1>13, <1>14, <1>15, <1>16, <1>17 DEF IInv

(* A customer terminated, with the row that was read. *)
LEMMA CommitTerminateInv ==
    ASSUME IInv, NEW h \in Request, CommitTerminate(h)
    PROVE  IInv'
<1>1. PICK r \in DeleteRequest : r = req[h]
  BY DEF CommitTerminate, IInv, TypeOK, CreateRequest, UpdateRequest, DeleteRequest, DropRequest
<1>2. PICK c \in Customer, old \in CustomerRow : c = r.c /\ old = r.old /\ r.op = "delete"
  BY DEF DeleteRequest
<1>3. customer[c] \in CustomerRow /\ customer[c] # None
  BY <1>1, <1>2, NoRowAssumption DEF IInv, Known, CommitTerminate
<1> DEFINE row == [old EXCEPT !.status = "terminated"]
<1>4. /\ row \in CustomerRow /\ row.status = "terminated" /\ row.contact = old.contact
      /\ row.package = old.package /\ row # None
  BY NoRowAssumption DEF CustomerRow
<1>5. /\ customer' = [customer EXCEPT ![c] = row] /\ contact[old.contact] # None
      /\ excuse' = [excuse EXCEPT ![c] =
           @ \cup {x \in {"overridden"} : old.package \notin {None, customer[c].package}}
             \cup {x \in {"rehomed"} : old.contact # customer[c].contact}]
      /\ Answer(h) /\ UNCHANGED <<contact, schedule, made>>
  BY <1>1, <1>2 DEF CommitTerminate
<1> HIDE DEF row
<1>6. /\ customer' \in [Customer -> CustomerRow \cup {None}] /\ customer'[c] = row
      /\ \A d \in Customer \ {c} : customer'[d] = customer[d] /\ excuse'[d] = excuse[d]
      /\ excuse' \in [Customer -> SUBSET Excuse]
      /\ excuse'[c] = excuse[c]
           \cup {x \in {"overridden"} : old.package \notin {None, customer[c].package}}
           \cup {x \in {"rehomed"} : old.contact # customer[c].contact}
  BY <1>4, <1>5 DEF IInv, TypeOK, Excuse
<1>7. Known' /\ req' \in [Request -> {None} \cup Requested]
  <2>1. \A d \in Customer : ~Present(d)' => begun'[d] = <<>> /\ later'[d] = {}
    BY <1>3, <1>4, <1>5, <1>6 DEF Present, IInv, Known, schedule
  <2>2. \A d \in Customer : customer[d] \in CustomerRow => customer'[d] \in CustomerRow
    BY <1>4, <1>6
  <2> QED BY <1>5, <1>6, <2>1, <2>2, AnswerKnown
<1>8. TypeOK' /\ Anchored'
  BY <1>5, <1>6, <1>7 DEF IInv, TypeOK, Requested, Anchored, schedule
<1>9. ResellerMatches'
  <2>1. "rehomed" \notin excuse'[c] =>
          "rehomed" \notin excuse[c] /\ row.contact = customer[c].contact
    BY <1>4, <1>6
  <2> QED BY <1>3, <1>5, <1>6, <2>1 DEF IInv, ResellerMatches, Present, schedule
<1>10. PackageAlone'
  <2>1. "overridden" \notin excuse'[c] =>
          "overridden" \notin excuse[c] /\ row.package \in {None, customer[c].package}
    BY <1>4, <1>6
  <2> QED BY <1>3, <1>5, <1>6, <2>1 DEF IInv, PackageAlone, Present, schedule
<1>11. ContactActive'
  BY <1>4, <1>5, <1>6 DEF IInv, ContactActive, Present, Active
<1> QED BY <1>7, <1>8, <1>9, <1>10, <1>11 DEF IInv

(* A contact changed: what it does to its customers is excused. *)
LEMMA UpdateContactInv ==
    ASSUME IInv, NEW k \in Contact, UpdateContact(k)
    PROVE  IInv'
<1>1. PICK row \in ContactRow :
        /\ contact[k] # None
        /\ contact' = [contact EXCEPT ![k] = row]
        /\ excuse' = [c \in Customer |->
              IF ~Present(c) \/ customer[c].contact # k THEN excuse[c]
              ELSE excuse[c]
                   \cup {x \in {"orphaned"} : row.status = "terminated"}
                   \cup {x \in {"rehomed"} : row.reseller # contact[k].reseller}]
        /\ UNCHANGED <<customer, schedule, req, made>>
  BY DEF UpdateContact
<1>2. row # None /\ row.status \in {"active", "terminated"}
  BY NoRowAssumption DEF ContactRow
<1>3. /\ contact' \in [Contact -> ContactRow \cup {None}] /\ contact'[k] = row
      /\ \A j \in Contact \ {k} : contact'[j] = contact[j]
  BY <1>1 DEF IInv, TypeOK
<1>4. ASSUME NEW c \in Customer
      PROVE  /\ excuse'[c] \in SUBSET Excuse /\ excuse[c] \subseteq excuse'[c]
             /\ Present(c) /\ customer[c].contact = k /\ row.status = "terminated" =>
                  "orphaned" \in excuse'[c]
             /\ Present(c) /\ customer[c].contact = k /\ row.reseller # contact[k].reseller =>
                  "rehomed" \in excuse'[c]
             /\ "overridden" \in excuse'[c] => "overridden" \in excuse[c]
  BY <1>1 DEF IInv, TypeOK, Excuse
<1>5. excuse' \in [Customer -> SUBSET Excuse]
  BY <1>1, <1>4
<1>6. TypeOK'
  BY <1>1, <1>3, <1>5 DEF IInv, TypeOK, schedule
<1>7. Known' /\ Anchored'
  BY <1>1 DEF IInv, Known, Anchored, Present, schedule
<1>8. ResellerMatches'
  <2>1. ASSUME NEW c \in Customer, Present(c), "rehomed" \notin excuse'[c]
        PROVE  /\ "rehomed" \notin excuse[c]
               /\ contact'[customer[c].contact].reseller = contact[customer[c].contact].reseller
    <3>1. customer[c].contact \in Contact
      BY <2>1 DEF IInv, TypeOK, Present, CustomerRow
    <3> QED BY <1>3, <1>4, <2>1, <3>1
  <2> QED BY <1>1, <2>1 DEF IInv, ResellerMatches, Present, schedule
<1>9. PackageAlone'
  BY <1>1, <1>4 DEF IInv, PackageAlone, Present, schedule
<1>10. ContactActive'
  <2> SUFFICES ASSUME NEW c \in Customer, Present(c)
               PROVE  LET j == customer[c].contact IN
                      /\ contact'[j] # None
                      /\ \/ customer[c].status = "terminated" \/ "orphaned" \in excuse'[c]
                         \/ contact'[j] # None /\ contact'[j].status = "active"
    BY <1>1 DEF ContactActive, Present, Active
  <2>1. customer[c].contact \in Contact
    BY DEF IInv, TypeOK, Present, CustomerRow
  <2> QED BY <1>2, <1>3, <1>4, <2>1 DEF IInv, ContactActive, Active
<1> QED BY <1>6, <1>7, <1>8, <1>9, <1>10 DEF IInv

(* A contact without customers deleted. *)
LEMMA CommitDropInv ==
    ASSUME IInv, NEW h \in Request, CommitDrop(h)
    PROVE  IInv'
<1>0. PICK r \in DropRequest : r = req[h]
  BY DEF CommitDrop, IInv, TypeOK, CreateRequest, UpdateRequest, DeleteRequest, DropRequest,
         ContactRow, CustomerRow
<1>1. PICK k \in Contact : k = r.k
  BY DEF DropRequest
<1>2. /\ \A c \in Customer : Present(c) => customer[c].contact # k
      /\ contact' = [contact EXCEPT ![k] = None] /\ Answer(h)
      /\ UNCHANGED <<customer, schedule, history>>
  BY <1>0, <1>1 DEF CommitDrop
<1>3. /\ contact' \in [Contact -> ContactRow \cup {None}]
      /\ \A j \in Contact \ {k} : contact'[j] = contact[j]
  BY <1>2 DEF IInv, TypeOK
<1>4. \A c \in Customer : Present(c) => customer[c].contact \in Contact \ {k}
  BY <1>2 DEF IInv, TypeOK, Present, CustomerRow
<1>5. Known' /\ req' \in [Request -> {None} \cup Requested]
  <2>1. \A c \in Customer : ~Present(c)' => begun'[c] = <<>> /\ later'[c] = {}
    BY <1>2 DEF Present, IInv, Known, schedule
  <2>2. customer' \in [Customer -> CustomerRow \cup {None}]
    BY <1>2 DEF IInv, TypeOK
  <2> QED BY <1>2, <2>1, <2>2, AnswerKnown
<1>6. TypeOK' /\ Anchored'
  BY <1>2, <1>3, <1>5 DEF IInv, TypeOK, Requested, Anchored, schedule, history
<1>7. ResellerMatches' /\ PackageAlone'
  BY <1>2, <1>3, <1>4 DEF IInv, ResellerMatches, PackageAlone, Present, schedule, history
<1>8. ContactActive'
  BY <1>2, <1>3, <1>4 DEF IInv, ContactActive, Present, Active, history
<1> QED BY <1>5, <1>6, <1>7, <1>8 DEF IInv

(* Time passes for one customer: nothing is charged that was not scheduled. *)
LEMMA ScheduleOnly ==
    ASSUME IInv, NEW c \in Customer, UNCHANGED <<contact, customer, req, history>>,
           begun' \in [Customer -> Seq(Mapping)], later' \in [Customer -> SUBSET Mapping],
           \A d \in Customer : OpenFirst(begun'[d]),
           \A d \in Customer \ {c} : begun'[d] = begun[d] /\ later'[d] = later[d],
           begun[c] # <<>> /\ ~begun[c][1].ends => begun'[c] # <<>> /\ ~begun'[c][1].ends,
           \A x \in Mappings(c)' : x \in Mappings(c),
           begun[c] # <<>> \/ later[c] # {},
           later[c] # {} \/ \E i \in DOMAIN begun[c] : begun[c][i].ends
    PROVE  IInv'
<1>1. TypeOK'
  BY DEF IInv, TypeOK, history
<1>2. Known' /\ Anchored'
  BY DEF IInv, Known, Anchored, Present, history
<1>3. ResellerMatches'
  <2> SUFFICES ASSUME NEW d \in Customer, Present(d), "rehomed" \notin excuse[d],
                      NEW x \in Mappings(d)'
               PROVE  ProfileReseller[x.profile] = contact[customer[d].contact].reseller
    BY DEF ResellerMatches, Mappings, Present, history
  <2>1. x \in Mappings(d)
    BY DEF Mappings
  <2> QED BY <2>1 DEF IInv, ResellerMatches, Mappings
<1>4. PackageAlone'
  <2>1. ~(begun[c] = <<>> /\ later[c] = {})
    OBVIOUS
  <2>2. ASSUME NEW p, later[c] = {}, begun[c] = <<[profile |-> p, ends |-> FALSE]>>
        PROVE  FALSE
    <3>1. \A x : DOMAIN <<x>> = {1} /\ <<x>>[1] = x
      OBVIOUS
    <3> QED BY <2>2, <3>1
  <2>3. ASSUME NEW d \in Customer, Present(d), "overridden" \notin excuse[d],
               customer[d].package # None
        PROVE  d # c
    BY <2>1, <2>2, <2>3 DEF IInv, PackageAlone
  <2> QED BY <2>3 DEF IInv, PackageAlone, Present, history
<1>5. ContactActive'
  BY DEF IInv, ContactActive, Present, Active, history
<1> QED BY <1>1, <1>2, <1>3, <1>4, <1>5 DEF IInv

LEMMA MappingBeginsInv ==
    ASSUME IInv, NEW c \in Customer, MappingBegins(c)
    PROVE  IInv'
<1>1. PICK m \in later[c] :
        /\ begun' = [begun EXCEPT ![c] = IF m.ends THEN Append(@, m) ELSE <<m>>]
        /\ later' = [later EXCEPT ![c] = @ \ {m}]
        /\ UNCHANGED <<contact, customer, req, history>>
  BY DEF MappingBegins
<1>2. begun[c] \in Seq(Mapping) /\ OpenFirst(begun[c]) /\ m \in Mapping /\ later[c] \in SUBSET Mapping
  BY DEF IInv, TypeOK
<1> DEFINE t == IF m.ends THEN Append(begun[c], m) ELSE <<m>>
<1>3. /\ t \in Seq(Mapping) /\ OpenFirst(t)
      /\ begun[c] # <<>> /\ ~begun[c][1].ends => t # <<>> /\ ~t[1].ends
      /\ \A i \in DOMAIN t : t[i] = m \/ \E j \in DOMAIN begun[c] : t[i] = begun[c][j]
  BY <1>2, AddedMapping
<1>4. begun' = [begun EXCEPT ![c] = t]
  BY <1>1
<1> HIDE DEF t
<1>5. /\ begun' \in [Customer -> Seq(Mapping)] /\ later' \in [Customer -> SUBSET Mapping]
      /\ begun'[c] = t /\ later'[c] = later[c] \ {m}
      /\ \A d \in Customer \ {c} : begun'[d] = begun[d] /\ later'[d] = later[d]
  BY <1>1, <1>2, <1>3, <1>4 DEF IInv, TypeOK
<1>6. \A d \in Customer : OpenFirst(begun'[d])
  BY <1>3, <1>5 DEF IInv, TypeOK
<1>7. \A x \in Mappings(c)' : x \in Mappings(c)
  BY <1>3, <1>5 DEF Mappings
<1> QED BY <1>1, <1>3, <1>5, <1>6, <1>7, ScheduleOnly

LEMMA MappingEndsInv ==
    ASSUME IInv, NEW c \in Customer, MappingEnds(c)
    PROVE  IInv'
<1>1. PICK i \in DOMAIN begun[c] :
        /\ begun[c][i].ends
        /\ begun' = [begun EXCEPT ![c] = RemoveAt(@, i)]
        /\ UNCHANGED <<contact, customer, later, req, history>>
  BY DEF MappingEnds
<1>2. begun[c] \in Seq(Mapping) /\ OpenFirst(begun[c])
  BY DEF IInv, TypeOK
<1> DEFINE t == RemoveAt(begun[c], i)
<1>3. /\ t \in Seq(Mapping) /\ OpenFirst(t)
      /\ ~begun[c][1].ends => t # <<>> /\ ~t[1].ends
      /\ \A j \in DOMAIN t : \E k \in DOMAIN begun[c] : t[j] = begun[c][k]
  BY <1>1, <1>2, EndedMapping
<1>4. begun' = [begun EXCEPT ![c] = t]
  BY <1>1
<1> HIDE DEF t
<1>5. /\ begun' \in [Customer -> Seq(Mapping)] /\ later' \in [Customer -> SUBSET Mapping]
      /\ begun'[c] = t /\ later'[c] = later[c]
      /\ \A d \in Customer \ {c} : begun'[d] = begun[d] /\ later'[d] = later[d]
  BY <1>1, <1>2, <1>3, <1>4 DEF IInv, TypeOK
<1>6. \A d \in Customer : OpenFirst(begun'[d])
  BY <1>3, <1>5 DEF IInv, TypeOK
<1>7. \A x \in Mappings(c)' : x \in Mappings(c)
  BY <1>3, <1>5 DEF Mappings
<1>8. begun[c] # <<>>
  OBVIOUS
<1> QED BY <1>1, <1>3, <1>5, <1>6, <1>7, <1>8, ScheduleOnly

LEMMA StepInv == IInv /\ [Next]_vars => IInv'
<1> SUFFICES ASSUME IInv, [Next]_vars PROVE IInv'
  OBVIOUS
<1>1. ASSUME NEW h \in Request,
             \/ Create(h) \/ Update(h) \/ Terminate(h) \/ DropContact(h) \/ Refuse(h)
      PROVE  IInv'
  BY <1>1, ReadsInv
<1>2. ASSUME NEW h \in Request, Commit(h) PROVE IInv'
  BY <1>2, CommitCreateInv, CommitUpdateInv, CommitTerminateInv, CommitDropInv DEF Commit
<1>3. ASSUME NEW k \in Edited, UpdateContact(k) PROVE IInv'
  <2>1. k \in Contact
    BY BoundAssumption
  <2> QED BY <1>3, <2>1, UpdateContactInv
<1>4. ASSUME NEW c \in Customer, MappingBegins(c) \/ MappingEnds(c) PROVE IInv'
  BY <1>4, MappingBeginsInv, MappingEndsInv
<1>5. CASE UNCHANGED vars
  <2>1. UNCHANGED <<contact, customer, schedule, history>> /\ req' = req
    BY <1>5 DEF vars
  <2>2. req' \in [Request -> {None} \cup Requested]
    BY <2>1 DEF IInv, TypeOK, Requested
  <2> QED BY <2>1, <2>2, RequestOnly
<1> QED BY <1>1, <1>2, <1>3, <1>4, <1>5 DEF Next

LEMMA InvCorrect == Spec => []IInv
<1>1. Init => IInv
  BY InitInv
<1>2. IInv /\ [Next]_vars => IInv'
  BY StepInv
<1> QED BY <1>1, <1>2, PTL DEF Spec

-----------------------------------------------------------------------------
(* Contacts, customers, their schedules and the transactions under way are   *)
(* always of their kinds, and only the oldest mapping begun may have no end  *)
(* (customer.mariadb.repository.ts appendBillingMappings 42-61).             *)
THEOREM TypeCorrect == Spec => []TypeOK
<1>1. IInv => TypeOK
  BY DEF IInv
<1> QED BY <1>1, InvCorrect, PTL

(* A customer created with a mapping that began at once is charged by some   *)
(* profile for ever: no update, no delete of mappings that begin later and   *)
(* no end of an interval takes the mapping without end                       *)
(* (customer.service.ts 33-74, 159-229; customer.mariadb.repository.ts       *)
(* appendBillingMappings).                                                   *)
THEOREM ChargedCorrect == Spec => []Charged
<1>1. IInv => Charged
  BY DEF IInv, Anchored, Charged
<1> QED BY <1>1, InvCorrect, PTL

(* The profiles of a customer's schedule are of the reseller of its contact, *)
(* unless one of the two moved without a new mapping without end             *)
(* (customer.service.ts 272-448: each profile is checked against the contact *)
(* that was read).                                                           *)
THEOREM ResellersCorrect == Spec => []ResellerMatches
<1>1. IInv => ResellerMatches
  BY DEF IInv
<1> QED BY <1>1, InvCorrect, PTL

(* A customer that names a package is charged by it and by nothing else to   *)
(* come, unless a profile was set beside it or a stale package written back  *)
(* (customer.service.ts terminate 113-137, update 159-229).                  *)
THEOREM PackagesCorrect == Spec => []PackageCharged
<1>1. IInv => PackageCharged
  <2> SUFFICES ASSUME IInv, NEW c \in Customer, Present(c), begun[c] # <<>>,
                      "overridden" \notin excuse[c], customer[c].package # None
               PROVE  /\ Effective(c) = PackageProfile[customer[c].package]
                      /\ later[c] = {}
    BY DEF PackageCharged
  <2>1. /\ later[c] = {}
        /\ begun[c] = <<[profile |-> PackageProfile[customer[c].package], ends |-> FALSE]>>
    BY DEF IInv, PackageAlone
  <2>2. \A x : Len(<<x>>) = 1 /\ <<x>>[1] = x
    OBVIOUS
  <2> QED BY <2>1, <2>2 DEF Effective, Last
<1> QED BY <1>1, InvCorrect, PTL

(* A customer's contact is there, and active unless the customer or, by an   *)
(* update after the check, the contact was terminated (customercontact       *)
(* update and delete; customer.service.ts 239-253).                          *)
THEOREM ContactsCorrect == Spec => []ContactActive
<1>1. IInv => ContactActive
  BY DEF IInv
<1> QED BY <1>1, InvCorrect, PTL
=============================================================================
