------------------------- MODULE ConfigReloadProofs -------------------------
(***************************************************************************)
(* What a configuration change does to the copies of the proxies, proved   *)
(* for any number of rows, requests, proxies and bodies: the types and     *)
(* foreign keys of ConfigReload, Reloaded and InboundFlag.                 *)
(*                                                                         *)
(* A service decides what to reload from what it has read, and the         *)
(* transaction takes effect later.  The invariant says what a request that *)
(* nobody has overtaken still knows: a commit now would touch nothing but  *)
(* what it has registered (Covers).  It holds when a handler has read, one *)
(* step for each handler, and it stays true when another request commits,  *)
(* because that one has then written to no row the first depends on        *)
(* (lemmas Same...: with the rows it depends on the same, the request      *)
(* would write the same rows in the same way).                             *)
(***************************************************************************)
EXTENDS ConfigReload, TLAPS

-----------------------------------------------------------------------------
\* The three tables of a resource: rows on top have no parent.

HmApis == {"header actions", "header conditions"}

PeeringApis == {"peering servers", "inbound rules"}

Tops(a) == IF a = "rewrite rules" THEN RewriteSets ELSE IF a \in HmApis THEN HmSets ELSE Groups

Middles(a) ==
  IF a = "rewrite rules" THEN Rules
  ELSE IF a \in HmApis THEN HmRules ELSE Servers \cup PeeringRules \cup InboundRules

Leaves(a) == IF a \in HmApis THEN Actions \cup Conditions ELSE {}

Fits(a, i, x) ==
  \/ i \in Tops(a) /\ x.parent = None
  \/ i \in Middles(a) /\ x.parent \in Tops(a)
  \/ i \in Leaves(a) /\ x.parent \in Middles(a)

Shape(a, rows) == \A i \in Ids : Exists(rows, i) => Fits(a, i, rows[i])

\* What a pending request is about, and what it may write.
Named(r) == DOMAIN r.add \cup DOMAIN r.upd \cup r.del

Given(r) == {r.add[i].parent : i \in DOMAIN r.add}
            \cup {r.upd[i].parent : i \in {j \in DOMAIN r.upd : r.upd[j] # None}}

Pending(a, r) ==
  /\ r.step = "pending"
  /\ DOMAIN r = {"step", "add", "upd", "del", "due", "gap", "late"}
  /\ Named(r) \subseteq Ids
  /\ \A i \in DOMAIN r.add : Fits(a, i, r.add[i])
  /\ \A i \in DOMAIN r.upd : r.upd[i] # None => Fits(a, i, r.upd[i])
  /\ r.due \subseteq Scopes /\ r.gap \subseteq Scopes /\ r.late \in BOOLEAN

Hooked(r) ==
  r = [step |-> "hooks", due |-> r.due] /\ r.due # {} /\ r.due \subseteq Proxies \X Scopes

-----------------------------------------------------------------------------
\* What a request that nobody has overtaken knows of the rows: a commit now
\* would touch nothing but what it has registered or its module has named.

RewriteCovers(rows, r) == RewriteTouched(Wrote(rows, r)) \subseteq r.due \cup r.gap

HmCovers(rows, r) ==
  HmTouched(rows, Written(rows, r), Wrote(rows, r)) \subseteq r.due \cup r.gap

\* Without "lcr": groups that are new or have no server that counts.
NoRoutes(rows, r) ==
  /\ (DOMAIN r.add \cup r.del) \subseteq Groups /\ DOMAIN r.upd = {}
  /\ \A g \in DOMAIN r.add : ~Exists(rows, g)
  /\ ~Live(rows, r.del)

PeeringCovers(rows, r) ==
  /\ "lcr" \in r.due \cup r.gap \/ NoRoutes(rows, r)
  /\ (\E i \in Wrote(rows, r) : Dispatched(rows, i) # Dispatched(Written(rows, r), i))
       => "dispatcher" \in r.due \cup r.gap

\* The flags of the groups it is about stay right, and it is about every group
\* whose rules it writes.
FlagsKept(rows, r) ==
  /\ \A g \in Groups \cap Named(r) : FlagRight(rows, g) => FlagRight(Written(rows, r), g)
  /\ \A i \in Wrote(rows, r) :
       /\ Exists(rows, i) /\ rows[i].parent \in Groups => rows[i].parent \in Named(r)
       /\ Exists(Written(rows, r), i) /\ Written(rows, r)[i].parent \in Groups
            => Written(rows, r)[i].parent \in Named(r)

Covers(a, rows, r) ==
  /\ a = "rewrite rules" => RewriteCovers(rows, r)
  /\ a \in HmApis => HmCovers(rows, r)
  /\ a \in PeeringApis => PeeringCovers(rows, r)
  /\ a = "inbound rules" /\ ~FlagUnsure(r) => FlagsKept(rows, r)

\* A request in progress: pending, and covered unless it has been overtaken, or
\* committed with hooks left to run.
RequestOK(a, rows, r) ==
  \/ r = None
  \/ Pending(a, r) /\ (r.late \/ Covers(a, rows, r))
  \/ Hooked(r)

-----------------------------------------------------------------------------
\* Rows that two tables have in common.

Agree(rows, new, D) == \A i \in D : rows[i] = new[i]

LEMMA IsChild ==
  ASSUME NEW rows, NEW D, NEW i
  PROVE  i \in Children(rows, D) <=> i \in Ids /\ rows[i] # None /\ rows[i].parent \in D
BY DEF Children, Exists

LEMMA IsParent ==
  ASSUME NEW rows, NEW D, NEW p
  PROVE  p \in Parents(rows, D)
           <=> p # None /\ \E j \in D : rows[j] # None /\ rows[j].parent = p
BY DEF Parents, Exists

\* What is below less is less.
LEMMA BelowLess ==
  ASSUME NEW rows, NEW X, NEW Y \in SUBSET X
  PROVE  /\ Children(rows, Y) \subseteq Children(rows, X)
         /\ Below(rows, Y) \subseteq Below(rows, X)
<1>1. \A A, B : A \subseteq B => Children(rows, A) \subseteq Children(rows, B)
  BY DEF Children
<1>2. Children(rows, Y) \subseteq Children(rows, X)
  BY <1>1
<1>3. Children(rows, Children(rows, Y)) \subseteq Children(rows, Children(rows, X))
  BY <1>1, <1>2
<1> QED
  BY <1>2, <1>3 DEF Below

LEMMA AboveLess ==
  ASSUME NEW rows, NEW X, NEW Y \in SUBSET X
  PROVE  /\ Parents(rows, Y) \subseteq Parents(rows, X)
         /\ Above(rows, Y) \subseteq Above(rows, X)
<1>1. \A A, B : A \subseteq B => Parents(rows, A) \subseteq Parents(rows, B)
  BY DEF Parents
<1>2. Parents(rows, Y) \subseteq Parents(rows, X)
  BY <1>1
<1>3. Parents(rows, Parents(rows, Y)) \subseteq Parents(rows, Parents(rows, X))
  BY <1>1, <1>2
<1> QED
  BY <1>2, <1>3 DEF Above

\* Tables that agree on what is below some rows, in either, agree on what that is.
LEMMA SameChildren ==
  ASSUME NEW rows, NEW new, NEW X,
         Agree(rows, new, Children(rows, X) \cup Children(new, X))
  PROVE  Children(rows, X) = Children(new, X)
<1>1. \A i : i \in Children(rows, X) => i \in Children(new, X)
  BY IsChild DEF Agree
<1>2. \A i : i \in Children(new, X) => i \in Children(rows, X)
  BY IsChild DEF Agree
<1> QED
  BY <1>1, <1>2

LEMMA SameBelow ==
  ASSUME NEW rows, NEW new, NEW X,
         Agree(rows, new, Below(rows, X) \cup Below(new, X))
  PROVE  /\ Children(rows, X) = Children(new, X)
         /\ Below(rows, X) = Below(new, X)
<1>1. Children(rows, X) = Children(new, X)
  BY SameChildren DEF Agree, Below
<1>2. Children(rows, Children(rows, X)) = Children(new, Children(rows, X))
  <2>1. Agree(rows, new, Children(rows, Children(rows, X))
                         \cup Children(new, Children(rows, X)))
    BY <1>1 DEF Agree, Below
  <2> QED
    BY <2>1, SameChildren
<1> QED
  BY <1>1, <1>2 DEF Below

LEMMA SameParents ==
  ASSUME NEW rows, NEW new, NEW X, Agree(rows, new, X)
  PROVE  Parents(rows, X) = Parents(new, X)
<1>1. \A p : p \in Parents(rows, X) <=> p \in Parents(new, X)
  BY IsParent DEF Agree
<1> QED
  BY <1>1

LEMMA SameAbove ==
  ASSUME NEW rows, NEW new, NEW X, Agree(rows, new, X \cup Parents(rows, X))
  PROVE  Above(rows, X) = Above(new, X)
<1>1. Parents(rows, X) = Parents(new, X)
  BY SameParents DEF Agree
<1>2. Parents(rows, Parents(rows, X)) = Parents(new, Parents(rows, X))
  <2>1. Agree(rows, new, Parents(rows, X))
    BY DEF Agree
  <2> QED
    BY <2>1, SameParents
<1> QED
  BY <1>1, <1>2 DEF Above

-----------------------------------------------------------------------------
\* The tables of a resource.

LEMMA Tables ==
  ASSUME NEW a \in Apis
  PROVE  /\ Tops(a) \subseteq Ids /\ Middles(a) \subseteq Ids /\ Leaves(a) \subseteq Ids
         /\ Tops(a) \cap Middles(a) = {}
         /\ Tops(a) \cap Leaves(a) = {}
         /\ Middles(a) \cap Leaves(a) = {}
BY RewriteAssumption, HmAssumption, PeeringAssumption
   DEF Apis, HmApis, Tops, Middles, Leaves

LEMMA FitsParent ==
  ASSUME NEW a \in Apis, NEW i, NEW x, Fits(a, i, x)
  PROVE  x.parent \in Ids \cup {None}
BY Tables DEF Fits

LEMMA ShapeParent ==
  ASSUME NEW a \in Apis, NEW rows, Shape(a, rows), NEW i \in Ids, rows[i] # None
  PROVE  rows[i].parent \in Ids \cup {None}
BY FitsParent DEF Shape, Exists

LEMMA ShapeParents ==
  ASSUME NEW a \in Apis, NEW rows, Shape(a, rows), NEW X \in SUBSET Ids
  PROVE  Parents(rows, X) \subseteq Ids /\ Above(rows, X) \subseteq Ids
<1>1. \A Y \in SUBSET Ids : Parents(rows, Y) \subseteq Ids
  BY ShapeParent, IsParent
<1> QED
  BY <1>1 DEF Above

LEMMA BelowIds ==
  ASSUME NEW rows, NEW X \in SUBSET Ids
  PROVE  Below(rows, X) \subseteq Ids
BY DEF Below, Children

\* What the request names, gives and depends on.
LEMMA GivenIds ==
  ASSUME NEW a \in Apis, NEW r, Pending(a, r)
  PROVE  Given(r) \subseteq Ids \cup {None}
<1>1. \A i \in DOMAIN r.add : r.add[i].parent \in Ids \cup {None}
  BY FitsParent DEF Pending
<1>2. \A i \in DOMAIN r.upd : r.upd[i] # None => r.upd[i].parent \in Ids \cup {None}
  BY FitsParent DEF Pending
<1> QED
  BY <1>1, <1>2 DEF Given

LEMMA DependsIs ==
  ASSUME NEW a \in Apis, NEW r, Pending(a, r), NEW rows
  PROVE  /\ Depends(rows, r)
              = Above(rows, Named(r) \cup (Given(r) \ {None})) \cup Below(rows, Named(r))
         /\ Named(r) \cup (Given(r) \ {None}) \subseteq Ids
         /\ Named(r) \subseteq Depends(rows, r)
         /\ Given(r) \ {None} \subseteq Depends(rows, r)
<1>1. Depends(rows, r)
        = Above(rows, (Named(r) \cup Given(r)) \ {None}) \cup Below(rows, Named(r))
  BY DEF Depends, Named, Given
<1>2. Named(r) \subseteq Ids
  BY DEF Pending
<1>3. (Named(r) \cup Given(r)) \ {None} = Named(r) \cup (Given(r) \ {None})
  BY <1>2, NoneAssumption
<1>4. Given(r) \ {None} \subseteq Ids
  BY GivenIds
<1>5. Named(r) \cup (Given(r) \ {None})
        \subseteq Above(rows, Named(r) \cup (Given(r) \ {None}))
  BY DEF Above
<1> QED
  BY <1>1, <1>2, <1>3, <1>4, <1>5

LEMMA DependsIds ==
  ASSUME NEW a \in Apis, NEW r, Pending(a, r), NEW rows, Shape(a, rows)
  PROVE  Depends(rows, r) \subseteq Ids
<1>1. Above(rows, Named(r) \cup (Given(r) \ {None})) \subseteq Ids
  BY DependsIs, ShapeParents
<1>2. Below(rows, Named(r)) \subseteq Ids
  BY BelowIds, DependsIs
<1> QED
  BY <1>1, <1>2, DependsIs

\* The rows a transaction leaves.
LEMMA WrittenIs ==
  ASSUME NEW rows, NEW r, NEW i \in Ids
  PROVE  Written(rows, r)[i] =
           IF i \in Below(rows, r.del) THEN None
           ELSE IF i \in DOMAIN r.add THEN r.add[i]
           ELSE IF i \in DOMAIN r.upd /\ rows[i] # None /\ r.upd[i] # None THEN r.upd[i]
           ELSE rows[i]
BY DEF Written, Exists

LEMMA WrittenUpd ==
  ASSUME NEW rows, NEW r, NEW i \in Ids, i \notin Below(rows, r.del), i \notin DOMAIN r.add
  PROVE  \/ Written(rows, r)[i] = rows[i]
         \/ r.upd[i] # None /\ Written(rows, r)[i] = r.upd[i]
BY WrittenIs

LEMMA WrittenUpdated ==
  ASSUME NEW rows, NEW r, NEW i \in Ids, i \notin Below(rows, r.del), i \notin DOMAIN r.add,
         i \in DOMAIN r.upd, rows[i] # None, r.upd[i] # None
  PROVE  Written(rows, r)[i] = r.upd[i]
BY WrittenIs

LEMMA Unwritten ==
  ASSUME NEW rows, NEW r, NEW i \in Ids, i \notin Wrote(rows, r)
  PROVE  Written(rows, r)[i] = rows[i]
BY WrittenIs DEF Wrote, Exists

LEMMA WroteBelow ==
  ASSUME NEW rows, NEW r
  PROVE  /\ Wrote(rows, r) \subseteq Below(rows, Named(r))
         /\ Below(rows, r.del) \subseteq Below(rows, Named(r))
<1>1. Below(rows, r.del) \subseteq Below(rows, Named(r))
  BY BelowLess DEF Named
<1>2. Named(r) \subseteq Below(rows, Named(r))
  BY DEF Below
<1> QED
  BY <1>1, <1>2 DEF Wrote, Named

LEMMA WrittenFits ==
  ASSUME NEW a \in Apis, NEW rows, Shape(a, rows), NEW r, Pending(a, r)
  PROVE  Shape(a, Written(rows, r))
<1> SUFFICES ASSUME NEW i \in Ids, Exists(Written(rows, r), i)
             PROVE  Fits(a, i, Written(rows, r)[i])
  BY DEF Shape
<1>1. \A j \in DOMAIN r.add : Fits(a, j, r.add[j])
  BY DEF Pending
<1>2. \A j \in DOMAIN r.upd : r.upd[j] # None => Fits(a, j, r.upd[j])
  BY DEF Pending
<1>3. rows[i] # None => Fits(a, i, rows[i])
  BY DEF Shape, Exists
<1> QED
  BY <1>1, <1>2, <1>3, WrittenIs DEF Exists

-----------------------------------------------------------------------------
\* Two tables that agree on what a request depends on: the request would do the
\* same to both.

Same(a, rows, new, r) ==
  /\ Shape(a, rows) /\ Shape(a, new) /\ Pending(a, r)
  /\ Agree(rows, new, Depends(rows, r) \cup Depends(new, r))

LEMMA SameNamed ==
  ASSUME NEW a \in Apis, NEW rows, NEW new, NEW r, Same(a, rows, new, r),
         NEW X \in SUBSET Named(r)
  PROVE  /\ Children(rows, X) = Children(new, X)
         /\ Below(rows, X) = Below(new, X)
         /\ Below(rows, X) \subseteq Depends(rows, r)
<1>1. Below(rows, X) \subseteq Depends(rows, r) /\ Below(new, X) \subseteq Depends(new, r)
  BY BelowLess, DependsIs DEF Same
<1>2. Agree(rows, new, Below(rows, X) \cup Below(new, X))
  BY <1>1 DEF Same, Agree
<1> QED
  BY <1>1, <1>2, SameBelow

LEMMA SameWrote ==
  ASSUME NEW a \in Apis, NEW rows, NEW new, NEW r, Same(a, rows, new, r)
  PROVE  /\ Wrote(rows, r) = Wrote(new, r)
         /\ Wrote(rows, r) \subseteq Depends(rows, r)
         /\ Depends(rows, r) \subseteq Ids
<1>1. r.del \subseteq Named(r) /\ DOMAIN r.upd \subseteq Named(r)
  BY DEF Named
<1>2. Below(rows, r.del) = Below(new, r.del) /\ Below(rows, r.del) \subseteq Depends(rows, r)
  BY <1>1, SameNamed
<1>3. Named(r) \subseteq Depends(rows, r)
  BY DependsIs DEF Same
<1>4. \A i \in Below(rows, r.del) \cup DOMAIN r.upd : Exists(rows, i) <=> Exists(new, i)
  BY <1>1, <1>2, <1>3 DEF Same, Agree, Exists
<1>5. Wrote(rows, r) = Wrote(new, r)
  BY <1>2, <1>4 DEF Wrote
<1>6. Wrote(rows, r) \subseteq Depends(rows, r)
  BY <1>2, <1>3 DEF Wrote, Named
<1> QED
  BY <1>5, <1>6, DependsIds DEF Same

LEMMA SameWritten ==
  ASSUME NEW a \in Apis, NEW rows, NEW new, NEW r, Same(a, rows, new, r)
  PROVE  Agree(Written(rows, r), Written(new, r), Depends(rows, r))
<1> SUFFICES ASSUME NEW i \in Depends(rows, r)
             PROVE  Written(rows, r)[i] = Written(new, r)[i]
  BY DEF Agree
<1>1. i \in Ids /\ rows[i] = new[i]
  BY SameWrote DEF Same, Agree
<1>2. Below(rows, r.del) = Below(new, r.del)
  BY SameNamed DEF Named
<1> QED
  BY <1>1, <1>2, WrittenIs

\* What is above what it writes, before and after.
LEMMA SameAboveOld ==
  ASSUME NEW a \in Apis, NEW rows, NEW new, NEW r, Same(a, rows, new, r),
         NEW I \in SUBSET Wrote(rows, r)
  PROVE  Above(rows, I) = Above(new, I)
<1> DEFINE N == Named(r) \cup (Given(r) \ {None})
<1>1. Depends(rows, r) = Above(rows, N) \cup Below(rows, Named(r))
  BY DependsIs DEF Same
<1>2. I \subseteq Below(rows, Named(r))
  BY WroteBelow
<1>3. Parents(rows, Named(r)) \subseteq Above(rows, N)
  BY AboveLess DEF Above
<1>4. Parents(rows, I) \subseteq Depends(rows, r)
  <2> SUFFICES ASSUME NEW j \in I, rows[j] # None, rows[j].parent # None
               PROVE  rows[j].parent \in Depends(rows, r)
    BY IsParent
  <2>1. CASE j \in Named(r)
    <3>1. rows[j].parent \in Parents(rows, Named(r))
      BY <2>1, IsParent
    <3> QED BY <1>1, <1>3, <3>1
  <2>2. CASE j \in Children(rows, Named(r)) \cup Children(rows, Children(rows, Named(r)))
    <3>1. rows[j].parent \in Below(rows, Named(r))
      BY <2>2, IsChild DEF Below
    <3> QED BY <1>1, <3>1
  <2> QED BY <1>2, <2>1, <2>2 DEF Below
<1>5. Agree(rows, new, I \cup Parents(rows, I))
  BY <1>1, <1>2, <1>4 DEF Same, Agree
<1> QED
  BY <1>5, SameAbove

\* The parents of the rows it leaves are given or were above before.
LEMMA WrittenParents ==
  ASSUME NEW a \in Apis, NEW rows, NEW r, Pending(a, r), Shape(a, rows),
         NEW I \in SUBSET Wrote(rows, r)
  PROVE  Parents(Written(rows, r), I) \subseteq Depends(rows, r)
<1>1. I \subseteq Below(rows, Named(r)) /\ I \subseteq Ids
  BY WroteBelow, BelowIds, DependsIs
<1> SUFFICES ASSUME NEW j \in I, Written(rows, r)[j] # None, Written(rows, r)[j].parent # None
             PROVE  Written(rows, r)[j].parent \in Depends(rows, r)
  BY IsParent
<1>2. j \in Ids
  BY <1>1
<1>3. CASE j \in DOMAIN r.add /\ Written(rows, r)[j] = r.add[j]
  BY <1>3, DependsIs DEF Given
<1>4. CASE j \in DOMAIN r.upd /\ r.upd[j] # None /\ Written(rows, r)[j] = r.upd[j]
  BY <1>4, DependsIs DEF Given
<1>5. CASE j \notin Below(rows, r.del) /\ Written(rows, r)[j] = rows[j]
  <2>1. j \in DOMAIN r.add \cup DOMAIN r.upd
    BY <1>5 DEF Wrote
  <2>2. j \in Named(r) \cup (Given(r) \ {None})
    BY <2>1 DEF Named
  <2>3. rows[j].parent \in Parents(rows, Named(r) \cup (Given(r) \ {None}))
    BY <1>5, <2>2, IsParent
  <2> QED BY <1>5, <2>3, DependsIs DEF Above
<1>6. \/ Written(rows, r)[j] = None
      \/ j \in DOMAIN r.add /\ Written(rows, r)[j] = r.add[j]
      \/ j \in DOMAIN r.upd /\ r.upd[j] # None /\ Written(rows, r)[j] = r.upd[j]
      \/ j \notin Below(rows, r.del) /\ Written(rows, r)[j] = rows[j]
  BY <1>2, WrittenIs
<1> QED
  BY <1>3, <1>4, <1>5, <1>6

LEMMA SameAboveNew ==
  ASSUME NEW a \in Apis, NEW rows, NEW new, NEW r, Same(a, rows, new, r),
         NEW I \in SUBSET Wrote(rows, r)
  PROVE  Above(Written(rows, r), I) = Above(Written(new, r), I)
<1>1. Parents(Written(rows, r), I) \subseteq Depends(rows, r)
  BY WrittenParents DEF Same
<1>2. I \subseteq Depends(rows, r)
  BY SameWrote
<1>3. Agree(Written(rows, r), Written(new, r), I \cup Parents(Written(rows, r), I))
  BY <1>1, <1>2, SameWritten DEF Agree
<1> QED
  BY <1>3, SameAbove

LEMMA SameDispatched ==
  ASSUME NEW rows, NEW new, NEW i, rows[i] = new[i]
  PROVE  Dispatched(rows, i) = Dispatched(new, i)
BY DEF Dispatched, Exists

LEMMA SameLive ==
  ASSUME NEW rows, NEW new, NEW G, Children(rows, G) = Children(new, G),
         Agree(rows, new, Children(rows, G))
  PROVE  Live(rows, G) <=> Live(new, G)
BY DEF Live, Agree

LEMMA SameFlag ==
  ASSUME NEW rows, NEW new, NEW g, rows[g] = new[g],
         Children(rows, {g}) = Children(new, {g})
  PROVE  FlagRight(rows, g) <=> FlagRight(new, g)
BY DEF FlagRight, Exists

LEMMA SameRewrite ==
  ASSUME NEW a \in Apis, NEW rows, NEW new, NEW r, Same(a, rows, new, r),
         RewriteCovers(rows, r)
  PROVE  RewriteCovers(new, r)
BY SameWrote DEF RewriteCovers

LEMMA SameHm ==
  ASSUME NEW a \in Apis, NEW rows, NEW new, NEW r, Same(a, rows, new, r),
         HmCovers(rows, r)
  PROVE  HmCovers(new, r)
<1>1. Wrote(rows, r) = Wrote(new, r)
  BY SameWrote
<1>2. Wrote(rows, r) \ HmSets \in SUBSET Wrote(rows, r)
  OBVIOUS
<1>3. Above(rows, Wrote(rows, r) \ HmSets) = Above(new, Wrote(rows, r) \ HmSets)
  BY <1>2, SameAboveOld
<1>4. Above(Written(rows, r), Wrote(rows, r) \ HmSets)
        = Above(Written(new, r), Wrote(rows, r) \ HmSets)
  BY <1>2, SameAboveNew
<1> QED
  BY <1>1, <1>3, <1>4 DEF HmCovers, HmTouched

LEMMA SamePeering ==
  ASSUME NEW a \in Apis, NEW rows, NEW new, NEW r, Same(a, rows, new, r),
         PeeringCovers(rows, r)
  PROVE  PeeringCovers(new, r)
<1>1. ASSUME NoRoutes(rows, r)
      PROVE  NoRoutes(new, r)
  <2>1. r.del \in SUBSET Named(r) /\ DOMAIN r.add \subseteq Named(r)
    BY DEF Named
  <2>2. Named(r) \subseteq Depends(rows, r)
    BY DependsIs DEF Same
  <2>3. Children(rows, r.del) = Children(new, r.del)
        /\ Children(rows, r.del) \subseteq Depends(rows, r)
    BY <2>1, SameNamed DEF Below
  <2>4. Live(rows, r.del) <=> Live(new, r.del)
    <3>1. Agree(rows, new, Children(rows, r.del))
      BY <2>3 DEF Same, Agree
    <3> QED BY <2>3, <3>1, SameLive
  <2>5. \A g \in DOMAIN r.add : ~Exists(new, g)
    BY <1>1, <2>1, <2>2 DEF NoRoutes, Exists, Same, Agree
  <2> QED BY <1>1, <2>4, <2>5 DEF NoRoutes
<1>2. \A i \in Wrote(rows, r) : /\ Dispatched(rows, i) = Dispatched(new, i)
                                /\ Dispatched(Written(rows, r), i)
                                     = Dispatched(Written(new, r), i)
  <2> TAKE i \in Wrote(rows, r)
  <2>1. i \in Depends(rows, r)
    BY SameWrote
  <2>2. rows[i] = new[i]
    BY <2>1 DEF Same, Agree
  <2>3. Written(rows, r)[i] = Written(new, r)[i]
    BY <2>1, SameWritten DEF Agree
  <2> QED BY <2>2, <2>3, SameDispatched
<1>3. Wrote(rows, r) = Wrote(new, r)
  BY SameWrote
<1> QED
  BY <1>1, <1>2, <1>3 DEF PeeringCovers

\* The rules of a group it names, before and after.
LEMMA SameWrittenChildren ==
  ASSUME NEW a \in Apis, NEW rows, NEW new, NEW r, Same(a, rows, new, r),
         NEW g \in Named(r)
  PROVE  Children(Written(rows, r), {g}) = Children(Written(new, r), {g})
<1>1. /\ Children(rows, {g}) = Children(new, {g})
      /\ Children(rows, {g}) \subseteq Depends(rows, r)
  <2>1. {g} \in SUBSET Named(r)
    OBVIOUS
  <2> QED BY <2>1, SameNamed DEF Below
<1>2. \A i \in Ids : \/ Written(rows, r)[i] = Written(new, r)[i]
                     \/ /\ i \notin Depends(rows, r)
                        /\ Written(rows, r)[i] = rows[i] /\ Written(new, r)[i] = new[i]
  <2> TAKE i \in Ids
  <2>1. CASE i \in Depends(rows, r)
    BY <2>1, SameWritten DEF Agree
  <2>2. CASE i \notin Depends(rows, r)
    <3>1. i \notin Wrote(rows, r) /\ i \notin Wrote(new, r)
      BY <2>2, SameWrote
    <3> QED BY <2>2, <3>1, Unwritten
  <2> QED BY <2>1, <2>2
<1>3. \A i : i \in Children(Written(rows, r), {g}) => i \in Children(Written(new, r), {g})
  BY <1>1, <1>2, IsChild
<1>4. \A i : i \in Children(Written(new, r), {g}) => i \in Children(Written(rows, r), {g})
  BY <1>1, <1>2, IsChild
<1> QED
  BY <1>3, <1>4

LEMMA SameFlags ==
  ASSUME NEW a \in Apis, NEW rows, NEW new, NEW r, Same(a, rows, new, r),
         FlagsKept(rows, r)
  PROVE  FlagsKept(new, r)
<1>1. ASSUME NEW g \in Groups \cap Named(r), FlagRight(new, g)
      PROVE  FlagRight(Written(new, r), g)
  <2>1. g \in Depends(rows, r) /\ {g} \in SUBSET Named(r)
    BY DependsIs DEF Same
  <2>2. rows[g] = new[g] /\ Children(rows, {g}) = Children(new, {g})
    BY <2>1, SameNamed DEF Same, Agree
  <2>3. FlagRight(rows, g)
    BY <1>1, <2>2, SameFlag
  <2>4. FlagRight(Written(rows, r), g)
    BY <2>3 DEF FlagsKept
  <2>5. Written(rows, r)[g] = Written(new, r)[g]
    BY <2>1, SameWritten DEF Agree
  <2>6. Children(Written(rows, r), {g}) = Children(Written(new, r), {g})
    BY SameWrittenChildren
  <2> QED BY <2>4, <2>5, <2>6, SameFlag
<1>2. \A i \in Wrote(new, r) : rows[i] = new[i] /\ Written(rows, r)[i] = Written(new, r)[i]
  BY SameWrote, SameWritten DEF Same, Agree
<1>3. Wrote(new, r) = Wrote(rows, r)
  BY SameWrote
<1> QED
  BY <1>1, <1>2, <1>3 DEF FlagsKept, Exists

LEMMA SameCovers ==
  ASSUME NEW a \in Apis, NEW rows, NEW new, NEW r, Same(a, rows, new, r),
         Covers(a, rows, r)
  PROVE  Covers(a, new, r)
BY SameRewrite, SameHm, SamePeering, SameFlags DEF Covers

-----------------------------------------------------------------------------
\* A handler has read: what it leaves pending is of the right shape, and knows
\* what its commit would touch.

Request(add, upd, del, due, gap) ==
  [step |-> "pending", add |-> add, upd |-> upd, del |-> del,
   due |-> due, gap |-> gap, late |-> FALSE]

Begins(h, r) == req' = [req EXCEPT ![h] = r] /\ UNCHANGED <<row, stale, excused>>

Begun(h, r) ==
  /\ Begins(h, r)
  /\ Pending(api, r) /\ Covers(api, row, r)

LEMMA RequestPending ==
  ASSUME NEW a \in Apis, NEW add, NEW upd, NEW del, NEW due, NEW gap,
         DOMAIN add \cup DOMAIN upd \cup del \subseteq Ids,
         \A i \in DOMAIN add : Fits(a, i, add[i]),
         \A i \in DOMAIN upd : upd[i] # None => Fits(a, i, upd[i]),
         due \cup gap \subseteq Scopes
  PROVE  Pending(a, Request(add, upd, del, due, gap))
BY DEF Pending, Request, Named

LEMMA NothingIs == DOMAIN Nothing = {}
BY DEF Nothing

LEMMA BelowNothing ==
  ASSUME NEW rows
  PROVE  Below(rows, {}) = {}
BY DEF Below, Children

\* Rewrite rules: whoever writes rules has registered the dialplan or is named.
LEMMA RewriteBegun ==
  ASSUME NEW h, NEW add, NEW upd, NEW del, NEW due, NEW gap,
         Begin(h, add, upd, del, due, gap), api = "rewrite rules",
         DOMAIN add \cup DOMAIN upd \cup del \subseteq Ids,
         \A i \in DOMAIN add : Fits(api, i, add[i]),
         \A i \in DOMAIN upd : upd[i] # None => Fits(api, i, upd[i]),
         due \cup gap \subseteq {"dialplan"},
         \/ "dialplan" \in due \cup gap
         \/ DOMAIN add \cap Rules = {} /\ DOMAIN upd = {} /\ del = {}
  PROVE  \E r : Begun(h, r)
<1>r. PICK r : r = Request(add, upd, del, due, gap)
  OBVIOUS
<1>1. /\ r.add = add /\ r.upd = upd /\ r.del = del /\ r.due = due /\ r.gap = gap
      /\ Begins(h, r)
  BY <1>r DEF Request, Begin, Begins
<1>2. Pending(api, r)
  BY <1>r, RequestPending, RewriteAssumption DEF Apis
<1>3. RewriteCovers(row, r)
  <2>1. CASE "dialplan" \in due \cup gap
    BY <1>1, <2>1 DEF RewriteCovers, RewriteTouched
  <2>2. CASE DOMAIN add \cap Rules = {} /\ DOMAIN upd = {} /\ del = {}
    <3>1. Wrote(row, r) \subseteq DOMAIN add
      BY <1>1, <2>2, BelowNothing DEF Wrote
    <3> QED BY <2>2, <3>1 DEF RewriteCovers, RewriteTouched
  <2> QED BY <2>1, <2>2
<1> QED
  BY <1>1, <1>2, <1>3 DEF Begun, Covers, HmApis, PeeringApis

LEMMA CreateSetsBegun ==
  ASSUME NEW h \in Requests, api = "rewrite rules", CreateSets(h)
  PROVE  \E r : Begun(h, r)
<1>1. PICK s \in Fresh(RewriteSets), R \in SUBSET Fresh(Rules) :
        Begin(h, [i \in {s} \cup R |-> IF i = s THEN RewriteSet ELSE RuleOf(s)], Nothing, {},
              IF R = {} THEN {} ELSE {"dialplan"}, {})
  BY DEF CreateSets
<1>2. s \in RewriteSets /\ R \subseteq Rules
  BY DEF Fresh
<1>3. PICK add, due : /\ add = [i \in {s} \cup R |-> IF i = s THEN RewriteSet ELSE RuleOf(s)]
                      /\ due = IF R = {} THEN {} ELSE {"dialplan"}
                      /\ Begin(h, add, Nothing, {}, due, {})
  BY <1>1
<1>4. DOMAIN add = {s} \cup R
  BY <1>3
<1>5. \A i \in DOMAIN add : Fits(api, i, add[i])
  BY <1>2, <1>3 DEF Fits, Tops, Middles, RewriteSet, RuleOf
<1>6. \/ "dialplan" \in due \cup {}
      \/ DOMAIN add \cap Rules = {} /\ DOMAIN Nothing = {}
  BY <1>2, <1>3, <1>4, RewriteAssumption, NothingIs
<1>7. due \cup {} \subseteq {"dialplan"}
  BY <1>3
<1>8. DOMAIN add \cup DOMAIN Nothing \cup {} \subseteq Ids
  BY <1>2, <1>4, RewriteAssumption, NothingIs
<1> QED
  BY <1>3, <1>5, <1>6, <1>7, <1>8, NothingIs, RewriteBegun

LEMMA UpdateWithRuleRecreationBegun ==
  ASSUME NEW h \in Requests, api = "rewrite rules", UpdateWithRuleRecreation(h)
  PROVE  \E r : Begun(h, r)
<1>1. PICK S \in SUBSET RewriteSets, R \in SUBSET Rules :
        \E home \in [R -> S] :
          Begin(h, [i \in R |-> RuleOf(home[i])], [s \in S |-> None],
                Children(row, S) \cap Rules,
                IF R = {} THEN {} ELSE {"dialplan"}, IF R = {} THEN {"dialplan"} ELSE {})
  BY DEF UpdateWithRuleRecreation, Fresh, Batches, VisibleSets
<1>h. PICK home \in [R -> S] :
        Begin(h, [i \in R |-> RuleOf(home[i])], [s \in S |-> None],
              Children(row, S) \cap Rules,
              IF R = {} THEN {} ELSE {"dialplan"}, IF R = {} THEN {"dialplan"} ELSE {})
  BY <1>1
<1>2. PICK add, upd, del, due, gap :
        /\ add = [i \in R |-> RuleOf(home[i])]
        /\ upd = [s \in S |-> None] /\ del = Children(row, S) \cap Rules
        /\ due = IF R = {} THEN {} ELSE {"dialplan"}
        /\ gap = IF R = {} THEN {"dialplan"} ELSE {}
        /\ Begin(h, add, upd, del, due, gap)
  BY <1>h
<1>3. DOMAIN add = R /\ DOMAIN upd = S /\ \A s \in S : upd[s] = None
  BY <1>2
<1>4. \A i \in DOMAIN add : Fits(api, i, add[i])
  BY <1>2 DEF Fits, Tops, Middles, RuleOf
<1>5. DOMAIN add \cup DOMAIN upd \cup del \subseteq Ids
  BY <1>2, <1>3, RewriteAssumption
<1>6. due \cup gap \subseteq {"dialplan"} /\ "dialplan" \in due \cup gap
  BY <1>2
<1>7. \A i \in DOMAIN upd : upd[i] # None => Fits(api, i, upd[i])
  BY <1>3
<1> QED
  BY <1>2, <1>4, <1>5, <1>6, <1>7, RewriteBegun

LEMMA DeleteSetsBegun ==
  ASSUME NEW h \in Requests, api = "rewrite rules", DeleteSets(h)
  PROVE  \E r : Begun(h, r)
<1>1. PICK S \in SUBSET RewriteSets : Begin(h, Nothing, Nothing, S, {"dialplan"}, {})
  BY DEF DeleteSets, Batches, VisibleSets
<1> QED
  BY <1>1, NothingIs, RewriteAssumption, RewriteBegun

LEMMA CreateRulesBegun ==
  ASSUME NEW h \in Requests, api = "rewrite rules", CreateRules(h)
  PROVE  \E r : Begun(h, r)
<1>1. PICK s \in RewriteSets, R \in SUBSET Rules :
        Begin(h, [i \in R |-> RuleOf(s)], Nothing, {}, {"dialplan"}, {})
  BY DEF CreateRules, Fresh, Batches
<1>2. PICK add : add = [i \in R |-> RuleOf(s)] /\ Begin(h, add, Nothing, {}, {"dialplan"}, {})
  BY <1>1
<1>3. \A i \in DOMAIN add : Fits(api, i, add[i])
  BY <1>2 DEF Fits, Tops, Middles, RuleOf
<1>4. DOMAIN add \cup DOMAIN Nothing \cup {} \subseteq Ids
  BY <1>2, NothingIs, RewriteAssumption
<1> QED
  BY <1>2, <1>3, <1>4, NothingIs, RewriteBegun

LEMMA UpdateRulesBegun ==
  ASSUME NEW h \in Requests, api = "rewrite rules", UpdateRules(h)
  PROVE  \E r : Begun(h, r)
<1>1. PICK R \in SUBSET Rules :
        \E to \in [R -> RewriteSets] :
          Begin(h, Nothing, [i \in R |-> RuleOf(to[i])], {}, {"dialplan"}, {})
  BY DEF UpdateRules, Batches, VisibleRules
<1>t. PICK to \in [R -> RewriteSets] :
        Begin(h, Nothing, [i \in R |-> RuleOf(to[i])], {}, {"dialplan"}, {})
  BY <1>1
<1>2. PICK upd : /\ upd = [i \in R |-> RuleOf(to[i])]
                 /\ Begin(h, Nothing, upd, {}, {"dialplan"}, {})
  BY <1>t
<1>3. \A i \in DOMAIN upd : Fits(api, i, upd[i])
  BY <1>2 DEF Fits, Tops, Middles, RuleOf
<1>4. DOMAIN Nothing \cup DOMAIN upd \cup {} \subseteq Ids
  BY <1>2, NothingIs, RewriteAssumption
<1> QED
  BY <1>2, <1>3, <1>4, NothingIs, RewriteBegun

LEMMA DeleteRulesBegun ==
  ASSUME NEW h \in Requests, api = "rewrite rules", DeleteRules(h)
  PROVE  \E r : Begun(h, r)
<1>1. PICK R \in SUBSET Rules : Begin(h, Nothing, Nothing, R, {"dialplan"}, {})
  BY DEF DeleteRules, Batches, VisibleRules
<1> QED
  BY <1>1, NothingIs, RewriteAssumption, RewriteBegun

-----------------------------------------------------------------------------
\* Header manipulations.  The set a rule or an element is part of.

TopOf(a, rows, x, t) ==
  /\ rows[x] # None
  /\ \/ x \in Middles(a) /\ rows[x].parent = t
     \/ /\ x \in Leaves(a) /\ rows[x].parent \in Middles(a)
        /\ rows[rows[x].parent] # None /\ rows[rows[x].parent].parent = t

LEMMA AboveTops ==
  ASSUME NEW a \in Apis, NEW rows, Shape(a, rows), NEW X \in SUBSET Ids,
         NEW t \in Above(rows, X), t \in Tops(a), t \notin X
  PROVE  \E x \in X : TopOf(a, rows, x, t)
<1>1. ASSUME NEW x \in Ids, rows[x] # None
      PROVE  \/ x \in Tops(a) /\ rows[x].parent = None
             \/ x \in Middles(a) /\ rows[x].parent \in Tops(a)
             \/ x \in Leaves(a) /\ rows[x].parent \in Middles(a)
  BY <1>1 DEF Shape, Exists, Fits
<1>2. None \notin Ids
  BY NoneAssumption
<1>3. CASE t \in Parents(rows, X)
  <2>1. PICK x \in X : rows[x] # None /\ rows[x].parent = t
    BY <1>3, IsParent
  <2>2. x \in Middles(a)
    BY <1>1, <1>2, <2>1, Tables
  <2> QED BY <2>1, <2>2 DEF TopOf
<1>4. CASE t \in Parents(rows, Parents(rows, X))
  <2>1. PICK m \in Parents(rows, X) : rows[m] # None /\ rows[m].parent = t
    BY <1>4, IsParent
  <2>2. PICK x \in X : rows[x] # None /\ rows[x].parent = m
    BY IsParent
  <2>3. m \in Ids
    BY ShapeParents
  <2>4. m \in Middles(a)
    BY <1>1, <1>2, <2>1, <2>3, Tables
  <2>5. x \in Leaves(a)
    BY <1>1, <1>2, <2>2, <2>4, Tables, NoneAssumption
  <2> QED BY <2>1, <2>2, <2>4, <2>5 DEF TopOf
<1> QED
  BY <1>3, <1>4 DEF Above

\* The set of a row that is deleted with others is one of theirs.
LEMMA BelowTops ==
  ASSUME NEW a \in Apis, NEW rows, Shape(a, rows), NEW D \in SUBSET Ids,
         NEW x \in Below(rows, D), NEW t \in Tops(a), TopOf(a, rows, x, t)
  PROVE  t \in D \/ \E y \in D : TopOf(a, rows, y, t)
<1>1. ASSUME NEW y \in Ids, rows[y] # None
      PROVE  \/ y \in Tops(a) /\ rows[y].parent = None
             \/ y \in Middles(a) /\ rows[y].parent \in Tops(a)
             \/ y \in Leaves(a) /\ rows[y].parent \in Middles(a)
  BY <1>1 DEF Shape, Exists, Fits
<1>2. None \notin D
  BY NoneAssumption
<1>3. CASE x \in D
  BY <1>3
<1>4. CASE x \in Children(rows, D)
  <2>1. rows[x].parent \in D
    BY <1>4, IsChild
  <2>2. CASE x \in Middles(a)
    BY <2>1, <2>2, Tables DEF TopOf
  <2>3. CASE x \in Leaves(a)
    BY <2>1, <2>3, Tables DEF TopOf
  <2> QED BY <2>2, <2>3 DEF TopOf
<1>5. CASE x \in Children(rows, Children(rows, D))
  <2>1. rows[x].parent \in Children(rows, D)
    BY <1>5, IsChild
  <2>2. PICK m \in Ids : /\ rows[x].parent = m /\ rows[m] # None
                         /\ rows[m].parent \in D
    BY <2>1, IsChild
  <2>3. m \notin Tops(a)
    BY <1>1, <1>2, <2>2, Tables
  <2>4. x \in Leaves(a)
    BY <2>2, <2>3 DEF TopOf
  <2> QED BY <2>2, <2>4, Tables DEF TopOf
<1> QED
  BY <1>3, <1>4, <1>5 DEF Below

LEMMA BelowLeaves ==
  ASSUME NEW a \in Apis, NEW rows, Shape(a, rows), NEW D \in SUBSET Leaves(a)
  PROVE  Below(rows, D) = D
<1>1. Children(rows, D) = {}
  <2> SUFFICES ASSUME NEW i \in Ids, rows[i] # None, rows[i].parent \in D
               PROVE  FALSE
    BY IsChild
  <2>1. Fits(a, i, rows[i])
    BY DEF Shape, Exists
  <2> QED BY <2>1, Tables, NoneAssumption DEF Fits
<1>2. Children(rows, {}) = {}
  BY DEF Children
<1> QED
  BY <1>1, <1>2 DEF Below

LEMMA HmTables ==
  ASSUME NEW a \in HmApis
  PROVE  /\ a \in Apis
         /\ Tops(a) = HmSets /\ Middles(a) = HmRules
         /\ Leaves(a) = Actions \cup Conditions
BY DEF HmApis, Apis, Tops, Middles, Leaves

\* Whoever writes a rule or an element has registered, or names as a gap, the set
\* it was in and the set it will be in.
LEMMA HmBegun ==
  ASSUME NEW h, NEW add, NEW upd, NEW del, NEW due, NEW gap,
         Begin(h, add, upd, del, due, gap), api \in HmApis, Shape(api, row),
         DOMAIN add \cup DOMAIN upd \cup del \subseteq Ids,
         \A i \in DOMAIN add : Fits(api, i, add[i]) /\ row[i] = None,
         \A i \in DOMAIN upd : upd[i] # None => Fits(api, i, upd[i]),
         due \cup gap \subseteq HmSets,
         del \cap HmSets \subseteq due \cup gap,
         \A x \in DOMAIN upd \cup del, t \in HmSets :
           TopOf(api, row, x, t) => t \in due \cup gap,
         \A x \in DOMAIN add \cap HmRules : add[x].parent \in due \cup gap,
         \A x \in DOMAIN upd \cap HmRules : upd[x].parent \in due \cup gap,
         \/ (DOMAIN add \cup DOMAIN upd) \cap Leaves(api) = {}
         \/ /\ (DOMAIN add \cup DOMAIN upd \cup del) \subseteq Leaves(api)
            /\ \A x \in DOMAIN add : Parents(row, {add[x].parent}) \subseteq due \cup gap
            /\ \A x \in DOMAIN upd : Parents(row, {upd[x].parent}) \subseteq due \cup gap
  PROVE  \E r : Begun(h, r)
<1>r. PICK r : r = Request(add, upd, del, due, gap)
  OBVIOUS
<1>1. /\ r.add = add /\ r.upd = upd /\ r.del = del /\ r.due = due /\ r.gap = gap
      /\ Begins(h, r)
  BY <1>r DEF Request, Begin, Begins
<1>2. Pending(api, r)
  BY <1>r, HmTables, RequestPending, HmAssumption
<1>3. HmCovers(row, r)
  <2> SUFFICES ASSUME NEW t \in HmTouched(row, Written(row, r), Wrote(row, r))
               PROVE  t \in due \cup gap
    BY <1>1 DEF HmCovers
  <2>1. t \in HmSets /\ t \in Tops(api)
    BY HmTables DEF HmTouched
  <2>2. PICK I : I = Wrote(row, r) \ HmSets
    OBVIOUS
  <2>3. I \subseteq Ids /\ t \notin I /\ I \subseteq Wrote(row, r)
    <3>1. Wrote(row, r) \subseteq Ids
      BY <1>2, WroteBelow, BelowIds DEF Pending
    <3> QED BY <2>1, <2>2, <3>1
  <2>4. Shape(api, Written(row, r))
    BY <1>2, HmTables, WrittenFits
  <2>5. CASE t \in Above(row, I)
    <3>1. PICK x \in I : TopOf(api, row, x, t)
      BY <2>1, <2>3, <2>5, AboveTops, HmTables
    <3>2. x \notin DOMAIN add
      BY <3>1 DEF TopOf
    <3>3. CASE x \in DOMAIN upd
      BY <2>1, <3>1, <3>3
    <3>4. CASE x \in Below(row, del)
      <4>1. t \in del \/ \E y \in del : TopOf(api, row, y, t)
        BY <2>1, <3>1, <3>4, BelowTops, HmTables
      <4> QED BY <2>1, <4>1
    <3> QED BY <1>1, <2>3, <3>2, <3>3, <3>4 DEF Wrote
  <2>6. CASE t \in Above(Written(row, r), I)
    <3>1. PICK x \in I : TopOf(api, Written(row, r), x, t)
      BY <2>1, <2>3, <2>4, <2>6, AboveTops, HmTables
    <3>2. PICK v : v = Written(row, r)[x]
      OBVIOUS
    <3>3. v # None /\ x \in Ids
      BY <2>3, <3>1, <3>2 DEF TopOf
    <3>4. \/ x \in DOMAIN add /\ v = add[x]
          \/ x \in DOMAIN upd /\ v = upd[x]
          \/ x \in DOMAIN upd /\ v = row[x]
      <4>1. x \in Wrote(row, r) /\ x \notin Below(row, del)
        BY <1>1, <2>3, <3>2, <3>3, WrittenIs
      <4>2. x \in DOMAIN add \/ (x \in DOMAIN upd /\ row[x] # None)
        BY <1>1, <4>1 DEF Wrote, Exists
      <4> QED BY <1>1, <3>2, <3>3, <4>1, <4>2, WrittenIs
    <3>5. CASE x \in HmRules
      <4>1. v.parent = t
        BY <3>1, <3>2, <3>5, HmTables, Tables DEF TopOf
      <4>2. v = row[x] => TopOf(api, row, x, t)
        BY <3>3, <3>5, <4>1, HmTables DEF TopOf
      <4> QED BY <2>1, <3>4, <3>5, <4>1, <4>2
    <3>6. CASE x \in Leaves(api)
      <4>1. PICK m \in HmRules : /\ v.parent = m
                                 /\ Written(row, r)[m] # None
                                 /\ Written(row, r)[m].parent = t
        BY <3>1, <3>2, <3>6, HmTables, Tables DEF TopOf
      <4>2. (DOMAIN add \cup DOMAIN upd \cup del) \subseteq Leaves(api)
        BY <3>4, <3>6
      <4>3. m \notin Leaves(api) /\ m \in Ids
        BY HmTables, HmAssumption
      <4>4. Below(row, del) = del
        BY <4>2, BelowLeaves, HmTables
      <4>5. Written(row, r)[m] = row[m]
        BY <1>1, <4>2, <4>3, <4>4, WrittenIs
      <4>6. t \in Parents(row, {v.parent})
        BY <2>1, <4>1, <4>5, IsParent, HmAssumption, NoneAssumption
      <4>7. v = row[x] => TopOf(api, row, x, t)
        BY <3>3, <3>6, <4>1, <4>5, HmTables DEF TopOf
      <4> QED BY <2>1, <3>4, <3>6, <4>6, <4>7
    <3> QED BY <3>1, <3>5, <3>6, HmTables DEF TopOf
  <2> QED
    BY <2>2, <2>5, <2>6 DEF HmTouched
<1> QED
  BY <1>1, <1>2, <1>3 DEF Begun, Covers, HmApis, PeeringApis

-----------------------------------------------------------------------------
\* The handlers of header manipulations.

\* The sets of rules and of elements, as a handler finds them.
LEMMA SetsOfRules ==
  ASSUME NEW a \in HmApis, NEW rows, Shape(a, rows), NEW R \in SUBSET HmRules
  PROVE  /\ SetsOf(rows, R) \subseteq HmSets
         /\ \A x \in R, t \in HmSets : TopOf(a, rows, x, t) => t \in SetsOf(rows, R)
<1>1. \A x \in R : rows[x] # None => rows[x].parent \in HmSets
  BY HmAssumption, HmTables, Tables DEF Shape, Exists, Fits
<1>2. SetsOf(rows, R) \subseteq HmSets
  BY <1>1, IsParent DEF SetsOf
<1>3. ASSUME NEW x \in R, NEW t \in HmSets, TopOf(a, rows, x, t)
      PROVE  t \in SetsOf(rows, R)
  <2>1. rows[x] # None /\ rows[x].parent = t
    BY <1>3, HmTables, Tables DEF TopOf
  <2>2. t # None
    BY HmAssumption, NoneAssumption
  <2> QED BY <2>1, <2>2, IsParent DEF SetsOf
<1> QED
  BY <1>2, <1>3

LEMMA SetsOfLeaves ==
  ASSUME NEW a \in HmApis, NEW rows, Shape(a, rows), NEW E \in SUBSET Leaves(a)
  PROVE  /\ SetsOfElements(rows, E) \subseteq HmSets
         /\ \A x \in E, t \in HmSets : TopOf(a, rows, x, t) => t \in SetsOfElements(rows, E)
<1>1. \A x \in E : rows[x] # None => rows[x].parent \in HmRules
  BY HmAssumption, HmTables, Tables DEF Shape, Exists, Fits
<1>2. Parents(rows, E) \subseteq HmRules
  BY <1>1, IsParent
<1>3. SetsOfElements(rows, E) \subseteq HmSets
  BY <1>2, SetsOfRules DEF SetsOfElements
<1>4. ASSUME NEW x \in E, NEW t \in HmSets, TopOf(a, rows, x, t)
      PROVE  t \in SetsOfElements(rows, E)
  <2>1. PICK m \in HmRules : /\ rows[x] # None /\ rows[x].parent = m
                             /\ rows[m] # None /\ rows[m].parent = t
    BY <1>4, HmTables, Tables DEF TopOf
  <2>2. m # None /\ t # None
    BY HmAssumption, NoneAssumption
  <2>3. m \in Parents(rows, E)
    BY <2>1, <2>2, IsParent
  <2>4. t \in Parents(rows, Parents(rows, E))
    BY <2>1, <2>2, <2>3, IsParent
  <2> QED BY <2>4 DEF SetsOfElements, SetsOf
<1> QED
  BY <1>3, <1>4

\* A set is no rule or element: it has no set above it.
LEMMA TopsAlone ==
  ASSUME NEW a \in HmApis, NEW rows, NEW x \in HmSets, NEW t
  PROVE  ~TopOf(a, rows, x, t)
BY HmTables, HmAssumption DEF TopOf

LEMMA CreateHmSetsBegun ==
  ASSUME NEW h \in Requests, api \in HmApis, Shape(api, row), CreateHmSets(h)
  PROVE  \E r : Begun(h, r)
<1>1. PICK s \in Fresh(HmSets), sub \in BOOLEAN :
        Begin(h, [i \in {s} |-> HmSet(sub)], Nothing, {}, {}, {})
  BY DEF CreateHmSets
<1>2. PICK add : add = [i \in {s} |-> HmSet(sub)] /\ Begin(h, add, Nothing, {}, {}, {})
  BY <1>1
<1>3. s \in HmSets /\ row[s] = None
  BY DEF Fresh
<1>4. DOMAIN add = {s} /\ DOMAIN Nothing = {}
  BY <1>2, NothingIs
<1>5. \A i \in DOMAIN add : Fits(api, i, add[i]) /\ row[i] = None
  BY <1>2, <1>3, HmTables DEF Fits, HmSet
<1>6. DOMAIN add \cap HmRules = {}
      /\ (DOMAIN add \cup DOMAIN Nothing) \cap Leaves(api) = {}
      /\ DOMAIN add \cup DOMAIN Nothing \cup {} \subseteq Ids
  BY <1>3, <1>4, HmTables, HmAssumption
<1> QED
  BY <1>2, <1>4, <1>5, <1>6, HmBegun

LEMMA UpdateHmSetsBegun ==
  ASSUME NEW h \in Requests, api \in HmApis, Shape(api, row), UpdateHmSets(h)
  PROVE  \E r : Begun(h, r)
<1>1. PICK S \in SUBSET HmSets, sub \in BOOLEAN :
        Begin(h, Nothing, [s \in S |-> HmSet(sub)], {}, {}, {})
  BY DEF UpdateHmSets, Batches, VisibleHmSets
<1>2. PICK upd : upd = [s \in S |-> HmSet(sub)] /\ Begin(h, Nothing, upd, {}, {}, {})
  BY <1>1
<1>4. DOMAIN upd = S /\ DOMAIN Nothing = {}
  BY <1>2, NothingIs
<1>5. \A i \in DOMAIN upd : Fits(api, i, upd[i])
  BY <1>2, HmTables, HmAssumption DEF Fits, HmSet
<1>6. DOMAIN upd \cap HmRules = {}
      /\ (DOMAIN Nothing \cup DOMAIN upd) \cap Leaves(api) = {}
      /\ DOMAIN Nothing \cup DOMAIN upd \cup {} \subseteq Ids
  BY <1>4, HmTables, HmAssumption
<1>7. \A x \in DOMAIN upd \cup {}, t \in HmSets : ~TopOf(api, row, x, t)
  BY <1>4, TopsAlone
<1> QED
  BY <1>2, <1>4, <1>5, <1>6, <1>7, HmBegun

LEMMA DeleteHmSetsBegun ==
  ASSUME NEW h \in Requests, api \in HmApis, Shape(api, row), DeleteHmSets(h)
  PROVE  \E r : Begun(h, r)
<1>1. PICK S \in SUBSET HmSets : Begin(h, Nothing, Nothing, S, S, {})
  BY DEF DeleteHmSets, Batches, VisibleHmSets
<1>2. DOMAIN Nothing = {}
  BY NothingIs
<1>3. \A x \in DOMAIN Nothing \cup S, t \in HmSets : ~TopOf(api, row, x, t)
  BY <1>2, TopsAlone
<1> QED
  BY <1>1, <1>2, <1>3, HmAssumption, HmBegun

LEMMA CreateHmRulesBegun ==
  ASSUME NEW h \in Requests, api \in HmApis, Shape(api, row), CreateHmRules(h)
  PROVE  \E r : Begun(h, r)
<1>1. PICK s \in HmSets, R \in SUBSET Fresh(HmRules) :
        Begin(h, [i \in R |-> HmRule(s)], Nothing, {}, {s}, {})
  BY DEF CreateHmRules, Batches
<1>2. PICK add : add = [i \in R |-> HmRule(s)] /\ Begin(h, add, Nothing, {}, {s}, {})
  BY <1>1
<1>3. R \subseteq HmRules /\ \A i \in R : row[i] = None
  BY DEF Fresh
<1>4. DOMAIN add = R /\ DOMAIN Nothing = {} /\ \A i \in R : add[i].parent = s
  BY <1>2, NothingIs DEF HmRule
<1>5. \A i \in DOMAIN add : Fits(api, i, add[i]) /\ row[i] = None
  BY <1>3, <1>4, HmTables DEF Fits
<1>6. (DOMAIN add \cup DOMAIN Nothing) \cap Leaves(api) = {}
      /\ DOMAIN add \cup DOMAIN Nothing \cup {} \subseteq Ids
  BY <1>3, <1>4, HmTables, HmAssumption
<1> QED
  BY <1>2, <1>4, <1>5, <1>6, HmBegun

LEMMA CreateSubscriberRuleBegun ==
  ASSUME NEW h \in Requests, api \in HmApis, Shape(api, row), CreateSubscriberRule(h)
  PROVE  \E r : Begun(h, r)
<1>1. PICK own \in SUBSET HmSets, s \in HmSets :
        /\ s \in (IF own = {} THEN Fresh(HmSets) ELSE own)
        /\ \E i \in Fresh(HmRules) :
             Begin(h, [j \in {i} \cup ({s} \ own) |-> IF j = i THEN HmRule(s) ELSE HmSet(TRUE)],
                   Nothing, {}, {s}, {})
  <2>1. PICK own : own = {s \in HmSets : Exists(row, s) /\ row[s].subscriber}
    OBVIOUS
  <2>2. own \in SUBSET HmSets
    BY <2>1
  <2>3. PICK s \in (IF own = {} THEN Fresh(HmSets) ELSE own), i \in Fresh(HmRules) :
          Begin(h, [j \in {i} \cup ({s} \ own) |-> IF j = i THEN HmRule(s) ELSE HmSet(TRUE)],
                Nothing, {}, {s}, {})
    BY <2>1 DEF CreateSubscriberRule
  <2>4. s \in HmSets
    BY <2>2, <2>3 DEF Fresh
  <2> QED BY <2>2, <2>3, <2>4
<1>i. PICK i \in Fresh(HmRules) :
        Begin(h, [j \in {i} \cup ({s} \ own) |-> IF j = i THEN HmRule(s) ELSE HmSet(TRUE)],
              Nothing, {}, {s}, {})
  BY <1>1
<1>2. PICK add : /\ add = [j \in {i} \cup ({s} \ own) |-> IF j = i THEN HmRule(s)
                                                           ELSE HmSet(TRUE)]
                 /\ Begin(h, add, Nothing, {}, {s}, {})
  BY <1>i
<1>3. /\ i \in HmRules /\ row[i] = None
      /\ s \notin own => row[s] = None
  BY <1>1 DEF Fresh
<1>4. /\ DOMAIN add = {i} \cup ({s} \ own) /\ DOMAIN Nothing = {}
      /\ add[i].parent = s
      /\ s \notin own /\ s # i => add[s].parent = None
  BY <1>2, NothingIs DEF HmRule, HmSet
<1>5. \A j \in DOMAIN add : Fits(api, j, add[j]) /\ row[j] = None
  BY <1>1, <1>3, <1>4, HmTables, HmAssumption DEF Fits
<1>6. (DOMAIN add \cup DOMAIN Nothing) \cap Leaves(api) = {}
      /\ DOMAIN add \cup DOMAIN Nothing \cup {} \subseteq Ids
  BY <1>1, <1>3, <1>4, HmTables, HmAssumption
<1>7. \A x \in DOMAIN add \cap HmRules : add[x].parent \in {s} \cup {}
  BY <1>1, <1>4, HmAssumption
<1>8. {s} \cup {} \subseteq HmSets
  OBVIOUS
<1>9. DOMAIN add \cup DOMAIN Nothing \cup {} \subseteq Ids
  BY <1>6
<1>10. \A x \in DOMAIN Nothing \cup {}, t \in HmSets :
         TopOf(api, row, x, t) => t \in {s} \cup {}
  BY <1>4
<1>11. \/ (DOMAIN add \cup DOMAIN Nothing) \cap Leaves(api) = {}
       \/ /\ (DOMAIN add \cup DOMAIN Nothing \cup {}) \subseteq Leaves(api)
          /\ \A x \in DOMAIN add : Parents(row, {add[x].parent}) \subseteq {s} \cup {}
          /\ \A x \in DOMAIN Nothing : Parents(row, {Nothing[x].parent}) \subseteq {s} \cup {}
  BY <1>6
<1>12. DOMAIN Nothing = {} /\ Begin(h, add, Nothing, {}, {s}, {})
  BY <1>2, <1>4
<1> QED
  BY <1>5, <1>7, <1>8, <1>9, <1>10, <1>11, <1>12, HmBegun

LEMMA UpdateHmRulesBegun ==
  ASSUME NEW h \in Requests, api \in HmApis, Shape(api, row), UpdateHmRules(h)
  PROVE  \E r : Begun(h, r)
<1>1. PICK R \in SUBSET HmRules :
        \E to \in [R -> HmSets] :
          Begin(h, Nothing, [i \in R |-> HmRule(to[i])], {},
                SetsOf(row, R), {to[i] : i \in R} \ SetsOf(row, R))
  BY DEF UpdateHmRules, Batches, VisibleHmRules
<1>t. PICK to \in [R -> HmSets] :
        Begin(h, Nothing, [i \in R |-> HmRule(to[i])], {},
              SetsOf(row, R), {to[i] : i \in R} \ SetsOf(row, R))
  BY <1>1
<1>2. PICK upd, due, gap : /\ upd = [i \in R |-> HmRule(to[i])]
                           /\ due = SetsOf(row, R) /\ gap = {to[i] : i \in R} \ due
                           /\ Begin(h, Nothing, upd, {}, due, gap)
  BY <1>t
<1>3. DOMAIN upd = R /\ DOMAIN Nothing = {} /\ \A i \in R : upd[i].parent = to[i]
  BY <1>2, NothingIs DEF HmRule
<1>4. \A i \in DOMAIN upd : upd[i] # None => Fits(api, i, upd[i])
  BY <1>3, HmTables DEF Fits
<1>5. due \subseteq HmSets /\ due \cup gap \subseteq HmSets
  BY <1>2, SetsOfRules
<1>6. \A x \in DOMAIN upd \cup {}, t \in HmSets : TopOf(api, row, x, t) => t \in due \cup gap
  BY <1>2, <1>3, SetsOfRules
<1>7. \A x \in DOMAIN upd \cap HmRules : upd[x].parent \in due \cup gap
  BY <1>2, <1>3
<1>8. (DOMAIN Nothing \cup DOMAIN upd) \cap Leaves(api) = {}
      /\ DOMAIN Nothing \cup DOMAIN upd \cup {} \subseteq Ids
  BY <1>3, HmTables, HmAssumption
<1>9. DOMAIN Nothing = {} /\ Begin(h, Nothing, upd, {}, due, gap)
  BY <1>2, <1>3
<1> QED
  BY <1>4, <1>5, <1>6, <1>7, <1>8, <1>9, HmBegun

LEMMA DeleteHmRulesBegun ==
  ASSUME NEW h \in Requests, api \in HmApis, Shape(api, row), DeleteHmRules(h)
  PROVE  \E r : Begun(h, r)
<1>1. PICK R \in SUBSET HmRules :
        \E emptied \in SUBSET SetsOf(row, R) :
          Begin(h, Nothing, Nothing, R \cup emptied,
                IF emptied = {} THEN {} ELSE SetsOf(row, R),
                IF emptied = {} THEN SetsOf(row, R) ELSE {})
  BY DEF DeleteHmRules, Batches, VisibleHmRules
<1>e. PICK emptied \in SUBSET SetsOf(row, R) :
        Begin(h, Nothing, Nothing, R \cup emptied,
              IF emptied = {} THEN {} ELSE SetsOf(row, R),
              IF emptied = {} THEN SetsOf(row, R) ELSE {})
  BY <1>1
<1>2. PICK del, due, gap : /\ del = R \cup emptied /\ due \cup gap = SetsOf(row, R)
                           /\ Begin(h, Nothing, Nothing, del, due, gap)
  <2>1. PICK due, gap : /\ due = IF emptied = {} THEN {} ELSE SetsOf(row, R)
                        /\ gap = IF emptied = {} THEN SetsOf(row, R) ELSE {}
                        /\ Begin(h, Nothing, Nothing, R \cup emptied, due, gap)
    BY <1>e
  <2>2. due \cup gap = SetsOf(row, R)
    BY <2>1
  <2> QED BY <2>1, <2>2
<1>3. due \cup gap \subseteq HmSets /\ emptied \subseteq HmSets
  BY <1>2, SetsOfRules
<1>4. DOMAIN Nothing = {} /\ Begin(h, Nothing, Nothing, del, due, gap)
  BY <1>2, NothingIs
<1>5. del \cap HmSets \subseteq due \cup gap
  BY <1>2, HmAssumption
<1>6. \A x \in del, t \in HmSets : TopOf(api, row, x, t) => t \in due \cup gap
  <2> TAKE x \in del, t \in HmSets
  <2>1. CASE x \in R
    BY <1>2, <2>1, SetsOfRules
  <2>2. CASE x \in emptied
    BY <1>3, <2>2, TopsAlone
  <2> QED BY <1>2, <2>1, <2>2
<1>7. del \subseteq Ids
  BY <1>2, <1>3, HmAssumption
<1> QED
  BY <1>3, <1>4, <1>5, <1>6, <1>7, HmBegun

LEMMA CreateElementsBegun ==
  ASSUME NEW h \in Requests, api \in HmApis, Shape(api, row),
         NEW E \in SUBSET (Actions \cup Conditions), CreateElements(h, E)
  PROVE  \E r : Begun(h, r)
<1>1. PICK m \in HmRules, N \in SUBSET Fresh(E) :
        Begin(h, [e \in N |-> Element(m)], Nothing, {}, SetsOf(row, {m}), {})
  BY DEF CreateElements, Batches
<1>2. PICK add, due : /\ add = [e \in N |-> Element(m)] /\ due = SetsOf(row, {m})
                      /\ Begin(h, add, Nothing, {}, due, {})
  BY <1>1
<1>3. N \subseteq Leaves(api) /\ \A e \in N : row[e] = None
  BY HmTables DEF Fresh
<1>4. DOMAIN add = N /\ DOMAIN Nothing = {} /\ \A e \in N : add[e].parent = m
  BY <1>2, NothingIs DEF Element
<1>5. \A e \in DOMAIN add : Fits(api, e, add[e]) /\ row[e] = None
  BY <1>3, <1>4, HmTables DEF Fits
<1>6. due \cup {} \subseteq HmSets
  BY <1>2, SetsOfRules
<1>7. \A x \in DOMAIN add : Parents(row, {add[x].parent}) \subseteq due \cup {}
  BY <1>2, <1>4 DEF SetsOf
<1>8. DOMAIN add \subseteq Leaves(api) /\ DOMAIN add \cap HmRules = {} /\ DOMAIN add \subseteq Ids
  BY <1>3, <1>4, HmTables, HmAssumption
<1>9. DOMAIN Nothing = {} /\ Begin(h, add, Nothing, {}, due, {})
  BY <1>2, <1>4
<1> QED
  BY <1>5, <1>6, <1>7, <1>8, <1>9, HmBegun

LEMMA UpdateElementsBegun ==
  ASSUME NEW h \in Requests, api \in HmApis, Shape(api, row),
         NEW E \in SUBSET (Actions \cup Conditions), UpdateElements(h, E)
  PROVE  \E r : Begun(h, r)
<1>1. PICK N \in SUBSET E :
        \E to \in [N -> HmRules] :
          Begin(h, Nothing, [e \in N |-> Element(to[e])], {}, SetsOfElements(row, N),
                SetsOf(row, {to[e] : e \in N}) \ SetsOfElements(row, N))
  BY DEF UpdateElements, Batches, VisibleElements
<1>t. PICK to \in [N -> HmRules] :
        Begin(h, Nothing, [e \in N |-> Element(to[e])], {}, SetsOfElements(row, N),
              SetsOf(row, {to[e] : e \in N}) \ SetsOfElements(row, N))
  BY <1>1
<1>2. PICK upd, due, gap :
        /\ upd = [e \in N |-> Element(to[e])] /\ due = SetsOfElements(row, N)
        /\ gap = SetsOf(row, {to[e] : e \in N}) \ due
        /\ Begin(h, Nothing, upd, {}, due, gap)
  BY <1>t
<1>3. DOMAIN upd = N /\ DOMAIN Nothing = {} /\ \A e \in N : upd[e].parent = to[e]
  BY <1>2, NothingIs DEF Element
<1>4. N \subseteq Leaves(api)
  BY HmTables
<1>5. \A e \in DOMAIN upd : upd[e] # None => Fits(api, e, upd[e])
  BY <1>3, <1>4, HmTables DEF Fits
<1>6. due \cup gap \subseteq HmSets
  <2>1. {to[e] : e \in N} \subseteq HmRules
    OBVIOUS
  <2> QED BY <1>2, <1>4, <2>1, SetsOfRules, SetsOfLeaves
<1>7. \A x \in DOMAIN upd, t \in HmSets : TopOf(api, row, x, t) => t \in due \cup gap
  BY <1>2, <1>3, <1>4, SetsOfLeaves
<1>8. \A x \in DOMAIN upd : Parents(row, {upd[x].parent}) \subseteq due \cup gap
  <2> TAKE x \in DOMAIN upd
  <2>1. {upd[x].parent} \subseteq {to[e] : e \in N}
    BY <1>3
  <2>2. Parents(row, {upd[x].parent}) \subseteq SetsOf(row, {to[e] : e \in N})
    BY <2>1, AboveLess DEF SetsOf
  <2> QED BY <1>2, <2>2
<1>9. DOMAIN upd \subseteq Leaves(api) /\ DOMAIN upd \cap HmRules = {} /\ DOMAIN upd \subseteq Ids
  BY <1>3, <1>4, HmTables, HmAssumption
<1>10. DOMAIN Nothing = {} /\ Begin(h, Nothing, upd, {}, due, gap)
  BY <1>2, <1>3
<1> QED
  BY <1>5, <1>6, <1>7, <1>8, <1>9, <1>10, HmBegun

LEMMA DeleteElementsBegun ==
  ASSUME NEW h \in Requests, api \in HmApis, Shape(api, row),
         NEW E \in SUBSET (Actions \cup Conditions), DeleteElements(h, E)
  PROVE  \E r : Begun(h, r)
<1>1. PICK N \in SUBSET E : Begin(h, Nothing, Nothing, N, SetsOfElements(row, N), {})
  BY DEF DeleteElements, Batches, VisibleElements
<1>2. PICK due : due = SetsOfElements(row, N) /\ Begin(h, Nothing, Nothing, N, due, {})
  BY <1>1
<1>3. N \subseteq Leaves(api)
  BY HmTables
<1>4. due \cup {} \subseteq HmSets
      /\ \A x \in N, t \in HmSets : TopOf(api, row, x, t) => t \in due \cup {}
  BY <1>2, <1>3, SetsOfLeaves
<1>5. N \cap HmSets = {} /\ N \subseteq Ids /\ DOMAIN Nothing = {}
  BY <1>3, HmTables, HmAssumption, NothingIs
<1> QED
  BY <1>2, <1>4, <1>5, HmBegun

LEMMA RecreateActionsBegun ==
  ASSUME NEW h \in Requests, api \in HmApis, Shape(api, row), RecreateActions(h)
  PROVE  \E r : Begun(h, r)
<1>1. PICK N \in SUBSET Actions, m \in HmRules, M \in SUBSET Fresh(Actions) :
        Begin(h, [e \in M |-> Element(m)], Nothing, N,
              SetsOfElements(row, N) \cup SetsOf(row, {m}), {})
  BY DEF RecreateActions, Batches, VisibleElements
<1>2. PICK add, due : /\ add = [e \in M |-> Element(m)]
                      /\ due = SetsOfElements(row, N) \cup SetsOf(row, {m})
                      /\ Begin(h, add, Nothing, N, due, {})
  BY <1>1
<1>3. M \subseteq Leaves(api) /\ N \subseteq Leaves(api) /\ \A e \in M : row[e] = None
  BY HmTables DEF Fresh
<1>4. DOMAIN add = M /\ DOMAIN Nothing = {} /\ \A e \in M : add[e].parent = m
  BY <1>2, NothingIs DEF Element
<1>5. \A e \in DOMAIN add : Fits(api, e, add[e]) /\ row[e] = None
  BY <1>3, <1>4, HmTables DEF Fits
<1>6. due \cup {} \subseteq HmSets
  BY <1>2, <1>3, SetsOfRules, SetsOfLeaves
<1>7. \A x \in DOMAIN add : Parents(row, {add[x].parent}) \subseteq due \cup {}
  BY <1>2, <1>4 DEF SetsOf
<1>8. /\ DOMAIN add \cup N \subseteq Leaves(api) /\ DOMAIN add \cap HmRules = {}
      /\ N \cap HmSets = {} /\ DOMAIN add \cup N \subseteq Ids
  BY <1>3, <1>4, HmTables, HmAssumption
<1>9. \A x \in N, t \in HmSets : TopOf(api, row, x, t) => t \in due \cup {}
  BY <1>2, <1>3, SetsOfLeaves
<1>10. DOMAIN Nothing = {} /\ Begin(h, add, Nothing, N, due, {})
  BY <1>2, <1>4
<1> QED
  BY <1>5, <1>6, <1>7, <1>8, <1>9, <1>10, HmBegun

LEMMA HmHandlersBegun ==
  ASSUME NEW h \in Requests, api \in HmApis, Shape(api, row),
         \/ HmSetHandlers(h) \/ HmRuleHandlers(h) \/ ActionHandlers(h) \/ ConditionHandlers(h)
  PROVE  \E r : Begun(h, r)
<1>1. CASE HmSetHandlers(h)
  BY <1>1, CreateHmSetsBegun, UpdateHmSetsBegun, DeleteHmSetsBegun DEF HmSetHandlers
<1>2. CASE HmRuleHandlers(h)
  BY <1>2, CreateHmRulesBegun, CreateSubscriberRuleBegun, UpdateHmRulesBegun,
     DeleteHmRulesBegun DEF HmRuleHandlers
<1>3. CASE ActionHandlers(h)
  BY <1>3, CreateElementsBegun, UpdateElementsBegun, DeleteElementsBegun,
     RecreateActionsBegun DEF ActionHandlers
<1>4. CASE ConditionHandlers(h)
  BY <1>4, CreateElementsBegun, UpdateElementsBegun, DeleteElementsBegun
     DEF ConditionHandlers
<1> QED
  BY <1>1, <1>2, <1>3, <1>4

-----------------------------------------------------------------------------
\* Peerings: groups on top, and the rows of a group below it.

LEMMA PeeringTables ==
  ASSUME NEW a \in PeeringApis
  PROVE  /\ a \in Apis /\ a \notin HmApis /\ a # "rewrite rules"
         /\ Tops(a) = Groups /\ Leaves(a) = {}
         /\ Middles(a) = Servers \cup PeeringRules \cup InboundRules
BY DEF PeeringApis, HmApis, Apis, Tops, Middles, Leaves

LEMMA PeeringParent ==
  ASSUME NEW a \in PeeringApis, NEW rows, Shape(a, rows), NEW i \in Ids, rows[i] # None
  PROVE  \/ i \in Groups /\ rows[i].parent = None
         \/ /\ i \in Servers \cup PeeringRules \cup InboundRules
            /\ rows[i].parent \in Groups
BY PeeringTables DEF Shape, Exists, Fits

\* Only groups have anything below them.
LEMMA PeeringBelow ==
  ASSUME NEW a \in PeeringApis, NEW rows, Shape(a, rows)
  PROVE  /\ \A D : D \cap Groups = {} => None \in D \/ Below(rows, D) = D
         /\ \A D \in SUBSET Ids : Below(rows, D) = D \cup Children(rows, D)
<1>1. ASSUME NEW D, D \cap Groups = {}, None \notin D
      PROVE  Children(rows, D) = {}
  <2> SUFFICES ASSUME NEW i \in Ids, rows[i] # None, rows[i].parent \in D
               PROVE  FALSE
    BY IsChild
  <2> QED BY <1>1, PeeringParent
<1>2. \A D \in SUBSET Ids : None \notin Children(rows, D)
                            /\ Children(rows, D) \cap Groups = {}
  <2> SUFFICES ASSUME NEW D \in SUBSET Ids, NEW i \in Children(rows, D)
               PROVE  i # None /\ i \notin Groups
    OBVIOUS
  <2>1. i \in Ids /\ rows[i] # None /\ rows[i].parent \in D
    BY IsChild
  <2> QED BY <2>1, PeeringParent, PeeringAssumption, NoneAssumption
<1>3. \A D \in SUBSET Ids : Below(rows, D) = D \cup Children(rows, D)
  BY <1>1, <1>2 DEF Below
<1>4. \A D : D \cap Groups = {} /\ None \notin D => Below(rows, D) = D
  BY <1>1 DEF Below
<1> QED
  BY <1>3, <1>4

\* The dispatcher does not know the servers that are written, or sees no change.
Quiet(rows, r) ==
  /\ \A i \in DOMAIN r.add \cap Servers : ~(r.add[i].enabled /\ r.add[i].probe)
  /\ \A i \in DOMAIN r.upd \cap Servers : /\ rows[i].enabled = r.upd[i].enabled
                                          /\ rows[i].probe = r.upd[i].probe
                                          /\ rows[i].transport = r.upd[i].transport
                                          /\ rows[i].address = r.upd[i].address
  /\ \A i \in Below(rows, r.del) \cap Servers :
       rows[i] # None => ~(rows[i].enabled /\ rows[i].probe)

LEMMA QuietDispatcher ==
  ASSUME NEW rows, NEW r, Quiet(rows, r), \A i \in DOMAIN r.add : rows[i] = None,
         NEW i \in Wrote(rows, r)
  PROVE  Dispatched(rows, i) = Dispatched(Written(rows, r), i)
<1> SUFFICES ASSUME i \in Servers
             PROVE  Dispatched(rows, i) = Dispatched(Written(rows, r), i)
  BY DEF Dispatched
<1>1. i \in Ids
  BY PeeringAssumption
<1>2. CASE i \in Below(rows, r.del)
  <2>1. Written(rows, r)[i] = None
    BY <1>1, <1>2, WrittenIs
  <2> QED BY <1>2, <2>1 DEF Dispatched, Exists, Quiet
<1>3. CASE i \notin Below(rows, r.del) /\ i \in DOMAIN r.add
  <2>1. Written(rows, r)[i] = r.add[i] /\ rows[i] = None
    BY <1>1, <1>3, WrittenIs
  <2> QED BY <1>3, <2>1 DEF Dispatched, Exists, Quiet
<1>4. CASE i \notin Below(rows, r.del) /\ i \notin DOMAIN r.add
  <2>1. rows[i] # None /\ i \in DOMAIN r.upd
    BY <1>4 DEF Wrote, Exists
  <2>2. \/ Written(rows, r)[i] = rows[i]
        \/ r.upd[i] # None /\ Written(rows, r)[i] = r.upd[i]
    BY <1>1, <1>4, WrittenUpd
  <2> QED BY <2>1, <2>2 DEF Dispatched, Exists, Quiet
<1> QED
  BY <1>2, <1>3, <1>4

\* Whoever changes what routes calls has registered "lcr", or it is about groups
\* without it; whoever changes what the dispatcher knows has registered that.
LEMMA PeeringBegun ==
  ASSUME NEW h, NEW add, NEW upd, NEW del, NEW due, NEW gap,
         Begin(h, add, upd, del, due, gap), api \in PeeringApis,
         DOMAIN add \cup DOMAIN upd \cup del \subseteq Ids,
         \A i \in DOMAIN add : Fits(api, i, add[i]) /\ row[i] = None,
         \A i \in DOMAIN upd : upd[i] # None => Fits(api, i, upd[i]),
         due \cup gap \subseteq {"lcr", "dispatcher"},
         \/ "lcr" \in due \cup gap
         \/ DOMAIN add \cup del \subseteq Groups /\ DOMAIN upd = {} /\ ~Live(row, del),
         \/ "dispatcher" \in due \cup gap
         \/ Quiet(row, Request(add, upd, del, due, gap)),
         api = "inbound rules" => \A q : q = Request(add, upd, del, due, gap)
                                           => FlagUnsure(q) \/ FlagsKept(row, q)
  PROVE  \E r : Begun(h, r)
<1>r. PICK r : r = Request(add, upd, del, due, gap)
  OBVIOUS
<1>1. /\ r.add = add /\ r.upd = upd /\ r.del = del /\ r.due = due /\ r.gap = gap
      /\ Begins(h, r)
  BY <1>r DEF Request, Begin, Begins
<1>2. Pending(api, r)
  BY <1>r, PeeringTables, RequestPending, PeeringAssumption
<1>3. "lcr" \in r.due \cup r.gap \/ NoRoutes(row, r)
  BY <1>1 DEF NoRoutes, Exists
<1>4. ASSUME NEW i \in Wrote(row, r),
             Dispatched(row, i) # Dispatched(Written(row, r), i)
      PROVE  "dispatcher" \in r.due \cup r.gap
  <2>1. ~Quiet(row, r)
    BY <1>1, <1>4, QuietDispatcher
  <2> QED BY <1>r, <1>1, <2>1
<1>5. api = "inbound rules" /\ ~FlagUnsure(r) => FlagsKept(row, r)
  BY <1>r
<1> QED
  BY <1>1, <1>2, <1>3, <1>4, <1>5, PeeringTables DEF Begun, Covers, PeeringCovers

-----------------------------------------------------------------------------
\* The flags of groups, for each handler that is sure of them.

\* Nothing that is modelled changes: PUT and PATCH of groups.
LEMMA SameRowsFlags ==
  ASSUME NEW a \in PeeringApis, NEW rows, Shape(a, rows), NEW r,
         Wrote(rows, r) \subseteq Groups,
         \A i \in Ids : Written(rows, r)[i] = rows[i]
  PROVE  FlagsKept(rows, r)
<1>1. ASSUME NEW g \in Groups, FlagRight(rows, g)
      PROVE  FlagRight(Written(rows, r), g)
  <2>1. Children(Written(rows, r), {g}) = Children(rows, {g})
    BY DEF Children, Exists
  <2>2. Written(rows, r)[g] = rows[g]
    BY PeeringAssumption
  <2> QED BY <1>1, <2>1, <2>2, SameFlag
<1>2. \A i \in Wrote(rows, r) : rows[i] # None => rows[i].parent \notin Groups
  BY PeeringParent, PeeringAssumption, NoneAssumption
<1>3. \A i \in Wrote(rows, r) : Written(rows, r)[i] = rows[i]
  BY PeeringAssumption
<1> QED
  BY <1>1, <1>2, <1>3 DEF FlagsKept, Exists

LEMMA CreateGroupFlags ==
  ASSUME NEW a \in PeeringApis, NEW rows, Shape(a, rows), ForeignKeys(rows), NEW r,
         NEW g \in Groups, rows[g] = None, r.add = [i \in {g} |-> Group(FALSE)],
         DOMAIN r.upd = {}, r.del = {}
  PROVE  FlagsKept(rows, r)
<1>1. g \in Ids /\ DOMAIN r.add = {g} /\ r.add[g] = Group(FALSE) /\ Named(r) = {g}
  BY PeeringAssumption DEF Named
<1>2. Wrote(rows, r) = {g}
  BY <1>1, BelowNothing DEF Wrote
<1>3. Written(rows, r)[g] = Group(FALSE)
  BY <1>1, BelowNothing, WrittenIs
<1>4. \A i \in Ids \ {g} : Written(rows, r)[i] = rows[i]
  BY <1>2, Unwritten
<1>5. Group(FALSE).parent = None /\ Group(FALSE).has_inbound_rules = FALSE
  BY DEF Group
<1>6. Children(Written(rows, r), {g}) = {}
  <2> SUFFICES ASSUME NEW i \in Ids, Written(rows, r)[i] # None,
                      Written(rows, r)[i].parent = g
               PROVE  FALSE
    BY IsChild
  <2>1. i # g
    BY <1>1, <1>3, <1>5, NoneAssumption
  <2>2. rows[i] # None /\ rows[i].parent = g
    BY <1>4, <2>1
  <2> QED BY <1>1, <2>2, NoneAssumption DEF ForeignKeys, Exists
<1>7. FlagRight(Written(rows, r), g)
  BY <1>3, <1>5, <1>6 DEF FlagRight
<1>8. None \notin Groups
  BY PeeringAssumption, NoneAssumption
<1> QED
  BY <1>1, <1>2, <1>3, <1>5, <1>7, <1>8 DEF FlagsKept, Exists

LEMMA DeleteGroupFlags ==
  ASSUME NEW a \in PeeringApis, NEW rows, Shape(a, rows), NEW r,
         DOMAIN r.add = {}, DOMAIN r.upd = {}, r.del \subseteq Groups
  PROVE  FlagsKept(rows, r)
<1>1. Named(r) = r.del /\ r.del \subseteq Ids /\ None \notin Groups
  BY PeeringAssumption, NoneAssumption DEF Named
<1>2. Below(rows, r.del) = r.del \cup Children(rows, r.del)
  BY <1>1, PeeringBelow
<1>3. Wrote(rows, r) \subseteq Below(rows, r.del) /\ Wrote(rows, r) \subseteq Ids
  BY <1>1, BelowIds DEF Wrote
<1>4. \A i \in Ids : i \in Below(rows, r.del) => Written(rows, r)[i] = None
  BY WrittenIs
<1>5. \A g \in Groups \cap Named(r) : FlagRight(Written(rows, r), g)
  BY <1>1, <1>2, <1>4 DEF FlagRight, Exists
<1>6. ASSUME NEW i \in Wrote(rows, r), rows[i] # None, rows[i].parent \in Groups
      PROVE  rows[i].parent \in Named(r)
  <2>1. i \notin Groups
    BY <1>1, <1>3, <1>6, PeeringParent, PeeringAssumption
  <2>2. i \in Children(rows, r.del)
    BY <1>2, <1>3, <2>1
  <2> QED BY <1>1, <2>2, IsChild
<1>7. \A i \in Wrote(rows, r) : Written(rows, r)[i] = None
  BY <1>3, <1>4
<1> QED
  BY <1>5, <1>6, <1>7 DEF FlagsKept, Exists

\* POST of inbound rules, with the flag written.
AddsRules(r, g, R, e) ==
  /\ r.add = [i \in R |-> Rule(g, e)] /\ r.del = {}
  /\ DOMAIN r.upd = {g} /\ r.upd[g] = Group(TRUE)

LEMMA CreateInboundFlags ==
  ASSUME NEW a \in PeeringApis, NEW rows, Shape(a, rows), NEW r,
         NEW g \in Groups, rows[g] # None,
         NEW R \in SUBSET InboundRules, R # {}, \A i \in R : rows[i] = None,
         NEW e \in BOOLEAN, AddsRules(r, g, R, e)
  PROVE  FlagsKept(rows, r)
<1>1. /\ g \in Ids /\ R \subseteq Ids /\ g \notin R /\ None \notin Groups
      /\ DOMAIN r.add = R /\ Named(r) = R \cup {g}
  BY PeeringAssumption, NoneAssumption DEF Named, AddsRules
<1>2. Below(rows, r.del) = {} /\ Wrote(rows, r) \subseteq R \cup {g}
  BY <1>1, BelowNothing DEF Wrote, AddsRules
<1>3. Group(TRUE) # None /\ Rule(g, e) # None
  BY PeeringAssumption
<1>4. Written(rows, r)[g] = Group(TRUE)
  <2>1. g \in DOMAIN r.upd /\ r.upd[g] # None
    BY <1>3 DEF AddsRules
  <2>2. Written(rows, r)[g] = r.upd[g]
    BY <1>1, <1>2, <2>1, WrittenUpdated
  <2> QED BY <2>2 DEF AddsRules
<1>5. \A i \in R : Written(rows, r)[i] = Rule(g, e)
  <2>1. \A i \in R : Written(rows, r)[i] = r.add[i]
    BY <1>1, <1>2, WrittenIs
  <2> QED BY <2>1 DEF AddsRules
<1>6. /\ Group(TRUE).parent = None /\ Group(TRUE).has_inbound_rules = TRUE
      /\ Rule(g, e).parent = g
  BY DEF Group, Rule
<1>7. R \subseteq Children(Written(rows, r), {g})
  BY <1>1, <1>3, <1>5, <1>6, IsChild
<1>8. FlagRight(Written(rows, r), g)
  BY <1>4, <1>6, <1>7 DEF FlagRight
<1>9. Groups \cap Named(r) = {g}
  BY <1>1, PeeringAssumption
<1>10. rows[g].parent = None
  BY <1>1, PeeringParent, PeeringAssumption
<1>11. \A i \in Wrote(rows, r) :
          /\ rows[i] # None => i = g
          /\ Written(rows, r)[i].parent \in {g, None}
  BY <1>2, <1>4, <1>5, <1>6
<1> QED
  BY <1>1, <1>8, <1>9, <1>10, <1>11 DEF FlagsKept, Exists

\* DELETE of inbound rules, with the flags written.
LEMMA DeleteInboundFlags ==
  ASSUME NEW a \in PeeringApis, NEW rows, Shape(a, rows), ForeignKeys(rows), NEW r,
         NEW R \in SUBSET InboundRules, DOMAIN r.add = {}, r.del = R,
         DOMAIN r.upd = Parents(rows, R),
         \A g \in Parents(rows, R) :
           r.upd[g] = Group((Children(rows, {g}) \cap InboundRules) \ R # {})
  PROVE  FlagsKept(rows, r)
<1>1. R \subseteq Ids /\ R \cap Groups = {} /\ None \notin Groups /\ None \notin R
  BY PeeringAssumption, NoneAssumption
<1>2. \A i \in R : rows[i] # None => rows[i].parent \in Groups
  BY <1>1, PeeringParent
<1>3. Parents(rows, R) \subseteq Groups /\ Parents(rows, R) \subseteq Ids
  BY <1>2, IsParent, PeeringAssumption
<1>4. Below(rows, r.del) = R
  BY <1>1, PeeringBelow
<1>5. \A g \in Parents(rows, R) : rows[g] # None /\ rows[g].parent = None
  <2> TAKE g \in Parents(rows, R)
  <2>1. PICK j \in R : rows[j] # None /\ rows[j].parent = g
    BY IsParent
  <2>2. g # None /\ g \in Groups /\ g \in Ids
    BY <1>1, <1>3
  <2>3. rows[g] # None
    BY <1>1, <2>1, <2>2 DEF ForeignKeys, Exists
  <2> QED BY <2>2, <2>3, PeeringParent, PeeringAssumption
<1>6. \A b \in BOOLEAN : /\ Group(b) # None /\ Group(b).parent = None
                         /\ Group(b).has_inbound_rules = b
  BY PeeringAssumption DEF Group
<1>7. \A g \in Parents(rows, R) :
        /\ Written(rows, r)[g] # None /\ Written(rows, r)[g].parent = None
        /\ Written(rows, r)[g].has_inbound_rules
             = ((Children(rows, {g}) \cap InboundRules) \ R # {})
  <2> TAKE g \in Parents(rows, R)
  <2>1. PICK b \in BOOLEAN : b = ((Children(rows, {g}) \cap InboundRules) \ R # {})
    OBVIOUS
  <2>2. r.upd[g] = Group(b)
    BY <2>1
  <2>3. g \notin R /\ g \in Ids
    BY <1>1, <1>3
  <2>4. Written(rows, r)[g] = Group(b)
    BY <1>4, <1>5, <1>6, <2>2, <2>3, WrittenIs
  <2> QED BY <1>6, <2>1, <2>4
<1>8. \A i \in R : Written(rows, r)[i] = None
  BY <1>1, <1>4, WrittenIs
<1>9. \A i \in Ids \ (R \cup Parents(rows, R)) : Written(rows, r)[i] = rows[i]
  BY <1>4, WrittenIs
<1>10. \A g \in Parents(rows, R) :
         Children(Written(rows, r), {g}) \cap InboundRules
           = (Children(rows, {g}) \cap InboundRules) \ R
  <2> TAKE g \in Parents(rows, R)
  <2>1. g # None
    BY <1>1, <1>3
  <2>2. InboundRules \subseteq Ids /\ InboundRules \cap Parents(rows, R) = {}
    BY <1>3, PeeringAssumption
  <2>3. \A i \in InboundRules : i \in Children(Written(rows, r), {g})
                                  <=> i \in Children(rows, {g}) /\ i \notin R
    BY <1>8, <1>9, <2>2, IsChild
  <2> QED BY <2>3
<1>11. \A g \in Parents(rows, R) : FlagRight(Written(rows, r), g)
  BY <1>7, <1>10 DEF FlagRight
<1>12. Named(r) = R \cup Parents(rows, R)
  BY DEF Named
<1>13. Wrote(rows, r) \subseteq Named(r)
  BY <1>4, <1>12 DEF Wrote
<1>14. \A i \in Wrote(rows, r) : rows[i] # None /\ rows[i].parent \in Groups
                                   => rows[i].parent \in Parents(rows, R)
  BY <1>1, <1>5, <1>12, <1>13, IsParent
<1>15. \A i \in Wrote(rows, r) : Written(rows, r)[i] # None
                                   => Written(rows, r)[i].parent \notin Groups
  BY <1>1, <1>7, <1>8, <1>12, <1>13
<1> QED
  BY <1>1, <1>11, <1>12, <1>14, <1>15 DEF FlagsKept, Exists

-----------------------------------------------------------------------------
\* The handlers of peerings.

LEMMA ReloadingIs ==
  ASSUME NEW d \in BOOLEAN
  PROVE  /\ "lcr" \in Reloading(d) \cup {} /\ Reloading(d) \cup {} \subseteq {"lcr", "dispatcher"}
         /\ d => "dispatcher" \in Reloading(d) \cup {}
BY DEF Reloading

LEMMA CreateGroupsBegun ==
  ASSUME NEW h \in Requests, api \in PeeringApis, Shape(api, row), ForeignKeys(row),
         CreateGroups(h)
  PROVE  \E r : Begun(h, r)
<1>1. PICK g \in Fresh(Groups) :
        Begin(h, [i \in {g} |-> Group(FALSE)], Nothing, {}, {}, {})
  BY DEF CreateGroups
<1>2. PICK add : add = [i \in {g} |-> Group(FALSE)] /\ Begin(h, add, Nothing, {}, {}, {})
  BY <1>1
<1>3. /\ g \in Groups /\ row[g] = None /\ g \in Ids /\ g \notin Servers
      /\ DOMAIN add = {g} /\ DOMAIN Nothing = {}
  BY <1>2, NothingIs, PeeringAssumption DEF Fresh
<1>4. \A i \in DOMAIN add : Fits(api, i, add[i]) /\ row[i] = None
  <2>1. add[g].parent = None
    BY <1>2 DEF Group
  <2>2. Fits(api, g, add[g])
    BY <1>3, <2>1, PeeringTables DEF Fits
  <2> QED BY <1>3, <2>2
<1>5. DOMAIN add \cup {} \subseteq Groups /\ ~Live(row, {})
  BY <1>3 DEF Live, Children
<1>6. Quiet(row, Request(add, Nothing, {}, {}, {}))
  BY <1>3, BelowNothing DEF Quiet, Request
<1>7. \A q : q = Request(add, Nothing, {}, {}, {}) => FlagsKept(row, q)
  <2> TAKE q
  <2> HAVE q = Request(add, Nothing, {}, {}, {})
  <2>1. q.add = add /\ q.upd = Nothing /\ q.del = {}
    BY DEF Request
  <2> QED BY <1>2, <1>3, <2>1, CreateGroupFlags
<1>8. Begin(h, add, Nothing, {}, {}, {}) /\ DOMAIN add \subseteq Ids /\ DOMAIN Nothing = {}
  BY <1>2, <1>3
<1> QED
  BY <1>4, <1>5, <1>6, <1>7, <1>8, PeeringBegun

\* PUT and PATCH of groups write what is there.
LEMMA WriteGroupsBegun ==
  ASSUME NEW h \in Requests, api \in PeeringApis, Shape(api, row), NEW G \in SUBSET Groups,
         NEW upd, DOMAIN upd = G, \A g \in G : row[g] # None /\ upd[g] \in {None, row[g]},
         Begin(h, Nothing, upd, {}, {}, {"lcr"})
  PROVE  \E r : Begun(h, r)
<1>1. G \subseteq Ids /\ G \cap Servers = {} /\ DOMAIN Nothing = {}
  BY NothingIs, PeeringAssumption
<1>2. \A i \in DOMAIN upd : upd[i] # None => Fits(api, i, upd[i])
  BY <1>1 DEF Shape, Exists
<1>3. Quiet(row, Request(Nothing, upd, {}, {}, {"lcr"}))
  BY <1>1, BelowNothing DEF Quiet, Request
<1>4. \A q : q = Request(Nothing, upd, {}, {}, {"lcr"}) => FlagsKept(row, q)
  <2> TAKE q
  <2> HAVE q = Request(Nothing, upd, {}, {}, {"lcr"})
  <2>1. q.add = Nothing /\ q.upd = upd /\ q.del = {}
    BY DEF Request
  <2>2. Below(row, q.del) = {} /\ DOMAIN q.add = {}
    BY <1>1, <2>1, BelowNothing
  <2>3. Wrote(row, q) \subseteq Groups
    BY <2>1, <2>2 DEF Wrote
  <2>4. \A i \in Ids : Written(row, q)[i] = row[i]
    <3> TAKE i \in Ids
    <3>1. \/ Written(row, q)[i] = row[i]
          \/ i \in DOMAIN q.upd /\ q.upd[i] # None /\ Written(row, q)[i] = q.upd[i]
      BY <2>2, WrittenIs
    <3> QED BY <2>1, <3>1
  <2> QED BY <2>3, <2>4, SameRowsFlags
<1> QED
  BY <1>1, <1>2, <1>3, <1>4, PeeringBegun

LEMMA UpdateGroupsBegun ==
  ASSUME NEW h \in Requests, api \in PeeringApis, Shape(api, row), UpdateGroups(h)
  PROVE  \E r : Begun(h, r)
<1>1. PICK G \in SUBSET {g \in Groups : Exists(row, g)} :
        Begin(h, Nothing, [g \in G |-> None], {}, {}, {"lcr"})
  BY DEF UpdateGroups, Batches
<1>2. PICK upd : upd = [g \in G |-> None] /\ Begin(h, Nothing, upd, {}, {}, {"lcr"})
  BY <1>1
<1>3. DOMAIN upd = G /\ \A g \in G : row[g] # None /\ upd[g] \in {None, row[g]}
  BY <1>2 DEF Exists
<1> QED
  BY <1>2, <1>3, WriteGroupsBegun

LEMMA AdjustGroupsBegun ==
  ASSUME NEW h \in Requests, api \in PeeringApis, Shape(api, row), AdjustGroups(h)
  PROVE  \E r : Begun(h, r)
<1>1. PICK G \in SUBSET {g \in Groups : Exists(row, g)} :
        Begin(h, Nothing, [g \in G |-> row[g]], {}, {}, {"lcr"})
  BY DEF AdjustGroups, Batches
<1>2. PICK upd : upd = [g \in G |-> row[g]] /\ Begin(h, Nothing, upd, {}, {}, {"lcr"})
  BY <1>1
<1>3. DOMAIN upd = G /\ \A g \in G : row[g] # None /\ upd[g] \in {None, row[g]}
  BY <1>2 DEF Exists
<1> QED
  BY <1>2, <1>3, WriteGroupsBegun

LEMMA DeleteGroupsBegun ==
  ASSUME NEW h \in Requests, api \in PeeringApis, Shape(api, row), DeleteGroups(h)
  PROVE  \E r : Begun(h, r)
<1>1. PICK G \in SUBSET Groups :
        Begin(h, Nothing, Nothing, G, IF Live(row, G) THEN Reloading(TRUE) ELSE {}, {})
  BY DEF DeleteGroups, Batches
<1>2. PICK due : /\ due = IF Live(row, G) THEN Reloading(TRUE) ELSE {}
                 /\ Begin(h, Nothing, Nothing, G, due, {})
  BY <1>1
<1>3. G \subseteq Ids /\ G \cap Servers = {} /\ DOMAIN Nothing = {}
  BY NothingIs, PeeringAssumption
<1>4. /\ due \cup {} \subseteq {"lcr", "dispatcher"}
      /\ Live(row, G) => "lcr" \in due \cup {} /\ "dispatcher" \in due \cup {}
  BY <1>2, ReloadingIs
<1>5. ~Live(row, G) => Quiet(row, Request(Nothing, Nothing, G, due, {}))
  <2> SUFFICES ASSUME ~Live(row, G), NEW i \in Below(row, G) \cap Servers, row[i] # None
               PROVE  ~(row[i].enabled /\ row[i].probe)
    BY <1>3 DEF Quiet, Request
  <2>1. i \in Children(row, G)
    BY <1>3, PeeringBelow
  <2> QED BY <2>1 DEF Live
<1>6. \A q : q = Request(Nothing, Nothing, G, due, {}) => FlagsKept(row, q)
  <2> TAKE q
  <2> HAVE q = Request(Nothing, Nothing, G, due, {})
  <2>1. q.add = Nothing /\ q.upd = Nothing /\ q.del = G
    BY DEF Request
  <2> QED BY <1>3, <2>1, DeleteGroupFlags
<1>7. DOMAIN Nothing \cup G \subseteq Groups
  BY <1>3
<1>8. Begin(h, Nothing, Nothing, G, due, {})
  BY <1>2
<1> QED
  BY <1>3, <1>4, <1>5, <1>6, <1>7, <1>8, PeeringBegun


\* Servers, and rules of either kind, go to a group.
LEMMA FitsGroup ==
  ASSUME NEW a \in PeeringApis, NEW i \in Servers \cup PeeringRules \cup InboundRules,
         NEW x, x.parent \in Groups
  PROVE  Fits(a, i, x)
BY PeeringTables DEF Fits

LEMMA CreateServersBegun ==
  ASSUME NEW h \in Requests, api = "peering servers", CreateServers(h)
  PROVE  \E r : Begun(h, r)
<1>1. PICK S \in SUBSET Fresh(Servers), g \in Groups, b \in Bodies :
        Begin(h, [i \in S |-> Server(g, b)], Nothing, {}, Reloading(b.enabled /\ b.probe), {})
  BY DEF CreateServers, Batches
<1>d. PICK d \in BOOLEAN : d = (b.enabled /\ b.probe)
  OBVIOUS
<1>2. PICK add : /\ add = [i \in S |-> Server(g, b)]
                 /\ Begin(h, add, Nothing, {}, Reloading(d), {})
  BY <1>1, <1>d
<1>3. /\ DOMAIN add = S /\ DOMAIN Nothing = {} /\ S \subseteq Servers /\ S \subseteq Ids
      /\ \A i \in S : row[i] = None
  BY <1>2, NothingIs, PeeringAssumption DEF Fresh
<1>4. \A i \in S : /\ add[i].parent = g /\ add[i].enabled = b.enabled
                   /\ add[i].probe = b.probe
  BY <1>2 DEF Server
<1>5. \A i \in DOMAIN add : Fits(api, i, add[i]) /\ row[i] = None
  BY <1>3, <1>4, FitsGroup DEF PeeringApis
<1>6. ~d => Quiet(row, Request(add, Nothing, {}, Reloading(d), {}))
  BY <1>d, <1>3, <1>4, BelowNothing DEF Quiet, Request
<1>7. api \in PeeringApis /\ api # "inbound rules"
  BY DEF PeeringApis
<1>8. Begin(h, add, Nothing, {}, Reloading(d), {})
  BY <1>2
<1> QED
  BY <1>3, <1>5, <1>6, <1>7, <1>8, ReloadingIs, PeeringBegun

LEMMA UpdateServersBegun ==
  ASSUME NEW h \in Requests, api = "peering servers", UpdateServers(h)
  PROVE  \E r : Begun(h, r)
<1>1. PICK S \in SUBSET Servers, g \in Groups, b \in Bodies :
        Begin(h, Nothing, [i \in S |-> Server(g, b)], {}, Reloading(DispatcherOnUpdate(S, b)),
              IF OnlyMoved(S, b) THEN {"dispatcher"} ELSE {})
  BY DEF UpdateServers, Batches
<1>2. PICK upd, due, gap :
        /\ upd = [i \in S |-> Server(g, b)]
        /\ due = Reloading(DispatcherOnUpdate(S, b))
        /\ gap = IF OnlyMoved(S, b) THEN {"dispatcher"} ELSE {}
        /\ Begin(h, Nothing, upd, {}, due, gap)
  BY <1>1
<1>3. DOMAIN upd = S /\ DOMAIN Nothing = {} /\ S \subseteq Servers /\ S \subseteq Ids
  BY <1>2, NothingIs, PeeringAssumption
<1>4. \A i \in S : /\ upd[i].parent = g /\ upd[i].enabled = b.enabled
                   /\ upd[i].probe = b.probe /\ upd[i].transport = b.transport
                   /\ upd[i].address = b.address
  BY <1>2 DEF Server
<1>5. \A i \in DOMAIN upd : upd[i] # None => Fits(api, i, upd[i])
  BY <1>3, <1>4, FitsGroup DEF PeeringApis
<1>6. "dispatcher" \in due \cup gap \/ Quiet(row, Request(Nothing, upd, {}, due, gap))
  <2> SUFFICES ASSUME "dispatcher" \notin due \cup gap
               PROVE  Quiet(row, Request(Nothing, upd, {}, due, gap))
    OBVIOUS
  <2>1. ~DispatcherOnUpdate(S, b) /\ ~OnlyMoved(S, b)
    BY <1>2 DEF Reloading
  <2>2. \A i \in S : /\ row[i].enabled = b.enabled /\ row[i].probe = b.probe
                     /\ row[i].transport = b.transport /\ row[i].address = b.address
    BY <2>1 DEF DispatcherOnUpdate, OnlyMoved
  <2> QED BY <1>3, <1>4, <2>2, BelowNothing DEF Quiet, Request
<1>7. api \in PeeringApis /\ api # "inbound rules"
  BY DEF PeeringApis
<1>8. "lcr" \in due \cup gap /\ due \cup gap \subseteq {"lcr", "dispatcher"}
  BY <1>2 DEF Reloading
<1> QED
  BY <1>2, <1>3, <1>5, <1>6, <1>7, <1>8, PeeringBegun

LEMMA DeleteServersBegun ==
  ASSUME NEW h \in Requests, api = "peering servers", Shape(api, row), DeleteServers(h)
  PROVE  \E r : Begun(h, r)
<1>1. PICK S \in SUBSET Servers :
        Begin(h, Nothing, Nothing, S, Reloading(\E i \in S : row[i].enabled /\ row[i].probe), {})
  BY DEF DeleteServers, Batches
<1>2. PICK d \in BOOLEAN : /\ d = \E i \in S : row[i].enabled /\ row[i].probe
                           /\ Begin(h, Nothing, Nothing, S, Reloading(d), {})
  BY <1>1
<1>3. /\ DOMAIN Nothing = {} /\ S \subseteq Ids /\ S \cap Groups = {} /\ None \notin S
      /\ api \in PeeringApis /\ api # "inbound rules"
  BY NothingIs, PeeringAssumption, NoneAssumption DEF PeeringApis
<1>4. Below(row, S) = S
  BY <1>3, PeeringBelow
<1>5. ~d => Quiet(row, Request(Nothing, Nothing, S, Reloading(d), {}))
  BY <1>2, <1>3, <1>4 DEF Quiet, Request
<1>6. Begin(h, Nothing, Nothing, S, Reloading(d), {})
  BY <1>2
<1> QED
  BY <1>3, <1>5, <1>6, ReloadingIs, PeeringBegun

\* The dispatcher knows nothing of rules and groups.
LEMMA QuietRules ==
  ASSUME NEW a \in PeeringApis, NEW rows, Shape(a, rows),
         NEW add, NEW upd, NEW del \in SUBSET (PeeringRules \cup InboundRules), NEW due,
         (DOMAIN add \cup DOMAIN upd) \cap Servers = {}
  PROVE  Quiet(rows, Request(add, upd, del, due, {}))
<1>1. del \cap Groups = {} /\ None \notin del /\ del \cap Servers = {}
  BY PeeringAssumption, NoneAssumption
<1>2. Below(rows, del) = del
  BY <1>1, PeeringBelow
<1> QED
  BY <1>1, <1>2 DEF Quiet, Request

LEMMA GroupOnTop ==
  ASSUME NEW b
  PROVE  Group(b).parent = None
BY DEF Group

LEMMA RulesParents ==
  ASSUME NEW a \in PeeringApis, NEW rows, Shape(a, rows), NEW R \in SUBSET InboundRules
  PROVE  Parents(rows, R) \subseteq Groups
<1>1. \A i \in R : rows[i] # None => rows[i].parent \in Groups
  BY PeeringParent, PeeringAssumption
<1> QED
  BY <1>1, IsParent

LEMMA RulesAre ==
  ASSUME NEW R, R \subseteq PeeringRules \/ R \subseteq InboundRules
  PROVE  /\ R \subseteq Ids /\ R \subseteq PeeringRules \cup InboundRules
         /\ R \cap Servers = {} /\ R \cap Groups = {} /\ DOMAIN Nothing = {}
BY PeeringAssumption, NothingIs

LEMMA CreatePeeringRulesBegun ==
  ASSUME NEW h \in Requests, api = "peering servers", Shape(api, row), CreatePeeringRules(h)
  PROVE  \E r : Begun(h, r)
<1>1. PICK R \in SUBSET Fresh(PeeringRules), g \in Groups, e \in BOOLEAN :
        Begin(h, [i \in R |-> Rule(g, e)], Nothing, {}, Reloading(e), {})
  BY DEF CreatePeeringRules, Batches
<1>2. PICK add : add = [i \in R |-> Rule(g, e)] /\ Begin(h, add, Nothing, {}, Reloading(e), {})
  BY <1>1
<1>3. R \subseteq PeeringRules /\ \A i \in R : row[i] = None
  BY DEF Fresh
<1>4. DOMAIN add = R /\ \A i \in R : add[i].parent = g
  BY <1>2 DEF Rule
<1>5. \A i \in DOMAIN add : Fits(api, i, add[i]) /\ row[i] = None
  BY <1>3, <1>4, FitsGroup DEF PeeringApis
<1>6. api \in PeeringApis /\ api # "inbound rules"
  BY DEF PeeringApis
<1>7. Quiet(row, Request(add, Nothing, {}, Reloading(e), {}))
  BY <1>3, <1>4, <1>6, RulesAre, QuietRules
<1>8. Begin(h, add, Nothing, {}, Reloading(e), {})
  BY <1>2
<1> QED
  BY <1>3, <1>4, <1>5, <1>6, <1>7, <1>8, RulesAre, ReloadingIs, PeeringBegun

LEMMA UpdatePeeringRulesBegun ==
  ASSUME NEW h \in Requests, api = "peering servers", Shape(api, row), UpdatePeeringRules(h)
  PROVE  \E r : Begun(h, r)
<1>1. PICK R \in SUBSET PeeringRules, g \in Groups, e \in BOOLEAN :
        Begin(h, Nothing, [i \in R |-> Rule(g, e)], {},
              Reloading(\E i \in R : row[i].enabled # e), {})
  BY DEF UpdatePeeringRules, Batches
<1>d. PICK d \in BOOLEAN : d = (\E i \in R : row[i].enabled # e)
  OBVIOUS
<1>2. PICK upd : upd = [i \in R |-> Rule(g, e)] /\ Begin(h, Nothing, upd, {}, Reloading(d), {})
  BY <1>1, <1>d
<1>3. DOMAIN upd = R /\ \A i \in R : upd[i].parent = g
  BY <1>2 DEF Rule
<1>4. \A i \in DOMAIN upd : upd[i] # None => Fits(api, i, upd[i])
  BY <1>3, FitsGroup DEF PeeringApis
<1>5. api \in PeeringApis /\ api # "inbound rules"
  BY DEF PeeringApis
<1>6. Quiet(row, Request(Nothing, upd, {}, Reloading(d), {}))
  BY <1>3, <1>5, RulesAre, QuietRules
<1>7. Begin(h, Nothing, upd, {}, Reloading(d), {})
  BY <1>2
<1> QED
  BY <1>3, <1>4, <1>5, <1>6, <1>7, RulesAre, ReloadingIs, PeeringBegun

LEMMA DeletePeeringRulesBegun ==
  ASSUME NEW h \in Requests, api = "peering servers", Shape(api, row), DeletePeeringRules(h)
  PROVE  \E r : Begun(h, r)
<1>1. PICK R \in SUBSET PeeringRules :
        Begin(h, Nothing, Nothing, R, Reloading(\E i \in R : row[i].enabled), {})
  BY DEF DeletePeeringRules, Batches
<1>2. PICK d \in BOOLEAN : Begin(h, Nothing, Nothing, R, Reloading(d), {})
  <2>1. PICK d \in BOOLEAN : d = \E i \in R : row[i].enabled
    OBVIOUS
  <2> QED BY <1>1, <2>1
<1>3. api \in PeeringApis /\ api # "inbound rules"
  BY DEF PeeringApis
<1>4. Quiet(row, Request(Nothing, Nothing, R, Reloading(d), {}))
  BY <1>3, RulesAre, QuietRules
<1> QED
  BY <1>2, <1>3, <1>4, RulesAre, ReloadingIs, PeeringBegun

LEMMA CreateInboundRulesBegun ==
  ASSUME NEW h \in Requests, api = "inbound rules", Shape(api, row), CreateInboundRules(h)
  PROVE  \E r : Begun(h, r)
<1>1. PICK R \in Batches(Fresh(InboundRules)), g \in Groups, e \in BOOLEAN, done \in BOOLEAN :
        Begin(h, [i \in R |-> Rule(g, e)], Flagged({g}, TRUE, done), {}, Reloading(e), {})
  BY DEF CreateInboundRules
<1>2. PICK add, upd : /\ add = [i \in R |-> Rule(g, e)] /\ upd = Flagged({g}, TRUE, done)
                      /\ Begin(h, add, upd, {}, Reloading(e), {})
  BY <1>1
<1>3. /\ R \subseteq InboundRules /\ R # {} /\ \A i \in R : row[i] = None
      /\ api \in PeeringApis
  BY DEF Fresh, Batches, PeeringApis
<1>4. DOMAIN add = R /\ \A i \in R : add[i].parent = g
  BY <1>2 DEF Rule
<1>5. \/ DOMAIN upd = {}
      \/ DOMAIN upd = {g} /\ row[g] # None /\ upd[g] = Group(TRUE)
  BY <1>2, NothingIs DEF Flagged, Exists
<1>6. \A i \in DOMAIN add : Fits(api, i, add[i]) /\ row[i] = None
  BY <1>3, <1>4, FitsGroup
<1>7. \A i \in DOMAIN upd : upd[i] # None => Fits(api, i, upd[i])
  <2>1. Group(TRUE).parent = None
    BY DEF Group
  <2>2. Fits(api, g, Group(TRUE))
    BY <1>3, <2>1, PeeringTables DEF Fits
  <2> QED BY <1>5, <2>2
<1>8. DOMAIN upd \subseteq Groups /\ DOMAIN upd \subseteq Ids /\ DOMAIN upd \cap Servers = {}
  BY <1>5, PeeringAssumption
<1>9. Quiet(row, Request(add, upd, {}, Reloading(e), {}))
  <2>1. (DOMAIN add \cup DOMAIN upd) \cap Servers = {}
    BY <1>3, <1>4, <1>8, RulesAre
  <2> QED BY <1>3, <2>1, QuietRules
<1>10. \A q : q = Request(add, upd, {}, Reloading(e), {}) => FlagUnsure(q) \/ FlagsKept(row, q)
  <2> TAKE q
  <2> HAVE q = Request(add, upd, {}, Reloading(e), {})
  <2>1. q.add = add /\ q.upd = upd /\ q.del = {}
    BY DEF Request
  <2>2. CASE DOMAIN upd = {}
    BY <1>3, <1>4, <2>1, <2>2 DEF FlagUnsure
  <2>3. CASE DOMAIN upd = {g} /\ row[g] # None /\ upd[g] = Group(TRUE)
    <3>1. AddsRules(q, g, R, e)
      BY <1>2, <2>1, <2>3 DEF AddsRules
    <3> QED BY <1>3, <2>3, <3>1, CreateInboundFlags
  <2> QED BY <1>5, <2>2, <2>3
<1>11. Begin(h, add, upd, {}, Reloading(e), {})
  BY <1>2
<1> QED
  BY <1>3, <1>4, <1>6, <1>7, <1>8, <1>9, <1>10, <1>11, RulesAre, ReloadingIs, PeeringBegun

LEMMA UpdateInboundRulesBegun ==
  ASSUME NEW h \in Requests, api = "inbound rules", Shape(api, row), UpdateInboundRules(h)
  PROVE  \E r : Begun(h, r)
<1>1. PICK R \in Batches({i \in InboundRules : Exists(row, i)}), g \in Groups, e \in BOOLEAN :
        Begin(h, Nothing, [i \in R |-> Rule(g, e)], {},
              Reloading(\E i \in R : row[i].enabled # e), {})
  BY DEF UpdateInboundRules
<1>d. PICK d \in BOOLEAN : d = (\E i \in R : row[i].enabled # e)
  OBVIOUS
<1>2. PICK upd : upd = [i \in R |-> Rule(g, e)] /\ Begin(h, Nothing, upd, {}, Reloading(d), {})
  BY <1>1, <1>d
<1>3. R \subseteq InboundRules /\ R # {} /\ api \in PeeringApis
  BY DEF Batches, PeeringApis
<1>4. DOMAIN upd = R /\ \A i \in R : upd[i].parent = g
  BY <1>2 DEF Rule
<1>5. \A i \in DOMAIN upd : upd[i] # None => Fits(api, i, upd[i])
  BY <1>3, <1>4, FitsGroup
<1>6. Quiet(row, Request(Nothing, upd, {}, Reloading(d), {}))
  BY <1>3, <1>4, RulesAre, QuietRules
<1>7. \A q : q = Request(Nothing, upd, {}, Reloading(d), {}) => FlagUnsure(q)
  <2> TAKE q
  <2> HAVE q = Request(Nothing, upd, {}, Reloading(d), {})
  <2>1. q.upd = upd
    BY DEF Request
  <2> QED BY <1>3, <1>4, <2>1 DEF FlagUnsure
<1>8. Begin(h, Nothing, upd, {}, Reloading(d), {})
  BY <1>2
<1> QED
  BY <1>3, <1>4, <1>5, <1>6, <1>7, <1>8, RulesAre, ReloadingIs, PeeringBegun

LEMMA DeleteInboundRulesBegun ==
  ASSUME NEW h \in Requests, api = "inbound rules", Shape(api, row), ForeignKeys(row),
         DeleteInboundRules(h)
  PROVE  \E r : Begun(h, r)
<1>1. PICK R \in Batches({i \in InboundRules : Exists(row, i)}) : \E done \in BOOLEAN :
        Begin(h, Nothing,
              IF done THEN [g \in Parents(row, R) |->
                              Group((Children(row, {g}) \cap InboundRules) \ R # {})]
              ELSE Nothing,
              R, Reloading(\E i \in R : row[i].enabled), {})
  BY DEF DeleteInboundRules
<1>d. PICK d \in BOOLEAN : d = \E i \in R : row[i].enabled
  OBVIOUS
<1>2. PICK upd : /\ \/ upd = Nothing
                    \/ upd = [g \in Parents(row, R) |->
                                Group((Children(row, {g}) \cap InboundRules) \ R # {})]
                 /\ Begin(h, Nothing, upd, R, Reloading(d), {})
  BY <1>1, <1>d
<1>3. R \subseteq InboundRules /\ R # {} /\ api \in PeeringApis
  BY DEF Batches, PeeringApis
<1>4. Parents(row, R) \subseteq Groups
  BY <1>3, RulesParents
<1>5. DOMAIN upd \subseteq Groups /\ DOMAIN upd \subseteq Ids /\ DOMAIN upd \cap Servers = {}
  BY <1>2, <1>4, NothingIs, PeeringAssumption
<1>6. \A i \in DOMAIN upd : upd[i] # None => Fits(api, i, upd[i])
  <2> TAKE i \in DOMAIN upd
  <2>1. i \in Groups
    BY <1>5
  <2>2. PICK b \in BOOLEAN : b = ((Children(row, {i}) \cap InboundRules) \ R # {})
    OBVIOUS
  <2>3. upd[i] = Group(b)
    BY <1>2, <2>2, NothingIs
  <2>4. upd[i].parent = None
    BY <2>3, GroupOnTop
  <2> QED BY <1>3, <2>1, <2>4, PeeringTables DEF Fits
<1>7. Quiet(row, Request(Nothing, upd, R, Reloading(d), {}))
  BY <1>3, <1>5, RulesAre, QuietRules
<1>8. \A q : q = Request(Nothing, upd, R, Reloading(d), {}) => FlagUnsure(q) \/ FlagsKept(row, q)
  <2> TAKE q
  <2> HAVE q = Request(Nothing, upd, R, Reloading(d), {})
  <2>1. q.add = Nothing /\ q.upd = upd /\ q.del = R /\ DOMAIN q.add = {}
    BY NothingIs DEF Request
  <2>2. CASE upd = Nothing
    BY <1>3, <2>1, <2>2, NothingIs DEF FlagUnsure
  <2>3. CASE upd = [g \in Parents(row, R) |->
                      Group((Children(row, {g}) \cap InboundRules) \ R # {})]
    BY <1>3, <2>1, <2>3, DeleteInboundFlags
  <2> QED BY <1>2, <2>2, <2>3
<1>9. Begin(h, Nothing, upd, R, Reloading(d), {})
  BY <1>2
<1> QED
  BY <1>3, <1>5, <1>6, <1>7, <1>8, <1>9, RulesAre, ReloadingIs, PeeringBegun

-----------------------------------------------------------------------------
\* Whatever a handler begins, it is covered.

LEMMA RewriteHandlersBegun ==
  ASSUME NEW h \in Requests, api = "rewrite rules",
         RewriteSetHandlers(h) \/ RewriteRuleHandlers(h)
  PROVE  \E r : Begun(h, r)
BY CreateSetsBegun, UpdateWithRuleRecreationBegun, DeleteSetsBegun, CreateRulesBegun,
   UpdateRulesBegun, DeleteRulesBegun DEF RewriteSetHandlers, RewriteRuleHandlers

LEMMA PeeringHandlersBegun ==
  ASSUME NEW h \in Requests, api \in PeeringApis, Shape(api, row), ForeignKeys(row),
         \/ GroupHandlers(h)
         \/ api = "peering servers" /\ (ServerHandlers(h) \/ PeeringRuleHandlers(h))
         \/ api = "inbound rules" /\ InboundRuleHandlers(h)
  PROVE  \E r : Begun(h, r)
<1>1. CASE GroupHandlers(h)
  BY <1>1, CreateGroupsBegun, UpdateGroupsBegun, AdjustGroupsBegun, DeleteGroupsBegun
     DEF GroupHandlers
<1>2. CASE api = "peering servers" /\ ServerHandlers(h)
  BY <1>2, CreateServersBegun, UpdateServersBegun, DeleteServersBegun DEF ServerHandlers
<1>3. CASE api = "peering servers" /\ PeeringRuleHandlers(h)
  BY <1>3, CreatePeeringRulesBegun, UpdatePeeringRulesBegun, DeletePeeringRulesBegun
     DEF PeeringRuleHandlers
<1>4. CASE api = "inbound rules" /\ InboundRuleHandlers(h)
  BY <1>4, CreateInboundRulesBegun, UpdateInboundRulesBegun, DeleteInboundRulesBegun
     DEF InboundRuleHandlers
<1> QED
  BY <1>1, <1>2, <1>3, <1>4

-----------------------------------------------------------------------------
\* What a commit touches.

LEMMA TouchedScopes ==
  ASSUME NEW old, NEW new, NEW I
  PROVE  /\ RewriteTouched(I) \subseteq Scopes
         /\ HmTouched(old, new, I) \subseteq Scopes
         /\ PeeringTouched(old, new, I) \subseteq Scopes
BY RewriteAssumption, HmAssumption, PeeringAssumption
   DEF RewriteTouched, HmTouched, PeeringTouched

\* Groups that are new or have no server that counts route nothing, before and
\* after: a server has its group by the foreign key.
LEMMA NoRoutesOld ==
  ASSUME NEW a \in PeeringApis, NEW rows, Shape(a, rows), ForeignKeys(rows),
         NEW r, Pending(a, r), NoRoutes(rows, r)
  PROVE  ~Live(rows, Above(rows, Wrote(rows, r)) \cap Groups)
<1> DEFINE I == Wrote(rows, r)
<1>1. /\ DOMAIN r.add \subseteq Groups /\ r.del \subseteq Groups /\ DOMAIN r.upd = {}
      /\ \A g \in DOMAIN r.add : rows[g] = None
      /\ ~Live(rows, r.del)
  BY DEF NoRoutes, Exists
<1>2. Groups \subseteq Ids /\ None \notin Groups /\ None \notin Ids
  BY PeeringAssumption, NoneAssumption
<1>3. Below(rows, r.del) = r.del \cup Children(rows, r.del)
  BY <1>1, <1>2, PeeringBelow
<1>4. I \subseteq DOMAIN r.add \cup r.del \cup Children(rows, r.del)
  BY <1>1, <1>3 DEF Wrote
<1>5. \A g \in Groups : rows[g] # None => rows[g].parent = None
  BY <1>2, PeeringParent, PeeringAssumption
<1>6. Parents(rows, I) \subseteq r.del
  <2> SUFFICES ASSUME NEW j \in I, rows[j] # None, rows[j].parent # None
               PROVE  rows[j].parent \in r.del
    BY IsParent
  <2>1. j \in Children(rows, r.del)
    BY <1>1, <1>4, <1>5
  <2> QED BY <2>1, IsChild
<1>7. Parents(rows, Parents(rows, I)) = {}
  <2>1. \A j \in Parents(rows, I) : rows[j] # None => rows[j].parent = None
    BY <1>1, <1>5, <1>6
  <2> QED BY <2>1, IsParent
<1>8. Above(rows, I) \cap Groups \subseteq DOMAIN r.add \cup r.del
  <2>1. Children(rows, r.del) \cap Groups = {}
    <3> SUFFICES ASSUME NEW j \in Groups, rows[j] # None, rows[j].parent \in r.del
                 PROVE  FALSE
      BY IsChild
    <3> QED BY <1>1, <1>2, <1>5
  <2> QED BY <1>4, <1>6, <1>7, <2>1 DEF Above
<1>9. ASSUME NEW i \in Children(rows, Above(rows, I) \cap Groups)
      PROVE  i \in Children(rows, r.del)
  <2>1. /\ i \in Ids /\ rows[i] # None
        /\ rows[i].parent \in DOMAIN r.add \cup r.del
    BY <1>8, <1>9, IsChild
  <2>2. rows[i].parent \notin DOMAIN r.add
    BY <1>1, <1>2, <2>1 DEF ForeignKeys, Exists
  <2> QED BY <2>1, <2>2, IsChild
<1> HIDE DEF I
<1> QED
  BY <1>1, <1>9 DEF Live, I

LEMMA NoRoutesNew ==
  ASSUME NEW a \in PeeringApis, NEW rows, Shape(a, rows), ForeignKeys(rows),
         NEW r, Pending(a, r), NoRoutes(rows, r)
  PROVE  ~Live(Written(rows, r), Above(Written(rows, r), Wrote(rows, r)) \cap Groups)
<1> DEFINE I == Wrote(rows, r)
           new == Written(rows, r)
<1>1. /\ DOMAIN r.add \subseteq Groups /\ r.del \subseteq Groups /\ DOMAIN r.upd = {}
      /\ \A g \in DOMAIN r.add : rows[g] = None
      /\ ~Live(rows, r.del)
  BY DEF NoRoutes, Exists
<1>2. Groups \subseteq Ids /\ None \notin Groups /\ None \notin Ids /\ Groups \cap Servers = {}
  BY PeeringAssumption, NoneAssumption
<1>3. Below(rows, r.del) = r.del \cup Children(rows, r.del)
  BY <1>1, <1>2, PeeringBelow
<1>4. /\ I \subseteq DOMAIN r.add \cup Below(rows, r.del)
      /\ Below(rows, r.del) \subseteq Ids
  BY <1>1, <1>2, BelowIds DEF Wrote
<1>5. \A j \in I : new[j] # None => new[j].parent = None
  <2> SUFFICES ASSUME NEW j \in I, new[j] # None
               PROVE  new[j].parent = None
    OBVIOUS
  <2>1. j \in Ids
    BY <1>1, <1>2, <1>4
  <2>2. j \notin Below(rows, r.del)
    BY <2>1, WrittenIs
  <2>3. j \in DOMAIN r.add /\ new[j] = r.add[j]
    BY <1>4, <2>1, <2>2, WrittenIs
  <2>4. Fits(a, j, r.add[j])
    BY <2>3 DEF Pending
  <2> QED BY <1>1, <2>3, <2>4, PeeringTables, PeeringAssumption DEF Fits
<1>6. Parents(new, I) = {}
  BY <1>5, IsParent
<1>7. Parents(new, {}) = {}
  BY IsParent
<1>8. Above(new, I) = I
  BY <1>6, <1>7 DEF Above
<1>9. ASSUME NEW i \in Children(new, I \cap Groups) \cap Servers
      PROVE  i \in Children(rows, r.del) /\ new[i] = rows[i]
  <2>1. i \in Ids /\ new[i] # None /\ new[i].parent \in I \cap Groups
    BY <1>9, IsChild
  <2>2. i \notin Below(rows, r.del)
    BY <2>1, WrittenIs
  <2>3. new[i] = rows[i]
    BY <1>1, <1>2, <1>9, <2>1, <2>2, WrittenIs
  <2>4. rows[i] # None /\ rows[i].parent \in Groups /\ rows[i].parent \in Ids
    BY <1>2, <2>1, <2>3
  <2>5. rows[rows[i].parent] # None
    BY <1>2, <2>1, <2>4 DEF ForeignKeys, Exists
  <2>6. rows[i].parent \in Below(rows, r.del)
    BY <1>1, <1>4, <2>1, <2>3, <2>5
  <2>7. rows[i].parent \notin Children(rows, r.del)
    <3>1. rows[rows[i].parent].parent = None
      BY <2>4, <2>5, PeeringParent, PeeringAssumption
    <3> QED BY <1>1, <1>2, <3>1, IsChild
  <2> QED BY <1>3, <2>1, <2>3, <2>4, <2>6, <2>7, IsChild
<1>10. ~Live(new, I \cap Groups)
  <2>1. ASSUME NEW i \in Children(new, I \cap Groups) \cap Servers
        PROVE  ~(new[i].enabled \/ new[i].probe)
    <3>1. i \in Children(rows, r.del) /\ new[i] = rows[i]
      BY <1>9
    <3> QED BY <1>1, <2>1, <3>1 DEF Live
  <2> HIDE DEF I, new
  <2> QED BY <2>1 DEF Live
<1> HIDE DEF I, new
<1> QED
  BY <1>8, <1>10 DEF I, new

LEMMA PeeringTouchedCovered ==
  ASSUME NEW a \in PeeringApis, NEW rows, Shape(a, rows), ForeignKeys(rows),
         NEW r, Pending(a, r), PeeringCovers(rows, r)
  PROVE  PeeringTouched(rows, Written(rows, r), Wrote(rows, r)) \subseteq r.due \cup r.gap
BY NoRoutesOld, NoRoutesNew DEF PeeringTouched, PeeringCovers

\* A commit without a flag that is unsure leaves no flag wrong that was right.
LEMMA FlagKept ==
  ASSUME NEW a \in PeeringApis, NEW rows, Shape(a, rows), NEW r, Pending(a, r),
         FlagsKept(rows, r), NEW g \in Groups, FlagRight(rows, g)
  PROVE  FlagRight(Written(rows, r), g)
<1>1. CASE g \in Named(r)
  BY <1>1 DEF FlagsKept
<1>2. CASE g \notin Named(r)
  <2>1. Named(r) \subseteq Ids /\ None \notin Named(r) /\ g \in Ids
    BY PeeringAssumption, NoneAssumption DEF Pending
  <2>2. g \notin Wrote(rows, r)
    <3>1. Below(rows, Named(r)) = Named(r) \cup Children(rows, Named(r))
      BY <2>1, PeeringBelow
    <3>2. g \notin Children(rows, Named(r))
      BY <2>1, IsChild, PeeringParent, PeeringAssumption
    <3> QED BY <1>2, <3>1, <3>2, WroteBelow
  <2>3. Written(rows, r)[g] = rows[g]
    BY <2>1, <2>2, Unwritten
  <2>4. \A i : i \in Children(rows, {g}) => i \in Children(Written(rows, r), {g})
    <3> TAKE i
    <3> HAVE i \in Children(rows, {g})
    <3>1. i \in Ids /\ rows[i] # None /\ rows[i].parent = g
      BY IsChild
    <3>2. i \notin Wrote(rows, r)
      BY <1>2, <3>1 DEF FlagsKept, Exists
    <3> QED BY <3>1, <3>2, Unwritten, IsChild
  <2>5. \A i : i \in Children(Written(rows, r), {g}) => i \in Children(rows, {g})
    <3> TAKE i
    <3> HAVE i \in Children(Written(rows, r), {g})
    <3>1. i \in Ids /\ Written(rows, r)[i] # None /\ Written(rows, r)[i].parent = g
      BY IsChild
    <3>2. i \notin Wrote(rows, r)
      BY <1>2, <3>1 DEF FlagsKept, Exists
    <3> QED BY <3>1, <3>2, Unwritten, IsChild
  <2>6. Children(rows, {g}) = Children(Written(rows, r), {g})
    BY <2>4, <2>5
  <2> QED BY <2>3, <2>6, SameFlag
<1> QED
  BY <1>1, <1>2

-----------------------------------------------------------------------------
\* What a request knows when another one commits.

LEMMA OvertakenOK ==
  ASSUME NEW a \in Apis, NEW rows, Shape(a, rows), NEW r, Pending(a, r),
         NEW new, new = Written(rows, r),
         NEW q, RequestOK(a, rows, q)
  PROVE  /\ q = None \/ q.step # "pending" => RequestOK(a, new, q)
         /\ q # None /\ q.step = "pending" => RequestOK(a, new, [q EXCEPT !.late = TRUE])
         /\ (/\ q # None /\ q.step = "pending"
             /\ (Depends(rows, q) \cup Depends(new, q)) \cap Wrote(rows, r) = {})
            => RequestOK(a, new, q)
<1>1. q # None /\ q.step = "pending" => Pending(a, q) /\ (q.late \/ Covers(a, rows, q))
  BY DEF RequestOK, Hooked
<1>2. q = None \/ q.step # "pending" => q = None \/ Hooked(q)
  BY DEF RequestOK, Pending
<1>3. ASSUME Pending(a, q)
      PROVE  Pending(a, [q EXCEPT !.late = TRUE]) /\ [q EXCEPT !.late = TRUE].late = TRUE
  <2>1. DOMAIN q = {"step", "add", "upd", "del", "due", "gap", "late"} /\ q.step = "pending"
    BY <1>3 DEF Pending
  <2>2. PICK z : z = [q EXCEPT !.late = TRUE]
    OBVIOUS
  <2>3. /\ DOMAIN z = {"step", "add", "upd", "del", "due", "gap", "late"}
        /\ z.step = "pending" /\ z.add = q.add /\ z.upd = q.upd /\ z.del = q.del
        /\ z.due = q.due /\ z.gap = q.gap /\ z.late = TRUE
    BY <2>1, <2>2
  <2>4. Pending(a, z)
    BY <1>3, <2>3 DEF Pending, Named
  <2> QED BY <2>2, <2>3, <2>4
<1>4. ASSUME Pending(a, q), Covers(a, rows, q),
             (Depends(rows, q) \cup Depends(new, q)) \cap Wrote(rows, r) = {}
      PROVE  Covers(a, new, q)
  <2>1. Shape(a, new)
    BY WrittenFits
  <2>2. Depends(rows, q) \cup Depends(new, q) \subseteq Ids
    BY <1>4, <2>1, DependsIds
  <2>3. Agree(rows, new, Depends(rows, q) \cup Depends(new, q))
    BY <1>4, <2>2, Unwritten DEF Agree
  <2>4. Same(a, rows, new, q)
    BY <1>4, <2>1, <2>3 DEF Same
  <2> QED BY <1>4, <2>4, SameCovers
<1>5. PICK z : z = [q EXCEPT !.late = TRUE]
  OBVIOUS
<1>6. q # None /\ q.step = "pending" => Pending(a, z) /\ z.late = TRUE
  BY <1>1, <1>3, <1>5
<1>7. q = None \/ q.step # "pending" => RequestOK(a, new, q)
  BY <1>2 DEF RequestOK
<1>8. q # None /\ q.step = "pending" => RequestOK(a, new, z)
  BY <1>6 DEF RequestOK
<1>9. (/\ q # None /\ q.step = "pending"
       /\ (Depends(rows, q) \cup Depends(new, q)) \cap Wrote(rows, r) = {})
      => RequestOK(a, new, q)
  BY <1>1, <1>4 DEF RequestOK
<1> QED
  BY <1>5, <1>7, <1>8, <1>9

-----------------------------------------------------------------------------
\* The invariant: the rows, the requests, what is out of date, and the flags.

Rows == api \in Apis /\ Shape(api, row) /\ ForeignKeys(row)

InProgress == DOMAIN req = Requests /\ \A h \in Requests : RequestOK(api, row, req[h])

Copies == stale \subseteq Proxies \X Scopes /\ excused \subseteq stale /\ Reloaded

Flags == odd \subseteq Groups /\ InboundFlag

\* What a pending request may touch.
LEMMA RunningOK ==
  ASSUME InProgress, NEW h \in Running
  PROVE  /\ Pending(api, req[h]) /\ (req[h].late \/ Covers(api, row, req[h]))
         /\ req[h] # None /\ req[h].step = "pending"
BY DEF InProgress, Running, RequestOK, Hooked

LEMMA HooksAre ==
  ASSUME NEW due \in SUBSET Scopes
  PROVE  /\ Hooks(due) = None \/ Hooked(Hooks(due))
         /\ \A d \in Proxies \X due :
              Hooks(due) # None /\ Hooks(due).step = "hooks" /\ d \in Hooks(due).due
<1>1. Proxies \X due \in SUBSET (Proxies \X Scopes)
  OBVIOUS
<1>2. CASE Proxies \X due = {}
  BY <1>2 DEF Hooks
<1>3. CASE Proxies \X due # {}
  <2>1. PICK z : z = [step |-> "hooks", due |-> Proxies \X due]
    OBVIOUS
  <2>2. Hooks(due) = z
    BY <1>3, <2>1 DEF Hooks
  <2>3. z # None
    BY <1>1, <2>1, NoneAssumption
  <2> QED BY <1>1, <1>3, <2>1, <2>2, <2>3 DEF Hooked
<1> QED
  BY <1>2, <1>3

LEMMA CommitKeeps ==
  ASSUME Rows, InProgress, Copies, NEW h \in Requests, NEW touched \in SUBSET Scopes,
         Commit(h, touched), api' = api,
         Covers(api, row, req[h]) => touched \subseteq req[h].due \cup req[h].gap
  PROVE  Rows' /\ InProgress' /\ Copies'
<1>1. /\ h \in Running /\ row' = Written(row, req[h]) /\ ForeignKeys(row')
      /\ req' = [Overtake(h, row', Wrote(row, req[h])) EXCEPT ![h] = Hooks(req[h].due)]
      /\ stale' = stale \cup (Proxies \X touched)
      /\ excused' = excused \cup
           (Proxies \X (IF req[h].late THEN touched ELSE touched \cap req[h].gap))
  BY DEF Commit, After
<1>2. /\ Pending(api, req[h]) /\ (req[h].late \/ Covers(api, row, req[h]))
      /\ req[h] # None /\ req[h].step = "pending"
  BY <1>1, RunningOK
<1>3. api \in Apis /\ Shape(api, row)
  BY DEF Rows
<1>4. Rows'
  <2>1. Shape(api, row')
    BY <1>1, <1>2, <1>3, WrittenFits
  <2>2. ForeignKeys(row)'
    BY <1>1 DEF ForeignKeys, Exists
  <2>3. Shape(api, row)'
    BY <2>1 DEF Shape, Exists
  <2> QED BY <1>3, <2>2, <2>3 DEF Rows
<1>5. req[h].due \subseteq Scopes
  BY <1>2 DEF Pending
<1>6. DOMAIN req' = Requests /\ req'[h] = Hooks(req[h].due)
  BY <1>1 DEF Overtake
<1>7. ASSUME NEW g \in Requests, g # h
      PROVE  req'[g] = IF /\ g \in Running
                          /\ (Depends(row, req[g]) \cup Depends(row', req[g]))
                               \cap Wrote(row, req[h]) # {}
                       THEN [req[g] EXCEPT !.late = TRUE] ELSE req[g]
  BY <1>1, <1>7 DEF Overtake
<1>8. ASSUME NEW g \in Requests
      PROVE  RequestOK(api, row', req'[g])
  <2>1. CASE g = h
    BY <1>5, <1>6, <2>1, HooksAre DEF RequestOK
  <2>2. CASE g # h
    <3>1. PICK new, q, w : new = row' /\ q = req[g] /\ w = Wrote(row, req[h])
      OBVIOUS
    <3>2. g \in Running <=> q # None /\ q.step = "pending"
      BY <3>1 DEF Running
    <3>3. RequestOK(api, row, q)
      BY <3>1 DEF InProgress
    <3>4. /\ q = None \/ q.step # "pending" => RequestOK(api, new, q)
          /\ q # None /\ q.step = "pending" => RequestOK(api, new, [q EXCEPT !.late = TRUE])
          /\ (/\ q # None /\ q.step = "pending"
              /\ (Depends(row, q) \cup Depends(new, q)) \cap w = {})
             => RequestOK(api, new, q)
      BY <1>1, <1>2, <1>3, <3>1, <3>3, OvertakenOK
    <3>5. req'[g] = IF g \in Running /\ (Depends(row, q) \cup Depends(new, q)) \cap w # {}
                    THEN [q EXCEPT !.late = TRUE] ELSE q
      BY <1>7, <2>2, <3>1
    <3>6. RequestOK(api, new, req'[g])
      BY <3>2, <3>4, <3>5
    <3> QED BY <3>1, <3>6
  <2> QED BY <2>1, <2>2
<1>9. InProgress'
  BY <1>6, <1>8 DEF InProgress
<1>10. ASSUME NEW d \in stale'
       PROVE  Owed(d[1], d[2])' \/ d \in excused'
  <2>1. CASE d \in stale
    <3>1. CASE d \in excused
      BY <1>1, <3>1
    <3>2. CASE Owed(d[1], d[2])
      <4>1. PICK g \in Requests : /\ req[g] # None /\ req[g].step = "hooks"
                                  /\ <<d[1], d[2]>> \in req[g].due
        BY <3>2 DEF Owed
      <4>2. g # h /\ g \notin Running
        BY <1>2, <4>1 DEF Running
      <4>3. req'[g] = req[g]
        BY <1>7, <4>2
      <4> QED BY <4>1, <4>3 DEF Owed
    <3> QED BY <2>1, <3>1, <3>2 DEF Copies, Reloaded
  <2>2. CASE d \in Proxies \X touched
    <3>1. CASE req[h].late
      BY <1>1, <2>2, <3>1
    <3>2. CASE d[2] \in req[h].gap
      BY <1>1, <2>2, <3>2
    <3>3. CASE ~req[h].late /\ d[2] \notin req[h].gap
      <4>1. <<d[1], d[2]>> \in Proxies \X req[h].due
        BY <1>2, <2>2, <3>3
      <4>2. /\ Hooks(req[h].due) # None /\ Hooks(req[h].due).step = "hooks"
            /\ <<d[1], d[2]>> \in Hooks(req[h].due).due
        BY <1>5, <4>1, HooksAre
      <4> QED BY <1>6, <4>2 DEF Owed
    <3> QED BY <3>1, <3>2, <3>3
  <2> QED BY <1>1, <2>1, <2>2
<1>11. Copies'
  <2>1. stale' \subseteq Proxies \X Scopes /\ excused' \subseteq stale'
    BY <1>1 DEF Copies
  <2>2. Reloaded'
    BY <1>10 DEF Reloaded
  <2> QED BY <2>1, <2>2 DEF Copies
<1> QED
  BY <1>4, <1>9, <1>11

\* Every table's commit touches only what its request has registered or named.
LEMMA RewriteCommitKeeps ==
  ASSUME Rows, InProgress, Copies, NEW h \in Requests, api = "rewrite rules", api' = api,
         RewriteCommit(h)
  PROVE  Rows' /\ InProgress' /\ Copies'
<1>1. PICK touched : touched = RewriteTouched(Wrote(row, req[h]))
  OBVIOUS
<1>2. touched \in SUBSET Scopes
  BY <1>1, TouchedScopes
<1>3. Covers(api, row, req[h]) => touched \subseteq req[h].due \cup req[h].gap
  BY <1>1 DEF Covers, RewriteCovers
<1>4. Commit(h, touched)
  BY <1>1 DEF RewriteCommit
<1> QED
  BY <1>2, <1>3, <1>4, CommitKeeps

LEMMA HmCommitKeeps ==
  ASSUME Rows, InProgress, Copies, NEW h \in Requests, api \in HmApis, api' = api,
         HmCommit(h)
  PROVE  Rows' /\ InProgress' /\ Copies'
<1>1. PICK touched : touched = HmTouched(row, Written(row, req[h]), Wrote(row, req[h]))
  OBVIOUS
<1>2. touched \in SUBSET Scopes
  BY <1>1, TouchedScopes
<1>3. Covers(api, row, req[h]) => touched \subseteq req[h].due \cup req[h].gap
  BY <1>1 DEF Covers, HmCovers
<1>4. Commit(h, touched)
  BY <1>1 DEF HmCommit, After
<1> QED
  BY <1>2, <1>3, <1>4, CommitKeeps

LEMMA PeeringCommitKeeps ==
  ASSUME Rows, InProgress, Copies, NEW h \in Requests, api \in PeeringApis, api' = api,
         PeeringCommit(h)
  PROVE  Rows' /\ InProgress' /\ Copies'
<1>1. PICK touched : touched = PeeringTouched(row, Written(row, req[h]), Wrote(row, req[h]))
  OBVIOUS
<1>2. touched \in SUBSET Scopes
  BY <1>1, TouchedScopes
<1>3. Commit(h, touched)
  BY <1>1 DEF PeeringCommit, After
<1>4. Pending(api, req[h])
  BY <1>3, RunningOK DEF Commit
<1>5. Covers(api, row, req[h]) => touched \subseteq req[h].due \cup req[h].gap
  BY <1>1, <1>4, PeeringTouchedCovered DEF Rows, Covers
<1> QED
  BY <1>2, <1>3, <1>5, CommitKeeps

\* The flags: right before and kept, or odd.
LEMMA PeeringCommitFlags ==
  ASSUME Rows, InProgress, Flags, NEW h \in Requests, api \in PeeringApis, api' = api,
         PeeringCommit(h)
  PROVE  Flags'
<1>1. /\ h \in Running /\ row' = Written(row, req[h])
      /\ odd' = {g \in Groups : ~FlagRight(row', g) /\ (g \in odd \/ FlagUnsure(req[h]))}
  BY DEF PeeringCommit, Commit, After
<1>2. Pending(api, req[h]) /\ (req[h].late \/ Covers(api, row, req[h]))
  BY <1>1, RunningOK
<1>3. ASSUME api = "inbound rules", NEW g \in Groups, ~FlagRight(row', g)
      PROVE  g \in odd'
  <2>1. FlagRight(row, g) \/ g \in odd
    BY <1>3 DEF Flags, InboundFlag
  <2>2. ~FlagUnsure(req[h]) => FlagsKept(row, req[h])
    BY <1>2, <1>3 DEF Covers, FlagUnsure
  <2>3. FlagRight(row, g) => FlagUnsure(req[h])
    BY <1>1, <1>2, <1>3, <2>2, FlagKept DEF Rows
  <2> QED BY <1>1, <1>3, <2>1, <2>3
<1>4. InboundFlag'
  BY <1>3 DEF InboundFlag, FlagRight, Children, Exists
<1> QED
  BY <1>1, <1>4 DEF Flags

-----------------------------------------------------------------------------
\* The other steps leave the rows alone.

LEMMA SameRows ==
  ASSUME Rows, row' = row, api' = api
  PROVE  Rows'
BY DEF Rows, Shape, ForeignKeys, Exists

LEMMA SameFlagsToo ==
  ASSUME Flags, row' = row, api' = api, odd' = odd
  PROVE  Flags'
BY DEF Flags, InboundFlag, FlagRight, Children, Exists

LEMMA StillInProgress ==
  ASSUME InProgress, row' = row, api' = api, NEW h \in Requests, NEW r,
         req' = [req EXCEPT ![h] = r], RequestOK(api, row, r)
  PROVE  InProgress'
<1>1. DOMAIN req' = Requests /\ \A g \in Requests : req'[g] = IF g = h THEN r ELSE req[g]
  BY DEF InProgress
<1>2. \A g \in Requests : RequestOK(api, row, req'[g])
  BY <1>1 DEF InProgress
<1> QED
  BY <1>1, <1>2 DEF InProgress

\* A request that is not left with hooks takes none away: what is owed stays owed.
LEMMA StillOwed ==
  ASSUME InProgress, NEW h \in Requests, NEW r, req' = [req EXCEPT ![h] = r],
         req[h] = None \/ req[h].step # "hooks", NEW p, NEW s, Owed(p, s)
  PROVE  Owed(p, s)'
<1>1. PICK g \in Requests : req[g] # None /\ req[g].step = "hooks" /\ <<p, s>> \in req[g].due
  BY DEF Owed
<1>2. req'[g] = req[g]
  BY <1>1 DEF InProgress
<1> QED
  BY <1>1, <1>2 DEF Owed

LEMMA StillCopies ==
  ASSUME InProgress, Copies, NEW h \in Requests, NEW r, req' = [req EXCEPT ![h] = r],
         req[h] = None \/ req[h].step # "hooks", UNCHANGED <<stale, excused>>
  PROVE  Copies'
<1>1. ASSUME NEW d \in stale
      PROVE  Owed(d[1], d[2])' \/ d \in excused
  BY StillOwed DEF Copies, Reloaded
<1>2. Reloaded'
  BY <1>1 DEF Reloaded
<1> QED
  BY <1>2 DEF Copies

LEMMA BegunKeeps ==
  ASSUME Rows, InProgress, Copies, Flags, NEW h \in Requests, Free(h), NEW r, Begun(h, r),
         UNCHANGED <<odd, api>>
  PROVE  Rows' /\ InProgress' /\ Copies' /\ Flags'
<1>1. /\ req' = [req EXCEPT ![h] = r] /\ UNCHANGED <<row, stale, excused>>
      /\ RequestOK(api, row, r) /\ req[h] = None
  BY DEF Begun, Begins, RequestOK, Free
<1> QED
  BY <1>1, SameRows, SameFlagsToo, StillInProgress, StillCopies

LEMMA RollbackKeeps ==
  ASSUME Rows, InProgress, Copies, Flags, NEW h \in Requests, Rollback(h),
         UNCHANGED <<odd, api>>
  PROVE  Rows' /\ InProgress' /\ Copies' /\ Flags'
<1>1. /\ req' = [req EXCEPT ![h] = None] /\ UNCHANGED <<row, stale, excused>>
      /\ req[h].step # "hooks"
  BY DEF Rollback, Running
<1>2. RequestOK(api, row, None)
  BY DEF RequestOK
<1> QED
  BY <1>1, <1>2, SameRows, SameFlagsToo, StillInProgress, StillCopies

\* A hook is done: what it leaves is another request's or its own other hooks'.
LEMMA HookDoneIs ==
  ASSUME InProgress, NEW h \in Requests, NEW p \in Proxies, NEW s \in Scopes, HookDone(h, p, s)
  PROVE  /\ row' = row
         /\ \E r : req' = [req EXCEPT ![h] = r] /\ RequestOK(api, row, r)
         /\ \A d : d # <<p, s>> /\ Owed(d[1], d[2]) /\ d = <<d[1], d[2]>> => Owed(d[1], d[2])'
<1>1. req[h] # None /\ req[h].step = "hooks" /\ <<p, s>> \in req[h].due /\ row' = row
  BY DEF HookDone
<1>2. Hooked(req[h])
  BY <1>1 DEF InProgress, RequestOK, Pending
<1>3. PICK left : left = req[h].due \ {<<p, s>>}
  OBVIOUS
<1>4. left \in SUBSET (Proxies \X Scopes)
  BY <1>2, <1>3 DEF Hooked
<1>5. PICK z : z = [step |-> "hooks", due |-> left]
  OBVIOUS
<1>6. z # None /\ z.step = "hooks" /\ z.due = left
  BY <1>4, <1>5, NoneAssumption
<1>7. [req[h] EXCEPT !.due = left] = z
  BY <1>2, <1>5 DEF Hooked
<1>8. PICK r : r = IF left = {} THEN None ELSE z
  OBVIOUS
<1>9. req' = [req EXCEPT ![h] = r]
  BY <1>3, <1>7, <1>8 DEF HookDone
<1>10. RequestOK(api, row, r)
  BY <1>4, <1>5, <1>6, <1>8 DEF RequestOK, Hooked
<1>11. /\ req'[h] = r
       /\ \A g \in Requests \ {h} : req'[g] = req[g]
  BY <1>9 DEF InProgress
<1>12. ASSUME NEW d, d # <<p, s>>, Owed(d[1], d[2]), d = <<d[1], d[2]>>
       PROVE  Owed(d[1], d[2])'
  <2>1. PICK g \in Requests : /\ req[g] # None /\ req[g].step = "hooks"
                              /\ <<d[1], d[2]>> \in req[g].due
    BY <1>12 DEF Owed
  <2>2. CASE g # h
    BY <1>11, <2>1, <2>2 DEF Owed
  <2>3. CASE g = h
    <3>1. <<d[1], d[2]>> \in left
      BY <1>3, <1>12, <2>1, <2>3
    <3>2. r # None /\ r.step = "hooks" /\ <<d[1], d[2]>> \in r.due
      BY <1>6, <1>8, <3>1
    <3> QED BY <1>11, <3>2 DEF Owed
  <2> QED BY <2>2, <2>3
<1> QED
  BY <1>1, <1>9, <1>10, <1>12

LEMMA LoadKeeps ==
  ASSUME Rows, InProgress, Copies, Flags, NEW h \in Requests, NEW p \in Proxies, NEW s \in Scopes,
         Load(h, p, s) \/ Miss(h, p, s), UNCHANGED <<odd, api>>
  PROVE  Rows' /\ InProgress' /\ Copies' /\ Flags'
<1>1. HookDone(h, p, s)
  BY DEF Load, Miss
<1>2. /\ row' = row
      /\ \A d : d # <<p, s>> /\ Owed(d[1], d[2]) /\ d = <<d[1], d[2]>> => Owed(d[1], d[2])'
  BY <1>1, HookDoneIs
<1>3. PICK r : req' = [req EXCEPT ![h] = r] /\ RequestOK(api, row, r)
  BY <1>1, HookDoneIs
<1>4. /\ stale' \subseteq stale /\ excused' \subseteq stale'
      /\ excused \ {<<p, s>>} \subseteq excused'
      /\ <<p, s>> \in stale' => <<p, s>> \in excused'
  BY DEF Load, Miss, Copies
<1>5. ASSUME NEW d \in stale'
      PROVE  Owed(d[1], d[2])' \/ d \in excused'
  <2>1. d \in Proxies \X Scopes /\ (Owed(d[1], d[2]) \/ d \in excused)
    BY <1>4 DEF Copies, Reloaded
  <2>2. d = <<d[1], d[2]>>
    BY <2>1
  <2> QED BY <1>2, <1>4, <1>5, <2>1, <2>2
<1>6. Copies'
  <2>1. Reloaded'
    BY <1>5 DEF Reloaded
  <2> QED BY <1>4, <2>1 DEF Copies
<1> QED
  BY <1>2, <1>3, <1>6, SameRows, SameFlagsToo, StillInProgress

-----------------------------------------------------------------------------
\* The invariant, the steps that keep it, and the theorems.

ReloadInv == Rows /\ InProgress /\ Copies /\ Flags

LEMMA InitInv == Init => ReloadInv
<1> SUFFICES ASSUME Init
             PROVE  ReloadInv
  OBVIOUS
<1>1. \A i \in Ids : row[i] = None
  BY DEF Init
<1>2. Rows
  BY <1>1 DEF Init, Rows, Shape, ForeignKeys, Exists
<1>3. InProgress
  BY DEF Init, InProgress, RequestOK
<1>4. Copies
  BY DEF Init, Copies, Reloaded
<1>5. Flags
  BY <1>1, PeeringAssumption DEF Init, Flags, InboundFlag, FlagRight, Exists
<1> QED
  BY <1>2, <1>3, <1>4, <1>5 DEF ReloadInv

LEMMA RewriteKeeps ==
  ASSUME ReloadInv, NEW h \in Requests, RewriteStep(h)
  PROVE  ReloadInv'
<1>1. Rows /\ InProgress /\ Copies /\ Flags /\ api = "rewrite rules" /\ UNCHANGED <<odd, api>>
  BY DEF ReloadInv, RewriteStep
<1>2. CASE Free(h) /\ (RewriteSetHandlers(h) \/ RewriteRuleHandlers(h))
  <2>1. \E r : Begun(h, r)
    BY <1>1, <1>2, RewriteHandlersBegun
  <2> QED BY <1>1, <1>2, <2>1, BegunKeeps DEF ReloadInv
<1>3. CASE RewriteCommit(h)
  <2>1. Rows' /\ InProgress' /\ Copies'
    BY <1>1, <1>3, RewriteCommitKeeps
  <2>2. Flags'
    BY <1>1 DEF Flags, InboundFlag
  <2> QED BY <2>1, <2>2 DEF ReloadInv
<1> QED
  BY <1>2, <1>3 DEF RewriteStep

LEMMA HmKeeps ==
  ASSUME ReloadInv, NEW h \in Requests, HmStep(h)
  PROVE  ReloadInv'
<1>1. Rows /\ InProgress /\ Copies /\ Flags /\ api \in HmApis /\ UNCHANGED <<odd, api>>
  BY DEF ReloadInv, HmStep, HmApis
<1>2. CASE /\ Free(h)
           /\ \/ HmSetHandlers(h) \/ HmRuleHandlers(h)
              \/ ActionHandlers(h) \/ ConditionHandlers(h)
  <2>1. \E r : Begun(h, r)
    BY <1>1, <1>2, HmHandlersBegun DEF Rows
  <2> QED BY <1>1, <1>2, <2>1, BegunKeeps DEF ReloadInv
<1>3. CASE HmCommit(h)
  <2>1. Rows' /\ InProgress' /\ Copies'
    BY <1>1, <1>3, HmCommitKeeps
  <2>2. Flags'
    BY <1>1 DEF Flags, InboundFlag, HmApis
  <2> QED BY <2>1, <2>2 DEF ReloadInv
<1> QED
  BY <1>2, <1>3 DEF HmStep

LEMMA PeeringKeeps ==
  ASSUME ReloadInv, NEW h \in Requests, PeeringStep(h)
  PROVE  ReloadInv'
<1>1. Rows /\ InProgress /\ Copies /\ Flags /\ api \in PeeringApis /\ UNCHANGED api
  BY DEF ReloadInv, PeeringStep, PeeringApis
<1>2. CASE /\ Free(h) /\ UNCHANGED odd
           /\ \/ GroupHandlers(h)
              \/ api = "peering servers" /\ (ServerHandlers(h) \/ PeeringRuleHandlers(h))
              \/ api = "inbound rules" /\ InboundRuleHandlers(h)
  <2>1. \E r : Begun(h, r)
    BY <1>1, <1>2, PeeringHandlersBegun DEF Rows
  <2> QED BY <1>1, <1>2, <2>1, BegunKeeps DEF ReloadInv
<1>3. CASE PeeringCommit(h)
  BY <1>1, <1>3, PeeringCommitKeeps, PeeringCommitFlags DEF ReloadInv
<1> QED
  BY <1>2, <1>3 DEF PeeringStep

LEMMA NextInv == ReloadInv /\ [Next]_vars => ReloadInv'
<1> SUFFICES ASSUME ReloadInv, [Next]_vars
             PROVE  ReloadInv'
  OBVIOUS
<1>1. ASSUME NEW h \in Requests, RewriteStep(h) \/ HmStep(h) \/ PeeringStep(h)
      PROVE  ReloadInv'
  BY <1>1, RewriteKeeps, HmKeeps, PeeringKeeps
<1>2. CASE ReloadNext /\ UNCHANGED <<odd, api>>
  <2>1. PICK h \in Requests :
          Rollback(h) \/ \E p \in Proxies, s \in Scopes : Load(h, p, s) \/ Miss(h, p, s)
    BY <1>2 DEF ReloadNext
  <2>2. CASE Rollback(h)
    BY <1>2, <2>2, RollbackKeeps DEF ReloadInv
  <2>3. ASSUME NEW p \in Proxies, NEW s \in Scopes, Load(h, p, s) \/ Miss(h, p, s)
        PROVE  ReloadInv'
    BY <1>2, <2>3, LoadKeeps DEF ReloadInv
  <2> QED BY <2>1, <2>2, <2>3
<1>3. CASE UNCHANGED vars
  <2>1. UNCHANGED <<row, req, stale, excused, odd, api>>
    BY <1>3 DEF vars
  <2>2. Rows' /\ Flags'
    BY <2>1, SameRows, SameFlagsToo DEF ReloadInv
  <2>3. InProgress'
    BY <2>1 DEF ReloadInv, InProgress
  <2>4. Copies'
    BY <2>1 DEF ReloadInv, Copies, Reloaded, Owed
  <2> QED BY <2>2, <2>3, <2>4 DEF ReloadInv
<1> QED
  BY <1>1, <1>2, <1>3 DEF Next

LEMMA AlwaysInv == Spec => []ReloadInv
<1> QED
  BY InitInv, NextInv, PTL DEF Spec

(* Types and foreign keys: no committed transaction leaves a row without its *)
(* parent, a rolled back or quiet request leaves no hook behind, and a proxy *)
(* is excused only for a scope it is behind on.                              *)
THEOREM TypesHold == Spec => []TypeOK
<1>1. ReloadInv => TypeOK
  <2> SUFFICES ASSUME ReloadInv
               PROVE  TypeOK
    OBVIOUS
  <2>1. \A i \in Ids : Exists(row, i) => row[i].parent \in Ids \cup {None}
    BY ShapeParent DEF ReloadInv, Rows, Exists
  <2>2. ASSUME NEW h \in Requests
        PROVE  \/ req[h] = None
               \/ req[h].step = "pending" /\ PendingOK(req[h])
               \/ /\ req[h].step = "hooks"
                  /\ req[h].due # {} /\ req[h].due \subseteq Proxies \X Scopes
    <3>1. PICK r : r = req[h]
      OBVIOUS
    <3>2. RequestOK(api, row, r)
      BY <3>1 DEF ReloadInv, InProgress
    <3>3. Pending(api, r) => r.step = "pending" /\ PendingOK(r)
      BY DEF Pending, PendingOK, Named
    <3>4. Hooked(r) => /\ r.step = "hooks"
                       /\ r.due # {} /\ r.due \subseteq Proxies \X Scopes
      BY DEF Hooked
    <3> QED BY <3>1, <3>2, <3>3, <3>4 DEF RequestOK
  <2> QED BY <2>1, <2>2 DEF ReloadInv, Rows, Copies, Flags, TypeOK
<1> QED
  BY <1>1, AlwaysInv, PTL

(* A change that has committed reaches the proxies.  The services of rewrite *)
(* rules, header manipulations and peerings decide before they write whether *)
(* to reload and what, from rows that other requests may change before the   *)
(* commit.  Whatever is out of date in a proxy is still owed to it by a      *)
(* request, or has one of the reasons that Reloaded names: for any number of *)
(* rows and of requests in progress, each naming any number of rows.         *)
THEOREM ChangesReach == Spec => []Reloaded
<1>1. ReloadInv => Reloaded
  BY DEF ReloadInv, Copies
<1> QED
  BY <1>1, AlwaysInv, PTL

(* has_inbound_rules, the column the services of inbound rules count by hand, *)
(* is right for every group, except where a rule has changed groups, a write  *)
(* of the flag came after its transaction, or requests overlapped.            *)
THEOREM FlagsTell == Spec => []InboundFlag
<1>1. ReloadInv => InboundFlag
  BY DEF ReloadInv, Flags
<1> QED
  BY <1>1, AlwaysInv, PTL
=============================================================================
