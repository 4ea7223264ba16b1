------------------------------- MODULE Reload -------------------------------
(***************************************************************************)
(* Configuration that daemons keep a copy of.  Rewrite rules, header       *)
(* manipulations and peerings are rows of MariaDB that the SIP proxies     *)
(* load; a handler that changes them registers a reload with               *)
(* runOnTransactionCommit, and the reload is sent as a task, by the task   *)
(* agent of module TaskAgent, after the handler's transaction committed.   *)
(*                                                                         *)
(* This module is what these handlers have in common: rows with a parent,  *)
(* transactions, hooks, and what the proxies have loaded.  The handlers    *)
(* are in RewriteRules, HeaderManipulations and Peerings.                  *)
(*                                                                         *)
(* A transaction reads and checks in one snapshot (Begin, from the first   *)
(* read to the last await but the commit's) and takes effect when it       *)
(* commits (Commit).  UPDATE and DELETE by id apply to the rows that are   *)
(* there by then.                                                          *)
(***************************************************************************)
EXTENDS Naturals, FiniteSets

CONSTANTS Requests, \* slots of requests in progress
          Proxies,  \* the proxies that hold a copy (state=active;role=proxy)
          Ids,      \* ids of the rows of every table
          Scopes,   \* what one task reloads
          Admin,    \* a caller without reseller_id_required
          Owner,    \* the reseller of a set, for each set
          BatchBound, \* rows one request names, at most
          None

\* None is neither an id nor hooks that are left to run.
ASSUME NoneAssumption ==
  /\ None \notin Ids
  /\ \A due \in SUBSET (Proxies \X Scopes) : [step |-> "hooks", due |-> due] # None

VARIABLES row,     \* Ids -> the row, a record with its parent, or None
          req,     \* the requests in progress, see Pending and Hooks
          stale,   \* <<p, s>>: what proxy p loaded of scope s is out of date
          excused  \* <<p, s>>: it is, for a reason that is named

reloadVars == <<row, req, stale, excused>>

-----------------------------------------------------------------------------
\* Rows

Exists(rows, i) == rows[i] # None

Children(rows, D) == {i \in Ids : Exists(rows, i) /\ rows[i].parent \in D}

Parents(rows, D) == {rows[i].parent : i \in {j \in D : Exists(rows, j)}} \ {None}

\* Foreign keys cascade: a row takes along its children and theirs.
Below(rows, D) == D \cup Children(rows, D) \cup Children(rows, Children(rows, D))

Above(rows, D) == D \cup Parents(rows, D) \cup Parents(rows, Parents(rows, D))

\* The rows after a transaction: what it deletes is gone, what it updates is
\* updated if it is still there (to None: nothing that is modelled changes),
\* what it inserts is there.
Written(rows, r) ==
  LET gone == Below(rows, r.del)
      kept == {i \in DOMAIN r.upd \ gone : Exists(rows, i) /\ r.upd[i] # None}
  IN  [i \in Ids |-> CASE i \in gone -> None
                      [] i \in DOMAIN r.add \ gone -> r.add[i]
                      [] i \in kept \ DOMAIN r.add -> r.upd[i]
                      [] OTHER -> rows[i]]

\* The rows a transaction has written to.
Wrote(rows, r) ==
  DOMAIN r.add \cup {i \in Below(rows, r.del) \cup DOMAIN r.upd : Exists(rows, i)}

\* No row without its parent.
ForeignKeys(rows) ==
  \A i \in Ids : Exists(rows, i) /\ rows[i].parent # None => Exists(rows, rows[i].parent)

\* The rows a transaction's outcome depends on: those it names, the new parents
\* it gives them, and what is above and below.
Depends(rows, r) ==
  LET named == DOMAIN r.add \cup DOMAIN r.upd \cup r.del
      given == {r.add[i].parent : i \in DOMAIN r.add}
               \cup {r.upd[i].parent : i \in {j \in DOMAIN r.upd : r.upd[j] # None}}
  IN  Above(rows, (named \cup given) \ {None}) \cup Below(rows, named)

-----------------------------------------------------------------------------
\* Requests

\* Who may see a set: with reseller_id_required, only the reseller it is of.
May(who, s) == who = Admin \/ who = Owner[s]

\* A bulk request names several rows of a kind.
Batches(S) == {B \in SUBSET S : B # {} /\ Cardinality(B) <= BatchBound}

Callers == {Admin} \cup {Owner[s] : s \in DOMAIN Owner}

Free(h) == req[h] = None

Running == {h \in Requests : req[h] # None /\ req[h].step = "pending"}

\* Auto-increment ids that no transaction has drawn.
Fresh(S) == {i \in S : row[i] = None /\ \A h \in Running : i \notin DOMAIN req[h].add}

Nothing == [i \in {} |-> None]

\* A handler has read and checked: what it will write (add, upd, del), the
\* scopes whose reload it has registered (due), those it changes without doing
\* so, for a reason its module names (gap), and whether rows it depends on were
\* written by another request meanwhile (late).
Begin(h, add, upd, del, due, gap) ==
  /\ req' = [req EXCEPT ![h] = [step |-> "pending", add |-> add, upd |-> upd,
                                del |-> del, due |-> due, gap |-> gap, late |-> FALSE]]
  /\ UNCHANGED <<row, stale, excused>>

\* Hooks that are left to run, one for each proxy a task has to reach.
Hooks(due) ==
  LET left == Proxies \X due
  IN  IF left = {} THEN None ELSE [step |-> "hooks", due |-> left]

\* The other requests learn nothing of a commit.  Those that depend on rows it
\* has written are late.
Overtake(h, new, wrote) ==
  [g \in Requests |->
     IF /\ g \in Running \ {h}
        /\ (Depends(row, req[g]) \cup Depends(new, req[g])) \cap wrote # {}
     THEN [req[g] EXCEPT !.late = TRUE] ELSE req[g]]

After(h) == Written(row, req[h])

\* The transaction commits.  Touched are the scopes in which a proxy sees the
\* difference between the rows before and after.
Commit(h, touched) ==
  /\ h \in Running
  /\ ForeignKeys(After(h))
  /\ row' = After(h)
  /\ LET r == req[h]
     IN  /\ req' = [Overtake(h, row', Wrote(row, r)) EXCEPT ![h] = Hooks(r.due)]
         /\ stale' = stale \cup (Proxies \X touched)
         /\ excused' = excused \cup
              (Proxies \X (IF r.late THEN touched ELSE touched \cap r.gap))

\* The handler fails (a foreign key, a lost connection, its worker's death) and
\* its transaction is rolled back.
Rollback(h) ==
  /\ h \in Running
  /\ req' = [req EXCEPT ![h] = None]
  /\ UNCHANGED <<row, stale, excused>>

HookDone(h, p, s) ==
  /\ req[h] # None /\ req[h].step = "hooks" /\ <<p, s>> \in req[h].due
  /\ LET left == req[h].due \ {<<p, s>>}
     IN  req' = [req EXCEPT ![h] = IF left = {} THEN None ELSE [@ EXCEPT !.due = left]]
  /\ UNCHANGED row

\* A proxy has run the task: it has loaded what is committed by now.
Load(h, p, s) ==
  /\ HookDone(h, p, s)
  /\ stale' = stale \ {<<p, s>>}
  /\ excused' = excused \ {<<p, s>>}

\* The task never reaches the proxy: the worker died between the commit and the
\* hook, Redis refused it, the message was lost, the proxy could not load.
Miss(h, p, s) ==
  /\ HookDone(h, p, s)
  /\ excused' = excused \cup ({<<p, s>>} \cap stale)
  /\ UNCHANGED stale

ReloadNext ==
  \E h \in Requests : \/ Rollback(h)
                      \/ \E p \in Proxies, s \in Scopes : Load(h, p, s) \/ Miss(h, p, s)
=============================================================================
