------------------------------- MODULE Store -------------------------------
(***************************************************************************)
(* What the resources that are nothing but rows have in common: accounts,  *)
(* NCOS, phonebooks and customers' data (modules Accounts, Ncos,           *)
(* Phonebooks, CustomerData).  Their controllers derive from               *)
(* CrudController and differ in what they check; the verbs are the same:   *)
(*                                                                         *)
(*   POST               inserts rows, journals nothing                     *)
(*   PUT, PATCH  /:id   writes one row, reads it back, journals what it    *)
(*                      answers                                            *)
(*   PUT, PATCH  /      writes the rows of a dictionary, journals nothing  *)
(*   DELETE             deletes rows, journals that they are gone          *)
(*                                                                         *)
(* A handler is one transaction.  It reads and checks in one snapshot      *)
(* (Begin) and takes effect, journal included, when it commits (Commit);   *)
(* what other handlers committed in between it has not seen.  An UPDATE by *)
(* id goes to the row as it is by then, or to nothing.                     *)
(***************************************************************************)
EXTENDS Naturals, FiniteSets

CONSTANTS Requests,   \* slots of requests in progress
          Ids,        \* ids of the rows of every table
          Admin,      \* a caller no filter applies to
          BatchBound, \* bound: rows that one request names
          None

ASSUME BatchAssumption == BatchBound \in Nat \ {0}

VARIABLES row,    \* Ids -> the row, a record, or None
          req,    \* the requests in progress, see Begin
          late,   \* those since whose begin others wrote rows they relied on
          told,   \* Ids -> the last entry of the row's journal, or None
          untold, \* rows that changed since without an entry
          odd     \* rows that a late request, or a batch, wrote or relied on

storeVars == <<row, req, late, told, untold, odd>>

-----------------------------------------------------------------------------
\* Rows

Exists(i) == row[i] # None

Nothing == [i \in {} |-> None]

\* The rows that a row names by a foreign key.
References(r) == {r[f] : f \in {f \in DOMAIN r : r[f] \in Ids}}

\* The columns whose foreign key is ON DELETE CASCADE, those of NCOS.
Cascading == {"set", "level"}

CascadesFrom(r) == {r[f] : f \in {f \in DOMAIN r \cap Cascading : r[f] \in Ids}}

Children(rows, D) == {i \in Ids : rows[i] # None /\ CascadesFrom(rows[i]) \cap D # {}}

WithChildren(rows, D) ==
  D \cup Children(rows, D) \cup Children(rows, Children(rows, D))

ForeignKeys(rows) ==
  \A i \in Ids : rows[i] # None => \A j \in References(rows[i]) : rows[j] # None

\* Repositories that delete the null and undefined keys of an update leave
\* those columns as they are.
Given(b) == [f \in {g \in DOMAIN b : b[g] # None} |-> b[f]]

\* The columns that an UPDATE writes, and the others as they were.
Over(u, r) ==
  [f \in DOMAIN u \cup DOMAIN r |-> IF f \in DOMAIN u THEN u[f] ELSE r[f]]

-----------------------------------------------------------------------------
\* Requests

Free(h) == req[h] = None

Running == {h \in Requests : ~Free(h)}

\* Auto-increment ids that no transaction has drawn.
Fresh(S) == {i \in S : ~Exists(i) /\ \A h \in Running : i \notin DOMAIN req[h].add}

Batches(S) == {B \in SUBSET S : B # {} /\ Cardinality(B) <= BatchBound}

\* The rows that a request names: by /:id, which is journaled, or in the keys
\* of a dictionary, which is not.
Targets(S) ==
  {[ids |-> {i}, log |-> {i}] : i \in S} \cup {[ids |-> B, log |-> {}] : B \in Batches(S)}

(* What a handler has decided to do: rows to insert, to update, to delete   *)
(* (add, upd, del); the books to empty first (purge); the rows it journals  *)
(* and the fields its answer shows of them (log, shows); the field that a   *)
(* PATCH names; other rows that its checks relied on (reads); whether its   *)
(* checks are blind to rows they are about: to each other, if checked one   *)
(* by one as if the others were not there, or to all but one of those that  *)
(* have a name (batch).                                                     *)
(* What it read of the rows it journals is in was.                          *)
Blank == [add |-> Nothing, upd |-> Nothing, del |-> {}, purge |-> {}, log |-> {},
          shows |-> {}, field |-> None, reads |-> {}, batch |-> FALSE, was |-> Nothing]

Post(rows) == [Blank EXCEPT !.add = rows]

One(i, r) == [j \in {i} |-> r]

\* PUT: every row becomes what the body says.
Put(t, body) == [Blank EXCEPT !.upd = [i \in t.ids |-> body], !.log = t.log]

\* Mutant: the patch is applied to an empty request, in which
\* expose_to_customer is not set.
PatchedBlank(old, f, v) ==
  [g \in DOMAIN old |-> IF g = f THEN v ELSE IF g = "exposed" THEN FALSE ELSE old[g]]

\* PATCH: the row as it was read, with one field replaced, is written back whole.
Patched(old, f, v) == [old EXCEPT ![f] = v]

Patch(t, f, v) ==
  [Blank EXCEPT !.upd = [i \in t.ids |-> Patched(row[i], f, v)], !.log = t.log, !.field = f]

IsPatch(w) == w.field # None

\* The two ways to write rows of S, a set of rows that can be read.
Puts(S, Bodies) == {Put(t, b) : t \in Targets(S), b \in Bodies}

Patches(S, Bodies) ==
  UNION {{Patch(t, f, b[f]) : f \in DOMAIN b} : t \in Targets(S), b \in Bodies}

Writes(S, Bodies) == Puts(S, Bodies) \cup Patches(S, Bodies)

\* What is written of the rows of w, and what the answer shows of them.
Rewritten(w, upd, shown) == [w EXCEPT !.upd = upd, !.shows = shown]

Delete(D) == [Blank EXCEPT !.del = D, !.log = D]

Begin(h, w) ==
  /\ Free(h)
  /\ req' = [req EXCEPT ![h] = [w EXCEPT !.was = [i \in w.log |-> row[i]]]]
  /\ UNCHANGED <<row, late, told, untold, odd>>

-----------------------------------------------------------------------------
\* Transactions

Purged(rows, r) ==
  {i \in Ids : rows[i] # None /\ "owner" \in DOMAIN rows[i] /\ rows[i].owner \in r.purge}

Removed(rows, r) == WithChildren(rows, r.del \cup Purged(rows, r))

Updated(rows, r) == {i \in DOMAIN r.upd \ Removed(rows, r) : rows[i] # None}

\* Mutant: columns that an UPDATE does not write are emptied.
AfterReplacing(rows, r) ==
  LET removed == Removed(rows, r)
      updated == Updated(rows, r)
  IN  [i \in Ids |-> CASE i \in DOMAIN r.add -> r.add[i]
                      [] i \in removed \ DOMAIN r.add -> None
                      [] i \in updated \ DOMAIN r.add -> r.upd[i]
                      [] OTHER -> rows[i]]

\* The rows after a request: an UPDATE keeps the columns it does not write.
After(rows, r) ==
  LET removed == Removed(rows, r)
      updated == Updated(rows, r)
  IN  [i \in Ids |-> CASE i \in DOMAIN r.add -> r.add[i]
                      [] i \in removed \ DOMAIN r.add -> None
                      [] i \in updated \ DOMAIN r.add -> Over(r.upd[i], rows[i])
                      [] OTHER -> rows[i]]

Wrote(rows, r) ==
  DOMAIN r.add \cup Updated(rows, r) \cup {i \in Removed(rows, r) : rows[i] # None}

Relied(r) ==
  DOMAIN r.add \cup DOMAIN r.upd \cup r.del \cup r.reads
  \cup UNION ({References(r.add[i]) : i \in DOMAIN r.add}
              \cup {References(r.upd[i]) : i \in DOMAIN r.upd})

\* The requests that relied on rows which others have now written.
Overtaken(wrote) == {g \in Running : Relied(req[g]) \cap wrote # {}}

\* Mutant: the entry shows the row that was read before the update.
EntryBefore(r, i) ==
  IF i \in r.del THEN Nothing
  ELSE [f \in DOMAIN r.was[i] \cap r.shows |-> r.was[i][f]]

\* Rows in which the UPDATE changes nothing: others made them what the body
\* says, or deleted them.  A read-back finds them in the snapshot.
Unchanged(r) == {i \in r.log \ r.del : After(row, r)[i] = row[i]}

(* The entry that a request writes about one of its rows: nothing for a     *)
(* DELETE, otherwise the row as it reads it back: with its update, if that  *)
(* made a new version of the row, or else as it was.                        *)
Entry(r, i) ==
  IF i \in r.del THEN Nothing
  ELSE LET seen == IF i \in Unchanged(r) THEN r.was[i] ELSE After(row, r)[i]
       IN  [f \in DOMAIN seen \cap r.shows |-> seen[f]]

\* Entries that show rows as they are no more.
Outdated(r) == {i \in Unchanged(r) : r.was[i] # row[i]}

Commit(h) ==
  /\ ~Free(h)
  /\ LET r == req[h]
     IN  /\ row' = After(row, r)
         /\ ForeignKeys(row')
         /\ req' = [req EXCEPT ![h] = None]
         /\ late' = (late \cup Overtaken(Wrote(row, r))) \ {h}
         /\ told' = [i \in Ids |-> IF i \in r.log THEN Entry(r, i)
                                   ELSE IF i \in DOMAIN r.add THEN None ELSE told[i]]
         /\ untold' = ((untold \cup Wrote(row, r)) \ (r.log \cup DOMAIN r.add)) \cup Outdated(r)
         /\ odd' = IF h \in late \/ r.batch THEN odd \cup Relied(r) ELSE odd \ DOMAIN r.add

\* A check, a foreign key or a lost connection fails the request.
Rollback(h) ==
  /\ ~Free(h)
  /\ req' = [req EXCEPT ![h] = None]
  /\ late' = late \ {h}
  /\ UNCHANGED <<row, told, untold, odd>>

StoreNext == \E h \in Requests : Commit(h) \/ Rollback(h)
=============================================================================
