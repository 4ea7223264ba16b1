----------------------------- MODULE Phonebooks -----------------------------
(***************************************************************************)
(* The phonebooks of resellers, customers and subscribers                  *)
(* (api/resellers/phonebook, customers/phonebook, subscribers/phonebook).  *)
(* An entry belongs to one owner; a book can be imported from a CSV file,  *)
(* which may replace the books of the owners that the file names.          *)
(*                                                                         *)
(* The three differ in whose entries a caller may read and create.  The    *)
(* owner a request gives an existing entry is not checked by any of them.  *)
(***************************************************************************)
EXTENDS Store

CONSTANTS Entries,    \* ids of the entries
          BookOwners, \* resellers, customers or subscribers
          Terminated, \* owners that are terminated subscribers
          Numbers

ASSUME TerminatedAssumption == Terminated \subseteq BookOwners

-----------------------------------------------------------------------------
\* The tables.  An entry has an owner and a number; its name is text.

ResellerEntryRows == [owner: BookOwners, number: Numbers]

CustomerEntryRows == [owner: BookOwners, number: Numbers]

SubscriberEntryRows == [owner: BookOwners, number: Numbers, shared: BOOLEAN]

-----------------------------------------------------------------------------
\* What requests and files may say, and what answers show.  A subscriber that is
\* not named is the path's or the caller.

ResellerEntryBodies == [owner: BookOwners, number: Numbers]

CustomerEntryBodies == [owner: BookOwners, number: Numbers]

SubscriberEntryBodies == [owner: BookOwners, number: Numbers, shared: BOOLEAN]

ResellerLines == [owner: BookOwners, number: Numbers]

CustomerLines == [owner: BookOwners, number: Numbers]

\* Whatever is not a yes is not shared.
SubscriberLines == [owner: BookOwners, number: Numbers, shared: BOOLEAN]

ResellerEntryResponse == {"owner", "number"}

CustomerEntryResponse == {"owner", "number"}

SubscriberEntryResponse == {"owner", "number", "shared"}

-----------------------------------------------------------------------------
\* What the three have in common

EntriesOf(O) == {e \in Entries : Exists(e) /\ row[e].owner \in O}

OneOrAll == {BookOwners} \cup {{o} : o \in BookOwners}

\* Rows for new entries, all of owners in O.
NewEntries(Bodies, O) ==
  UNION {[S -> {b \in Bodies : b.owner \in O}] : S \in Batches(Fresh(Entries))}

\* A number is once in a book of the file.
NoDuplicates(body) ==
  \A e, f \in DOMAIN body :
    e # f => <<body[e].owner, body[e].number>> # <<body[f].owner, body[f].number>>

\* Mutant: a book is emptied if one of its entries is in the file.
BooksInFile(body) ==
  {body[e].owner : e \in {e \in DOMAIN body : \E f \in Entries : Exists(f) /\ row[f] = body[e]}}

BooksIn(body) == {body[e].owner : e \in DOMAIN body}

\* purge_existing deletes all the entries of the file's owners, as they are when
\* the transaction commits: the DELETE waits for other writers.
Import(h, body, purge) ==
  Begin(h, [Post(body) EXCEPT !.purge = IF purge THEN BooksIn(body) ELSE {}])

\* A single entry is read back as the caller reads it.
ReadBack(w, O) == \A e \in w.log : w.upd[e].owner \in O

-----------------------------------------------------------------------------
\* Resellers: administrators on behalf of one or of all of them, and a reseller.

ResellerFilters == OneOrAll

ResellerEntries(O) == EntriesOf(O)

CreateResellerEntries(h) ==
  \E O \in ResellerFilters : \E body \in NewEntries(ResellerEntryBodies, O) :
    Begin(h, Post(body))

ImportResellerEntries(h) ==
  \E O \in ResellerFilters : \E body \in NewEntries(ResellerLines, O), purge \in BOOLEAN :
    NoDuplicates(body) /\ Import(h, body, purge)

UpdateResellerEntries(h) ==
  \E O \in ResellerFilters : \E w \in Writes(ResellerEntries(O), ResellerEntryBodies) :
    ReadBack(w, O) /\ Begin(h, [w EXCEPT !.shows = ResellerEntryResponse])

DeleteResellerEntries(h) ==
  \E O \in ResellerFilters : \E D \in Batches(ResellerEntries(O)) : Begin(h, Delete(D))

PostResellerEntries(h) == CreateResellerEntries(h) \/ ImportResellerEntries(h)

ResellerEntryHandlers(h) == UpdateResellerEntries(h) \/ DeleteResellerEntries(h)

-----------------------------------------------------------------------------
\* Customers: the filter is the path's or a subscriber administrator's customer;
\* a reseller has none.

CustomerFilters == OneOrAll

CustomerEntries(O) == EntriesOf(O)

\* Only a subscriber administrator is held to its own customer.
CreateCustomerEntries(h) ==
  \E O \in CustomerFilters : \E body \in NewEntries(CustomerEntryBodies, O) :
    Begin(h, Post(body))

ImportCustomerEntries(h) ==
  \E O \in CustomerFilters : \E body \in NewEntries(CustomerLines, O), purge \in BOOLEAN :
    NoDuplicates(body) /\ Import(h, body, purge)

UpdateCustomerEntries(h) ==
  \E O \in CustomerFilters : \E w \in Writes(CustomerEntries(O), CustomerEntryBodies) :
    ReadBack(w, O) /\ Begin(h, [w EXCEPT !.shows = CustomerEntryResponse])

DeleteCustomerEntries(h) ==
  \E O \in CustomerFilters : \E D \in Batches(CustomerEntries(O)) : Begin(h, Delete(D))

PostCustomerEntries(h) == CreateCustomerEntries(h) \/ ImportCustomerEntries(h)

CustomerEntryHandlers(h) == UpdateCustomerEntries(h) \/ DeleteCustomerEntries(h)

-----------------------------------------------------------------------------
\* Subscribers: a reseller's or a customer's ones, the path's, or the caller.
\* A subscriber administrator reads the entries of all.

SubscriberFilters == SUBSET BookOwners \ {{}}

SubscriberEntries(O) == EntriesOf(O)

AllowedSubscribers(O) == O \ Terminated

CreateSubscriberEntries(h) ==
  \E O \in SubscriberFilters :
    \E body \in NewEntries(SubscriberEntryBodies, AllowedSubscribers(O)) : Begin(h, Post(body))

\* Terminated subscribers get entries from a file.
ImportSubscriberEntries(h) ==
  \E O \in OneOrAll : \E body \in NewEntries(SubscriberLines, O), purge \in BOOLEAN :
    NoDuplicates(body) /\ Import(h, body, purge)

UpdateSubscriberEntries(h) ==
  \E O \in SubscriberFilters : \E w \in Writes(SubscriberEntries(O), SubscriberEntryBodies) :
    ReadBack(w, O) /\ Begin(h, [w EXCEPT !.shows = SubscriberEntryResponse])

DeleteSubscriberEntries(h) ==
  \E O \in SubscriberFilters : \E D \in Batches(SubscriberEntries(O)) : Begin(h, Delete(D))

PostSubscriberEntries(h) == CreateSubscriberEntries(h) \/ ImportSubscriberEntries(h)

SubscriberEntryHandlers(h) == UpdateSubscriberEntries(h) \/ DeleteSubscriberEntries(h)

-----------------------------------------------------------------------------
EntryRow(i, r) ==
  i \in Entries => r \in ResellerEntryRows \cup CustomerEntryRows \cup SubscriberEntryRows

\* What a book holds.
Book(o) == {e \in Entries : Exists(e) /\ row[e].owner = o}

(* An import that replaces books leaves in them what the file says and      *)
(* nothing else, whatever others wrote to them since it began, and leaves   *)
(* the other books alone.                                                   *)
ImportReplaces ==
  [][\A h \in Requests :
       ~Free(h) /\ row' # row /\ req'[h] = None /\ req[h].purge # {} =>
         \A o \in BookOwners :
           IF o \in req[h].purge
           THEN Book(o)' = {e \in DOMAIN req[h].add : req[h].add[e].owner = o}
           ELSE Book(o)' = Book(o)]_storeVars
=============================================================================
