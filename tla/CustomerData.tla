---------------------------- MODULE CustomerData ----------------------------
(***************************************************************************)
(* Speed dials, balances and voicemails of customers, and the invoice      *)
(* templates of their resellers (api/customerspeeddials,                   *)
(* api/customers/balances, api/voicemails, api/templates/invoices).        *)
(*                                                                         *)
(* Some of their columns are not written as they are given: a destination  *)
(* gets a domain, a folder a path, a debit is ignored.                     *)
(***************************************************************************)
EXTENDS Store

CONSTANTS SpeedDials, Balances, Templates, Voicemails, \* ids
          Customers,
          ResellerOf, \* whose customers they are
          Reachable,  \* customers with a subscriber, hence with a domain
          Amounts, Files, Folders

ASSUME CustomersAssumption ==
  Reachable \subseteq Customers /\ DOMAIN ResellerOf = Customers /\ None \notin Customers

Sellers == {ResellerOf[c] : c \in Customers}

\* addFilterBy: what a reseller reads is its own.
Sees(who, r) == who \in {Admin, r}

-----------------------------------------------------------------------------
\* The tables.  The domain of a destination is that of some customer.

SpeedDialRows == [customer: Customers, dest: Customers]

BalanceRows == [customer: Customers, cash: Amounts, debit: Amounts]

TemplateRows == [reseller: Sellers, file: Files]

\* A bare folder has no path before it: the directory of no mailbox.
VoicemailRows == [folder: Folders, bare: BOOLEAN]

-----------------------------------------------------------------------------
\* What requests may say, and what answers show.

\* A destination without a domain is None.
SpeedDialBodies == [customer: Customers, dest: Customers \cup {None}]

BalanceBodies == [cash: Amounts, debit: Amounts]

TemplateBodies == [reseller: Sellers, file: Files \cup {None}]

VoicemailBodies == [folder: Folders \cup {None}]

SpeedDialResponse == {"customer", "dest"}

BalanceResponse == {"cash", "debit"}

\* The file is only linked.
TemplateResponse == {"reseller"}

VoicemailResponse == {"folder"}

Single(W) == {w \in W : w.log # {}}

-----------------------------------------------------------------------------
\* Speed dials, of administrators, resellers and customers' administrators

DialCallers == {Admin} \cup Sellers \cup Customers

Permitted(who, c) == who \in {Admin, ResellerOf[c], c}

\* The filter of a reseller joins an alias that the query does not have: the
\* query fails.
ReadableDials(who) ==
  {d \in SpeedDials : Exists(d) /\ who \notin Sellers /\ who \in {Admin, row[d].customer}}

Transformable(b) == b.dest = None => b.customer \in Reachable

Transformed(b) == IF b.dest = None THEN [b EXCEPT !.dest = b.customer] ELSE b

CreateSpeedDials(h) ==
  \E who \in DialCallers, S \in Batches(Fresh(SpeedDials)), b \in SpeedDialBodies :
    /\ Permitted(who, b.customer)
    /\ Transformable(b)
    /\ Begin(h, Post([d \in S |-> Transformed(b)]))

\* The customer that is checked is the one that a speed dial gets.
DialsChangeable(who, w) ==
  \A d \in DOMAIN w.upd : Permitted(who, w.upd[d].customer) /\ Transformable(w.upd[d])

\* PUT has no dictionary, and reads nothing before it writes.
DialWrites(who) ==
  Single(Puts({d \in SpeedDials : Exists(d)}, SpeedDialBodies))
  \cup Patches(ReadableDials(who), SpeedDialBodies)

WriteSpeedDials(h) ==
  \E who \in DialCallers : \E w \in DialWrites(who) :
    /\ DialsChangeable(who, w)
    /\ w.log # {} => who \notin Sellers
    /\ Begin(h, Rewritten(w, [d \in DOMAIN w.upd |-> Transformed(w.upd[d])], SpeedDialResponse))

DeleteSpeedDials(h) ==
  \E who \in DialCallers, D \in Batches({d \in SpeedDials : Exists(d)}) :
    /\ \A d \in D : Permitted(who, row[d].customer)
    /\ Begin(h, Delete(D))

SpeedDialHandlers(h) == CreateSpeedDials(h) \/ WriteSpeedDials(h) \/ DeleteSpeedDials(h)

-----------------------------------------------------------------------------
\* Balances, which come and go with the billing of a contract

BalancesOf(who, C) ==
  {i \in Balances : Exists(i) /\ row[i].customer \in C /\ Sees(who, ResellerOf[row[i].customer])}

\* fromInternal does not map the debit: a PUT leaves the column alone, a PATCH
\* writes what it read.
Settled(w) ==
  [i \in DOMAIN w.upd |-> IF IsPatch(w) THEN [w.upd[i] EXCEPT !.debit = row[i].debit]
                          ELSE [cash |-> w.upd[i].cash]]

\* Only a dictionary of a PUT is not held to the customer of the path.
WriteBalances(h) ==
  \E who \in {Admin} \cup Sellers, C \in {Customers} \cup {{c} : c \in Customers} :
    \E w \in Writes(BalancesOf(who, Customers), BalanceBodies) :
      /\ IsPatch(w) \/ w.log # {} => DOMAIN w.upd \subseteq BalancesOf(who, C)
      /\ Begin(h, Rewritten(w, Settled(w), BalanceResponse))

\* A call is charged to the balance.
Charge(h) ==
  \E i \in {i \in Balances : Exists(i)}, n \in Amounts :
    Begin(h, [Blank EXCEPT !.upd = One(i, [cash |-> n])])

BalanceHandlers(h) == WriteBalances(h) \/ Charge(h)

-----------------------------------------------------------------------------
\* Invoice templates, one at a time

TemplatesOf(who) == {t \in Templates : Exists(t) /\ Sees(who, row[t].reseller)}

\* What is created is journaled under no template's id.
CreateTemplate(h) ==
  \E who \in {Admin} \cup Sellers, t \in Fresh(Templates), b \in TemplateBodies :
    /\ b.file # None
    /\ Sees(who, b.reseller)
    /\ Begin(h, Post(One(t, b)))

\* PUT finds the template whoever owns it, and keeps its file if none is sent.
TemplatePuts ==
  {Rewritten(w, [t \in DOMAIN w.upd |-> Given(w.upd[t])], TemplateResponse) :
     w \in Single(Puts({t \in Templates : Exists(t)}, TemplateBodies))}

TemplatePatches(who) ==
  {[w EXCEPT !.shows = TemplateResponse] :
     w \in Single(Patches(TemplatesOf(who), [reseller: Sellers]))}

WriteTemplates(h) ==
  \E who \in {Admin} \cup Sellers : \E w \in TemplatePuts \cup TemplatePatches(who) :
    /\ \A t \in w.log : Sees(who, w.upd[t].reseller)
    /\ Begin(h, w)

DeleteTemplates(h) ==
  \E who \in {Admin} \cup Sellers : \E D \in Batches(TemplatesOf(who)) : Begin(h, Delete(D))

TemplateHandlers(h) == CreateTemplate(h) \/ WriteTemplates(h) \/ DeleteTemplates(h)

-----------------------------------------------------------------------------
\* Voicemails, which asterisk records.  Everybody who may call reads them all.

Spooled == {i \in Voicemails : Exists(i)}

\* Another folder than the voicemail's, letters' case included, gets the path of
\* the mailbox; the same folder is written as it is given.
Moved(i, b, exact) ==
  IF b.folder = None THEN Nothing
  ELSE [folder |-> b.folder, bare |-> exact /\ b.folder = row[i].folder]

(* ngcp-vmnotify is called with what the transaction has written, for every *)
(* voicemail that moved; when it fails, nothing has moved.                  *)
WriteVoicemails(h) ==
  \E exact \in BOOLEAN :
    \E w \in Puts(Spooled, VoicemailBodies) \cup Patches(Spooled, [folder: Folders]) :
      Begin(h, Rewritten(w, [i \in DOMAIN w.upd |-> Moved(i, w.upd[i], exact)], VoicemailResponse))

\* What is not there is deleted, and journaled, like what is.
DeleteVoicemails(h) == \E D \in Batches(Voicemails) : Begin(h, Delete(D))

Record(h) ==
  \E i \in Fresh(Voicemails), f \in Folders : Begin(h, Post(One(i, [folder |-> f, bare |-> FALSE])))

VoicemailHandlers(h) == WriteVoicemails(h) \/ DeleteVoicemails(h) \/ Record(h)

-----------------------------------------------------------------------------
CustomerDataRow(i, r) ==
  /\ i \in SpeedDials => r \in SpeedDialRows
  /\ i \in Balances => r \in BalanceRows
  /\ i \in Templates => r \in TemplateRows
  /\ i \in Voicemails => r \in VoicemailRows
=============================================================================
