# A TLA+ model of ngcp-rest-api

ngcp-rest-api is version 2 of the REST API of the sipwise NGCP voice platform:
a NestJS service in TypeScript that runs as a cluster of Node.js workers, keeps
its data in MariaDB, its login counters and bans in Redis, and asks the other
daemons of the platform (proxies, application servers) to act over Redis
publish/subscribe and XML-RPC. All paths below are relative to the repository;
line numbers in the modules' comments are those of the file named beside them.

This directory holds TLA+ modules of its parts, TLC configurations that check
them on small instances, and proofs for TLAPS of what matters most for every
size. `PROJECT.json` maps every definition to the source lines it stands for.

To check a module: `tlc -config Cluster.cfg MCCluster`. To check proofs:
`tlapm ProcessProofs.tla`.

1. Inventory: the parts of the system
2. Plan
3. The modules and the code
4. What the runs check, bounds, fairness
5. What is proved
6. What was found
7. What is not modelled

## 1. Inventory

### What every request goes through

A worker is one Node.js process: its handlers interleave only where they
`await`, so an `await` ends an action everywhere in this project. Handlers of
several workers interleave at the same places, since all they share lives in
Redis and MariaDB. A request passes `StateMiddleware` (503 unless Redis and
MariaDB are available), guards (ban, authentication, password age, roles, read
only) and pipes that validate. `@Transactional()` (of `typeorm-transactional`) runs most
handlers in one MariaDB transaction (REPEATABLE READ: the snapshot is the one of the first
read). The handler (controller, service, repository) reads, checks, writes and
journals; after the commit, some of them send tasks to other daemons.

### Components

| Component | State it keeps | Operations | Interacts with |
|---|---|---|---|
| Login throttling and bans: `auth/auth.service.ts`, `guards/ban.guard.ts`, `api/bans/{admins,subscribers}` | Redis `login:fail::*` counters, `login:ban::*` keys, column `ban_increment_stage` | password check, ban, operator's list and DELETE | Redis, MariaDB |
| Task agent: `helpers/task-agent.helper.ts` | callbacks by channel, per call two counters, a result and an elapsed time | `invoke`, the `message` callback | agents on every node over lossy publish/subscribe |
| Bans of the SIP proxies: `api/bans/{ips,registrations}` | none of its own; the proxies' tables | list, DELETE of ids | two task agent calls per id |
| Worker cluster: `app-cluster.service.ts` | `workersOnline`, `started`, the pid file, systemd's view | `listening`, `disconnect`, `exit` events | workers, systemd |
| Service state: `app.service.ts`, `schedules/*state*` , `middleware/state.middleware.ts` | two flags, two Redis connections, the data source | two checks every 5 s | Redis, MariaDB, every request |
| Password change: `api/auth/password/change`, `admin-password-journal` | password, journal of the last ones | change, administrator's update | MariaDB |
| Administrators: `api/admins` | rows `admins` | create, update, adjust, delete | roles and their access lists |
| File share: `api/fileshare`, `schedules/fileshare.schedule.ts` | rows `fileshare_uploads` | upload, find, delete, cleanup | database flag of the service state |
| Customers and billing profiles: `api/customers`, `api/customercontacts` | rows `contracts`, `contacts`, the mapping schedule | create, update, terminate, contact update and delete | stored procedure that keeps the schedule |
| Rewrite rules, header manipulations, peerings: `api/rewrite-rules`, `api/header-manipulations`, `api/peerings` | configuration rows, `has_inbound_rules` of a peering group; the copy each proxy has loaded | create, update, delete of sets, rules, actions, conditions, groups, servers; `runOnTransactionCommit(reload)` | task agent, one task per reload |
| Contacts, contracts, resellers: `api/{contacts,customercontacts,systemcontacts,contracts,resellers}` | rows of three tables, three resources over one of them | POST, PUT, PATCH, DELETE, single and bulk | customers, journal |
| NCOS: `api/ncos-sets`, `api/ncos/{levels,patterns}` | sets, their levels, levels, patterns; preferences that name a set by value | the same, and levels of a set | preferences of contracts, subscribers, profiles, domains; journal |
| Phonebooks: `api/{resellers,customers,subscribers}/phonebook` | entries | the same, CSV import with `purge_existing` | journal |
| Customers' data: `api/customerspeeddials`, `api/customers/balances`, `api/voicemails`, `api/templates/invoices` | rows | the same, as far as each has them | `ngcp-vmnotify`, journal |
| Journals: `api/journals` | entries | `writeJournal` inside the handler's transaction; reading | every resource above |
| Domains, PBX, numbers, products, subscribers | rows that other programs write | reads; DELETE of a domain | - |
| Guards and roles: `guards/`, `decorators/auth.decorator.ts` | none | order of the guards, access by role | every request |
| Token and one-time password: `auth/jwt*`, `api/auth/otp` | `otp_secret` | login, enrol | admins |
| Entities, DTOs, pipes, search, interceptors, configuration, logging | none, or read once | conversion of one request | - |

### What is hard here

* **Interleaving at awaits.** The fail counter is read and written in two calls;
  limits of uploads are checked before the insert; the password journal is read,
  compared, extended, shortened in separate statements outside a transaction; a
  contact is checked to be free of customers and then deleted; the Redis checks
  overlap because a timer starts them whether or not the last one has ended.
* **Steps that fail half way.** A ban key is created and given its expiry in two
  calls; the stage is stored later still; a password is journalled before it is
  stored; an unawaited removal may throw and end its worker; a purge of a phonebook
  comes before the import that may fail.
* **Messages.** Answers of the nodes come in any order, late, or never; the number of
  nodes that will answer is unknown; a timeout races with a late answer.
* **Stale reads.** The actor's rights are read before its transaction; PATCH
  writes back every field it read; the package or contact a customer is given is
  the one that was read, not the one that is there; a journal entry shows what its
  handler read back before it committed; the rows of a batch are checked one by one,
  as if the others were not there.
* **Deaths.** Workers die and are not started again; the events of a death come in
  any order; connections do not reconnect by themselves.
* **Eventually.** Bans and uploads must end, calls must return, the API must come
  back after an outage and stop during one.

The hazards, each at its line with the properties that would catch it, are listed in
`PROJECT.json`.

### What makes each component correct

* *Bans*: a guesser gets a bounded number of guesses; a ban gets an expiry; what is
  banned can be seen and lifted by an operator.
* *Task agent*: a call returns once, with data of nodes that did run it, or
  nothing, or an error; it always returns; its callback is removed.
* *Proxy bans*: an id answered as deleted is gone, or will go, from the proxies that
  reported it; nothing is removed that no proxy reported; every DELETE is answered.
* *Cluster*: systemd is told READY when all workers serve, at most once, and
  STOPPING when none does; the count has no ghosts.
* *Service state*: the API serves if and only if everything it needs is there, in
  the end.
* *Passwords*: none of the last N passwords is taken again; the journal stays short.
* *Admins*: nobody acts, through any chain of accounts, beyond what some account
  could do at the start; nobody locks everybody out.
* *File share*: limits hold but for the requests in flight; nothing is lost before its
  time; everything expires.
* *Customers*: who is created with a profile always has one, of its contact's
  reseller, and of its package; its contact exists and is active.
* *Reload*: a committed change reaches every daemon; what was rolled back never does.
* *Rows and journals*: the last entry of a row's journal shows the row as it is; a PATCH
  changes only the field it names; resellers share neither contract nor name, but
  for one that a renaming makes; a preference names a set that is there and that it may
  name; an import with purge leaves in a book what the file says.

## 2. Plan

Order: what every request depends on first (throttle, task agent, process and service
state), then the components whose rules are the most intricate (passwords, admins,
customers), then the broad ones.

| Modules | Composed of | Abstract specification | Proved |
|---|---|---|---|
| `LoginBan`, `BansProofs` | - | - | every property of the run, types |
| `TaskCall`, `TaskAgent`, `ProcessProofs` | - | `TaskCall` | types, callbacks, counting, refinement, what callers get |
| `ProxyBans`, `BansProofs` | extends `TaskCall` | the calls are `TaskCall`s | types, what is removed, what DELETE leaves, `CallSpec` |
| `Cluster`, `ProcessProofs` | - | - | count, READY, STOPPING |
| `ServiceState`, `ProcessProofs` | - | - | types, what keeps the API down |
| `Admins`, `AdminsProofs` | - | - | types, confinement, no lock-out, patches |
| `Fileshare`, `FileshareProofs` | the database flag of `ServiceState` | - | types, limits, deletes |
| `Customers`, `CustomersProofs` | - | - | every property of the run, types |
| `Passwords`, `PasswordsProofs` | - | - | every property of the run, types |
| `Reload`; `RewriteRules`, `HeaderManipulations`, `Peerings` over it; `ConfigReload`, `ConfigReloadProofs` | `ConfigReload` composes the three | - | every property of the run, types |
| `Store`; `Accounts`, `Ncos`, `Phonebooks`, `CustomerData` over it; `Resources`, `ResourcesProofs` | `Resources` composes the four | - | every property of the run |

Every invariant and every action property that a run checks is a theorem; what is left to
TLC is liveness. The types of a module are checked by its run or proved, or both.

Every module a theorem is about is free of RECURSIVE operators; parameters are
constants with named assumptions; there is one action per operation or per step
between two awaits. Modules of one kind share a run, as those of `ConfigReload` and of
`Resources` do: a behaviour has the requests of one resource, since they have no rows in
common.

## 3. The modules and the code

Every module has its state as variables, an action per step between two awaits,
and at its end its properties. Definitions marked `Mutant:` are plausible bugs
in the definition that follows; no behaviour uses them, and each property is
broken by one of them.

### LoginBan
`attempts`, `failTtl`: the Redis hash `login:fail::...` and its expiry;
`banned`, `banTtl`: the key `login:ban::...`, whose TTL of 0 stands for "none
yet"; `stage`: `ban_increment_stage`. A request (`pc`, `key`, `seen`) goes through
`Admit` (BanGuard), `Validate` (bcrypt or MD5 comparison), `ReadAttempts`,
`CountAttempt` (the MULTI of `banIncrement...`), then if the limit is reached
`LookupStage`, `SetBan`, `ExpireBan`, `DeleteFailKey`, `StoreStage`; after a good
password `ClearAttempts` and `ResetStage`. `Op*` are the operator's DELETE.
`Abort` ends a request at any await. History: `stuck` (cut between HSET and EXPIRE),
`excused` (hidden by an abort or by a later reset), `window` (failures a
counter was given). `GuessBound` counts the ways in which the requests can hold the values a
counter takes before it bans (`Multisets`). A subscriber's stage is written for every row of that user
name (`SameName`), whatever its domain, as the code does.
Kept out: `ban_enable` off (every function then returns at once); token logins,
whose names the guard does not extract. The findKeys limit of 100 is the constant
`ScanLimit`; exactly which keys SCAN yields is a choice.

### TaskCall, TaskAgent
`TaskCall` is what a caller relies on: `Open`, `Run` (a node runs the task),
`Close` once with `Undefined`, `Failed` or a set of nodes that ran it.
`TaskAgent` is `invoke` with the callback of each message: `Invoke`, `Subscribe`
(and the callback is stored), `Publish`, a poll every tick (`PollTimeout`,
`PollCompleted`, `PollExpired`), `Unsubscribe`; `Deliver`, `Lose`, `AgentAccepts`,
`AgentFinishes` are Redis and the agents, which are external. `subs` are the stored
callbacks, `accepted`, `completed` the two counters, `elapsed` the ticks waited. A
tick stands for the 100 ms sleep, with the limits 2 s, 10 s and 30 s as
`InitialTimeout`, `MaxTimeout`, `ExceptionTimeout`. `Poll*` may lag behind `Tick`,
which is how a stall of the event loop is modelled.

### ProxyBans
Extends `TaskCall`: `Delete`, `NextId`, `AfterDump` are the DELETE handler over its
ids, a set: the code asks again about an id that is repeated, with calls of their own,
which is left out. Each id needs a call "dump" and, if some proxy reported it, a call
"delete" that nobody awaits (`asyncLib.some` without await). `ProxyRuns`, `ProxyBans`,
`BanExpires` are the proxies; `TaskEnds` ends a call with any value the abstract
specification allows, and a removal that fails ends the worker (`alive`).
`TaskAgent` is shown to implement `TaskCall`, so this composition holds for the helper.

### Cluster
`life` and `events` are the workers and the events on their way to the primary;
`workersOnline`, `started`, `pidfile`, `status` are its state. `OnListening`, `OnExit`,
`OnDisconnect` are the three event handlers, run to completion. `unheard` (history):
workers whose disconnect came before READY.

### ServiceState
`redisAvailable`, `dbAvailable` are the flags of `AppService`; `connections` the state of
each of two ioredis connections, `isInitialized` the data source. A check is `StartCheck`,
then `Ping*` or `Connect*` per connection; `Check` are slots for checks that
overlap. `Restore`, `Drop` are the servers. `Serving` is the middleware's test.

### Passwords
`current`, `journal`, `nextId` are the row and the journal; a handler of kind "change"
takes effect statement by statement, one of kind "update" at its commit, working on
`view`, the snapshot. `used` and `overlap`, `cut` are history. bcrypt is equality of model
values.

### Admins
`admins` are the rows; a handler is `Authenticate` (the actor's row is copied to `user`),
then `Create`, `UpdateMany`, `Adjust` (PATCH) or `Delete`, which check and decide, then
`Write`, the commit. `Access` (which role may manage which) is data of the
deployment; the instance takes it from `acl-role.mock.repository.ts`. The column
`reseller_id` may be NULL (`NoReseller`): `Populated` then fills in the actor's, whoever he
is (`admin.service.ts:220`); `Updated` is what an UPDATE leaves where NULL columns are not
written; and an actor of role reseller whose own is NULL is not filtered at all (`Visible`,
`Rules`).

### Fileshare
`uploads` are the rows by slot; `Post`, `CheckLimits`, `Insert`; `Delete`, `Find`,
`Remove`; `Cleanup` is the timer, `available` the database flag. `SumPlus` is what the
code computes from SUM(): the driver returns a string, to which the size is appended.

### Customers
`contact`, `customer` are rows, `begun` and `later` the schedule of mappings that the
stored procedure keeps; a request reads and checks (`Create`, `Update`, `Terminate`,
`DropContact`) and later commits. `UpdateContact` is the contact's PUT/PATCH;
`MappingBegins` and `MappingEnds` are time. `excuse` (history) records the named
ways out of the invariants. External: `schedule_contract_billing_profile_network`
and the view `v_actual_billing_profiles`, modelled by how the service uses them; the
foreign key `contracts.contact_id` is taken as RESTRICT.

### Store, Accounts, Ncos, Phonebooks, CustomerData, Resources
`Store` is what the resources that are nothing but rows have in common. `row` holds the
rows of all tables by id (ids of different tables are different model values), `req` the
requests, `told` the last journal entry of each row. A handler is one transaction and two
steps: `Begin` is everything it reads and checks and leaves in `req` what it has decided to do:
rows to add, to update and to delete, rows it journals, the fields its answer shows of them.
`Commit` writes, cascades, checks the foreign keys and journals; `Rollback` does nothing.
History: `untold` (rows that changed with a request that journals nothing: POST, the
dictionaries of bulk PUT and PATCH; or whose entry is `Outdated`: an UPDATE that finds the
row gone, or as it wants it, makes no version of it, and the read-back is of the snapshot),
`late` (requests overtaken between the two steps: others wrote rows they rely on), `odd` (rows
written or relied on by a late request, by a batch, whose rows are not checked against one
another, or by a POST of a name that several had).
The other modules have one definition per service method: what a caller may read
(`...Contacts(who)`, `Sees`), what a body may say, what is checked, what is written.
Facts of the code that these definitions carry:
* POST of `/contacts` inserts into the table of administrators and fails; the PUT of
  `/contacts` may turn a system contact into a customer contact, as nothing calls
  `ContactService.validateUpdate` (`contact.service.ts:118-126`).
* A contract's PATCH without a type gets the first product; the answer of a contract does not
  show its type.
* `hasAccessToLevels` answers false to every reseller; the update of levels checks the time
  sets the levels had, not those they get.
* The owner an update gives a phonebook's entry is not checked. An import first empties the
  books that its file names, if the request says so.
* A reseller's reads of speed dials fail on the alias of a join; an update checks only the
  customer that is new. A balance's debit is never written (`fromInternal` leaves it out), a
  bulk PUT of balances ignores the customer of the path. The PUT of an invoice template
  finds the template of any reseller. A voicemail moved to the folder it is in is stored
  with the name instead of the path (`bare`); the DELETE of a voicemail that is not there
  is journaled; a failing `ngcp-vmnotify` undoes the move.
* Parameters that an override leaves undecorated take the decorators of `CrudController`.
The name of a resource in the journal is the first segment of its path only, so that the
journals of nested resources mix; here the entries of different tables are told apart.
Reads change nothing; whom they show what is in the sets from which the handlers that
write take their rows.

### Reload, RewriteRules, HeaderManipulations, Peerings, ConfigReload
`Reload` is what the three have in common. `row` holds the rows of all tables, each a
record with its `parent`; `req` the requests; `stale` the pairs of a proxy and a scope
(the dialplan, a set of header rules, lcr, dispatcher) whose loaded copy is out of date.
A handler is three steps. `Begin` is everything from its first read to its last await
but the commit's: what it will add, update and delete, and in `due` the scopes for which
it registered a reload. `Commit` writes, cascades, and leaves the hooks
(`runOnTransactionCommit`); `Rollback` drops both. `Load` is a hook whose task reached a
proxy, `Miss` one whose task did not. `gap` and `late` are history: scopes a handler
changes without asking for a reload, and a commit of another request to rows it depends
on, between its `Begin` and its `Commit`. An update that changes only the address of a server
the dispatcher knows is such a gap (`OnlyMoved`: `requiresDispatcherReloadOnUpdate` compares
`enabled`, `probe` and `transport`).
`RewriteRules`, `HeaderManipulations` and `Peerings` have one definition per service
method, named after it; `...Touched` says in which scopes a proxy sees a difference.
`Peerings` adds the column `has_inbound_rules`, which the inbound rules' service keeps
by hand in statements nobody awaits (`done` is whether they ran before the end of the
transaction); `odd` (history) are groups whose flag went wrong for a named reason.
Taken from outside: the schema's foreign keys cascade from a set or group to what is in
it; lcr loads groups with an enabled or probed server; the dispatcher loads servers that
are enabled and probed, by address and transport. A set keeps its reseller (`Owner`). Where
PATCH writes what PUT writes, they are one action. The rows of one bulk request get one
body.

## 4. What the runs check

| Run | Instance | Distinct states | Shows |
|---|---|---|---|
| `loginban` | an admin at 2 addresses and a login without a row, or one name in 2 domains; 2 attempts, 2 requests, 1 operator, SCAN limit 1 | 618 557 | every ban has an expiry or is about to, and shows in the bans API but for named exceptions; how many guesses the read-then-write counter lets through (`GuessesBounded`) |
| `task_agent` | 1 call, 3 nodes, timeouts of 1, 2, 3 ticks | 199 009 | callbacks are removed, two counters are as good as a map, and the helper implements `TaskCall` with its liveness |
| `proxy_bans` | 1 DELETE, 1 ban, 3 proxies | 240 984 | what the answer 200 means while the removal runs; only what was reported is removed; answers |
| `cluster` | 3 workers | 2 116 | the count, READY, STOPPING and the pid file under every order of events |
| `service_state` | 2 overlapping Redis checks, 1 database check | 6 256 | what keeps the API down does not outlast its cause; the API comes back, and stops, in the end; no deadlock |
| `passwords` | 3 passwords, 2 handlers, journal of 2, 5 ids | 61 968 | what the check against the last passwords is worth |
| `admins` | 3 ids, 2 resellers or NULL, 2 roles, 2 handlers (`Bounded`: with an administrator who rules all, 2 accounts and one request at a time) | 381 570 | confinement, no lock-out, patches |
| `fileshare` | 3 slots, 2 handlers, limit of 1 file | 215 736 | limits, who deletes what, expiry |
| `customers` | 1 customer, 2 contacts (one edited), 2 resellers, 2 profiles, 1 package, 2 requests, schedule of 2 | 778 422 | who is charged by what; contacts |
| `customers_default` | the same | violation | see "What was found" |
| `config_reload` | 2 requests, 2 sets or groups, 2 rules, 2 actions or 1 condition, 1 server (5 bodies), 1 proxy; one kind of resource per behaviour | 644 692 | what a proxy has loaded is out of date only while a reload is owed or for a named reason; the inbound flag |
| `resources` | 2 overlapping requests, 2 or 3 in a row, batches of 2, 2 rows of most tables, 3 resellers; one of 16 resources per behaviour | 157 223 | what the journal says of a row, which checks across rows hold, what a PATCH and an import leave alone |

### Bounds and why they are enough
* *Two requests* reach every race between a pair of steps; the properties quantify
  over pairs (a reader and a writer of one row), so a third request repeats a role. The
  guess bound does depend on the number of requests: `GuessBound` is one less than
  the ways in which N requests can hold back their writes, which `MCLoginBan` compares with the
  binomial number for up to four requests and four attempts; it was also run with three
  requests and three attempts for one account, where it is reached. What is proved holds for
  any number.
* `StageBound`, `ScheduleBound`, `MaxId`: caps of a counter in a guard (stages
  over which the ban time no longer grows, mappings kept, ids of the journal). The first
  reaches `MaxTime`; two mappings are what "ends" and "begins" need to swap; five
  ids let the journal turn over twice.
* *One call* of the task agent: calls share the map of callbacks only, keyed by a
  channel that is new for each call. The proofs are for any set of calls.
* *Three nodes or proxies*: one that answers, one that is late, one that is
  silent. *Three workers*: one that died unheard, one disconnecting, one listening.
* *One customer*: customers are related only by their contact, whose deletion asks
  for any customer. A contact that has another reseller stands for all of them.
* *Two roles* in `admins`: one ruled by a reseller, one not; `system` differs from
  these by not needing to be master. The behaviours with a master administrator from the
  start are there for the PATCH of an account whose reseller is NULL, which needs an actor
  with another; they are bounded to two accounts and one request at a time, since
  everybody else's powers, and what overlapping requests do, show without him.
* *Two sets or groups, two rules, one server* in `config_reload`: a rule that moves
  needs a second set, a set that empties or a flag that is counted again a second rule, bulk
  PUT of actions a second id. The five bodies of a server are: off, probed only, on, on with
  another transport, on with another address. `BatchBound` is 1, rows per bulk request; with
  2 the run also passes (1 218 693 states). Proxies do not affect each other and no property
  relates two, so one is enough.
* *`RequestBound`* in `resources` is 3 for customer contacts, system contacts and
  resellers' phonebooks, 2 for the others: an update overlapped by two others, or one after a
  create, is what their properties need; the others' rows are there from the start
  (`First`). Resellers begin with one that is active, or with a terminated one and another
  that has the name `old_...` the first would get. A bulk PUT gives its rows one body.
  `BatchBound` 2: a batch against itself. Three entries of phonebooks are two in the book and one imported.
* *Symmetry* is used over requests, handlers, passwords, entries and numbers only in runs
  that check no liveness property. Initial states need not be closed under it: Next and
  the properties are, and that is what exploring one state of each class needs.
* *Deadlock*: `service_state` checks for it; the others may stop (a cluster whose workers
  are dead, requests that are bounded).

### Fairness and why the code justifies it
* `TaskAgent`: Redis answers or fails, timers fire, time passes. Agents and messages owe
  nothing, so `CallerFairSpec` (every call ends) holds with all of them silent.
* `ProxyBans`: handlers run on and every task ends: the second is what `CallerFairSpec`
  shows. The proxies owe nothing.
* `Cluster`: events are delivered and handled; workers need neither come up nor die.
* `ServiceState`: timers fire; Redis and MariaDB answer or fail. Nothing is assumed of
  the servers: that they stay up is the premise of `Recovers`.
* `Fileshare`: time passes, outages end, and the interval timer finds the database
  available again and again (strong fairness: the timer runs every 5 s, the flag
  may flicker in between).
* `LoginBan`, `Passwords`, `Admins`, `Customers`, `ConfigReload`, `Resources`: none, they have
  no liveness property. That a ban ends is what `BanHasExpiry` leaves to Redis.
  A reload whose task is lost is not sent again, so that a change reaches the proxies is
  not promised.

## 5. What is proved

All theorems hold for every value of the constants under the ASSUMEs of the
modules (finite sets of workers, nodes, requests; ordered limits; a value that
names nothing). Each rests on an inductive invariant, `IInv`, of which initial
states and steps are proved separately, one lemma per action, and PTL at the end.

* **BansProofs**, the logins (`TypeCorrect`, `ExpiryCorrect`, `VisibilityCorrect`):
  `TypeOK` with the two invariants alone is not inductive: a handler that stores a
  stage makes its ban visible only if the account has a row to store it in, so
  `BanningKnown` adds that a handler past the lookup is of an account with a row.
  `BanTimeRange` (a ban lasts at least 1 and at most `ban_max_time`, whatever the
  stage) is the lemma types and expiry rest on: EXPIRE with 0 would delete the key.
* **BansProofs**, the guesses (`GuessesCorrect`, `GuessesInTurn`): the requests in flight hold
  values of a counter that they have read and will write back, plus one; so a late write
  takes the counter back, and the number of failures that are recorded is bounded by
  neither the counter nor the limit. What bounds it is a rank. To each state belongs a
  multiset (`Tally`): for each request the value it is about to write, or the counter for the
  others. A recorded failure takes one of the lowest of these values up, or more of them, which is
  a step forward in a strict order on multisets (`Before`, `CountAdvances`); other steps take
  none back. So the failures recorded so far are at most the multisets that were passed
  (`WindowRanked` says `window[k] <= Cardinality(Passed(...))`), all but one of those there are. It
  says this of *every* subset of the requests that are about to write, since an
  `Abort` drops a write that was pending. With a single request the multisets are the values
  of the counter, which gives `max_attempts - 1`.
* **ProcessProofs**, the task agent (`TypeCorrect`, `CallbacksRemoved`, `CountingSuffices`,
  `Refinement`): what ties two counters to the nodes is (a) `Queues`: what an agent has
  sent and is not delivered is an end of "accepted, finish"; (b) `Counted`: for
  polling calls that lost no message, `accepted` and `completed` are the
  cardinalities of the nodes heard of and heard out. `HeardOut` is a subset of `Heard`,
  so equal cardinalities of finite sets mean equal sets, which is `CountsSuffice`. The
  other conjuncts (`Fresh`, `ResultRan`, `ValuePending`, `Subscribed`) make the
  refinement: a step maps to `Open`, `Run`, `Close`, or a stutter of `TaskCall`.
  `CallersServed` then follows from the abstract call alone: data is of nodes that ran the
  task, and a value that is there is final. This is all `ProxyBans` uses of the helper.
* **ProcessProofs**, the cluster (`CountCorrect`, `ReadyCorrect`, `ReadyAtMostOnce`,
  `LastExitReports`):
  `CountBounded` (the count is at most the number of workers that listened and whose exit
  is not handled), `Announced` (after READY or STOPPING every worker has been heard
  listening or one is gone for good), `DisconnectsHandled` and `EventsFollow`
  (events only of what happened). `LastExitReports` is the same bound at its
  end: after the last exit nobody is left to be counted, so the count is 0 and the handler
  reports; no event that comes later undoes it.
* **BansProofs**, the proxies (`ProxyTypes`, `RemovalsReported`, `DeletedBans`,
  `CallsRefine`): that a removal follows a report holds at the moment it is sent; to
  stay true it needs `DataRan`, which says that a call's value names only proxies that ran its task: what these have dumped no longer
  changes, since a proxy runs a task once (`ProxyRunsInv`). `Waits` says that a request
  that waits for a dump knows of which ban. `DeletedBans` looks at a request that has
  answered; `SeenGone` says the same of every id whose dump a request has behind it, and of
  the dump's value that it is final by then. `CallsRefine` shows that each step makes,
  runs or ends one call as `TaskCall` allows, or leaves the calls alone:
  with `Refinement` this joins the handlers to the helper.
* **ProcessProofs**, the service state (`ServiceTypes`, `DownForReason`), for any
  number of overlapping checks: the flag is down only if a live connection once refused a PING
  or a connection is not ready now, and a connection is connecting only while a check awaits it. A drop
  changes the connection in one step and the check that awaits it in the next: `CutClosed` says
  that in between the connection is already closed.
* **FileshareProofs** (`TypeCorrect`, `LimitCorrect`, `DeletesCorrect`): the number of an owner's
  files alone is not inductive, since a request past the check will add one whatever others
  did. `Counted` bounds files and requests past the check together, by the limit and the
  requests but one: the request that is last to pass saw all files but those still to
  come. It needs `OwnersSee` (an owner is always counted what is his), that quotas,
  slots and handlers are finite, and `Received` (what will be inserted is an upload).
  `DeletesCorrect` follows from what a request was found to see, at the step that removes.
* **AdminsProofs** (`TypeCorrect`, `ConfinedCorrect`, `LockOutAvoided`, `PatchCorrect`): that nothing
  changes beyond what the start allows needs that nobody *could* change more: `Powers` says
  that every row there is, every copy of an actor a request works with and every row about
  to be written confers nothing that no account of the start conferred. A row an actor
  makes has a role he has access to, and `HierarchyAssumption` (access is transitive, and
  a reseller has none to those no reseller limits, as in the role tables) makes what this row
  may do something he might. `UpToDate` says that while nobody else has written, what a
  request checked still holds, so that its write keeps its own actor, or leaves a ruler
  of whoever it removes; this gives no lock-out and the patches (`UpdatedRow`: columns a
  body leaves NULL are not written; a NULL reseller becomes the actor's).
* **CustomersProofs** (`TypeCorrect`, `ChargedCorrect`, `ResellersCorrect`, `PackagesCorrect`,
  `ContactsCorrect`): the lemmas `AddedMapping`, `EndedMapping` and `ScheduleKeeps` say what
  the schedule makes of a customer's mappings. `Anchored` strengthens `Charged`: the *oldest*
  mapping begun has no end, so that no end of an interval takes the last one. `PackageAlone`
  strengthens `PackageCharged` to customers nothing charges yet, whose schedule is then empty.
  `Known` says that a customer some request is about exists, that a contact was active when it
  was read, and that who is not there has no schedule. `NoRowAssumption` only says that
  `None` is no row.

* **PasswordsProofs** (`TypeCorrect`, `ShortJournal`, `TellsCurrent`, `NeverReused`), in three
  layers. *Types*: `RoomLeft` (ids left for those who will insert), and that `keepFrom` is the id
  of a row of the handler's snapshot. *Length*: that the journal is short is not inductive,
  since what a DELETE removes was computed from what its handler read before. `Trims` puts the
  handlers about to delete in the order of their last ids to keep: each leaves at least
  the newest `KeepLast` rows, and at most one more for each that deletes more, or has yet to
  read the ids. `Snapshots` and `SnapshotKeeps` say what an update that nothing overlaps
  still knows of the rows. *Content*: `Told` says that the newest rows have the last
  passwords in effect, or will have with a handler that has inserted its row, and that a
  handler past the comparison brings none of them, unless a change was cut off or two
  overlapped. The lemmas on rows (`From`, `Newer`) rest on `Extremes`: a finite set of ids
  has a least and a greatest, by the well-foundedness of inclusion.
* **ConfigReloadProofs** (`TypesHold`, `ChangesReach`, `FlagsTell`): a handler decides what to
  reload from what it has read; `Reloaded` speaks of what its commit then touches. `Covers` is
  what ties them: a commit *now* would touch only scopes the request has registered or its
  module has named (for peerings: or it is about groups that are new or have no server that
  counts; for inbound rules: and it would leave right flags right). One lemma per handler
  (`...Begun`) shows that it holds when the handler has read; that it goes on holding is a
  frame argument (`SameCovers`): a commit that does not make the request late has written to no
  row the request depends on, before or after, so the request would write the same rows in
  the same way. Late ones are excused by the property. `Shape` says in which table the parent
  of a row is, so that cascades end after two levels; a commit may rely on the foreign keys.

* **ResourcesProofs** (`TypesHold`, `JournalsTell`, `ResellersKeptApart`, `PreferencesKeptLive`,
  `PatchesKeep`, `ImportsReplace`): the argument is made once for the four modules over
  `Store`. `Good` is what a handler has to see to before it begins, one lemma for each of the
  handlers (`...Begins`); `Begun`, `Committed` and `RolledBack` show that this is enough. Of a
  request in progress `Sound`, `Kinds` and `Reads` hold whatever others commit: what it inserts
  or updates fits the table of the row (`Keeps`: any row that fits still does when its columns
  are written), what it updates and journals it does not remove, what changes sets or
  resellers has read all the rows it must be compared with. `Sure` holds as long as nobody has
  overtaken it: a PATCH brings the other columns as they are (`Echo`), the resellers it leaves
  are apart (`StaysApart`), the preferences it adds or leaves are live (`AddsLive`,
  `LeavesLive`). `SureStays` is the frame argument: a commit that does not make a request late
  wrote no row that its `Sure` looks at. What a commit removes beyond its own deletes is found
  from the tables (`CascadesTo`: only links and patterns hang on another row; `OwnedEntries`:
  only entries are purged). That an import replaces books holds of late requests too.

**Only model-checked**: every liveness property (`CallerFairSpec`, `Answered`, `DeathReported`,
`Recovers`, `OutageSeen`, `UploadEnds`), and that the number of multisets in `GuessBound` is a
binomial number, which is an induction over the requests. Liveness under fairness, ENABLED,
and induction over data are beyond the prover.

The assumptions, and why the code justifies them: there are finitely many workers, requests,
nodes and files (`BoundAssumption`, `RequestAssumption`, ...); limits are ordered as the configuration requires;
`None` is no row, no id and no request; the tables of one resource have ids of their own, so
that `RewriteAssumption`, `HmAssumption`, `PeeringAssumption` and `TablesAssumption` may tell a
row's table from its id; a behaviour of `Resources` begins with rows that fit their tables, name rows that
exist, and are apart and live (`FirstAssumption`); what is reloaded (`Scopes`) includes what these
handlers reload.

## 6. What was found

One run finds a statement of the repository violated by the code:

* `customers_default`: a customer created with `billing_profile_id` and without
  `billing_profile_definition`, which the API documents as the default, gets no
  mapping. It cannot be read, and listing all customers fails.

Observations made while modelling (modelled as they are, and the properties
name them as exceptions, where a state can show them):

* *Bans*: a success from one address resets the stage while a ban from another is
  in force, which hides that ban; a subscriber's ban whose stage is 0 can be neither
  listed nor lifted. More than 100 keys are lifted in part. The pattern that filters
  by customer ends in ":", which the keys lack. A list of subscribers' bans for no banned
  ids lists every row with a stage above 0.
* *Task agent*: a call completes early when one node finishes before the second
  accepts. A failed publish or unsubscribe, or a stall beyond 30 s, leaves the callback.
  On a timeout `undefined` reaches callers that expect a list (500).
* *Proxy bans*: an exception in the unawaited removal is an unhandled rejection, which
  ends the worker; nothing forks a new one.
* *Cluster*: one disconnect makes the primary report STOPPING while others serve; a
  worker that dies before it listened takes another one off the count.
* *Service state*: an error that a live connection answers to PING clears the flag until the
  next reconnect; one flag stands for two connections; the flag is true for up to 5 s
  at the start.
* *Passwords*: a change runs outside any transaction. Accounts not created by this API
  have no journalled initial password. A subscriber's change looks up another table by
  the billing id.
* *Admins*: PATCH writes back all fields; a PATCH or PUT of an account whose reseller is NULL
  gives it the actor's, whatever it is about, so a reseller's account that saw all is
  limited from then on (`admin.service.ts:220`); a reseller's account whose own reseller is NULL
  sees those of all. Two masters may delete each other. A comment
  (`admin.service.ts:226`) promises that other admins' passwords cannot be changed; the
  code does not do this. PUT of one admin assigns to its body and updates nothing.
* *File share*: `fileshare.service.ts:90` appends the digits of the file's size to the
  string that SUM() yields, so a second file that fits the quota is refused with "Quota
  exceeded"; reading by id ignores the owner and the expiry; the cleanup stops while
  the database flag is down; expired uploads count until then.
* *Customers*: a read by id drops the filters set before it; a customer without a profile
  in force cannot be read or listed. Setting a profile leaves the package named; a
  later return to that package adds no mapping. A contact's PATCH may change its status
  or reseller without asking its customers. The DELETE of a contact with terminated
  customers always rolls back.
* *Rewrite rules*: PUT of a set without rules empties it and asks for no reload.
  An update checks the reseller of the set a rule was in, not of the one it goes to.
* *Header manipulations*: a rule or element that moves invalidates the set it leaves, not
  the one it enters. Deleting rules invalidates their sets only if a subscriber's own
  set became empty.
* *Peerings*: PUT and PATCH of a group ask for no reload, and PATCH writes its inbound flag
  back as it was read. An inbound rule that changes groups leaves both flags as they are. A
  server that changes nothing but its address (ip, port, host) does not reload the dispatcher,
  though it is enabled and probed: the proxies keep the old one until another reload.
* *Resellers*: anybody may be called `old_2_x`; when a POST then takes the name `x` of the
  terminated reseller 2, `renameReseller` gives it that name too, without looking.
* *Resources*: see the list under `Store` in section 3.
* *Reloads*: one that fails after the commit is neither repeated nor reported; its rejection
  has no handler.

## 7. What is not modelled

`PROJECT.json` lists each component with its status. Left out, and why:
* *Guards and roles, tokens, one-time passwords*: each decides about one request from its
  user and keeps no state. The guard that reads shared state (bans) is in `LoginBan`, and
  who may call a handler is in that handler's model. `handleTwoFactorAuth`, which would
  write, has no caller.
* *Domains*: a POST succeeds only when the domain was there before (`readByDomain` converts
  null); what is left is one DELETE of two rows in one transaction.
* *PBX, numbers, products, subscribers*: reads of what other programs write.
* *Entities, DTOs, pipes, validators, search, expansion, interceptors, configuration,
  licence, localisation, bootstrap*: conversions of one request without state, read once at
  the start, or output only.
* *MariaDB, Redis, the agents*: external, modelled by how this code uses them.

Within the modelled parts: the networks of customers' mappings, mappings
whose interval is over when they are stored, one-time passwords and plain fields of
admins, patterns, priorities and names of rules, the values of conditions, contracts of
peering groups and sites of servers, the bytes of uploads and the total quota's size from
`information_schema` (a choice, `Fail`), texts and names, the `include` views of phonebooks
and their export, a reseller's email templates, reading journals, contents of answers where
the journal does not repeat them.
