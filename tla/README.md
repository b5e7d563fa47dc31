# A verification development for inx-api-core-v1

inx-api-core-v1 serves the REST API of the legacy IOTA network (Chrysalis)
from the databases a legacy node has left behind. This directory holds TLA+
modules of its behaviour, TLC configurations that check them on small
instances, and proofs checked by TLAPS.

## 1. The system

The process opens two RocksDB stores: the *tangle* (messages, metadata,
milestones, children, indexation, snapshot) and the *utxo* store (outputs,
unspent and spent outputs, balances, milestone diffs, treasury, receipts).
A legacy node wrote them. The service writes one thing of its own, a lookup
table from addresses to conflicting transactions, at most once per start.

| Part | State | Operations | Interacts with |
|---|---|---|---|
| Opening, `pkg/database` `New` | handles, lookup table with its status key | open, health and network checks, status check, rebuild, reopen, close | daemon context, both stores |
| Lookup rebuild, `conflicting_transactions.go` | scan position, table | delete prefix, scan metadata, set entries, set status, flush | metadata, messages and outputs |
| Transaction history, `pkg/server/transactions.go` | 2Q cache of slices | get, collect, sort, add, cap, sort for CSV, render | lookup table, utxo manager, concurrent requests |
| List endpoints, `pkg/server`, `children.go`, `indexation.go` | limit, count of each iteration | iterate until the callback says stop | stores |
| UTXO manager, `pkg/utxo` | none but one once-only value | joins of tables, dust allowance | utxo store |
| Once-only values, `LatestSyncState`, `ReadLedgerIndex` | two values, two locks | `sync.Once`, one inside the other, with panics | both stores, `New`, concurrent requests |
| REST server, `components/coreapi` | listener, running requests | listen, shut down with a timeout | everything above |
| INX, `components/inx` | connection, registered route | connect, register, unregister, drop | the node, the daemon |
| Prometheus, `components/prometheus` | a server | start, stop | daemon |
| Daemon (hive.go, external) | priorities | start workers, stop them by priority | all workers |
| Parsing, routes, identifiers | none | conversions | requests |

What is hard here: `New` has many early returns between two modes of opening,
and its only durable result is trusted because of a single key; the process may
die or be told to stop at every step; every history request shares the array of
its slice with the cache and with other requests; the answers join tables that
a pruning node empties in its own order; two values are computed once, by
whichever handler comes first, in functions that may panic; the shutdown order
of five workers is spread over as many files. The properties of each part:

- *Opening and rebuild*: a table with a status key is sound for that ledger
  index whatever a crash leaves; what is served is exact; no database is opened
  twice; a sound node is served in the end.
- *History*: the cache holds whole histories; answers have the promised order
  and length, and list the newest items although they share their arrays.
- *Lists*: in order, not longer than the limit, of the type that was asked for,
  and a short page is a whole one.
- *Queries*: history, balance, dust, diffs, spenders, treasury, inclusion states
  and milestones agree in all states a pruning node leaves.
- *Once-only values*: answers agree on one ledger index, node information is
  true or not given, no handler waits for ever.
- *Shutdown*: nothing reads a closed store unless the API gave up waiting, the
  route goes before the listener, the connection goes last, the process ends.

## 2. The modules

| Module | Models |
|---|---|
| `LookupTable` | `database.New`, the rebuild, the close worker, faults and restarts |
| `LookupTableProperties` | its properties, and its inductive invariant |
| `TablePublication` | the abstract promise: tables are published whole |
| `LookupTableProofs` | theorems about `LookupTable`, proved by TLAPS |
| `TxHistory` | the history endpoint: cache, shared slices, two orders, two formats |
| `TxHistoryInvariant` | what holds of its shared arrays at every step |
| `TxHistoryProofs` | theorems about `TxHistory` |
| `Paging` | limits, type filter and iterations of all list endpoints |
| `PagingProofs` | theorems about `Paging` |
| `LegacyLedger` | external: the tables as the legacy node writes and prunes them |
| `LedgerQueries` | the queries over these tables (extends `LegacyLedger`) |
| `LedgerInvariant` | what holds of the tables at every step: their inductive invariants |
| `LedgerProofs` | the tables: `TablesInv` is invariant |
| `BalanceProofs` | sums over finite sets, and the balances: `AccountsInv` is invariant |
| `LedgerQueriesProofs` | theorems about `LedgerQueries` |
| `OnceValues` | the ledger index and the sync state under concurrent handlers |
| `OnceValuesProofs` | theorems about `OnceValues` |
| `Lifecycle` | the workers, requests, route, connection and the daemon |
| `LifecycleProofs` | theorems about `Lifecycle` |
| `MC...` | instances for TLC |

**LookupTable.** `pc` is the place in `New`: `openRO`, `check`, and for a stale
table `closeRO`, `openRW`, `delete`, `scan`/`entries`, `status`, `flush`,
`closeRW`, `reopen`; then `serving`, or `failed`. `table` is what the store
returns, `images` the contents a crash may leave: the writes since the last
flush, in order. A tangle is a sequence of metadata rows for each ledger index;
a row keeps what the rebuild branches on (can it be decoded, does it conflict,
which payload) and the owners of the inputs and outputs, where an owner may be
*pruned* (the row is not found) or *unsupported*. Each row and each party of a
row is a step of its own, with the error paths of the code. `lossy` is a history
variable: this rebuild was cut short by the context or took a failed read for a
pruned input. The code has no such flag; properties use it to say precisely when
a table may be incomplete. Outside the process, `LegacyNodeRuns` advances the
ledger, damages or repairs a store or changes the network.

Actions and code: `Open`, `OpenFails`, `CloseDatabases`, `CloseFails` are
`initDatabase` and `CloseDatabases` with their early returns;
`CheckStatus` is `checkConflictingTransactionsMessageIDsStatus`; `DeleteTable`
to `FlushTable` are `createConflictingTransactionsMessageIDsLookupTable`;
`GiveUp` is the error path of `New` that closes the stores,
`LedgerIndexUnreadable` the panic of `ReadLedgerIndex`, `MessageUndecodable` and
`MessageUnreadable` the panics of `message.go` in the middle of a scan, `Stop`
the close worker. A panic leaves the stores open and ends the process; what the
half table then looks like after a restart is part of the properties.

**TxHistory.** A slice is an array (`slot`, an index of `heap`) and a length
(`count`). The cache maps addresses to arrays; `Cap` cuts a slice without a
copy, so that the CSV sort works on the array of the cache. A comparison, the
load of two elements and the two stores of a swap are separate steps, as other
goroutines see them; so is each rendered row. `sort.Slice` sorts up to 12
elements by insertion, and an assumption keeps histories that short. `partial`
and `resorted` are history variables: arrays a failed read has left items out
of, and how many elements of an array CSV answers have sorted. The collection is
one step, since the stores are read-only. Which entry a full cache gives up is
left open; the 2Q policy of the library is not modelled. Arrays without a
reference are cleared.

**Paging.** One request over two stores. `MaxResultsOf` is
`maxResultsFromContext`: the configuration is cut to the unsigned integer, 0
means its largest value, a smaller page size replaces it. Iterations follow the
order in which each callback counts, compares and takes: `CollectKey` takes
first (children and indexation), `CollectRow` compares first (the utxo
iterations, where a maximum of 0 is none). `BeginSpent` goes on with spent
outputs for what is left of the limit. The `type` parameter is a number that is
cut to a byte before it is compared (`Filter`): 256 is taken for 0. The filter is
part of the prefix of the iteration, so a store's rows are counted by type and
`Before` is where the rows of the type begin. A page size of 0 is accepted and
means no limit at all for the iterations of outputs.

**LegacyLedger and LedgerQueries.** `LegacyLedger` has an action for a message
that is stored (`Attach`), one that is referenced (`Reference`: applied, or found
conflicting because of an input or of the dust rule), for a milestone with its
migrated funds, and for pruning the oldest milestone. It is derived from the
layout of the tables the service reads, and marked external throughout. A
balance row holds amount, dust allowance and number of dust outputs; a metadata
row the bits, the referencing milestone and the conflict. `opening` (what was
unspent at the pruning index), `seen` (messages that have been referenced) and
`made` (outputs that have ever been made) are history variables; none of them is
read by an action, but for `seen`, which keeps a message from being referenced
twice. `LedgerQueries` states the queries as operators on a
state: the service reads while the node is down, so nothing changes under a
query. Each operator distinguishes "skipped", "not found" and "error" as the
code does: the history and its items, outputs and spenders, balance and dust,
milestone changes, treasury, the metadata and milestone endpoints, the message
included for a transaction.

**OnceValues.** `index` and `state` are a stage (fresh, running, done) and a
value, as `sync.Once` and the field it fills. A handler is at a call, inside a
load, or about to use what it has; `CallState` and `CallIndex` wait while another
handler is inside. `LoadIndexFails` and `LoadTimestampFails` are the panics: they
leave every Once the handler is in as *done*, and the handler is gone (echo
answers 500). The opening decides how the index begins: an up-to-date lookup
table was compared with it, so it is there; after a rebuild the manager is a new
one and the first handler reads it. `told`, `toldInfo`, `failed` and `rebuilt`
are history variables. The stores are read-only, so `ledger` never changes in a
life of the process.

**Lifecycle.** A worker is starting, running, stopping or ended. The daemon
cancels the workers of one priority, waits for them and goes on with the next
lower one. The timeout of the API (`ApiGivesUp`) may strike whenever requests
are running; a handler reads until it answers and does not look at its context,
as in `pkg/server`. A failed registration, a listener that cannot bind and a
database that cannot be closed end the process at once.

**Composition.** `LookupTableProperties` takes `TablePublication` by
`INSTANCE ... WITH`; `LedgerQueries` runs on `LegacyLedger` and takes the lookup
table as the set that `LookupTable` proves it to be. `TxHistory` takes the set of
history items as a constant: which items these are is the business of
`LedgerQueries`. `OnceValues` begins where `LookupTable` is serving, with the two
ways that leads there.

### What is assumed of code outside the repository

- RocksDB through hive.go: `DeletePrefix` is one atomic write batch; writes
  without a sync survive a crash as a prefix of their order; `Flush` makes them
  durable; an iteration whose consumer returns false ends without an error.
- Stores opened read-only do not change.
- echo turns a panic of a handler into an answer with status 500.
- The daemon stops workers by descending priority and waits for each level. Its
  stop context is the one `New` is given; that it may be done while `New` still
  runs is what the shutdown fault of `LookupTable` stands for.

## 3. The runs

| Run | Bounds | Shows |
|---|---|---|
| `lookup_faults` | 5 ledger indexes, the tangles of three of which must be refused; 2 addresses, 3 messages; all faults, unbounded in number | soundness on disk, exact lookup, handles, rebuild progress, nothing served that cannot be analysed, refinement of `TablePublication`, liveness |
| `lookup_abort` | the two sound tangles, shutdowns only | *violated*: finding 1 |
| `history_answers` | 2 requests, 2 addresses, histories of 3 and 1, a cache of 1, limits 2 and 5, failing reads, CSV answers made alone | cache content, both orders, which items answers list |
| `history_order` | the same without failing reads | *violated*: finding 2 |
| `history_race` | CSV answers at the same time | *violated*: finding 3 |
| `history_reason` | CSV answers | *violated*: finding 4 |
| `paging` | 0 to 4 rows of two types in two stores, a 3-bit limit, limits around 0, 4 and 8, a 2-bit type, type parameters -3, 0, 1, 2 and 4 | order, completeness, filter, limit |
| `paging_limit` | limits 2 and 3 | *violated*: finding 5 |
| `ledger_queries` | 4 milestones, 5 transaction messages, 2 receipts, dust below 2 with at most one dust output an address, every order and every pruning depth | agreement of the queries |
| `once_values` | 3 handlers, 2 ledger indexes, every set of milestones, every failing read | agreement, truth of the node information, no waiting for ever |
| `once_index` | the same | *violated*: finding 6 |
| `lifecycle` | 5 workers, 2 requests, an INX connection | shutdown order and termination |

Why the bounds are enough to be interesting. In `MCTangle` one address is
touched twice by a row, an input is pruned, and between the two indexes one
conflicting message goes and another one comes, so that stale and new entries
both show; the three tangles after that hold a payload that cannot be decoded, a
payload that is no transaction and an output that is not supported; a crash may
fall between any two writes, and attempts may fail any number of times. In
`history_answers` two addresses compete for one cache entry, so evictions and
double fills happen under a running request, three items need several swaps, one
limit cuts and the other does not. In `paging`, limits lie below, at and above
the number of rows of one and of both stores, and the configuration reaches and
exceeds the range of the integer (`UintRange` stands for 2^32). In
`ledger_queries` there is a double spend, a re-attachment of the same
transaction, a transaction that spends its own address's output, one that turns
a dust allowance into funds of the same address, touches no other one and
conflicts by the dust rule, and two migrations, and pruning may remove each of
them while later ones remain. In `once_values` one handler may be inside both
locks, a second one wait for the inner and a third one for the outer; with two
indexes a milestone may be there for the wrong one.

Bounds in guards: `MaxLedger`, `MaxIndex` (milestones), `MaxRows` (matching
rows), `MaxLost` (items one failed collection leaves out). `UintRange` and
`TypeRange` are parameters of the arithmetic.

Deadlock checking is off for `paging` (a request that has been answered),
`ledger_queries` (the last milestone), `lifecycle` and `once_values` (a process
that has exited): there the system really stops. That no handler is stuck for
ever is `EveryCallReturns` in `once_values`.

### Fairness

- `LookupTable`: weak fairness of the process's own steps taken together: `New`
  is sequential code that runs on, and an operator starts it again. No fault is
  fair, and neither is the abort, nor the legacy node. `EventuallyServes`
  assumes that disturbances end.
- `OnceValues`: weak fairness of each handler, a goroutine that runs unless it
  waits for a Once; a mutex that is free does not starve one of finitely many.
- `Lifecycle`: weak fairness of the daemon and of each worker. The waits with a
  timeout end one way or the other. Handlers have no fairness: the service must
  stop although a handler never returns.

`TxHistory`, `Paging` and `LedgerQueries` assume no fairness and state no
liveness: their requests are finite loops over stores that do not change, and
wait for nothing.

### Findings

1. *A rebuild that is aborted is published as complete.* The callback returns
   false without an error (`conflicting_transactions.go:76`), and the code
   behind a complete scan sets the status key. `ErrOperationAborted` is not
   returned. Later starts trust the key. It needs a context that is done while
   `New` still runs.
2. *A CSV answer reverses the cached history* (`transactions.go:328`): later
   JSON answers are oldest first, and their limit cuts off the newest items.
3. *Concurrent CSV answers damage the cached history*: the sort is in place and
   without a lock.
4. *The conflict reason in CSV is a memory address* (`transactions.go:347`).
5. *Children and indexation listings exceed the configured maximum by one*
   (`children.go:19`, `indexation.go:29`).
6. *A ledger index that could not be read is 0 ever after* (`utxo.go:30`): the
   function under `sync.Once` panics, which counts as done. The first request
   gets status 500, later ones the ledger index 0 with status 200. It takes a
   process that has just rebuilt the lookup table: `ZeroIndexOnlyAfterFailedLoad`
   shows that no other one can answer 0. The node information does not answer
   wrongly but fails for good (`InfoTruthful`), also when merely the milestone of
   the ledger index is missing.

`PublishedTablesSound` and `ServedLookupExact` therefore allow a table to be
incomplete when `lossy` holds, `JsonFollowsOrderUnlessResorted` leaves out
resorted arrays, `AnswersListNewest` arrays of which a CSV answer has sorted
more than the request asks for, `LimitRespected` gives the iterated endpoints
one more and `ZeroIndexOnlyAfterFailedLoad` says when the index 0 is answered;
the violation runs state the unconditional form.

## 4. The proofs

`LookupTableProofs` proves, for every set of addresses and messages, every
tangle, every number of ledger indexes and every choice of faults:

| Theorem | States |
|---|---|
| `TypeCorrect` | `TypeOK`: the scan never leaves the tangle |
| `HandlesKept` | `HandleDiscipline` |
| `Invariance` | the inductive invariant `Inv` |
| `PublishedSound` | `PublishedTablesSound` |
| `ProgressKept` | `RebuildProgress` |
| `ServedExact` | `ServedLookupExact` |
| `ServedAnalysable` | `ServedTangleAnalysable` |
| `NotEditedInPlace` | `NeverEditedInPlace` |
| `RebuildPublishes` | the refinement `PublishesAtomically` |

They rest on the named assumptions of `LookupTable` alone: the tangle is a
sequence of well-formed rows for every index, the two special owners are no
addresses, `Faults` names known faults and `SkipHealthCheck` is a Boolean.

The argument. `PublishedTablesSound` is not inductive: when the status key is
set, nothing in it says that the table is complete. `Inv` adds what holds in the
middle of a rebuild. `RebuildProgress` says that, unless something was left out,
the entries are exactly those of the rows and parties already passed
(`DoneEntries`), under no status key; at the end of the scan these are
`Expected(ledger)` (lemmas `WholeRow`, `WholeTangle`). `UpToDate` carries the
index of the key to the point of serving, while the ledger cannot move.
`table \in images` and the soundness of every image carry it over crashes.
`AnalysedSoFar` and `TableAnalysed` do the same for rows that must be refused,
and `LossyOnlyByFault` says that only a shutdown or a read error can leave
something out, which the refinement needs. Types and handles are invariants of
their own and are proved first.

Steps are sorted into kinds (`StepKinds`): those that touch neither table nor
scan, those that write, those that move the scan, and the ends of the process.
Each kind has one lemma for types and the table lemmas follow action by action.
`PublishesAtomically` follows from `Inv` step by step: `DeleteTable` is
`Withdraw`, `SetStatus` is `Publish`, `FlushTable` is `Sync`, a transition to
serving is `Serve`, and everything else stutters or maps to `Close`, `Crash` or
`Advance`.

`PagingProofs` proves, for every number of rows, every configuration, every page
size, every type parameter and every range of the integers:

| Theorem | States |
|---|---|
| `TypeCorrect` | `TypeOK`: limit and counts never leave the range |
| `Invariance` | the inductive invariant `Inv` |
| `InOrder` | `ListedInOrder` |
| `ShortIsWhole` | `ShortPageIsWhole` |
| `LimitKept` | `LimitRespected` |
| `FilterKept` | `FilterHonoured` |

It rests on `RangeAssumption`: the range of the limit is greater than the number
of rows plus one, as 2^32 is. `IterationInv` is what makes the properties
inductive: in the first iteration as many rows have been collected as the
callback was handed, in the second one all that match of the first store as
well, and its maximum is what those have left of the limit, which is not 0. The
row that is taken next is then the one `RowAt` names (lemma `Taking`), and an
iteration that ends short of the limit has handed on every row.
`FilterHonoured` follows from the order: rows of a type stand together.

`OnceValuesProofs` proves, for any number of handlers and any ledger indexes:

| Theorem | States |
|---|---|
| `TypeCorrect` | `TypeOK` |
| `Invariance` | the inductive invariant `Inv` |
| `OneIndex` | `AnswersAgree` |
| `ZeroOnlyAfterFailure` | `ZeroIndexOnlyAfterFailedLoad` |
| `InfoIsTrue` | `InfoTruthful` |

from `IndexAssumption` (0 is no ledger index). `IndexInv` says that one handler
at most is inside the read, that whoever uses the index comes after it, and that
the value is the ledger index or the 0 of a failed read after a rebuild;
`StateInv` that a sync state is there only when the index is and is right.

`LifecycleProofs` proves, for any set of requests and with or without a node:

| Theorem | States |
|---|---|
| `TypeCorrect` | `TypeOK` |
| `Invariance` | the inductive invariant `Inv` |
| `NoneReadsAfterClose` | `NoReadAfterClose` |
| `RouteIsGoneFirst` | `RouteGoesFirst` |
| `ConnectionGoesLast` | `ConnectionOutlivesDatabase` |

from `LifecycleAssumption`. None of the properties is inductive, since none
mentions the daemon. `OrderInv` ties its level to the workers: those cancelled
have at least the priority of the level, those above it have ended. So a worker
that is being stopped leaves none running above it (lemma `AboveEnded`), and the
properties follow from the five priorities: the stores are closed behind the API
(`ClosedBehindApi`), so that a request that still runs was given up; the API is
stopped behind the route, and INX behind the databases.

The three modules about the ledger prove, for every set of addresses,
transaction messages, receipts and snapshot outputs, any number of milestones,
any amounts, and at every step of the node, pruning included:

| Theorem | Module | States |
|---|---|---|
| `Tables` | `LedgerProofs` | the inductive invariant `TablesInv` |
| `Accounts` | `BalanceProofs` | the inductive invariant `AccountsInv` |
| `Resolves` | `LedgerQueriesProofs` | `MilestoneResolves` |
| `Agrees` | `LedgerQueriesProofs` | `InclusionAgrees` |
| `Answered` | `LedgerQueriesProofs` | `HistoryAnswered` |
| `Complete` | `LedgerQueriesProofs` | `HistoryComplete` |
| `SpentResolves` | `LedgerQueriesProofs` | `SpenderResolves` |
| `ChangesAddUp` | `LedgerQueriesProofs` | `MilestoneChangesAddUp` |
| `Treasury` | `LedgerQueriesProofs` | `TreasuryCurrent` |
| `DustHonest` | `LedgerQueriesProofs` | `DustAllowedHonest` |
| `Explains` | `LedgerQueriesProofs` | `HistoryExplainsBalance` |

They rest on three named assumptions. `UniverseAssumption`: payloads are finite
lists of payments with natural amounts, a transaction has an input and an
output, the divisor of the dust rule is not 0. `IdentityAssumption`: hashes do
not collide, so that two transactions of one name are the same, and outputs of
the snapshot, of transactions and of receipts have different names.
`NilAssumption`: no message has the nil ID.

The argument. The properties are claims about databases at rest, and each query
joins tables; none of them is inductive. `TablesInv` says, also in the middle of
a milestone, what the rows of one table promise about another one, for the
milestones that are still stored (`Stored`):

- `MessagesInv`: messages and metadata come and go together, and a metadata row
  names a stored milestone, or none. `MilestoneResolves` is read off it.
- `OutputsInv`: an output is unspent or spent; the diff of a milestone consumed
  what the spent rows of its index say; what it created is there and was spent
  no earlier. Pruning the oldest milestone therefore takes away no output that a
  later diff names.
- `MadeInv`: no output is made twice. Inclusion is decided by inputs, so this
  needs `made`: an applied transaction leaves its inputs spent or pruned for
  good, so that a re-attachment of it conflicts.
- `OriginInv`: the message an output names, if it is still stored, is one that
  has been applied, or a milestone with a receipt. A history would otherwise end
  with an error, or list a conflicting message as the one that paid.
- `SpendingInv`: an applied transaction has its inputs and outputs stored as long
  as its message is, and every spent row has such a transaction behind it.
- `TreasuryInv`: one unspent treasury output, and the stored migrations as a
  chain in which each hands on what the one before it left.

Each action has a lemma for what it does to the tables (`ApplyRows`,
`PruneFrame`, ...) and one that it keeps the invariant. `Apply` is shared by
transactions and milestones, and so is its lemma.

`AccountsInv` adds the sums. `BalancesInv`: the row of an address is
`Sums(Owned(unspent, outputs, a), outputs)`. The node does not compute it so; it
adds what was created to the old row and subtracts what was consumed (`NewRows`),
and the proof is that both agree as long as nothing is consumed that is not
unspent and nothing is created that was there. `CreatedInv` and `OpeningInv` tie
diffs and snapshot to the payloads. `MapThenSumSet` takes elements in the order of
a `CHOOSE`, so `BalanceProofs` first proves that the order does not matter
(`SumsOrder`), and how sums are split (`TotalSplit`), renamed (`TotalRenamed`),
grouped (`TotalGroups`) and subtracted (`TotalMinus`). The provers cannot
instantiate the library's induction theorems; an induction over a finite set is
made an argument about the set of its good subsets, from the well-foundedness of
strict inclusion (`SubsetInduction`).

`HistoryComplete` is an equivalence. That nothing is listed which does not touch
the address (`ListedTouched`) needs `OriginInv`: the message an output row names is
the one that made the output.

`HistoryExplainsBalance` is then a double count. What an address was given since
the pruning index, grouped by the message that made it, and what it spent,
grouped by the message that spent it, are groups over the same set of applied
messages (`Movers`). The change of a listed item is what its group gained less
what it lost (`TransactionChange`, `MilestoneChange`); an applied message that is
not listed has two empty groups (`UnlistedMoves`); a listed one that was not
applied conflicts or is skipped (`OtherItem`).

TLC has checked `TablesInv` and `AccountsInv` as invariants of the instance of
`ledger_queries` (add them to the configuration of `MCLedgerQueries`); they are
not in the run, which asks about the answers of the service.

`TxHistoryProofs` proves, for any number of requests, addresses and items and
any size of the cache:

| Theorem | States |
|---|---|
| `Arrays` | the inductive invariant `HistoryInv` |
| `TypeCorrect` | `TypeOK`: no index leaves its slice |
| `JsonOrder` | `JsonFollowsOrderUnlessResorted` |
| `Sorts` | the invariant `SortInv` of a sort made alone |
| `CacheWhole` | `CsvAlone => CachedHistoryWhole` |
| `CsvOrder` | `CsvAlone => CsvOldestFirst` |
| `NewestListed` | `CsvAlone => AnswersListNewest` |

from `ItemsAssumption` (message IDs are unique), `HistoryAssumption` (histories
are finite) and `ParameterAssumption`. The first three hold however many CSV
answers race; the last four need them to be made alone, and `history_race` shows
that the code breaks `CacheWhole` without that. That Go sorts short histories by
insertion is in the actions; the bound of 12 is not used by a proof.

The argument. None of the properties is inductive: they read the array a slice
points to, and say nothing of who else points to it. `UsedFor` is the relation
between arrays and the addresses they are in use for, through the cache or
through a slice; only `Collect` adds to it (lemma `Uses`), and it takes an array
that is free (`FreeArray`, a count: the cache and the other requests together
have fewer arrays than there are). So an array has one address (`SharedInv`),
keeps its length, since no other action but the two stores of a swap writes to
an array in use (`InUse`, `Lengths`), and is in the collected order behind what
CSV answers have sorted of it (`ArraysInv`; `Stores`, `ResortedGrows`).
`JsonOrder` then needs that what has been rendered is what the array holds
(`BodyInv`): the rows are rendered one at a time, and the array must not move
meanwhile. That a collected history is a list of its items, each once, is
`NewestList`: `Newest` is a `CHOOSE`, so a sorted list has to exist
(`Enumeration`: the place of an item is the number of newer ones).

In the middle of a swap an element is in the array twice and another one not at
all. `SortInv` therefore speaks of the array as it is after the swap under way
(`Swapped`): it holds the items of the address, each once (`Whole`, kept by
`ExchangedWhole`), and its first elements are in order but for the one that is
sinking (`Sinking`; `ExchangedInserting`, `Inserted`). `NewestListed` puts both
together: the array holds each item once, and behind what has been sorted it is
still the newest list, so that the items before that point are those of the
newest list too (`HistoryList`). TLC has checked `HistoryInv` and `SortInv` on
the instance of `history_answers`.

**Only model-checked.** Liveness (`EventuallyServes`, `EveryCallReturns`,
`StopsEventually`), which is out of the prover's reach.

## 5. Not modelled

The registration of routes and the encoding of answers as JSON; parsing of
identifiers and addresses; byte layouts of keys and values; parents, solidity and
raw bytes of a message; metrics; the documentation generator, configuration and
application wiring. They hold no state and interact with nothing, or their
correctness is one of formats.

## 6. The plan

Order of work: the most important behaviour, the lookup table and its
publication, came first, with its proofs; then the history, the lists, the
queries and the shutdown; then the once-only values, the type filter, the panics
of the rebuild, dust, metadata and milestones, and the proofs for the lists, the
once-only values and the shutdown; then the proofs for the ledger: tables,
balances and every query; then those for the history endpoint.
