# Verification of the wager engine

TLA+ models of the wager engine in `src/`: a Go service that takes wager commands
(BET, WIN, LOSS, REFUND, ROLLBACK) from game providers over HTTP and over an SQS FIFO
queue, applies each one exactly once to a wallet in PostgreSQL, and publishes what
happened through a transactional outbox. The modules are model-checked with TLC on small
instances. Every invariant and every action property that TLC checks is proved with TLAPS for
every value of the constants, and so is the refinement of the store to a serial machine;
liveness is model-checked.

## The system

| Component | State | Operations | Talks to |
|---|---|---|---|
| Domain rules (`internal/domain`) | none | validation, `Evaluate`, `Debit`/`Credit`, freezing of a result | called by the store |
| Wager transaction (`postgres/process.go`, `events.go`) | `wallet`, `wager_transaction`, `wallet_ledger_entry`, `inbox`, `outbox` | `ProcessWager`: reserve inbox, find identity, lock wallet, insert, apply, commit; replays | the database only; called by HTTP and by the consumer |
| Wallet creation (`postgres/store.go`) | the same tables | `CreateWallet` with its OPENING wager | database |
| Reference resolution (`postgres/work.go`, `workers/engine.go`) | `reference_*` columns of `wager_transaction` | `ClaimReferences`, `RetryReference`, `ReleaseClaims` | shares wallets and rows with `ProcessWager` |
| Schema and guards (`migrations/`) | - | unique indexes, CHECKs, deferred triggers at commit | every transaction |
| Audit (`scripts/audit.sql`) | - | queries over the committed tables | - |
| Outbox publisher (`workers/engine.go`, `postgres/work.go`) | claim columns of `outbox`, one goroutine per record | `ClaimOutbox`, `Publish`, `MarkPublished`, `RetryOutbox`, `ReleaseClaims` | database, then broker, then database |
| Input consumer (`workers/engine.go`, `sqs/client.go`) | visibility, receive count and receipts in SQS | `Receive`, `handle`, `Delete`, `ChangeVisibility` | queue and `ProcessWager` |
| HTTP API (`adapters/httpapi/http.go`) | none | seven routes: create and read a wallet, ledger pages, reconciliation, process a wager, read a transaction by id or external id | verifier, then the store |
| Read models (`postgres/read.go`, `store.go`) | none; pages are ordered by `(created_at, id)` | `Ledger`, `Reconcile`, `GetWallet`, `GetTransaction`, `GetByExternal` | database, beside every writer |
| Authentication (`adapters/auth/oidc.go`) | cached keys, their age, time of the last attempt, one mutex | `Check`, `Validate`, `key`, `refresh` | the identity provider |
| Money text (`domain/money.go`) | none | `ParseMoney`, `String`, `Add`, `Subtract` | HTTP, consumer, store |
| Life cycle (`modules/app.go`, `workers/engine.go`) | stage of the hooks, readiness, socket, pool, intake and work contexts | `OnStart`, `OnStop`, `Start`, `StopIntake`, `Stop` | everything |
| Configuration (`platform/config/config.go`) | the times of the process | `Load` | life cycle, leases, visibility |
| Observability, migration command, generated queries, scripts | see *Not modelled* | | |

What is hard here:

- several replicas, each with several handler and resolver goroutines, work on the same
  rows at READ COMMITTED, where every statement has its own snapshot;
- the same command may come over both transports, several times, at once, with the same
  key and another payload, or inside a reused message;
- a reversal may arrive before what it reverses, and is then retried under a lease that
  may expire while it is being worked on;
- a send to the broker, and the answer to a caller, lie outside the transaction;
- a drain may be cut off, a process may die, a call may succeed without an answer;
- the same rules are written twice, in Go (`Evaluate`) and in SQL (the commit guards);
- reads in pages, and in two statements, run beside the writers, and the clock that orders
  the pages may be set back;
- one mutex is held across two requests to the identity provider;
- leases, visibility, drain and the patience of Fx are separate times, related only by what
  `config.Load` accepts.

The hazards that follow from this, each at its line and with the properties that would
catch it, are listed under `hazards` in `PROJECT.json`.

What makes each component correct:

- *store*: no lost update and no overdraft; one wager per command; a true answer to each
  request; a ledger that is a chain up to the balance; nothing terminal ever changes;
  reversals that cancel exactly once; an outbox that tells the same story as the ledger;
  every transaction ends;
- *reference resolution*: a lost claim has no effect; every waiting wager ends;
- *publisher*: nothing is marked that was not sent; a late worker cannot disturb its
  successor; every event gets out;
- *consumer*: only durable successes are acknowledged; each attempt a message
  uses up has a cause of its own; no group is blocked for ever;
- *HTTP and reads*: pages that neither skip nor repeat; a reconciliation that reports no
  difference that is not there; a balance and a version that belong together; a refusal that
  is true; amounts that are exact;
- *authentication*: no withdrawn key lives on; every call is answered; a rotated key is
  learned;
- *life cycle*: a job ends within its claim; a stop ends, in order, and cuts off nothing that
  was under way.

## Modules

| Module | Models |
|---|---|
| `WagerDomain` | the pure rules: command checks, row validation, `Evaluate`, movement of a wallet, frozen results, events, and the direction the SQL guards demand |
| `WagerStore` | `ProcessWager`, `RetryReference`, `ClaimReferences`, `ReleaseClaims`, `CreateWallet` as steps of concurrent sessions over PostgreSQL |
| `WagerLedger` | the abstract specification: a serial machine that decides one command at a time |
| `WagerAudit` | the statements of `audit.sql` and the refinement of `WagerLedger`, as properties of `WagerStore` |
| `WagerStoreProofs` | locks, ids, claims, the ledger chain: the base of the proofs about `WagerStore` |
| `WagerCommandProofs` | identity, answers, readable rows and silent guards; extends `WagerStoreProofs` |
| `WagerAuditProofs` | the refinement of `WagerLedger` and the statements of the audit; extends `WagerCommandProofs` |
| `OutboxPublisher` | the publisher loops of several processes over the `outbox` table and the broker |
| `InputConsumer` | the consumer loops of several processes over the FIFO queue |
| `Money` | parsing, formatting and checked subtraction of amounts, over digits |
| `LedgerReads` | pages, cursors, reconciliation and views over the serial machine `WagerLedger` |
| `HttpApi` | the seven routes: checks in order, use case, status and body; extends `LedgerReads` |
| `TokenVerifier` | the key cache of `auth.Verifier` and the provider behind it |
| `Lifecycle` | one process from `OnStart` to its exit, with all of its deadlines |
| `OutboxPublisherProofs`, `InputConsumerProofs`, `TokenVerifierProofs`, `LifecycleProofs` | the theorems about the module each is named after |
| `HttpApiProofs` | the theorems about `HttpApi`, `LedgerReads` and `Money` |
| `MCWagerStore`, `MCOutboxPublisher`, `MCInputConsumer`, `MCHttpApi` | the instances for TLC |

`WagerAudit` composes the store with its abstract specification. `OutboxPublisher` takes
the rows that `WagerStore` commits as `InsertEvent`; `InputConsumer` uses `ProcessWager`
as a commit whose repetition is a replay, which is what `WagerStore` shows. `LedgerReads` and
`HttpApi` stand on `WagerLedger`: a read sees committed states only, and the theorem
`Refinement` shows that the committed states of `WagerStore` are those of `WagerLedger`.

### WagerStore and the code

A session is one call of `ProcessWager` or `RetryReference`. Its program counter names the
statement that comes next:

    ProcessWager:    reserve -> load -> replay            a message seen before
                     reserve -> find -> replay            a command seen before
                     find -> lock -> insert -> apply -> commit -> reply
                     insert -> refind -> replay           lost a race on the unique index
    RetryReference:  (claim) rlock -> rselect -> rapply -> rcommit

Each statement that another transaction can disturb is one step. A run of statements that
nobody can disturb is one step too: what `apply` reads and writes under the wallet lock
(`WalletIsolated` and `IsSerial` justify this), and the whole of `CreateWallet`, whose rows
nobody else can see. What a session writes stays in its own variables (`seen`, `out`) until
the commit step makes all of it visible at once, which is what READ COMMITTED gives to the
others. Locks are explicit: `lock` is `SELECT ... FOR UPDATE` on the wallet row;
`Inserted` and `Reserved` are the unique-index entries and inbox rows that make another
insert wait; `RowLocked` is what `SKIP LOCKED` skips.

Three kinds of fault are counted by `MaxFaults`: a transaction that ends without a commit
(deadline, lost connection, crash, failed COMMIT: `Rollback`), a replica whose clock is
behind the row it wants to stamp (second disjunct of `Apply`, last two of `RetryApply`), and
a lease that expires while its holder works (`LeaseOverrun`). Losing the answer after a
commit is no fault of its own: any request may come again at any time.

Data that the properties do not tell apart is left out. SHA-256 is taken as injective, so a
hash is the record it is computed from. Ids are small numbers; only their uniqueness matters
and `FreshId` gives a fresh one. Timestamps are the flags `due`, `live` and `late`. The claim
token of a reference is the resolver that holds it, because a resolver works on one claim at
a time and gives it up before it takes the next. Trimming of text fields and `gameId` are
left out. `MaxInt` stands for `math.MaxInt64` and is small enough for the overflow to occur.

### WagerLedger

The promise of the core in four actions, without sessions, locks, claims or faults. `IsSerial`
says that every behaviour of `WagerStore` is one of `WagerLedger` under the mapping that keeps
the committed tables and forgets the sessions (`Serial == INSTANCE WagerLedger WITH ...` in
`WagerAudit`). It makes one concession: `apply` reads the referenced row of *another*
wallet without a lock, so it may miss a row committed a moment ago. The wager then waits,
and is rejected when it is decided again.

### OutboxPublisher and InputConsumer

In `OutboxPublisher`, `row` is the table, `arrived` how often an event has entered the output
queue (0, 1, or more) and `fifo` the order in which events first did. The queue drops a
repetition inside its deduplication window and takes it after that (`Accept`); since the backoff
reaches an hour, either may happen to any repetition, and delivery is at least once.
`job[i][e]` the goroutine of process `i` for event `e` with the claim token it was started
with, `loop` and `phase` the loop and the life of the process. Claim, send and mark are
three steps; each call may fail with or without effect. A behaviour begins with one of
`Deployments`, which give each process its InstanceID, so two processes may share one.

In `InputConsumer`, `queue` is the FIFO queue with visibility, receive count and redrive as
`deploy/localstack/init.sh` configures it; it is external and modelled from how
`sqs/client.go` uses it. `task[i][m]` is the call of `handle` for a message with the receipt
it was received under. `Refused` are the messages that can never succeed; any other may be
refused as things stand (its wallet is not there yet, another command holds its key, the clock
of the replica is late) for as long as it is not committed. `spent` counts the receives that came
to nothing without a fault: refusals, and long polls that the broker had answered when
`StopIntake` cancelled their context.

### LedgerReads and HttpApi

A call is a route, the set of flaws it has, and its arguments. `Screen` finds the first check
that fails, in the order of the handler; the use case then runs as one step, or two for
`getTransaction`, whose wager and wallet are read by two statements. `answer` is what the
client gets; a fault may take it away after the commit. `Elsewhere` is everything that other
transports and the reference worker commit meanwhile. `walk` is a client that pages through a
ledger and collects what it gets. Each ledger entry has a stamp: the database clock, which
`StepBack` may set back, and an id from `EntryIds` in any order.

In `Money` a text is a sequence of digits, points and one character for all others.
`MoneyExact` compares `ParseMoney` with a definition that weighs each digit by its place.

### TokenVerifier

Times are kept as ages in seconds. A call waits for `mu`; the holder goes through the two
requests of `refresh` as `discovery`, `jwks` and `arriving`, so that a rotation can fall
between the answer of the provider and its arrival. A token is the id of its key: signature
and claims are checked without state by a library.

### Lifecycle

`stage` is where Fx is in the start and stop hooks. One job (an event, a waiting wager or a
message) and one HTTP request run beside them; each call may end at any moment up to its
deadline, and `Tick` cannot pass a deadline. `Load` is the set of configurations that
`config.Load` accepts, and a behaviour begins with any of them.

## Runs

| Run | Instance | Distinct states | Checks |
|---|---|---|---|
| `contention` | 2 handlers, 2 resolvers, 1 wallet, 6 requests, 1 fault | 383k | `TypeOK`, `LockedWalletIsCurrent`, `LedgerChain`, `IdentityUnique`, `InboxPointsHome`, `AnswersAreTrue`, `OneEntryPerMovement`, `TerminalFrozen`, `WalletIsolated` |
| `reversal` | handler and resolver, 8 requests in any order | 1.04M | `OutboxMatches`, `NetOfReversals`, `RowsReadable`, `GuardsSilent`, `LatestResultIsWallet` |
| `cross_wallet` | 2 handlers, resolver, 2 wallets | 142k | `ConflictIsVisible`, `IsSerial` |
| `progress` | handler, resolver, refund before its bet, 1 fault | 1.1k | `PendingResolves` |
| `waiting` | 2 handlers, resolver, 2 wallets, a shared message and external id, a refund that may wait | 25k | `CommandsAnswered` |
| `publish` | 2 publishers with own or shared InstanceID, 2 events, batches of 2, 1 fault | 314k | `TypeOK`, `NothingLost`, `OneHolder`, `SentOnceUnlessFaulty`, `PublishedFinal`, `EventsPublished` |
| `consume` | 2 consumers, 3 messages in 2 groups, 2 receives each, 1 fault | 112k | `AckedOnlyIfCommitted`, `DeadOnlyWithCause`, `MessagesSettle` |
| `http` | 2 wallets, 15 calls, 1 message, 1 clock step back, 1 fault | 745k | `WalkComplete`, `ReconcilesAlways`, `AnswersOnChain`, `RefusalIsTrue`, `MoneyExact` |
| `tokens` | 2 callers, 2 keys, 2 rotations, 1 fault | 194k | `NoStaleKey`, `CallsAnswered`, `KeysLearned` |
| `lifecycle` | every accepted combination of 2 process, 2 visibility, 3 shutdown and 2 lease times | 653k | `HoldCoversWork`, `PoolClosedLast`, `StopIsOrderly`, `DrainCutsNothing`, `StopEnds` |
| `result_currency` | 1 handler, 1 request | - | `ResultInWagerCurrency` is violated: see *Findings* |
| `send_order` | 1 publisher, 2 events, no fault | - | `SentInOrder` is violated: see *Findings* |

What they show, and why the bounds are enough:

- **contention.** A bet over both transports that the balance pays once, its key reused with
  another payload, its external id under another key, its message id for another command, a win
  that overflows unless the bet came first, and a refund that waits if it comes first. Two
  handlers are enough for every race on a wallet, an index entry or an inbox row, since a third
  would wait in the same queue; two resolvers are what it takes for one to lose its lease to
  the other. One fault lets any one transaction abort at any statement, or a lease run out.
- **reversal.** Bet, refund of it, rollback of the refund, rollback of the bet, and a bet that
  spends the money in between, in every order of arrival, each possibly waiting, and commands
  that never become rows. Commands of one wallet run one after another (`WalletIsolated`), so
  one handler and one resolver give all the orders. The guards of the database, transcribed
  separately from Go, accept everything that `Evaluate` decides.
- **cross_wallet.** The refinement, on requests that share an external id and a reference
  between two wallets: the case where the wallet lock does not help.
- **progress**, **waiting.** Liveness, see *Fairness*. `progress` has a resolver and a lease
  that may be lost; `waiting` has two handlers and a resolver that contend for an inbox row, a
  wallet row and an index entry of two wallets. It has no faults: an aborted transaction only
  lets its locks go. Row locks on wagers are taken under the wallet lock and block no one else
  (`ClaimReference` skips them).
- **publish.** Own and shared InstanceIDs, with one of: a call lost with or without effect, a
  crash, a cancelled drain, an expired lease. One fault is what separates the two copies of a
  claim; six tokens allow each event to be claimed again after it. Up to the first fault, and
  with an id each, claims, full batches, drains and restarts never make an event arrive twice,
  without any help of the deduplication window.
- **consume.** A message that is always refused in front of another of its group, next to a
  second group; every message may be refused until it is committed, and a shutdown may cut off a
  long poll. Two receives are allowed, so it takes two causes, among them at most one fault, to
  lose a message to the dead letter queue. A replay of what is committed, a refused neighbour, an
  orderly drain and a late copy are no causes.
- **http.** A wallet with and one without an opening balance; a bet in two spellings, with
  another amount, under another key and as a message; its refund before or after it. Pages of
  one entry, so that every entry is a page boundary; three entries and one step back are
  enough for equal stamps and for stamps against the order of commits. `MaxInt` is 150, so
  that "1.50" fits and "1.51" or "5" does not, and every text of up to four characters is
  parsed.
- **tokens.** TTL 2 s and a request of at most 1 s are the smallest for which a set expires
  between attempts. Two rotations withdraw a key and bring it back, or publish nothing.
- **lifecycle.** The real seconds of the code, except that Fx's patience of 50 s is 12 s here,
  with shutdown times well below, just below and above the limit where it matters. Process times of 2 and
  6 s with the tightest visibility and lease that `Load` accepts for each, and a generous one.
  One job and one request are enough: jobs have deadlines of their own and do not wait for
  each other, and `Done` waits for all alike.

Deadlock is checked in every run. Symmetry (interchangeable sessions) is used only in
runs without temporal properties beyond action properties and the refinement.

Each property of each run has a mutant: an operator next to the definition it replaces that
changes it as a plausible bug would (a read without `FOR UPDATE`, an uncounted attempt, an
unfenced update, a release before the loops have ended). They are listed in `PROJECT.json`
and TLC finds each property violated under its mutant.

## Fairness

- A goroutine that can execute its next statement does so: the steps of a session, of a
  job and of a handler.
- Waits for a row or an index entry are strongly fair: PostgreSQL queues the waiters of a
  lock.
- Time passes: delays end, leases and visibility timeouts expire.
- Due rows are claimed in the order of `next_attempt_at`, and the queue gives out the oldest
  message of a group, so a row or message that can be taken again and again is taken.
- At least one process keeps running (`Steady`). Nothing in the code restarts a process, so
  no restart is assumed. There is no fairness on requests, new events, messages or faults,
  and the number of faults is finite.
- In `TokenVerifier` a request to the provider ends (the client has a timeout) and a waiter
  gets the mutex if it is free again and again (`sync.Mutex` does not starve a waiter).
- In `Lifecycle` time passes, the stop goes on where it can, and jobs and requests that can
  end do so at the latest at their deadlines.

## Proofs

Each proof module proves one inductive invariant and reads the properties off it. The
assumptions are the `ASSUME`s of the modules, which TLC evaluates on every run; the bounds of
the runs are not among them.

### The store: locks and ledger (`WagerStoreProofs`)

For any set of wallets, requests, handlers and resolvers, any `MaxInt`, `MaxAttempts` and
`MaxFaults`:

| Theorem | States |
|---|---|
| `Inductive` | `Spec => []IndInv` |
| `TypeCorrect` | `Spec => []TypeOK`: balances stay in `0 .. MaxInt`, all columns and answers keep their types |
| `LockCorrect` | `Spec => []LockedWalletIsCurrent`: no lost update |
| `ChainCorrect` | `Spec => []LedgerChain`: the ledger is a chain up to the balance, one version per entry |
| `InboxCorrect` | `Spec => []InboxPointsHome`: a consumed message points to the wager of its own command |
| `FrozenCorrect` | `Spec => TerminalFrozen`: a terminal wager never changes |
| `IsolationCorrect` | `Spec => WalletIsolated`: a held wallet is changed by its holder only |

Assumptions: "" is a name; `MaxInt` is positive; the wallets are non-empty and typed; ids are
positive; handlers and resolvers are different and `Nobody` is neither; requests are typed;
`MaxAttempts` is positive. Uniqueness of the fresh id is part of `FreshId`, as uuidv7 promises.

None of the invariants is inductive alone. A commit keeps the chain only because the balance
it was computed from is still the committed one, because what it installs is that balance
moved by one amount, and because nobody else wrote its row in between. `IndInv` therefore
adds what each session knows at each point (`Local`):

- `Placed`: which variables mean something where;
- `Locked`: a session past `lockWallet` holds the lock and has the committed wallet;
- `Private`: the id it inserted belongs to no one else and is not visible yet;
- `Claimed`, `Waiting`: a claimed row exists, and once confirmed under the lock it still
  waits and is the row that was read;
- `Staged`: what is about to be committed is a movement of the wallet as it was locked;
- `Reservation`, `Found`: a reserved message belongs to one session, and a replay is about
  the caller's own command;

and `Funded` (only existing wallets have wagers). A step of one session is shown to leave the
others alone (`Apart`, `OwnInbox`), who then keep their part (`OthersKeep`); one lemma per
action shows that the session keeps its own. Only `CreateWallet` and the two commits change
a wallet, a ledger or a wager (`CreateStep`, `InstallStep`). What `Evaluate` decides is typed
and fits the balance (`EvaluateFits`, `OutcomeSound`), which is where the funds check and the
overflow check enter. Isolation needs one more invariant, `Held`: only wallets that exist are
locked.

### The store: commands (`WagerCommandProofs`)

Under the same assumptions:

| Theorem | States |
|---|---|
| `CommandsCorrect` | `Spec => []CommandInv` |
| `IdentityCorrect` | `Spec => []IdentityUnique`: a command becomes one wager at most |
| `ReversedOnce` | `Spec => []OneReversal`: no wager is reversed by two others |
| `ConflictCorrect` | `Spec => []ConflictIsVisible`: who loses the race on the index finds the winner |
| `AnswersCorrect` | `Spec => []AnswersAreTrue`: an answered success is the stored result of the caller's command |
| `ReadableCorrect` | `Spec => []RowsReadable`: every committed row passes the validation of a read |
| `GuardsCorrect` | `Spec => []GuardsSilent`: the SQL guards accept what the Go code decides |

`IdentityUnique` speaks of committed rows, and is broken by a commit of a row that was
inserted earlier; so `CommandInv` carries `Rivals`, which says that the rows inserted and not
yet committed do not clash with each other, and `Checked`, which says that none of them
clashes with a committed one. The wait on the unique index is what establishes both.
`Judged` says what Go has decided before a commit in the terms the guards ask for; a reference
it names may not change in the meantime, which follows from `TerminalFrozen`. `OneReversal`
needs the lock of the wallet: a reversal and what it reverses belong to the same wallet, and a
session that has seen no reversal holds that lock until it commits its own.

### The store: refinement and audit (`WagerAuditProofs`)

| Theorem | States |
|---|---|
| `DecisionsStand` | `Spec => []SerialInv` |
| `Refinement` | `Spec => IsSerial`: the store implements the serial machine |
| `BooksCorrect` | `Spec => []Books` |
| `EntriesCorrect` | `Spec => []OneEntryPerMovement` |
| `LatestCorrect` | `Spec => []LatestResultIsWallet` |
| `OutboxCorrect` | `Spec => []OutboxMatches` |
| `NetCorrect` | `Spec => []NetOfReversals` |

The abstract machine decides in one step and from the present state; a session decides at
`apply` and commits later, when other wallets, and so the row it referred to, may have changed.
`SerialInv` says that the decision still stands: for the wallet it holds, nothing has changed
(`WalletIsolated`); for a row of another wallet, `Evaluate` would refuse it or wait for it all
the same, and waiting for a row committed since is the concession `WagerLedger` makes. Then a
commit is a `Decide` or a `Resolve`, `CreateWallet` an `Open`, the end of a replay that consumes
a message a `Repeat`, and every other step changes no table (`RefineStep`).

`Books` is what the audit reads: `AuditInv` (per wallet: `Entered`, entries and wagers that
moved; `Frozen`, results and the wallet; `Told`, terminal events; `Paired`, balance events and
entries) and `NetInv` (`Repaid` and `Directed`: a reversal has the amount of what it reverses
and the other direction). With the refinement at hand it is enough to show that the four
serial actions keep it, which come down to one lemma, `RecordBooks`, on the recording of one
outcome; sessions, locks and claims do not occur in that part. `NetOfReversals` is a sum over
a wager, its reversal and the reversal of that: by `OneReversal` there are at most three, so
the fold is unfolded (`SumOfThree`) and needs no induction.

### Publisher, consumer, key cache, life cycle

| Module | Theorem | States |
|---|---|---|
| `OutboxPublisherProofs` | `ClaimsCorrect` | `Spec => []IndInv` |
| | `TypeCorrect` | `Spec => []TypeOK`: the CHECK of the claim columns of the table |
| | `NothingLostCorrect` | `Spec => []NothingLost` |
| | `OneHolderCorrect` | `Spec => []OneHolder` |
| | `SentOnceCorrect` | `Spec => []SentOnceUnlessFaulty` |
| | `PublishedCorrect` | `Spec => PublishedFinal` |
| `InputConsumerProofs` | `ReceivesAccounted` | `Spec => []IndInv`: an account of every receive |
| | `AcknowledgeCorrect` | `Spec => []AckedOnlyIfCommitted` |
| | `DeadLetterCorrect` | `Spec => []DeadOnlyWithCause` |
| `TokenVerifierProofs` | `CacheCorrect` | `Spec => []IndInv` |
| | `AcceptCorrect` | `Spec => NoStaleKey` |
| `LifecycleProofs` | `TimesCorrect` | `Spec => []IndInv` |
| | `HoldCorrect` | `Spec => []HoldCoversWork` |
| | `PoolCorrect` | `Spec => []PoolClosedLast` |
| | `OrderlyCorrect` | `Spec => []StopIsOrderly` |
| | `DrainCorrect` | `Spec => DrainCutsNothing` |

- **Publisher.** For any processes, events, tokens, batch and number of faults, under every
  assignment of InstanceIDs. A row is marked only by a goroutine that has sent it (`Arrived`);
  no two goroutines have a token in common (`Unique`), since `TokensFor` gives out unused ones
  only. That nothing arrives twice before the first fault needs `Quiet`: a goroutine that sends
  or marks owns a live claim, and what was sent is marked or about to be. Claims alone do not
  give that; it also takes that a process releases its claims only after its batch has ended
  (`Batches`).
- **Consumer.** For any processes, messages, groups, `MaxReceive` and number of faults. The
  invariant is an account (`Paid`): a message has been received at most as often as it has been
  refused, lost in a long poll that a shutdown cut off, or exposed to a fault (`Credit`), and
  once more while that last receive is in hand. `Receipts`
  says that a receive was answered to one process, so no two tasks are in hand for the same
  receive.
- **Key cache.** For any callers, keys, TTL and timeout. A response under way was current when
  its request had begun (`Arriving`), the cache was loaded from such a response (`Current`),
  and only the holder of the mutex touches either (`Exclusive`).
- **Life cycle.** For every configuration that `Load` accepts and all fixed deadlines that
  satisfy `MarginAssumption`, which the constants of the code do: acknowledgement and cleanup
  fit into the margin of `Load`, claim and cleanup are below it. The invariant adds up what a
  job has taken of its claim at each call (`JobTimes`), and what a stop has taken at each hook
  (`StopTimes`).

### HTTP API, pages and money (`HttpApiProofs`)

For any wallets, calls, messages, page sizes, entry ids, number of steps back of the clock,
any `MaxInt`, and texts of any length:

| Theorem | States |
|---|---|
| `ApiInductive` | `HttpSpec => []IndInv` |
| `MoneyCorrect` | `HttpSpec => []MoneyExact`: accepted are exactly the well-formed texts that fit, with their value, and what `String` writes is read back |
| `WalkCorrect` | `HttpSpec => []WalkComplete`: pages neither skip nor repeat |
| `ReconcileCorrect` | `HttpSpec => []ReconcilesAlways`: no difference is reported |
| `AnswersCorrect` | `HttpSpec => []AnswersOnChain`: a shown balance and version belong together |
| `RefusalCorrect` | `HttpSpec => []RefusalIsTrue`: what was refused was not recorded |

Assumptions, beside those of the store: calls and messages carry typed commands, page sizes are
positive, a wager call that passes the checks of its handler has a provider (the handler takes
it from the token and refuses a call without one), texts consist of digits, points and other
characters, and entry ids are positive.

*Data.* `Reconcile` adds up a whole ledger, `ParseMoney` and `String` go over digits, and
`Ledger` sorts. The induction theorems of the library take an operator as a parameter, which
the provers cannot instantiate, so induction is done by a least counterexample: a set of
natural numbers without a least element is empty (`Least`, `Descent`), and likewise a family of
subsets of a finite set without a minimal member (`Minimal`). From these follow that a fold of
the library over a finite set exists and is unique, that a sum can take any element out first,
that a recursive function over the natural numbers satisfies its equation, and so

- the sum over a ledger that is a chain is its last balance: the credits and debits cancel
  against the balances between them;
- the digits that `ParseMoney` folds, shifting by ten each time, have the value that `Cents`
  gives by weighing each digit by its place, and the overflow check fires exactly when that
  value exceeds `MaxInt`;
- `String` writes digits, a point and two digits that `ParseMoney` reads back;
- a page is a longest run of the rows behind the cursor: it is sorted, every row that it leaves
  out comes after its last one, and a short page leaves out none.

*Behaviours.* None of the five is inductive alone. `IndInv` has three parts:

- `State`: the ledgers are chains up to the balances, one version per entry (`Books`); the
  result a wager froze is the balance its wallet had at that version, and no two wagers of a
  provider share a key or an external id (`Rows`); each entry has an id of its own, and stamps
  follow the commits while the clock was never set back (`Stamping`);
- `Client`: a refused command contradicts a wager that is recorded (`Contradicted`), which
  stays so and keeps it from being recorded; a row between the two reads of `getTransaction`
  still lies on the chain, since a chain only grows; what a walk has not got of the entries it
  must get lies behind its cursor (`Walking`), and an entry that is appended meanwhile has a
  stamp of its own, wherever the clock puts it;
- `Answered`: the answer under way is true, and stays true while others commit.

A commit of whichever transport is one recording of an outcome, which lengthens one ledger by
at most one entry (`CoreStep`, `Grows`); every other step leaves the tables alone. Each action
then has one lemma for the part of the invariant it can disturb.

### Model-checked only

Liveness under fairness, which is out of the prover's reach: `PendingResolves`,
`CommandsAnswered`, `EventsPublished`, `MessagesSettle`, `CallsAnswered`, `KeysLearned`,
`StopEnds`.

## Findings

**The audit rejects a legal row.** A bet in another currency than its wallet's is rejected with
`CURRENCY_MISMATCH`, and the result it freezes is the balance of the wallet in the wallet's
currency (`src/internal/adapters/postgres/process.go:224`, stored at line 280). The
`result_currency` check of `src/scripts/audit.sql:192` reports as FAIL every terminal row whose
`result_currency` is not the `currency` of the wager. One such command is enough: the run
`result_currency` shows it. The stored data is sensible; the audit is stricter than the code.

**The stamp does not order the sends.** `src/internal/adapters/postgres/events.go:56-59` says of
`created_at` that "the column decides the order the publisher claims and sends in", and
`src/ARCHITECTURE.md:118-119` that it decides the order of sending. The publisher claims a batch
in that order, and then starts one goroutine per record (`workers/engine.go:311`), so two events
of a wallet that are in one batch can enter the FIFO group in either order. The run `send_order`
shows it with one publisher and no fault. `src/ARCHITECTURE.md:185` says itself that the items of a
batch are published concurrently, and lines 193-195 give up the order of the commits, but for
several publishers; the comment in `events.go` promises more than either. Consumers can order by
the version of the wallet, as `ARCHITECTURE.md` recommends.

Noted without a run of their own:

- `src/ARCHITECTURE.md:242-243` says that the configuration refuses unsafe combinations of
  times. `Load` bounds `SHUTDOWN_TIMEOUT` by the visibility timeout only; from 47 s on, Fx gives
  up at 50 s (`modules/app.go:45`) before the cleanup of a cut-off drain is over, and the pool is
  not closed. `StopIsOrderly` therefore speaks of the shorter times. Leases and visibility take
  back what is left, as after a crash.
- A replica whose clock is behind answers a movement with 400 `INVALID_WALLET`, although the same
  command succeeds a moment later. `RefusalIsTrue` holds all the same: nothing was recorded.
- The time a message needs from the queue to the process is not bounded by any setting, which is
  why an early expiry stays a fault of `InputConsumer`.

## Not modelled

- **Observability**: metrics, traces and the gauges of `observe` have no effect on the state.
- **HTTP details**: headers, paths, JSON, and the bodies of ledger pages beyond which entries they
  hold. The health routes appear as `ready` in `Lifecycle`.
- **Authentication**: signatures, claims and the JSON of the two documents.
- **Configuration**: parsing of the environment and the bounds of sizes.
- **Schema**: append-only and snapshot triggers never fire on what the code does.
- **Audit**: the WARN rows, which report backlog ages.
- **Life cycle**: the grace period of the orchestrator before SIGKILL; a kill at any moment is
  `Crash` in the modules of the loops.
- **Clocks**: a replica with a late clock is a bounded fault, not a clock that drifts.
- The migration command, generated queries, operational scripts and the load harness have no
  state that the properties speak of.

## Plan

Written, in this order: `WagerDomain`, `WagerStore`, `WagerAudit`, `WagerLedger`,
`WagerStoreProofs`, `OutboxPublisher`, `InputConsumer`, `Money`, `LedgerReads`, `HttpApi`,
`TokenVerifier`, `Lifecycle`, and the proofs of `Lifecycle`, `InputConsumer`, `TokenVerifier`,
`OutboxPublisher`, the commands, the audit and `HttpApi`. Left: explicit clocks per replica for
`occurred_at`, leases and due times, to say how long a late replica is refused.
