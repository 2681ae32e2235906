# Paystable: TLA+ models and proofs

Paystable holds a merchant's order while a payment is uncertain: it ingests
gateway webhooks, asks the gateway itself until the answers are stable, decides
the outcome once, and tells the merchant about it at least once. Its operators
watch all this in a browser dashboard, replay deliveries, rotate webhook secrets
and change the configuration. This directory specifies that machinery in TLA+,
model-checks it with TLC, and proves with TLAPS, for every number of transactions,
instances, tabs, events and faults, each safety property the passing runs check and
both refinements; liveness is left to TLC.

`PROJECT.json` lists components, runs, mutants, the definition-to-source map,
findings, hazards and theorems. Paths below are relative to the repository.

## 1. Inventory

Several instances of one Go binary share a Postgres database. They never talk
to each other: everything on the server interacts through tables, row locks and
unique keys, and every goroutine may die between two statements. The dashboard
is one page of React served by the same binary; it holds no lock and no
subscription, and knows the system only by the answers of the admin API.

| Component | State it keeps | Operations | Talks to |
|---|---|---|---|
| Hold creation, `internal/hold/{store,handler}.go` | `holds` | create (idempotent), read | merchant |
| Webhook ingestion, `internal/webhook/handler.go` | `webhooks`, `webhooks_rejected` | verify signature, store, enqueue the first poll, quarantine | `verification_polls`, `gateway_secrets` |
| Polling stabilizer, `internal/stabilizer/worker.go` | `verification_polls`; a goroutine per claimed poll | claim, take a token, ask the gateway, record, judge the streak, schedule the next poll or write a verdict | `holds`, `ledger`, `outbox`, gateways |
| Token bucket, `tokenbucket_db.go` | `rate_limits` | acquire | the stabilizer |
| Lag estimator, `lag.go` | samples in memory | record, schedule | the stabilizer |
| TTL scanner, `internal/stabilizer/ttl.go` | a batch of holds in memory | claim expired holds, final check, verdict | `holds`, `ledger`, `outbox`, gateways |
| Outbox delivery, `internal/delivery/worker.go` | `outbox`; goroutines behind a semaphore | claim, post, mark delivered, reschedule, exhaust, reap | merchant, `ledger` |
| Admin API, read side, `internal/adminapi/{handler,transactions,overview}.go` | none | list, detail and timeline, counters, exhausted deliveries, mismatches | all tables, dashboard |
| Admin API, write side, `internal/adminapi/mismatches.go` | `outbox`, `gateway_secrets`, configuration in memory, `.env` | replay a delivery, rotate a secret, change the configuration | dashboard |
| Secrets and configuration, `internal/{secrets,config}` | `.env` | encrypt, decrypt, load | admin API, webhook ingestion |
| Dashboard: Transactions, `dashboard/src/pages/Transactions` | controls, table, drawer, copy timers, fetches in flight | search, filter, page, open a row, copy its payload | read side |
| Dashboard: Overview, Health, Mismatches, Verification | per page: answers, replay buttons | load, replay, run the demonstration | read side, replay |
| Dashboard: Config, and Health's rotation form | inputs as edited, configuration and status as read | edit, save, rotate | write side |
| Status stream, `internal/sse` | last status sent | stream status changes | `holds` |
| Expiry sweeper, `internal/hold/scanner.go` | `holds` | a second TTL scanner; the binary does not start it | gateways |
| Schema, `internal/database/migrations` | tables, trigger, unique keys | refuse illegal transitions and duplicates | all of the above |
| Scout, `internal/verification`, and `testkit` | a simulated merchant, schedules, traces | run, check, reduce and search schedules | nothing at run time |

What makes each of them correct:

- **Stabilizer and TTL scanner.** One outcome per hold, with one ledger row and
  one callback, whoever gets there first; an outcome only on the evidence the
  README asks for; every hold resolved in the end; polling that stops.
- **Webhook ingestion.** A redelivered event starts nothing; a lost enqueue or an
  early webhook must not leave a hold open for ever; it accepts exactly the
  secrets whose rotation window runs.
- **Delivery.** A callback is called delivered only after a 2xx; it is given up
  only for a reason; crashes lose no callback; no two attempts overlap as long as
  the reaper's two minutes are enough.
- **Rotation.** The new secret counts at once and for good, the old one until its
  window ends, secrets do not pile up.
- **Configuration.** A save changes what the operator typed and nothing else; a
  restart is possible and brings back what was in effect.
- **Replay.** A callback is queued again once per exhaustion, and whoever is told
  so did it.
- **Transactions page.** Table, pager, drawer, verdict and copied mark say what
  they are labelled with although answers come late, out of order or not at all.
- **Other pages.** A headline that says all is well was true; a page stops loading.

The behaviours that are hard: races between chains, scanners and instances;
answers recorded in one statement and used in a later one; crashes that strand
rows marked in_flight; webhooks redelivered or before their hold; the reaper
racing a slow attempt; operators acting in the middle; answers that reach a page
which has moved on; requests whose effect remains when their answer is lost;
several queries that make up one answer without a transaction. `PROJECT.json`
lists each at its line, under "hazards".

## 2. Modules

| Module | What it is |
|---|---|
| `HoldLifecycle` | abstract: what a merchant is promised about one hold |
| `Stabilizer` | hold creation, webhook persistence, poll worker, TTL scanner, verdict transactions, crashes |
| `MCStabilizer` | constants for TLC |
| `StabilizerProofs` | type correctness and `OneOutcome`, proved |
| `StabilizerRefinement` | `Justified`, and that `Stabilizer` implements `HoldLifecycle`, proved |
| `StabilizerPolling` | which polls may be stranded, how many chains a hold has and how long one is, proved |
| `CallbackPromise` | abstract: what is promised about one queued callback |
| `Delivery` | the outbox worker: loop, semaphore, attempts, outcome transactions, reaper, replay, crashes |
| `MCDelivery` | constants for TLC |
| `DeliveryProofs` | type correctness of `Delivery`, and that delivered means acknowledged, proved |
| `DeliveryRefinement` | under `Timely`: no overlapping attempts, the retry budget, and that `Delivery` implements `CallbackPromise`, proved |
| `TransactionsPage` | the Transactions page and its drawer over the read side of the admin API |
| `OperatorPages` | Overview, Health, Mismatches and Verification in several tabs, and the replay of deliveries |
| `ConfigPage` | Config, Health's rotation form, rotation, `.env`, restart, and which secrets are accepted |
| `MCTransactionsPage`, `MCOperatorPages`, `MCConfigPage` | constants for TLC |
| `TransactionsPageProofs` | types, list query, drawer and table of `TransactionsPage`, proved |
| `OperatorPagesProofs` | types, replays and headlines of `OperatorPages`, proved |
| `ConfigPageProofs` | rotation and `.env`: types, what is accepted, what the banner says, what a save sends and what a restart brings back, proved |

`Delivery` starts where `Stabilizer` ends: the callback `Conclude` appends to
`outbox` is the row `Enqueue` makes pending. The two are checked apart, because
neither reads what the other writes afterwards. The three modules of the
dashboard contain the part of the admin API their pages call, and move the tables
these read the way the server's components do, without the components' own
conditions: `Conclude` of `TransactionsPage` stands for `Stabilizer`,
`DeliverOrExhaust` of `OperatorPages` for `Delivery`.

### Stabilizer

One action is one SQL statement or one transaction, so whatever another
goroutine or instance can do between two statements is explored.

| State | Code |
|---|---|
| `hold`, `expired` | `holds.status`, `expires_at <= now()` |
| `seen` | `webhooks`, by gateway event id |
| `poll`, `used`, `done` | `verification_polls`: the rows by insertion, and the answers of completed ones by `completed_at` |
| `ledger`, `outbox` | `state_transition` rows; queued callbacks by idempotency key |
| `handler`, `job`, `scanner` | HTTP handlers, poll goroutines and TTL scanners: where each is and what it has read |
| `finalSeen` | history: answers of final checks; the code keeps them nowhere |
| `faults` | crashes and failed statements so far |

| Action | Code |
|---|---|
| `CreateHold` | `Store.Create` |
| `WebhookInsert`, `WebhookEnqueue`, `WebhookEnqueueFails` | the two statements of `persist` |
| `ClaimPoll` | `Run`; a batch of ten is ten claims in a row |
| `Requeue`, `NoClientFails`, `AskGateway`, `RecordError`, `RecordAnswer`, `Judge`, `ScheduleNextPoll`, `Settle`, `JobFails` | `processPoll`, statement by statement |
| `TtlClaim`, `TtlCheck`, `TtlSettle` | `claimExpiredHolds`, `resolveExpiredHold` |
| `Conclude` | `finalizeHold`, `markHoldExhausted`, `markHoldWithAmountReview`, with the trigger and the unique key |
| `Crash` | the process ends (a graceful shutdown does not wait for background goroutines either) |

A gateway's answer is reduced to what the code tells apart: a success with the
hold's amount or another one, a failure in lower case or another case, any other
status, an error. Left out: `scheduled_at` (a pending poll may be due at any
time), alerts, metrics and payload texts. `completed_at` order is taken to be the
order in which results are recorded. PayU webhooks without a `mihpayid` have no
event id; each is an event of its own. `VERIFYING` is in the schema and in the
queries, but nothing the binary starts ever sets it. `N` is fixed, although an
operator can change it at run time (section 6).

### Delivery

| State | Code |
|---|---|
| `row` | `outbox.status`, `outbox.attempts` |
| `aged` | `last_attempt_at < now() - 2 minutes` |
| `work` | claimed rows in memory, waiting for the semaphore or in a goroutine, with the attempts they were claimed with |
| `log` | ledger rows of source `delivery` |
| `heard` | history: how merchants answered; the code keeps only the last status |
| `claims`, `replays`, `faults` | counters of the bounds |

| Action | Code |
|---|---|
| `ClaimBatch` | `claimBatch`, `markInFlight`; the loop claims again only after its last batch is handed over |
| `Start`, `Post`, `Finish` | `deliver` and the outcome transactions, each of which may fail |
| `Age`, `Reap` | two minutes pass; `runReaper` |
| `ReplayDelivery` | `replayDelivery` of the admin API |
| `Crash` | the process ends, whatever the merchant has already seen |

A claim may take any set of pending rows: `next_attempt_at` and the order of the
queue are abstracted. `Timely` says whether claims are worked off within two
minutes. The code does not ensure that: a batch of ten behind
`DELIVERY_WORKER_CONCURRENCY=1` and `DELIVERY_TIMEOUT_S=30` waits longer, and the
database calls have no timeout. So both cases are checked, and what is lost
without it is stated.

### TransactionsPage

| State | Code |
|---|---|
| `db` | per hold: status, webhooks by arrival, the status its ledger row names |
| `searches`, `details` | fetches in flight, each at the query it has reached |
| `ui`, `table` | `useState` of the page: query, chip, page number, loading, error; rows and total as last set |
| `drawerOpen`, `selectedTxn` | the drawer, its detail |
| `json` | `JsonBlock`: "Copied!", its timers, whose payload is being copied; as history, whose was written |
| `last`, `clicked`, `crossed`, `lost` of a detail | history: the latest search, the latest row clicked, whether over an unanswered one, whether the ledger query failed |

| Action | Code |
|---|---|
| `Conclude`, `ReceiveWebhook` | what other components commit meanwhile |
| `Type`, `handleKeyDown`, `handleFilterClick`, `handlePage` | the controls |
| `CountHolds`, `ReadHolds`, `SearchAnswered`, `SearchFailed` | the two queries of the list; `search` after its `await` |
| `handleRowClick`, `ReadDetail`, `DetailAnswered`, `DetailFailed` | the queries of the detail in their order (`ReadOrder`), each but the first answering whole or, its error swallowed, cut off (`Cut`); the answer |
| `onClose` | the drawer is closed |
| `handleCopy`, `CopySettled`, `CopyTimer` | a payload is copied: before and after the `await`, with a fallback whose result nobody looks at, and the timer of the mark |
| `Leave`, `Visit` | the router; late answers are dropped |

### OperatorPages

| State | Code |
|---|---|
| `outbox`, `busy`, `rejecting` | `outbox.status`; the two other numbers a headline depends on |
| `view` | per tab: the page mounted, loading, answers, replay buttons, the demonstration |
| `posts` | replays in flight; one whose page is gone goes on |
| `exhaustions`, `requeued`; `calm`, `still` of a view | history: how often a row was given up and queued again; what the outbox did since the page was mounted |

`DeliverOrExhaust` and `Traffic` are the server; `Visit`, `AnswerRead`,
`LoadDone`, `LoadFailed` the effect of a page with its `Promise.all`;
`handleClick`, `replayDelivery`, `ReplayAnswered`, `ReplayLost`, `ButtonTimer` the
replay button and the statement behind it; `runDemo`, `DemoEnds` the Verification
page, whose demonstration ends like a load does. A count whose query fails reads as zero, as in the code.

### ConfigPage

| State | Code |
|---|---|
| `up`, `cfg`, `env` | the process, `h.cfg` in memory, the lines of `.env` with their texts |
| `rows`, `over` | `gateway_secrets` of one gateway; the windows that have ended |
| `calls` | POSTs, each at the statement it has reached, with what it has read |
| `view` | per tab: page, configuration and status as read, inputs, form |
| `begins` | the order of `created_at` |
| `newest`, `mishaps`, `unapplied`; `touched`, `crossed` of a view | history: the secret committed last; whether calls overlapped or lines of `.env` were lost; the variables a crash met between the file and the memory; what was typed over, and whether while reading again |

| Action | Code |
|---|---|
| `CountActive`, `FindOpen`, `CommitRotation` | `rotateSecret` under READ COMMITTED: what the count and the UPDATE see, and the commit |
| `ReadEnv`, `Truncate`, `WriteEnv`, `WriteFails`, `ApplyConfig` | `updateConfig`: `os.ReadFile`, whose error is taken for an empty file, the two halves of `os.WriteFile`, of which the second may fail, the assignments to `h.cfg` (`Applied`: a number only if it parses) |
| `Refuse` | a check, a statement or the commit fails |
| `WindowEnds`; `Accepted` | a window ends; the secrets `verify` accepts |
| `Crash`, `Start` | the process ends at any statement; `Load` needs `Required` and takes `Loaded`: the environment of the process, else the stripped text of the line, else the default |
| `ReadConfig`, `ReadStatus`, `Visit`, `LoadDone`, `LoadFailed` | a page with its two reads |
| `Edit`, `CancelEdit`, `handleSaveConfig`, `ConfigRefreshed`, `RefreshFailed` | editing and saving |
| `OpenForm`, `CancelForm`, `handleRotate`, `StatusRefreshed`, `StatusFailed` | rotating |
| `PostAnswered`, `PostLost` | the answer of a POST, or its loss |

Texts and values are the digits 0..9 and the blank. What `strings.TrimSpace` and the
removal of quotes make of a text, which texts are numbers, and the defaults are the
constants `Stripped`, `Number` and `Default`. Secrets typed into a rotation form are
numbered after the digits, so every rotation brings a secret of its own. A window is named after its rotation.
The length of a window is left out: it may end at any time. Rows are decryptable
under the key they were encrypted with.

## 3. What is checked

| Run | Instance | Shows |
|---|---|---|
| `stabilizer_race` | 1 hold, 2 events, 3 kinds of answer, N=2, 4 poll rows, 1 fault | two chains and a scanner race: one outcome (`OneOutcome`), one chain per event, polls stranded only by faults, refinement of `HoldLifecycle` |
| `stabilizer_evidence` | 1 hold, 1 event, 2 instances, all answers, 1 fault | verdicts only on evidence (`Justified`), at most 2N-1 attempts in a chain |
| `stabilizer_live` | 2 holds, one without a gateway client, TTL batch of 1, window = N | every hold resolved, polling ends |
| `stabilizer_ttl_claim` | violation | two scanners share a hold |
| `stabilizer_ttl_case` | violation | a final check answered `FAILED` ends `INDETERMINATE` |
| `delivery_timely` | 2 rows (one to a refused address), 2 instances, 3 attempts, 2 faults, 1 replay | attempts never overlap, the retry budget, refinement of `CallbackPromise` |
| `delivery_slow` | 2 rows, 2 instances, 2 attempts, 3 claims, without `Timely` | overlapping attempts: delivered still means acknowledged |
| `delivery_live` | 2 rows, batch and concurrency 1 | every callback is settled |
| `delivery_final` | violation | a delivered callback is reopened by a late attempt |
| `transactions_page` | 3 holds on 2 pages, 2 texts, 2 chips, 3 fetches, 1 change of the database, queries that fail unnoticed | table, pager, drawer, verdict and copied mark are true of what they are labelled with; loading ends |
| `operator_pages` | 1 delivery, 2 tabs opened on Health, 2 clicks, 1 visit, 1 outcome of the worker, 1 failing count | one requeue per exhaustion, "Replaying" means requeued, headlines were true, pages settle |
| `config_page` | 1 tab, 1 number and 2 secrets, 3 POSTs, 1 crash, lost connection or page left, 1 failed read or write | secrets are accepted as long as they should, saves write edits only, a restart is possible and keeps the configuration |

`DrawerShowsClicked`, `TimelineExplainsStatus`, `CopiedIsShown`, `EmptyMeansNone`,
`AllClearWasTrue`, `ActiveShownIsTrue`, `AtMostOneOpen`, `SaveWritesOnlyEdits`,
`SavedSurvivesRestart` and `RestartPossible` hold with exceptions,
which their history variables name and their comments explain: those are the cases in which the pages really say
something false (section 4).

Bounds. `MaxPolls` limits the poll rows of a hold, `MaxFaults` crashes and failed
statements, `MaxClaims` the claims of an outbox row, `MaxReplays` replays. Four
poll rows let one chain run past its limit of N = 2, or two chains run two polls
each, which is enough to complete, break and mix streaks; the third possible
attempt of a chain (2N-1 = 3) fits, and so does the fourth the property excludes.
One fault strands a poll, loses a scanner's batch or undoes a verdict; a second
adds nothing new to a single hold in `Stabilizer` but does in `Delivery`, where
it is allowed. In the live run chains end before `MaxPolls` binds (t2's chain
stops at once, t1's makes at most three attempts). In the delivery runs
`MaxClaims` is at least `MaxAttempts * (MaxReplays + 1) + MaxFaults` wherever
`RetryBudget` or liveness is checked, so the bound itself never stops a claim.
Instances are interchangeable and are a symmetry set in the safety runs.
Three fetches are a search, another that overtakes it and one more, or a row
clicked over an unanswered one; three holds on pages of two make a last page that
is not full and a filter that leaves one page. One change of the database falls
between any two queries of an answer, a verdict (`Outcomes` holds two of the three) or a
webhook; one timer (`MaxTimers`) means that a payload is not copied again while the
mark of a first copy stands. In `operator_pages` the row may begin
exhausted or be exhausted while a page loads, so that both tabs see and replay the
same row, and one visit leaves a page with a replay in flight. Three POSTs are
three rotations, of which two overlap and one follows, three saves, or saves
between the statements of a rotation; one tab sends them all, since a form may be
used again once its answer is lost or its page left. The number is typed in quotes, so
that memory and restart differ about it; the secrets are typed plainly, so that the
properties bind them. `FileMayFail` allows one failed read or write of `.env`, and none
after the last crash, lost connection or page left.
Deadlock is not checked: when holds are resolved and callbacks settled, the
system rests.

Fairness. Tickers of one and ten seconds keep claiming, and goroutines run on:
weak fairness. A poll that is claimed again and again gets a token, because the
bucket refills at one per second: strong fairness of the call. The delivery loop
takes due rows in the order of `next_attempt_at`, so a row due again and again is
claimed, and batches and semaphore slots are served in turn: strong fairness per
row. The HTTP clients have timeouts: weak fairness of answers. Nothing forces a
merchant to create a hold, a gateway to send a webhook, an operator to act, or
the environment to fail. Of the dashboard, a fetch ends with an answer or an error,
because the browser gives up on a connection in the end: weak fairness of the
steps of a search, of the reads of a page and of the demonstration. `ConfigPage` states no fairness.
`DELIVERY_TIMEOUT_S=0` would remove the timeout and
`DELIVERY_WORKER_CONCURRENCY=0` would stop the loop; both are configurations the
runs exclude.

Every property of a passing run is also checked to fail when a definition is
replaced by a plausible mistake; these wrong variants stand next to the
definition they replace and are commented as such.

## 4. What the violations show

1. `internal/stabilizer/ttl.go:46-47` says SKIP LOCKED keeps instances from
   grabbing the same row. The query runs outside a transaction and changes
   nothing, so it does not. The verdict transaction still lets only one outcome
   through; the price is a second gateway call, and that the first of two
   different answers wins.
2. `README.md:120` promises FAILED for a verified failure; `ttl.go:107` compares
   the status without normalising it, as the poller does, and `FAILED` in another
   case ends in INDETERMINATE.
3. `docs/callback-contract.md:102` says a 2xx marks delivery complete. Outcomes
   are written by id alone (`worker.go:214`), so an attempt that outlives the
   reaper can move a delivered row back to pending or to exhausted.

Disagreements on the dashboard that the properties had to make an exception for, or
that became plain while modelling, without a run of their own:

- `Transactions/index.jsx`: an older search whose answer comes last replaces the
  newer one's table and pager under the newer one's controls, and its late error
  hides a good answer (`ShowsLatest`). Paging after typing, without Enter, searches
  the new text at the old page number and may say "No transactions found" of holds
  that exist (`stray`). A row clicked over an unanswered one may show either
  detail (`crossed`).
- `TimelineDrawer.jsx` says "The merchant was notified." of every CONFIRMED hold,
  whatever became of the callback, and shows a poll as failed unless its status is
  `captured`, which no PayU status is.
- `transactions.go`: all queries of a detail but the first swallow their errors
  (353-355, 205-207, 392-394): a failed ledger query is answered with 200, a final
  status and no transition (`lost`), a webhook query that breaks off with fewer
  webhooks.
- `JsonBlock.jsx`: the fallback ignores the result of `execCommand('copy')`, so
  "Copied!" is shown although nothing was copied (`holds` is `NoTxn`). Each copy starts
  a timer of its own, so the mark may vanish early after a second click.
- `Overview` reads `total_7d` where the server sends `last_7_days`, so its tile is
  always zero; the seven-day filter of `mismatchStats` binds to the second branch of
  its OR only.
- After a failed load, or when a counting query fails, Overview says "All systems
  operational" and Health "Everything looks normal" (`failed`, `fault`). The table
  of Health is never read again after a replay. Mismatches shows and exports the
  newest 25 only. The mock's answer to the verification POST would break the page;
  the mock is dead code.
- Health's rotation form sends no gateway and can only be refused
  (`NamesGateway`). Rotating Razorpay stores the configured PayU secret as the
  current one (`mismatches.go:170`).
- Once a secret is in the database, saving `WEBHOOK_SECRET` changes nothing. After
  `SECRET_ENCRYPTION_KEY` is changed, rotated secrets are skipped and the configured
  one counts again; a rotation then refuses it at once, although the README promises
  that both are accepted (`AcceptedUntilWindowEnds`).
- "ROTATION ACTIVE" depends on which of the two rows of a first rotation comes first,
  as both have the same `created_at`, and is never shown after a second rotation,
  whose newest row has no window (`ReadStatus`).
- Edit pressed while the page reads the configuration again after a save copies the
  old values, and the next save sets that save back (`crossed`).
- A save and a start read a text differently. A save keeps the text in memory as typed,
  or, for a number that does not parse, keeps the old number and still reports success
  (`mismatches.go:292-306`); a start strips spaces and quotes, takes the default for
  what is blank or does not parse, and prefers a variable of the process environment
  (`config.go:111-142`). So a restart changes what was typed in quotes, blank, or as no
  number, and a `WEBHOOK_SECRET` saved blank lets no server start (`Plain`). A value
  that is one single quotation mark makes `loadDotEnv` slice out of range (`config.go:115`)
  and the start panic; `Stripped` gives every text a result, so the model does not show
  it.
- A failed read of `.env` is taken for an empty file, and the request's lines alone are
  written; a failed write leaves the file empty, as a crash between truncating and
  writing does (`lost`). The configuration in memory is unaffected until the restart.

## 5. What is proved

For all constants that satisfy `ConstantsOK` of each module:

- `TypeCorrect`: `Stabilizer!Spec => []TypeOK`. Inductive by itself. An action
  that indexes poll row `used + 1` stays in range by the guard of `InsertPoll`.
- `AtMostOneOutcome`: `Spec => []OneOutcome`. `TypeOK /\ OneOutcome` is
  inductive: only `Conclude` writes holds, ledger and outbox, and on an open hold
  both sequences are empty, so the three writes leave one row each. The same
  lemma shows why the unique key never refuses a verdict.
- `VerdictsJustified`: `Spec => []Justified`. A verdict is reached by one action
  and written by another, so an invariant about `hold` alone cannot be
  inductive: `Justified` says of every goroutine that is about to write a verdict
  that the evidence is in the tables already, of every recorded answer that it
  is among the completed polls, and of rows not yet inserted that nobody works on
  them. It is preserved because evidence only grows (`done` is only appended to,
  `attempt` of an inserted row is fixed, `finalSeen` only gains members).
- `ImplementsLifecycle`: `Spec => RefinesHoldLifecycle`. With the three
  invariants every step of `Stabilizer` maps to `Create`, to `Observe`, to
  `Resolve` or to a stutter of `HoldLifecycle`: in particular a step that resolves
  a hold touches one hold only and adds no evidence, and a step that adds
  evidence is about a hold that exists.
- `DeliveryTypeCorrect` and `DeliveredOnlyWhenAcked` in `DeliveryProofs`:
  `Delivery!Spec => []TypeOK` and `[]DeliveredMeansAcked`, with or without
  `Timely`. Type correctness needs `Room`: a row that may still be sent, and
  whoever holds a claim on it, is at least one attempt below the limit. It is
  what keeps `attempts + 1` within the limit although late attempts write over
  newer ones. `DeliveredMeansAcked` needs that a claim that carries a 2xx is of a
  row whose merchant did answer so, and that a claim of a refused address never
  reaches the network.
- In `ConfigPageProofs`, `NewSecretIsAccepted`, `OneOpenSecret`,
  `RestartKeepsConfiguration`, `RestartIsPossible` and `RefusedOnlyWhenWindowEnds`: the
  safety of rotation and of `.env`, for any number of tabs, POSTs, crashes and lost
  connections. The invariant says what is still true of what a call has read: a rotation
  under way has opened no window yet (so the rows it closes stay accepted), one that is
  not the first will find a row, and, as long as no two met, what it has found are the
  open rows. For the restart, `OneSave` says with `Restored` that what a start would make
  of `.env`, or of the lines a save has read, is the value in memory, except where the
  property says so. Two steps need it. A crash after the file is written leaves the
  variables of that save apart (`unapplied`, `MergedRestored`). When the save is applied,
  what it has added is `Plain` or excepted, and a plain text means the same to `Applied`
  and to `Loaded` (`AppliedRestored`). `RestartKeepsConfiguration` is then about the step
  `Start` alone, as no other step brings the server up (`OnlyStart`).
  `RestartIsPossible` follows from the same invariant: a line that is `Needed` stays in
  every file a save works with. `Inv` is inductive because the two kinds of calls disturb
  different parts of it (`SecretsKept`, `ConfigKept`), and because a process that is down
  has no save under way.
- In `OperatorPagesProofs`, `ReplayedOncePerExhaustion`, `ReplayingMeansRequeued`,
  `HeadlinesWereTrue` and `CountsAgreeWithTable`: what the buttons and headlines of
  any number of tabs say. Two invariants carry them. `Inv` counts, per row, the
  buttons that show a success and the replays that the server answered with one but
  whose answer is still on its way: together they never exceed the requeues, and an
  exhausted row has been given up once more than it was queued again. `Saw` relates
  what a tab has read to the outboxes it has seen: a count of none was read while
  none was exhausted, and as long as the outbox stands still, count and list are
  those of now.
- In `StabilizerPolling`, `NoPollForgotten`, `EventsBoundChains` and
  `AttemptsAreBounded`: `OnlyFaultsStrandPolls`, `OneChainPerEvent` and
  `PollingBounded`. Chains are counted with an invariant that says which events have
  been served, that is, stored and not waiting for their enqueue: a step lets no
  chain be born, or one of an event not served before, or moves one on to the next
  row (`ChainsMove`), so live polls never exceed events served; with `ClaimedOnce`, that a
  row a goroutine works on is not pending. The length of a chain needs that rows of a
  single chain are numbered by their attempts and that, beyond the N-th, the
  rows before the live one are a run of successes (`RunOf`): the run is a
  streak before row 2N is inserted.
- In `DeliveryRefinement`, `AttemptsNeverOverlap`, `RetriesStayInBudget` and
  `ImplementsPromise`: `OneAttemptAtATime`, `RetryBudget` and `KeepsPromise`. Under
  `Timely` a row that is worked on is in flight, not aged, has the attempts it was
  claimed with and one goroutine (`Exclusive`); every claim is paid for by a counted
  attempt, a fault, a replay, or is still open (`Budget`); and every attempt that is
  counted did fail (`Counted`). With it
  each step maps to one of `CallbackPromise` or to a stutter.
- In `TransactionsPageProofs`, seven theorems: the type invariant and the six
  safety properties of drawer and table. `DrawerInv` says of every detail, in
  flight or shown, what is still true of the hold it was read from: webhooks are only
  appended, so even a list that broke off begins with the first; a final status and its
  ledger row stay, so once the status is read as final, the ledger read later is its
  transition or `lost` is set. It says who may still write into the
  drawer: one fetch at most unless a row was clicked over an unanswered one, and that
  a copy under way is of the payload its block shows.
  `TableInv` says of every search in flight, and of the table, that while no hold has
  moved its rows and total are those of its parameters, and that the latest search has
  the parameters of the controls. The recursion that stands for the list query enters
  with the lemma `FoundSelects`, an induction over data done with a
  set of numbers in place of a predicate (`LeastNumber`, `Induction`).
- In `ConfigPageProofs`, further `ConfigTyped`, `BannerIsTrue` and `SavesAreEdits`.
  `ServerInv` keeps secrets apart: the secret of a rotation is in one row at most, is
  not yet in any while the rotation is under way, and no row without a window
  holds a configured one. So two active rows under the configured key are two accepted
  secrets, which is what the banner claims. `PagesInv` says of a tab that nothing is
  edited or sent while it loads, that inputs not typed over equal what is shown unless
  Edit was pressed while it read again (`crossed`), and that it waits for one call of
  each kind at most.
- In `OperatorPagesProofs`, further `PagesTyped`.

Assumptions. `ConstantsOK` says of each module's constants what the code's
configuration allows. Two kinds of theorems have a hypothesis more, the one their run
makes too. The three of `DeliveryRefinement` assume `Timely`, which the code does not
ensure (section 2); `DeliveredOnlyWhenAcked` is what holds without it, and
`delivery_slow` shows that attempts do overlap then. `AttemptsAreBounded` assumes
`N <= Window`: the query of a streak reads the newest `Window` answers (20 in the code),
so a longer streak would never be seen. The default of `STABILIZATION_N` satisfies it;
the code does not check it.
`PollingBounded` and `OnlyFaultsStrandPolls` are about executions without a fault, as
they say themselves.

What the proofs corrected in the models. `ActiveShownIsTrue` was false from four POSTs
on, one more than the run makes: overlapping rotations under different encryption keys
leave the banner shown while one secret is accepted, so its history now says whether a
row was stored under another key. The guards of `buildVerdict` overlapped where the
code's `if`s are ordered, which leaves a `CASE` unspecified; they are disjoint now.
The list query, first written with `SelectSeq`, is a recursive function, which can be
reasoned about, and `Overlay` replaces the function override of the library.

Only model-checked: liveness, which is out of the prover's reach (`EveryHoldResolved`,
`PollingEnds`, `EveryCallbackSettled`, `LoadingEnds`, `PagesSettle`). The order in which
the list query returns its rows is not stated as a theorem.

## 6. Not modelled

- Cryptography (signatures, AES-GCM), HTTP, JSON, metrics, alerts and logging. The
  alert that is sent before a commit is a hazard without a property.
- `STABILIZATION_N` changed at run time, `DELIVERY_WORKER_CONCURRENCY=0` and
  `DELIVERY_TIMEOUT_S=0`: `N`, `Concurrency` and the timeouts are constants.
- The token bucket's arithmetic and the lag estimator: in `Stabilizer` a token may
  always be refused and a poll may become due at any time, which covers whatever
  they compute. The status stream reads one column and changes nothing. The expiry
  sweeper is not started by the binary.
- Hold creation's conflict check (409), its tokens, webhook parsing and quarantine,
  gateway adapters' HTTP, the migration runner.
- Of `Stabilizer`: that `completed_at` is `now()` of a statement, so two results may be
  recorded in one order and stamped in the other.
- Of `ConfigPage`: the length of a window; the reads of the key, of the configured secret
  and of the count of a rotation are one step, `CountActive`, into which no save falls;
  a `.env` cut off in the middle of a write counts as empty; a start that cannot open
  `.env`, which then knows the environment only; several lines with one key, comments,
  and an environment variable set to the empty text; `GATEWAY` and the other required
  variables; other gateways' rows; messages of success and failure, which guard nothing.
  A rotation form keeps the error of an earlier one, and a save's messages of success
  and failure may be shown together.
- Of `TransactionsPage`: a count that fails and reads as zero, and rows of the list that
  break off with an error nobody checks (`transactions.go:71-82`); webhooks are read in the
  order of their commits, the code's `received_at` may differ for two at once; status
  counts, polls, rejected webhooks and callbacks in the drawer, which explain no status;
  the drawer's effect on the scrolling of the body, the folding of the JSON block, a
  second copy while one is under way, colours, wording and layout.
- Of `OperatorPages`: the four counts of `overviewStats` are read in one step; the list of
  deliveries has no limit of 200 rows and does not break off; tiles and tables of numbers,
  the contents of the mismatch list, the CSV export, and the demonstration's report, which
  change no state.
- The dashboard's mock API (dead code: `USE_MOCKS` is false), formatting helpers,
  badges and layout.
- Scout and the test kit: a laboratory beside the product, with floating-point
  scoring and reports.

## 7. What could follow

The receiving merchant composed with `Delivery`: deduplication by idempotency key
turns at-least-once into one effect. A model of `STABILIZATION_N` changing under
running chains. Reductions of liveness to safety that the prover could check: a
bound on the steps a hold can still take.
