# ERP-IOT: specification and verification

ERP-IOT is the central layer above marina power and water cabinets ("pedestals"). A cabinet
measures and switches; the ERP starts sessions, imports what the cabinets measured, keeps
consumption history, watches alarms, and (from phase 7 on) bills. This directory holds TLA+
models of it, the TLC runs that check them and TLAPS proofs about them. Paths below are in the
repository, under `backend/app/` unless they start otherwise.

## 1. The system

### Processes

| process | where | what it writes |
|---|---|---|
| web workers (one in `docker-compose.yml`, `--workers 2` in `DEPLOYMENT.md`) | `routers/*` | session rows (webhooks), alarms, pedestal rows, audits, accounts, mapping, credit |
| collector thread, one leader over all processes | `services/collector.py` | session rows (pull), intervals, meter state, alarms, cache, retention |
| security agent, a process and database role of its own | `agent/` | security alarms, "I ran" rows |
| the cabinets | outside | their own sessions; webhooks, once and without retry |
| billing | not in the repository yet | `billing_state = 'billed'` |

They share one PostgreSQL database at READ COMMITTED, through SQLAlchemy sessions with
`autoflush=False`, and nothing else: no row is locked, except in the credit ledger.

### Components, their state and what makes them right

| component | state | operations | correct when |
|---|---|---|---|
| session import: `services/session_sync.py`, `cabinet/session_payload.py` | `sessions` rows | `find`, `apply` | a payload reaches only a row it may belong to; a doubtful figure goes to a person; a billed row never moves |
| pull reconciler: `services/reconciler.py` | `reconciliation_runs`, `sessions` | range pages, by user, refresh of open sessions, ack, failed run | every ended session is reconciled with the final figure, whatever fails; the cabinet is told only of billed sessions |
| webhook receivers: `routers/webhooks.py` | `session_log`, `sessions`, `alarm_log`, pedestal rows of `pedestal_cache` | session and alarm events, readings | speed only: never reconciles, never bills; a reading shown is the newest of its kind |
| metering: `record_reading` in `services/collector.py` | `outlet_meter_state`, `consumption_intervals` | seed, reset, extend, new interval | every unit of the register is in one interval, once; a session gets only its own |
| retention: `services/retention.py` | all growing tables | roll-up of intervals, deletes by age | moves consumption, never loses or doubles it; deletes nothing still needed |
| collector: schedule and leadership | in-memory due times, advisory lock | tick, tasks, nightly, leadership | one process collects; every task comes due again |
| alarm log: collector, webhooks, `routers/alarms.py` | `alarm_log` | store from poll and webhook, acknowledge | one row per cabinet alarm; the acknowledgement finds it |
| cabinet client: `cabinet/client.py` | token, memory of routes not enabled, cache | call, re-login, retry, stale answer | an old answer is never taken for a fresh one; resends are bounded |
| commands and audit: `routers/controls.py`, `services/command_audit.py` | `command_audit` | begin, call, complete | no command without a row written before it; its outcome is true |
| credit ledger: `services/credit.py` | `credit_ledger` | post | `balance_after` is the sum of all deltas |
| accounts: `services/accounts.py`, `routers/auth.py`, `routers/users.py` | users, codes, links | sign-in, lockout, 2FA, setup links, roles | a code or link works once; an active admin remains; what is ended stays ended |
| security agent: `agent/`, `routers/security.py` | `security_alarms`, rule modes, service windows | one pass, decisions | what the rules find is put to the Admins, once; an announced window is an alibi |
| cabinets, outlets, mapping: `services/cabinets.py`, `services/nfc_tags.py` | berths, outlets, mapping, tags | replace, import and look up tags | one berth per electricity outlet; a tag is one outlet in either byte order |
| berth status and dashboard: `cabinet/berth_status.py`, `services/overview.py` | none | pure functions of stored answers | an old answer never looks new |
| broadcast: `services/websocket_manager.py`, `/ws` | connection list of a process | connect, disconnect, broadcast | who is connected hears every event of its marina, once |

### How they interact, and what is hard

* Pull and webhook are two writers of the same session row. Each reads the row, decides in
  Python and commits an UPDATE of only the columns it changed; between read and commit the
  pull awaits network answers (`_refresh_active`: one per open session).
* Webhooks are posted once: lost, late, or overtaken by the pull.
* A pull run is a sequence of transactions that may fail between any two; its success is what
  the next run's window starts from.
* A cabinet commits a session a little after its end time: a window must reach back.
* The collector sees registers, mode and sessions at different, past instants.
* Retention deletes rows that other state still points at (`last_interval_id`, the last good run).
* The POST that acknowledges billed sessions is made before the ERP stores that it made it.
* One HTTP client per cabinet server is shared by everything a process asks of it; a request
  that timed out may still be carried out after it was sent again; the process may die anywhere.
* Requests on the same account, berth or customer read, decide and write without locks.
* The agent keeps no position in the logs it reads, and rows are committed later than their time.
* The dashboard draws one picture from answers of different ages.
* A broadcast awaits every browser while others come, go and hear other events.

The hazards, each at its line and with the properties that cover it, are in `PROJECT.json`.

## 2. The modules

```
Settlement               what session reconciliation promises (abstract)
   ^ refined by
SessionReconciliation    the cabinet, webhooks, pull and billing over one table of rows
   EXTENDS SessionSync   one payload -> one row: find, apply (constant-level operators)
   uses the result of    ReconcileWindow: which sessions a range run asks for
Metering                 readings -> intervals -> monthly totals, with retention
   ^ extended by         MeteringAttribution: the real mode, and who really used the units
Collector                which process collects, and what it runs when
CabinetApi               what a cabinet answers (constant-level operators)
   ^ extended by         CabinetClient: calls over one client per server and process
   ^ extended by         Commands: audit row, call, outcome; photos; a process that dies
Alarms                   the logs: alarms by poll and webhook, decoys, sign-ins, commands
   ^ extended by         SecurityAgent: rules over the logs, passes, decisions, windows
Accounts, BerthView, Registry, Ledger, MarinaEvents
*Proofs                  theorems about the module of that name
MC*                      small instances for TLC
```

**SessionSync** translates `find()` in its three steps, `parse_session`'s review rules, and
`apply()`. A row keeps the columns the properties tell apart: the cabinet's id, status, one figure
(the register progress; NULL when the cabinet could not measure), billing state, `reconciled_at`
and `ack_sent_at` as booleans. `not_billable` and a person clearing `manual_review` are absent: no
code writes them. The figure is one number, so its recomputation from both registers always agrees.

**SessionReconciliation** has one action per database transaction step. `ApplyIn` loads a row into
the transaction (`base`) and assigns to the ORM object (`work`); `Commit` writes only changed columns
over whatever is committed by then (`Written`) and is refused by the table's constraints
(`DbAccepts`). Queries see the committed table, not the transaction's own unflushed assignments
(`autoflush=False`). `StartRange .. FinishRange`, `StartUsers .. FinishUsers` follow `reconcile()`;
`RunFails` may strike between any two steps; `AckUnanswered` is the ack that arrived and whose answer
did not. A lost webhook is one that is never received; a duplicate is not modelled (a cabinet posts a
change once). `StartRange` takes for its window any set that contains the ended sessions no good run
covered: that is what `ReconcileWindow` shows. A session committed by the cabinet during a run may
appear in that run or in the next one. The by-user limit of 100 sessions, the configuration without an
API key, and payloads that break the contract (applied to no row) are left out; `Found = {}` stands for
everything the ERP does not import.

*Assumed of billing*, which does not exist yet: it takes only `pending` rows and holds the row
exclusively against open transactions (`SELECT .. FOR UPDATE` on both sides, or a retry). With a biller
that ignores open transactions, `BilledFrozen` does not hold: a transaction that loaded the row before would
write its columns after. This is a requirement on phase 7, stated here so that it is not lost.

**ReconcileWindow** is `_last_good_window_to` and the first lines of `_range`, on a clock: `FIRST_LOOKBACK`,
`OVERLAP`, `NIGHTLY_LOOKBACK`, the deletion of old runs, late commits by the cabinet. `covered_to` and
`since` are history variables: up to where, and from where on, the good runs' windows leave no gap.

**Metering** is `record_reading`, branch by branch: `Seed`, (nothing when not newer), `Reset`, `Extend`,
`AddInterval`; the health poll; and the two interval parts of retention, one action per committed chunk.
A reading carries the tick's `now`. A stale (cached) answer has `ok = False` and is never recorded, so it
is no reading. Interval ids are never reused, as with a PostgreSQL sequence. The month of the aggregate and
`interval_count` are abstracted: one total per outlet and standalone flag. A replaced meter starts at zero;
a new meter that already stands above the old reading cannot be told from consumption by anyone.

**MeteringAttribution** adds what the collector cannot see: the cabinet's real mode and whether units of
the current gap were delivered outside a session.

**Collector** has per process the thread, the leadership and the age of every due time (capped at its
interval), and the database's advisory lock. `TickBegins` takes the places of the servers' task lists that
are due; `RunTask` marks a task before it runs it, and one that raises ends its server's tick; `ServerDone`
closes a server. Time passes between two ticks: one unit, or more than any interval when a tick had to wait
out timeouts. The lock is lost with its connection (`LoseConnection`), which the leader does not notice.

**CabinetApi** is the cabinet as the simulator of the repository plays it: what an operation replies in which
state, which functions are switched off, which session states a command asks for and leaves. **CabinetClient**
is `call()` and `_nfc()`: `Begins` refuses a route remembered as not enabled, `Login`, `Send`, `TimesOut`,
`Answered`, the one re-login after a 401, the error of the server, the last known answer of a GET. A message
that timed out stays in the network and may `Arrive` later. Data are version numbers, so "old" is a comparison.
**Commands** adds the routes: the demo marina's refusal, the audit row before the call and its outcome after,
the alarm acknowledgement, the photo with its record; `Crash` ends every call of a process at any step.

**Accounts** takes a request in up to three steps: `Begin*` reads rows and decides; `Statement` is a DELETE of access rows
or backup codes or the UPDATE of earlier links, which acts on what is committed when it runs; `Commit` writes the columns
the request changed over what is committed by then (`Merge`) and inserts its own rows, subject to the constraints (`Holds`). What
another request commits between statement and commit stays. A grant or a revoke writes its one row. Access rows, secrets,
enrolments, backup codes and links are named by the request that made them, so a stale one is recognised. Codes of the phone are time
steps; locks and links may end at any moment.

**Alarms** and **SecurityAgent** share a clock. A row of a log has the time its request began and is
committed at most `LATE` after; a pass (`Pass`) reads the committed rows of its window, opens what the active rules
find unless the fingerprint exists, and records that it ran. Passes are at most `GAP` apart unless the agent is
down. The rules are operators over the rows: `DecoyTouch`, `LoginSpray`, `OddHour`, `NewIp`, `NewEndpoint`,
`DoorNoWindow`. Buckets, days and hours are small numbers. An alarm of a real cabinet is not acknowledged in a demo marina
(`RealInDemo`); the instance's door alarm is the simulated cabinet's.

**BerthView** is the chain from stored answers to what is drawn: `_stored`'s ages, the signals, the ranked
table in its order, the alarm list, `Dashboard` (`marina_state.build`) and the occupancy card. Its actions are the
collector's polls, somebody opening the Berths page (the only writer of breakers), and what happens outside.

**Registry** has requests that read, then commit against unique indexes (`Mapped`, `Taken`). The DELETE of a mapping
marks the rows of its berth that are committed and waits for another that has marked the same (`Deletes`); a row carries the request that
inserted it, so the same outlet mapped again is another row, which that DELETE leaves. **Ledger** has the lock of `FOR UPDATE` as PostgreSQL gives it:
the waiter goes on with the row it found, and with no row there is no lock. **MarinaEvents** is the older marina
webhook, a transaction per part, in the order `Turn`; retention's select and delete on another thread; and the
browsers of one process: `lists` holds every list `_connections` was bound to, because a broadcast goes on with the one
it began with. A list maps places to clients; only the order of its places counts, so taking a client out leaves
the others where they are.

**MCOffice** puts the last six components into two runs (`admins`, `office`). They share no state, so a behaviour is of one part
(`part`, one of the run's `Chosen`), the others keep their initial state and every property speaks of its own part. It
extends them all, so the properties it checks are those the theorems state. MarinaEvents runs as two parts: `events`, the
rows, with one marina's events and no browser, and `browsers`, with events that write nothing and time standing
still. The theorems are about both together.

## 3. What the runs check

| run | instance | shows |
|---|---|---|
| `sessions` | 2 rows of one customer, 2 cabinet sessions (one per contract; one measured by register, one approximately), 1 web worker, both routes, register up to 1; 0.93 M states | type and the safety properties below, `BilledFrozen`, and the refinement `Settles` |
| `same_outlet` | 2 rows of one customer on the same outlet, 1 web worker, range route; 0.36 M states | `CoveredIsReconciled`, where the constraints refuse whole commits of both writers |
| `sessions_live` | 1 row, 1 session, 2 web workers, range route; 15 k states | `Converges` |
| `window` | 2 sessions, clock 0..7, overlap 1 = commit delay, nightly 4, runs kept 3; 67 k states | `NoneMissed`, `GapNeedsLongOutage` |
| `metering` | one metered outlet (2 units, 1 meter swap, 1 session), one demo outlet, clock 0..3, chunk of 1; 4.2 M states | the metering properties |
| `collector` | 2 processes, 1 server with a cabinet that always raises, one behind it and a simulated one, 2 surprises; 40 k states | `OneCollector`, `EveryCabinetPolled`, `SomebodyCollects` |
| `commands` | a real, a simulated and a forbidden cabinet, 9 requests of every kind, those together that share a client, a session or a cache, 2 attempts, 1 surprise; 0.66 M states | the command properties and `Ends` |
| `admins` | accounts and agent, below; 0.91 M states | their types and properties |
| `office` | view, registry, ledger, events, browsers; 0.91 M states | their types and properties |
| `late_webhook`, `attribution` | one row each | two statements of the repository that the code does not keep (section 5) |
| `dashboard` | 1 cabinet, 2 berths | a third |

*Sessions*: `LinkJustified` (rows and cabinet sessions are never crossed), `AckTruthful` (the cabinet is told only of billed sessions; `ack_sent_at`
only if it was told), `CoveredIsReconciled` (what a good run covered and names its row is reconciled although runs
fail half way), `BilledIsMeasured` (no row is billed on approximate or missing figures alone, unseen), `BilledFrozen` (a billed row
changes only in its ack), `Settles` (the module implements `Settlement`: ended, settled, billed, confirmed,
in that order and for good: `reconciled_at` only after an end, no bill before it), `Converges` (below). That a cabinet session is invoiced through one row is the
table's unique constraint, part of `DbAccepts`, and no property of its own.

*Metering*: `EverythingCounted` (intervals plus aggregate are exactly the register's progress while
the meter is not replaced and never more than was delivered when it is), `IntervalsDisjoint`, `IdleIsOneRow`.

*Commands*: `Audited` (what left the ERP has its row, whatever died), `OutcomeTruthful` ("ok" was carried out, an
answered refusal was not), `BoundedResends` (an outlet command at most `ATTEMPTS` times, a session's command once,
a forbidden one never), `AnswersAreOwn` (of the right cabinet; a fresh one is no older than its question), `Ends`.

*Accounts*: `AdminLeft`, `OneUse`, `BoundedGuesses`, `SessionsEnd`, `ConfirmedByPhone`, `NothingRevived`. Each
holds but for requests that overlap, and says exactly which: those exceptions are the remarks of section 5. `NothingRevived`
gives the least away: only what a request gave that was in progress when the update began survives it.
*Agent*: `AlarmOrOutage` (what the rules find is an alarm one pass after it can be seen, unless the agent was down, and
after an outage the card is not fresh before the pass that makes good), `CasePutOnce`, `Alibi`.
*View*: `FreshOrGrey`. *Registry*: `MappingReplaced` (an overlap leaves a mixture at most until the next request that
overlaps none of its writers), `TagResolvesOnce`. *Ledger*: `LedgerAddsUp`.
*Events*: `ReadingsKept`. *Browsers*: `Heard`.

*Why the bounds are enough.* Two rows of one customer are what it takes to cross sessions; one worker and the
pull are two concurrent writers; a register step makes an older payload differ from a newer one. Two rows on one outlet are
what it takes for two transactions to pair one cabinet session with different rows, and so for a commit to be
refused. Two workers with a single session let two webhooks overtake each other and the pull. In the window model the clock is long
enough for an outage beyond both limits and for a run after it. In metering three instants give two intervals
and a retention pass between readings, one chunk holds less than all old rows, and two units and a swap let a
reset fall before, between and after deliveries. The collector's two surprises are a lost connection and the crash or
the failed query that matters after it; its one server has a cabinet before and one behind. Two attempts are the
first sending and the one after it; a token that is refused, a function switched off or a crash is the one
surprise, between any two steps. Accounts: two admins can remove each other, two requests overlap and a third sees what
they left; two time steps tell a code from the next. Agent: two rows are the least that form a burst or a history,
five instants hold a window of four, an outage and what is found after it; each log is checked with the passes alone
and with the Admins' actions that concern it. View: three instants make every answer old once, two events change what
it is about. Registry: two berths compete for two outlets, and a third request comes after two that overlapped.
Ledger: two posts overlap and a third comes after. Events: the second event meets the row of the first, between
retention's select and delete; browsers: two broadcasts overlap over a list of two, a third browser is refused.

Deadlock is checked where the system never stops: the session runs, the window and metering. The collector's threads
may all have ended; the commands, the Admins, the office and the dashboard are bounded histories that end when their
bounds are reached.

Every property has a mutant in `PROJECT.json`: a definition changed as a plausible bug would change it (its
operator stands next to the original, with a suffix), under which the same run reports the property violated.

### Fairness

`Converges` is checked under `Fairness`:
* weak fairness of `RunStep`: the collector's loop keeps awaiting its own coroutine, every request has a
  timeout, so a started run takes its next step (`run_forever` outlives failed ticks);
* strong fairness of `StartNightlyRange`: between runs the collector is idle again and again, and once a day
  the nightly pass is due; it need not be possible at every moment;
* weak fairness of a worker's commit: a handler that opened a transaction commits or is refused.

Nothing is assumed of the cabinet, of delivery or of billing. `Converges` says: if from some time on no run is
cut off (`CrashesStop`), every ended session that the ERP started is, for good, reconciled with the final
figure, or was billed before. It is the nightly pass that repairs a row torn by a webhook and the quarter-hourly
one that does so only inside the overlap: with a nightly pass over new sessions only, the run fails (its
mutant). A nightly run that fails is not repeated that day (`_nightly_due` marks it first); the strong fairness
is over days.

The collector's properties assume weak fairness of its loop (asking for the lock, ticking), of the tasks of every
server (the event loop runs them, each call has a timeout) and of the restart of a process that died
(`restart: unless-stopped`); `EveryCabinetPolled` besides that ticks are short again and again: see remark 12.
`Ends` assumes that while calls are open one of them goes on; nothing of the network or the cabinet.

## 4. What is proved

TLAPS checks, for all values of the constants:

* `SessionReconciliationProofs`: `TypeCorrect`, `LinkSafety`, `AckSafety`, `BilledSafety`,
  `CoveredSafety`, `BilledMeasuredSafety`, `SoleMeasuredSafety` and `Refinement` (initial states map to initial states of `Settlement`, every step to a step or a stutter), for any
  number of rows, cabinet sessions and web workers. Assumptions: those of `SessionSync` and the module (ids are
  numbers, `None` is no id and no row, the pull is no web worker), and billing as above.
  The properties are not inductive: a transaction carries values read long ago. `Inv` adds what they may be:
  `EventsTruthful` (no payload on its way says "ended" of a running session), `RowsSupported` (committed
  and uncommitted rows link and reconcile only as the cabinet's state allows, and ended sessions stay ended),
  `TransactionsHarmless` (a transaction on a billed row holds it unchanged but for the ack; none opened before
  billing survives it; none bills), `AckSupported`, and the table's own constraints. The proof has one lemma per
  action; `Written` is shown once to keep `Supported` and to leave billed rows alone.
  `CoveredSafety` and `BilledMeasuredSafety` rest on `RunInv` (`RunInvariance`), inductive over `Inv`. A row, committed
  or in a transaction, that is ended or reconciled is linked, and one that is reconciled is under review or an ended
  session was measured for it (`Grounded`); no transaction takes back a link or a review (`Onward`). So `find` takes the
  payloads of a session that is `Identified` with a row to that row (`FoundIdentified`: linked already, or
  still waiting), and a session of the run's window is to be asked for, in the answer, or in the transaction as
  reconciled until the commit makes it so (`OnItsWay`, `WindowOnItsWay`): whatever fails in between drops the window with it,
  and a run past its ranges has nothing on its way. Both properties say which session they mean by what `find` can tell,
  and not by what the ERP started: where several sessions may belong to a row, a running one can take over a
  reconciled one (`late_webhook`, and remark 23). `SoleMeasuredSafety` is the plain case: a billed row that one session
  alone may claim is linked to it, and it has ended, on the row's outlet, with a measured figure.
* `ReconcileWindowProofs`: `NoSessionMissed`, `WindowComplete` (the next window holds every listed session no
  good run has read: the guard of `StartRange`), `GapsAreOutages`, from the single assumption on the cabinet
  that it commits within the overlap. `WindowInv` adds: commits are on time, a run lists what its window held
  when it started, and a last good run that retention took away is old.
* `MeteringProofs`: `Disjointness` and `IdleRows` for any outlets, sessions, windows and chunk sizes, from
  `MeteringInv`: an interval lies between two readings of its outlet; ids are unique and below `next_id`; the row
  a state points at is its own or gone for good; a row that reaches to the last reading is the one pointed at.
  `ReadingsTyped` says what the states hold. `AllCounted` (`EverythingCounted`) rests on `CountInv`: what the rows of an
  outlet hold and what its meter shows beyond the last reading (`Unread`) is the register's progress while no meter was replaced,
  and at most what was delivered in any case. A sum over rows is the number of their units (`EnergyOf`, a cardinality:
  the prover has no induction over a recursive sum), so what a row, a merge or a roll-up does to it are lemmas
  about finite sets (`EnergySplit`, `EnergyOne`), and each action has one that says what it does to the count.
* `CollectorProofs`: `OneCollectorHolds`, `LeaderHoldsLock`, `TypesHold` for any processes, servers, cabinets, tasks and
  intervals, and any number of crashes. That two processes never lead says nothing of the lock and is not inductive;
  `LeaderHolds` is: until a connection is lost, who leads is the one that holds the lock.
* `OfficeProofs`, the ledger: `LedgerAddsUpHolds` and `LedgerTypeCorrect` for any customers, amounts and number of posts. `LedgerAddsUp` is not inductive:
  it follows from `LedgerInv`, by which a post has read the newest row of those that had ended before it began
  (`ReadNewest`, `LastRead`) and draws a larger id than they did (`IdsInOrder`), because an ended post never opens again
  (`StaysEnded`). The row lock is in no step of the argument. The types need that ids and posts are counted together:
  every id given is some post's (`IdsGiven`), so there are no more than posts. Assumed: amounts are integers, the bound a
  number, and `Null` is neither an id nor a row (`LedgerAssumption`).
* `OfficeProofs`, the runs `admins` and `office`: `OfficeTypeCorrect`, whichever parts a run chooses (`Chosen`). A part that does not run stutters in its own variables and the
  one that runs takes its module's steps (`OfficeSteps`), so `OfficeSpec` implies the specification of every part and their
  type theorems give `OfficeTypeOK`.
* `CommandsProofs`: `CommandsTypeCorrect`, `AuditedAlways`, `OutcomesTruthful`, `ResendsBounded` and `AnswersOwn` for any
  servers, clients, requests, processes, marinas and attempts, whatever is lost, delayed, refused or dies. The properties
  count executions, which no variable of the caller shows; `CommandsInv` relates them: sendings are numbered, and
  those carried out or still on their way are at most one per attempt begun (`Resends`); while no sending went
  unanswered, the last is the only one that may be on its way (`Answered1`); a positive answer was carried out and is no older than
  its question (`Answering`, `Judged`); the version and the session of a cabinet only move forward (`Moved`). All
  of it but `Cached` and the types is about one request (`CallInv`), and a step of another request leaves that alone (`Untouched`),
  so each action is looked at for its own request. Assumed: the constants map requests to clients to servers, and
  `None` is no number, code, answer or row (`ClientAssumption`, `CommandsAssumption`).
* `AccountsProofs`: `AccountsTypeCorrect`, `AdminAlwaysLeft`, `PhoneAlwaysConfirms`, `SessionsAlwaysEnd`, `NothingEverRevived`,
  `GuessesAlwaysBounded` and `CodesUsedOnce`, for any users, marinas, threshold, time steps and number of requests. All
  rest on `Base` (`BaseAlways`): what an open request has read is there still unless another about that user
  overlapped it (`StillSo`), whatever is open together overlaps (`Pairs`), and the number a request writes was
  seen by nobody before (`AllSeen`). `Fit` says what a kind of request may change of what it read; the fourteen kinds are
  looked at once, for `Fit`, and never again. What a statement found stays named by the numbers of the requests that
  inserted it (`cleared`). Over it each property has an invariant of its own: an update still
  sees another admin unless another update outran it (`AdminInv`); who finds the factor confirmed overlaps the confirmation
  (`ConfirmInv`); an ended session's enrolment is not the present one (`EndsInv`); requests are numbered in the order
  they end (`InOrder`); a row that an update to admin does not find at its statement is of a request in progress together
  with it or a later one, so its commit leaves no other (`Gone`, `AccessInv`: whoever is still open when a request begins is
  in progress together with it); failures are in the row unless two
  overlapped (`GuessInv`); a code taken is at or before the last step, here and in what others have read (`UseInv`).
  Assumed (`AccountsAssumption`): somebody other than the newcomer is there, set up as an admin, since without one
  there is no admin to keep; `None` is no value of any other kind.
* `OfficeProofs`, the registry: `RegistryTypeCorrect`, `MappingAlwaysReplaced` and `TagsResolveOnce`, for any cabinets, berths, outlets, tags
  and number of requests. The properties speak of finished requests, and what breaks them is one still on its way; `RegistryInv`
  adds what those rely on. Requests open at once overlap, also with those begun later (`Beside`, `Ranked`). A mapping past its
  DELETE has marked every row of its berth but those of requests it overlaps (`Marks`), so its commit leaves only such
  rows (`From`), and takes nothing from a later one (`InPlace`, `Lasting`, `ServedStays`): `From` and `Lasting` are the two halves of
  `MappingReplaced`. A line of an open import meets no tag but those of imports it overlaps (`Imports`). Each commit by a
  unique index is one lemma, for success and refusal apart. Assumed: what is asked for and imported are sets of
  outlets and of lines (`RegistryAssumption`).
* `OfficeProofs`, the view: `ViewInvariant`, `ViewTypeCorrect` and `BerthsFreshOrGrey`, for any cabinets, berths, reads that
  fail together and ages. `ViewInv` adds to the types what a stored answer is: complete, and with heartbeats no
  newer than the cabinets' own, so what looks online in an answer is online. The rest is the table: a berth's state is its first true row
  (`StatusIs`), so a coloured berth has passed the rows before (`StatusMeans`: it has a cabinet, a contact and fresh
  answers) and an occupied one has a fresh analysis (`VesselMeans`). Assumed: `Absent` is no cabinet, ages and bounds are
  numbers (`ViewAssumption`).
* `OfficeProofs`, the events: `EventsInvariant`, `EventsTypeCorrect`, `ReadingsStayShown` and `AllHear`, for any marinas, pedestals, event
  types, browsers, retention window and number of events. `ReadingsKept` speaks of readings stored
  after the first part of their event had committed, in a row retention had not selected by then (`safe`); others
  the code may lose. It compares a reading's age with the window, retention the
  row's `last_synced_at`; `RowsInv` relates them: a row's time is the present event's once its first part is done (`AtHand`), no
  stored reading is newer than that event (`StoredTimes`), and a reading inside the window is in its row, the row is
  at least as recent, and it is not selected (`RowsKept`). For `Heard`, `SocketInv` says where everybody is: a
  client has one place in a list, below those to come (`Placed`); who has heard an event is behind its broadcast, and who
  is behind has heard it or could not be sent to (`HeardBehind`, `BehindHeard`); who was there at the start is still in the list
  the broadcast goes through (`StillListed`), because `disconnect` changes another. Assumed (`EventsAssumption`): clients are
  finitely many, `Nothing` is no marina and no row, only marinas are signed or assigned, the window and the bounds are numbers.
* `SecurityAgentProofs`: `AgentTypeCorrect`, `CasePutOnceHolds`, `AlibiHolds` and `NothingMissed`, for any logs, rules, windows, buckets
  and lengths, and any number of rows and passes. The fingerprint is not the case: it must come out the same in every
  window a row is seen in. So the proof names the case of a row (`KeyOf`) and shows that whatever a rule finds, in any
  window, is a case of its rows (`FindingFinds`), that one pass finds a case once (`FoundOnce`), and that no step of the
  logs changes what a rule looks at in a row (`Kept`). `AgentInv` carries it from pass to pass: an alarm is
  one case with its rows, and the only one; a decision nobody overlapped finds its alarm as it read it; an alarm
  of a cabinet has one row by webhook, and that webhook waits no more (`HandledOnce`), the only rows the door rule reads.
  `Alibi` is not inductive, as a window may come after the alarm or go before the end of the case: no standing window
  excuses a door's alarm (`NoneExcused`; for an alarm by the hour, what the hour covers, `HourOf`), and what was
  deleted had not begun when it was read (`Cancels`). `NothingMissed` is `AlarmOrOutage`. That property speaks of
  the present, `PassInv` of the last pass: everything due in rows that were settled then, their time for a commit being
  over, is an alarm (`Answered`). What a pass finds is taken over from the pass before if all its rows are earlier
  (`FoundEarlier`); otherwise the window holds it, the whole burst included (`FoundAlso`, `Bursts`). Any other step leaves
  settled rows as they are, histories included, so the rules find nothing new in them (`FoundBefore`). Assumed:
  `AlarmsAssumption` (alarms and their cabinets and ids) and `AgentAssumption` (lengths that divide are not zero; a
  window ends after it begins; the sliding window is as long as a bucket, a late commit and the time between two passes
  together, which only `NothingMissed` needs).

Only model-checked: `Converges`, `EveryCabinetPolled`, `SomebodyCollects` and `Ends`, since liveness under fairness is out of
the prover's reach; and that the three runs with an expected violation find it, which no theorem could say. Every
invariant and action property of the passing runs is a theorem.

## 5. Where the code and its words differ

Shown by a run:

* `late_webhook`: `models/metering.py` says `reconciled_at` is set when the cabinet's *final* figure was stored,
  and the database bills on it. A webhook sent before the session's end and handled after the pull puts an older
  figure and status `active` back, and `reconciled_at` stays: until the next pull of that session (the overlap,
  or at night) the row may be billed with a figure that is not final.
* `attribution`: `collector.py` says a difference is attributed only if the cabinet was in Smart Mode ON and a
  session was active. Both are judged at the reading; the gap before it is attributed whole.
* `dashboard`: `marina_state.py` says reads that are not required only add to a berth. The breakers, stored by
  the Berths page and polled by nobody, get old and then take away the contact of every berth of their server.

Met while modelling, as remarks: the first nine are exceptions the properties name, the others are outside them.

1. `routers/users.py:56`: two admins who demote each other at the same time leave none (`AdminLeft`).
2. `models/user.py:40` "the same code never works twice": it does in two verifications that overlap (`OneUse`).
3. A start of an enrolment that overlaps its confirmation has the confirmation confirm a secret no phone has
   shown; `ConfirmedByPhone` excuses any request about the user that overlaps the confirmation.
4. Failures that overlap count once (`BoundedGuesses`). A grant that commits between an update's DELETE of the access rows
   and its commit survives it (`NothingRevived`).
5. A closed alarm is acknowledged again by a decision that overlapped the closing one (`CasePutOnce`); a window
   whose cancellation was in progress when it began is no alibi (`Alibi`).
6. `services/credit.py:39` "two posts for one customer must not read the same last": overlapping posts do. The
   waiter for the lock goes on with the row it waited for, which was followed, not changed; and a customer without a
   row locks nothing. One delta is then in no balance (`LedgerAddsUp`).
7. Two concurrent imports of one UID in opposite byte orders both succeed; two mappings of a berth's valves end as
   their union, until the next request for that berth (`TagResolvesOnce`, `MappingReplaced`).
8. Retention deletes by ids selected before: a pedestal row refreshed in between goes with its readings. A
   marina-level row (no `last_synced_at`) never goes (`ReadingsKept`).
9. The collector's thread dies with a failed query for the lock (`SomebodyCollects` says what is left), and a leader
   whose connection dropped goes on beside the next one (`OneCollector`).
10. A function switched on again is refused without asking until the hour of a client's memory is over; each
    process has a memory of its own.
11. `routers/_cabinet.py:27` takes "already ended" for success; the resend of a stop that was carried out and whose answer
    was lost is answered "Session is completed, expected active", and the operator gets a 409.
12. While every tick is longer than a task's interval, the tasks before a raising cabinet are due in every tick and the
    ones behind it are never reached.
13. `marina_state.py:10` counts a failed last call as no answer; nothing that runs sets `is_stale`, so only age does.
14. A 5xx of the token route is reported as `cabinet_auth_failed`, as if the password were wrong.
15. `SyncLog` "tracks every API call": it stores changes between success and failure only.
16. "Controls only when Online" is kept by the screens; the command routes do not ask.
17. `/ws` (`main.py:105`) admits by the claims of a token: after "Their sessions end now" (`users.py:134`) it still opens.
18. A door alarm first seen by the poll has no `event`, and the agent's door rule does not see it.
19. `routers/alarms.py:118` finds the local row by `alarm_data['id']`: not one the webhook stored (the id is under `data`),
    and perhaps one of another cabinet of the marina.
20. The comparison of mappings is always "unverifiable": nothing stores the cabinet's side.
21. Sessions never read count as no power, alarms never read as no alarm, on a berth that is drawn.
22. A browser whose send failed once is dropped from the list, its socket stays open and it hears nothing more. Two
    broadcasts that overlap may reach a browser in the other order. With `--workers 2` (`DEPLOYMENT.md:64`) a browser hears only
    the events its own worker received: each process has a `ws_manager` of its own.
23. With today's contract (no `erp_ref`) `find()` pairs a payload with the newest waiting row of the customer and the outlet,
    and the by-user route returns the customer's earlier sessions too: one from before the row existed may be linked to it and
    leave it ended and reconciled. `LinkJustified` allows it: no payload says whose session it is.
24. `autoflush` is off, so a page with two sessions of a customer on one outlet may pair the second with the row the first
    has just been given: the one row then takes the second's id and figure.

## 6. Not modelled

* The rest of retention: deletes by age of rows no component reads at that age.
* The comparison of mappings (remark 20), the cabinet's own berth ids, reservations beyond their effect on a berth.
* The preparation of a reference photo, and everything else that is data: prices dropped from payloads, formats,
  time zones, sentences, layouts, exports.
* Billing and tariffs: tables without code. What `SessionReconciliation` needs of billing is stated in section 2.
* The cabinets' live values in the simulator, the demo seed, schema migrations and the scripts that check a
  deployment: no protocol of the running system.
* Read-only routers, validation and middleware: they write nothing, and what they read is modelled where it is written.
* The frontend: it presents what the backend decides and keeps nothing that outlives a page.
* Several workers in `MarinaEvents` (remark 22), and SQLite, which only the tests use.
