# A formal model of fiducia-customer

`fiducia-customer.rs` is the customer plane of Fiducia: an axum service that
serves the customer portal, signs customers in against Supabase Auth, proxies
key and cron management to trusted services, keeps a small Postgres schema, and
takes inbound billing webhooks. This directory holds TLA+ models of the parts of
it whose correctness depends on what happens *between* steps, the TLC runs that
check them on small instances, and TLAPS proofs for all instances.

Paths such as `src/login.rs` are relative to the repository root. Line-by-line
correspondence of every definition is in `PROJECT.json` under `map`.

## 1. Inventory

| Part | State | Operations | What is hard |
|---|---|---|---|
| Billing webhook ingest (`src/billing.rs`, `src/entity/billing_webhook_events.rs`) | the table `billing_webhook_events`, unique on (provider, event id), shared by all replicas | `webhook`: `verify` → `record` (INSERT ... DO NOTHING, then on conflict a SELECT) → answer | concurrent deliveries on several replicas, handlers dropped between awaits, statements that outlive them, lost and repeated answers |
| Throttle (`src/throttle.rs`) | one process-wide `HashMap<(Bucket, key), Vec<Instant>>` behind a mutex | `check` (with `prune_expired`) | ageing at the window's edge, the ceiling on tracked keys, rounding |
| Login, logout, MFA (`src/login.rs`) | none in the process: three cookies in the browser, tokens and factors at Supabase | password, one-time code, step-up, logout; enroll, activate, disable | tabs share cookies, responses arrive in any order, factors change and tokens expire between awaits, each call can fail |
| Security gates (`src/security.rs`, `src/request_security.rs`) | none | AAL gate, CSRF, host and origin checks, headers | verdict used after further awaits |
| Authenticator (`src/auth.rs`) | none | `authenticate` against fiducia-auth | selection of one credential; the assurance level |
| Supabase client (`src/supabase_auth.rs`) | none | send/verify code, factors, challenge, verify, unenroll | partial failure, shape of answers |
| User store (`src/store.rs`, `src/entity/*`, its handlers in `src/main.rs`) | the tables users, customer_preferences, customer_sessions, customer_notifications | `ensure_user`, `upsert_preferences`, `revoke_session`, `mark_notification_read`, lists and counts | no transactions: races between find and write, statements that fail or outlive their request |
| API keys (`src/main.rs`, `src/views.rs`) | at fiducia-auth; the forms in the page | create, rotate, revoke, list | idempotency keys, double clicks, lost answers; a secret that is shown once |
| Cron proxy (`src/cron.rs`) | at fiducia-node and the function service; the forms in the page | create, update, pause, resume, trigger, check, delete | the same; a trigger that carries the time |
| Streaming (`src/streaming.rs`) | a sequence number per connection | WebSocket and SSE refresh frames | clients that vanish; streams that outlast a shutdown |
| Metrics (`src/metrics.rs`) | a gauge and a table of aggregates | `record_http`, `endpoint` | dropped futures; two steps of one update |
| Serving (`src/main.rs`) | — | the layers of `build_router`, `shutdown_signal` | order of the layers; draining |
| Organisation selection (`src/main.rs`) | — | `selected_customer_org` | the verdict is used after further awaits |
| Session assurance (`src/session_assurance.rs`) | — | — | not compiled: no `mod` declares it |
| Configuration, views, static pages | — | — | stateless |

How they interact: every request passes `metrics::record_http`, the body limit,
`TimeoutLayer` (30 s), `CatchPanicLayer`, then the gates of `security.rs`, then
one handler. Login handlers call the throttle, then Supabase, then fiducia-auth.
Portal handlers call the authenticator a second time (the gate was the first),
check the CSRF token, and call Supabase, Postgres, or a trusted service. The
billing webhook is outside the session gates; its trust boundary is the
provider's signature. Handlers share no memory but the throttle's map and the
metrics; they share Postgres, Supabase and, per customer, the browser's cookies.
Any handler can be dropped at any await, by the timeout or because the peer
disconnects.

What makes each part correct:

* ingest: an acknowledged event is stored with its exact content; an identity is
  bound to one content for ever; one delivery is told that it is new; a conflict
  is never reported of a redelivery; deliveries eventually settle.
* throttle: no window of a key exceeds its budget, whatever is pruned; the map is
  bounded; a denial has a cause; Retry-After says when to come back.
* login: a single factor never stands for two; a token parked for step-up never
  becomes a session; a half-enrolled factor locks nobody out; logout and the
  aal2 session leave nothing behind.
* store: preferences are one whole submitted form; rows are marked for their owner
  only, and stay marked; nobody sees another's rows; losing the race for the users
  row is not an error.
* keys and cron: one form has one effect, for the account, and on a page for the
  session, that it was rendered for; a success is never reported for something else;
  an issued secret reaches the customer.
* serving: every request ends in a response; the metrics say what happened; dead
  streams are reclaimed; a shutdown lets the HTTP requests under way end, and is not
  held by what hangs or has vanished.

The full list of hazards, each at its line and with the properties that guard
it, is `PROJECT.json` → `hazards`.

## 2. Modules

| Module | Role |
|---|---|
| `WebhookLedger` | abstract specification of the ingest: identities are bound once, bound contents are acknowledged |
| `BillingIngest` | the ingest as concurrent handlers on replicas; refines `WebhookLedger` |
| `SlidingWindow` | abstract specification of the limiter: an ideal sliding window that remembers everything |
| `Throttle` | the limiter, with its map, ceiling and pruning; refines `SlidingWindow` |
| `LoginBudgets` | the login handlers on top of `Throttle`: what they charge, and the calls to Supabase that follow |
| `TokenCustody` | abstract specification of signing in: tokens are handed out for one use, and aal2 is earned |
| `LoginFlow` | one browser's tabs and cookies, every handler of `login.rs`, the MFA gate, Supabase's tokens and factors; refines `TokenCustody` |
| `UserLedger` | abstract specification of the customer's rows: whole forms, marks asked for by the owner, own rows shown |
| `UserStore` | the handlers' statements on the tables, interleaved, failing and late; refines `UserLedger` |
| `OncePerForm` | abstract specification of a form: one effect at most, for its owner, with what was submitted |
| `PortalMutations` | forms and API calls that write to other services (API keys, schedules, functions); refines `OncePerForm` |
| `Serving` | the layers around every request, metrics, live streams, shutdown |
| `BillingIngestProofs`, `ThrottleProofs`, `LoginBudgetsProofs`, `LoginFlowProofs`, `UserStoreProofs`, `PortalMutationsProofs`, `ServingProofs` | theorems |
| `MCBillingIngest`, `MCThrottle`, `MCLoginBudgets`, `MCLoginFlow`, `MCUserStore`, `MCPortalMutations`, `MCServing` | small instances for TLC |

Definitions written directly above the one they resemble and introduced by
"Mutant:" are plausible bugs. Each must be caught by the property it is paired
with in `PROJECT.json`.

### BillingIngest

`pc[d]` is where the handler of delivery `d`'s current attempt stands: `received`
(before `verify`), `inserting` (awaiting `exec`), `inserted`/`refused` (the
statement executed and its reply is on its way: `Ok` or `RecordNotInserted`),
`responding`. One action per await: `Reject`, `CertFetchFails`, `Unavailable`,
`SendInsert`, `ExecuteInsert`, `Recorded`, `Classify` (the SELECT together with
`is_exact_redelivery`), `Respond`. Faults: `DbError` (at the INSERT, at its
reply, or at the SELECT), `Abandon` (timeout, disconnect, lost response),
`Crash` (a replica and everything on it). A statement whose handler is gone may
still run (`OrphanInsert`). The ledger maps an identity to its set of rows;
nothing in the repository deletes or updates rows, so a disappeared conflict row
(`billing.rs:223`) is unreachable and `Classify` covers that branch through its
ELSE. The signature is a verdict; a request to an unknown provider, to an
unconfigured one, with a missing or a bad signature is rejected in the code's
order.

### Throttle

The clock is read with the mutex held, so a check is one atomic step. Instants
are ticks, and a `Vec<Instant>` is the set of its admissions (`n` tells apart two
of one instant), which is all that `retain`, `len` and `first` distinguish. Three
outcomes, three actions: `RefuseNewKey`, `DenyOverBudget`, `Admit`; `Tick` is the
clock. `admitted` is a history of every admission.

`SlidingWindow` has the clock, that history and the latest decision, and no map: it
counts every admission there ever was. It is what the map, the pruning of other
keys and the ceiling must not be seen to change, and it bounds the error of
Retry-After on either side by a second (`DenySpent`). The one thing of the map that
it keeps is the reason for turning a new key away: `MAX_TRACKED_KEYS` others count.

### LoginBudgets

`EXTENDS Throttle`, so its map and clock are the limiter's. Handler `h` works on
`post[h]` (operation, identifier, client), has paid `paid[h]` of its `Charges`, and
makes its `Call` to Supabase when all are paid; a one-time code is charged to its
identifier and then to its client, everything else to one budget. `Arrive` and
`ChargeNext` are calls of `throttle::check` (other handlers come in between),
`Drop` is a handler that ends without its call, and `LTick` is the clock, which
`TimeoutLayer` lets no handler outlive. A charge is never returned. `receipts` and
`calls` are histories: which admissions a handler was charged, and which call they
were spent on.

What the budgets are for is stated of the calls, not of the checks. Two things come
of that. A call is up to `REQUEST_TIMEOUT_SECS` (30 s) later than its check, so that
one client cannot bill "more than this many messages an hour" (`throttle.rs:60`) holds
of a stretch shorter than the hour by that much (`CallsWithinBudget`). And a budget's
key is trimmed and lower-cased while a telephone number that is dialled loses all of
its white space (`normalize_identifier`), so a telephone is known by several keys,
each with a budget: what the comments of `Bucket` say of one number is
`NumberWithinBudget`, which the run `throttle_number_budget` finds violated.

### LoginFlow

The browser: `cookies` (session, login_csrf, mfa_pending), `page[t]` (the form tab
`t` shows), `request[t]` (operation, the credential its cookies carried, whether
its CSRF token fits). The service: `step[t]`, `token[t]`, `reply[t]`. Supabase:
`minted`, `factor`. `Send` takes the cookies as they are when the request leaves;
`Deliver` changes them when the response arrives, so requests of two tabs
interleave at every await. A login page binds its form to the fresh nonce it sets
in `login_csrf`; since every page has a different nonce, the cookie is named after
the tab whose form it belongs to. `Grant → Lookup → Challenge | Finalize` is the
path of the password and of the one-time code (they share it from the token on);
`StepUp → Finalize` the step-up; `Gate → GateLookup → …` a portal request; `Fail`
any lost, rejected or timed-out call at any step. `seen[t]` is a history: what the
account required at some time during `t`'s request. It is the strongest thing a
stateless handler can promise about a remote, changing account, and it is the
promise of the comment on `authenticate_mfa_aware` ("Supabase's current factor
state"). Outcomes that show a form again (wrong code, empty field, over budget)
are one action each: which budget refuses is not told apart here.

`TokenCustody` has the tokens and the two cookies, and no tabs. A token is handed
out for one use, as the session or as what waits for the second factor (`Park`,
`Issue`); aal2 is earned with a live token that was handed out (`StepUp`,
`Upgrade`); and the browser only ever stores what was handed out for that cookie
(`Store`), whatever the order in which responses arrive.

### UserStore

No handler opens a transaction, so `pc[r]` is the statement request `r` awaits, and
any number of requests interleave between statements: `FindUser`, `InsertUser`,
`RefindUser` (`ensure_user`, at the start of every handler and again when a
fragment is built), `FindPrefs`, `SavePrefs` (`upsert_preferences`), `FindRow`,
`Mark` (`revoke_session` and `mark_notification_read`, one program on two tables),
`List`, `Count`. `Begin` is everything before the first statement; an input that
those checks refuse is marked `refused`. `Execute` is what a write does to the
tables, with the unique indexes of users and preferences (`Conflict`). A fault
(`StatementFails`, `Drop`) leaves its write executed, never to be executed, or in
`left`, to be executed by `LateWrite`. Sessions and notifications are inserted by
other services (`Deliver`). `hit` and `inserted` are histories.

The variables of `UserLedger` are what was submitted, asked for and shown, and the
tables themselves. The refinement is the claim that unguarded find-then-write is
good enough here: an update sets every column of the form, so two concurrent saves
leave one of them and never a mix; a mark is by primary key, and idempotent. Two
requests that mark one row are both told that they did it, and the later one moves
`read_at`/`revoked_at`; "exactly once" (a comment in the tests of `store.rs`) is
true of calls that follow one another, and is not claimed of concurrent ones.

### PortalMutations

A form (`kind`, `owner`, `org`) is rendered with a CSRF token, an organisation and
an idempotency key, and submitted by any number of attempts `h`: `Verify` (session,
CSRF token, membership, fields, configured service), `Perform` (the upstream call:
executed and answered), `Receive` (the status), `List` (the reads for the
refreshed fragment), `Deliver`. htmx swaps a response in on a 2xx only. The create
forms are outside of the fragment and keep their key; the forms of the rows are
inside, and any success on the page replaces them (`Replaced`). A call of the JSON
API is a form that is always there and whose answer has no fragment. Faults:
`Unreachable` (time-out or transport error, or the service fails; the call may have
run, may yet run), `BadReply` (also a revocation that found no key), `ListFails`,
`Drop`; the call left behind is `LateCall`.

Whose a form is, is a session and not an account: `CustomerCtx::csrf_binding` is the
presented credential (`auth.rs:264`), and the CSRF token is computed from it. So
`owner[f]` is the session the page was rendered for, `Authentic` compares sessions,
and a customer who signs in again, or activates a factor, holds a form that no
attempt gets past `Verify`. A client of the API needs no token; it uses the
credential it has (`Credentials`), and another of its account when that one has
ended. The world moves too: `Switch` (another session in the cookie, of the same
account or another), `Expire` (a session ends, or no longer suffices), `Leave` (a
membership ends), `Navigate`. A session that has ended does not come back.

The services are external: a new key runs, the same key with the same request is
answered from the record, with another request it is refused (`Execute`, `Result`).
fiducia-auth also verifies the forwarded session and organisation; which sessions it
still accepts that the portal does not is open (`Verdicts`). That is how the code
uses them, and everything claimed here rests on it.

`OncePerForm` has forms and no attempts: `made` is how often a form took effect,
`Record(f)` (who, and with which fields) is read off the authors of its effects and
the service's record of its key, and `revealed` are the secrets that were shown.

### Serving

A client connects (`Connect`) and sends the head of a request, be it after the
shutdown has begun (`Arrive`). From the outside in, the request passes CORS,
`record_http`, the body limit, `TimeoutLayer`, `CatchPanicLayer`, the gates (`at` =
"gate") and its handler ("handler"). In either it can be refused, respond, panic, hang
until the timeout, or be dropped because its client vanished. `Leave` is the decrement
of the gauge, `Record` the entry in the totals, two steps that a scrape can fall
between. Then the body is sent ("sending"), for as long as the client takes to read it
(`Sent`): `TimeoutLayer` bounds the response, not its body. A stream's response is
answered at once; `Heartbeat` is the frame that finds its client gone, `Close` the
write of a body that does, `HangUp` a connection that ends without a request.

`Signal` and `Stop` are the graceful shutdown: axum waits for the HTTP connections
(`Holding`), whose clients may hold them (`ClientHeld`); a WebSocket, once upgraded,
is none of them, and `Stop`, where main returns, cuts it off ("cut").

## 3. Runs

| Run | Instance | Result |
|---|---|---|
| `billing_safety` | 2 deliveries, 2 replicas (one without a pool), 4 events: one Stripe identity with two bodies and two types, one PayPal identity; 2 faults; fairness | pass, 715,000 states |
| `billing_already_handled` | as above | violation expected |
| `throttle_safety` | 2 handlers at once, 3 posts: codes to a telephone under two keys, a redemption at a mailbox, one client; budgets with different limits and windows, room for 3 of the 4 entries, 3 ticks | pass, 229,863 states |
| `throttle_retry_after` | the limiter alone: 2 buckets, 3 spellings of 2 keys, room for 2 of the 4 entries, 5 ticks, two to a second | violation expected |
| `throttle_number_budget` | as `throttle_safety` | violation expected |
| `login_safety` | 2 tabs, 2 tokens, 1 factor | pass, 599,595 states |
| `login_pending_cookie` | 1 tab, 4 tokens, 1 factor | violation expected |
| `user_store_safety` | 3 requests of 9 inputs (saves that differ in one column or both, marks of one's own row and of another's, lists, reads), 2 users, 2 rows, 1 fault | pass |
| `mutation_safety` | 2 forms in 8 pairs of kinds, 2 attempts at once (of one form or of two), 2 accounts, one with 2 sessions, 1 fault, 1 move, fairness | pass, 615,000 states |
| `serving_safety` | 3 requests in 4 combinations of kinds, every kind among them, fairness | pass, 297,000 states |
| `serving_gauge_leak` | the same | violation expected |
| `serving_sockets_cut` | the same | violation expected |

Why the bounds are enough. *Billing*: a conflict needs two events of one identity,
and the interesting orders need two handlers at once; two faults allow a crash and
another fault on the way to recovery; a delivery may be sent any number of times.
*Throttle*: the ceiling is below the number of entry keys, so refusals, pruning
and re-admission after pruning all happen; the clock outlasts both windows, so
ageing happens in every relation to the edge; two handlers interleave between the
two charges of a code, and a patience of one tick puts a tick between a check and its
call; two ticks per second, in the violation, make rounding visible. *Login*: two tabs are one race; two tokens are one login in each, or a
login and its step-up; one factor goes through absent, unverified, verified,
removed. *User store*: a lost race needs two requests of one user, and three let a
late write overtake a whole request; forms that differ in one column show a mix.
*Mutations*: two attempts are a double click, a retry over a lost answer, or the
success of one form replacing another; the pairs put together kinds that share a
page or a service; three sessions are the page's own, another of its account, and
another customer's. *Serving*: a scrape between the two steps of another request
needs two requests, a third can be under way meanwhile. The proofs remove all of
these bounds. Symmetry is used only over values that no property or definition
tells apart, and never with liveness. `MaxFaults`, `MaxMoves` and `MaxTime` are the
only counters that are capped.

Fairness. *`billing_safety`*: weak fairness of each delivery's handler, as
the runtime polls every task and the database executes what it was sent; weak
fairness of `Send`, as providers retry until a 2xx. *`mutation_safety`*: weak
fairness of the handlers and of `Submit`, that is of a client that asks again until
it is answered. *`serving_safety`*: weak fairness of `TimeOut` (a timer fires),
`Record` (code that awaits nothing), `Heartbeat` (the interval ticks), `Close` (a
write to a client that is gone fails) and `Stop`; no gate and no handler has to
finish, and no client has to send, to read or to leave. In none of them
does a fault have to happen or a statement or call left behind have to run.
The other runs assume none.

### Disagreements met while modelling

* `ConflictMeansAlreadyHandled`: the entity's doc says that a conflicting
  redelivery was "already handled". The row is committed before anybody is told
  `Recorded`. When that handler is lost, every redelivery is `deduped` and nobody
  is ever told.
* `RetryAfterOutlastsOldest`: `retry_after_secs` is documented as the time until
  the oldest event ages out; `as_secs` truncates, so it can be up to a second
  short.
* `NumberWithinBudget`: `throttle.rs:57` says that the budget makes "bulk dispatch to
  one number pointless". The budget is kept by the spelling, trimmed and lower-cased;
  the number that is dialled has lost all of its white space. Two spellings of one
  number have two budgets (the client's own budget still bounds their sum).
* `PendingClearedAtIssue`: `main.rs` says that the pending cookie is cleared the
  instant the aal2 session cookie is issued; `customer_mfa_activate` issues an
  aal2 session cookie and leaves it.
* `ActiveIsExecuting`: the HELP text of the gauge says "HTTP requests currently
  executing."; when a client disconnects while its request executes, the future of
  `record_http` is dropped at `next.run` and the decrement never runs.
  `MetricsExplained` proves that this is the only way in which the gauge is wrong.
* `StreamsDrain`: `shutdown_signal` says that without it the sockets of `/app/ws` were
  cut mid-write and that with it connections drain, `docs/web-api-data-access.md:73`
  that shutdown drains browser streams. The task of an upgraded WebSocket is not
  waited for: it is dropped when main returns.

Met as well, and stated here only:

* `docs/cron-jobs.md:31` calls the trigger an "Idempotent manual run". Without a
  `fire_id_ms` the portal adds the time of each attempt (`cron.rs:396`, and
  `cron.rs:1041` for the form), so a retry under the same idempotency key is another
  request. In the model the service refuses it: it takes effect once, but the retry
  of a lost answer is told "conflict". `SecretEventuallyShown`'s mutant shows what
  that would do to an operation whose answer matters.
* The other half of the same sentence: an `/app/events` body has no end, and no body
  has a limit on the time a client takes to read it, so the drain lasts as long as
  such a client stays, or until the process is killed (`ClientHeld` in
  `DrainCompletes`).
* `security.rs:111-113` says that logout remains reachable so that a browser can
  "clear a stale cookie". `customer_logout` refuses a session that fiducia-auth no
  longer accepts (`login.rs:287`) and sets no cookie; `LoginFlow`'s `Logout` does the
  same.
* `auth.rs:145` says that the MFA gate is outside of `TimeoutLayer`; since the layers
  were reordered (`main.rs:526`) it is inside, which `RequestsEnd` relies on.

## 4. Proofs

Most theorems are of the form `Spec => []Inv`, or a refinement, or an action
property, for all values of the constants that satisfy the named assumptions, and
use no others; those about liveness have hypotheses, given below:

* `BillingIngest`: `ConfigAssumption`, `EventAssumption` and `DigestAssumption`
  (SHA-256 has no collisions among the bodies in question).
* `Throttle`: `BudgetAssumption` (limits and windows are positive, as in
  `Bucket::budget`), `BoundAssumption` (windows are whole seconds).
* `LoginBudgets`: those of `Throttle` and `PostAssumption` (what posts are made of; the
  five buckets).
* `LoginFlow`: `ValueAssumption` (the two special values are not tokens or tabs).
* `UserStore`: `RowAssumption`, `InputAssumption`, `FaultAssumption` (what rows and
  inputs are made of).
* `PortalMutations`: `MutationAssumption` (kinds, services, sessions and their accounts, bounds).
* `Serving`: `ServingAssumption` (finitely many requests; their kinds).

**BillingIngest.** `AckedIsStored`, `RecordedAtMostOnce` and `ConflictIsGenuine` are
not inductive: they speak of answers, and an answer is decided steps after the
table was read. The strengthening says what a waiting handler knows: `OneRow` (an
identity has one row at most), `InFlight` (one that will see `Ok`, or has decided
a 2xx, holds the row; one that will see `RecordNotInserted` lost to a row),
`OneRecorder` (the one `Recorded` of an identity is still to come or already
counted). `Refinement` maps each step to `WL!Bind`, `WL!Ack` or a stutter: the
executed INSERT binds, the delivered 2xx acknowledges. `RowsAreForGood` says of
the steps what liveness then needs: an identity's row is never removed or changed.

**Throttle.** The map forgets, so budgets do not follow from the map alone.
`Remembers` says that it never forgets an admission that still counts, and holds
nothing that was not admitted; hence what a check counts is what was admitted of
the key within the window. `HistoryOK` bounds the history's times. A stretch of
time that contains the newest admission lies within the window that its check
counted, which gives `BudgetHonoured`. `Refinement` maps each of the three outcomes
to one of `SlidingWindow`'s, and `Tick` to its own: by `Remembers` the entry and the
history have the same events that count, so both sides compare the same number
with the budget and find the same oldest event (`OldestFacts`, `LeftFacts`), and
truncation costs less than a second (`Rounding`, `RetryAfterFacts`). A refused new
key has no events that count, and the map is full of keys that do.

**LoginBudgets.** Every step is a step of `Throttle` or leaves it alone, so its
invariant holds here (`LoginStepIsLimiterStep`), and so does its refinement
(`LoginIsLimited`). The rest is an account: handlers and
calls hold genuine admissions, at most `Patience` older than their call
(`HandlersPaid`, `CallsPaid`), and none is held twice (`Disjoint`). Choosing for each
call the admission it owns is then an injection into the admissions of one window,
which `BudgetHonoured` bounds.

**LoginFlow.** `Provenance` says where every token in a cookie, request or reply
comes from; `Held` that a minted token is with one handler, or handed out for one
use; `Sight` what a handler has already seen of the account at each step;
`Working` that the step has the token it needs. `PendingNeverIssued` follows from
`Held`, `SingleFactorOnlyWithoutMfa` and `NoNeedlessStepUp` from `Sight`. Handlers
differ only in how they go on, so the step lemma reduces each of them to one of
five shapes (forget, proceed, mint, respond, respond with a change of a factor).
`Refinement` reuses the shapes. It needs things that no property of a run says
(`Roles`): a step-up presents a parked token and a portal request an issued one, a
login works with an aal1 token until it turns to step-up, and no response sets both
cookies. Then `Grant`, `StepUp` and `Activate` mint, `Challenge` parks, `Finalize`
issues, `Deliver` stores, and the rest stutters. That no parked token ever becomes a
session (`PendingNeverIssued`) is part of `TokenCustody`; `PendingStaysPending`
proves it directly.

**UserStore.** What a request has established must survive the steps of all others.
It does because the tables only grow (`Grow`): rows are inserted and marked, never
deleted or unmarked. `Known` says what each waiting statement relies on (a mark
awaits its owner's own row; the second SELECT of `ensure_user` follows a conflict
or a fault; a row found is still there), `RowsInserted` that preferences come from
some request's INSERT, which is what a failed save is explained by. `Refinement`
maps an executed write to `UL!Save` or `UL!Mark`, `Begin` to `UL!Submit` or `UL!Ask`,
`List` to `UL!Show`, the rest to stutters.

**PortalMutations.** Three facts: a form keeps the session it was rendered for;
whatever was accepted, or left behind, came with a session entitled to the form: that
very one for a form of a page, one of its account for a call of the API (`Entitles`,
`Standing`, `Entitled`); and a service's record of a key never changes (`Recorded`, `Stay`),
which is why "ok" stays true while later steps run. `Kept` follows a secret's form
through the page. `RequestsAreGenuine` traces a request in the service's record, in
an attempt or left behind to a form that was submitted with valid fields.
`Refinement` rests on both: the effect of a call, early or late, is
`Promise!TakeEffect`, a fragment delivered with its secret is `Promise!Show`.

**Serving.** `MetricsExplained` and `NoDoubleCount` are inductive with `Stands` (what
each stage has behind it). The proof is one of cardinalities: each step moves one
request between disjoint sets, and `Counts` says what that does to their sizes.

**Liveness.** tlapm does not reason about ENABLED, so it cannot see that a weakly
fair action is enabled. What it can do is the rest: each liveness theorem has the
hypothesis `[]Enabling`, which says for each fair action that it is enabled when its
guard holds (`EnablingOf`), and derives the property from fairness, the invariant
and the steps. No run lists `Enabling`: that it holds is read off the guards, and
TLC, which computes ENABLED itself, checks the properties without it. The theorems
say more than the runs in two ways: they hold of any number of handlers, forms and requests, and where
faults occur they hold of any number of faults that comes to an end
(`<>[][faults' = faults]_vars`), not just of the two or the one that the runs allow.

* `HangingRequestsEnd`, `StreamsEnd`: one fair step ends the request or the stream,
  and nothing but the request's own steps moves it.
* `DrainReleases`: while a shutdown drains, each connection that it waits for is let
  go for good: a hanging handler times out, a body or a stream whose client is gone
  ends, and only what its client holds (`ClientHeld`) stays. `DrainEnds` concludes
  `DrainCompletes`, with the further hypothesis that when each of the finitely many
  connections is released for good, there comes a time from which all are: an
  induction over a finite set, true of every behaviour and out of the prover's reach.
* `Convergence`: an attempt that meets no fault goes through `received`,
  `inserting`, `inserted`/`refused` and `responding`, and ends settled; one that
  fails is followed by another, and what is settled stays so (`SettledStays`). A
  replica without a pool can only answer 503, so the promise is made to deliveries
  that have come to one with a pool, and lapses while they are at one without.
* `HandledUnlessFaults`: without faults the doc that `billing_already_handled`
  refutes is right. A conflict means that another delivery inserted, and its
  `Recorded` comes.
* `SecretsAreShown`: once faults stop, an attempt at a form whose key was issued is
  answered from the record, with the secret, and the list next to it is read; the
  form and its session stay until then, or the form is `Spoiled`. A session that was
  replaced, by a sign-in of the same customer or a factor activated, spoils it too.

What stays with TLC: that `Enabling` holds, the step of `DrainCompletes` just named,
the violations, and the mutants. `ImplementsPromise` (`PortalMutations`) is proved
and is not a property of a run, whose `OneEffectPerForm`, `EffectByFormOwner` and
`SuccessIsTrue` already look for what would break it.

## 5. Not modelled

Parsing and shaping of JSON, cookies and headers; the syntax checks of hosts,
origins, names and bodies (pure functions of one request; what they decide is a
verdict in the models); the authorization contract of fiducia-auth (pure);
`client_key` (pure); markup; configuration; durations and labels of the metrics. The
cryptography of signatures and CSRF tokens is a verdict. `LoginFlow` models one
customer; nothing in the code lets two customers' flows share state except the
throttle. Its `view` operation stands for every page under `/app` and reads nothing.

Reads that change nothing and keep nothing between awaits are not actions: the
audit feed, key and cron lists of the JSON API, cron history, `sync_catchup`. The two
statements of the notifications page (list and unread count, `main.rs:2120`) are in
`UserStore`, but the number shown is not: nothing says that the two agree.

Streams carry no session in `Serving`. The code verifies it when a stream opens and
never again; frames hold no customer data, so no promise depends on it.

`session_assurance.rs` is not part of the build.

## 6. Plan

Done: the ingest with its abstract ledger, the throttle, the login flow, the user
store with its abstract ledger, the portal's writes to other services, serving with
metrics, streams and shutdown; theorems for all of their safety properties, and, under
the hypotheses of section 4, for their liveness.
Every component but `Serving` has an abstract specification, and is proved to refine
it. What is left: the liveness of the login flow (a user who keeps trying with the
right codes is signed in), which needs fairness of Supabase and of the user; and the
order of responses (a login's that arrives after a logout's).
