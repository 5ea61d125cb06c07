# krb5-token-service in TLA+

krb5-token-service mints Kerberos tickets for CERN accounts. It runs `kinit`
(or CERN's `cern-get-keytab`) with a password it receives over HTTPS, and keeps
a per-username limiter so that wrong passwords do not lock a person's account
at CERN. This directory models the service's control: the limiter, the three
request handlers on their event loop, the thread-pool executor, the
subprocesses and their failures, the cache of the broker's signing keys, the
working directories on the tmpfs, and the limiter as it is deployed.

Source paths below are relative to `src/krb5_token_service/` unless they name
another directory.

## The system

| component | state | operations | status |
| --- | --- | --- | --- |
| limiter, `ratelimit.py` | per username: pruned failure times, `locked_until` | `check`, `record_failure`, `reset` | modelled |
| handlers, `app.py` | one coroutine per request; its credential buffer, audit line, answer | `/v1/mint`, `/v1/renew`, `/v1/keytab` | modelled |
| minting, `minting.py` | the working directory, the child, the buffers | `mint_ticket`, `renew_ticket`, `mint_keytab`, classifiers | modelled |
| executor and child processes | FIFO work queue, worker threads; what outlives a timeout | `run_in_executor(subprocess.run)` | modelled as environment |
| token verification, `identity.py` | JWKS cache, fetch lock | `get_jwks`, `verify_broker_token`, `_select_jwk` | modelled; signatures and claims are one bit |
| ccache parsing, `ccache.py` | none | `read_ccache` | modelled over lists of credentials |
| settings, `config.py` | constants | | the limiter's settings, the TTL |
| validation grammars, `minting.py:143-170` | none | | accept or refuse |
| probes, `app.py:616-647` | none of their own | `healthz`, `readyz` | `readyz` as a caller of `get_jwks` |
| logging, `logging.py` | none | redaction of top-level keys | not modelled |
| `etc/cern-get-keytab` and its patch | third-party script | | its exit, its stderr and the `msktutil` it starts |
| Helm chart, `Containerfile` | deployment: one replica, rolling updates, a tmpfs per pod | | pods that start, overlap and go; the emptyDir |
| tests, CI, packaging | | | not part of the service |

How they interact. A handler verifies the broker token (an await), validates
the body, asks the limiter, stages a working directory and submits
`subprocess.run` to the default executor (an await). When the child has ended,
the handler classifies its stderr, tells the limiter (`record_failure` for a
wrong password, `reset` for a success), writes the audit line and answers. All
handlers run on one event loop and share one limiter object without a lock:
between two awaits a handler is atomic, across an await it is not. The token is
verified with keys that `get_jwks` caches for all requests and for the readiness
probe. The working directory belongs to one request, but a process the request
started may outlive it. Every pod has a limiter, a cache and a tmpfs of its own;
all pods share the KDC and the accounts behind it.

What is hard. The limiter is checked before an await and updated after it, so
everything another request does to the same username happens in between. The
executor can be saturated by a KDC that does not answer. A child may be killed
after the KDC has already counted the password. File-system errors and
unparsable outputs leave the coroutines by exceptions that not every handler
names. Requests that find the JWKS expired wait for each other, and a failed fetch
leaves them a stale entry. A pod that stops forgets what CERN remembers. The
limiter's pruned list, its single lock and the expiry of that lock must together amount
to a sliding window.

What makes each part correct:

- limiter: it answers like a policy that remembers everything; a full list is
  locked; a running lockout is only ever extended, or lifted by a success.
- handlers: the overrun of the limit by concurrent requests is bounded and ends; no
  request without a password touches an entry; every answer tells the same
  story as its audit line; every request is answered.
- minting: a rejected password is always counted (unless the child was
  killed), other failures of `kinit` never are; the buffers are cleared.
- executor: work items are neither lost nor run twice.
- key cache: one fetch at a time; withdrawn keys are refused and new ones accepted
  a TTL later; once keys were fetched, a broker that fails costs nobody an answer.
- working directories: an answer carries what its own child wrote, or what a
  renewal sent; nothing stays behind but what an orphan writes or a restart leaves.
- deployment: how far the budget of one limiter is multiplied.

## Modules

| module | models | note |
| --- | --- | --- |
| `RateLimiter` | `ratelimit.RateLimiter` | state and one operator per method |
| `LockoutPolicy` | | abstract: what the limiter promises, from the whole failure history |
| `RateLimiterHistory` | the limiter called in any order | history variables and the refinement to `LockoutPolicy` |
| `Minting` | `minting.py` outcomes and classifiers | pure operators, no state |
| `TokenService` | `app.py` handlers, executor, children, KDC, restarts | extends `RateLimiter` and `Minting` |
| `MCTokenService`, `MCReplicas` | | the symmetry sets for TLC |
| `RateLimiterProofs` | | what each limiter method does to an entry |
| `TokenServiceProofs` | | the inductive invariant and its theorems |
| `RateLimiterHistoryProofs` | | the refinement to `LockoutPolicy`, the comprehension |
| `LockoutProofs` | | what may end a lockout, what is counted, how many rejections get through, and how the race ends |
| `AuditProofs` | | answers, audit lines and buffers; extends `TokenServiceProofs` |
| `Broker` | the broker and its key rotation, external | the state `KeySource` and `JwksCache` share |
| `KeySource` | | abstract: what a caller of `get_jwks` may rely on |
| `JwksCache` | `identity.py`; `readyz` as a caller | extends `Broker`, refines `KeySource` |
| `JwksCacheProofs` | | invariant, action properties, the refinement |
| `Workspace` | directories and files of `minting.py`, `ccache.read_ccache` | extends `Minting` for its modes |
| `WorkspaceProofs` | | the invariant and what follows from it |
| `Replicas` | pods, each with a limiter and requests in progress, and one KDC | extends `RateLimiter`, with pods for users |
| `ReplicasProofs` | | the budget of one limiter and of the deployment |

The operators whose comment begins with `Mutant:` are variants of the
definition that follows them, with a plausible mistake. No specification uses
them; putting one in its definition's place makes the property paired with it
in `PROJECT.json` fail.

### RateLimiter

`state[u]` is the `_UsernameState` of `u`. A username with no entry in the dict
is `Fresh`, because `check`, `record_failure` and `reset` treat a missing entry
and a fresh one alike. `check` is split by its two results, `Locked`
(`RateLimitedError`) and `CheckPasses` (it returns, and clears an expired
lockout). `RecordFailure` prunes, appends and locks in one step, as the method
does. Time is a natural number. `Span`, the shorter of window and lockout, is how
long a failure certainly counts: a lockout shorter than the window ends, and
`check` then clears failures that are still within the window. The pruning
comprehension is written as dropping a prefix (`Recent`), which is what it does to a
sorted list; `PruneIsFilter` compares that with the comprehension, written out as
`Filtered`.

### TokenService

A *slot* is a request in progress; slots are reused, so `|Slots|` bounds the
concurrency and not the number of requests. `pc[s]` follows a request:

| step | code | from → to |
| --- | --- | --- |
| `Arrive` | entry of the handler up to the await of `verify_broker_token` | idle → verifying |
| `RejectBody` | FastAPI refuses the body (`app.py:63-67`) | idle |
| `VerifyFails`, `InvalidRequest`, `RateLimited`, `InvalidBlob` | the early returns, in the handler's order of guards | verifying → idle |
| `MkdirFails`, `StageFails` | OSError before and inside the `try` of `minting.py` | verifying → idle |
| `Submit` | limiter check, buffers, `run_in_executor` | verifying → queued |
| `Start` | a worker takes the oldest work item | queued → running |
| `KdcAnswers` | the KDC decides on the credential | running |
| `SubprocessEnds` | exit, kill by timeout, or failed spawn | running → exited |
| `Resume` | classification, `record_failure`/`reset`, audit, answer | exited → idle |
| `StrayAnswers` | the KDC decides on a password whose handler has given up | |
| `Crash` | the process dies and restarts | any → idle |
| `TimePasses` | `time.monotonic()` | |

`Submit`, `MkdirFails` and `StageFails` contain the limiter's check
(`Checked`): there is no await between `rate_limiter.check` and the submission.
Which of the early answers a request gets depends on data the model abstracts
(the token, the texts in the body), so their choice is free; `RateLimited` and
`Checked` depend on the limiter and are exact. `Checked` runs before a keytab is
decoded in the code, but only requests with a password are checked and only the
others have a blob, so the order of the two cannot matter.

`verdict[s]` is what the KDC said to the child, which the service never sees
directly: it sees `result[s]`, drawn from `Results` (exit status, the markers on
stderr, the state of the output file). `rejected[u]` remembers when the KDC
rejected a password of `u`, and `hidden[u]` when a rejection was lost to the
limiter: the child was killed after it (`KilledRejected`), or it came when the child
was gone. `strays[u]` counts the passwords the KDC may still reject in that way, of
requests that ended unanswered by it (`Unanswered`): killing `kinit` recalls no
request, and the `msktutil` of a killed `cern-get-keytab` lives on. `rejected` and
`hidden` are history variables, reset with the limiter. When the KDC accepts the credential and the child still fails, the password was
right and nothing is rejected.

`Faults` selects which failures of the environment may happen: `jwks` (the keys
of the broker are no list of objects), `realm` (a ccache whose realm is no
UTF-8, sent to `/v1/renew`), `mkdir`, `stage`, `spawn`, `timeout`, `child` (a
non-zero exit that says nothing of the credential) and `output` (exit 0 with a
missing, empty or unusable file).

### JwksCache

A *caller* is a request being verified or a readiness probe; callers are reused.
`get_jwks` is cut at its two awaits:

| step | code | from → to |
| --- | --- | --- |
| `Call` | `await get_jwks` (`identity.py:134`, `app.py:639`) | idle → called |
| `Hit` | the first look at the cache succeeds, lines 93-99 | called → idle |
| `Acquire` | nobody has the lock: `async with` does not yield, the second look fails as the first did, the fetch starts | called → fetching |
| `AwaitLock` | somebody has it | called → waiting |
| `WakeHit`, `WakeFetch` | the lock is handed on; the second look, lines 103-106 | waiting → idle, fetching |
| `BrokerReplies` | the broker sends the document of this moment | fetching |
| `FetchSucceeds` | the answer is read, stored and dated before the fetch | fetching → idle |
| `FetchFails` | the stale entry is returned, or the 502 propagates | fetching → idle |

`lock` is the queue of the `asyncio.Lock`, its holder first: acquire does not
overtake a waiter. `history` is what the broker has published, so that the age of
an answer can be spoken about; it is `Broker`'s and the code never sees it.
`_jwks_locks` is keyed by event loop for the tests' sake; the service has one.
A fetch may fail for any reason at any time. `Broken` and `Unsized` are the answers
that do not fail although they should: `identity.py:77` looks for `"keys"` and not into
it. Either is cached like a good one. `Unsized` has no length, so that the log
line after the assignment raises a `TypeError` out of `get_jwks` itself
(`identity.py:116`): that call ends with `error`, and the later ones are answered
with the document until it is a TTL old. `SelectJwk` and `Verdict` are
`verify_broker_token` after its await, `ProbeStatus` is `readyz` after its own.

### Workspace

One directory per attempt. `Stage` is the handler from `TemporaryDirectory` to
the submission; `StageEnds` is a handler that fails there, whose directory is
made and removed without an await between. `ChildWrites`, `ChildExits` and
`TimesOut` are the subprocess; `Resume` reads the output and begins `__exit__`,
`Rmdir` ends it. The two are separate because a process that is not the child may
write between the listing and the `rmdir` of `rmtree`; no other handler runs in
between (`LoopFree`), since rmtree blocks the event loop. Such a process exists:
`subprocess.run` kills the Python of `cern-get-keytab` when it times out, and
the `msktutil` it started through a shell (`etc/cern-get-keytab:95`) goes on.
`exit` has two values: why a subprocess failed is `Minting`'s matter. An exit of 0
says nothing of the output: the child may have written none, or one without a TGT, and
a renewal then finds the ccache it staged under the same name.
`Crash` is a restart of the container, which an emptyDir survives
(`deployment.yaml:121-124`); nothing sweeps `ccache_tmp_root` at start.

A ccache is a list of credentials. The endtime of a ticket stands for the attempt
that obtained it, so that `ReadCcache` shows which bytes its times came from.

### Replicas

`RateLimiter` with pods for usernames: `state[p]` is the one username's entry in
the limiter of pod `p`. A pod is one process, so a restarted container is another
one, and `phase[p]` goes from `new` to `up` to `gone` once. Pods start, overlap and go
at any time: neither `replicaCount` nor a surge restrains them, because a pod that
terminates is counted by neither and its limiter may go on for a while.

A pod has up to `MaxRequests` password requests in progress (`app.py` sets no limit),
and `flight[p]` counts them by what has become of the password: waiting for the KDC,
rejected (`denied`), rejected by a KDC whose word will not reach the handler (`lost`),
accepted (`granted`). `Attempt` is the handler up to its await, `Refused` its
`RateLimitedError`; the KDC answers in any order, and `Fails`, `Succeeds` and `GivesUp`
are what the handlers then tell the limiter, in any order again. Why a handler gives up
is `TokenService`'s matter.

`rejected` is the KDC's memory: rejections within the last `Span` and since the last
success, each with the pod it came through and whether it is `lost`, that is, no
limiter can hold it against the username: the handler never hears of it, or it was
recorded and a success that the KDC had granted earlier made the limiter forget it
(`Succeeds`). `strays` counts the passwords whose child or pod is gone and which the
KDC may still reject. `StopPod` may come between the KDC's answer and
`record_failure`.

## Runs

| run | instance | shows |
| --- | --- | --- |
| `limiter_policy` | 1 user, 3 attempts, window 3, lockout 2, time 0..7, 6 failures | the limiter refines `LockoutPolicy`; pruning a prefix is the comprehension |
| `service_race` | 2 requests, 2 workers, password and bootstrap, window = lockout = 2, time 0..4 | the bounds on the overrun and its end; what may end or revive a lockout |
| `service_serial` | 1 request, password, window 3, lockout 2, time 0..4, timeouts, 1 stray, 1 restart | without concurrency at most `MaxAttempts` rejections per `Span`, besides those the limiter never hears of |
| `service_replies` | 2 requests, 2 users, 1 worker, all modes and faults | answers, audit lines, buffers, queue, what is counted and for whom |
| `service_live` | 3 requests, 1 worker, a KDC that may never answer | every request is answered |
| `jwks_cache` | 3 callers, 2 keys, 4 documents of which two are no JWKS, TTL 1, time 0..2, 1 rotation | the properties of the key cache, liveness included, and the refinement of `KeySource` |
| `workspace` | 2 requests, 3 attempts, all modes | whose bytes are answered, what stays on disk |
| `replicas` | 2 pods with 2 requests each, 2 attempts, window 2, lockout 1, time 0..2, 1 lost rejection or stray at a time | the budget of a limiter and of the deployment |
| `lockout_in_flight` | 2 requests, 1 worker | a request that passed `check` is started under a lockout |
| `unaudited_answer` | 1 request, password and renewal, the faults that raise what no handler names | a 500 without an audit line |
| `ready_on_stale` | 2 callers, 1 document, TTL 1 | a probe whose own fetch fails is answered 200 |
| `keytab_left_behind` | 1 request | an orphan's keytab stays after the answer |

The last four state a sentence of the repository's documentation and TLC
refutes each; `PROJECT.json` quotes them under `findings`.

### Properties worth a word

`AttemptBudget` is the service's own count. A request may pass `check` as long
as fewer than `MaxAttempts` failures are recorded, so when it is submitted at
most `MaxAttempts - 1` failures and `|Slots|` attempts in flight add up.

`OverrunBounded` says that the race ends with its first failure: while a lockout is
recorded, at least one slot has no attempt of the username, because the failure that
began the lockout has left its slot and nothing passes `check` meanwhile. It is what is
left of the claim that `lockout_in_flight` refutes.

`RejectionBudget` is the KDC's count, over real time: at most
`MaxAttempts + 2 * (|Slots| - 1)` requests with a rejected password within any `Span`,
between successes, and those the limiter never hears of on top. Its unit is the request.
`msktutil` may offer one password in several ways, each with a preauthentication
failure of its own (`minting.py:253-258`), so for `/v1/keytab` CERN may count several
for one request. Two rather than one for each further
request: one attempt passes `check` together with the last free one, and one
failure that was recorded after the lockout had begun is forgotten when the lockout
expires, although CERN still counts it. TLC finds `MaxAttempts + |Slots| - 1`
violated with two requests, so the bound is not generous. With one request it is
`MaxAttempts` and the hidden ones, which `service_serial` checks with a lockout
shorter than the window, late answers of the KDC and a restart. It cannot be said of
the window there: once the lockout is over, `check` forgets failures that the window
still holds. With the defaults, where the two are equal (`config.py:91-92`), `Span` is
the window.
`RejectionsStayBelowBudget` proves the bound for every number of requests, every
setting and every fault.

`LockoutKept` and `NoResurrection` are about the same entry at two moments: a
lock that runs is only extended unless a success for the same username was in
flight, and one that has run out does not bring older failures back, even when a
late failure arrives before any `check` has cleared the entry.

`FailureCounted` compares the KDC's verdict, which the code cannot see, with
what the limiter records. It does not require the converse of `cern-get-keytab`,
whose one-line summary also stands for unknown accounts
(`minting.py:261-266`).

`RevocationBounded` and `RotationVisible` are the two sides of the cache's date. A
key that was withdrawn is accepted only if it was still published when the request
came or a TTL before its answer; it would not hold if `fetched_at` were read after
the fetch. Both except answers from the stale entry after the request's own fetch
failed, where age is unbounded by intention, and `ImplementsKeySource` says what
holds there: the last document that was ever served, never an older one, and no error
once there is one, but the `TypeError` of an `Unsized` document. The same stale answer
is what makes `readyz` say more than it knows, which `ReadyMeansFetchable` states and
`ready_on_stale` refutes.

`RefreshSpacing` is what the second look at the cache under the lock is for. It
speaks of fetches that succeed: after failures every request fetches again.

`AnswersOwnOutput` allows one credential that the child did not write: `renew_ticket`
reads back the name it staged (`minting.py:450` and 477), so when `kinit -R` exits 0
without writing, the caller gets its own ccache back, with that one's times.

`NothingLeftBehind` and `KeytabNeverPersisted` belong together. The first holds: of
what the service's own steps and children write nothing stays, on any path. The second is
"Never persists the keytab" (`src/README.md:87`, `app.py:490`), and
`keytab_left_behind` refutes it: a keytab that a killed `cern-get-keytab`'s `msktutil`
writes between the listing and the `rmdir` stays. Both except what a restart leaves.

`BudgetOfLimiter` is `RejectionBudget` for a limiter from its start to its end, with
the requests of other pods around it and the rejections whose pod went before they could be
recorded: `Budget`, `MaxAttempts + 2 * (MaxRequests - 1)`, which `replicas` reaches.
`BudgetAtCern` is the arithmetic of `values.yaml:10-17` with what it leaves out: not
`MaxAttempts` but `Budget`, not for each replica but for each limiter that was up at any
time within the `Span`, and the lost rejections.

`BufferReleased` and `AuditMatchesAnswer` exempt an uncaught exception (500). What the
documentation promises of it, an audit line, is `EveryAnswerAudited`, and
`unaudited_answer` refutes it: a JWKS that is no list of objects, an OSError while the
working directory is set up, a ccache that `kinit` left without a TGT (mint) or
removed (renew), and a realm that is no UTF-8 all leave their handler by an exception no
clause names. Two of them contradict a docstring besides, which no run shows: an
unusable ccache is not "an infra failure like any other minting error"
(`ccache.py:40-42`) but a 500 in mint and a 422 in renew, and when `mkdir` fails, before
the `try` whose `finally` zeros it (`minting.py:349`, 514), the credential buffer is
not zeroed "on every path" (`minting.py:337-340`, 508-509).

### Bounds, and why they are enough

- One username suffices for the races: entries are independent, which
  `service_replies` checks with two (`LimiterIsolation`).
- Two concurrent requests are the least that can race; the theorems cover every
  number. Three share a worker in `service_live` so that one waits behind another.
- `MaxTime` 4 to 7 spans two lockouts and more than a window, so that a
  lockout begins, expires and begins again; in `service_race` four rejections, the
  most that `RejectionBudget` allows there, do happen within that time.
- `service_serial` leaves out the modes without a password, which `check` never
  sees and which cannot be rejected for one; `service_replies` has them. It needs the
  clock only to tell a new failure from an old one; the runs with `MaxTime = 0` do not
  depend on time.
- `MaxRejected` and `MaxLog` bound history variables. `MaxRejected = 6` is
  two more than the bound of `RejectionBudget` in that run (4), and 4 is two
  more in `service_serial` (2, with nothing hidden), so a violation would be seen. A
  bound that cuts a list short cannot make the property false: the theorem holds for
  every `MaxRejected`. `MaxLog = 6` is twice `MaxAttempts`.
- `MaxStrays` is 1 in `service_serial`, so that a late rejection meets the limiter in
  each of its states; it is 0 where the properties do not count rejections, and in
  `service_race`, where no child is killed.
- `MaxCrashes` 1 in `service_serial`: a restart leads back to an initial state at
  a later time, so a second one adds nothing.
- `jwks_cache`: three callers, so that one waits behind a waiter; one rotation
  suffices because a second one starts from an equivalent state; a TTL of 1 and
  time up to 2 let an entry be fresh, as old as the TTL, and expired, with a fetch
  that begins in one of these and ends in another. The documents are one key, both
  keys, `Broken` and `Unsized`: a key is added or withdrawn, or the broker errs.
- `workspace`: two slots are the least that could share a directory, and with
  `MaxAttempts = 3` an orphan of the first meets a later request in its slot.
- `replicas`: two pods can overlap and follow each other, and are interchangeable
  (`MCReplicas`); two requests at a time are the least that race in one limiter. Time
  0..2 lets a lockout of 1 begin, run out unnoticed and begin again while its failures
  are within the window of 2, and the limiter's budget of 4 is reached. The Span is
  then 1, the rejections of one instant; `service_race` and `service_serial` count
  over a Span of 2, and the theorem over any. `MaxHidden` bounds strays and lost
  rejections together: one shows that it is not counted.
- `MaxAttempts = 2` in the service (3 by default): the first failure must not
  lock and the second must.

Deadlock is checked in every run: a slot can always accept a request, a caller can
always call, a container can always restart, and the last pod either lets a request
through, refuses it or is busy with one that can go on, so the only end of a system would be a defect of the model.

### Fairness

`FairSpec` of `TokenService` assumes weak fairness of four things, for each request: the second
step of its handler (`verify_broker_token` returns, because the JWKS request has
`timeout=10.0`, and the event loop runs ready callbacks), `Start` (idle worker
threads take items from the queue), `SubprocessEnds` (`subprocess.run` has a
timeout and kills the child, `config.py:62-77`), and `Resume` (a completed future
wakes its coroutine). Nothing is assumed of the KDC, of new requests, of time or
of restarts. The fairness of `SubprocessEnds` does rest on its timeout: if the
run's end needs the KDC's answer, the property fails.

`FairSpec` of `JwksCache` assumes, for each caller, weak fairness of its first step
and of the step after it has been woken (the event loop runs ready callbacks, and
the lock is first in, first out) and of the end of its fetch, successful or not
(`timeout=10.0`, which httpx applies to each of its operations). Nothing is assumed
of the broker: `FetchFails` alone may end every fetch.
`Workspace` and `Replicas` state safety only.

## Proofs

Every invariant and every action property of a passing run is also a theorem, and so
are both refinements. Everything is proved for every set of users, slots, callers
and pods (finite where they are counted), every number of workers and of requests in a
pod, every limiter setting greater than zero, every TTL and every set of faults. The assumptions
are `LimiterAssumption` (the `gt=0` of `config.py:90-92`, and `None` is no number),
`ServiceAssumption` (at least one slot and one worker, finitely many slots),
`BrokerAssumption`, `CacheAssumption`, `WorkspaceAssumption`
and `ReplicasAssumption`; TLC evaluates them in the runs. One theorem needs more and
says so in its hypothesis: `LockoutsEndClean` has `Lockout >= Window`. The defaults are
equal (`config.py:91-92`) and nothing enforces it; a shorter lockout ends while the
failures that led to it are within the window, and forgets them.

- `TokenServiceProofs`: `Invariant`, `TypeCorrect`, `QueueCorrect`,
  `UnlockedIsShort`, `AttemptsBounded`: `TypeOK`, `QueueMatchesPc`,
  `UnlockedBelowLimit` and `AttemptBudget` hold always.
- `RateLimiterHistoryProofs`: `Invariant`, `TypeCorrect`, `PruningIsFiltering`, and
  `LimiterIsPolicy`, the refinement of `LockoutPolicy`.
- `LockoutProofs`: `LimiterIsolated`, `LockoutsKept`, `LockoutsEndClean`,
  `FailuresAreCounted`: every step satisfies `LimiterIsolation`, `LockoutKept`,
  `NoResurrection` and `FailureCounted`; and `RejectionsStayBelowBudget` and
  `OverrunEnds`: `RejectionBudget` and `OverrunBounded` hold always.
- `AuditProofs`: `AuditsMatch`, `BuffersAreReleased`.
- `JwksCacheProofs`: `TypeCorrect`, `FetchesAreSingle`, `RefreshesAreSpaced`,
  `RevocationIsBounded`, `RotationIsVisible`, and `CacheIsKeySource`, the
  refinement.
- `WorkspaceProofs`: `TypeCorrect`, `OutputIsOwn`, `OnlyOrphansLeaveFiles`.
- `ReplicasProofs`: `TypeCorrect`, `LimiterKeepsBudget`, `DeploymentKeepsBudget`.

The argument for `AttemptBudget`. It is not inductive alone: `Submit` adds an
attempt in flight, and is harmless only because `CheckPasses` leaves fewer than
`MaxAttempts` failures, which needs the entry bound (an unlocked list is short,
`EntryBounded`). So `IInv` joins the types, the queue, the entry bound and the
budget. Every step then treats a username in one of three ways (`BudgetKept`): it
leaves its list short of the limit (`Submit`, an expired lockout, a success); it
adds neither failures nor attempts; or it turns one attempt in flight into one
failure (`Resume` after a wrong password). `BudgetStep` does the counting once,
and each action has a lemma showing which of the three it is. `Start` needs the
queue part: only a request that is already in flight may be started. That only
requests with a password can end in `BadPasswordError`
(`BadPasswordNeedsPassword`) comes from the classifiers.

`EntryBounded` also keeps `locked_until <= now + Lockout`, from which
`RecordFailureProperties` derives that a failure never moves a lock back.

`LimiterIsolation` and `LockoutKept` share one case analysis, `LimiterStep`: short of a
restart, an entry changes only when a request with a password of that username
passes `check`, which a lockout prevents, or settles, which is a recorded failure
or a success answered with 200. It needs the types and, for the lock that never
moves back, `EntryBounded`.

`NoResurrection` adds that an entry's timestamps are in order and none is in the future
(`TimesInOrder`), by the monotonic clock. What a late failure finds behind a lockout
that has run out then lies out of the window, and pruning drops it.

`FailureCounted`. The verdict of the KDC, its trace in the result of the child and the
class of the error are three things. `RefusalIsBadPassword` and `BadPasswordIsRefusal`
show that the classifiers connect them, for the results `Results` allows, and
`ResultsAreReal` that a request carries no other result. Proving this showed that two
arms of the `CASE` in `Minting`'s `Stderr` overlapped, which TLC resolves by taking the
first and TLA+ by an arbitrary choice; they are disjoint now.

`RejectionBudget`. Neither the KDC's rejections nor the limiter's timestamps bound the
other: a rejection is heard of later, pruned at another moment, forgotten when a
lockout expires, and not heard of at all when the child was killed. `RejectionsBounded`
says how far apart they get. For every moment `T` within the `Span`, the rejections
after `T` exceed the timestamps after `T` by at most the hidden ones after `T`, the
attempts whose rejection the handler has not heard of (`Denied`) and `|Slots| - 1` that
an expired lockout forgot. While a lockout stands, those after its beginning and
the attempts in flight that may yet be rejected (`Open`) are `|Slots| - 1` together:
the failure that began it has left its slot, and nothing passes `check`. This is what
the expiry of the lockout turns into the first part, because the `Span` is no longer
than the lockout; that it is no longer than the window is why pruning costs nothing.
The timestamps and the attempts in flight are bounded by `AttemptBudget`, and the sum is
`MaxAttempts + 2 * (|Slots| - 1)`. A rejection hidden by a timeout is dated when its
request resumes, which is after the KDC dated it, so that at every `T` it leaves
`Denied` and enters the hidden ones (`HiddenRejection`); a stray's enters both lists at
once (`StrayRejection`). The two lists are cut at
`MaxRejected`; one that is full bounds the other (`TimesAreRemembered`,
`LatestLater`).

`OverrunBounded` is proved from `RaceOver`: while a lock is recorded, not every slot has
an attempt of the username. A lock is recorded by a request that leaves its slot with that
very step, and only one that passes `check` can fill the slot again (`FlightBegins`),
which clears the lock first.

`RateLimiterHistoryProofs`. The invariant tells what an entry says of the history: the
stored list is the end of it, namely what was within the window of the last failure when
that was recorded (`Remembered`), and the stored lock is the latest any failure of it set
(`LocksMatch`). Later pruning cuts the same list further, because the clock does not go
back. So a failure reaches the limit in the list if and only if it does in the history
(`TriggersGrow`), with no condition on the lockout. The comprehension is a recursive
function; that it yields the stretch `Recent` keeps is shown by exhibiting the values of
the function and, since no induction is at hand, by a least place where they would differ.

`AuditProofs`. A handler is silent until its only answer (`Silent`): a request in
progress has no status and no audit line, so the lines of an answered one are those
of its one `Reply`, and these are coherent by the except clauses
(`RepliesCohere`).

`JwksCacheProofs`. The invariant joins the lock with what the cache holds. Who
fetches is at the head of the queue (`SingleFlight`), so nobody else writes the
cache meanwhile, and the entry it found under the lock is still the cache when the
fetch ends (`FetchOK`). With it the date of every entry is one at which its document
was published (`CacheOK`), which gives both bounds on age, and the entry a fetch
replaces was older than a TTL when it started, which gives the spacing.

`WorkspaceProofs`. A directory is one attempt's for ever (`IdsOK`), all its files
were written by processes of that attempt (`FilesOK`), and the orphan of a request
in progress is of one that timed out (`OrphansOK`). So the output read after exit 0
is the child's, or a renewal's staged ccache, and no orphan's (`ExitOK`), and what
rmtree leaves is an orphan's (`EmptiedOK`).

`ReplicasProofs`. For each pod the argument is that of `RejectionBudget`, on counts in
place of slots, so that a pod's requests need no identity. `Matched`: for every moment
within the `Span`, the rejections after it exceed the timestamps after it by at most the
rejections the handlers have yet to hear of and `MaxRequests - 1`. `LockOK`: while a
lock stands, the rejections after its beginning and the requests that may yet be rejected
are `MaxRequests - 1` together, so that when its expiry clears the list, `Matched` loses
no more than it allows; the lockout outlasts the `Span` of every rejection before
it, which is why the promise is one about a `Span` and not about the window. `RoomOK`:
failures and requests in progress are at most `MaxAttempts - 1 + MaxRequests`. A success
that the limiter hears of late clears rejections CERN still counts, and these become
`Lost`. A pod that has gone gets no more rejections (`GoneOK`), so each one of the
last `Span` went through a pod that is up or went within it.

`DeploymentKeepsBudget`. `Parts` bounds the sum by the number of limiters times the
budget of each, by numbering the rejections of each (`Numbering`): the library has no
induction over sets that the provers can use.

Model-checked only: `EveryRequestAnswered` and `EveryCallReturns`, liveness under
fairness, which is out of the proof system's reach.

## Not modelled

- Contents of passwords, keytabs, tickets, tokens and log lines; the grammars of
  usernames and lifetimes; signatures and claims of a token beyond right or wrong.
- Logging and redaction (`logging.py`): a stateless rewrite of one event.
- `healthz`, a constant, and what `readyz` checks besides the keys, reads of the file
  system.
- Cancellation of a handler: Starlette does not cancel these endpoints when the
  client disconnects, and a shutdown is a `Crash`, or a `StopPod`.
- Real time: how long a fetch or a queue of fetches takes.
- The size of the tmpfs, and the growth of the limiter's dict by usernames that
  never succeed.
- The chance that tempfile draws the same random name twice in the life of a tmpfs.
- The logic of `cern-get-keytab`, third-party code.
