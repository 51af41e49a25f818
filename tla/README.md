# A verification of the social comments service

This directory holds TLA+ modules that model the social comments service, the
TLC configurations that check them on small instances, and proofs that TLAPS
checks for every value of the constants. `PROJECT.json` maps every definition to
the lines it stands for.

## The system

An HTTP service in front of social platforms. It runs as any number of
identical replicas over one PostgreSQL database; the replicas share nothing
else. Everything below `comments/comment-service.ts` is reached through awaited
calls, and every `await` is a point where other requests run.

| Part | State | Operations | Interacts with |
|---|---|---|---|
| Reply publication (`CommentService.replyToComment`, `replay`, `recover`) | none between requests | publish a reply at most once per idempotency key; answer a repeated key; recover an abandoned one | operation rows, comment store, provider |
| Reply operation rows (`ReplyOperationRepository`, table `reply_operations`) | one row per (account, key): status, fingerprint, lease, external reply id, resulting comment | `claim`, `recordPublished`, `complete`, `fail`, `markUnknown`, `findByIdempotencyKey`, each one guarded statement | unique index and status predicates arbitrate between replicas |
| Snapshot hydration (`CommentService.listComments` and below) | a map of hydrations in flight, per process | serve a page from the store; fetch provider pages; join a hydration in flight | post row (compare-and-set of the snapshot state), comment store, provider |
| Comment store (`CommentRepository`, table `comments`) | one row per (social account, external id) | `upsertMany`, `storePublishedReply`, `listByPost`, lookups; a parent is resolved by joining on its external id | written by both paths |
| Provider calls (`AdaptiveProviderAdapter`, `callProvider`) | none | one call under a timeout and a retry policy; a call that timed out is not cancelled | the platform |
| Tenant transactions (`PostgresDatabase.withTenant`) | connection pool | one transaction with a transaction-local tenant setting | every repository method |
| Routes and errors | none | the mapping of results and errors to answers | service |
| Process lifecycle (`server.ts`, `createApplication`) | none | on SIGTERM close the server, then the pool; a request timeout that cuts the client off and not the handler | handlers, pool |
| Migrations, composition, seeding, validation | none at run time | | |

What is hard: two requests of one key on two replicas; a handler that works
from a row it read several awaits ago; a publish that is accepted after its
caller gave up; a write that commits and loses its acknowledgement; a process
that dies between any two steps; a lease that runs out while its holder is at
work; on the read path, hydrations racing across replicas on one stored cursor;
in the store, pages and replies written over each other in any order; below it,
transactions whose end nobody heard of on connections that are used again.
The `hazards` of `PROJECT.json` list each at its line with the properties that
watch it.

## The reply path

### Modules

* `ReplyOperationRows`: the rows of `reply_operations` and the guarded
  transition of each repository method.
* `ReplyOperations`: the handler. `pc[r]` names the call request `r` awaits
  next; an action performs that call and the code up to the next await.
* `ReplyContract`: what a client is promised per key, with no handler in sight.
  `ReplyOperations` implements it under the mapping `Contract`.
* `ReplyOperationsClaims`: statements of the repository that the code breaks.
* `MCReplyOperations`: instances for TLC.
* `ReplyOperationsProofs`, `ReplyContractProofs`: the theorems.

| Variable | In the code |
|---|---|
| `pc`, `seen`, `via`, `outcome` | the control point and the locals of one run of `replyToComment`: the row `replay` works from, its call site, the error kept to be thrown again or the answer |
| `op` | the `reply_operations` row of each key |
| `expired` | `Date.parse(leaseExpiresAt) <= Date.now()`, for the row of each key |
| `wire` | what became of the one publish of each request: `unsent`, `sent`, `published`, `lost` |
| `comments` | the `comments` row with the external id of each request's reply: absent, stored with the body that was published, or with another one |

### Abstractions

* A row's id and a reply's external id are represented by the request they come
  from, a fingerprint by the content it is computed from: ids are UUIDs, and a
  platform's ids are unique within a connection.
* A database call ends in one of `DbOutcomes`: `ok`, `failed` (rolled back) or
  `unacknowledged` (committed, and the caller sees an exception). A commit that
  is not acknowledged takes effect at once. `RequestCalls` shows that it may
  also take effect later, even with the transaction of the connection's next
  holder. Until then it holds its row's lock, so no other write comes between;
  that others read the old row meanwhile is not modelled here.
* The reads between `replay` and `claim` (the comment, its depth, the post, the
  provider's capability) change nothing; they are one action that goes on or
  answers.
* Time is the one Boolean `expired`: it may flip at any moment after the claim.
  With `LeaseCoversWork` it flips only once the holder is no longer at work,
  which is what `REPLY_LEASE_MS` is chosen for; the run `lease_budget` shows that
  the choice does not ensure it. Only the two claims set it, which fail even so.
* The list of failure codes that prove a rejection is empty in the code, and
  the branch that would use it is kept in the model.
* A row left `failed` by an earlier release is a possible initial state
  (`FailedEarlier`): today's code reaches `failed` in no other way. That release
  had sent the reply and was answered with a rate limit, so the platform may show
  it all the same (ADR-0015, docs/api-design.md:213). `EarlierAccepted` are the
  keys of which it does. What is shown of today's code is that its own failures
  never lead a client to a new key (`InvitesAreOfEarlierReleases`); the answer for
  a key that failed earlier may still duplicate that one reply.

### Runs

| Run | Question | Instance |
|---|---|---|
| `reply_operations` | safety, leases and the contract | three requests of one key with the same content, all database outcomes, the lease may run out at any time |
| `reply_liveness` | do requests end, do keys heal | three requests, the last with other content |
| `live_request_resolved`, `unknown_has_no_exit` | two statements of the docs and comments the code does not keep | two requests |

One key is enough: handlers of different keys share no state, and the proofs
hold for any set of keys. Three requests give an owner, a retry that overlaps
it and a retry that overlaps both, so two retries can recover the same row.

Fairness: `FairSpec` has weak fairness of each request's handler. Node runs a
handler that can run, each await settles because the pool (5 s to connect, 10 s
per statement) and the provider call (20 s) have timeouts, and a process that
dies is the action `Crash`, on which no fairness is assumed. None is assumed of
the platform, the client, the clock or hydration.

### Proofs

`ReplyInvariant` is inductive, and the safety properties follow from it:

* `RowIsCoherent`: a row that is not absent or legacy has an owner, the request
  that claimed it; it names only its owner's published reply, and names a
  resulting comment exactly when completed, which is then stored.
* `WorkIsOwned`: only the owner of a row is at work on the key or has contacted
  the platform, and each stage of the work has left its mark.
* `ReplayIsCurrent`: the row a replay works from may be stale, but it is a row
  of the same claim, and the reply it names is still the one the table names.
  This is why completing from a stale row is safe.
* `AnswerIsBacked`: what a client was told is backed by the row and stays so.

The properties alone are not inductive: that a second publish is impossible
rests on ownership, and ownership on the row never going back to absent. Each
step is shown to move every row only forward (`Advances`) and to touch only its
own request, so the invariant is followed for that request alone. The
refinement theorem shows for each step the contract action it maps to, or that
it stutters. The assumptions are those named in the modules: `None` is not a
request or a content, requests carry a key and a content, `EarlierAccepted` are
keys, `DbOutcomes` has `ok`. Liveness is only model-checked.

## The read path

### Modules

* `SnapshotHydration`: `listComments` and all below it, on one post. `pc[c]`
  names the call the request of client `c` awaits; clients follow cursors
  through pagination runs, each request on any replica.
* `ReadContract`: what reading a post promises its clients, with no request,
  replica or hydration in sight: comments are observed and stay, the row vouches
  for some of them, and each answer is given at one moment. `SnapshotHydration`
  implements it under the mapping `Contract`.
* `SnapshotClaims`: statements of the repository that the code breaks.
* `MCSnapshotHydration`: instances for TLC.
* `SnapshotHydrationProofs`, `SnapshotCoverageProofs`, `SnapshotRunProofs`: the
  theorems, each module building on the one before.

| Variable | In the code |
|---|---|
| `stored` | the post's rows in `comments` |
| `snapshot` | `posts.provider_cursor`, `provider_exhausted`, `provider_completed_at` |
| `aged` | `stale(snapshot)`: now is past `completedAt` plus the lifetime |
| `inFlight` | the map of hydrations in flight of each process; the model names the client whose request runs it |
| `state`, `expected`, `fetched`, `hydrations` | the locals of `listComments`, `runHydration` and `hydrate` |
| `after`, `partialRun` | the client's cursor |
| `syncedAt` | `snapshot.syncedAt` of the client's last answer |
| `got`, `vouched` | history, for the properties: the comments the run has received, and what the snapshot of its last answer stood for |
| `published` | the platform's comments, and the clock |

Each handler action performs one awaited call and the code up to the next
await. A request goes `find` (the post), `list` (the page), then either answers
or hydrates (`run`, `fetch`, `restart`, `upsert`, `save`, `reread`) or joins
(`join`), reads the page again (`page`) and answers.

### Abstractions

* Comments are numbered by publication, so a page is the lowest numbers after
  the cursor and the platform, newest first, returns the highest before its
  own. That is the order the code is written against; a platform that returns
  oldest first cannot backfill behind a cursor. No comment is deleted, and no
  two have the same instant. A provider cursor is the last comment delivered.
* Time is the number of comments published so far. It orders a snapshot's
  `completedAt` against the comments, which is what `syncedAt` is about;
  that a snapshot outlives its lifetime is a separate choice (`Age`), at any
  moment after its completion.
* The field `began` of a snapshot state is history: when the walk through the
  stream began that the state is the result of. `Covered` says what the state
  therefore stands for: all comments up to `began`, from the cursor on.
* Upserting a page adds its comments. What an upsert does to a row that exists
  (body, depth, parent) is not visible here.
* That a hydration ends, leaves the map and wakes its joiners is one action
  (`Settle`, `Reject`): in the code these are microtasks between two awaits on
  the network, and no other request of the process runs code that looks at the
  map in between.
* The retries inside a provider call, and the capability check, are part of
  one call that succeeds, fails or finds its cursor rejected. A platform that
  silently starts over is not modelled.
* An unacknowledged write commits and the caller sees an exception, as on the
  reply path.
* A client whose request fails keeps its cursor and asks again.

### Runs

| Run | Question | Instance |
|---|---|---|
| `snapshot_faults` | is everything the row claims stored; is hydration single-flight; the contract with staleness | two clients, two replicas, two comments on two provider pages, one page per request, every fault, staleness |
| `complete_runs` | does `syncedAt` mean complete; can a snapshot move back; the contract without staleness | two clients, two replicas, three comments on three provider pages, two per request; failing calls and crashes |
| `reads_converge` | does every read end, and do partial runs lead to complete ones | two clients, two replicas, rejected cursors, one provider page per request |
| `stale_restart` | is a run with `syncedAt` complete when its snapshot goes stale on the way: it is not | one client, four comments |
| `snapshot_reopened` | does a fresh completed snapshot stay: not if another replica still works from the stale one | two clients, two replicas |

Bounds. `MaxComments` bounds the comments ever published, hence the pages of a
walk: two distinguish first and last, three have one in the middle, where a
write can be overtaken by two others. `Limit` and `ProviderPageLimit` are 1, so
that each comment is a page and every boundary is met; `MaxHydrations` (20 in
the code) is 1 or 2, so that the budget runs out before the stream does. Two
clients give a hydrator and a joiner, on one replica, and a lost
compare-and-set, on two; a third client would repeat the part of one of them.

`CompleteRunSawEverything` is checked without staleness because with it the
property does not hold: `stale_restart` is the counterexample.
`PartialRunsConverge` is about behaviours in which the platform rejects cursors
only so long. If it rejects the stored cursor of every request, each request
spends its budget on the newest pages again, and a post with more pages than the
budget never completes.
`SnapshotMovesForward` excludes a rejected cursor for the same reason: there
the code gives the continuation up on purpose.

Fairness. `ServedSpec` has weak fairness of each client's request: Node runs
what can run, and every await settles, for the reasons given for the reply
path, joining because of its timer. `PersistentSpec` adds clients that go on
asking; nothing is assumed of the platform, the clock or crashes.

### Proofs

For any number of clients, replicas and comments, any page sizes and budget:

* Types, with the budget: a request that holds a page has budget for it
  (`InBudget`), without which the count of hydrations is not bounded.
* `SingleFlight`, from the invariant that a request at work is on a process. A
  request has one of three roles toward the map: it runs a hydration, waits for
  one, or neither; most steps change no role, and the two ways a hydration ends
  (`Settle`, `Reject`) are shown once.
* `CoveredIsStored`, from `CoverInv`. The row alone is not enough: a page is
  fetched from one state and counted in a row that may have been rewritten
  since. The invariant says of a page in hand (`JoinsAt`) that with the table it
  leaves no gap in what the next state covers, and that it reaches back to the
  cursor the request expects the row to hold; the compare-and-set makes that
  the row's cursor, so the row may be extended, also when the row's walk began
  later than the page's. Without that comparison the step fails.
* `SnapshotMovesForward`, from the same invariant, if `Faults` is without
  `rejected`: then every comment of a page is older than the expected cursor.
* `CompleteRunSawEverything`, if `MayAge` is false, from `RunInv`: an exhausted
  snapshot is never written again, a run that began over one has no gap before
  its cursor, and its table held all of the snapshot before the run began. The
  theorem is wider than the run `complete_runs`: it allows rejected cursors.
* `ImplementsContract`, without restriction. `upsertMany` is `Observe`, a write
  of the row that goes through is `Vouch`, an answer is `Answer` over the
  snapshot the request works from, and everything else stutters. The mapping
  needs all of the above: a written row vouches for stored comments only and
  extends the one before (`CoverInv`); an answer over an exhausted snapshot is
  one over the row's own, and an exhausted row is not written, where nothing
  goes stale (`RunInv`); a page leaves no gap behind its cursor and is empty only
  at the end (`PageIsPage`); and a snapshot has a date exactly when it is
  exhausted (`DatesInv`). What the contract leaves open is what the code leaves
  open: a request may answer over a snapshot the row no longer holds, an
  incomplete or a stale one, and with a stale one a dated run may have missed
  comments (`stale_restart`).

The assumptions are the named ones of `SnapshotHydration`: limits and budget
are positive, `None` is no number, client or process. That reads end and that
runs converge is only model-checked.

## The comment store

### Modules

* `CommentStoreContract`: what a `CommentRepository` promises, as the in-memory
  adapter keeps it: a call takes effect at once or not at all, and one that
  throws leaves open which.
* `CommentStore`: the PostgreSQL adapter under concurrency, with the platform
  beside it. It implements the contract under the mapping `Contract`.
* `MCCommentStore`: an instance for TLC. `CommentStoreProofs`: the theorems.

| Variable | In the code |
|---|---|
| `published`, `platform`, `edits` | the platform: its comments, what they say, the edits so far |
| `rows` | the committed rows of `comments`: body and external parent id, per external id |
| `page`, `todo` | the argument of `upsertMany` and the rows its insert has not reached; what it has reached is locked until the commit |
| `had` | history, for `RereadsMoveForward`: what the table held when the page was read |
| `target`, `reply`, `outcome` | a publication: the comment replied to, the name the platform gave the reply, the result of `storePublishedReply` |

A hydration fetches any stretch of the stream, newest first, in which the newest
comment may be repeated at the end with another body; its one insert locks and
writes row by row in the order of the page without repetitions, and its commit
shows them at once. A publication passes the depth gate, is named by the
platform (a new name, or one that is taken), inserts with `do nothing`, waits for
an uncommitted row of that name, and commits or reads back. Every transaction may
fail instead: rolled back, or committed with its acknowledgement lost, which its
caller cannot tell apart (`withTenant`).

### Abstractions

* A text is its author's request, if the service published it, and the number of
  edits. `BodyOf` gives the words of each text: two authors, or two edits of one,
  may have written the same. The table holds the words, and `storePublishedReply`
  compares only them (`SameBody`), so a comment of somebody else that has the
  name and the words of a reply is answered as the reply. `AnswersAreJustified`
  claims no more: the row is the reply's own unless its name is shared.
* A failing transaction ends at the database in the step in which its caller
  learns of it. `RequestCalls` shows that a commit that was given up on may run
  later; until then the transaction holds its rows, so what is left out is that
  its caller goes on meanwhile.
* Of a row's columns the body and the external parent id are kept. Those the
  conflict clause leaves alone (author, post, `published_at`) never change on the
  platform, and the display name and `updated_at` go with the body.
* Rows are locked in the order of the array, which `unnest` delivers and the
  plan of a one-post join keeps. The code states no order; a plan that sorted or
  hashed the rows would need a proof of its own.
* The platform reports the true parent of a comment, and never renames one.
* That the post is not the tenant's (`POST_NOT_FOUND`) is one of the failures.

### Run

`comment_store` has two hydrations, one publication, two comments, pages of two
and one edit: enough for two pages to overlap in two rows, in either order of
arrival, for a reply to be observed before its parent, and for a reply to meet
its own row, or another comment's, at every step of a hydration. One comment has
the same words whoever wrote it, the other different ones for each author and edit
(`FirstAlike`), so that both outcomes of the comparison are met. Contents that
differ in one edit tell an older page from a newer one. `RereadsMoveForward` is
about hydrations that do not overlap; of two that do, the one that is stored last
wins, with the older text or the newer, in the contract as in the table. No fairness is assumed,
and requests may stop anywhere.

### Proofs

For any number of hydrations, publications, comments and edits, and any page
size, from `StoreInvariant`:

* `PlatformShape`, `PublicationShape`: parents exist before their replies, a
  reply's text is one request's only, and each stage of a publication has left
  its mark.
* `HydrationShape`: a page lists a stretch of identifiers downwards (`Reading`),
  every observation is of a comment as it is or was (`Faithful`), and no older
  than what the table held when it was read (`NotAfter`).
* `RowShape`: whose text a row may hold.
* `LocksExclude`: two transactions never hold the same row.

`NoDeadlock` has the argument in it: a hydration that waits for a row holds only
higher ones and so everyone in a circle waits for ever lower rows. A publication
holds a row only when it waits for none. That is why `PlaceOf`, the place where a
comment was first seen, matters, and `PlaceOfLast` has a deadlock.

`ContractImplemented` is the refinement. In PostgreSQL a page reaches the table
row by row, without its repetitions and in the middle of other transactions; in
the contract it is stored observation by observation, at once. Three facts bring
them together. `PageStored` says what the contract's recursion leaves for a page
of any length: in each row the last value listed for it. The locks keep
everybody else from a row between its write and the commit, so the commit, at
which the mapping has the call take effect, changes exactly the rows of the page.
And a publication reads a row back at the same moment as it would in one
piece. A call that fails maps to one that fails with its effect, or with none. A
recursion is reasoned about without an induction theorem, which the
provers cannot apply: a length for which the claim failed would have a least one
(`LeastNumber`), and it is none. The assumptions are `StoreBounds` and
`BodyAssumption`, that every text has words.

## Requests, connections and the platform

### Modules

* `ProviderCall`: `callProvider`, its attempts, policies and delays.
* `TenantTransaction`: `withTenant` on a pool: begin, `set_config`, the
  statements, commit, rollback, release, `pool.end()`.
* `RequestCalls`: composes them. A request is a sequence of database calls and
  platform calls in one process, with clients that go away and a shutdown.
* `LeastNumber`: lemmas, that a set of numbers has a least one.
* `RequestClaims`: a statement of the repository about the lease that the code
  breaks. `MCRequestCalls`: instances for TLC. `RequestCallsProofs`: the
  theorems.

| Variable | In the code |
|---|---|
| `conn` | the pool's slots: who holds the client; and, at the server, the state of the session, its `app.account_id`, its uncommitted writes, and the statement the client gave up on |
| `tx` | the control point of a request's `withTenant`; `asked`: its commit was sent; `spent`: the time it may have taken |
| `fate`, `committed` | what the caller of each call was told; what the database has |
| `ended` | `pool.end()` was called |
| `calling` | the control point of `callProvider`, with the time it may have taken |
| `sent` | publishes that left the process |
| `at`, `abandoned`, `leased` | the call a request awaits, whether its client is gone, the time since it took its lease |
| `closing` | `application.close()` was called |

### Abstractions

* The server's side is external. A statement the client gave up on
  (`query_timeout`) keeps the connection busy: what is sent behind it may time out
  unsent, as pg queues queries. It ends as it would have, with an error, or with
  the connection, at any time, also after the connection was released.
* What the statements do is the one fact that their call wrote something. Their
  results decide the handler's way in `ReplyOperations` and
  `SnapshotHydration`; here a call succeeds or fails.
* A read hydrates one page. The walk over pages is `SnapshotHydration`'s.
* Times are in units of 100 ms, each wait at its limit. In `request_calls` the
  limits of the database are zero, as time matters only to the provider's
  budget there; in `lease_budget` they are those of the code, and there are no
  faults.
* A client going away matters only to a server that is closing.
* One process: replicas share the database and no connection.

### Runs

| Run | Question | Instance |
|---|---|---|
| `request_calls` | are tenants, transactions and answers kept apart on a connection that is used again; does a call fail only for a reason; do budgets and the shutdown hold | a reply and a read of two tenants, one connection, two faults, two attempts, delays within and beyond the policy |
| `lease_budget` | does a lease outlast the work it covers: it does not | one reply, the code's own limits, no fault |

One connection for two requests makes every statement of one meet what the other
left behind; two faults are a statement that is late and a rollback that is
late, the least after which a connection is released with its transaction
open, or one in each request. `MaxAttempts` is 2 (3 in the code): a first attempt,
and one after which there is no other.

Fairness. `FairSpec` has weak fairness of each request's steps, since every wait
of a handler has a time limit, and of `DatabaseCloses`, the continuation of
`application.close()`. The server's end of a late statement, the client and the
signal have none.

### Proofs

`RequestCallsProofs`, for any number of requests, tenants, connections,
statements, attempts and faults. `CallsInvariant` says of every request in a
call which of its steps find what on its connection (`AtStatement`):

* A request in a transaction has one connection and nobody else has any
  (`Transaction`), hence `ConnectionsReturned`.
* Whatever a late rollback left there, between its own `set_config` and its
  commit the transaction is open, its tenant's, and has nothing late in it
  (`InOwnTransaction`): a statement behind a late one is not answered. Hence
  `TenantsKeptApart`.
* A call whose caller is told that it failed is `Gone`: it is neither committed nor
  written on any connection, and no statement of it is still to run on any. This
  is stronger than the property, which a transaction left open could break
  later, and holds of the calls a request has not made yet (`InOrder`), which
  makes a call's first statement its first trace. Hence `AnswersAreTrue`.

A step of one request changes one connection, free or its own, and adds to it
nothing but its own call (`Changes`), so that the others' parts are kept by one
lemma (`OthersUndisturbed`), and each action is proved for its own request only.

`RepliesArePublishedOnce` has an invariant of its own, which takes from
`AnswersAreTrue` that an acknowledged claim is committed.

`FailuresHaveReasons` is about the calls that fail although nothing broke. Before
the first fault every connection is sound and nothing is rolled back
(`Faultless`), however often the connections have changed hands, so a call can
fail only for want of a connection: others hold all of them, or the pool was
ended. The latter needs the order of the shutdown (`ShutdownInvariant`): whoever
is still at work by then has lost its client, through every call it goes on to
make.

Time is bounded by what the parts of a call may take, not by a clock:

* `DatabaseCallsEnd` (no run checks it, as times are zero where there are faults):
  a call takes at most `CallLimit`, the wait for a connection and the limits of
  begin, `set_config`, its statements, commit and a rollback. `CountInvariant`
  says for each step how much of it is used up, whatever fails. This is the
  number `lease_budget` holds against the lease.
* `ReadsEnd`: a read of the platform keeps to the attempts of its policy and the
  delays between them, whatever the platform asks for. `ProviderInvariant`
  bounds the time used by the number of attempts made. The delays double, and
  that the recursive `PowerOfTwo` is a function into the numbers at all is
  `PowersOfTwo`, again without an induction theorem (`LeastNumber`).
* `TypeCorrect` takes the number of attempts and of statements left from these.

The assumptions are `TenantAssumptions`, `ProviderAssumptions` and
`ProgramAssumption`. `ShutdownEnds` is only model-checked.

## Plan

| | Modules | State |
|---|---|---|
| A | `ReplyOperationRows`, `ReplyOperations`: one action per awaited call | done, checked, proved |
| B | `ReplyContract`: what a key promises, implemented by A | done, checked, proved |
| C | `SnapshotHydration`: clients, runs, hydration, replicas | done, checked |
| D | Proofs about C: types and the four safety properties | done, proved |
| E | `CommentStore`, `CommentStoreContract`: the refinement included | done, checked, proved |
| F | `ProviderCall` | done, checked within G |
| G | `TenantTransaction`, `RequestCalls`: types and budgets of time included | done, checked, proved |
| H | `ReadContract`: what reading promises, implemented by C, with the refinement | done, checked, proved |
| I | In `CommentStore`, authors with the same words and commits without an acknowledgement | done, checked, proved |
| J | In `CommentStore`, `upsertMany`'s read-back of the stored page | open |

## What is not modelled

Request validation, schemas, headers and rate limiting keep no state that the
modelled paths read. Of tenant isolation, PostgreSQL's row policies are taken as
they are; that every statement runs in a transaction with its own tenant set is
checked. The encoding of cursors is a conversion without state: what a cursor
carries is a client's state in `SnapshotHydration`. The migration runner is
sequential and, by docs/operations.md, runs once before the service starts; two
runners at once are outside of that. Logging, metrics, seeding, OpenAPI
generation and start-up wiring have no part in any property. The in-memory
repositories are modelled where they state what PostgreSQL must do, not as a
composition of their own: the demo that uses them is one process in which no
call fails.

Every invariant and action property that a passing run checks, and every
refinement, is proved, for every value of the constants under the named
assumptions; `SnapshotMovesForward` and `CompleteRunSawEverything` under the
condition their runs have too, a platform that honours its cursors and
snapshots that do not go stale. The liveness properties (`EveryRequestEnds`,
`ExpiredLeaseIsSettled`, `LostCompletionHeals`, `EveryReadEnds`,
`PartialRunsConverge`, `ShutdownEnds`) are out of the prover's reach, as is
`ENABLED`, and stay with TLC.
