# A verification project for the ArcRelay web gateway

The gateway is a small HTTP server inside a desktop program. It publishes
shared directories on the local network to browsers, some of them behind a
password, and serves them a web client. This directory holds TLA+ models of the
parts that keep state, in the server, in the browser and in the repository's
own merge automation, the TLC runs that check them on small instances, and
proofs for every instance.
The crate's own sources are named `src/src/*.rs` here.

## The system

| Part | Source | State | Operations |
|---|---|---|---|
| Supervisor | `lib.rs` | async mutex around the running server, status lock, status watch | `reconfigure`, `revoke_sessions`, the serve task; reads: `status`, `subscribe_status`, `requires_background` |
| Session store | `session.rs` | map from token to session, one mutex | `create_or_authorize`, `authorized`, `lock_share`, `logout`, `revoke_share`, `revoke_all`, `len` |
| Password attempt limiter | `server.rs` 27-31, 656-703 | map from (address, share) to instants, one mutex | `auth_rate_limited`, `record_auth_failure`, `clear_auth_failures` |
| Download admission | `admission.rs` | map from address to a pair of semaphores, one global semaphore | `acquire`, drop of a `StreamPermit` |
| Access handlers | `server.rs` 158-265, 612-654 | none of their own | `unlock`, `lock`, `logout`, `authorized_share` |
| Reading handlers | `server.rs` 114-151, 275-523 | none of their own | share list, entries, metadata, text, thumbnail, content |
| Network guard | `network_guard.rs` | none | source address, Host and Origin checks |
| Headers, errors, assets, settings | `server.rs`, `assets.rs`, `lib.rs` | none | pure functions |
| Web client: shell | `assets/assets/webFiles-D6_XYOPO.js`, component `s4` | share, path and dialogs on show, browser history | follow the route, open, navigate, unlock, lock, log out |
| Web client: folder view | the same bundle, components `Go` and `So` | one listing, its cursor, the preview dialog | read a folder, a further page, metadata, a text |
| File share service | external crate `arcrelay_files` | shares and their web settings | lookup by slug, password verification, file access |
| Trusted auto-merge | `.github/scripts/trusted_auto_merge.py`, `.github/workflows/trusted-auto-merge.yml` | GitHub's | approve a maintainer's pull request, enable its merge, dispatch CI of main |
| Diagnostics check | `ci/check-diagnostics-language.sh` | none | text search |

How they interact:

* The supervisor owns one `SessionStore` for its whole life and gives it to
  every generation of the server. Failure table and admission belong to one
  generation (`GatewayState::new`).
* axum runs every connection as a task of its own. Handlers of many connections
  therefore interleave at every await and at every mutex. `unlock` awaits a
  password hash on a blocking thread between two critical sections.
* A handler is dropped when its client disconnects. A response body owns its
  `StreamPermit` until it ends or is dropped.
* The owner of the shares edits them through the file share service at any
  time; the gateway sees a new snapshot at each lookup.

* In the browser every request is answered on its own time. The shell mounts
  the folder view with a share and a path and changes both while the view's
  requests are in flight.
* The merge script reads and writes GitHub by single calls of `gh`, while
  pushes, checks and reviews go on; GitHub merges by itself once auto-merge is
  enabled and the protection of `main` is satisfied.

What makes it hard: check-then-act across the hash; decisions on a clock that
was read before the lock; reclaim by reference count; cancellation at every
await; tasks that outlive the server they belong to; three tables at capacity;
answers that overtake each other on their way to a page that has moved on; a
script that acts on a head it read some calls ago.

What makes each part correct:

* admission: an address never has more live streams than its quota, although
  its limiter may be reclaimed and rebuilt; nothing leaks; everyone is answered;
* session store: no token is honoured for another address, after it ended or
  after it expired; the store is bounded and evicts what was used longest ago;
* limiter: a bound on the failures that one window lets through; refusals only
  for reasons that still hold; a bounded table without stale entries;
* content: what is sent is what the headers announce, of one version unless the
  file changed, and only as the share permits;
* access: a protected share is only read by an address that has presented the
  password in force;
* supervisor: a status that is true between calls, no overlapping generations,
  no server that nobody can stop, sessions that end with their generation, and
  calls that return;
* web client: the address bar, the folder and the text on show are those asked
  for last, whatever order answers come in; what is on show was unlocked;
  spinners end;
* auto-merge: what is merged without the approval of another person is a commit
  whose checks all succeeded; it has one approval of the bot in force; its merge
  is dispatched at most once; and no pull request that is ready is forgotten.

## The modules

| Module | Models | Notes |
|---|---|---|
| `ClientQuota` | what admission promises | abstract: one permanent quota per address |
| `StreamAdmission` | `admission.rs` | one action per atomic step of a request |
| `StreamAdmissionProofs` | | theorems of `StreamAdmission` |
| `SessionGrants` | what the session store promises | abstract: tokens and their grants |
| `SessionStore` | `session.rs` | one action per call, all under the mutex |
| `SessionStoreProofs` | | theorems of `SessionGrants` and `SessionStore` |
| `AuthFailures` | the failure table | operators, used by the next two |
| `AuthLimiter` | concurrent attempts on the table | steps of `unlock` that touch it |
| `AuthLimiterProofs` | | the table's operations; theorems of `AuthLimiter` |
| `WebAccess` | `unlock`, `lock`, `logout`, `authorized_share` | composes `SessionStore`, `AuthFailures`, the owner |
| `WebAccessProofs` | | theorems of `WebAccess`, from those of the two parts |
| `ByteRange` | `parse_range`, `if_range_matches` | operators, with a reference definition |
| `ContentDelivery` | `content` | composes `ByteRange`, `ClientQuota`, the owner of the file |
| `ContentDeliveryProofs` | | `parse_range` against the reference; theorems of `ClientQuota` and `ContentDelivery` |
| `Supervisor` | `lib.rs` | calls, serve tasks, connections, sessions |
| `SupervisorProofs` | | theorems of `Supervisor` |
| `WebApp` | component `s4` of the bundle | the shell, with the gateway's session |
| `FileBrowser` | components `Go` and `So` of the bundle | the folder view and the text preview |
| `WebClientProofs` | | theorems of `WebApp` and `FileBrowser` |
| `TrustedAutoMerge` | the merge script and its workflow | against GitHub, modelled from its use |
| `TrustedAutoMergeProofs` | | theorems of `TrustedAutoMerge` |
| `MC*` | | constants and symmetry for TLC |

Each component module also holds a few operators marked *Mutant of X*. No
specification uses them: they are plausible bugs of `X`, and for each of them
the property of a run named in `PROJECT.json` fails when it takes the place of
`X`.

### State and code

**StreamAdmission.** `registry` and `accessed` are the map of `Entry`. A
`ClientLimit` has an identity, since an address that comes back after an
eviction gets new semaphores while permits of the old ones may still be out.
`client`, `request`, `stream` and `global` are what each request holds: the
`Arc` and the three permits. `Arc::strong_count > 1` is `Referenced`, and the
available permits of a semaphore are its size less the permits that are out.
`client()` is two steps, since it reads the clock before it locks. Dropping a
`StreamPermit` is four steps, in the order in which the fields are declared. A
timeout and a disconnected client both drop the future of `acquire` at an
await: `Abandon`, `AbandonClient`, `AbandonRequest`. Tokio hands permits out in
order; the model lets any waiter have one, which allows more.

**SessionStore.** A session is the record of the code; a share without a
revision is `NoRevision`. Every call reads the clock under the mutex, so a call
is one action. Tokens are never returned twice by `random_token`. The idle
lifetime is an argument, because an aborted generation can go on using the
store beside its successor, which may be configured differently.

**AuthFailures, AuthLimiter.** A pair without failures is absent from the map,
here the empty sequence. `now` is the instant `auth_rate_limited` reads before
it locks; `record_auth_failure` reads the clock inside the lock.

**WebAccess.** A handler's `req` is the snapshot it works on: cookie, share and
revision found by the lookup, share and revision that were verified. Each
action runs to the next lock or await. Passwords are numbered by the revision
they belong to. `Verify` looks the slug up again, as `verify_web_password`
does. `Respond` sets the browser's cookie in any order, or is lost.
`CheckLimit` reads the clock with the lock held; that difference is what
`AuthLimiter` is about. `earned` is history: which (address, share, revision)
triples a password has opened and no revocation has ended.

**ByteRange.** A header is what its text says: no range, from a position, a
span, a suffix, or one that is refused for its form. Lengths are naturals: the
code works on 64 bits, subtracts only with `saturating_sub` or after it has
checked for zero, and adds nothing but the one in `end - start + 1`, which is
at most the length. `Requested` is the reference: the set of positions a header
names in a file of a given length.

**ContentDelivery.** `req` is the snapshot a handler works on, in the order in
which `content` fills it: the share, the entry's time, the length and the range,
the open file, the body so far. A step runs to the next await. The owner acts
between any two of them: `Rewrite` changes the bytes of an inode, so a stream
that has it open goes on with the new ones; `Replace` puts another inode under
the name, so a stream keeps the old one; `Remove` takes the name away. A byte of
a body is the version and the position it was read from. `changed` is history:
whether the owner has touched the file since the entry was looked up.
`announced` is history too: the versions clients were told the tag and date of,
which they may send back as If-Range. The clock only orders writes; it never
goes back, so a file that is restored with an older modification time, which the
date comparison would accept, is outside of the model. Whether the file is media
is a constant: a file does not change its kind.

**Supervisor.** A generation is named by the call that starts it. `queue` is
the async mutex with its waiters; `pc` names the next await of a call. The
status is reduced to the call it describes, `running`, and whether it reports
an error. A connection that axum has spawned survives the abort of the serve
task. `Cancel` drops the future of `reconfigure` at any of its awaits; then its
sockets close and a server it had taken is detached. The settings that
`validate` rejects never reach the mutex and are left out.

**WebApp.** The bundle is minified; the variables' declarations give the
minified names. A request is sent, served and answered in three steps, and
`calls` holds those in flight: another request may be sent earlier and served
later. `ticket` is the navigation counter the shell compares after an await.
`session` is what the gateway's cookie opens, `opened` what it ever opened.
`crossed` is history of what the code does not protect against a navigation
(the cases are listed below), each apart from the others. `address`: whether the
address bar and the page may have been set apart, which `AddressAgrees` excepts.
`shares`: the shares that an unlock opened though it was sent for another one;
`ShownWasUnlocked` excepts these shares and no other, before and after. `home`:
the number of the navigation whose address a logout's list took home without
beginning a new one; `RouteAnswersCurrent` excepts the answer with that number.

**FileBrowser.** A listing is a sequence of pages, each named by the share, the
path and the number it was read for; `cursor` is the number of the next page.
`requested` is the reference that the code compares the shell's path with,
`loads` the counter it compares answers of folder requests with. The shell's
change of share and path is one action (`ChangeProps`), with the effects React
runs after it. `switched`, `mixed` and `replaced` are history: the situations
the code does not guard, which the properties name.

**TrustedAutoMerge.** A run of the script is one `run` record, stepped from one
call of `gh` to the next; each call may fail, which ends the script. The
workflow's concurrency group is `run` and `waiting`: a newer event takes the
place of the one that waits. Between any two calls people push, comment,
approve, merge, edit, close and reopen, checks begin, end and run again, and
GitHub merges what it may. `reported` are the checks of a commit that have begun
so far, `green` those of them that have succeeded. As `quality_checks_passed`
does, `AllGreen` asks for the expected checks among those reported and for the
success of all that are reported, and knows of no others. `BotReviews` are the
bot's reviews on the page that is read, its comments left aside. `passed` is
history: the commits of which `AllGreen` has been true; `lost` the pull requests
whose look was cancelled or cut short.

What is assumed of people there: nobody dismisses a review, enables or disables
auto-merge, or overrides the protection of `main`; that protection asks for an
approval of the head and the required checks, and dismisses all approvals at a
push; and every check belongs to a workflow this one runs after, so that its end
is an event. A person may approve a commit whatever its checks say. With
auto-merge left enabled by an earlier head GitHub then merges it as soon as the
required checks have succeeded, and `MergedWasChecked` excepts such a commit; a
commit that only the bot has approved is never merged so. A commit whose
approval a push has dismissed is approved a second time when it becomes the head
again; `OneApprovalInForce` counts the approvals that stand.

### What the client does not guard

Reading the bundle for the two client modules shows these cases. They are part
of the model, and each property that meets one names it as its exception.

* A further page of a folder has no number of its own: it is appended to
  whatever listing is on show, and if it fails late its error hides a good
  listing (`mixed`).
* When the browser's history jumps between two shares at the same path, the
  view compares only the path and keeps the other share's listing
  (`switched`).
* Texts of the preview are taken in whatever order they come; when the entry is
  replaced under the open dialog the old text may stay (`replaced`).
* If the service reports a folder under another spelling than the shell asked
  for, the view reads it again after every answer, without end. `LoadsEnd`
  assumes the spelling is kept.
* After a verified password the shell reads the dialog's share again, and after
  a lock the share on show. A navigation during the await makes it another
  one, or none, and the route `/s/undefined`.
* The list requested on the way home, or after a dialog is cancelled, is taken
  without a ticket; a logout goes home after its list has come, wherever the
  user has gone, and the answer in flight for the route that was left still opens
  its share; if the list fails, the dialog and the address stay.
* Cancelling a password dialog above another share that is on show sends the
  address bar home and leaves that share on the page.
* A failed request for a route that was left shows the error screen.

## The runs

| Run | Checks | States | Result |
|---|---|---|---|
| `StreamAdmission` | `LiveEntryRetained`, `ClientBounds`, `NothingLeaks`, refinement of `ClientQuota` | 343,000 | holds |
| `StreamAdmissionLive` | `EveryRequestAnswered` | small | holds |
| `StreamAdmissionDrop` | `OneSemaphorePerAddress` | | violated |
| `SessionStore` | `NeverRevived`, `EvictsLeastRecent`, refinement of `SessionGrants` | 16,305 | holds |
| `AuthLimiter` | types, `FailuresBounded`, `RefusalJustified`, `PruneComplete` | 739,993 | holds |
| `AuthLimiterRace` | `FailuresPerMinute` | | violated |
| `WebAccess` | `ReadsEarned`, `CookiesEndForGood` | 2,527,487 | holds |
| `ContentDelivery` | `BodyIsRange`, `CutOnlyByChange`, `WithdrawnOnlyMidRequest`, `QuietDelivery`, `ResumeConsistent` | 6,596,142 | holds |
| `Supervisor` | types, `StatusTruthful`, `GenerationsDisjoint`, `SessionsEndWithGeneration`, `NoOrphanServer`, `EveryCallReturns` | 254,885 | holds |
| `FileBrowser` | types, `ShowsRequested`, `ListingWhole`, `PreviewShowsEntry`, `LoadsEnd` | 159,753 | holds |
| `WebApp` | types, `AddressAgrees`, `ShownWasUnlocked`, `SpinnersOwed`, `RouteAnswersCurrent` | 1,633,956 | holds |
| `TrustedAutoMerge` | types, `MergedWasChecked`, `OneApprovalInForce`, `NothingForgotten`, `DispatchedOnce` | 4,204,284 | holds |

The types of `StreamAdmission`, `SessionStore`, `WebAccess` and
`ContentDelivery`, and the capacities of the first two (`CapacityBounds`, `StoreBounded`), hold for every
instance by the proofs below, and no run repeats them. The same goes for
`FilesWithinQuota` of `ContentDelivery` and for what the two abstract
specifications promise (`QuotaKept` of `ClientQuota`, `GrantsSound` and
`NeverHonouredAgain` of `SessionGrants`).

What the two violations show:

* `StreamAdmissionDrop`. The comment at `admission.rs:51` says that live and
  waiting permits keep their entry, so that an address can never acquire a
  second independent semaphore. `StreamPermit` drops its `Arc` before its
  stream permit, and in between another address's insertion may evict the
  entry. Then the first address's next request gets a new semaphore while a
  permit of the old one is out. `ClientBounds` holds all the same: a request
  that has begun to drop its permit no longer streams.
* `AuthLimiterRace`. Attempts that are all past the check before the first
  failure is recorded all run their hash and are all told the result. What
  does hold is `FailuresBounded`: with A attempts in progress at most
  (MAX + 1) * A - 1 failures are reported within one window. TLC finds that
  bound reached. A pair that once failed while the table was full of others is
  left out (`lost`): its failure is not recorded.

### Bounds, and why they are enough

* *StreamAdmission*: four requests, two of one address and one each of two
  others, two registry entries, two global permits, one stream and two request
  permits per address, and idle time one. Reclaim, eviction, refusal at a
  registry of live entries, waiting on both semaphores, refusal of a request
  and reuse of heap identities all happen. Clock values to 2 let an instant
  read before the lock be older than an entry by more than the idle time.
* *SessionStore*: three tokens on two places, two addresses, shares, revisions
  and idle lifetimes. The absolute lifetime 3 exceeds both idle lifetimes, so a
  session can be ended by either.
* *AuthLimiter*: three pairs and a table of two places, so that the table is
  full and reopens; two attempts at a time; six attempts and three ticks let a
  window fill, pass and fill again.
* *WebAccess*: two handlers are the two sides of every race; three requests of
  one browser from two addresses are enough to unlock, to use the cookie from
  elsewhere and to log out; two edits change a password or let two shares
  exchange a slug; two places in the store; a lifetime of one tick.
* *ContentDelivery*: one handler and two requests, the second of which resumes
  with what the first was told; requests meet only at the quota, which
  `StreamAdmission` checks. A file of at most two bytes and headers with numbers
  to three give ranges before, across, at and after the end; all permissions
  and one change of them; two versions (`MaxWrites` counts them, so the file is
  changed once), a second of one tick and times to two, so that the versions
  share a second or not. Seconds of several ticks are left to the proofs.
* *Supervisor*: three calls are a generation that runs, its successor, and a
  successor of that while the first still lingers.
* *FileBrowser*: two shares, of which one allows previews; a folder of two
  pages, a folder with two spellings, two files in one folder; two folder
  requests per mounted view and up to two of each other kind in flight, so
  that a later answer overtakes an earlier one.
* *WebApp*: two shares, two paths, four entries of history and five actions of
  the user, which are enough to open one share's dialog, to leave it for the
  other share during the request, and to go back.
* *TrustedAutoMerge*: two pull requests and two commits they may share; one
  check that is expected, one that is required and one that is neither, so that
  it may be missing when the script looks and appear later; two pushes, so that
  a head moves and comes back; two results, so that both pull requests can have
  their checks in order, or one of them what a merge needs; one edit, comment,
  approval by hand, closing, or check that begins or runs again; a page of three
  reviews in place of 100.
* `CHECK_DEADLOCK FALSE` is set where a bound on attempts, requests, time or
  calls stops the system in the end.

### Fairness

* `StreamAdmission`: weak fairness of lookups and `try_acquire`, which never
  wait; of `Abandon`, since tokio's timer fires after `WAIT_TIMEOUT`; and of
  drops. No fairness of the end of a download, of new requests, or of the
  semaphores, which may be held for ever.
* `Supervisor`: weak fairness of each call, each serve task and the drop of an
  aborted task. The five-second timer is part of the call. No fairness of
  connections: a client may keep one open for ever.
* `FileBrowser`: weak fairness of the answer to each folder request, since
  `fetch` settles: it is answered or fails. No fairness of the user, the shell
  or any other request.

### What the supervisor's properties assume

`StatusTruthful`, `GenerationsDisjoint` and `SessionsEndWithGeneration` assume
that no caller dropped the future of `reconfigure`. Without that assumption TLC
refutes the first at once: a call dropped between writing a failed bind and
sending it leaves the watch on the old value, and a call dropped while it waits
for the old server leaves a detached task whose last write comes later.
`NoOrphanServer` and `EveryCallReturns` need no such assumption.

## The proofs

All proofs assume only the named assumptions on the constants in the modules.

**StreamAdmissionProofs.** The safety properties are not inductive: a bound on
permits says nothing while a request's phase is unconstrained. The invariant
`IInv` adds what each phase holds (`Holdings`), that every held `Arc` is the
registered one and that distinct addresses have distinct limits, that each
semaphore is within its size, and that the registry fits. With it:

* `TypeCorrect`, `LiveEntriesRetained`, `ClientsBounded`, `CapacityBounded`,
  `NoLeaks`: types and every invariant of the run, for any number of requests and
  addresses and any capacities. `ClientsBounded` follows since the live
  requests of an address all hold permits of its one registered limit
  (`LiveShareOneLimit`), whose semaphores are not overdrawn.
* `ImplementsQuota`: every step is a step of `ClientQuota` or a stutter; the
  two steps that need the invariant are the acquisition of the request permit
  and of the global permit.

**SessionStoreProofs.** `IInv` is type correctness, the agreement of
`issuedTo` with the source address of each session, and the bound. With it:

* `TypeCorrect`, `SessionsBounded`, `ExpiredStayDead`;
* `LeastRecentMakesRoom`: `EvictsLeastRecent`, since only a creation adds a
  token and a token that went unexpired is the one `Survivors` left out;
* `StoreImplementsGrants`: every call is a step of `SessionGrants`;
* `GrantsAreSound`, `EndedStayEnded`: what follows from that, since
  `SessionGrants` has it: a share is open only under a live, issued token, at
  one revision, and a session that has ended is never honoured again.

**ContentDeliveryProofs.** `RangeIsRequested`: for every length and every number
in a header `parse_range` returns exactly the positions the header names, as one
non-empty interval inside the file, and refuses exactly the headers that name
none. Every property is about one request and the file, so
the invariant is a predicate `Good` on one record: the interval is the requested
one (by `RangeIsRequested`) and lies in the announced length, the body is an
initial part of it, the permission was there, and as long as the file has not
changed what was seen of it is still so. A step of a handler replaces one record
(`HandlerStep`); a step of the owner keeps `Good` of every record, since it sets
`changed` (`ChangedStep`). With it:

* `TypeCorrect`, `BodiesAreRanges`, `CutsMeanChange`, `QuietDeliveries`,
  `ResumptionsConsistent`, `WithdrawalsHold`: types and all properties of the run,
  for any number of downloads, versions and policies, files of any length, and
  seconds of any number of ticks;
* `UsesQuota`, `QuotaIsKept`, `FilesAreWithinQuota`: the handler enters and
  leaves `ClientQuota` only as that is specified; its counts stay within the
  limits; and since a file is open only while its request streams, so do the
  open files, of one address and in all. `QuotaIsKept` is also what the
  refinement of `ClientQuota` by `StreamAdmission` is worth. Assumed of the
  constants: the limits are numbers.

**AuthLimiterProofs.** The table's operations keep its two
bounds and the order of each pair's instants (`Bounded`, `Ordered`), and a
prune leaves nothing old. What `RefusalJustified` needs beyond that is that the
table never holds more than was reported: `Traced` says that distinct recorded
instants of a pair stand for distinct wrong passwords it was told of, through a
witness that each of prune, record and clear carries on. With it:

* `TypeCorrect`, `PruningComplete`, `RefusalsJustified`, for any pairs, attempts
  and limits, whatever stale instants the checks prune by.

`FailuresBounded` counts wrong passwords of which the table may hold none: a
deque that is full takes no more instants. Its invariant `Spending` gives every recorded instant a
place in the sequence of all failures reported, in order, so that at most as many
are reported from one place to the next as there are attempts in progress
(`Placed`), and so that, while the deque is full and its front is young, what was
reported after the last place and what is still pending are together less than
the number of attempts (`Spent`). Only finitely many attempts, and at least one,
are assumed. With it:

* `FailuresAreBounded`: one window never sees more than (MAX + 1) * A - 1
  failures of a pair, for any number A of attempts in progress, any limits and
  any number of pairs.

**SupervisorProofs.** `IInv` adds to the types: the mutex admits one call at a
time, the one at the head of its queue, and the queue holds just the calls that
wait or are past the lock (`Mutex`); while a call is past it nothing is running,
and what it took has been told to stop (`Taken`); sockets and connections have
an owner (`Owned`); and, as long as no call was dropped, a server that was told
to stop and has not ended is the one being waited for (`Waited`), the holder's
status and event are its own (`Reported`), and older sessions are gone once it
is past `Revoke` (`Ended`). `Waited` is the heart: a late last act of an old
serve task, the only other writer of the status, can then happen only while a
call waits for it. With it:

* `TypeCorrect`, `NoServerEscapes`, `StatusIsTruthful`, `SessionsEnd`,
  `GenerationsAreDisjoint`: every invariant of the run, for any number of calls,
  ports, connections and sessions.

**WebAccessProofs.** The composition is proved from its parts. Each step of it
is a step of the session store or leaves it alone (`StoreUsed`), so the store's
invariant holds of it by the theorems of `SessionStoreProofs`; the failure table
keeps its type by the lemmas of `AuthLimiterProofs`. `IInv` adds the control state
of the handlers (`Control`), that every cookie under way was issued
(`Cookies`), and the two facts behind `ReadsEarned`: every share and revision a
live session opens was opened by a password from the session's address
(`Opened`), and so was every grant a handler is about to make
(`PendingEarned`). With it:

* `TypeCorrect`, `ProtectedReadsEarned`, `CookiesEnd`: types and both properties
  of the run, for any browsers, addresses, shares, revisions and limits. The last
  comes from `EndedStep`, what `SessionStoreProofs` says of one step of the store,
  and from the one step that serves a protected share (`ServesAuthorized`);
* `UsesStore`: `Spec => Store!Spec`, the composition implements the store.

**WebClientProofs**, the shell. What is on the page is the product of answers
that come in any order, so the invariants are about the requests in flight:

* `Typed`, `Spinning`: the loading screen and each dialog's spinner count the
  requests of their kind in flight, which are one or none;
* `Held`: what a request was answered, and what is on show, the gateway had
  unlocked before, save the shares counted in `crossed.shares`;
* `Followed`: a request for a share that carries the number of the last
  navigation is for the route in the address bar, unless a logout's list has
  sent the address home under that number, and no such list is still awaited
  then;
* `Explained`: a page that disagrees with the address bar has such a request in
  flight, or shows its dialog, or an error, or is one of the cases the code does
  not guard.

With them, for any shares and paths, any history and any number of actions:
`TypeCorrect`, `SpinnersAreOwed`, `ShownIsUnlocked`, `AddressBarAgrees` and the
action property `RouteAnswersAreCurrent`, every property of the run `WebApp`.

**WebClientProofs**, the folder view. Each action does one of six things to the
listing (`ListingStep`): it asks for a folder, takes the view down, shows a first
page, asks for a further page, appends one, or leaves the listing alone. Four
invariants are kept by each of the six, and the actions are sorted into them
once:

* `Numbered`: folder requests carry distinct numbers, and the last one is for
  the folder and share on show, only while the view is loading, and no further
  page has been asked for since;
* `FirstShown`: a settled view has a first page, of its folder;
* `Continued`: a further page asked for since then is the one the cursor names;
* `Gapless`: the pages on show are the first, second and so on of that folder.

The preview dialog has an invariant of its own (`Texted`: the requests for a text
that may still be taken are for the entry on show). Assumed of the constants
(`BrowserAssumption`): the name the service reports for a folder is a folder, and
each folder has at least one page. With them, for any folders, any lengths and
spellings of them, and any number of requests:
`ViewTypeCorrect`, `ViewShowsRequested`, `ListingIsWhole` and
`PreviewIsOfEntry`, every safety property of the run `FileBrowser`.

**TrustedAutoMergeProofs.** `IInv` says what a run may look like (`Shape`), that
whatever the bot has approved or is about to approve has had its checks in
order, and what is merged too unless somebody else has approved it (`Checked`),
and that a run past its look finds nothing dispatched (`Sparing`).
It does not matter to `Checked` when auto-merge was enabled, since GitHub merges
only what is approved. Two more invariants rest on it. `Approvals`: while one
page holds all reviews, an approval of the head by the bot is its last review, a
push that overtakes the script has dismissed every approval, and so the script
approves only what it has not approved. `Watched`: whoever is open and has its
checks in order is in line, underway in the run, or done. Assumed of the
constants: that events, pull requests and commits differ, that a page holds a
review, and that some check is expected. With them:

* `TypeCorrect`, `MergesAreChecked`, `ApprovalsAreSingle`, `NoneIsForgotten`,
  `DispatchesOnce`: every invariant of the run, for any number of pull requests,
  commits, checks, pushes and results, and any page size.

Only model-checked are the three liveness properties `EveryRequestAnswered`,
`EveryCallReturns` and `LoadsEnd`: the proof system does not reason about
fairness. Every safety and every action property of a passing run is the subject
of a theorem.

## What is not modelled

* Of content delivery: a link that is swapped in for the file after
  `prepare_file` (`open_no_follow` refuses it on Unix only), and the headers that
  no property is about (media type, disposition).
* The other readers (list, entries, metadata, text, thumbnail): they read through
  the file share service after the authorization that `WebAccess` models.
* The network guard: a decision on one request's source address, `Host` and
  `Origin`, without state or steps. Its rules are about the text of addresses
  and headers, which a model would have to restate rather than abstract.
* Security headers, errors, static assets, settings, address lists: pure
  functions of their arguments. One remark on reading them: the middleware
  inserts `Cache-Control: no-store` on every response and thereby replaces what
  thumbnails and static assets had set; responses of the guard, which is the
  outer layer, carry none of the headers.
* Of the web client: the framework, rendering, search and sort order, and what
  the browser fetches by URL (downloads, thumbnails, images). One remark: its
  request helper expects the `error` of a refused request to be a text, while
  the server sends an object with a code and a message.
* Of auto-merge: pull requests of others, drafts and other bases, which
  `eligible` refuses before any call that writes; the wording of messages. The
  diagnostics check is a text search.
* Inside the file share service nothing is modelled but what the gateway sees.
* An error of `axum::serve`, which that function never returns; a panic of the
  password hash; poisoned mutexes, which every caller ignores.

## Order of work

Admission, session store, limiter, access, supervisor, content delivery, folder
view, shell, auto-merge; then the proofs of the limiter, of access, of the
supervisor, of auto-merge and of the web client. What would come next: an
abstract life cycle of the gateway that `Supervisor` implements.
