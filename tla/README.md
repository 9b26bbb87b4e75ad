# TLA+ models of vidcast

Specifications of the services of this repository whose correctness depends on
concurrency, failure and ordering: the chat fan-out, the stream-key registry
with its MediaMTX webhooks, the recorder and the listing of recordings, login
with its rate limiters, accounts and follows, the migrations at start-up, and
the readiness probe. Each is model-checked with TLC on small instances, and
the safety properties are proved with TLAPS for every value of the constants.
Line numbers refer to `services/...`.

    tlc -config chat_hub.cfg MCChatHub        # one run
    tlapm ChatHub_proofs.tla                  # one proof module

## 1. The system

vidcast is a set of small services around MediaMTX (RTMP in, HLS out).

| Component | State it keeps | Operations | Talks to |
|---|---|---|---|
| chat hub (`chat/hub.go`) | per pod: `rooms` name -> `*room` (clients, cancel), one mutex; a 16-place channel per client | join, leave, broadcastLocalRoom | broker (callback per message) |
| chat broker (`chat/broker.go`) | Redis clients, one per shard; a goroutine and a pubsub per subscribed room | publish, subscribe | Redis shards, picked by FNV-1a of the room name |
| chat handler (`chat/handler.go`) | per connection: read loop, writer goroutine, pinger, ctx | accept, read+publish, write, ping, leave+close | hub, broker, browser |
| chat health (`chat/health.go`) | none | ping all shards within 2 s | Redis, kubelet |
| streams store (`streams/store.go`) | `channels` slug -> {keyHash, live}, `byKeyHash` hash -> slug, one RWMutex, in memory | CreateKey, RotateKey, RevokeKey, Get, FindByKey, SetLive, ListLive | |
| streams webhooks, key API | none of their own; each webhook makes two calls of the store | auth, unpublish, create/get/rotate/revoke, list live | MediaMTX, owners, viewers |
| recordings listing (`streams/recordings_handler.go`, `s3client.go`) | none | paginated listing, presigned URLs | S3 |
| vod-recorder | one process per recorded segment | validate, upload, remove local file | MediaMTX hook, S3 |
| users limiters (`users/app/rate_limit.py`) | three of them, each with buckets id -> {count, window start, locked until} and one lock, per process | check, reset, eviction every 100th check | login, register |
| users login (`users/app/routers/auth.py`) | none of its own | check by address, check by name, verify, reset both | two limiters, Postgres, JWT |
| users accounts (`users/app/routers/auth.py`, `users.py`) | Postgres: users, follows (unique and foreign-key constraints) | register, follow, unfollow, followers, following, me, user | Postgres, JWT |
| users migrations (`users/app/migrations.py`) | Postgres schema, advisory lock of a session | lock with a deadline, upgrade, unlock or invalidate | other replicas, Postgres |
| echo, CI scripts, deploy, infra | configuration, stateless | | |

What is hard, and what makes each part correct:

* **Chat.** `join` publishes the room in the map, unlocks, and only then
  subscribes; subscriptions of dropped rooms live on for a while beside those
  of their successors; client channels are closed by the handler while
  broadcasts run; buffers fill; Redis connections break and publishes are
  retried; pods die without draining. Correct means: no client is stranded in
  a dropped room, nothing is sent on a closed channel, a room has exactly one
  subscription per pod, each user sees a part of one common sequence per room,
  in order and without repetition, and every connection is torn down.
* **Streams.** Two maps hold one relation; the webhooks look a channel up in
  one critical section and act in another; MediaMTX's hooks come late or not at
  all, and everything is lost at a restart. Correct means: the maps agree,
  retired keys never work again, a working key works until it is retired, a
  channel that streams is listed, and a listed one has a session to account for
  it. The auth webhook goes by the key and the unpublish webhook by the path,
  and nothing compares the two.
* **Recordings.** One process per segment uploads a file that MediaMTX may
  delete meanwhile, to a storage that may not answer or may store what was
  given up; listings take several pages while uploads go on. Correct means: a
  segment is removed only when it is stored, what is stored can be listed, an
  answered listing is complete and in order, and every process ends. Recorder
  and listing meet in the object keys only, which both build with `path.Join`.
* **Limiter and login.** Threads read the clock before they take the lock;
  windows, lockouts and eviction compare stale readings; a login passes two
  checks and clears both counters much later, when either may have been locked
  out by others. Correct means: a lockout is imposed only for a full budget of
  attempts, bars every later attempt, ends early only by a login it overtook,
  and bursts are bounded.
* **Accounts.** Handlers look users up, and write in a later statement, without
  a lock or a repeatable snapshot; correctness rests on the constraints of the
  tables and on what is made of their violations. Listings are paged by offset
  while rows come and go. Correct means: the tables go from one social graph to
  the next by whole accounts and whole edges, every answer is true of some
  moment of its request, and a listing misses or repeats only what changed
  behind its client.
* **Migrations.** Replicas start together; the lock belongs to a database
  session that may outlive its pod or die before it; a COMMIT may be executed
  and its answer lost. Correct means: each script is applied once, a pod serves
  only the schema of its release, nobody waits for ever, and all come up.
* **Health.** One goroutine per shard, a shared first error, overlapping
  probes. Correct means: "ok" is said only after each shard answered that very
  probe, and each probe ends.

`PROJECT.json` lists every hazard at its line, with the properties that cover
it, or the reason why none does.

## 2. Modules

| Module | Models |
|---|---|
| `ChatHub` | hub.go, the subscription goroutine of broker.go, the handler's join/leave/close/return |
| `ChatSystem` (extends ChatHub) | handler.go whole, Redis and go-redis as used by broker.go, users' ends, faults |
| `ChatRoom` | the promise of the chat service to its users, independent of pods and Redis |
| `StreamStore` | store.go |
| `StreamsService` (extends StreamStore) | mediamtx_handler.go, streamkey_handler.go; MediaMTX and encoders as external actions |
| `RateLimiter` | rate_limit.py: any number of limiters with their calling threads |
| `Login` (extends RateLimiter) | the login handler of auth.py over the address and the name limiter |
| `Accounts` | register of auth.py, users.py, the constraints of models.py |
| `SocialGraph` | what the users service promises about accounts and follows |
| `Migrations` | migrations.py, the lifespan of main.py, alembic's env.py; Postgres and kubelet as external actions |
| `ChatHealth` | chat/health.go |
| `Recordings` | vod-recorder; recordings_handler.go and s3client.go of streams; S3 and MediaMTX's disk as external actions |
| `*_proofs` | theorems about the module of that name |
| `MC*` | constants for TLC: model values, small sets, assignments of connections to pods |

Definitions marked `Variant` in a comment are wrong alternatives of the
definition after them, such as a dropped guard or a swapped order. No action
uses them; substituting one shows that a property notices that bug.

### ChatHub

A `*room` is a pointer, and the code relies on two rooms of one name being
different objects. As every connection joins once, a room object is named by
the connection whose `join` created it: `rooms[<<pod, name>>]` is that
connection, `clients[o]`, `cancelled[o]` and `sub[o]` are the fields of the
object and its goroutine. `pc[c]` follows the handler: new, subscribing (between
`Unlock` and `broker.subscribe`), joined, left, closed, returned.

| Action | Code |
|---|---|
| `JoinExisting`, `JoinNew`, `Subscribe` | the two branches of join, hub.go:47-66; the mutex is released between the last two |
| `Leave` | hub.go:68-81, one critical section |
| `CloseSend`, `Return` | handler.go:101-104 |
| `Deliver` | the goroutine of broker.go:59-73 receives a message and runs broadcastLocalRoom on its object; allowed also when the context is cancelled, as Go's select may choose either ready case |
| `SubscriptionExit` | broker.go:64-65 |
| `WriterReceive` | one turn of `range c.send` |
| `PodCrash` | the process ends; nothing is persisted. Connections that had not arrived reach the replacement pod |

### ChatSystem and ChatRoom

`ChatSystem` conjoins each hub action with what the handler and Redis do at
that moment. A payload is the position of its message among the PUBLISH
commands executed for the room, so order and repetition are visible without
modelling text. `log[r]` is that sequence; `listening[o]` and `inbox[o]` are the
pubsub of a room object; `strays` are attempts of commands whose caller gave up
on them, or tries again, and which Redis may still execute. `reader`, `writer`, `outgoing`, `shut` and
`ctxDone` are the three goroutines of a connection and what they share.
`PublishTimesOut` has the two outcomes of go-redis: it returns the error, or it
tries again unless the context is done. `Unanswered` is the reason why a ping
fails, including that no `Read` is running to take the pong while the loop is
inside a slow publish. `ReadFails` and `WriteFails` close the connection, which
is what coder/websocket does when their context ends (the comment at
handler.go:76-81). A `Write` runs out of its 5 s on an end that is gone or silent,
and, as the fault `peerStalls`, on one that is there but takes too long; such a
user is disconnected, and counts as present otherwise. Shards are picked by `ShardIndex` from a hash constant.

`ChatRoom` knows rooms, a log of senders, and for each connection the increasing
positions it has received. `ChatSystem` implements it with `got` as it is and
`log` reduced to its senders.

### StreamStore and StreamsService

Each store operation is one action. A call that returns an error changes
nothing and is no step. `issuedTo` and `retired` are history: the slug each key
was generated for, and the keys that were rotated away or revoked. Keys are
fresh (24 random bytes) and SHA-256 is injective on the tokens of the model.

A session of an encoder moves through `asking -> found -> accepted ->
publishing -> ended -> ending -> done`. `AuthFind`/`AuthSetLive` and
`HookFind`/`HookSetLive` are the critical sections of the two webhooks
(mediamtx_handler.go:52/59 and 73-74), with everything else allowed between
them. `Connect`, `PublishStarts` (which takes the path over from an older
publisher), `PublishAborts`, `SourceDisconnects` and `HookLost` are MediaMTX and
the encoders. `Restart` empties the store, cuts running webhooks and leaves
MediaMTX's sessions alone. The API key check (auth.go) changes no state and is
left out.

A session has a `path` and a `password`, either chosen freely: the auth webhook
looks up the password or, without one, the last segment of the path
(`Presented`), the unpublish webhook the last segment of the path. `LastSegment`
is lastPathSegment (mediamtx_handler.go:98-104) as a constant: which slug or key a
path ends in. `PathOf` is the path that is a channel's slug. Slugs are not
validated (streamkey_handler.go), so the last segment of a slug b/a is a, the
slug of another channel or of none. `Conventions` says how encoders behave:
"password" (the key as password, under the bare slug) and "path" (the key as last
segment) are the two ways of streams/README.md:62-68; "any" is every pair of
path and password, among them the key of one channel under the path of another,
which the webhook accepts. The repository deploys none of them: the chart does
not wire the webhooks (values.yaml:24-29). The password convention is the one
vod-recorder relies on (env.go:75-78, streams/README.md:40-45).

The live flag is one bit per channel while sessions are many, so a channel that
streams is not always listed. `cleared` is a history of the exceptions, and
`ListedUnlessCleared` says that there are no others: the channel was revoked
after the session's key had been looked up (`LetIn`), the service restarted, or
the hook of another session whose path leads to the channel was handled after
the session had been accepted. The last one happens when an encoder reconnects
before the hook of its former session arrives (mediamtx_handler.go:74), and when
a session let in with another channel's key ends under this channel's path.
Conversely `lastIn` is the session that marked a channel live last, and
`LiveHasCause` says when its end fails to clear the flag: it is not reported yet,
or the last segment of its path does not lead to the channel. A restart loses
the keys with the flags, which is why `KeyWorksUntilRetired` is stated up to the
first restart: an encoder whose channel was not provisioned again is refused.

### RateLimiter and Login

Each id belongs to one limiter (`LimiterOf`); the ids of a limiter share its
lock and its eviction counter, and nothing else. `Call` is the clock reading
before the lock (rate_limit.py:50). `RefuseLocked`, `Admit` and `LockOut` are the
three outcomes of the critical section, and every one of them includes the
eviction (`Swept`) and the eviction counter. `Reset` is what a successful login
does. `admitted` and `lockEnd` are history. `MaxWait` is an assumption on the
environment: a thread gets the lock within that time.

`Login` drives these actions by the steps of the handler: `Begin` and `CallName`
are the two calls of `_enforce`, `AddressPasses` and `NamePasses` their return,
`Refused` and `LocksOut` the two ways to 429, `Rejected` is 401, `ResetAddress`
and `ResetName` the two resets of a success, between which other threads run.
The password check has no state; it is the choice between `Rejected` and
`ResetAddress`. `overtaken` is history: the ids that were locked out after the
thread had passed their check. `begun` bounds the requests. A registration makes
one check on a limiter of its own and never resets it, which is `LimiterSpec`
without `Reset`.

### Accounts and SocialGraph

A request moves through `authenticating -> finding -> acting`, a registration
also through `refreshing` (between its commit and the `db.refresh` of
auth.py:83). Each is one statement of a READ COMMITTED transaction, with
everything else allowed between them. The sole write of a transaction and its
commit are one step: an insert is not visible before the commit, and a second
insert of the same key waits for the first one's outcome, so what the second
one meets is decided at that commit.

| Action | Code |
|---|---|
| `Authenticate`, `AuthenticateFails` | `get_current_user`, deps.py |
| `Find`, `FindSelf`, `FindFails` | `_get_user_or_404` and the check of users.py:37-40 |
| `InsertFollow`, `InsertDuplicate`, `InsertOrphaned` | users.py:42-58: committed, refused by the primary key, refused by a foreign key |
| `DeleteFollow` | users.py:67-71, idempotent |
| `InsertUser`, `InsertConflict`, `Refresh` | auth.py:59-84 |
| `ReadPage` | users.py:81-110: the page at the offset of what the client has, in the order of creation time and user id |
| `DeleteUser` | not in the code, which has no such endpoint but provides for it (users.py:52-57): the row is deleted with its follows, as `ondelete="CASCADE"` says |

`gone`, `steady`, `skipped` and `shifted` are history: whether an account that a
request names was absent while it ran, what a listing has had in front of it all
the time, and how many rows went or came at offsets that it had passed. A
foreign-key violation is answered with 404 also when it is the caller's own
account that was deleted, which the comment at users.py:52-53 does not mention;
`AnswersAreTrue` therefore allows 404 when either of the two was absent.

`SocialGraph` knows accounts, edges and the last id. `Accounts` implements it
with the edges that `follows` holds; a request that fails is a stutter.

### Migrations

`pc` follows `upgrade_to_head`: polling for the lock, locked, upgrading, in the
`finally` clause after a commit (`releasing`) or an error (`aborting`), serving.
The scripts run in one transaction (`base`, `draft`), which `Commit` makes the
database's. The lock belongs to a session: `holder` is a pod whose session is
alive, or `Orphan`, a session that has outlived its pod or its connection.
`ConnectionDrops`, `CommitUnanswered`, `UnlockFails` and `Crash` are the faults;
after each of them the server may have noticed the end of the session or may
keep it (`Abandoned`), and a poll whose answer is lost may have been granted.
`GiveUp` is the deadline of migrations.py:38-42, after which kubelet starts the
pod again. `clash` stands for the only data a script depends on: users whose
names differ in case only, which the second revision cannot index. Nothing in
the code repairs them; such a database keeps all pods down, and `AllServe`
excludes it.

### ChatHealth

A probe is its goroutines, one per shard, and the first error they share.
go-redis 9.7 bounds the read of a ping by its own read timeout of 3 s, as the
context's deadline of 2 s (health.go:28) applies to a connection only with
`ContextTimeoutEnabled`, which broker.go does not set. A ping may therefore end
later than health.go says, and fail or succeed after any time; the model lets
`PingFails` happen whenever a ping is out, to a shard that is up as well.

### Recordings

A segment is `<<path, start time>>`; its object key is made of just these, so
`bucket` is a set of segments. `SegmentCompletes` is MediaMTX's hook;
`Refuse`, `OpenSegment`, `OpenFails`, `UploadSucceeds`, `UploadFails`,
`RemoveLocal`, `RemoveFails` are main.go from top to bottom with every way out
of it. `RequestArrives` and `ObjectStored` split an upload, so that a recorder
may give up between them or the SDK may send again. `Expire` and `PodRestart`
take files without the recorder: MediaMTX at `recordDeleteAfter`, the kubelet
with the `emptyDir`. A file that goes while it is being uploaded does not stop
the upload, which has it open. `NextPage` lets the storage cut a page anywhere,
so no page size is assumed; `token` is the paginator's. `Joined` is what
`path.Join` makes of "recordings" and a path, for the two paths it does not leave
alone: "." vanishes and ".." takes "recordings" with it. Both are accepted by the
check on either side, which looks for separators only (env.go:113-115). `Selects`
compares keys with the listing's prefix by directories: the slug "." selects all
recordings, and ".." has the prefix "./", which selects nothing. `Place` is the
order of keys in the bucket, by start time within a directory. A request that is
refused at once (no storage configured, slug with a separator) is no step.

## 3. Runs

| Run | Instance | Shows |
|---|---|---|
| `chat_hub` | 4 connections, 1 room, 2 pods, buffer of 1, any deliveries and crashes | `HubInv`, `NoSendOnClosedChannel`, `NoStrandedClient`, `DetachedRoomIsEmpty`, `OneSubscriptionPerRoom`; liveness `CancelledSubscriptionEnds` |
| `chat_delivery` | a sender of 2 messages, 2 listeners that come and go on the other pod, buffer of 2, no faults | `NoGaps`, `SenderOrder`, `ImplementsChatRoom` |
| `chat_faults` | a sender and a listener, buffer of 1, any 2 faults out of 6 of the 7 kinds | `SysTypeOK`, `IdleClientStaysConnected`, `ImplementsChatRoom` |
| `chat_liveness` | both on one pod, 2 messages, buffer of 1, one fault, fair goroutines | `HandlerReturns`, `InboxReachesUsers` |
| `chat_own_message` | one message, both on one pod, no faults | **violates** `OwnMessageComesBack` |
| `streams` | 2 channels, one with a slash in its slug, 3 keys, 5 paths, any path with any key, 2 sessions, 1 restart | `ServiceInv` (with `IndexConsistent`), `RetiredKeysStayDead`, `LiveHasCause`, `KeyWorksUntilRetired`, `ListedUnlessCleared`, `KeysNeverComeBack` |
| `streams_path_key` | no slash, key in the path | **violates** `OfflineOnceReported` |
| `login` | 4 logins on 2 threads, 2 addresses, 1 name, budget 1, window 2, lockout 5, eviction every 2nd check | `LoginInv`, `BurstBound`, `LockoutHolds`, `LockoutIsDeserved`, `OnlyOvertakenLoginsForgive` |
| `recordings` | 2 segments of a channel and 1 of a key-bearing path, or 1 beside one of the path "." or ".."; 1 listing of any slug, fair recorders | `RecordingsInv`, `SegmentSafe`, `StoredIsListable`, `ListingComplete`; liveness `HooksEnd` |
| `migrations` | 3 pods, 2 revisions, any 2 faults of 4 kinds | `MigrationsInv`, `EachRevisionOnce`; liveness `StartupEnds`, `AllServe` |
| `accounts` | 2 requests at a time, 3 accounts, 1 registration, pages of 1 | `AccountsInv`, `ListingExact`, `AnswersAreTrue`, `ImplementsSocialGraph` |
| `chat_health` | 2 overlapping probes, 2 shards that come and go | `HealthyMeansReached`; liveness `ProbeEnds` |

Deadlock is checked in `accounts` and `chat_health`, whose actors may always go
on. It is off in the other runs: connections, sessions, logins, messages and
the clock are finite in number there, and pods that all serve have nothing left
to do, so each behaviour comes to its end.

### What the violations say

1. `chat_own_message`: a client creates a room and `broker.subscribe` returns to
   it; go-redis has sent the SUBSCRIBE (broker.go:57) and does not wait for its
   confirmation. The client publishes at once, over another connection, and
   Redis executes the PUBLISH first: nobody on this pod gets the message, its
   sender included, against "including the sender's own message"
   (handler.go:15-17). One client suffices, as in TLC's trace. A second client,
   which may join and publish while the first one is still between `Unlock` and
   `broker.subscribe` (hub.go:61-63), has the same window and a longer one.
2. `streams_path_key`: the unpublish hook resolves the path by the keys that are
   current when it runs. If the channel's key was rotated beside the stream (in
   TLC's trace between the two steps of its auth webhook), a path that carries
   the old key resolves to nothing, and the channel stays listed as live.
   The README's "so a channel is marked offline when its source disconnects"
   (streams/README.md:58-60) fails. `ServiceOfflineOnceReported` says what it
   takes to keep it: the password convention, and slugs without a slash.

Where the code departs from its comments in other ways, the passing runs contain
the case and the properties hold the code to just that case:

* A slug with a slash. Published under its slug with its key as password, the
  channel "b/a" stays listed: the hook looks for a key or a channel "a", and if
  there is a channel "a", that one is cleared. So does, and is, a channel under
  whose path another one's key is used. `LiveHasCause` and `ListedUnlessCleared`
  allow exactly these.
* A source that never was. The auth webhook marks the channel live before there
  is a stream; an encoder that is gone before it publishes leaves the channel
  among "every channel currently live" (channels_handler.go:7) until its next
  session ends. `LiveHasCause` counts its session as unfinished.
* The path "..". It passes `containsPathTraversal`, although the comment and the
  error message around its call (env.go:87-97) say that traversal components are
  refused; env_test.go:183 pins that it does. Its segments are stored at the root
  of the bucket, where no listing looks: the exception in `StoredIsListable`.
* The slug ".". It passes the same check (percent-encoded), and its listing is that
  of all channels, against "every recorded segment stored for slug"
  (recordings_handler.go:47): the exception in `ListingComplete`.

### Bounds, and why they are enough

* `chat_hub`: three connections of one room on one pod are the least for a room
  to be dropped and created again while a third handler is between steps; the
  fourth makes a second pod, whose crash must not touch the first. One message
  value suffices since the hub never looks at payloads. Buffers of 1 are full as
  soon as they are not empty.
* `chat_delivery`: two messages are the least that can be swapped, repeated or
  skipped; two listeners on the sender's other pod make successive incarnations
  of one room. `SendCap = 2` cannot overflow with two messages, which is what
  `NoGaps` assumes; overflow is exercised in `chat_hub` and `chat_liveness`.
  Without faults `NoGaps` says nothing of lost Redis connections, and
  `SenderOrder` nothing of timeouts, which can swap and repeat texts.
* `chat_faults`: `MaxFaults = 2` lets each fault meet each other one, e.g. a
  timed-out publish executed after a reconnection, or a crash during a retry.
  `peerStalls` is left out, as it disconnects any user. What is "never repeated"
  is a position of the log: a PUBLISH that is sent again has another one.
* `chat_liveness`: with buffers of one, the second message finds the buffer full
  if the writer has not taken the first one. Without the condition `NextFits`,
  TLC finds `InboxReachesUsers` violated by just that. The fault may be a silent
  or a stalled user or a refused publish.
* `streams*`: three keys allow a channel to be rotated twice, or revoked and
  provisioned again between the two steps of a webhook; two sessions overlap on
  one channel or use both, or one ends under the path of the other's channel;
  one restart separates two lives of the store. Paths are the two slugs and one
  per key: paths that end alike differ only in whom MediaMTX replaces.
* `recordings`: two segments of one channel make a listing of one or two pages,
  with the earlier segment stored before, between or behind them; the recorders
  of all three run at once. A segment of the path "." or ".." comes with one of
  the channel, so that a prefix can select too much or too little. Every number of segments is covered by the proofs.
* `login`: a lockout needs two attempts with a budget of 1, so four logins make
  a lockout, a login it overtakes and a later one, or a lockout for the name by
  way of two addresses. Lockout > 2 windows, as in the deployed 300 s and 60 s,
  so that eviction could reach a locked bucket; `MaxClock = 5` ends a lockout
  that began at once, and passes two windows; `MaxWait = 1` lets a thread act
  with a reading older than another's. The clock bound stops time, nothing
  else. The proofs of the limiter have neither bound on clock nor on budget.
* `migrations`: two faults let the pod that holds the lock and the one that
  takes over both fail, while the third one waits; two revisions are those of
  alembic/versions, and the initial database is that of any of them.
* `accounts`: two requests and a deletion beside them are the least that can
  come between two statements of a request. `MaxId = 4` lets one account be
  deleted and registered again under its old name, so that a request may hold
  the id of the former one. Two followers of one account, pages of one and
  `MaxPassed = 1` let one row go or come behind a listing; creation times of two
  values may collide.
* `chat_health`: two probes show that they share nothing; a first error needs
  two shards to be the first of something.

### Fairness

Safety runs assume none. `FairHubSpec` and `FairSysSpec` assume weak fairness of
the steps a Go goroutine takes unaided: the statement after `Unlock`, a `Read`
that has an error to return, the receive from a non-empty channel, the exit when
`ctx.Done` is ready (a select that stays ready with two cases chooses each
eventually), a `Write` that ends within its 5 s context, a ping that fails within
its 5 s, Redis executing what it was sent. `FairRecordingsSpec` assumes that a
recorder takes its next step, where an upload ends by its deadline at the
latest; of the storage nothing is assumed. `MigrationsFairness` assumes that a
pod takes its next step, where a poll has a deadline and kubelet starts a pod
that has stopped; that Postgres ends an abandoned session is not assumed but a
premise of `AllServe`, and `StartupEnds` does without. `HealthFairness` assumes
the Go scheduler, and that go-redis ends each ping. Nothing is assumed of users, and
no fault has to happen. A publish that never returns is excluded by go-redis's
read and write timeouts.

## 4. Proofs

| Module | Main theorems |
|---|---|
| `ChatHub_proofs` | `HubInvariant`, `HubNoStrandedClient`, `HubNoSendOnClosedChannel`, `HubDetachedRoomIsEmpty`, `HubOneSubscriptionPerRoom` |
| `ChatSystem_proofs` | `SystemImplementsHub`, `SystemNoSendOnClosedChannel`, `SystemNoStrandedClient`, `SystemIdleClientStaysConnected`, `SystemTypes`, `SystemSenderOrder`, `SystemImplementsChatRoom`, `SystemNoGaps` |
| `ChatHealth_proofs` | `HealthHealthyMeansReached` |
| `StreamsService_proofs`, the store | `StoreInvariant`, `StoreIndexConsistent`, `StoreRetiredKeysStayDead`, `StoreKeysNeverComeBack` |
| `StreamsService_proofs`, the service | `ServiceInvariant`, `ServiceImplementsStore`, `ServiceIndexConsistent`, `ServiceRetiredKeysStayDead`, `ServiceLiveHasCause`, `ServiceOfflineOnceReported`, `ServiceKeyWorksUntilRetired`, `ServiceListedUnlessCleared` |
| `Recordings_proofs` | `RecordingsInvariant`, `RecorderKeepsSegments`, `RecorderStoresListable`, `ListingIsComplete` |
| `Login_proofs`, a limiter | `LimiterInvariant`, `LimiterLockoutHolds`, `LimiterTally`, `LimiterLockoutIsDeserved`, `LimiterBurstBound` |
| `Login_proofs`, the login | `LoginInvariant`, `LoginImplementsLimiter`, `LoginLockoutHolds`, `LoginLockoutIsDeserved`, `LoginBurstBound`, `LoginForgivesOvertaken` |
| `Migrations_proofs` | `MigrationsInvariant`, `MigrationsEachRevisionOnce`, `MigrationsServingAtHead` |
| `Accounts_proofs` | `AccountsInvariant`, `AccountsImplementGraph`, `AccountsAnswersAreTrue`, `AccountsListing`, `AccountsListingExact` |

They hold for any sets of pods, connections, rooms, channels, keys, sessions,
threads, requests and any parameters that satisfy the named `ASSUME` of the
module. The assumptions are: a connection has one pod and one room; buffers have
a place; keys are not slugs and hash injectively; limits are positive, and the
wait for a lock is shorter than a window; addresses and names are counted by
different limiters; the place of a key in the bucket follows the start time within
a directory, and "." and ".." have no separator; the accounts at the beginning have names, emails and ids of
their own, the ids up to their number. Five hypotheses are part of the
theorems that need them:

* `Payloads = Nat \ {0}`, all positions a message can have in a log, in the
  theorems of `ChatSystem_proofs` but for `SystemIdleClientStaysConnected`; the
  runs have as many payloads as messages.
* `[][Undropped]_sysVars` in `SystemNoGaps`: no pubsub connection breaks and no
  message is broadcast to a client whose buffer is full (hub.go:105-108 drops it
  then). Publishes may time out and be tried again, pods and users may go. It is
  the condition in the property's own words, and the code does not promise more;
  `chat_delivery` has it by its bounds.
* `Window <= Lockout` in the two theorems about `BurstBound`: an expired lockout
  gives the id a clean bucket at once, so a lockout shorter than a window would
  let more than two budgets through in one (TLC finds it with a window of 4 and a
  lockout of 1). config.py:24-29 deploys 60 s and 300 s.
* In `ServiceOfflineOnceReported`: encoders follow the password convention, and
  the last segment of each slug is the slug. `streams_path_key` shows that the
  first is needed, the slug "b/a" above that the second is.
* None in `RecorderStoresListable` and `ListingIsComplete`: ".." and "." are
  cases in the properties themselves.

The inductive invariants below were checked by TLC, on the instances of section
3 or smaller ones of the same module, before they were proved.

**Hub.** The four safety properties are not inductive. `HubInv` adds what ties
the parts together: a registered room is occupied, uncancelled and subscribed
or about to be (`RegisteredRooms`); every member of any room object is a present
client of the object that is registered under its name, with an open channel
(`Members`); a live, uncancelled subscription belongs to a registered object
(`LiveSubscriptions`); and the handler's place determines what its own object
can be (`Handlers`), for instance that a connection that has not joined has
created none. `Members` is the heart: a broadcast runs on an object, and every
member it finds is open, even when the object is stale.

**Chat system.** `SystemImplementsHub` needs one fact of its own, that what
lies in an inbox is a position in a log (`InboxTypeOK`); then each system action
is its hub action with more conjuncts, or leaves the hub alone, and the hub's
theorems hold with all goroutines, retries and faults. That listeners are never
disconnected rests on `Undisturbed`: a user who is there and has sent nothing
has a read loop that is reading, so each ping finds its pong, no publish of
theirs can fail, and neither the context nor the connection has been ended.

`SenderInv` is the sequential loop of handler.go:84-95: as long as no publish has
timed out, what is being published is newer than all of its sender in the log, and
no command of an earlier one is left to be executed.

The refinement of `ChatRoom` goes by `OrderInv`. What a user has received, what
is in its `conn.Write`, what its channel buffers and what lies in the inbox of
its room object are four sequences of positions; `InOrder` and `BeforeInbox` say
that each is increasing and each lies below the next, and that the last position
is in the log. A command that Redis executes gets a position above them all, and
every other step moves a position from one to the next or drops some. So what
comes to a user is above all that came before, whatever was lost between.
`HubInv` gives the step that is not obvious: a client is a member of one room
object only, so a stale goroutine cannot hand it an older inbox.

`GapInv` is the same without drops: the four sequences end where the next begins
(`UpToInbox`), and the inbox of an object that listens ends at the end of the log
(`PushedUpToNow`). For a served user, who is there and whose channel is not shut,
they form a run of consecutive positions up to the last one, which is `NoGaps`.

**Health.** `Accounted` says that each shard of a probe is being asked, has
answered it, or failed it, and `Reported` that the first error, once set, names a
shard that failed. A probe reports when nobody is being asked any more.

**Streams.** `StoreInv` is index consistency plus: every current hash is the
hash of an issued key that is not retired. From it follows that a retired key's
hash is in neither map. `ServiceInv` adds which channel a webhook holds between
its two steps (`FoundIsNamed`): the auth webhook that of the key, the unpublish
webhook the one that the last segment of the path names, also when the channel
is revoked and provisioned again meanwhile. `ServiceLiveHasCause` follows one
channel's flag: whoever sets it becomes `lastIn`, and the hook of that session
clears it unless its path leads elsewhere; this then remains so, since a key that
leads to no channel, or a slug that is none, does not lead to this one later
while it stays listed. `ServiceOfflineOnceReported` follows, as the bare slug
always leads to its channel.
`ServiceImplementsStore` gives every theorem of the store to the service.
`ServiceListedUnlessCleared` rests on `LetInExists`: a session that was let in
and not cleared has a channel in the store, since a revocation and a restart
clear it; so `SetLive` finds the channel, and afterwards only the hook of another
session, whichever key let that one in, resets the flag. A rotation keeps the flag, which is the step the proof
turns on.

**Recordings.** `Progress` says, for each listing, that its pages hold objects
its prefix selects up to the token, page below page, and that all it was asked for
up to the token is among them. As the bucket only grows, uploads keep this, and
a page that reaches the end of what remains leaves nothing that was asked for.
`SentIsListable` carries the validation of the path, with its exception "..", from
the start of the recorder to the bucket. That a prefix selects the own channel's
objects only (`PrefixOfOneChannel`) is where the slug "." is excluded.

**Limiter.** `LocksRecorded` says that while a lockout lasts the bucket exists
and carries its end; the argument is that eviction, by any thread's reading not
ahead of the clock, spares such a bucket, and that whoever finds it refuses.

`TallyInv` relates the bucket to the history of admissions. `Charged` says that
the attempts which the bucket counts were all made since its window began and
since the last lockout ended, so a lockout, which takes a full count, is
deserved. Windows begin at readings that may be older than the clock and older
than attempts already counted; `Waits`, that no thread acts more than `MaxWait`
later than it read, bounds by how much. `SpacedOut` says what came before the
window of the bucket: attempts it does not count were let through before it
began, give or take a wait, and all but one budget of them a window earlier. Of
2 * `MaxAttempts` + 1 attempts in a row, the last is in some window, so the first
lies a window before it, less a wait. Eviction is where the count is lost, and the
clause for an id without a bucket says what then remains; a lockout that ends
is where `Window <= Lockout` is needed.

**Login.** Each login action is a limiter action with more conjuncts, or leaves
the limiters alone; `ChecksMatch` says that what a thread waits for at a limiter
is what its request has it check, and from both `LoginImplementsLimiter` follows.
`LateLockouts` is the invariant behind `LoginForgivesOvertaken`: whoever is past
the check of an id whose lockout runs was past it before the lockout began.
It is kept because `LockoutHolds` lets nobody pass meanwhile.

**Migrations.** `LockHeldByUpgrade` ties the lock to the place of its holder: a
pod that migrates in a working session holds it, so there is one. Therefore
nothing is committed between its reading of the revision and its commit
(`BaseIsCurrent`), and the commit applies just the scripts that are missing. A
lost answer breaks the session with it, so the pod cannot commit twice.

**Accounts.** `OwnKeys`, `EdgesConnect` and `OneEdgeEach` are what the
constraints keep. `IdsGivenOnce` extends to the accounts that requests still
remember: an id they hold names the same account or none, so that an insert or a
delete by id cannot hit a successor. With `Remembered` (what a request holds is
what it asked for) each step maps to a step of `SocialGraph` or a stutter.
`Witnessed` says that as long as no account a request names was absent, what it
holds is in the table; `AnswersAreTrue` follows from it.

**Listings.** The offsets of one owner's rows number them from zero without a
hole (`OffsetsFilled`), which makes a page a segment of the order, full unless it
is the last (`PartSize`). `Passed` are the rows below the client's offset. When
rows come, those that were there move back only, and of the first so many rows at
most the new ones are new (`PartGrows`); when rows go, at most as many move in
front of the offset as went from there (`PartShrinks`). `ListingInv` keeps two
counts in step with this. `Caught`: of the rows that were there all the time and
are passed now, the client lacks at most `skipped`. `Charted`: before any row
whatever, passed rows exceed seen ones by at most `shifted`; this is needed at
every row and not only in total, as the next page may hold rows that the client
has seen, and what counts is how many of them lie before its beginning (`ReadOn`).
`NoHeir` is about the account that took over a deleted one's name between the
look-up and the page: none of its rows was there all the time.

Only model-checked: liveness (`CancelledSubscriptionEnds`, `HandlerReturns`,
`InboxReachesUsers`, `HooksEnd`, `StartupEnds`, `AllServe`, `ProbeEnds`), which
TLAPS does not cover. The two runs that end in a violation are refutations; what
remains true of the second one's subject is proved in `ServiceLiveHasCause` and
`ServiceOfflineOnceReported`.

## 5. Not modelled

* Message bodies, user names, JSON, HTTP status wording, logging; the API key and
  JWT checks, bcrypt, schemas and settings validation (stateless). How the client
  address is taken from the request is stateless too.
* `broadcastLocal`, which only tests call. `reset_all` empties buckets that are
  empty: it runs in the lifespan before the first request (main.py:17-18).
* Pods with different Redis lists: the code has no protection there to state a
  property of, a room is split between shards until the rollout ends.
* A slow user's end that is disconnected by `peerStalls` is not followed further.
  The unpublish hook's two lookups (mediamtx_handler.go:89-92) are one step: a
  segment that can be found by one of them cannot be found by the other.
* A database failover that loses commits; an older image that starts on the
  schema of a newer one; an operator who repairs a clash of names.
* The reading of one user and of the caller (no state), and the expiry of tokens.
* Of a recording its bytes, content type and duration, the expiry of presigned
  URLs, and the order of `RecordedAt`, which is the time of the upload and not of
  the recording.
* `echo`, Helm charts, Argo CD, Terraform and k3d files are configuration or
  stateless. The web front end named in the repository's README is not in it.

## 6. Plan

1. A rollout: pods of two releases on one database, and with two Redis lists.
2. `BurstBound` for lockouts shorter than a window: the bound is larger there, by
   the budgets that fit between lockouts.
