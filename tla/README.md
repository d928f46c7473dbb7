# Roomly: specifications and proofs

TLA+ models of the Roomly back end, the TLC configurations that check them and
the TLAPS proofs about them. Paths below are relative to the repository root.

## 1. The system

```text
                 HTTP                 gRPC
  client ─────▶ gateway ───────────────────────▶ user-service ──▶ PostgreSQL user_db
                  │  │                                │   └─────▶ Redis (refresh tokens, denylist)
                  │  └── reads the denylist ──────────┼──▶ Redis
                  │                                   └──▶ RabbitMQ ──▶ notification-service
                  ├─ HTTP ▶ booking-service ──▶ PostgreSQL booking_db
                  │             │ HTTP reserve / release
                  ├─ HTTP ▶ hotel-service ──▶ PostgreSQL hotel_db
                  └─ HTTP ▶ media-service ──▶ PostgreSQL, S3
```

| Component | State | Operations | What is hard | What makes it correct |
|---|---|---|---|---|
| hotel-service (`backend/python/hotel-service/app`) | tables `hotels`, `rooms` (`is_available`), row locks, connection pool | create and read hotels and rooms; `POST /rooms/{id}/reserve`, `/release` under `SELECT ... FOR UPDATE` | concurrent reserves; the refresh after commit; pool and row locks; failure after commit | a room is reserved by at most one caller at a time; every request ends |
| booking-service (`backend/python/booking-service/app`) | table `bookings` (status) | create (reserve, then insert), cancel (read, release, then update), list, get | two databases without a transaction; no retry, no compensation; time-outs; overlapping cancels | a live booking has its room for itself; no room is reserved for nobody |
| user-service (`backend/js/apps/user-service/src`) | table `users` (unique e-mail), Redis refresh tokens and denylist, RSA keys | sign-up, sign-in, refresh, logout, get user | rotation is GET and then DEL; logout against refresh; two sign-ups with one e-mail; save, publish and issue without a transaction; gRPC served before the modules are initialised | a refresh token is used once; after a logout the session is over |
| gateway (`backend/js/apps/gateway/src`) | the rate limit's counter in Redis (cookies, cached keys) | routes to every service; verifies access tokens; auth cookies; rate limit | expiry and denylist are two checks; public keys are fetched from user-service and kept; logout tolerates an unverifiable token; calls that fail after they took effect; streams that break | a denied token is refused; a client that is told of a refusal has had nothing done |
| notification-service | none | consumes `user.created` | redelivery, refusal without requeue | every user created is announced |
| media-service | table of media records, bucket | upload, lookup, open | object stored before its row; bucket created by racing instances | a record has its object |
| libs (`backend/js/libs`) | RabbitMQ connection, Redis and S3 clients, telemetry | clients of the services, error mapping, configuration, start-up hooks, spans | connect behind an await; wrong error mapping; spans that outlive the exporter | errors keep their meaning; a process serves only when it is ready |
| `scripts/roomly.mjs`, `generate-jwt-keys.mjs` | `.env`, JWT key, containers | up, dev, infra, obs, loadtest, down, build, ps, auth:keys | key looked for and then written; compose calls that fail or are killed; two commands at once | "Roomly is up" is true; replicas share a key |
| infrastructure, frontend | – | – | – | not modelled |

Interaction. The gateway forwards a booking to booking-service, which calls
hotel-service over HTTP (httpx, five seconds, no retry) before it writes its own
row; the gateway also offers the hotel's reserve and release directly
(`gateway/src/hotel/rooms.controller.ts:14-39`). README.md draws an event from
hotel to notification-service after a booking; no code publishes it.

## 2. The modules

| Module | What it is |
|---|---|
| `AtomicRooms` | abstract promise of hotel-service: a reserve or release takes effect at one instant between call and answer |
| `HotelRooms` | the handlers of hotel-service statement by statement: pool, row locks, commits, refresh, close, failure |
| `AtomicRooms_proofs` | what `AtomicRooms` promises, as a theorem for any rooms and callers |
| `HotelRooms_proofs` | theorems about `HotelRooms`: the inductive invariant, the refinement of `AtomicRooms`, and the promise that follows from it |
| `BookingSaga` | booking-service's create and cancel, composed with `AtomicRooms`, and direct callers of the hotel |
| `Sessions` | sign-in, refresh, logout and the gateway's verification over the tokens in Redis, with a clock |
| `SignUp` | sign-up, its event through RabbitMQ, and notification-service's consumer |
| `Media` | media-service behind the gateway: S3 and PostgreSQL without a transaction, and the bucket at start-up |
| `Services` | the service processes from environment to open port, their telemetry, and a request through the gateway and one backend |
| `ErrorPaths` | the way of an error of user-service from its name to the gateway's HTTP status; used by `SignUp` and `Services` |
| `Launcher` | `scripts/roomly.mjs`: secrets, `services.conf`, plan, compose calls |
| `BookingSaga_proofs`, `Sessions_proofs`, `SignUp_proofs`, `Media_proofs`, `Services_proofs`, `Launcher_proofs` | theorems about the module of that name: its inductive invariant and every safety and action property its runs check |
| `MCBookingSaga`, `MCSessions`, `MCSignUp`, `MCMedia`, `MCServices`, `MCLauncher` | symmetry and constants for TLC |

Every model but `AtomicRooms` and `ErrorPaths` ends with its inductive invariant, `InductiveInv`, whose parts say why
the properties hold. `TypeOK` is its first conjunct, so a run that checks
`InductiveInv` does not list `TypeOK` as well.

### AtomicRooms

`room[r]` is the row's availability, `holder` and `revoked` are history: who
reserved the room, and which reservations a release has ended. `call[c]` is the
remote call: sent, applied (in effect, not answered), over. `Break` ends a call
with an error before or after its effect, which is what its caller sees of a
500, of a broken connection and of a restart.

### HotelRooms

A request `req[q]` walks through the statements of its handler
(`rooms.py:13-71`, `hotels.py:23-29`): `query` (no connection yet), `row`
(waiting in `SELECT ... FOR UPDATE`), `locked` (the row, read as `seen`),
`insert`, `refresh` (committed, the new transaction has no connection yet),
`reply`, `done`. `conns` are the sessions that hold a connection of the engine's
pool (`database.py:10`, `PoolSize` = pool_size + max_overflow), `rowLock` the
row locks. Commit and rollback end the transaction: locks and connection go
together (`EndTransaction`). `Fail` may strike at every stage; what was
committed stays. `is_available` of a created room is an input
(`RoomCreate.is_available`). `list_hotels` and `get_hotel` read like
`list_rooms` and are not actions of their own.

The refinement mapping (`AbstractCall`, `AbstractRooms`) lets a reserve take
effect at its commit, whatever happens to its refresh.

### BookingSaga

`handler[h]` is the progress of one create or cancel. A client's retry is
another request. A create calls the hotel (`CreateBooking`), is refused (404 and
409 become 409) or granted, and inserts its row; a cancel reads the row without
a lock, calls release and updates the row without reading it again. The hotel is
`AtomicRooms`: its steps interleave with the handlers', so a call goes on after
its caller has timed out. In the environment `env`, `faults` switches on time-outs and stops
(`"timeout"`), failing hotel calls (`"hotel"`) and failing commits
(`"database"`), `overlap` says whether two cancels of one booking may be in
progress at once, `directs` which clients call the hotel's own endpoints,
`creates` bounds how many creates arrive. `Init` chooses one of `Environments`,
so one run asks its questions of the calm and of the rough one.

### Sessions

One browser and the tokens it was given. A pair of tokens is named by the
request that issued it, so `exp[p]` is the access token's expiry, `family[p]`
the pair the refresh token descends from, `store[p]` when its record in Redis
runs out, `deny[p]` when the denylist's entry of its access token does; `jar` is
the pair in the browser's cookies. Every Redis command is a step of its own, and
so is every answer the browser receives:

| Action | Code |
|---|---|
| `Arrive` | the request with the cookies of this moment (`auth.controller.ts`, `users.controller.ts`) |
| `SignIn` | `sign-in.use-case.ts`: the credentials are right or wrong |
| `TakeGet`, `TakeDel` | `redis-refresh-token.store.ts:28-32`, as `refresh-session.use-case.ts:25` and `logout.use-case.ts:34` call it |
| `SignAccessToken`, `SaveRefreshToken` | `issue-session-tokens.service.ts` |
| `VerifyClaims`, `Admit`, `KeepClaims` | `jwt-verifier.service.ts:38-48`: expiry, then, after an await, the denylist |
| `StartLogout`, `DenyAccess`, `RevokeRefresh` | `auth.controller.ts:115-135`, `logout.use-case.ts` |
| `Deliver`, `Lose` | the answer and its cookies reach the browser, or do not |
| `RedisFails` | a Redis command that rejects, and what its caller does then |
| `RedisFailsLate` | the same of a command that Redis had run before the connection broke |
| `Tick` | time passes |

`env` is chosen in `Init` and says whether requests overlap and which faults
there are, so that one run asks its questions of every environment; `Calm` is
one request at a time without faults. `denied` and `spent` are history: the
access tokens a logout has denied, and how often a record was exchanged. The
clock counts ticks, `TicksPerSecond` to a second, because the code compares
seconds that were rounded down. It is one clock for the gateway, user-service
and Redis. The gateway's fetch of the public keys is in `Services`: it touches no
session.

### SignUp and ErrorPaths

A user, its event and the channel a request opens are named by the request.

| Action | Code |
|---|---|
| `Arrive`, `FindByEmail`, `SaveUser`, `StoreFails` | `sign-up.use-case.ts:33-50`, the repository and its unique index |
| `GetChannel`, `OpenChannel` | `rabbitmq.module.ts:38-51`: the cached connection and channel |
| `AssertExchange`, `ExchangeAsserted`, `Publish`, `BrokerRefuses` | `rabbit-event.publisher.ts:19-40` |
| `Issue`, `Reply` | `sessions.issue` and the answer |
| `StartConsumer`, `AssertConsumedExchange`, `AssertQueue`, `BindQueue`, `Consume`, `Handle` | `user-created.consumer.ts:16-49` |
| `Route`, `Deliver`, `TakeAck`, `Requeue`, `LoseFromWire` | RabbitMQ and amqplib, external |
| `ServiceStops`, `ServiceStarts`, `ServiceCutOff`, `ConsumerStops`, `ConsumerCutOff` | stops, and connections that are lost for good |

An address is a spelling; `Normal` is `trim().toLowerCase()`. Events and messages
are sets, since every user has one event and their order is of no consequence. A
connection that ends takes an arbitrary part of what was written with it. What
happens to a process whose connection ends with an error nobody listens for is
either choice: it goes on without (`ServiceCutOff`, `ConsumerCutOff`) or stops.
`ErrorPaths` has the two mappings `toGrpcStatusCode` and
`mapUserServiceGrpcError`; a lost connection to user-service is `UNAVAILABLE`.

### Media

An upload is named by the id it draws. `bucket`, `objects` and `rows` are S3 and
the table `media_objects`; `inst[i]` is how far an instance has come, `gateway`
the gateways that run.

| Action | Code |
|---|---|
| `StartInstance`, `HeadBucket`, `CreateBucket` | `s3.module.ts:56-108`: any error of HeadBucket is taken for a missing bucket, a failed CreateBucket ends the process |
| `ReceiveUpload`, `ReceiveRead`, `NobodyListens`, `Reply` | the gateway's `media.controller.ts` and `media.http.client.ts`; the gateway asks for a record or its content, the list of ids is asked for inside the network only |
| `Begin`, `PutObject`, `SaveRow`, `FindRows`, `GetObject`, `StreamEnds` | `media-app.service.ts` |
| `PutFails`, `SaveFails`, `FindFails`, `GetFails` | a command that rejects, and may have taken effect |
| `StoreBreaksStream`, `InstanceStops` | a body that breaks off, a stop; nobody listens for the error of the piped stream, so the gateway ends |

### Services

`env` is the environment of the deployment: what each container is given, what
the `.env` file says, where the stores answer, whether there is a key. `phase[p]`
goes through `Import` (`otel.ts`, before the file is read), `Configure`, `Create`,
for user-service `ServeGrpc`, the hooks (`InitModule`) and `Listen`; a step that
rejects ends the process, since `bootstrap()` is not awaited by anything and
compose has no restart policy for it. A Python service opens its port at once.
`early` remembers a gRPC call that sent a command to Redis before the hook had
connected the client (`CommandRedis`); calls that touch no Redis do no harm. `jwks`
says that the gateway holds user-service's public keys, which it can fetch only
from a user-service that listens for HTTP (`JwksAnswers`) and drops after a while
(`KeysExpire`). `hits` is the rate limit's counter: the key is the client's address, and the gateway sees that of
`gateway-lb` for everybody, because it does not trust the proxy.

A request goes through the limit (`Count`, `Throttle`, `CannotCount`), validation
(`Refuse`), the check of its cookie, the traced client method (`Call`), the backend
(`Deliver`, `ServeHttp`, `CommandRedis`, `ServeRpc`), back (`Return`, `ReturnUnreadable`, `CallFails`) and out
through the filter (`Respond`). Of user-service it asks one of the operations
that differ here, with a token that is good, denied or bad: the profile needs a
verified access token (`Verify`, `Unauthorized`, then `Revoked` or `CannotCheck`
behind the denylist), refresh a cookie, logout and sign-up nothing. What the backend does is in the other modules;
here it did it or not, and said what its code can say. 200 stands for every
status of success. `root`, `client` and `server` are its spans. `Terminate` is
SIGTERM, which only flushes telemetry; `Kill` is the end.

### Launcher

A command `cmd[c]` goes through `EnsureEnv`, `CheckKey`, `WriteKey`, `Plan` and its
compose calls (`DockerCompose`), which `Calls` computes from `services.conf`
(`LoadServicesConf`, `PlanFromConf`); with an empty plan `up` and `dev` exit with no call. `cont[s]` are the containers of a service,
`keys` the JWT keys its instances have loaded. Compose is external: a call starts
what it names and what that depends on, with the choice between the numbers a
dependency may be left with. A call succeeds, fails with
or without its effect, or is killed by a signal, which `run` (`roomly.mjs:261-276`) takes for success.
The call for the load test gives no `--scale` and brings in `gateway-lb`, `gateway` and the
stores: those without a port on the host, `gateway` and `s3mock`, may be left
with one container.

## 3. The runs

| Run | Instance | Shows |
|---|---|---|
| `hotel` | 3 requests to any endpoint, 1 hotel id, 1 room id, pool of 2, fairness | `FOR UPDATE` serialises the handlers; bodies are truthful; pool and locks do not block each other; implements `AtomicRooms`; the inductive invariant holds; every request ends |
| `saga_faults` | calm: 3 creates, 2 cancels, no fault, cancels do not overlap, no direct call; rough: 2 creates, 2 cancels, 1 direct call, every fault; fairness | what survives, that no room is booked twice in calm, and that every handler ends: see below |
| `double_booking` | 3 creates, 2 overlapping cancels, no fault | finding: two live bookings of one room |
| `sessions` | 3 requests of any kind, every environment, fairness | what survives of a session: see below |
| `refresh_twice` | as `sessions`, overlapping requests | finding: one refresh token is exchanged twice |
| `logout_swallows` | as `sessions`, failing Redis commands | finding: a logout is answered 204 and its access token lives on |
| `sign_up` | 2 sign-ups, 3 spellings of 2 addresses, four sets of faults, fairness | what holds of users and their events: see below |
| `sign_up_race` | as `sign_up`, no fault | finding: a taken address is answered 502 |
| `media` | 2 instances, 1 gateway, 2 uploads of 4 files, 1 read, three sets of faults, fairness | object and row, reading what was created, the bucket: see below |
| `services` | 1 request, 4 stores, three environments, 1 fault, fairness | start-up, spans and statuses: see below |
| `unauthorized` | as `services` | finding: a good token is called invalid |
| `launcher` | 3 commands one by one or 2 at once, 4 contents of `services.conf` | the plan, the key and the running stack: see below |

Bounds. One room suffices for the locks, since requests for different rooms
share nothing but the pool; three requests over two connections give two in a
transaction and one waiting for the pool, or the creator of the hotel, the
creator of the room and a caller that names it. Two creates and two cancels give
every overlap of two handlers of either kind; a double booking needs a third
create, hence three in the calm environment and in `double_booking`. Three session requests
are a sign-in, and then two that overlap with the tokens it issued. Two sign-ups
are the one that finds no channel and no exchange and the one that finds them
half made, done or dead, with one address or two; the faults come on one side of
the event's way at a time (`OneSideAtATime`), because the sides share nothing but
the broker, and the broker's come on both. Two instances race for the bucket, and
one may stop while the other serves; two uploads and a read are one upload that
was answered, one at work and a reader of either or both; the files are one that
is stored and one for each refusal; faults of the stores and stops come in
environments of their own (`OneKindAtATime`), since what a stop leaves behind is
what a failed command may leave behind. One request meets every process that is
on its way, the requests of others are `OthersCount`, and one fault
(`MaxFaults`) at any moment of a start or a request is a store that goes down
and may come back, a kill or a SIGTERM. The three environments are the compose
file, the compose file with a moved port and without a key, and Nest on the host
with a nearly empty `.env`. Three commands are a stack, a change of it and a
third that meets both; two commands at once are every race for the key and the
containers. The bounds are `Requests`, `Callers`, `Creates`, `Cancels`, `Directs`, `Rooms`, `Hotels`,
`PoolSize`, `Environments`, `FaultSets`, `Spellings`, `TicksPerSecond`, `AccessTtl`, `RefreshTtl`,
`MaxNow`, `Gateways`, `Instances`, `Uploads`, `Reads`, `Files`, `Stores`,
`MaxFaults`, `Commands`, `Manners`, `Confs` and `ShellVus`. `MaxNow` ends the clock; it lies beyond the expiry of a pair issued at
the start, so tokens do run out, and two ticks to a second make rounding
visible. Nothing else in the models counts.

Fairness. `HotelRooms!Fairness` is weak fairness of each request's next
statement: the event loop, the pool's queue and PostgreSQL's lock queue are
first come, first served. Arrivals and failures are not fair.
`BookingSaga!Fairness` is weak fairness of the handlers' own steps and of httpx's
five-second time-out; the hotel owes nothing, it may take a call and never answer. `Sessions!Fairness` is weak fairness of each request's next step: Node's
event loop and Redis serve in turn. The clock, lost answers and failing commands
are not fair. `SignUp!Fairness` is weak fairness of each sign-up's next step, of
RabbitMQ's routing and delivery and of the consumer's callback. No restart is
fair: the compose file restarts nothing by itself, so `QueuedIsHandled` assumes
that the consumer is running from some time on. `Media!Fairness` is weak fairness of
each request's next step and of each instance's start: compose starts every
instance once. `Services!Fairness` is weak fairness of starting, of each request's
steps in the gateway and in its backend; stores need not come back and nothing
has to fail. `Launcher` states no fairness: nobody has to type.

Requests may never arrive, hence the terminal states are covered by `Quiet`,
which stutters when all requests are done, and deadlock is checked in every run
but `services` and `unauthorized`: with every process dead or serving, its request answered and its
faults used up, a deployment has nothing left to do.

With faults, `saga_faults` shows: rooms and bookings agree (`HoldsMatchBookings`:
a room that is held was reserved by its holder, a booking stands on a
reservation its own create made and loses it only to a release, a cancelled
booking has lost its room); clients are told the truth
(`AnswersHonest`, which also shows that the 502 of `bookings.py:52` cannot be
reached: rooms are never deleted); a room held by a finished create with no live
booking belongs to one that answered 500 (`HeldForReason`). In the calm
environment no room is booked twice (`CalmNoDoubleBooking`). In the rough one every
handler ends, even if the hotel never answers (`HandlersEnd`).

`sessions` shows: a request that arrives with a denied token is not
admitted, unless the token runs out while the request waits for the denylist
(`AdmitsOnlyUndenied`; the expiry is compared before the denylist is asked, and
the denylist's entry ends with the token); the refresh token in the browser works until some
request has used or revoked it or its time is over (`CookieBacked`); where Redis
commands do not fail, a logout that is answered 204 has revoked both tokens
(`LogoutRevokesIfRedisAnswers`); in `Calm` a session is one chain: a token is
exchanged once, a family has one token that works, a session
survives its refreshes and does not survive its logout
(`CalmSessionsAreChains`); every request is answered
(`RequestsEnd`).

`sign_up` shows: one user per address, by the unique index alone, and without
faults only a taken address is refused (`OneUserPerEmail`); nobody publishes
before the exchange is declared, although the flag is checked and then awaited
(`PublishFindsExchange`); no event about a user that is not stored, and a 201
means that the user is stored and the event was published (`EventsMatchUsers`);
what reached the queue is not lost (`QueuedUntilHandled`); sign-ups
are answered, queued events handled (`SignUpsEnd`, `QueuedIsHandled`). An event
published before the queue was first bound is dropped, and a user whose publish
failed is never announced, since the retry meets its own row: the code promises
neither, and `EventsMatchUsers` says exactly what it does promise.

`media` shows: no row is without its object, and an object without its row is one
whose client was told an error (`RecordsBacked`; nobody deletes it); an id that
was answered 201 is found by every later read that does not fail
(`CreatedIsReadable`); instances that race for the bucket do not all end on it,
whether the store refuses the second CreateBucket or not
(`SomeInstanceServes`); every request ends, those of a gateway that fell over a
broken stream with 502 (`MediaRequestsEnd`).

`services` shows: although gRPC is served before the hooks, no request gets past
the gateway's guard to a profile before user-service is set up; an early call
that uses Redis keeps it from ever listening; and a process gives up only for a
reason it was given (`ServesOnlyReady`; such a call is one). Spans agree with what
was answered, across both processes and with telemetry flushed in between
(`TraceTellsTruth`). 200 means that the backend did what was asked, 400 and 429
that it was not called, 401, 404, 409 and 422 that nothing was done, because the
backend refused or, for 401, the gateway did (`AnswersHonest`; whether a 401 was
deserved is another matter, see `unauthorized`). Every start ends and every
request is answered or cut off with its gateway (`EverythingSettles`).

`launcher` shows: "Roomly is up" means that the plan runs (`UpMeansPlan`), unless
a compose call was killed by a signal or somebody else ran compose in between;
the containers of user-service share a key if nobody forces a new one and no two
commands overlap (`ReplicasShareKey`; both conditions are needed); `infra`, `obs`
and `loadtest` leave the applications alone (`AppsLeftAlone`). Its second file asks
for two gateways, two instances of s3mock and a load test of three users: the
one case in which the plan's numbers may not survive the end of `up`.

Every passing run checks the module's `InductiveInv`, over the bounds above: a
bounded instance of what section 4 proves.

Definitions whose comment starts with "Variant" are faulty versions of the
definition after them. No action uses them; put in its place, each breaks a
property, so the properties can fail.

### Findings

* `double_booking`: `cancel_booking` awaits the hotel between its check
  (`bookings.py:46`) and its update (`:54`), and `release_room` frees a room
  whoever holds it (`rooms.py:68`). Two cancels overlap; the first finishes, a
  new create reserves and books the room, the second cancel's release frees it,
  a third create books it again.
* `refresh_twice`: `take` is a GET and, after an await, a DEL whose count nobody
  looks at (`redis-refresh-token.store.ts:29-31`), where
  `refresh-token.store.ts:16` says "Get + delete (one-time use / rotation)." Two
  refreshes that both GET first both receive a pair.
* `logout_swallows`: the `catch` around `verifyAccessToken`
  (`auth.controller.ts:122`) takes every error for an expired or revoked token,
  also a Redis command that failed. The access token is not denied and the
  logout is answered 204.
* `sign_up_race`: both sign-ups pass the lookup (`sign-up.use-case.ts:35`), the
  index refuses one with an error that no mapping knows, and its client is told
  502 where `auth.controller.ts:51` says "Email already registered".
* `unauthorized`: the `catch` around `jwtVerify` (`jwt-verifier.service.ts:40`) also
  takes a failed fetch of the public keys, and answers 401 "Invalid or expired
  access token" (`:41`) to a token that is neither, while user-service does not
  listen or is not where the gateway looks for it.

Differences between documentation and code that were met while modelling and have no
run of their own:

* A token that a logout has denied can be let in at the moment it runs out
  (`jwt-verifier.service.ts:44`), where `jwt-denylist.service.ts:7` says "reject
  revoked tokens"; `AdmitsOnlyUndenied` allows for it.
* `.env.example:24` calls `MEDIA_MAX_BYTES` "Max upload size in bytes", but both
  controllers cap a file at their own 5 MiB, so it can only lower the limit; and a
  file of exactly 5 MiB is refused (413).
* `configuration.ts:80` says "Max requests per window per IP"; behind
  `gateway-lb`, with no `trust proxy`, all clients share one address and one count.
* `OTEL_SDK_DISABLED=1` disables the Python services' telemetry (`otel.py:38`) but
  not Nest's, which asks for `true` (`start-otel.ts:52`).
* `generate-jwt-keys.mjs` looks for the key (`:25`) and writes it (`:35`) in two steps:
  of two commands at once each finds none, and the second replaces the key of the
  first, where `:4` says "Skips if the key already exists (unless --force)."
  `ReplicasShareKey` is about commands that do not overlap.
* `roomly.mjs:416` prints a duration of 60m when none is set; the compose file
  runs 30s.

## 4. The proofs

A `_proofs` module per model proves, for every value of the constants, that
`InductiveInv` is an invariant, and that each safety property and each action
property of the passing runs holds. Each is laid out alike: lemmas about
the operators, `InitEstablishes`, one lemma per action (`...Keeps`), `NextKeeps`
with one step per disjunct of `Next`, then the theorems. Where many actions
change one record and leave the rest alone, a frame lemma says once what
the change has to satisfy (`FileStep` and `ComposeStep` of `Launcher_proofs`), and
the lemmas of the actions cite it.

### HotelRooms

From `NoneIsNothing`, `EndpointsExist` and `PoolNotEmpty`:

1. `Invariance`: `Spec => []InductiveInv`. The properties are not inductive by
   themselves. `LockedReadIsCurrent` needs that only the owner of the row lock
   commits to a row (`OneWriterPerRoom`), which needs that locks belong to
   sessions that are in a transaction (`LocksBacked`); that a commit or refresh
   finds its row needs that requests are `WellFormed`, and that a create
   overwrites no row needs `DrawnIdsFresh`. There is one step lemma per conjunct
   (`StepWellFormed`, `StepLocks`, `StepDrawnIds`, `StepLockedRead`,
   `StepReservations`), each with one step per action.
2. `TypeCorrect`, `RowsSerialised`, `ReservationsNeverOverlap`,
   `ReserveAnswersTruthful`: corollaries.
3. `PoolDeadlockFree`: from the same invariant; whoever waits for a row lock
   waits for a session that has a connection and can finish.
4. `HotelImplementsAtomicRooms`: initial states map to initial states
   (`InitRefines`), every step to a step or a stutter (`StepRefines`).
5. `HotelKeepsPromise`: `AtomicRooms_proofs!PromiseKept`, instantiated with the
   refinement mapping. `PromiseKept` says that every hold is accounted for
   (`HoldsAccountedFor`); its inductive invariant `AtomicInv` adds that only a
   call that took effect holds a room or has lost one (`HoldsTookEffect`), so
   that a reserve that is still on its way cannot be among the revoked. The
   handlers inherit it without another induction over their statements.

### BookingSaga

From `RequestsDistinct`, `NoneIsFresh`, `NoneIsNoRow` and `EnvironmentsKnown`, for
any number of creates, cancels, direct calls and rooms, and every set of faults:

1. `Invariance`. That holds and bookings match depends on calls that outlive
   their handlers: a reserve whose caller timed out may still take effect.
   `HoldsInEffect` says that a holder's own call is in effect or over,
   `HandlersFollowCalls`, `CreatesFollowCalls` and `CancelsFollowCalls` tie each
   handler and row to its call, also after the handler is gone.
2. `RoomsAndBookings`, `HonestAnswers`, `HoldsHaveReasons`: from these parts.
3. `NoDoubleBookingWhenCalm` needs `CalmHolds`: a granted create holds its room
   until a cancel of its own booking begins, and a release always finds the room
   held by the booking it is about. Overlapping cancels take exactly this away,
   as `double_booking` shows.
4. `UsesAtomicHotel`: the hotel as bookings use it is `AtomicRooms`. With
   `HotelImplementsAtomicRooms` this ties the two services to one abstract
   specification.

### Sessions

From `NoneIsNoRequest`, `EnvironmentsKnown` and `TimesPositive`, for any lifetimes and
any number of ticks to a second:

1. `Invariance`. `TokensInStep` relates the stores and the clock to the
   tokens' history, `StagesInStep` what a request holds to where it is,
   `EffectsInStep` what the stages behind it have done; `CalmChains` is what only
   holds for one request at a time without faults (one live pair per family, and
   the token a request presents has not been used).
2. `CookiesWork`, `LogoutsRevoke`, `SessionsAreChains`: the first two need
   arithmetic about rounded seconds (`SecondsReached`, `SecondsFloor`): an entry
   of the denylist, whose lifetime is computed from a clock that was rounded
   down, does not end before its token.
3. `DenialBinds`, an action property: between the comparison of the expiry and
   the answer of the denylist only the token's own end may let a denied one in.

### SignUp

From `NoneIsNoRequest`, `NormalIsIdempotent` and `FaultSetsKnown`, for any addresses,
any number of sign-ups and every combination of faults:

1. `Invariance`: `UsersFollowRequests` (the unique index), `RequestsInStep`,
   `EventsFollowUsers`, `ExchangeComesFirst`, which is why a flag that is checked
   and then awaited still does, and `FaultlessRefusesDuplicates`.
2. `AddressesDecide`, `ExchangeBeforeEvents`, `UsersAndEvents`.
3. `NothingQueuedIsLost`, an action property.

### Media

From `NamesDistinct`, `FilesAreFiles`, `LimitsPositive` and `FaultsExist`, for any
number of instances, gateways and requests:

1. `Invariance`: rows have objects because an upload at `save` has its object
   and objects are never deleted (`UploadInStep`); what a read knew of when it
   began is among what it finds (`ReadInStep`).
2. `RowsHaveObjects`, `GivenOutIsReadable`.

### Services

From `EnvironmentsDeploy`, `StoresExist`, `FaultsBounded`, `LimitsAreNumbers`,
`NoneIsNoAnswer` and `StoresSuffice`, for any number of requests and faults:

1. `Invariance`: `ProcessInStep` (what is ready in which phase, and why a start was
   given up), `CallInStep`, `ResultInStep` and `RequestInStep`, which follow one
   request through two processes, its reply, its result and its spans. Keys that
   the gateway holds come from a user-service that was set up, and a request that
   was verified with them (`PastGuard`) inherits this, also after user-service died.
2. `StartsAreOrdered`, `SpansTellTruth`, `StatusesAreHonest`.

### Launcher

From `ConfsAreConfs`, `MannersKnown`, `VusAreNumbers` and `NoneIsNoCommand`, for any
number of commands and any contents of `services.conf`:

1. What the pure part computes: a plan names services there are, in numbers
   greater than zero (`PlanIs`); the calls of `up` are builds, the start of all but
   the load test, and the load test (`CmdUpIs`); no command makes more than five
   (`CallsAre`); what a call reaches stays within a set that is closed under
   `depends_on` (`ClosedSetsStay`).
2. `Invariance`. `UpMeansPlan` speaks of two calls: the invariant carries
   what the first has started over to the second (`StartedStands`), together with
   the fact that a service with a port on the host has one container. `KeyInStep`
   says that nothing starts before there is a key.
3. `UpIsTrue`, `KeysShared`, `OthersLeftAlone` (an action property).

### What the proofs changed

* `UpMeansPlan` used to except only `gateway` from the plan's numbers. The proof
  that the call for the load test leaves the rest alone failed for `s3mock`, the
  other dependency without a port on the host; with `s3mock=2` TLC shows it being
  left with one container. The property and the run's `services.conf` now have it.
* In `Media` and `Launcher` arms of a `CASE` overlapped, and in `Services` two error
  tables were merged with `@@`: what the first arm meant to win has its own guard now.
* The assumptions that `None` is not one of the values next to it
  (`NoneIsNoRow`, `NoneIsNoAnswer`, `NoneIsNoCommand`), that limits are numbers
  and that an environment gives every process what compose gives it were used
  silently; they are stated, and TLC evaluates them.

### Model-checked only

Liveness under fairness is out of the prover's reach: `EveryRequestEnds`,
`HandlersEnd`, `RequestsEnd`, `SignUpsEnd`, `QueuedIsHandled`, `SomeInstanceServes`,
`MediaRequestsEnd` and `EverythingSettles`. So are the findings, each of which
is a counterexample. docker compose, PostgreSQL, Redis, RabbitMQ and S3 are external:
the theorems hold for what the models say these do.

## 5. The plan

Done: the models of all components below, and the proofs of every safety and
action property that a passing run checks. Worth doing next:

1. `ErrorPaths` as lemmas: which statuses a name of user-service can become.
2. Safety lemmas towards the liveness properties, such as "a request that is not
   over has a step to take", stated without ENABLED (`PoolNeverStuck` of `HotelRooms` is
   one).
3. The chain from `BookingSaga` to `HotelRooms`: the hotel of the saga is `AtomicRooms`
   (`UsesAtomicHotel`), which the handlers implement (`HotelImplementsAtomicRooms`);
   one module that composes the two and maps it to the saga.

## 6. Not modelled

* The frontend (empty in this repository), dashboards, alert rules, k6 scripts and the
  configuration of the stores and of the observability stack: data of other programs. The
  compose files appear in `Launcher` as dependencies, ports and overrides.
* Logs, metrics, attributes and sampling: they change no state. `duration.ts`,
  CORS and cookie options: pure functions of one variable.
* The read-only endpoints of booking-service, and what the read of a user returns.
* The fields of bodies and rows other than a room's availability, a booking's room and
  status and a user's address; the wording of errors.
