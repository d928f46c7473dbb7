------------------------------ MODULE Services ------------------------------
(***************************************************************************)
(* The life of the service processes and of the requests that the gateway  *)
(* passes on to them: what a process reads from its environment, what it   *)
(* connects to before it listens, the telemetry it starts and flushes, and *)
(* the spans and statuses of a request on its way through two of them.     *)
(*                                                                         *)
(* An environment maps the variables that are set to values: <<v>>, or     *)
(* <<>> for the empty string, and for what Number() refuses where a number *)
(* is asked for.  An URL stands for the port it names.                     *)
(***************************************************************************)
EXTENDS Naturals, ErrorPaths

CONSTANTS
  Requests,      \* HTTP requests of clients of the gateway
  Stores,        \* the stores it needs
  Environments,  \* by their names, what processes can be given to read: records of
                 \*   given: what the container of each process sets that is deployed
                 \*   file: what the .env file has that ConfigModule finds
                 \*   at: the host that the stores answer at
                 \*   keyFile: there is a key where JWT_PRIVATE_KEY_PATH points to
  MaxFaults,     \* bound: how often a store goes down or a process is killed
  None

Gateway == "gateway"
Nest == {Gateway, "user-service", "media-service", "notification-service"}
Python == {"hotel-service", "booking-service"}

Processes == Nest \cup Python

ASSUME EnvironmentsDeploy ==
  \A e \in DOMAIN Environments :
    {Gateway} \subseteq DOMAIN Environments[e].given /\ DOMAIN Environments[e].given \subseteq Processes
ASSUME StoresExist == Stores \subseteq {"redis", "rabbitmq", "postgres", "s3"}
ASSUME FaultsBounded == MaxFaults \in Nat

VARIABLES
  env,     \* the environment of this deployment
  phase,   \* how far each process has come
  otel,    \* its telemetry: "off", "on", or "flushed" by SIGTERM
  ready,   \* what it has initialised
  early,   \* user-service has used its Redis clients before they were initialised
  jwks,    \* the gateway has user-service's public keys
  up,      \* stores that answer
  hits,    \* requests counted in the rate limit's window, in Redis
  req,     \* progress of each request
  faults   \* faults so far

vars == <<env, phase, otel, ready, early, jwks, up, hits, req, faults>>
processes == <<phase, otel, ready, early, jwks>>

------------------------------------------------------------------------------
(* What a process reads.  e is what its process.env holds. *)

\* env and envInt: an empty string is kept by the first, not by the second.
Text(e, name, fallback) == IF name \in DOMAIN e THEN e[name] ELSE fallback
Int(e, name, fallback) ==
  IF name \in DOMAIN e /\ e[name] # <<>> THEN e[name] ELSE fallback

\* ConfigModule.forRoot: what is set already wins over the file, even if it is empty.
Over(set, file) ==
  [x \in DOMAIN set \cup DOMAIN file |-> IF x \in DOMAIN set THEN set[x] ELSE file[x]]

Merged == [e \in DOMAIN Environments |->
            [p \in DOMAIN Environments[e].given |->
               Over(Environments[e].given[p], Environments[e].file)]]

Deployed(p) == p \in DOMAIN Environments[env].given

\* What process.env holds.  Only Nest reads the file, and not before Configure.
conf(p) == IF p \in Python \/ phase[p] \in {"off", "imported"}
             THEN Environments[env].given[p] ELSE Merged[env][p]

DefaultPort ==
  [p \in Processes |->
     CASE p = Gateway -> <<3000>> [] p = "user-service" -> <<3001>>
       [] p = "notification-service" -> <<3002>> [] p = "media-service" -> <<3004>>
       [] p = "hotel-service" -> <<8000>> [] p = "booking-service" -> <<8001>>]

PortVar ==
  [p \in Processes |->
     CASE p = Gateway -> "GATEWAY_PORT" [] p = "user-service" -> "USER_SERVICE_PORT"
       [] p = "notification-service" -> "NOTIFICATION_SERVICE_PORT"
       [] p = "media-service" -> "MEDIA_SERVICE_PORT"
       [] p = "hotel-service" -> "HOTEL_SERVICE_PORT"
       [] p = "booking-service" -> "BOOKING_SERVICE_PORT"]

\* resolveServicePort, and the port uvicorn is started with.
Port(e, p) ==
  IF p \in Nest THEN Int(e, "PORT", Int(e, PortVar[p], DefaultPort[p]))
                ELSE Int(e, PortVar[p], DefaultPort[p])

GrpcPort(e) == Int(e, "USER_SERVICE_GRPC_PORT", <<50051>>)

\* The addresses of servicesConfig.  Only the gRPC one follows the port's variable.
UrlVar ==
  [p \in Processes |->
     CASE p = Gateway -> "GATEWAY_URL" [] p = "user-service" -> "USER_SERVICE_URL"
       [] p = "notification-service" -> "NOTIFICATION_SERVICE_URL"
       [] p = "media-service" -> "MEDIA_SERVICE_URL"
       [] p = "hotel-service" -> "HOTEL_SERVICE_URL"
       [] p = "booking-service" -> "BOOKING_SERVICE_URL"]

ServiceUrl(e, p) == Text(e, UrlVar[p], DefaultPort[p])

\* RoomlyConfigService.auth: user-service's HTTP address, unless JWKS_URI is set.
JwksUrl(e) ==
  IF Text(e, "JWKS_URI", <<>>) # <<>> THEN e["JWKS_URI"] ELSE ServiceUrl(e, "user-service")

UserServiceGrpcUrl(e) == Text(e, "USER_SERVICE_GRPC_URL", GrpcPort(e))

StoreHost(e, s) ==
  Text(e, CASE s = "redis" -> "REDIS_HOST" [] s = "rabbitmq" -> "RABBITMQ_HOST"
            [] s = "postgres" -> "POSTGRES_HOST" [] s = "s3" -> "S3_ENDPOINT",
       <<"localhost">>)

\* throttleLimit; 0 stands for every number that turns the limit off.
ThrottleLimit(e) == Int(e, "THROTTLE_LIMIT", <<100>>)[1]

ASSUME LimitsAreNumbers ==
  \A e \in DOMAIN Environments :
    {ThrottleLimit(Environments[e].given[Gateway]), ThrottleLimit(Merged[e][Gateway])} \subseteq Nat

\* resolveJwtPrivateKeyPem: a path that is set but cannot be read is not made up for.
KeyFound(e) ==
  IF Text(e, "JWT_PRIVATE_KEY_PATH", <<>>) # <<>>
    THEN Environments[env].keyFile
    ELSE Text(e, "JWT_PRIVATE_KEY", <<>>) # <<>>

\* The namespaces a service loads, and those its code asks for while it starts.
Loads(p) ==
  CASE p = Gateway -> {"services", "gateway", "redis", "auth"}
    [] p = "user-service" -> {"services", "auth", "authSigning", "postgres", "redis", "rabbitmq"}
    [] p = "media-service" -> {"services", "postgres", "s3"}
    [] p = "notification-service" -> {"services", "rabbitmq"}

Asks(p) ==
  CASE p = Gateway -> {"services", "gateway", "redis", "auth"}
    [] p = "user-service" -> {"services", "authSigning", "postgres", "redis", "rabbitmq"}
    [] p = "media-service" -> {"postgres", "s3"}
    [] p = "notification-service" -> {"rabbitmq"}

------------------------------------------------------------------------------
(* Spans and statuses. *)

SpanStates == {"none", "open", "ok", "error", "lost"}
Ended == {"ok", "error", "lost"}

\* A span is recorded only while the process's telemetry runs.
Opened(p) == IF otel[p] = "on" THEN "open" ELSE "none"

\* The end of withSpan: error or not, the span ends; after shutdown it is dropped.
EndSpan(p, span, failed) ==
  IF span # "open" THEN span
  ELSE IF otel[p] # "on" THEN "lost"
  ELSE IF failed THEN "error" ELSE "ok"

\* UnhandledExceptionFilter: an HttpException keeps its status, anything else is 500.
FilterStatus(thrown) == IF thrown = None THEN 500 ELSE thrown

\* The services that the gateway passes requests on to; media-service is in Media.
Backends == {"user-service"} \cup Python

\* What a request asks of its backend: "sign" is sign-up and sign-in, "me" the profile
\* of the user, "rest" what the Python services offer.
Operations == {"sign", "refresh", "logout", "me", "rest"}

\* The cookie it needs: "bad" if it is missing, or no token that verifies, "denied" if
\* the token is on the denylist.  logout takes any.
Tokens(op) ==
  CASE op = "me" -> {"bad", "denied", "good"} [] op = "refresh" -> {"bad", "good"}
    [] OTHER -> {"good"}

\* What FastAPI and its HTTPExceptions say in these services; any other error is a 500.
HttpErrors ==
  [error \in {"NotFound", "Conflict", "UnprocessableContent", "BadGateway", "InternalServerError"} |->
     CASE error = "NotFound" -> 404 [] error = "Conflict" -> 409
       [] error = "UnprocessableContent" -> 422 [] error = "BadGateway" -> 502
       [] error = "InternalServerError" -> 500]

\* What user-service throws: domain errors by their name, and anything else.
GrpcErrors == {"UserAlreadyExistsError", "InvalidCredentialsError",
               "InvalidRefreshTokenError", "UserNotFoundError", "Error"}

ASSUME NoneIsNoAnswer ==
  /\ None \notin Backends \cup {"OK"} \cup DOMAIN HttpErrors \cup GrpcErrors
  /\ None \notin {0, 200, 400, 401, 404, 409, 422, 429, 500, 502}

(***************************************************************************)
(* at: where the request is with the gateway, "verified" once its token is *)
(* known to be one of user-service's; srv: the call it makes of backend    *)
(* to.  asked: the handler of the call has sent a command to Redis; reply  *)
(* is what the backend answers, "OK" or the name of an error; effect: it   *)
(* did what was asked.                                                     *)
(* result is the status the gateway's code ends with (None: an error that  *)
(* is no HttpException), status what the client was told.                  *)
(***************************************************************************)
RequestStates ==
  [ at : {"idle", "guard", "route", "verified", "calling", "settled", "answered", "cut"},
    op : Operations, token : {"bad", "denied", "good"},
    srv : {"none", "serving", "replied", "lost"},
    to : Backends \cup {None}, asked : BOOLEAN,
    reply : {None, "OK"} \cup DOMAIN HttpErrors \cup GrpcErrors,
    effect : BOOLEAN,
    result : {0, 200, 400, 401, 404, 409, 422, 429, 500, 502, None},
    status : {0, 200, 400, 401, 404, 409, 422, 429, 500, 502},
    root : SpanStates, client : SpanStates, server : SpanStates ]

Fresh ==
  [ at |-> "idle", op |-> "rest", token |-> "good",
    srv |-> "none", to |-> None, asked |-> FALSE, reply |-> None, effect |-> FALSE,
    result |-> 0, status |-> 0, root |-> "none", client |-> "none", server |-> "none" ]

Phases == {"off", "imported", "configured", "created", "grpc", "listening", "dead"}

Init ==
  /\ env \in DOMAIN Environments
  /\ phase = [p \in Processes |-> "off"]
  /\ otel = [p \in Processes |-> "off"]
  /\ ready = [p \in Processes |-> {}]
  /\ early = FALSE
  /\ jwks = FALSE
  /\ up = Stores
  /\ hits = 0
  /\ req = [r \in Requests |-> Fresh]
  /\ faults = 0

------------------------------------------------------------------------------
(* A process starts. *)

\* startOtel, and setup_otel, which takes more spellings for "disabled".
OtelWanted(p, e) ==
  /\ Text(e, "OTEL_EXPORTER_OTLP_ENDPOINT", <<>>) # <<>>
  /\ Text(e, "OTEL_SDK_DISABLED", <<>>) \notin
       (IF p \in Nest THEN {<<"true">>} ELSE {<<"true">>, <<"1">>})

\* otel.ts is imported first: it sees the container's environment and no file.
Import(p) ==
  /\ p \in Nest /\ Deployed(p) /\ phase[p] = "off"
  /\ phase' = [phase EXCEPT ![p] = "imported"]
  /\ otel' = [otel EXCEPT ![p] = IF OtelWanted(p, conf(p)) THEN "on" ELSE "off"]
  /\ UNCHANGED <<env, ready, early, jwks, up, hits, req, faults>>

\* RoomlyConfigModule.forRoot, when the application module is loaded.
Configure(p) ==
  /\ phase[p] = "imported"
  /\ phase' = [phase EXCEPT ![p] = "configured"]
  /\ UNCHANGED <<env, otel, ready, early, jwks, up, hits, req, faults>>

Answers(p, s) == s \in up /\ StoreHost(conf(p), s) = Environments[env].at

Die(p) == phase' = [phase EXCEPT ![p] = "dead"] /\ UNCHANGED <<otel, ready, early, jwks>>

\* NestFactory.create builds the providers, TypeORM's connection among them.
Create(p) ==
  /\ phase[p] = "configured"
  /\ Asks(p) \subseteq Loads(p)
  /\ "postgres" \in Loads(p) => Answers(p, "postgres")
  /\ phase' = [phase EXCEPT ![p] = "created"]
  /\ ready' = [ready EXCEPT ![p] = Loads(p) \cap {"postgres"}]
  /\ UNCHANGED <<env, otel, early, jwks, up, hits, req, faults>>

\* getOrThrow throws, or TypeORM has tried often enough.
CreateFails(p) ==
  /\ phase[p] = "configured"
  /\ ~(Asks(p) \subseteq Loads(p)) \/ ("postgres" \in Loads(p) /\ ~Answers(p, "postgres"))
  /\ Die(p)
  /\ UNCHANGED <<env, up, hits, req, faults>>

\* startAllMicroservices: gRPC is served before app.listen initialises the modules.
ServeGrpc(p) ==
  /\ p = "user-service" /\ phase[p] = "created"
  /\ phase' = [phase EXCEPT ![p] = "grpc"]
  /\ UNCHANGED <<env, otel, ready, early, jwks, up, hits, req, faults>>

\* The onModuleInit hooks of a service.
Hooks(p) ==
  CASE p = Gateway -> {"redis"}
    [] p = "user-service" -> {"redis", "rabbitmq", "key"}
    [] p = "media-service" -> {"s3"}
    [] p = "notification-service" -> {"rabbitmq"}

\* There is a store of each kind that a deployed service connects to.
ASSUME StoresSuffice ==
  \A e \in DOMAIN Environments : \A p \in DOMAIN Environments[e].given \cap Nest :
    (Hooks(p) \cup (Loads(p) \cap {"postgres"})) \ {"key"} \subseteq Stores

Initialising(p) == phase[p] = (IF p = "user-service" THEN "grpc" ELSE "created")

\* RedisClientService and JwtDenylistService: connect() refuses a client that a
\* command has made connect already.
ConnectsRedis(p) == Answers(p, "redis") /\ ~(p = "user-service" /\ early)
ConnectsRabbitmq(p) == Answers(p, "rabbitmq")
FindsBucket(p) == Answers(p, "s3")
LoadsKey(p) == KeyFound(conf(p))

HookSucceeds(p, h) ==
  CASE h = "redis" -> ConnectsRedis(p) [] h = "rabbitmq" -> ConnectsRabbitmq(p)
    [] h = "s3" -> FindsBucket(p) [] h = "key" -> LoadsKey(p)

InitModule(p, h) ==
  /\ p \in Nest /\ Initialising(p) /\ h \in Hooks(p) \ ready[p]
  /\ HookSucceeds(p, h)
  /\ ready' = [ready EXCEPT ![p] = @ \cup {h}]
  /\ UNCHANGED <<env, phase, otel, early, jwks, up, hits, req, faults>>

Lost(span) == IF span = "open" THEN "lost" ELSE span

\* What process p was doing for a request is over.
KilledIn(q, p) ==
  IF p = Gateway /\ q.at \notin {"idle", "answered", "cut"}
    THEN [q EXCEPT !.at = "cut", !.root = Lost(@), !.client = Lost(@)]
  ELSE IF q.to = p /\ (q.srv = "serving" \/ (q.srv = "replied" /\ q.at = "calling"))
    THEN [q EXCEPT !.srv = "lost", !.server = Lost(@)]
  ELSE q

\* bootstrap() rejects and nobody catches it: node exits, with the calls it serves, and
\* nothing restarts it.
InitFails(p, h) ==
  /\ p \in Nest /\ Initialising(p) /\ h \in Hooks(p) \ ready[p]
  /\ ~HookSucceeds(p, h)
  /\ Die(p)
  /\ req' = [r \in Requests |-> KilledIn(req[r], p)]
  /\ UNCHANGED <<env, up, hits, faults>>

\* Variant: the port is opened while the modules are still being initialised.
ListenAtOnce(p) ==
  /\ p \in Nest /\ Initialising(p)
  /\ phase' = [phase EXCEPT ![p] = "listening"]
  /\ UNCHANGED <<env, otel, ready, early, jwks, up, hits, req, faults>>

\* app.listen opens the HTTP port once every hook is done.
Listen(p) ==
  /\ p \in Nest /\ Initialising(p) /\ Hooks(p) \subseteq ready[p]
  /\ phase' = [phase EXCEPT ![p] = "listening"]
  /\ UNCHANGED <<env, otel, ready, early, jwks, up, hits, req, faults>>

\* A Python service connects to nothing; telemetry that cannot be set up is left out.
StartPython(p, packages) ==
  /\ p \in Python /\ Deployed(p) /\ phase[p] = "off"
  /\ phase' = [phase EXCEPT ![p] = "listening"]
  /\ otel' = [otel EXCEPT ![p] = IF packages /\ OtelWanted(p, conf(p)) THEN "on" ELSE "off"]
  /\ UNCHANGED <<env, ready, early, jwks, up, hits, req, faults>>

------------------------------------------------------------------------------
(* Faults, and docker stop. *)

StoreGoesDown(s) ==
  /\ faults < MaxFaults /\ s \in up
  /\ up' = up \ {s}
  /\ faults' = faults + 1
  /\ UNCHANGED <<env, processes, hits, req>>

StoreComesBack(s) ==
  /\ s \notin up
  /\ up' = up \cup {s}
  /\ UNCHANGED <<env, processes, hits, req, faults>>

\* No service enables shutdown hooks: SIGTERM only makes startOtel's listener shut
\* the telemetry down, and the process serves on until it is killed.
Terminate(p) ==
  /\ faults < MaxFaults /\ faults' = faults + 1
  /\ p \in Nest /\ otel[p] = "on" /\ phase[p] # "dead"
  /\ otel' = [otel EXCEPT ![p] = "flushed"]
  /\ UNCHANGED <<env, phase, ready, early, jwks, up, hits, req>>

Kill(p) ==
  /\ faults < MaxFaults /\ faults' = faults + 1
  /\ phase[p] \notin {"off", "dead"}
  /\ Die(p)
  /\ req' = [r \in Requests |-> KilledIn(req[r], p)]
  /\ UNCHANGED <<env, up, hits>>

------------------------------------------------------------------------------
(* A request at the gateway. *)

At(r, stage) == req[r].at = stage

Settled(q, result) == [q EXCEPT !.at = "settled", !.result = result]

\* The HTTP instrumentation opens the root span.
Arrive(r, backend, op, token) ==
  /\ At(r, "idle") /\ phase[Gateway] = "listening"
  /\ op = "rest" <=> backend \in Python
  /\ token \in Tokens(op)
  /\ req' = [req EXCEPT ![r].at = "guard", ![r].to = backend, ![r].op = op, ![r].token = token,
                        ![r].root = Opened(Gateway)]
  /\ UNCHANGED <<env, processes, up, hits, faults>>

Limit == ThrottleLimit(conf(Gateway))

\* ThrottlerGuard counts in Redis; every client comes with the address of gateway-lb.
Count(r) ==
  /\ At(r, "guard")
  /\ \/ Limit = 0 /\ UNCHANGED hits
     \/ Limit > 0 /\ "redis" \in up /\ hits < Limit /\ hits' = hits + 1
  /\ req' = [req EXCEPT ![r].at = "route"]
  /\ UNCHANGED <<env, processes, up, faults>>

Throttle(r) ==
  /\ At(r, "guard") /\ Limit > 0 /\ "redis" \in up /\ hits >= Limit
  /\ req' = [req EXCEPT ![r] = Settled(@, 429)]
  /\ UNCHANGED <<env, processes, up, hits, faults>>

\* Requests of others are counted with the same key.
OthersCount ==
  /\ phase[Gateway] = "listening" /\ "redis" \in up /\ hits < Limit
  /\ hits' = hits + 1
  /\ UNCHANGED <<env, processes, up, req, faults>>

\* Without Redis nobody passes: the command fails, with no HttpException.
CannotCount(r) ==
  /\ At(r, "guard") /\ Limit > 0 /\ "redis" \notin up
  /\ req' = [req EXCEPT ![r] = Settled(@, None)]
  /\ UNCHANGED <<env, processes, up, hits, faults>>

WindowEnds ==
  /\ hits > 0 /\ hits' = 0
  /\ UNCHANGED <<env, processes, up, req, faults>>

\* ParseIntPipe and ValidationPipe; me, refresh and logout read nothing but cookies.
Refuse(r) ==
  /\ At(r, "route") /\ req[r].op \in {"sign", "rest"}
  /\ req' = [req EXCEPT ![r] = Settled(@, 400)]
  /\ UNCHANGED <<env, processes, up, hits, faults>>

\* user-service offers its public keys over HTTP, so only once it listens.
JwksAnswers ==
  /\ phase["user-service"] = "listening"
  /\ JwksUrl(conf(Gateway)) = Port(conf("user-service"), "user-service")

\* createRemoteJWKSet keeps what it has fetched, for a while.
KeysAtHand == jwks \/ JwksAnswers

KeysExpire ==
  /\ jwks /\ jwks' = FALSE
  /\ UNCHANGED <<env, phase, otel, ready, early, up, hits, req, faults>>

\* JwtAuthGuard on users/me: jwtVerify finds the token signed with user-service's key...
Verify(r) ==
  /\ At(r, "route") /\ req[r].op = "me" /\ req[r].token # "bad" /\ KeysAtHand
  /\ req' = [req EXCEPT ![r].at = "verified"]
  /\ jwks' = TRUE
  /\ UNCHANGED <<env, phase, otel, ready, early, up, hits, faults>>

\* ... or throws, whatever is wrong: verifyAccessToken takes keys that cannot be fetched
\* for an invalid token.  refresh looks for its cookie only.
Unauthorized(r) ==
  /\ At(r, "route")
  /\ \/ req[r].op = "me" /\ (req[r].token = "bad" \/ ~KeysAtHand) /\ jwks' \in {jwks, KeysAtHand}
     \/ req[r].op = "refresh" /\ req[r].token = "bad" /\ UNCHANGED jwks
  /\ req' = [req EXCEPT ![r] = Settled(@, 401)]
  /\ UNCHANGED <<env, phase, otel, ready, early, up, hits, faults>>

\* isRevoked, once the token is verified: on the denylist, or Redis does not say.
Revoked(r) ==
  /\ At(r, "verified") /\ "redis" \in up /\ req[r].token = "denied"
  /\ req' = [req EXCEPT ![r] = Settled(@, 401)]
  /\ UNCHANGED <<env, processes, up, hits, faults>>

CannotCheck(r) ==
  /\ At(r, "verified") /\ "redis" \notin up
  /\ req' = [req EXCEPT ![r] = Settled(@, None)]
  /\ UNCHANGED <<env, processes, up, hits, faults>>

\* What lets a request through to its call.  logout swallows what verifyAccessToken
\* throws, but may have fetched the keys.
Admitted(r) ==
  CASE req[r].op = "me" ->
         At(r, "verified") /\ "redis" \in up /\ req[r].token = "good" /\ UNCHANGED jwks
    [] req[r].op = "logout" -> At(r, "route") /\ jwks' \in {jwks, KeysAtHand}
    [] OTHER -> At(r, "route") /\ req[r].token = "good" /\ UNCHANGED jwks

\* A method of a @Traced client: its span is open before the call is made.
Call(r) ==
  /\ Admitted(r)
  /\ req' = [req EXCEPT ![r].at = "calling", ![r].client = Opened(Gateway)]
  /\ UNCHANGED <<env, phase, otel, ready, early, up, hits, faults>>

\* Where the gateway calls, and where the backend listens.
Reaches(b) ==
  IF b = "user-service"
    THEN /\ phase[b] \in {"grpc", "listening"}
         /\ UserServiceGrpcUrl(conf(Gateway)) = GrpcPort(conf(b))
    ELSE /\ phase[b] = "listening"
         /\ ServiceUrl(conf(Gateway), b) = Port(conf(b), b)

Deliver(r) ==
  /\ At(r, "calling") /\ req[r].srv = "none" /\ Reaches(req[r].to)
  /\ req' = [req EXCEPT ![r].srv = "serving", ![r].server = Opened(req[r].to)]
  /\ UNCHANGED <<env, processes, up, hits, faults>>

------------------------------------------------------------------------------
(* The backend.  What it does is modelled elsewhere; here it does it or not. *)

Replied(r, reply, effect, failed) ==
  req' = [req EXCEPT ![r].srv = "replied", ![r].reply = reply, ![r].effect = effect,
                     ![r].asked = FALSE, ![r].server = EndSpan(req[r].to, @, failed)]

\* The handlers refuse before they change anything; the rest can fail at any point.
ServeHttp(r, reply, effect) ==
  /\ req[r].srv = "serving" /\ req[r].to \in Python
  /\ reply \in {"OK"} \cup DOMAIN HttpErrors
  /\ reply # "InternalServerError" => effect = (reply = "OK")
  /\ Replied(r, reply, effect, reply # "OK" /\ HttpErrors[reply] >= 500)
  /\ UNCHANGED <<env, processes, up, hits, faults>>

\* user-service: the domain errors of an operation.
Denials(op) ==
  CASE op = "sign" -> {"UserAlreadyExistsError", "InvalidCredentialsError"}
    [] op = "refresh" -> {"InvalidRefreshTokenError"}
    [] op = "me" -> {"UserNotFoundError"}
    [] OTHER -> {}

KeyLoaded == "key" \in ready["user-service"]

\* The first command that a handler sends to Redis: refresh to take the old token, logout
\* to drop it, sign-up and sign-in to keep the new one, once they have signed for it.
\* It makes a client connect that its hook has not connected yet.
CommandRedis(r) ==
  /\ req[r].srv = "serving" /\ ~req[r].asked
  /\ req[r].op \in {"refresh", "logout"} \/ (req[r].op = "sign" /\ KeyLoaded)
  /\ req' = [req EXCEPT ![r].asked = TRUE]
  /\ early' = (early \/ "redis" \notin ready["user-service"])
  /\ UNCHANGED <<env, phase, otel, ready, jwks, up, hits, faults>>

\* A domain error by its name, anything else as INTERNAL.  Tokens are given only once
\* there is a key to sign them and Redis has been asked to keep one.
ServeRpc(r, reply, effect) ==
  /\ req[r].srv = "serving" /\ req[r].to = "user-service"
  /\ reply \in Denials(req[r].op) \cup {"OK", "Error"}
  /\ reply = "OK" /\ req[r].op \in {"sign", "refresh"} => req[r].asked /\ KeyLoaded
  /\ reply = "InvalidRefreshTokenError" => req[r].asked
  /\ reply # "Error" => effect = (reply = "OK")
  /\ Replied(r, reply, effect, reply # "OK")
  /\ UNCHANGED <<env, processes, up, hits, faults>>

------------------------------------------------------------------------------
(* Back at the gateway. *)

\* What the client method throws: the backend's status, over gRPC what the code maps to.
Thrown(q) == IF q.to = "user-service" THEN HttpStatus(q.reply) ELSE HttpErrors[q.reply]

\* The end of withSpan for a client method: its span ends, and the result is passed on.
CallEnds(q, result, failed) ==
  [Settled(q, result) EXCEPT !.client = EndSpan(Gateway, q.client, failed)]

Outcome(q, fine) == IF q.reply = "OK" THEN fine ELSE Thrown(q)

\* Variant: the span is ended when the call has been made, before it settles.
ReturnUntold(r) ==
  /\ At(r, "calling") /\ req[r].srv = "replied"
  /\ req' = [req EXCEPT ![r] = CallEnds(@, Outcome(@, 200), FALSE)]
  /\ UNCHANGED <<env, processes, up, hits, faults>>

\* request() awaits the answer and throws unless it is ok; withSpan records the error,
\* ends the span and passes the error on.
Return(r) ==
  /\ At(r, "calling") /\ req[r].srv = "replied"
  /\ req' = [req EXCEPT ![r] = CallEnds(@, Outcome(@, 200), @.reply # "OK")]
  /\ UNCHANGED <<env, processes, up, hits, faults>>

\* An answer whose JSON cannot be read becomes null, on which the controller fails.
ReturnUnreadable(r) ==
  /\ At(r, "calling") /\ req[r].srv = "replied" /\ req[r].to # "user-service"
  /\ req' = [req EXCEPT ![r] = CallEnds(@, Outcome(@, None), @.reply # "OK")]
  /\ UNCHANGED <<env, processes, up, hits, faults>>

\* No answer: nobody listens, the connection is lost, or fetch has waited long enough
\* (gRPC calls have no deadline).  fetch throws a TypeError, gRPC says UNAVAILABLE.
Unanswered(q) ==
  \/ q.srv = "lost"
  \/ q.srv = "none" /\ ~Reaches(q.to)
  \/ q.srv = "serving" /\ q.to # "user-service"

NoAnswer(q, ofFetch) == IF q.to = "user-service" THEN HttpOfGrpc("UNAVAILABLE") ELSE ofFetch

\* Variant: a backend that does not answer has not found what was asked for.
CallFailsNotFound(r) ==
  /\ At(r, "calling") /\ Unanswered(req[r])
  /\ req' = [req EXCEPT ![r] = CallEnds(@, NoAnswer(@, 404), TRUE)]
  /\ UNCHANGED <<env, processes, up, hits, faults>>

CallFails(r) ==
  /\ At(r, "calling") /\ Unanswered(req[r])
  /\ req' = [req EXCEPT ![r] = CallEnds(@, NoAnswer(@, None), TRUE)]
  /\ UNCHANGED <<env, processes, up, hits, faults>>

\* Variant: only HttpExceptions are answered.
RespondIfHttp(r) ==
  /\ At(r, "settled") /\ req[r].result # None
  /\ req' = [req EXCEPT ![r].at = "answered", ![r].status = FilterStatus(req[r].result),
                        ![r].root = EndSpan(Gateway, @, FilterStatus(req[r].result) >= 500)]
  /\ UNCHANGED <<env, processes, up, hits, faults>>

\* Variant: the status is taken from the error as it is.
RespondUnfiltered(r) ==
  /\ At(r, "settled")
  /\ req' = [req EXCEPT ![r].at = "answered", ![r].status = req[r].result,
                        ![r].root = EndSpan(Gateway, @, FilterStatus(req[r].result) >= 500)]
  /\ UNCHANGED <<env, processes, up, hits, faults>>

\* The filter answers, and marks the root span for a 5xx.
Respond(r) ==
  /\ At(r, "settled")
  /\ req' = [req EXCEPT ![r].at = "answered", ![r].status = FilterStatus(req[r].result),
                        ![r].root = EndSpan(Gateway, @, FilterStatus(req[r].result) >= 500)]
  /\ UNCHANGED <<env, processes, up, hits, faults>>

GatewayStep(r) ==
  \/ Count(r) \/ Throttle(r) \/ CannotCount(r) \/ Refuse(r)
  \/ Verify(r) \/ Unauthorized(r) \/ Revoked(r) \/ CannotCheck(r) \/ Call(r)
  \/ Return(r) \/ ReturnUnreadable(r) \/ CallFails(r) \/ Respond(r)

BackendStep(r) ==
  \/ Deliver(r) \/ CommandRedis(r)
  \/ \E reply \in {"OK"} \cup DOMAIN HttpErrors, effect \in BOOLEAN : ServeHttp(r, reply, effect)
  \/ \E reply \in GrpcErrors \cup {"OK"}, effect \in BOOLEAN : ServeRpc(r, reply, effect)

Boot(p) ==
  \/ Import(p) \/ Configure(p) \/ Create(p) \/ CreateFails(p) \/ ServeGrpc(p) \/ Listen(p)
  \/ \E h \in {"redis", "rabbitmq", "s3", "key"} : InitModule(p, h) \/ InitFails(p, h)
  \/ \E packages \in BOOLEAN : StartPython(p, packages)

Next ==
  \/ \E p \in Processes : Boot(p) \/ Terminate(p) \/ Kill(p)
  \/ \E s \in Stores : StoreGoesDown(s) \/ StoreComesBack(s)
  \/ \E r \in Requests, b \in Backends, op \in Operations, token \in {"bad", "denied", "good"} :
       Arrive(r, b, op, token)
  \/ \E r \in Requests : GatewayStep(r) \/ BackendStep(r)
  \/ OthersCount \/ WindowEnds \/ KeysExpire

Spec == Init /\ [][Next]_vars

(***************************************************************************)
(* Containers are started and event loops run; a start has few steps, so   *)
(* the processes need not be fair to one another.  Nobody has to call, and *)
(* nothing has to fail or to recover.                                      *)
(***************************************************************************)
Fairness ==
  /\ WF_vars(\E p \in Processes : Boot(p))
  /\ \A r \in Requests : WF_vars(GatewayStep(r)) /\ WF_vars(BackendStep(r))

FairSpec == Spec /\ Fairness

------------------------------------------------------------------------------

TypeOK ==
  /\ env \in DOMAIN Environments
  /\ phase \in [Processes -> Phases]
  /\ otel \in [Processes -> {"off", "on", "flushed"}]
  /\ ready \in [Processes -> SUBSET {"postgres", "redis", "rabbitmq", "s3", "key"}]
  /\ early \in BOOLEAN /\ jwks \in BOOLEAN
  /\ up \subseteq Stores
  /\ hits \in 0..Limit
  /\ req \in [Requests -> RequestStates]
  /\ faults \in 0..MaxFaults

(***************************************************************************)
(* user-service takes gRPC calls before its modules are initialised (user- *)
(* service main.ts:46-47), but none for a profile: its keys, which the     *)
(* gateway's guard needs for that (jwt-auth.guard.ts:29), are served only  *)
(* by the HTTP server, and the gateway may have kept them.  A call that    *)
(* comes early and gets as far as Redis keeps user-service from ever       *)
(* listening (redis-client.service.ts).  And a process gives up only if it *)
(* was killed, a store was down or is not where its environment says, its  *)
(* key is missing, or such a call came.                                    *)
(***************************************************************************)
Started(p) == Hooks(p) \cup (Loads(p) \cap {"postgres"}) \subseteq ready[p]

PastGuard(q) == q.op = "me" /\ (q.at \in {"verified", "calling"} \/ q.srv # "none")

MayGiveUp(p) ==
  \/ faults > 0
  \/ \E s \in Stores : StoreHost(conf(p), s) # Environments[env].at
  \/ p = "user-service" /\ (early \/ ~KeyFound(conf(p)))

ServesOnlyReady ==
  /\ \A r \in Requests : PastGuard(req[r]) => Started("user-service")
  /\ early => phase["user-service"] # "listening"
  /\ \A p \in Processes : phase[p] = "dead" => MayGiveUp(p)

(***************************************************************************)
(* What the spans of a request say is so, across both processes: a span    *)
(* ends no later than the one it is in; the root is an error for a 5xx and *)
(* for nothing else; the client's span is fine only if the backend did     *)
(* answer, and well, so an error that the backend's span shows is never    *)
(* hidden by the caller's (traced.ts:71-80, unhandled-exception.filter.ts).*)
(***************************************************************************)
TraceTellsTruth ==
  \A r \in Requests : LET q == req[r] IN
    /\ q.root \in Ended => q.client # "open"
    /\ q.root = "error" => q.status >= 500
    /\ q.root = "ok" => q.status \in 200..499
    /\ q.client = "ok" => q.srv = "replied" /\ q.reply = "OK"
    /\ q.client = "error" => q.at \in {"settled", "cut"} \/ q.status >= 400
    /\ q.server = "error" => q.client # "ok"
    /\ q.client # "none" => q.root # "none"

(***************************************************************************)
(* What the client is told of what the backend did.  200: it did it, and   *)
(* said so.  400 and 429: it was never called.  401, 404, 409, 422: it has *)
(* refused, or, for 401, the gateway has before any call (jwt-auth.guard.  *)
(* ts, auth.controller.ts:89-92); either way nothing was done, neither     *)
(* before nor after the answer (map-grpc-error.ts:78-88, hotel-service.    *)
(* http.ts:41-46).                                                         *)
(***************************************************************************)
AnswersHonest ==
  \A r \in Requests : LET q == req[r] IN
    /\ q.status = 200 => q.srv = "replied" /\ q.reply = "OK" /\ q.effect
    /\ q.status \in {400, 429} => q.srv = "none" /\ ~q.effect
    /\ q.status \in {401, 404, 409, 422} =>
         /\ ~q.effect
         /\ \/ q.srv = "replied" /\ q.reply # "OK"
            \/ q.status = 401 /\ q.srv = "none" /\ q.op \in {"me", "refresh"}

(***************************************************************************)
(* The gateway says "Invalid or expired access token" of nothing but such  *)
(* tokens (jwt-verifier.service.ts:41).  It says so as well when the keys  *)
(* to check a good one could not be fetched.                               *)
(***************************************************************************)
UnauthorizedIsDeserved ==
  \A r \in Requests : LET q == req[r] IN
    q.status = 401 => q.token # "good" \/ q.srv = "replied"

(***************************************************************************)
(* Every start ends, well or not, and every request that has arrived is    *)
(* answered or cut off with its gateway, whatever is down.                 *)
(***************************************************************************)
EverythingSettles ==
  /\ <>(\A p \in Processes : Deployed(p) => phase[p] \in {"listening", "dead"})
  /\ \A r \in Requests : At(r, "guard") ~> (At(r, "answered") \/ At(r, "cut"))

------------------------------------------------------------------------------
(* Why they hold. *)

(***************************************************************************)
(* A process has initialised nothing before it has its environment, its    *)
(* database once it is created, and everything once it listens.            *)
(***************************************************************************)
ProcessInStep(p) ==
  /\ phase[p] # "off" => Deployed(p)
  /\ phase[p] \in {"imported", "configured", "created", "grpc"} => p \in Nest
  /\ phase[p] \in {"off", "imported", "configured"} => ready[p] = {}
  /\ p \in Nest /\ phase[p] \in {"created", "grpc", "listening"} =>
       Loads(p) \cap {"postgres"} \subseteq ready[p]
  /\ p \in Nest /\ phase[p] = "listening" => Hooks(p) \subseteq ready[p]
  /\ "key" \in ready[p] => "postgres" \in ready[p]
  /\ phase[p] = "dead" => MayGiveUp(p)

(* The errors by which a backend says that it has refused. *)
Refusals == (DOMAIN HttpErrors \cup GrpcErrors) \ {"InternalServerError", "Error"}

(***************************************************************************)
(* The call of a request: nothing is said and nothing done before it is    *)
(* replied to, and what is said then is so.                                *)
(***************************************************************************)
CallInStep(q) ==
  /\ q.at \in {"idle", "guard", "route", "verified"} => q.srv = "none" /\ q.client = "none"
  /\ q.at # "idle" => q.to # None
  /\ q.at = "verified" => q.op = "me"
  /\ q.srv \in {"none", "serving"} => q.reply = None
  /\ q.srv = "none" => q.server = "none"
  /\ q.srv = "replied" =>
       q.reply \in {"OK"} \cup (IF q.to = "user-service" THEN GrpcErrors ELSE DOMAIN HttpErrors)
  /\ q.reply = "OK" => q.effect
  /\ q.reply \in Refusals \cup {None} => ~q.effect
  /\ q.server = "error" => q.reply \notin {"OK", None}

(***************************************************************************)
(* The result that the gateway has for a request is what its call has come *)
(* to, and its spans end with it.                                          *)
(***************************************************************************)
ResultInStep(q) ==
  /\ q.at \in {"settled", "answered"} => q.result # 0
  /\ q.at \in {"idle", "guard", "route", "verified", "calling"} => q.result = 0
  /\ q.at # "answered" => q.status = 0
  /\ q.at = "answered" => q.status = FilterStatus(q.result)
  /\ q.result = 200 => q.srv = "replied" /\ q.reply = "OK"
  /\ q.result \in {400, 429} => q.srv = "none"
  /\ q.result \in {401, 404, 409, 422} =>
       \/ q.srv = "replied" /\ q.reply \in Refusals
       \/ q.result = 401 /\ q.srv = "none" /\ q.op \in {"me", "refresh"}
  /\ q.at = "idle" => q.root = "none"
  /\ q.root \in Ended => q.at \in {"answered", "cut"}
  /\ q.root = "error" => q.status >= 500
  /\ q.root = "ok" => q.status \in 200..499
  /\ q.client = "open" => q.at = "calling"
  /\ q.client = "ok" => q.at # "calling" /\ q.srv = "replied" /\ q.reply = "OK"
  /\ q.client = "error" => q.at = "cut" \/ q.result \notin {0, 200}
  /\ q.client # "none" => q.root # "none"

(* A request and the processes it has come to. *)
RequestInStep(r) ==
  /\ CallInStep(req[r]) /\ ResultInStep(req[r])
  /\ req[r].at # "idle" => phase[Gateway] \in {"listening", "dead"}
  /\ req[r].at # "idle" /\ req[r].root = "none" => otel[Gateway] # "on"
  /\ PastGuard(req[r]) => Started("user-service")

(* The inductive invariant. *)
InductiveInv ==
  /\ TypeOK
  /\ up # Stores => faults > 0
  /\ jwks => Started("user-service")
  /\ early => "redis" \notin ready["user-service"]
  /\ hits > 0 => phase[Gateway] \in {"listening", "dead"}
  /\ \A p \in Processes : ProcessInStep(p)
  /\ \A r \in Requests : RequestInStep(r)

=============================================================================
