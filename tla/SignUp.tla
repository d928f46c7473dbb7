------------------------------- MODULE SignUp -------------------------------
(***************************************************************************)
(* Signing up, and the event it sends.  user-service looks the e-mail up,  *)
(* stores the user, publishes user.created to RabbitMQ and issues the      *)
(* session's tokens, one await after the other and without a transaction   *)
(* over them; notification-service consumes the event.                     *)
(*                                                                         *)
(* A user, its event and the channel a request opens are all named by the  *)
(* request: ids are drawn, one request makes at most one of each.          *)
(*                                                                         *)
(* PostgreSQL, RabbitMQ and amqplib are external: an exchange and a queue  *)
(* are durable and messages persistent, an event that comes before the     *)
(* queue is bound is dropped, a delivery that is not acknowledged goes     *)
(* back when its connection ends, publishing on a closed channel throws.   *)
(***************************************************************************)
EXTENDS ErrorPaths

CONSTANTS
  Requests,    \* POST sign-up, each made at most once
  Spellings,   \* e-mail addresses as clients write them
  Normal,      \* Normal[s]: s after trim and toLowerCase
  FaultSets,   \* the sets of faults to be considered
  None

(***************************************************************************)
(* "stop": user-service stops; "consumer": notification-service stops;     *)
(* "broker": a connection to RabbitMQ is lost; "store": PostgreSQL or      *)
(* Redis fails.                                                            *)
(***************************************************************************)
AllFaults == {"stop", "consumer", "broker", "store"}

ASSUME NoneIsNoRequest == None \notin Requests \cup Spellings
ASSUME NormalIsIdempotent ==
  /\ Normal \in [Spellings -> Spellings]
  /\ \A s \in Spellings : Normal[Normal[s]] = Normal[s]
ASSUME FaultSetsKnown == FaultSets \subseteq SUBSET AllFaults

(***************************************************************************)
(* Definitions whose comment starts with "Variant" are faulty versions of  *)
(* the definition that follows them, and no action uses them.              *)
(***************************************************************************)
VARIABLES
  faults,        \* what may go wrong, which never changes
  users,         \* users[q]: e-mail in the row of the user q created, or None
  req,           \* the requests' progress
  up,            \* user-service runs
  link,          \* its connection to RabbitMQ is alive
  channel,       \* RabbitmqConnectionService.channel
  open,          \* channels that are open
  exchangeReady, \* RabbitEventPublisher.exchangeReady
  exchange,      \* the exchange is declared
  bound,         \* notification-service's queue is declared and bound to it
  wire,          \* events published that RabbitMQ has not seen
  queue,         \* events in the queue
  unacked,       \* events delivered that are not acknowledged
  acked,         \* events whose acknowledgement is on its way
  consumer,      \* progress of notification-service
  dropped,       \* history: events lost on the way to the queue
  handled        \* history: events that were handled

serviceVars == <<up, link, channel, open, exchangeReady>>
queueVars == <<queue, unacked, acked, handled>>
brokerVars == <<exchange, bound, wire, dropped, queueVars>>
vars == <<faults, users, req, serviceVars, brokerVars, consumer>>

-----------------------------------------------------------------------------

(***************************************************************************)
(* at = "idle"     not made                                                *)
(*      "lookup"   findByEmail                                             *)
(*      "save"     the password is hashed, the user not stored             *)
(*      "channel"  publishUserCreated: getChannel                          *)
(*      "opening"  createChannel under way                                 *)
(*      "publish"  has its channel                                         *)
(*      "exchange" assertExchange under way                                *)
(*      "issue"    published, the tokens are not issued                    *)
(*      "reply"    the answer is on its way; "done": answered              *)
(***************************************************************************)
Stages == {"idle", "lookup", "save", "channel", "opening", "publish", "exchange",
           "issue", "reply", "done"}

RequestStates ==
  [ at     : Stages,
    email  : Spellings \cup {None},
    chan   : Requests \cup {None},    \* the channel it publishes on
    status : {0, 201, 409, 502} ]

InFlight == Stages \ {"idle", "done"}

(* "deaf": running, but its connection is gone and nothing replaces it. *)
ConsumerStages == {"down", "exchange", "queue", "bind", "consume", "running", "deaf"}

TypeOK ==
  /\ faults \in FaultSets
  /\ users \in [Requests -> Spellings \cup {None}]
  /\ req \in [Requests -> RequestStates]
  /\ up \in BOOLEAN /\ link \in BOOLEAN /\ exchangeReady \in BOOLEAN
  /\ channel \in Requests \cup {None}
  /\ open \subseteq Requests
  /\ exchange \in BOOLEAN /\ bound \in BOOLEAN
  /\ wire \subseteq Requests /\ queue \subseteq Requests
  /\ unacked \subseteq Requests /\ acked \subseteq Requests
  /\ dropped \subseteq Requests
  /\ handled \subseteq Requests
  /\ consumer \in ConsumerStages

Init ==
  /\ faults \in FaultSets
  /\ users = [q \in Requests |-> None]
  /\ req = [q \in Requests |-> [at |-> "idle", email |-> None, chan |-> None, status |-> 0]]
  /\ up = TRUE /\ link = TRUE /\ channel = None /\ open = {} /\ exchangeReady = FALSE
  /\ exchange = FALSE /\ bound = FALSE
  /\ wire = {} /\ queue = {} /\ unacked = {} /\ acked = {}
  /\ consumer = "down"
  /\ dropped = {} /\ handled = {}

-----------------------------------------------------------------------------

Taken(email) == \E p \in Requests : users[p] = email

GoTo(q, stage) == req' = [req EXCEPT ![q].at = stage]

UseChannel(q, c) == req' = [req EXCEPT ![q] = [@ EXCEPT !.at = "publish", !.chan = c]]

(* rethrowAsRpc in user-service, then mapUserServiceGrpcError in the gateway. *)
Refuse(q, error) ==
  req' = [req EXCEPT ![q] = [@ EXCEPT !.at = "done", !.status = HttpStatus(error)]]

(* A request comes in; user-service may not be there. *)
Arrive(q, s) ==
  /\ req[q].at = "idle"
  /\ req' = [req EXCEPT ![q] =
       [@ EXCEPT !.email = s,
                 !.at = IF up THEN "lookup" ELSE "done",
                 !.status = IF up THEN 0 ELSE HttpOfGrpc("UNAVAILABLE")]]
  /\ UNCHANGED <<faults, users, serviceVars, brokerVars, consumer>>

FindByEmail(q) ==
  /\ req[q].at = "lookup"
  /\ IF Taken(Normal[req[q].email])
     THEN Refuse(q, "UserAlreadyExistsError") ELSE GoTo(q, "save")
  /\ UNCHANGED <<faults, users, serviceVars, brokerVars, consumer>>

(* Variant: the column email is not unique. *)
SaveUserTwice(q) ==
  /\ req[q].at = "save"
  /\ users' = [users EXCEPT ![q] = Normal[req[q].email]]
  /\ GoTo(q, "channel")
  /\ UNCHANGED <<faults, serviceVars, brokerVars, consumer>>

(***************************************************************************)
(* The row is inserted, or UQ_users_email refuses it with an error that    *)
(* is no domain error.                                                     *)
(***************************************************************************)
SaveUser(q) ==
  /\ req[q].at = "save"
  /\ LET email == Normal[req[q].email] IN
       \/ /\ ~Taken(email)
          /\ users' = [users EXCEPT ![q] = email]
          /\ GoTo(q, "channel")
       \/ /\ Taken(email)
          /\ Refuse(q, "Error")
          /\ UNCHANGED users
  /\ UNCHANGED <<faults, serviceVars, brokerVars, consumer>>

(* Variant: a sign-up goes on whether or not its user was stored. *)
StoreFailsUnnoticed(q) ==
  /\ "store" \in faults
  /\ req[q].at = "save"
  /\ GoTo(q, "channel")
  /\ UNCHANGED <<faults, users, serviceVars, brokerVars, consumer>>

(* The database fails, before or after the commit, or Redis does. *)
StoreFails(q) ==
  /\ "store" \in faults
  /\ req[q].at \in {"lookup", "save", "issue"}
  /\ Refuse(q, "Error")
  /\ \/ UNCHANGED users
     \/ /\ req[q].at = "save"
        /\ ~Taken(Normal[req[q].email])
        /\ users' = [users EXCEPT ![q] = Normal[req[q].email]]
  /\ UNCHANGED <<faults, serviceVars, brokerVars, consumer>>

-----------------------------------------------------------------------------

(* getChannel: the one there is, dead or alive, or a new one. *)
GetChannel(q) ==
  /\ req[q].at = "channel"
  /\ IF channel = None THEN GoTo(q, "opening") ELSE UseChannel(q, channel)
  /\ UNCHANGED <<faults, users, serviceVars, brokerVars, consumer>>

(* createChannel is answered. Two requests may both have asked. *)
OpenChannel(q) ==
  /\ req[q].at = "opening"
  /\ link
  /\ open' = open \cup {q}
  /\ channel' = q
  /\ UseChannel(q, q)
  /\ UNCHANGED <<faults, users, up, link, exchangeReady, brokerVars, consumer>>

(* Variant: exchangeReady is set before the exchange is there. *)
AssertExchangeEarly(q) ==
  /\ req[q].at = "publish"
  /\ ~exchangeReady
  /\ req[q].chan \in open
  /\ exchangeReady' = TRUE
  /\ GoTo(q, "exchange")
  /\ UNCHANGED <<faults, users, up, link, channel, open, brokerVars, consumer>>

(* await channel.assertExchange. *)
AssertExchange(q) ==
  /\ req[q].at = "publish"
  /\ ~exchangeReady
  /\ req[q].chan \in open
  /\ GoTo(q, "exchange")
  /\ UNCHANGED <<faults, users, serviceVars, brokerVars, consumer>>

(* The exchange is there: exchangeReady is set and the event published. *)
ExchangeAsserted(q) ==
  /\ req[q].at = "exchange"
  /\ req[q].chan \in open
  /\ exchange' = TRUE
  /\ exchangeReady' = TRUE
  /\ wire' = wire \cup {q}
  /\ GoTo(q, "issue")
  /\ UNCHANGED <<faults, users, up, link, channel, open, bound, dropped, queueVars, consumer>>

(* channel.publish: written to the socket, not confirmed. *)
Publish(q) ==
  /\ req[q].at = "publish"
  /\ exchangeReady
  /\ req[q].chan \in open
  /\ wire' = wire \cup {q}
  /\ GoTo(q, "issue")
  /\ UNCHANGED <<faults, users, serviceVars, exchange, bound, dropped, queueVars, consumer>>

(* Variant: createChannel waits for a connection that never comes back. *)
BrokerRefusesPublish(q) ==
  /\ req[q].at \in {"publish", "exchange"} /\ req[q].chan \notin open
  /\ Refuse(q, "Error")
  /\ UNCHANGED <<faults, users, serviceVars, brokerVars, consumer>>

(* The connection or the channel is gone: amqplib throws. *)
BrokerRefuses(q) ==
  /\ \/ req[q].at = "opening" /\ ~link
     \/ req[q].at \in {"publish", "exchange"} /\ req[q].chan \notin open
  /\ Refuse(q, "Error")
  /\ UNCHANGED <<faults, users, serviceVars, brokerVars, consumer>>

(* sessions.issue: the tokens are signed and stored, see Sessions. *)
Issue(q) ==
  /\ req[q].at = "issue"
  /\ GoTo(q, "reply")
  /\ UNCHANGED <<faults, users, serviceVars, brokerVars, consumer>>

Reply(q) ==
  /\ req[q].at = "reply"
  /\ req' = [req EXCEPT ![q] = [@ EXCEPT !.at = "done", !.status = 201]]
  /\ UNCHANGED <<faults, users, serviceVars, brokerVars, consumer>>

-----------------------------------------------------------------------------

(* RabbitMQ takes an event in: into the queue, or nowhere. *)
Route(e) ==
  /\ e \in wire
  /\ wire' = wire \ {e}
  /\ IF bound
     THEN queue' = queue \cup {e} /\ UNCHANGED dropped
     ELSE dropped' = dropped \cup {e} /\ UNCHANGED queue
  /\ UNCHANGED <<faults, users, req, serviceVars, exchange, bound, unacked, acked,
                 handled, consumer>>

(* onModuleInit of the consumer, one await after the other. *)
StartConsumer ==
  /\ consumer = "down"
  /\ consumer' = "exchange"
  /\ UNCHANGED <<faults, users, req, serviceVars, brokerVars>>

AssertConsumedExchange ==
  /\ consumer = "exchange"
  /\ exchange' = TRUE
  /\ consumer' = "queue"
  /\ UNCHANGED <<faults, users, req, serviceVars, bound, wire, dropped, queueVars>>

(* An unbound queue receives nothing: that it is declared makes no difference. *)
AssertQueue ==
  /\ consumer = "queue"
  /\ consumer' = "bind"
  /\ UNCHANGED <<faults, users, req, serviceVars, brokerVars>>

BindQueue ==
  /\ consumer = "bind"
  /\ bound' = TRUE
  /\ consumer' = "consume"
  /\ UNCHANGED <<faults, users, req, serviceVars, exchange, wire, dropped, queueVars>>

Consume ==
  /\ consumer = "consume"
  /\ consumer' = "running"
  /\ UNCHANGED <<faults, users, req, serviceVars, brokerVars>>

Deliver(e) ==
  /\ consumer = "running"
  /\ e \in queue
  /\ queue' = queue \ {e}
  /\ unacked' = unacked \cup {e}
  /\ UNCHANGED <<faults, users, req, serviceVars, exchange, bound, wire, dropped,
                 acked, handled, consumer>>

(* Variant: the message is refused, without requeue. *)
HandleRefused(e) ==
  /\ consumer = "running"
  /\ e \in unacked
  /\ unacked' = unacked \ {e}
  /\ UNCHANGED <<faults, users, req, serviceVars, exchange, bound, wire, dropped,
                 queue, acked, handled, consumer>>

(***************************************************************************)
(* The callback: parse, log, ack, without an await. What userCreatedEvent  *)
(* makes can be parsed, so that the refusal by nack is not reached.        *)
(***************************************************************************)
Handle(e) ==
  /\ consumer = "running"
  /\ e \in unacked
  /\ unacked' = unacked \ {e}
  /\ acked' = acked \cup {e}
  /\ handled' = handled \cup {e}
  /\ UNCHANGED <<faults, users, req, serviceVars, exchange, bound, wire, dropped,
                 queue, consumer>>

TakeAck(e) ==
  /\ e \in acked
  /\ acked' = acked \ {e}
  /\ UNCHANGED <<faults, users, req, serviceVars, exchange, bound, wire, dropped,
                 queue, unacked, handled, consumer>>

-----------------------------------------------------------------------------

(* Variant: consume with noAck, what was delivered is gone. *)
RequeueNothing ==
  /\ unacked' = {}
  /\ acked' = {}
  /\ UNCHANGED <<exchange, bound, wire, dropped, queue, handled>>

(* The consumer's connection ends: what is not acknowledged goes back. *)
Requeue ==
  /\ queue' = queue \cup unacked \cup acked
  /\ unacked' = {}
  /\ acked' = {}
  /\ UNCHANGED <<exchange, bound, wire, dropped, handled>>

ConsumerStops ==
  /\ "consumer" \in faults
  /\ consumer # "down"
  /\ consumer' = "down"
  /\ Requeue
  /\ UNCHANGED <<faults, users, req, serviceVars>>

(***************************************************************************)
(* Nobody listens for the end of the connection, and nobody reconnects; a  *)
(* start that has not come to its end fails.                               *)
(***************************************************************************)
ConsumerCutOff ==
  /\ "broker" \in faults
  /\ consumer \notin {"down", "deaf"}
  /\ consumer' = IF consumer = "running" THEN "deaf" ELSE "down"
  /\ Requeue
  /\ UNCHANGED <<faults, users, req, serviceVars>>

(* The publisher's connection ends: some of what was written is lost. *)
LoseFromWire ==
  /\ \E lost \in SUBSET wire : /\ wire' = wire \ lost
                               /\ dropped' = dropped \cup lost
  /\ UNCHANGED <<exchange, bound, queueVars>>

(* connection and channel stay what they are, dead. *)
ServiceCutOff ==
  /\ "broker" \in faults
  /\ up /\ link
  /\ link' = FALSE
  /\ open' = {}
  /\ LoseFromWire
  /\ UNCHANGED <<faults, users, req, up, channel, exchangeReady, consumer>>

ServiceStops ==
  /\ "stop" \in faults
  /\ up
  /\ up' = FALSE /\ link' = FALSE /\ open' = {} /\ channel' = None /\ exchangeReady' = FALSE
  /\ req' = [q \in Requests |->
       IF req[q].at \in InFlight
       THEN [req[q] EXCEPT !.at = "done", !.status = HttpOfGrpc("UNAVAILABLE")]
       ELSE req[q]]
  /\ LoseFromWire
  /\ UNCHANGED <<faults, users, consumer>>

(* bootstrap connects before it listens. *)
ServiceStarts ==
  /\ ~up
  /\ up' = TRUE
  /\ link' = TRUE
  /\ UNCHANGED <<faults, users, req, channel, open, exchangeReady, brokerVars, consumer>>

Quiet ==
  /\ \A q \in Requests : req[q].at = "done"
  /\ UNCHANGED vars

RequestStep(q) ==
  \/ FindByEmail(q) \/ SaveUser(q)
  \/ GetChannel(q) \/ OpenChannel(q) \/ BrokerRefuses(q)
  \/ AssertExchange(q) \/ ExchangeAsserted(q) \/ Publish(q)
  \/ Issue(q) \/ Reply(q)

ConsumerStep ==
  \/ AssertConsumedExchange \/ AssertQueue \/ BindQueue \/ Consume

EventStep(e) == Route(e) \/ Deliver(e) \/ Handle(e) \/ TakeAck(e)

Next ==
  \/ \E q \in Requests, s \in Spellings : Arrive(q, s)
  \/ \E q \in Requests : RequestStep(q) \/ StoreFails(q) \/ EventStep(q)
  \/ StartConsumer \/ ConsumerStep \/ ConsumerStops \/ ConsumerCutOff
  \/ ServiceCutOff \/ ServiceStops \/ ServiceStarts
  \/ Quiet

Spec == Init /\ [][Next]_vars

(***************************************************************************)
(* Event loops, RabbitMQ and PostgreSQL get on with what they have begun.  *)
(* Nobody restarts a service by himself: compose has no restart policy.    *)
(***************************************************************************)
Fairness ==
  /\ \A q \in Requests : WF_vars(RequestStep(q))
  /\ \A e \in Requests : WF_vars(Route(e)) /\ WF_vars(Deliver(e)) /\ WF_vars(Handle(e))

FairSpec == Spec /\ Fairness

-----------------------------------------------------------------------------

(***************************************************************************)
(* Addresses decide: no two users have the same one, however it is spelled *)
(* and whichever sign-ups overlap; and without faults a sign-up is refused *)
(* only because its address belongs to somebody else, its own user being   *)
(* stored neither before nor after (sign-up.use-case.ts:34-47,             *)
(* UQ_users_email).                                                        *)
(***************************************************************************)
OneUserPerEmail ==
  /\ \A p, q \in Requests :
       p # q /\ users[p] # None /\ users[q] # None => Normal[users[p]] # Normal[users[q]]
  /\ faults = {} =>
       \A q \in Requests :
         req[q].status \in {409, 502} => users[q] = None /\ Taken(Normal[req[q].email])

(***************************************************************************)
(* Whoever publishes has an exchange to publish to: exchangeReady is not   *)
(* set before assertExchange has been answered, so that a sign-up which    *)
(* overlaps the first one does not overtake the declaration                *)
(* (rabbit-event.publisher.ts:21-27).                                      *)
(***************************************************************************)
PublishFindsExchange == wire # {} => exchange

Announced == wire \cup queue \cup unacked \cup acked \cup handled

(***************************************************************************)
(* Users and events agree.  An event speaks of a user that is stored: it   *)
(* is published after the commit.  A client that was told 201 has a user,  *)
(* and the event is on its way, or was lost between user-service and the   *)
(* queue (sign-up.use-case.ts:47-55).                                      *)
(***************************************************************************)
EventsMatchUsers ==
  /\ \A e \in Announced : users[e] # None
  /\ \A q \in Requests :
       req[q].status = 201 => users[q] # None /\ q \in Announced \cup dropped

(***************************************************************************)
(* RabbitMQ and the consumer together do not lose an event they have got:  *)
(* it stays with one of them until it has been handled                     *)
(* (user-created.consumer.ts:34-48, ack after handling).                   *)
(***************************************************************************)
QueuedUntilHandled ==
  [][\A e \in queue \cup unacked : e \in (queue \cup unacked \cup handled)']_vars

(* Every sign-up is answered, whatever fails (await chain of sign-up.use-case.ts). *)
SignUpsEnd == \A q \in Requests : req[q].at = "lookup" ~> req[q].at = "done"

(***************************************************************************)
(* A queued event is handled if notification-service keeps its connection  *)
(* from some time on (user-created.consumer.ts:33).                        *)
(***************************************************************************)
QueuedIsHandled ==
  \A e \in Requests : <>[](consumer = "running") => (e \in queue ~> e \in handled)

(***************************************************************************)
(* An address that is taken is refused as a conflict: "Email already       *)
(* registered" (gateway auth.controller.ts:51).                            *)
(***************************************************************************)
TakenIsConflict ==
  faults = {} => \A q \in Requests : req[q].status # 502

-----------------------------------------------------------------------------

(***************************************************************************)
(* The inductive invariant behind the theorems of SignUp_proofs.           *)
(***************************************************************************)

(* Rows hold the addresses of their requests, in normal form, each once. *)
UsersFollowRequests ==
  /\ \A q \in Requests :
       users[q] # None => req[q].email \in Spellings /\ users[q] = Normal[req[q].email]
  /\ \A p, q \in Requests : users[p] # None /\ users[p] = users[q] => p = q

(* How far a request has come tells whether its user is stored and its event sent. *)
RequestsInStep ==
  \A q \in Requests :
    /\ req[q].at # "idle" => req[q].email \in Spellings
    /\ req[q].at # "done" => req[q].status = 0
    /\ req[q].at \in {"idle", "lookup", "save"} => users[q] = None
    /\ req[q].at \in InFlight \ {"lookup", "save"} \/ req[q].status = 201 => users[q] # None
    /\ req[q].at \in {"issue", "reply"} \/ req[q].status = 201 => q \in Announced \cup dropped

EventsFollowUsers ==
  /\ \A e \in Announced \cup dropped : users[e] # None
  /\ acked \subseteq handled

ExchangeComesFirst == exchangeReady \/ wire # {} => exchange

(* As long as nothing fails the channels in use are open, and who is refused shares his address. *)
FaultlessRefusesDuplicates ==
  faults = {} =>
    /\ up /\ link
    /\ channel # None => channel \in open
    /\ \A q \in Requests :
         /\ req[q].at \in {"publish", "exchange"} => req[q].chan \in open
         /\ req[q].status \in {409, 502} => users[q] = None /\ Taken(Normal[req[q].email])

(***************************************************************************)
(* All of it: requests, users and events agree at every await of the chain *)
(* (sign-up.use-case.ts:33-60).                                            *)
(***************************************************************************)
InductiveInv ==
  /\ TypeOK
  /\ UsersFollowRequests
  /\ RequestsInStep
  /\ EventsFollowUsers
  /\ ExchangeComesFirst
  /\ FaultlessRefusesDuplicates

=============================================================================
