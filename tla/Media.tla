------------------------------- MODULE Media -------------------------------
(***************************************************************************)
(* media-service behind the gateway: POST /media stores an object in S3    *)
(* and then its row in PostgreSQL, with no transaction around the two and  *)
(* no compensation; GET /media/{id} and /{id}/content read them back.      *)
(* Instances of media-service make sure of the bucket when they start.     *)
(*                                                                         *)
(* An upload is named by the id it draws (randomUUID).  Error answers of   *)
(* media-service keep their status on the way through the gateway.         *)
(***************************************************************************)
EXTENDS Naturals

CONSTANTS
  Gateways,   \* instances of the gateway
  Instances,  \* instances of media-service
  Uploads,    \* POST /media
  Reads,      \* GET /media/{id}, GET /media/{id}/content, POST /media/lookup
  Files,      \* what may be uploaded
  Limit,      \* DEFAULT_MAX_BYTES of both controllers
  MaxBytes,   \* MEDIA_MAX_BYTES
  FaultSets,  \* what may go wrong together
  None

AllFaults == {"store", "database", "stop"}

ASSUME NamesDistinct == Uploads \cap Reads = {} /\ None \notin Uploads \cup Gateways \cup Instances
ASSUME FilesAreFiles == Files \subseteq [size : Nat, type : {"allowed", "other"}]
ASSUME LimitsPositive == Limit \in Nat \ {0} /\ MaxBytes \in Nat
ASSUME FaultsExist == \A fs \in FaultSets : fs \subseteq AllFaults

VARIABLES
  faults,     \* what may go wrong in this behaviour
  bucket,     \* the bucket exists
  objects,    \* keys in the bucket
  rows,       \* ids in table media_objects
  inst,       \* stage of each media-service instance
  gateway,    \* gateway instances that run
  req         \* progress of each request

vars == <<faults, bucket, objects, rows, inst, gateway, req>>
stores == <<bucket, objects, rows>>

Requests == Uploads \cup Reads

(***************************************************************************)
(* A request is with its gateway ("fetch"), then with instance i: "put" and*)
(* "save" for an upload, "find", "get" and "stream" for a read; "reply" is *)
(* an answer under way to the gateway.  status is what the client was told *)
(* (0: nothing), answer what media-service says; known are the ids asked   *)
(* for whose upload had been answered 201 before, found those that exist.  *)
(***************************************************************************)
Stages == {"idle", "fetch", "put", "save", "find", "get", "stream", "reply", "done"}
Statuses == {0, 200, 201, 400, 404, 413, 500, 502}

RequestStates ==
  [ at : Stages, gw : Gateways \cup {None}, i : Instances \cup {None},
    op : {"none", "upload", "record", "content", "lookup"}, file : Files \cup {None},
    ids : SUBSET Uploads, known : SUBSET Uploads, found : SUBSET Uploads,
    answer : Statuses, status : Statuses ]

TypeOK ==
  /\ faults \in FaultSets
  /\ bucket \in BOOLEAN
  /\ objects \subseteq Uploads /\ rows \subseteq Uploads
  /\ inst \in [Instances -> {"off", "head", "create", "up", "down"}]
  /\ gateway \subseteq Gateways
  /\ req \in [Requests -> RequestStates]

Init ==
  /\ faults \in FaultSets
  /\ bucket \in BOOLEAN
  /\ objects = {} /\ rows = {}
  /\ inst = [i \in Instances |-> "off"]
  /\ gateway = Gateways
  /\ req = [q \in Requests |->
       [at |-> "idle", gw |-> None, i |-> None, op |-> "none", file |-> None,
        ids |-> {}, known |-> {}, found |-> {}, answer |-> 0, status |-> 0]]

-----------------------------------------------------------------------------
(* Starting an instance: S3StorageService.onModuleInit, before it listens. *)

Becomes(i, stage) == inst' = [inst EXCEPT ![i] = stage]

StartInstance(i) ==
  /\ inst[i] = "off"
  /\ Becomes(i, "head")
  /\ UNCHANGED <<faults, stores, gateway, req>>

(* Variant (a faulty version, not used): the bucket is created unseen. *)
SkipHeadBucket(i) ==
  /\ inst[i] = "head"
  /\ Becomes(i, "create")
  /\ UNCHANGED <<faults, stores, gateway, req>>

(* HeadBucket; any error at all is taken for a missing bucket. *)
HeadBucket(i) ==
  /\ inst[i] = "head"
  /\ \/ bucket /\ Becomes(i, "up")
     \/ (~bucket \/ "store" \in faults) /\ Becomes(i, "create")
  /\ UNCHANGED <<faults, stores, gateway, req>>

(***************************************************************************)
(* CreateBucket.  A bucket that exists by now may be refused, depending on *)
(* the store; nothing catches that, and bootstrap and the process end.     *)
(***************************************************************************)
CreateBucket(i) ==
  /\ inst[i] = "create"
  /\ \/ bucket' = TRUE /\ Becomes(i, "up")
     \/ bucket /\ bucket' = TRUE /\ Becomes(i, "down")
     \/ "store" \in faults /\ bucket' \in {bucket, TRUE} /\ Becomes(i, "down")
  /\ UNCHANGED <<faults, objects, rows, gateway, req>>

-----------------------------------------------------------------------------
(* Requests. *)

Goes(q, stage) == req' = [req EXCEPT ![q].at = stage]

Over(r) == [r EXCEPT !.at = "done", !.gw = None, !.i = None]

(* The client is told s, unless its connection is gone. *)
Told(r, s) == [Over(r) EXCEPT !.status = IF @ = 0 THEN s ELSE @]

Tell(q, s) == req' = [req EXCEPT ![q] = Told(@, s)]

(* media-service has decided on its answer. *)
Decide(q, s, found) == req' = [req EXCEPT ![q].at = "reply", ![q].answer = s, ![q].found = found]

(***************************************************************************)
(* What FileInterceptor of either controller says: multer gives up as soon *)
(* as the limit is reached, so that MaxFileSizeValidator of ParseFilePipe, *)
(* which also refuses what just reaches it, has nothing left to refuse.    *)
(***************************************************************************)
Refusal(file) == IF file.size >= Limit THEN 413 ELSE 0

ReceiveUpload(q, g, file) ==
  LET arrived == [req[q] EXCEPT !.at = "fetch", !.gw = g, !.op = "upload", !.file = file] IN
  /\ req[q].at = "idle" /\ g \in gateway
  /\ req' = [req EXCEPT ![q] = IF Refusal(file) # 0 THEN Told(arrived, Refusal(file)) ELSE arrived]
  /\ UNCHANGED <<faults, stores, inst, gateway>>

Published == {u \in Uploads : req[u].status = 201}

(***************************************************************************)
(* The gateway has routes for one record and for its content.  lookup, of  *)
(* many ids with duplicates dropped, is asked inside the network and       *)
(* passes no gateway (g is None); 500 stands for a fetch that rejects.     *)
(***************************************************************************)
ReceiveRead(q, g, op, ids) ==
  /\ req[q].at = "idle"
  /\ IF op = "lookup" THEN g = None
                      ELSE g \in gateway /\ \E u \in Uploads : ids = {u}
  /\ req' = [req EXCEPT ![q].at = "fetch", ![q].gw = g, ![q].op = op,
                        ![q].ids = ids, ![q].known = ids \cap Published]
  /\ UNCHANGED <<faults, stores, inst, gateway>>

(* Variant: a status that no client of this gateway is told. *)
NobodyListensUnavailable(q) ==
  /\ req[q].at = "fetch"
  /\ \A i \in Instances : inst[i] # "up"
  /\ Tell(q, 503)
  /\ UNCHANGED <<faults, stores, inst, gateway>>

(* fetch finds an instance, or nobody listens and the gateway answers 500. *)
NobodyListens(q) ==
  /\ req[q].at = "fetch"
  /\ \A i \in Instances : inst[i] # "up"
  /\ Tell(q, 500)
  /\ UNCHANGED <<faults, stores, inst, gateway>>

(* The same checks again, then those of MediaAppService.upload. *)
Accepts(file) == Refusal(file) = 0 /\ file.size <= MaxBytes /\ file.type = "allowed"

(* media-service begins with the request; lookup of no ids needs no query. *)
Begin(q, i) ==
  LET r == [req[q] EXCEPT !.i = i] IN
  /\ req[q].at = "fetch" /\ inst[i] = "up"
  /\ req' = [req EXCEPT ![q] =
       IF r.op = "upload"
       THEN IF Accepts(r.file) THEN [r EXCEPT !.at = "put"]
                               ELSE [r EXCEPT !.at = "reply", !.answer = 400]
       ELSE IF r.ids = {} THEN [r EXCEPT !.at = "reply", !.answer = 200]
                          ELSE [r EXCEPT !.at = "find"]]
  /\ UNCHANGED <<faults, stores, inst, gateway>>

(* Variant: putObject is not awaited, and fails later. *)
PutObjectUnawaited(q) ==
  /\ req[q].at = "put"
  /\ Goes(q, "save")
  /\ UNCHANGED <<faults, stores, inst, gateway>>

PutObject(q) ==
  /\ req[q].at = "put"
  /\ IF bucket THEN objects' = objects \cup {q} /\ Goes(q, "save")
               ELSE UNCHANGED objects /\ Decide(q, 500, {})
  /\ UNCHANGED <<faults, bucket, rows, inst, gateway>>

(* Variant: answered before the row is in. *)
SaveRowUnawaited(q) ==
  /\ req[q].at = "save"
  /\ rows' \in {rows, rows \cup {q}}
  /\ Decide(q, 201, {})
  /\ UNCHANGED <<faults, bucket, objects, inst, gateway>>

SaveRow(q) ==
  /\ req[q].at = "save"
  /\ rows' = rows \cup {q}
  /\ Decide(q, 201, {})
  /\ UNCHANGED <<faults, bucket, objects, inst, gateway>>

(* findOne, or find with In(unique): one query.  lookup leaves out what has no row. *)
FindRows(q) ==
  LET hit == req[q].ids \cap rows IN
  /\ req[q].at = "find"
  /\ CASE req[q].op = "lookup"                -> Decide(q, 200, hit)
       [] req[q].op # "lookup" /\ hit = {}    -> Decide(q, 404, {})
       [] req[q].op = "record" /\ hit # {}    -> Decide(q, 200, hit)
       [] OTHER                               -> Goes(q, "get")
  /\ UNCHANGED <<faults, stores, inst, gateway>>

(* getObject: NoSuchKey is 404, else status and headers go out at once. *)
GetObject(q) ==
  /\ req[q].at = "get"
  /\ IF req[q].ids \subseteq objects
     THEN req' = [req EXCEPT ![q].at = "stream", ![q].found = req[q].ids,
                             ![q].status = IF @ = 0 THEN 200 ELSE @]
     ELSE Decide(q, 404, {})
  /\ UNCHANGED <<faults, stores, inst, gateway>>

StreamEnds(q) ==
  /\ req[q].at = "stream"
  /\ req' = [req EXCEPT ![q] = Over(@)]
  /\ UNCHANGED <<faults, stores, inst, gateway>>

(* Variant: an answer that is not ok is neither returned nor thrown. *)
ReplyIfOk(q) ==
  /\ req[q].at = "reply"
  /\ IF req[q].answer < 400 THEN Tell(q, req[q].answer) ELSE UNCHANGED req
  /\ UNCHANGED <<faults, stores, inst, gateway>>

(* readJson: the payload, or an HttpException with the same status. *)
Reply(q) ==
  /\ req[q].at = "reply"
  /\ Tell(q, req[q].answer)
  /\ UNCHANGED <<faults, stores, inst, gateway>>

-----------------------------------------------------------------------------
(* Faults.  A command that failed may have taken effect all the same. *)

PutFails(q) ==
  /\ "store" \in faults /\ req[q].at = "put"
  /\ objects' \in {objects, objects \cup (IF bucket THEN {q} ELSE {})}
  /\ Decide(q, 500, {})
  /\ UNCHANGED <<faults, bucket, rows, inst, gateway>>

GetFails(q) ==
  /\ "store" \in faults /\ req[q].at = "get"
  /\ Decide(q, 500, {})
  /\ UNCHANGED <<faults, stores, inst, gateway>>

SaveFails(q) ==
  /\ "database" \in faults /\ req[q].at = "save"
  /\ rows' \in {rows, rows \cup {q}}
  /\ Decide(q, 500, {})
  /\ UNCHANGED <<faults, bucket, objects, inst, gateway>>

FindFails(q) ==
  /\ "database" \in faults /\ req[q].at = "find"
  /\ Decide(q, 500, {})
  /\ UNCHANGED <<faults, stores, inst, gateway>>

(***************************************************************************)
(* A body that breaks off is an error of a stream nobody listens to in     *)
(* MediaController.content (pipe does not forward it): those gateways end, *)
(* and nginx answers 502 for what they had not answered.                   *)
(***************************************************************************)
Collapse(broken, cut) ==
  LET fallen == {req[q].gw : q \in broken} IN
    /\ gateway' = gateway \ fallen
    /\ req' = [q \in Requests |->
         LET r == req[q] IN
           IF q \in broken THEN Over(r)
           ELSE IF q \in cut \/ (r.at = "fetch" /\ r.gw \in fallen)
           THEN Told(r, IF r.gw \in fallen THEN 502 ELSE 500)
           ELSE IF r.gw \in fallen /\ r.at # "done" /\ r.status = 0 THEN [r EXCEPT !.status = 502]
           ELSE r]

StoreBreaksStream(q) ==
  /\ "store" \in faults /\ req[q].at = "stream" /\ req[q].gw \in gateway
  /\ Collapse({q}, {})
  /\ UNCHANGED <<faults, stores, inst>>

(* What an instance was doing may still take effect when it stops. *)
InstanceStops(i) ==
  LET here(stage) == {q \in Requests : req[q].i = i /\ req[q].at = stage} IN
  /\ "stop" \in faults /\ inst[i] \notin {"off", "down"}
  /\ Becomes(i, "down")
  /\ \E late \in SUBSET here("put") :
       objects' = objects \cup (IF bucket THEN late ELSE {})
  /\ \E late \in SUBSET here("save") : rows' = rows \cup late
  /\ Collapse({q \in here("stream") : req[q].gw \in gateway},
              UNION {here(s) : s \in {"put", "save", "find", "get", "reply", "stream"}})
  /\ UNCHANGED <<faults, bucket>>

Quiet ==
  /\ \A q \in Requests : req[q].at \in {"idle", "done"}
  /\ UNCHANGED vars

ServiceStep(q) ==
  \/ NobodyListens(q) \/ \E i \in Instances : Begin(q, i)
  \/ PutObject(q) \/ SaveRow(q) \/ FindRows(q) \/ GetObject(q) \/ StreamEnds(q)
  \/ Reply(q)

BootStep(i) == HeadBucket(i) \/ CreateBucket(i)

Next ==
  \/ \E i \in Instances : StartInstance(i) \/ BootStep(i) \/ InstanceStops(i)
  \/ \E q \in Uploads, g \in Gateways, file \in Files : ReceiveUpload(q, g, file)
  \/ \E q \in Reads, g \in Gateways \cup {None}, ids \in SUBSET Uploads :
       \E op \in {"record", "content", "lookup"} : ReceiveRead(q, g, op, ids)
  \/ \E q \in Requests :
       \/ ServiceStep(q)
       \/ PutFails(q) \/ GetFails(q) \/ SaveFails(q) \/ FindFails(q) \/ StoreBreaksStream(q)
  \/ Quiet

Spec == Init /\ [][Next]_vars

(***************************************************************************)
(* Event loops, S3 and PostgreSQL get on with what they have begun, and    *)
(* compose starts every instance.  Nothing restarts one that has ended.    *)
(***************************************************************************)
Fairness ==
  /\ \A q \in Requests : WF_vars(ServiceStep(q))
  /\ \A i \in Instances : WF_vars(StartInstance(i)) /\ WF_vars(BootStep(i))

FairSpec == Spec /\ Fairness

-----------------------------------------------------------------------------

(***************************************************************************)
(* Object and row belong together: no row without its object, whichever    *)
(* command failed or instance stopped in between, and an object without    *)
(* its row is one whose upload is at work or whose client was told an      *)
(* error (media-app.service.ts:54-69).                                     *)
(***************************************************************************)
RecordsBacked ==
  /\ rows \subseteq objects
  /\ \A u \in objects \ rows : req[u].at \in {"save", "reply"} \/ req[u].status \in {500, 502}

(***************************************************************************)
(* An id the client was given is good for reading: a request made after    *)
(* the 201 finds the record and its content unless it fails with 500, from *)
(* whichever instance and through whichever gateway                        *)
(* (media-app.service.ts:71, 74-114).                                      *)
(***************************************************************************)
CreatedIsReadable ==
  /\ Published \subseteq rows
  /\ \A q \in Reads : req[q].status \in {200, 404} => req[q].known \subseteq req[q].found

(***************************************************************************)
(* Instances that start together and all miss the bucket do not all end on *)
(* it: with no faults, some instance serves from some time on, and where   *)
(* one serves the bucket is there (s3.module.ts:100-107).                  *)
(***************************************************************************)
SomeInstanceServes ==
  (faults = {}) => <>[](bucket /\ \E i \in Instances : inst[i] = "up")

(***************************************************************************)
(* Every request ends, whatever fails or stops: of the bounded number that *)
(* are made none stays in flight (media.http.client.ts:86-104).            *)
(***************************************************************************)
MediaRequestsEnd == <>[](\A q \in Requests : req[q].at \in {"idle", "done"})

-----------------------------------------------------------------------------
(* Why they hold. *)

(***************************************************************************)
(* An upload whose object is in is past PutObject.  It says 201 only after *)
(* its row is in, and unless it is over its client was told nothing, or    *)
(* 502 by nginx when the gateway ended.  An object without a row is left   *)
(* behind only by an upload that was told an error.                        *)
(***************************************************************************)
UploadInStep(u) ==
  LET r == req[u] IN
    /\ r.at \notin {"find", "get", "stream"}
    /\ r.at \in {"fetch", "put", "save", "reply"} => r.op = "upload"
    /\ u \in objects => r.at \in {"save", "reply", "done"}
    /\ r.at = "save" => u \in objects
    /\ r.at = "reply" =>
         /\ r.answer \in {201, 400, 500}
         /\ r.answer = 201 => u \in rows
         /\ r.answer = 400 => u \notin objects
    /\ r.at # "done" => r.status \in {0, 502}
    /\ r.status = 201 => u \in rows
    /\ r.at = "done" /\ u \in objects \ rows => r.status \in {500, 502}

(***************************************************************************)
(* What a read knows of has a row, since rows stay.  Before its answer it  *)
(* has been told nothing, or 502; it asks the store for the object of one  *)
(* row that it found.                                                      *)
(***************************************************************************)
ReadInStep(q) ==
  LET r == req[q] IN
    /\ r.at \notin {"put", "save"}
    /\ r.known \subseteq r.ids \cap rows
    /\ r.at = "idle" => r.known = {}
    /\ r.at \in {"fetch", "find", "get", "stream", "reply"} => r.op # "upload"
    /\ r.at \in {"fetch", "find", "get"} /\ r.op # "lookup" => \E u \in Uploads : r.ids = {u}
    /\ r.at = "get" => r.op # "lookup" /\ r.ids \subseteq rows
    /\ r.at = "reply" /\ r.answer \in {200, 404} => r.known \subseteq r.found
    /\ r.at \notin {"stream", "done"} => r.status \in {0, 502}
    /\ r.at = "stream" => r.status # 0
    /\ r.status \in {200, 404} => r.known \subseteq r.found

(* The inductive invariant. *)
InductiveInv ==
  /\ TypeOK
  /\ rows \subseteq objects
  /\ \A u \in Uploads : UploadInStep(u)
  /\ \A q \in Reads : ReadInStep(q)

=============================================================================
