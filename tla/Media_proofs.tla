---------------------------- MODULE Media_proofs ----------------------------
(***************************************************************************)
(* Proofs about Media, for any number of gateways, instances, uploads and  *)
(* reads, any limits and any combination of faults.                        *)
(***************************************************************************)
EXTENDS Media, TLAPS

-----------------------------------------------------------------------------
(* The type invariant in parts, and what the updates of a request do. *)

ReqTyped == req \in [Requests -> RequestStates]

StoresTyped == bucket \in BOOLEAN /\ objects \subseteq Uploads /\ rows \subseteq Uploads

ProcessesTyped ==
  /\ inst \in [Instances -> {"off", "head", "create", "up", "down"}]
  /\ gateway \subseteq Gateways

LEMMA TypeParts ==
  TypeOK <=> faults \in FaultSets /\ ReqTyped /\ StoresTyped /\ ProcessesTyped
  BY DEF TypeOK, ReqTyped, StoresTyped, ProcessesTyped

Ops == {"none", "upload", "record", "content", "lookup"}

LEMMA RequestStatesAre ==
  RequestStates =
    [ at : Stages, gw : Gateways \cup {None}, i : Instances \cup {None},
      op : Ops, file : Files \cup {None},
      ids : SUBSET Uploads, known : SUBSET Uploads, found : SUBSET Uploads,
      answer : Statuses, status : Statuses ]
  BY DEF RequestStates, Ops

LEMMA OneField ==
  ASSUME NEW r \in RequestStates
  PROVE  /\ \A x \in Stages : [r EXCEPT !.at = x] \in RequestStates
         /\ \A x \in Gateways \cup {None} : [r EXCEPT !.gw = x] \in RequestStates
         /\ \A x \in Instances \cup {None} : [r EXCEPT !.i = x] \in RequestStates
         /\ \A x \in Ops : [r EXCEPT !.op = x] \in RequestStates
         /\ \A x \in Files : [r EXCEPT !.file = x] \in RequestStates
         /\ \A x \in SUBSET Uploads : [r EXCEPT !.ids = x] \in RequestStates
         /\ \A x \in SUBSET Uploads : [r EXCEPT !.known = x] \in RequestStates
         /\ \A x \in SUBSET Uploads : [r EXCEPT !.found = x] \in RequestStates
         /\ \A x \in Statuses : [r EXCEPT !.answer = x] \in RequestStates
         /\ \A x \in Statuses : [r EXCEPT !.status = x] \in RequestStates
<1>1. ASSUME NEW x \in Stages PROVE [r EXCEPT !.at = x] \in RequestStates
  BY RequestStatesAre
<1>2. ASSUME NEW x \in Gateways \cup {None} PROVE [r EXCEPT !.gw = x] \in RequestStates
  BY RequestStatesAre
<1>3. ASSUME NEW x \in Instances \cup {None} PROVE [r EXCEPT !.i = x] \in RequestStates
  BY RequestStatesAre
<1>4. ASSUME NEW x \in Ops PROVE [r EXCEPT !.op = x] \in RequestStates
  BY RequestStatesAre
<1>5. ASSUME NEW x \in Files PROVE [r EXCEPT !.file = x] \in RequestStates
  BY RequestStatesAre
<1>6. ASSUME NEW x \in SUBSET Uploads
      PROVE  /\ [r EXCEPT !.ids = x] \in RequestStates
             /\ [r EXCEPT !.known = x] \in RequestStates
             /\ [r EXCEPT !.found = x] \in RequestStates
  BY RequestStatesAre
<1>7. ASSUME NEW x \in Statuses
      PROVE  /\ [r EXCEPT !.answer = x] \in RequestStates
             /\ [r EXCEPT !.status = x] \in RequestStates
  BY RequestStatesAre
<1> QED
  BY <1>1, <1>2, <1>3, <1>4, <1>5, <1>6, <1>7

(* What a request record says, as far as the invariant is concerned. *)
Says(f, at, op, ids, known, found, answer, status) ==
  /\ f \in RequestStates
  /\ f.at = at /\ f.op = op /\ f.ids = ids /\ f.known = known
  /\ f.found = found /\ f.answer = answer /\ f.status = status

LEMMA LiteralsAre ==
  /\ {"fetch", "put", "save", "find", "get", "stream", "reply", "done"} \subseteq Stages
  /\ {0, 200, 201, 400, 404, 413, 500, 502} = Statuses
  /\ {"upload", "record", "content", "lookup"} \subseteq Ops
  BY DEF Stages, Statuses, Ops

LEMMA Moved ==
  ASSUME NEW r \in RequestStates, NEW stage \in Stages
  PROVE  Says([r EXCEPT !.at = stage], stage, r.op, r.ids, r.known, r.found, r.answer, r.status)
<1> DEFINE f == [r EXCEPT !.at = stage]
<1>1. f \in RequestStates
  BY OneField
<1>2. /\ f.at = stage /\ f.op = r.op /\ f.ids = r.ids /\ f.known = r.known
      /\ f.found = r.found /\ f.answer = r.answer /\ f.status = r.status
  BY RequestStatesAre
<1> QED
  BY <1>1, <1>2 DEF Says

(* A change of who the request is with says nothing new. *)
LEMMA With ==
  ASSUME NEW r \in RequestStates
  PROVE  /\ \A g \in Gateways \cup {None} :
              Says([r EXCEPT !.gw = g], r.at, r.op, r.ids, r.known, r.found, r.answer, r.status)
         /\ \A i \in Instances \cup {None} :
              Says([r EXCEPT !.i = i], r.at, r.op, r.ids, r.known, r.found, r.answer, r.status)
         /\ \A file \in Files :
              Says([r EXCEPT !.file = file], r.at, r.op, r.ids, r.known, r.found, r.answer, r.status)
<1>1. ASSUME NEW g \in Gateways \cup {None}
      PROVE  Says([r EXCEPT !.gw = g], r.at, r.op, r.ids, r.known, r.found, r.answer, r.status)
  <2>1. [r EXCEPT !.gw = g] \in RequestStates
    BY OneField
  <2> DEFINE f == [r EXCEPT !.gw = g]
  <2>2. /\ f.at = r.at /\ f.op = r.op /\ f.ids = r.ids /\ f.known = r.known
        /\ f.found = r.found /\ f.answer = r.answer /\ f.status = r.status
    BY RequestStatesAre
  <2> QED
    BY <2>1, <2>2 DEF Says
<1>2. ASSUME NEW i \in Instances \cup {None}
      PROVE  Says([r EXCEPT !.i = i], r.at, r.op, r.ids, r.known, r.found, r.answer, r.status)
  <2>1. [r EXCEPT !.i = i] \in RequestStates
    BY OneField
  <2> DEFINE f == [r EXCEPT !.i = i]
  <2>2. /\ f.at = r.at /\ f.op = r.op /\ f.ids = r.ids /\ f.known = r.known
        /\ f.found = r.found /\ f.answer = r.answer /\ f.status = r.status
    BY RequestStatesAre
  <2> QED
    BY <2>1, <2>2 DEF Says
<1>3. ASSUME NEW file \in Files
      PROVE  Says([r EXCEPT !.file = file], r.at, r.op, r.ids, r.known, r.found, r.answer, r.status)
  <2>1. [r EXCEPT !.file = file] \in RequestStates
    BY OneField
  <2> DEFINE f == [r EXCEPT !.file = file]
  <2>2. /\ f.at = r.at /\ f.op = r.op /\ f.ids = r.ids /\ f.known = r.known
        /\ f.found = r.found /\ f.answer = r.answer /\ f.status = r.status
    BY RequestStatesAre
  <2> QED
    BY <2>1, <2>2 DEF Says
<1> QED
  BY <1>1, <1>2, <1>3

LEMMA Answered ==
  ASSUME NEW r \in RequestStates
  PROVE  /\ \A s \in Statuses :
              Says([r EXCEPT !.answer = s], r.at, r.op, r.ids, r.known, r.found, s, r.status)
         /\ \A s \in Statuses :
              Says([r EXCEPT !.status = s], r.at, r.op, r.ids, r.known, r.found, r.answer, s)
         /\ \A found \in SUBSET Uploads :
              Says([r EXCEPT !.found = found], r.at, r.op, r.ids, r.known, found, r.answer, r.status)
<1>1. ASSUME NEW s \in Statuses
      PROVE  Says([r EXCEPT !.answer = s], r.at, r.op, r.ids, r.known, r.found, s, r.status)
  <2>1. [r EXCEPT !.answer = s] \in RequestStates
    BY OneField
  <2> DEFINE f == [r EXCEPT !.answer = s]
  <2>2. /\ f.at = r.at /\ f.op = r.op /\ f.ids = r.ids /\ f.known = r.known
        /\ f.found = r.found /\ f.answer = s /\ f.status = r.status
    BY RequestStatesAre
  <2> QED
    BY <2>1, <2>2 DEF Says
<1>2. ASSUME NEW s \in Statuses
      PROVE  Says([r EXCEPT !.status = s], r.at, r.op, r.ids, r.known, r.found, r.answer, s)
  <2>1. [r EXCEPT !.status = s] \in RequestStates
    BY OneField
  <2> DEFINE f == [r EXCEPT !.status = s]
  <2>2. /\ f.at = r.at /\ f.op = r.op /\ f.ids = r.ids /\ f.known = r.known
        /\ f.found = r.found /\ f.answer = r.answer /\ f.status = s
    BY RequestStatesAre
  <2> QED
    BY <2>1, <2>2 DEF Says
<1>3. ASSUME NEW found \in SUBSET Uploads
      PROVE  Says([r EXCEPT !.found = found], r.at, r.op, r.ids, r.known, found, r.answer, r.status)
  <2>1. [r EXCEPT !.found = found] \in RequestStates
    BY OneField
  <2> DEFINE f == [r EXCEPT !.found = found]
  <2>2. /\ f.at = r.at /\ f.op = r.op /\ f.ids = r.ids /\ f.known = r.known
        /\ f.found = found /\ f.answer = r.answer /\ f.status = r.status
    BY RequestStatesAre
  <2> QED
    BY <2>1, <2>2 DEF Says
<1> QED
  BY <1>1, <1>2, <1>3

LEMMA Asked ==
  ASSUME NEW r \in RequestStates
  PROVE  /\ \A op \in Ops :
              Says([r EXCEPT !.op = op], r.at, op, r.ids, r.known, r.found, r.answer, r.status)
         /\ \A ids \in SUBSET Uploads :
              Says([r EXCEPT !.ids = ids], r.at, r.op, ids, r.known, r.found, r.answer, r.status)
         /\ \A known \in SUBSET Uploads :
              Says([r EXCEPT !.known = known], r.at, r.op, r.ids, known, r.found, r.answer, r.status)
<1>1. ASSUME NEW op \in Ops
      PROVE  Says([r EXCEPT !.op = op], r.at, op, r.ids, r.known, r.found, r.answer, r.status)
  <2>1. [r EXCEPT !.op = op] \in RequestStates
    BY OneField
  <2> DEFINE f == [r EXCEPT !.op = op]
  <2>2. /\ f.at = r.at /\ f.op = op /\ f.ids = r.ids /\ f.known = r.known
        /\ f.found = r.found /\ f.answer = r.answer /\ f.status = r.status
    BY RequestStatesAre
  <2> QED
    BY <2>1, <2>2 DEF Says
<1>2. ASSUME NEW ids \in SUBSET Uploads
      PROVE  Says([r EXCEPT !.ids = ids], r.at, r.op, ids, r.known, r.found, r.answer, r.status)
  <2>1. [r EXCEPT !.ids = ids] \in RequestStates
    BY OneField
  <2> DEFINE f == [r EXCEPT !.ids = ids]
  <2>2. /\ f.at = r.at /\ f.op = r.op /\ f.ids = ids /\ f.known = r.known
        /\ f.found = r.found /\ f.answer = r.answer /\ f.status = r.status
    BY RequestStatesAre
  <2> QED
    BY <2>1, <2>2 DEF Says
<1>3. ASSUME NEW known \in SUBSET Uploads
      PROVE  Says([r EXCEPT !.known = known], r.at, r.op, r.ids, known, r.found, r.answer, r.status)
  <2>1. [r EXCEPT !.known = known] \in RequestStates
    BY OneField
  <2> DEFINE f == [r EXCEPT !.known = known]
  <2>2. /\ f.at = r.at /\ f.op = r.op /\ f.ids = r.ids /\ f.known = known
        /\ f.found = r.found /\ f.answer = r.answer /\ f.status = r.status
    BY RequestStatesAre
  <2> QED
    BY <2>1, <2>2 DEF Says
<1> QED
  BY <1>1, <1>2, <1>3

LEMMA OverSays ==
  ASSUME NEW r \in RequestStates
  PROVE  Says(Over(r), "done", r.op, r.ids, r.known, r.found, r.answer, r.status)
<1> DEFINE g == [r EXCEPT !.at = "done"]
           k == [g EXCEPT !.gw = None]
           f == [k EXCEPT !.i = None]
<1>1. Says(g, "done", r.op, r.ids, r.known, r.found, r.answer, r.status)
  BY Moved, LiteralsAre
<1>2. g \in RequestStates
  BY <1>1 DEF Says
<1> HIDE DEF g
<1>3. Says(k, g.at, g.op, g.ids, g.known, g.found, g.answer, g.status)
  BY <1>2, With
<1>4. k \in RequestStates
  BY <1>3 DEF Says
<1> HIDE DEF k
<1>5. Says(f, k.at, k.op, k.ids, k.known, k.found, k.answer, k.status)
  BY <1>4, With
<1>6. Over(r) = f
  BY DEF Over, f, k, g
<1> HIDE DEF f
<1> QED
  BY <1>1, <1>3, <1>5, <1>6 DEF Says

LEMMA ToldSays ==
  ASSUME NEW r \in RequestStates, NEW s \in Statuses
  PROVE  Says(Told(r, s), "done", r.op, r.ids, r.known, r.found, r.answer,
              IF r.status = 0 THEN s ELSE r.status)
<1> DEFINE v == IF r.status = 0 THEN s ELSE r.status
           g == Over(r)
           f == [g EXCEPT !.status = v]
<1>1. Says(g, "done", r.op, r.ids, r.known, r.found, r.answer, r.status)
  BY OverSays
<1>2. g \in RequestStates /\ g.status = r.status
  BY <1>1 DEF Says
<1>3. v \in Statuses
  BY RequestStatesAre
<1>4. Told(r, s) = f
  BY <1>2 DEF Told
<1> HIDE DEF g, v
<1>5. Says(f, g.at, g.op, g.ids, g.known, g.found, g.answer, v)
  BY <1>2, <1>3, Answered
<1> HIDE DEF f
<1> QED
  BY <1>1, <1>4, <1>5 DEF Says, v

-----------------------------------------------------------------------------
(* A request moves, with its own object and its own row. *)

(* What the invariant asks of an upload, and of a read, that says this next. *)
UploadMay(u, at, op, answer, status) ==
  /\ at \notin {"find", "get", "stream"}
  /\ at \in {"fetch", "put", "save", "reply"} => op = "upload"
  /\ u \in objects' => at \in {"save", "reply", "done"}
  /\ at = "save" => u \in objects'
  /\ at = "reply" =>
       /\ answer \in {201, 400, 500}
       /\ answer = 201 => u \in rows'
       /\ answer = 400 => u \notin objects'
  /\ at # "done" => status \in {0, 502}
  /\ status = 201 => u \in rows'
  /\ at = "done" /\ u \in objects' \ rows' => status \in {500, 502}

ReadMay(at, op, ids, known, found, answer, status) ==
  /\ at \notin {"put", "save"}
  /\ known \subseteq ids \cap rows'
  /\ at = "idle" => known = {}
  /\ at \in {"fetch", "find", "get", "stream", "reply"} => op # "upload"
  /\ at \in {"fetch", "find", "get"} /\ op # "lookup" => \E u \in Uploads : ids = {u}
  /\ at = "get" => op # "lookup" /\ ids \subseteq rows'
  /\ at = "reply" /\ answer \in {200, 404} => known \subseteq found
  /\ at \notin {"stream", "done"} => status \in {0, 502}
  /\ at = "stream" => status # 0
  /\ status \in {200, 404} => known \subseteq found

LEMMA UploadHas ==
  ASSUME InductiveInv, NEW u \in Uploads
  PROVE  UploadInStep(u) /\ req[u] \in RequestStates
  BY DEF InductiveInv, TypeOK, Requests

LEMMA ReadHas ==
  ASSUME InductiveInv, NEW q \in Reads
  PROVE  ReadInStep(q) /\ req[q] \in RequestStates
  BY DEF InductiveInv, TypeOK, Requests

LEMMA UploadSettled ==
  ASSUME NEW u \in Uploads, NEW at, NEW op, NEW ids, NEW known, NEW found, NEW answer, NEW status,
         Says(req'[u], at, op, ids, known, found, answer, status),
         UploadMay(u, at, op, answer, status)
  PROVE  UploadInStep(u)'
  BY DEF Says, UploadMay, UploadInStep

LEMMA ReadSettled ==
  ASSUME NEW q \in Reads, NEW at, NEW op, NEW ids, NEW known, NEW found, NEW answer, NEW status,
         Says(req'[q], at, op, ids, known, found, answer, status),
         ReadMay(at, op, ids, known, found, answer, status)
  PROVE  ReadInStep(q)'
  BY DEF Says, ReadMay, ReadInStep

(* The stores gain nothing but the object and the row of these uploads. *)
Gain(gaining) ==
  /\ objects \subseteq objects' /\ objects' \subseteq objects \cup gaining
  /\ rows \subseteq rows' /\ rows' \subseteq rows \cup gaining
  /\ rows' \subseteq objects'

(* Who does not move stays in step. *)
LEMMA OthersKeep ==
  ASSUME InductiveInv, NEW gaining, Gain(gaining)
  PROVE  /\ \A u \in Uploads : req'[u] = req[u] /\ u \notin gaining => UploadInStep(u)'
         /\ \A q \in Reads : req'[q] = req[q] => ReadInStep(q)'
<1>1. ASSUME NEW u \in Uploads, req'[u] = req[u], u \notin gaining
      PROVE  UploadInStep(u)'
  <2>1. (u \in objects' <=> u \in objects) /\ (u \in rows' <=> u \in rows)
    BY <1>1 DEF Gain
  <2> QED
    BY <1>1, <2>1, UploadHas DEF UploadInStep
<1>2. ASSUME NEW q \in Reads, req'[q] = req[q]
      PROVE  ReadInStep(q)'
  BY <1>2, ReadHas DEF ReadInStep, Gain
<1> QED
  BY <1>1, <1>2

(* The request q becomes the record f. *)
Puts(q, f) == req' = [req EXCEPT ![q] = f]

LEMMA MoveKeeps ==
  ASSUME InductiveInv, NEW q \in Requests, NEW f,
         NEW at, NEW op, NEW ids, NEW known, NEW found, NEW answer, NEW status,
         Puts(q, f),
         Says(f, at, op, ids, known, found, answer, status),
         faults' = faults, StoresTyped', ProcessesTyped',
         Gain({q}),
         q \in Uploads => UploadMay(q, at, op, answer, status),
         q \in Reads => ReadMay(at, op, ids, known, found, answer, status)
  PROVE  InductiveInv'
<1>1. f \in RequestStates
  BY DEF Says
<1>2. /\ ReqTyped'
      /\ req'[q] = f
      /\ \A p \in Requests : p # q => req'[p] = req[p]
  BY <1>1 DEF InductiveInv, TypeOK, ReqTyped, Puts
<1>3. TypeOK'
  BY <1>2, TypeParts DEF InductiveInv, TypeOK, ReqTyped, StoresTyped, ProcessesTyped
<1>4. ASSUME NEW u \in Uploads PROVE UploadInStep(u)'
  <2>1. CASE u = q
    BY <1>2, <2>1, UploadSettled
  <2>2. CASE u # q
    BY <1>2, <2>2, OthersKeep DEF Requests
  <2> QED
    BY <2>1, <2>2
<1>5. ASSUME NEW p \in Reads PROVE ReadInStep(p)'
  <2>1. CASE p = q
    BY <1>2, <2>1, ReadSettled
  <2>2. CASE p # q
    BY <1>2, <2>2, OthersKeep DEF Requests
  <2> QED
    BY <2>1, <2>2
<1>6. rows' \subseteq objects'
  BY DEF Gain
<1> QED
  BY <1>3, <1>4, <1>5, <1>6 DEF InductiveInv

(* The same where the stores and the processes stay as they are. *)
LEMMA MoveAloneKeeps ==
  ASSUME InductiveInv, NEW q \in Requests, NEW f,
         NEW at, NEW op, NEW ids, NEW known, NEW found, NEW answer, NEW status,
         Puts(q, f),
         Says(f, at, op, ids, known, found, answer, status),
         UNCHANGED <<faults, stores, inst, gateway>>,
         q \in Uploads => UploadMay(q, at, op, answer, status),
         q \in Reads => ReadMay(at, op, ids, known, found, answer, status)
  PROVE  InductiveInv'
<1>1. StoresTyped' /\ ProcessesTyped'
  BY TypeParts DEF InductiveInv, StoresTyped, ProcessesTyped, stores
<1>2. Gain({q})
  BY DEF Gain, InductiveInv, stores
<1> QED
  BY <1>1, <1>2, MoveKeeps DEF stores

-----------------------------------------------------------------------------
(* The actions of a request. *)

LEMMA PublishedHaveRows == InductiveInv => Published \subseteq rows
  BY UploadHas DEF Published, UploadInStep

Arrived(r, g, file) == [r EXCEPT !.at = "fetch", !.gw = g, !.op = "upload", !.file = file]

LEMMA ArrivedSays ==
  ASSUME NEW r \in RequestStates, NEW g \in Gateways, NEW file \in Files
  PROVE  Says(Arrived(r, g, file), "fetch", "upload", r.ids, r.known, r.found, r.answer, r.status)
<1> DEFINE a == [r EXCEPT !.at = "fetch"]
           b == [a EXCEPT !.gw = g]
           c == [b EXCEPT !.op = "upload"]
           d == [c EXCEPT !.file = file]
<1>1. Says(a, "fetch", r.op, r.ids, r.known, r.found, r.answer, r.status)
  BY Moved, LiteralsAre
<1>2. a \in RequestStates
  BY <1>1 DEF Says
<1> HIDE DEF a
<1>3. Says(b, a.at, a.op, a.ids, a.known, a.found, a.answer, a.status)
  BY <1>2, With
<1>4. b \in RequestStates
  BY <1>3 DEF Says
<1> HIDE DEF b
<1>5. Says(c, b.at, "upload", b.ids, b.known, b.found, b.answer, b.status)
  BY <1>4, Asked, LiteralsAre
<1>6. c \in RequestStates
  BY <1>5 DEF Says
<1> HIDE DEF c
<1>7. Says(d, c.at, c.op, c.ids, c.known, c.found, c.answer, c.status)
  BY <1>6, With
<1>8. Arrived(r, g, file) = d
  BY DEF Arrived, d, c, b, a
<1> HIDE DEF d
<1> QED
  BY <1>1, <1>3, <1>5, <1>7, <1>8 DEF Says

LEMMA ReceiveUploadKeeps ==
  ASSUME InductiveInv, NEW q \in Uploads, NEW g \in Gateways, NEW file \in Files,
         ReceiveUpload(q, g, file)
  PROVE  InductiveInv'
<1>1. q \in Requests /\ q \notin Reads
  BY NamesDistinct DEF Requests
<1>2. req[q].at = "idle" /\ req[q].status \in {0, 502} /\ q \notin objects /\ req[q] \in RequestStates
  BY UploadHas DEF ReceiveUpload, UploadInStep
<1> DEFINE r == req[q]
           a == Arrived(r, g, file)
<1>3. Says(a, "fetch", "upload", r.ids, r.known, r.found, r.answer, r.status)
  BY <1>2, ArrivedSays
<1>4. /\ req' = [req EXCEPT ![q] = IF Refusal(file) # 0 THEN Told(a, Refusal(file)) ELSE a]
      /\ UNCHANGED <<faults, stores, inst, gateway>>
  BY DEF ReceiveUpload, Arrived
<1> HIDE DEF a
<1>5. a \in RequestStates /\ a.status = r.status /\ a.op = "upload"
  BY <1>3 DEF Says
<1>6. CASE Refusal(file) = 0
  <2>1. UploadMay(q, "fetch", "upload", r.answer, r.status)
    BY <1>2, <1>4 DEF UploadMay, stores
  <2>2. Puts(q, a)
    BY <1>4, <1>6 DEF Puts
  <2> QED
    BY <1>1, <1>3, <1>4, <2>1, <2>2, MoveAloneKeeps
<1>7. CASE Refusal(file) # 0
  <2>1. PICK s \in {413} : s = Refusal(file)
    BY <1>7 DEF Refusal
  <2>2. PICK v : v = IF a.status = 0 THEN s ELSE a.status
    OBVIOUS
  <2>6. PICK f : f = Told(a, s)
    OBVIOUS
  <2>3. Says(f, "done", "upload", r.ids, r.known, r.found, r.answer, v)
    <3>1. Says(f, "done", a.op, a.ids, a.known, a.found, a.answer, v)
      BY <1>5, <2>2, <2>6, ToldSays, LiteralsAre
    <3> QED
      BY <1>3, <3>1 DEF Says
  <2>4. UploadMay(q, "done", "upload", r.answer, v)
    BY <1>2, <1>4, <1>5, <2>2 DEF UploadMay, stores
  <2>5. Puts(q, f)
    BY <1>4, <1>7, <2>1, <2>6 DEF Puts
  <2> QED
    BY <1>1, <1>4, <2>3, <2>4, <2>5, MoveAloneKeeps
<1> QED
  BY <1>6, <1>7

Asking(r, g, op, ids, known) ==
  [r EXCEPT !.at = "fetch", !.gw = g, !.op = op, !.ids = ids, !.known = known]

LEMMA AskingSays ==
  ASSUME NEW r \in RequestStates, NEW g \in Gateways \cup {None}, NEW op \in Ops,
         NEW ids \in SUBSET Uploads, NEW known \in SUBSET Uploads
  PROVE  Says(Asking(r, g, op, ids, known), "fetch", op, ids, known, r.found, r.answer, r.status)
<1> DEFINE a == [r EXCEPT !.at = "fetch"]
           b == [a EXCEPT !.gw = g]
           c == [b EXCEPT !.op = op]
           d == [c EXCEPT !.ids = ids]
           e == [d EXCEPT !.known = known]
<1>1. Says(a, "fetch", r.op, r.ids, r.known, r.found, r.answer, r.status)
  BY Moved, LiteralsAre
<1>2. a \in RequestStates
  BY <1>1 DEF Says
<1> HIDE DEF a
<1>3. Says(b, a.at, a.op, a.ids, a.known, a.found, a.answer, a.status)
  BY <1>2, With
<1>4. b \in RequestStates
  BY <1>3 DEF Says
<1> HIDE DEF b
<1>5. Says(c, b.at, op, b.ids, b.known, b.found, b.answer, b.status)
  BY <1>4, Asked
<1>6. c \in RequestStates
  BY <1>5 DEF Says
<1> HIDE DEF c
<1>7. Says(d, c.at, c.op, ids, c.known, c.found, c.answer, c.status)
  BY <1>6, Asked
<1>8. d \in RequestStates
  BY <1>7 DEF Says
<1> HIDE DEF d
<1>9. Says(e, d.at, d.op, d.ids, known, d.found, d.answer, d.status)
  BY <1>8, Asked
<1>10. Asking(r, g, op, ids, known) = e
  BY DEF Asking, e, d, c, b, a
<1> HIDE DEF e
<1> QED
  BY <1>1, <1>3, <1>5, <1>7, <1>9, <1>10 DEF Says

LEMMA ReceiveReadKeeps ==
  ASSUME InductiveInv, NEW q \in Reads, NEW g \in Gateways \cup {None},
         NEW op \in {"record", "content", "lookup"}, NEW ids \in SUBSET Uploads,
         ReceiveRead(q, g, op, ids)
  PROVE  InductiveInv'
<1>1. q \in Requests /\ q \notin Uploads
  BY NamesDistinct DEF Requests
<1>2. req[q].at = "idle" /\ req[q].status \in {0, 502} /\ req[q] \in RequestStates
  BY ReadHas DEF ReceiveRead, ReadInStep
<1> DEFINE r == req[q]
           known == ids \cap Published
           f == Asking(r, g, op, ids, known)
<1>3. op \in Ops /\ known \in SUBSET Uploads
  BY LiteralsAre
<1>4. Says(f, "fetch", op, ids, known, r.found, r.answer, r.status)
  BY <1>2, <1>3, AskingSays
<1>5. /\ Puts(q, f)
      /\ op # "lookup" => \E u \in Uploads : ids = {u}
      /\ UNCHANGED <<faults, stores, inst, gateway>>
  BY DEF ReceiveRead, Asking, Puts
<1>6. known \subseteq ids \cap rows
  BY PublishedHaveRows
<1> HIDE DEF f, known
<1>7. ReadMay("fetch", op, ids, known, r.found, r.answer, r.status)
  BY <1>2, <1>5, <1>6 DEF ReadMay, stores
<1> QED
  BY <1>1, <1>4, <1>5, <1>7, MoveAloneKeeps

LEMMA GoesKeeps ==
  ASSUME InductiveInv, NEW q \in Requests, NEW stage \in Stages, NEW r, r = req[q],
         Goes(q, stage),
         UNCHANGED <<faults, inst, gateway>>, StoresTyped', Gain({q}),
         q \in Uploads => UploadMay(q, stage, r.op, r.answer, r.status),
         q \in Reads => ReadMay(stage, r.op, r.ids, r.known, r.found, r.answer, r.status)
  PROVE  InductiveInv'
<1>1. r \in RequestStates
  BY DEF InductiveInv, TypeOK
<1>2. PICK f : f = [r EXCEPT !.at = stage]
  OBVIOUS
<1>3. Says(f, stage, r.op, r.ids, r.known, r.found, r.answer, r.status)
  BY <1>1, <1>2, Moved
<1>4. Puts(q, f)
  BY <1>2 DEF Goes, Puts
<1>5. ProcessesTyped'
  BY TypeParts DEF InductiveInv, ProcessesTyped
<1> QED
  BY <1>3, <1>4, <1>5, MoveKeeps

LEMMA TellKeeps ==
  ASSUME InductiveInv, NEW q \in Requests, NEW s \in Statuses, NEW r, r = req[q],
         Tell(q, s), NEW v, v = IF r.status = 0 THEN s ELSE r.status,
         UNCHANGED <<faults, stores, inst, gateway>>,
         q \in Uploads => UploadMay(q, "done", r.op, r.answer, v),
         q \in Reads => ReadMay("done", r.op, r.ids, r.known, r.found, r.answer, v)
  PROVE  InductiveInv'
<1>1. r \in RequestStates
  BY DEF InductiveInv, TypeOK
<1>2. PICK f : f = Told(r, s)
  OBVIOUS
<1>3. Says(f, "done", r.op, r.ids, r.known, r.found, r.answer, v)
  BY <1>1, <1>2, ToldSays
<1>4. Puts(q, f)
  BY <1>2 DEF Tell, Puts
<1> QED
  BY <1>3, <1>4, MoveAloneKeeps

Decided(r, s, found) == [r EXCEPT !.at = "reply", !.answer = s, !.found = found]

LEMMA DecidedSays ==
  ASSUME NEW r \in RequestStates, NEW s \in Statuses, NEW found \in SUBSET Uploads
  PROVE  Says(Decided(r, s, found), "reply", r.op, r.ids, r.known, found, s, r.status)
<1> DEFINE a == [r EXCEPT !.at = "reply"]
           b == [a EXCEPT !.answer = s]
           c == [b EXCEPT !.found = found]
<1>1. Says(a, "reply", r.op, r.ids, r.known, r.found, r.answer, r.status)
  BY Moved, LiteralsAre
<1>2. a \in RequestStates
  BY <1>1 DEF Says
<1> HIDE DEF a
<1>3. Says(b, a.at, a.op, a.ids, a.known, a.found, s, a.status)
  BY <1>2, Answered
<1>4. b \in RequestStates
  BY <1>3 DEF Says
<1> HIDE DEF b
<1>5. Says(c, b.at, b.op, b.ids, b.known, found, b.answer, b.status)
  BY <1>4, Answered
<1>6. Decided(r, s, found) = c
  BY DEF Decided, c, b, a
<1> HIDE DEF c
<1> QED
  BY <1>1, <1>3, <1>5, <1>6 DEF Says

LEMMA DecideKeeps ==
  ASSUME InductiveInv, NEW q \in Requests, NEW s \in Statuses, NEW found \in SUBSET Uploads,
         NEW r, r = req[q],
         Decide(q, s, found),
         UNCHANGED <<faults, inst, gateway>>, StoresTyped', Gain({q}),
         q \in Uploads => UploadMay(q, "reply", r.op, s, r.status),
         q \in Reads => ReadMay("reply", r.op, r.ids, r.known, found, s, r.status)
  PROVE  InductiveInv'
<1>1. r \in RequestStates
  BY DEF InductiveInv, TypeOK
<1>2. PICK f : f = Decided(r, s, found)
  OBVIOUS
<1>3. Says(f, "reply", r.op, r.ids, r.known, found, s, r.status)
  BY <1>1, <1>2, DecidedSays
<1>4. Puts(q, f)
  BY <1>2 DEF Decide, Puts, Decided
<1>5. ProcessesTyped'
  BY TypeParts DEF InductiveInv, ProcessesTyped
<1> QED
  BY <1>3, <1>4, <1>5, MoveKeeps

LEMMA StoresKept ==
  ASSUME InductiveInv, UNCHANGED stores
  PROVE  StoresTyped' /\ \A q \in Requests : Gain({q})
  BY TypeParts DEF InductiveInv, StoresTyped, stores, Gain

(* Uploads and reads are told apart. *)
LEMMA EitherKind ==
  /\ \A q \in Requests : q \in Uploads \/ q \in Reads
  /\ \A q \in Uploads : q \notin Reads /\ q \in Requests
  /\ \A q \in Reads : q \notin Uploads /\ q \in Requests
  BY NamesDistinct DEF Requests

(* An upload and a read at these stages, and what the steps from there may say. *)
LEMMA UploadStands ==
  ASSUME InductiveInv, NEW q \in Uploads, NEW r, r = req[q]
  PROVE  /\ r.at \notin {"find", "get", "stream"}
         /\ r.at \in {"fetch", "put", "save", "reply"} => r.op = "upload" /\ r.status \in {0, 502}
         /\ r.at \in {"fetch", "put"} => q \notin objects /\ q \notin rows
         /\ r.at = "save" => q \in objects
         /\ r.at = "reply" =>
              /\ r.answer \in {201, 400, 500}
              /\ r.answer = 201 => q \in rows
              /\ r.answer = 400 => q \notin objects
         /\ r \in RequestStates
  BY UploadHas DEF UploadInStep, InductiveInv

LEMMA ReadStands ==
  ASSUME InductiveInv, NEW q \in Reads, NEW r, r = req[q]
  PROVE  /\ r.at \notin {"put", "save"}
         /\ r.known \subseteq r.ids /\ r.known \subseteq rows
         /\ r.at \in {"fetch", "find", "get", "stream", "reply"} => r.op # "upload"
         /\ r.at \in {"fetch", "find", "get"} /\ r.op # "lookup" => \E u \in Uploads : r.ids = {u}
         /\ r.at = "get" => r.op # "lookup" /\ r.ids \subseteq rows /\ r.ids \subseteq objects
         /\ r.at = "reply" /\ r.answer \in {200, 404} => r.known \subseteq r.found
         /\ r.at \in {"fetch", "find", "get", "reply"} => r.status \in {0, 502}
         /\ r.at = "stream" => r.status # 0
         /\ r.status \in {200, 404} => r.known \subseteq r.found
         /\ r \in RequestStates
  BY ReadHas DEF ReadInStep, InductiveInv

LEMMA ToldKeeps ==
  ASSUME InductiveInv, NEW q \in Requests, NobodyListens(q) \/ Reply(q)
  PROVE  InductiveInv'
<1>1. UNCHANGED <<faults, stores, inst, gateway>>
  BY DEF NobodyListens, Reply
<1>2. PICK r : r = req[q]
  OBVIOUS
<1>3. r \in RequestStates
  BY <1>2 DEF InductiveInv, TypeOK
<1>4. PICK s \in Statuses :
        /\ Tell(q, s)
        /\ r.at \in {"fetch", "reply"}
        /\ s = IF r.at = "fetch" THEN 500 ELSE r.answer
  <2>1. 500 \in Statuses /\ r.answer \in Statuses
    BY <1>3, LiteralsAre, RequestStatesAre
  <2> QED
    <3>1. CASE NobodyListens(q)
      <4>1. Tell(q, 500) /\ r.at = "fetch"
        BY <1>2, <3>1 DEF NobodyListens
      <4> QED
        BY <2>1, <4>1
    <3>2. CASE Reply(q)
      <4>1. Tell(q, r.answer) /\ r.at = "reply"
        BY <1>2, <3>2 DEF Reply
      <4> QED
        BY <2>1, <4>1
    <3> QED
      BY <3>1, <3>2
<1>5. PICK v : v = IF r.status = 0 THEN s ELSE r.status
  OBVIOUS
<1>6. q \in Uploads => UploadMay(q, "done", r.op, r.answer, v)
  BY <1>1, <1>2, <1>4, <1>5, UploadStands DEF UploadMay, stores
<1>7. q \in Reads => ReadMay("done", r.op, r.ids, r.known, r.found, r.answer, v)
  BY <1>1, <1>2, <1>4, <1>5, ReadStands DEF ReadMay, stores
<1> QED
  BY <1>1, <1>2, <1>4, <1>5, <1>6, <1>7, TellKeeps

LEMMA SavingKeeps ==
  ASSUME InductiveInv, NEW q \in Requests, PutObject(q) \/ PutFails(q) \/ SaveRow(q) \/ SaveFails(q)
  PROVE  InductiveInv'
<1>1. q \in Uploads /\ q \notin Reads
  BY EitherKind, ReadStands DEF PutObject, PutFails, SaveRow, SaveFails
<1>2. PICK r : r = req[q]
  OBVIOUS
<1>3. /\ UNCHANGED <<faults, inst, gateway>> /\ bucket' = bucket
      /\ r.op = "upload" /\ r.status \in {0, 502}
  BY <1>1, <1>2, UploadStands DEF PutObject, PutFails, SaveRow, SaveFails
<1>4. /\ {} \in SUBSET Uploads
      /\ 201 \in Statuses /\ 500 \in Statuses /\ "save" \in Stages
  BY LiteralsAre
<1>5. StoresTyped /\ rows \subseteq objects
  BY TypeParts DEF InductiveInv
<1>6. CASE PutObject(q) \/ PutFails(q)
  <2>1. r.at = "put" /\ q \notin objects /\ q \notin rows /\ rows' = rows
    BY <1>1, <1>2, <1>6, UploadStands DEF PutObject, PutFails
  <2>2. objects \subseteq objects' /\ objects' \subseteq objects \cup {q}
    BY <1>6 DEF PutObject, PutFails
  <2>3. StoresTyped' /\ Gain({q})
    BY <1>1, <1>3, <1>5, <2>1, <2>2 DEF StoresTyped, Gain
  <2>4. CASE Goes(q, "save") /\ q \in objects'
    <3>1. UploadMay(q, "save", r.op, r.answer, r.status)
      BY <1>3, <2>4 DEF UploadMay
    <3> QED
      BY <1>1, <1>2, <1>3, <1>4, <2>3, <2>4, <3>1, GoesKeeps
  <2>5. CASE Decide(q, 500, {})
    <3>1. UploadMay(q, "reply", r.op, 500, r.status)
      BY <1>3 DEF UploadMay
    <3> QED
      BY <1>1, <1>2, <1>3, <1>4, <2>3, <2>5, <3>1, DecideKeeps
  <2> QED
    BY <1>6, <2>4, <2>5 DEF PutObject, PutFails
<1>7. CASE SaveRow(q) \/ SaveFails(q)
  <2>1. r.at = "save" /\ q \in objects /\ objects' = objects
    BY <1>1, <1>2, <1>7, UploadStands DEF SaveRow, SaveFails
  <2>2. rows \subseteq rows' /\ rows' \subseteq rows \cup {q}
    BY <1>7 DEF SaveRow, SaveFails
  <2>3. StoresTyped' /\ Gain({q})
    BY <1>1, <1>3, <1>5, <2>1, <2>2 DEF StoresTyped, Gain
  <2>4. PICK s \in {201, 500} : Decide(q, s, {}) /\ (s = 201 => q \in rows')
    BY <1>7 DEF SaveRow, SaveFails
  <2>5. UploadMay(q, "reply", r.op, s, r.status)
    BY <1>3, <2>1, <2>4 DEF UploadMay
  <2> QED
    BY <1>1, <1>2, <1>3, <1>4, <2>3, <2>4, <2>5, DecideKeeps
<1> QED
  BY <1>6, <1>7

LEMMA ReadingKeeps ==
  ASSUME InductiveInv, NEW q \in Requests,
         FindRows(q) \/ FindFails(q) \/ (GetObject(q) /\ ~(req[q].ids \subseteq objects)) \/ GetFails(q)
  PROVE  InductiveInv'
<1>1. q \in Reads /\ q \notin Uploads
  BY EitherKind, UploadStands DEF FindRows, FindFails, GetObject, GetFails
<1>2. PICK r : r = req[q]
  OBVIOUS
<1>3. /\ UNCHANGED <<faults, stores, inst, gateway>>
      /\ r.at \in {"find", "get"}
  BY <1>2 DEF FindRows, FindFails, GetObject, GetFails
<1>4. /\ r.op # "upload" /\ r.status \in {0, 502}
      /\ r.known \subseteq r.ids /\ r.known \subseteq rows
      /\ r.op # "lookup" => \E u \in Uploads : r.ids = {u}
      /\ r.ids \subseteq Uploads
  BY <1>1, <1>2, <1>3, ReadStands, RequestStatesAre
<1>5. StoresTyped' /\ Gain({q}) /\ rows' = rows
  BY <1>3, StoresKept DEF stores
<1>6. ASSUME NEW s \in Statuses, NEW found \in SUBSET Uploads, Decide(q, s, found),
             s \in {200, 404} => r.known \subseteq found
      PROVE  InductiveInv'
  <2>1. ReadMay("reply", r.op, r.ids, r.known, found, s, r.status)
    BY <1>4, <1>5, <1>6 DEF ReadMay
  <2> QED
    BY <1>1, <1>2, <1>3, <1>5, <1>6, <2>1, DecideKeeps
<1>7. /\ {} \in SUBSET Uploads
      /\ 200 \in Statuses /\ 404 \in Statuses /\ 500 \in Statuses /\ "get" \in Stages
  BY LiteralsAre
<1>8. CASE FindRows(q)
  <2>1. PICK hit : hit = r.ids \cap rows
    OBVIOUS
  <2>2. r.known \subseteq hit /\ hit \in SUBSET Uploads
    BY <1>4, <2>1
  <2>3. CASE Decide(q, 200, hit)
    BY <1>6, <1>7, <2>2, <2>3
  <2>4. CASE hit = {} /\ Decide(q, 404, {})
    BY <1>6, <1>7, <2>2, <2>4
  <2>5. CASE r.op # "lookup" /\ hit # {} /\ Goes(q, "get")
    <3>1. r.ids \subseteq rows
      BY <1>4, <2>1, <2>5
    <3>2. ReadMay("get", r.op, r.ids, r.known, r.found, r.answer, r.status)
      BY <1>4, <1>5, <2>5, <3>1 DEF ReadMay
    <3> QED
      BY <1>1, <1>2, <1>3, <1>5, <1>7, <2>5, <3>2, GoesKeeps
  <2> QED
    BY <1>2, <1>8, <2>1, <2>3, <2>4, <2>5 DEF FindRows
<1>9. CASE FindFails(q) \/ GetFails(q)
  <2>1. Decide(q, 500, {})
    BY <1>9 DEF FindFails, GetFails
  <2> QED
    BY <1>6, <1>7, <2>1
<1>10. CASE GetObject(q) /\ ~(req[q].ids \subseteq objects)
  <2>1. r.at = "get"
    BY <1>2, <1>10 DEF GetObject
  <2> QED
    BY <1>1, <1>2, <1>10, <2>1, ReadStands
<1> QED
  BY <1>8, <1>9, <1>10

Streaming(r) == [r EXCEPT !.at = "stream", !.found = r.ids, !.status = IF @ = 0 THEN 200 ELSE @]

LEMMA StreamingSays ==
  ASSUME NEW r \in RequestStates
  PROVE  Says(Streaming(r), "stream", r.op, r.ids, r.known, r.ids, r.answer,
              IF r.status = 0 THEN 200 ELSE r.status)
<1> DEFINE v == IF r.status = 0 THEN 200 ELSE r.status
           a == [r EXCEPT !.at = "stream"]
           b == [a EXCEPT !.found = r.ids]
           c == [b EXCEPT !.status = v]
<1>1. Says(a, "stream", r.op, r.ids, r.known, r.found, r.answer, r.status)
  BY Moved, LiteralsAre
<1>2. a \in RequestStates
  BY <1>1 DEF Says
<1>3. v \in Statuses /\ r.ids \in SUBSET Uploads
  BY RequestStatesAre, LiteralsAre
<1>4. Streaming(r) = c
  BY RequestStatesAre DEF Streaming
<1> HIDE DEF a, v
<1>5. Says(b, a.at, a.op, a.ids, a.known, r.ids, a.answer, a.status)
  BY <1>2, <1>3, Answered
<1>6. b \in RequestStates
  BY <1>5 DEF Says
<1> HIDE DEF b
<1>7. Says(c, b.at, b.op, b.ids, b.known, b.found, b.answer, v)
  BY <1>3, <1>6, Answered
<1> HIDE DEF c
<1> QED
  BY <1>1, <1>4, <1>5, <1>7 DEF Says, v

LEMMA StreamKeeps ==
  ASSUME InductiveInv, NEW q \in Requests, GetObject(q) \/ StreamEnds(q)
  PROVE  InductiveInv'
<1>1. q \in Reads /\ q \notin Uploads
  BY EitherKind, UploadStands DEF GetObject, StreamEnds
<1>2. PICK r : r = req[q]
  OBVIOUS
<1>3. /\ UNCHANGED <<faults, stores, inst, gateway>>
      /\ r.at \in {"get", "stream"}
  BY <1>2 DEF GetObject, StreamEnds
<1>4. /\ r.op # "upload" /\ r \in RequestStates
      /\ r.known \subseteq r.ids /\ r.known \subseteq rows
      /\ r.at = "get" => r.status \in {0, 502}
      /\ r.status \in {200, 404} => r.known \subseteq r.found
  BY <1>1, <1>2, <1>3, ReadStands
<1>5. CASE GetObject(q)
  <2>1. CASE ~(req[q].ids \subseteq objects)
    BY <1>5, <2>1, ReadingKeeps
  <2>2. CASE req[q].ids \subseteq objects
    <3>1. PICK f : f = Streaming(r)
      OBVIOUS
    <3>2. PICK v : v = IF r.status = 0 THEN 200 ELSE r.status
      OBVIOUS
    <3>3. Says(f, "stream", r.op, r.ids, r.known, r.ids, r.answer, v)
      <4>1. r \in RequestStates
        BY <1>4
      <4> QED
        BY <3>1, <3>2, <4>1, StreamingSays
    <3>4. Puts(q, f)
      BY <1>2, <1>5, <2>2, <3>1 DEF GetObject, Puts, Streaming
    <3>5. ReadMay("stream", r.op, r.ids, r.known, r.ids, r.answer, v)
      BY <1>3, <1>4, <3>2 DEF ReadMay, stores
    <3> QED
      BY <1>1, <1>3, <3>3, <3>4, <3>5, MoveAloneKeeps
  <2> QED
    BY <2>1, <2>2
<1>6. CASE StreamEnds(q)
  <2>1. PICK f : f = Over(r)
    OBVIOUS
  <2>2. Says(f, "done", r.op, r.ids, r.known, r.found, r.answer, r.status)
    BY <1>4, <2>1, OverSays
  <2>3. Puts(q, f)
    BY <1>2, <1>6, <2>1 DEF StreamEnds, Puts
  <2>4. ReadMay("done", r.op, r.ids, r.known, r.found, r.answer, r.status)
    BY <1>3, <1>4 DEF ReadMay, stores
  <2> QED
    BY <1>1, <1>3, <2>2, <2>3, <2>4, MoveAloneKeeps
<1> QED
  BY <1>5, <1>6

Answering(r, s) == [r EXCEPT !.at = "reply", !.answer = s]

LEMMA BeginKeeps ==
  ASSUME InductiveInv, NEW q \in Requests, NEW i \in Instances, Begin(q, i)
  PROVE  InductiveInv'
<1>1. PICK w : w = req[q]
  OBVIOUS
<1>2. PICK r : r = [w EXCEPT !.i = i]
  OBVIOUS
<1>3. w \in RequestStates /\ w.at = "fetch"
  BY <1>1 DEF InductiveInv, TypeOK, Begin
<1>4. Says(r, "fetch", w.op, w.ids, w.known, w.found, w.answer, w.status)
  BY <1>2, <1>3, With
<1>5. r \in RequestStates
  BY <1>4 DEF Says
<1>6. PICK f :
        /\ f = IF r.op = "upload"
               THEN IF Accepts(r.file) THEN [r EXCEPT !.at = "put"]
                                       ELSE Answering(r, 400)
               ELSE IF r.ids = {} THEN Answering(r, 200)
                                  ELSE [r EXCEPT !.at = "find"]
        /\ Puts(q, f)
  BY <1>1, <1>2 DEF Begin, Puts, Answering
<1>7. UNCHANGED <<faults, stores, inst, gateway>>
  BY DEF Begin
<1>8. \A s \in Statuses :
        Says(Answering(r, s), "reply", w.op, w.ids, w.known, w.found, s, w.status)
  <2> SUFFICES ASSUME NEW s \in Statuses
               PROVE  Says(Answering(r, s), "reply", w.op, w.ids, w.known, w.found, s, w.status)
    OBVIOUS
  <2> DEFINE a == [r EXCEPT !.at = "reply"]
             b == [a EXCEPT !.answer = s]
  <2>1. Says(a, "reply", r.op, r.ids, r.known, r.found, r.answer, r.status)
    BY <1>5, Moved, LiteralsAre
  <2>2. a \in RequestStates
    BY <2>1 DEF Says
  <2> HIDE DEF a
  <2>3. Says(b, a.at, a.op, a.ids, a.known, a.found, s, a.status)
    BY <2>2, Answered
  <2>4. Answering(r, s) = b
    BY DEF Answering, b, a
  <2> HIDE DEF b
  <2> QED
    BY <1>4, <2>1, <2>3, <2>4 DEF Says
<1>9. \A stage \in Stages :
        Says([r EXCEPT !.at = stage], stage, w.op, w.ids, w.known, w.found, w.answer, w.status)
  BY <1>4, <1>5, Moved DEF Says
<1>10. CASE q \in Uploads
  <2>1. r.op = "upload" /\ w.op = "upload" /\ w.status \in {0, 502} /\ q \notin objects /\ q \notin Reads
    BY <1>1, <1>3, <1>4, <1>10, UploadStands, EitherKind DEF Says
  <2>2. CASE Accepts(r.file)
    <3>1. Says(f, "put", w.op, w.ids, w.known, w.found, w.answer, w.status)
      BY <1>6, <1>9, <2>1, <2>2, LiteralsAre
    <3>2. UploadMay(q, "put", w.op, w.answer, w.status)
      BY <1>7, <2>1 DEF UploadMay, stores
    <3> QED
      BY <1>6, <1>7, <2>1, <3>1, <3>2, MoveAloneKeeps
  <2>3. CASE ~Accepts(r.file)
    <3>1. Says(f, "reply", w.op, w.ids, w.known, w.found, 400, w.status)
      BY <1>6, <1>8, <2>1, <2>3, LiteralsAre
    <3>2. UploadMay(q, "reply", w.op, 400, w.status)
      BY <1>7, <2>1 DEF UploadMay, stores
    <3> QED
      BY <1>6, <1>7, <2>1, <3>1, <3>2, MoveAloneKeeps
  <2> QED
    BY <2>2, <2>3
<1>11. CASE q \in Reads
  <2>1. /\ r.op # "upload" /\ w.op # "upload" /\ w.status \in {0, 502} /\ r.ids = w.ids
        /\ w.known \subseteq w.ids /\ w.known \subseteq rows
        /\ w.op # "lookup" => \E u \in Uploads : w.ids = {u}
        /\ q \notin Uploads
    BY <1>1, <1>3, <1>4, <1>11, ReadStands, EitherKind DEF Says
  <2>2. CASE r.ids = {}
    <3>1. Says(f, "reply", w.op, w.ids, w.known, w.found, 200, w.status)
      BY <1>6, <1>8, <2>1, <2>2, LiteralsAre
    <3>2. ReadMay("reply", w.op, w.ids, w.known, w.found, 200, w.status)
      BY <1>7, <2>1, <2>2 DEF ReadMay, stores
    <3> QED
      BY <1>6, <1>7, <2>1, <3>1, <3>2, MoveAloneKeeps
  <2>3. CASE r.ids # {}
    <3>1. Says(f, "find", w.op, w.ids, w.known, w.found, w.answer, w.status)
      BY <1>6, <1>9, <2>1, <2>3, LiteralsAre
    <3>2. ReadMay("find", w.op, w.ids, w.known, w.found, w.answer, w.status)
      BY <1>7, <2>1 DEF ReadMay, stores
    <3> QED
      BY <1>6, <1>7, <2>1, <3>1, <3>2, MoveAloneKeeps
  <2> QED
    BY <2>2, <2>3
<1> QED
  BY <1>10, <1>11, EitherKind

-----------------------------------------------------------------------------
(* A gateway or an instance ends, with all that was under way in it. *)

(* Requests that are cut off while at work say nothing new but an error. *)
LEMMA CollapseKeeps ==
  ASSUME InductiveInv, NEW broken, NEW cut, Collapse(broken, cut),
         \A q \in broken : q \in Requests /\ req[q].at = "stream",
         \A q \in cut : q \in Requests /\ req[q].at \notin {"idle", "done"},
         NEW gaining, \A q \in gaining : q \in cut /\ q \in Uploads,
         Gain(gaining), StoresTyped', faults' = faults,
         inst' \in [Instances -> {"off", "head", "create", "up", "down"}]
  PROVE  InductiveInv'
<1>1. ASSUME NEW q \in Requests
      PROVE  \/ q \in broken /\ req'[q] = Over(req[q])
             \/ /\ q \in cut \/ req[q].at = "fetch"
                /\ req'[q] = Told(req[q], 500) \/ req'[q] = Told(req[q], 502)
             \/ /\ q \notin cut /\ req[q].at # "done" /\ req[q].status = 0
                /\ req'[q] = [req[q] EXCEPT !.status = 502]
             \/ q \notin cut /\ req'[q] = req[q]
  <2> DEFINE fallen == {req[p].gw : p \in broken}
  <2>1. req'[q] =
          IF q \in broken THEN Over(req[q])
          ELSE IF q \in cut \/ (req[q].at = "fetch" /\ req[q].gw \in fallen)
          THEN Told(req[q], IF req[q].gw \in fallen THEN 502 ELSE 500)
          ELSE IF req[q].gw \in fallen /\ req[q].at # "done" /\ req[q].status = 0
          THEN [req[q] EXCEPT !.status = 502]
          ELSE req[q]
    BY DEF Collapse
  <2> HIDE DEF fallen
  <2> QED
    BY <2>1
<1>2. ASSUME NEW q \in Requests
      PROVE  /\ req'[q] \in RequestStates
             /\ q \in Uploads => UploadInStep(q)'
             /\ q \in Reads => ReadInStep(q)'
  <2>1. PICK r : r = req[q]
    OBVIOUS
  <2>2. r \in RequestStates
    BY <2>1 DEF InductiveInv, TypeOK
  <2>3. CASE q \in broken /\ req'[q] = Over(r)
    <3>1. Says(req'[q], "done", r.op, r.ids, r.known, r.found, r.answer, r.status)
      BY <2>2, <2>3, OverSays
    <3>2. q \in Reads /\ q \notin Uploads /\ r.at = "stream"
      BY <2>1, <2>3, UploadStands, EitherKind
    <3>3. ReadMay("done", r.op, r.ids, r.known, r.found, r.answer, r.status)
      BY <2>1, <3>2, ReadStands DEF ReadMay, Gain
    <3> QED
      BY <3>1, <3>2, <3>3, ReadSettled DEF Says
  <2>4. CASE /\ q \in cut \/ r.at = "fetch"
             /\ req'[q] = Told(r, 500) \/ req'[q] = Told(r, 502)
    <3>1. PICK s \in {500, 502} : req'[q] = Told(r, s)
      BY <2>4
    <3>2. PICK v : v = IF r.status = 0 THEN s ELSE r.status
      OBVIOUS
    <3>3. Says(req'[q], "done", r.op, r.ids, r.known, r.found, r.answer, v)
      BY <2>2, <3>1, <3>2, ToldSays, LiteralsAre
    <3>4. r.at \notin {"idle", "done"}
      BY <2>1, <2>4
    <3>5. q \in Uploads => UploadMay(q, "done", r.op, r.answer, v)
      <4>1. q \in Uploads => r.status \in {0, 502}
        BY <2>1, <3>4, UploadHas DEF UploadInStep
      <4> QED
        BY <3>1, <3>2, <4>1 DEF UploadMay
    <3>6. q \in Reads => ReadMay("done", r.op, r.ids, r.known, r.found, r.answer, v)
      BY <2>1, <3>1, <3>2, ReadStands DEF ReadMay, Gain
    <3> QED
      BY <3>3, <3>5, <3>6, UploadSettled, ReadSettled DEF Says
  <2>5. CASE /\ q \notin cut /\ r.at # "done" /\ r.status = 0
             /\ req'[q] = [r EXCEPT !.status = 502]
    <3>1. Says(req'[q], r.at, r.op, r.ids, r.known, r.found, r.answer, 502)
      BY <2>2, <2>5, Answered, LiteralsAre
    <3>2. q \in Uploads => UploadMay(q, r.at, r.op, r.answer, 502)
      <4>1. q \notin gaining
        BY <2>5
      <4>2. (q \in objects' <=> q \in objects) /\ (q \in rows' <=> q \in rows)
        BY <4>1 DEF Gain
      <4> QED
        BY <2>1, <2>5, <4>2, UploadHas DEF UploadInStep, UploadMay
    <3>3. q \in Reads => ReadMay(r.at, r.op, r.ids, r.known, r.found, r.answer, 502)
      BY <2>1, <2>5, ReadHas DEF ReadInStep, ReadMay, Gain
    <3> QED
      BY <3>1, <3>2, <3>3, UploadSettled, ReadSettled DEF Says
  <2>6. CASE q \notin cut /\ req'[q] = r
    BY <2>1, <2>2, <2>6, OthersKeep
  <2> QED
    BY <1>1, <2>1, <2>3, <2>4, <2>5, <2>6
<1>3. ReqTyped'
  <2>1. req' = [q \in Requests |-> req'[q]]
    BY DEF Collapse
  <2> QED
    BY <1>2, <2>1 DEF ReqTyped
<1>4. TypeOK'
  <2>1. gateway' \subseteq Gateways /\ faults' \in FaultSets
    BY DEF Collapse, InductiveInv, TypeOK
  <2> QED
    BY <1>3, <2>1 DEF ReqTyped, StoresTyped, TypeOK
<1> QED
  BY <1>2, <1>4 DEF InductiveInv, Requests, Gain

LEMMA StoreBreaksStreamKeeps ==
  ASSUME InductiveInv, NEW q \in Requests, StoreBreaksStream(q)
  PROVE  InductiveInv'
<1>1. /\ Collapse({q}, {})
      /\ \A p \in {q} : p \in Requests /\ req[p].at = "stream"
      /\ \A p \in {} : p \in Requests /\ req[p].at \notin {"idle", "done"}
      /\ \A p \in {} : p \in {} /\ p \in Uploads
      /\ UNCHANGED <<faults, stores, inst>>
  BY DEF StoreBreaksStream
<1>2. Gain({}) /\ StoresTyped'
  BY <1>1, TypeParts DEF Gain, stores, StoresTyped, InductiveInv
<1>3. inst' \in [Instances -> {"off", "head", "create", "up", "down"}] /\ faults' = faults
  BY <1>1 DEF InductiveInv, TypeOK
<1> QED
  BY <1>1, <1>2, <1>3, CollapseKeeps

LEMMA InstanceStopsKeeps ==
  ASSUME InductiveInv, NEW i \in Instances, InstanceStops(i)
  PROVE  InductiveInv'
<1> DEFINE here(stage) == {q \in Requests : req[q].i = i /\ req[q].at = stage}
           broken == {q \in here("stream") : req[q].gw \in gateway}
           cut == UNION {here(s) : s \in {"put", "save", "find", "get", "reply", "stream"}}
           gaining == here("put") \cup here("save")
<1>1. Collapse(broken, cut) /\ faults' = faults /\ bucket' = bucket /\ Becomes(i, "down")
  BY DEF InstanceStops
<1>2. PICK late \in SUBSET here("put") : objects' = objects \cup (IF bucket THEN late ELSE {})
  BY DEF InstanceStops
<1>3. PICK recorded \in SUBSET here("save") : rows' = rows \cup recorded
  BY DEF InstanceStops
<1>4. \A q \in broken : q \in Requests /\ req[q].at = "stream"
  OBVIOUS
<1>5. \A q \in cut : q \in Requests /\ req[q].at \notin {"idle", "done"}
  OBVIOUS
<1>6. \A q \in here("put") \cup here("save") : q \in Uploads
  BY ReadStands, EitherKind
<1>7. \A q \in gaining : q \in cut /\ q \in Uploads
  BY <1>6
<1>8. \A q \in here("save") : q \in objects
  BY <1>6, UploadStands
<1>9. StoresTyped /\ rows \subseteq objects
  BY TypeParts DEF InductiveInv
<1>10. Gain(gaining)
  BY <1>2, <1>3, <1>8, <1>9 DEF Gain
<1>11. StoresTyped'
  <2>1. late \subseteq Uploads /\ recorded \subseteq Uploads
    BY <1>2, <1>3, <1>6
  <2> QED
    BY <1>1, <1>2, <1>3, <1>9, <2>1 DEF StoresTyped
<1>12. inst' \in [Instances -> {"off", "head", "create", "up", "down"}]
  BY <1>1 DEF Becomes, InductiveInv, TypeOK
<1> HIDE DEF here, broken, cut, gaining
<1> QED
  BY <1>1, <1>4, <1>5, <1>7, <1>10, <1>11, <1>12, CollapseKeeps

LEMMA BootStepsKeep ==
  ASSUME InductiveInv, NEW i \in Instances, StartInstance(i) \/ BootStep(i)
  PROVE  InductiveInv'
<1>1. /\ UNCHANGED <<faults, objects, rows, gateway, req>>
      /\ bucket' \in BOOLEAN
      /\ inst' \in [Instances -> {"off", "head", "create", "up", "down"}]
  BY DEF StartInstance, BootStep, HeadBucket, CreateBucket, Becomes, stores, InductiveInv, TypeOK
<1>2. TypeOK'
  BY <1>1 DEF InductiveInv, TypeOK
<1> QED
  BY <1>1, <1>2 DEF InductiveInv, UploadInStep, ReadInStep

-----------------------------------------------------------------------------
(* The invariant is inductive. *)

LEMMA RequestStepsKeep ==
  ASSUME InductiveInv, NEW q \in Requests,
         \/ ServiceStep(q) \/ PutFails(q) \/ GetFails(q) \/ SaveFails(q) \/ FindFails(q)
         \/ StoreBreaksStream(q)
  PROVE  InductiveInv'
<1>1. CASE NobodyListens(q) \/ Reply(q)
  BY <1>1, ToldKeeps
<1>2. CASE \E i \in Instances : Begin(q, i)
  BY <1>2, BeginKeeps
<1>3. CASE PutObject(q) \/ PutFails(q) \/ SaveRow(q) \/ SaveFails(q)
  BY <1>3, SavingKeeps
<1>4. CASE FindRows(q) \/ FindFails(q) \/ GetFails(q)
  BY <1>4, ReadingKeeps
<1>5. CASE GetObject(q) \/ StreamEnds(q)
  BY <1>5, StreamKeeps
<1>6. CASE StoreBreaksStream(q)
  BY <1>6, StoreBreaksStreamKeeps
<1> QED
  BY <1>1, <1>2, <1>3, <1>4, <1>5, <1>6 DEF ServiceStep

LEMMA NextKeeps ==
  ASSUME InductiveInv, [Next]_vars
  PROVE  InductiveInv'
<1>1. ASSUME NEW i \in Instances, StartInstance(i) \/ BootStep(i) \/ InstanceStops(i)
      PROVE  InductiveInv'
  BY <1>1, BootStepsKeep, InstanceStopsKeeps
<1>2. ASSUME NEW q \in Uploads, NEW g \in Gateways, NEW file \in Files, ReceiveUpload(q, g, file)
      PROVE  InductiveInv'
  BY <1>2, ReceiveUploadKeeps
<1>3. ASSUME NEW q \in Reads, NEW g \in Gateways \cup {None}, NEW ids \in SUBSET Uploads,
             NEW op \in {"record", "content", "lookup"}, ReceiveRead(q, g, op, ids)
      PROVE  InductiveInv'
  BY <1>3, ReceiveReadKeeps
<1>4. ASSUME NEW q \in Requests,
             \/ ServiceStep(q) \/ PutFails(q) \/ GetFails(q) \/ SaveFails(q) \/ FindFails(q)
             \/ StoreBreaksStream(q)
      PROVE  InductiveInv'
  BY <1>4, RequestStepsKeep
<1>5. CASE Quiet \/ UNCHANGED vars
  BY <1>5 DEF Quiet, vars, stores, InductiveInv, TypeOK, UploadInStep, ReadInStep
<1> QED
  BY <1>1, <1>2, <1>3, <1>4, <1>5 DEF Next

LEMMA InitEstablishes == Init => InductiveInv
<1> SUFFICES ASSUME Init PROVE InductiveInv
  OBVIOUS
<1>1. ASSUME NEW q \in Requests
      PROVE  Says(req[q], "idle", "none", {}, {}, {}, 0, 0)
  <2> DEFINE f == [at |-> "idle", gw |-> None, i |-> None, op |-> "none", file |-> None,
                   ids |-> {}, known |-> {}, found |-> {}, answer |-> 0, status |-> 0]
  <2>1. req[q] = f
    BY DEF Init
  <2>2. f \in RequestStates
    BY DEF RequestStates, Stages, Statuses
  <2> QED
    BY <2>1, <2>2 DEF Says
<1>2. TypeOK
  <2>1. ReqTyped
    <3>1. req = [q \in Requests |-> req[q]]
      BY DEF Init
    <3> QED
      BY <1>1, <3>1 DEF ReqTyped, Says
  <2> QED
    BY <2>1, TypeParts DEF Init, StoresTyped, ProcessesTyped
<1>3. ASSUME NEW u \in Uploads PROVE UploadInStep(u)
  BY <1>1, <1>3 DEF Requests, Says, UploadInStep, Init
<1>4. ASSUME NEW q \in Reads PROVE ReadInStep(q)
  BY <1>1, <1>4 DEF Requests, Says, ReadInStep, Init
<1> QED
  BY <1>2, <1>3, <1>4 DEF InductiveInv, Init

-----------------------------------------------------------------------------

(***************************************************************************)
(* Uploads, reads, objects and rows agree at every await of both services, *)
(* with any number of each and whatever stops or fails                     *)
(* (media-app.service.ts:40-114).                                          *)
(***************************************************************************)
THEOREM Invariance == Spec => []InductiveInv
<1>1. ASSUME InductiveInv, [Next]_vars PROVE InductiveInv'
  BY <1>1, NextKeeps
<1> QED
  BY <1>1, InitEstablishes, PTL DEF Spec

(***************************************************************************)
(* No row without its object; an object without its row is still being     *)
(* saved or its client was told an error (media-app.service.ts:54-69).     *)
(***************************************************************************)
THEOREM RowsHaveObjects == Spec => []RecordsBacked
<1>1. ASSUME InductiveInv PROVE RecordsBacked
  <2>1. objects \subseteq Uploads
    BY <1>1 DEF InductiveInv, TypeOK
  <2> QED
    BY <1>1, <2>1 DEF InductiveInv, UploadInStep, RecordsBacked
<1> QED
  BY <1>1, Invariance, PTL

(***************************************************************************)
(* An id that was given out is good for every read that starts afterwards, *)
(* unless the read fails with 500 (media-app.service.ts:71, 74-114).       *)
(***************************************************************************)
THEOREM GivenOutIsReadable == Spec => []CreatedIsReadable
<1>1. ASSUME InductiveInv PROVE CreatedIsReadable
  BY <1>1, PublishedHaveRows DEF InductiveInv, ReadInStep, CreatedIsReadable
<1> QED
  BY <1>1, Invariance, PTL

=============================================================================
