--------------------------- MODULE Launcher_proofs ---------------------------
(***************************************************************************)
(* Proofs about Launcher, for any number of commands, any contents of      *)
(* services.conf and any way of typing.                                    *)
(***************************************************************************)
EXTENDS Launcher, SequenceTheorems, FiniteSetTheorems, TLAPS

-----------------------------------------------------------------------------
(* Plans. *)

LEMMA ScaleIs ==
  ASSUME NEW file \in Confs
  PROVE  LoadServicesConf(file) \in [Keys -> Nat]
<1>1. \A k \in Keys : DefaultScale[k] \in Nat
  BY DEF DefaultScale
<1>2. \A k \in DOMAIN file : file[k] \in Int
  BY ConfsAreConfs
<1> QED
  BY <1>1, <1>2 DEF LoadServicesConf

(* Every planned service is one there is, and gets at least one container. *)
IsPlan(plan) ==
  /\ DOMAIN plan \subseteq Services
  /\ \A s \in DOMAIN plan : plan[s] \in Nat \ {0}

LEMMA PlanIs ==
  ASSUME NEW scale \in [Keys -> Nat]
  PROVE  /\ IsPlan(PlanFromConf(scale))
         /\ "loadtest" \in DOMAIN PlanFromConf(scale) =>
              scale["loadtest"] \in Nat \ {0} /\ PlanFromConf(scale)["loadtest"] = 1
<1> DEFINE on(k, names) == IF scale[k] > 0 THEN names ELSE {}
           planned ==
             {k \in Scalable : scale[k] > 0}
             \cup on("obs", ObsCoreServices \cup on("postgres", {"postgres-exporter"})
                                            \cup on("redis", {"redis-exporter"}))
             \cup on("gateway", {"gateway-lb"} \cup on("loadtest", {"loadtest"}))
             \cup on("user-service", {"user-migrate"})
             \cup on("media-service", {"media-migrate"})
<1>1. PlanFromConf(scale) = [s \in planned |-> IF s \in Scalable THEN scale[s] ELSE 1]
  BY DEF PlanFromConf
<1>2. planned \subseteq Services
  BY DEF Services, Migrations, Exporters
<1>3. \A s \in planned \cap Scalable : scale[s] \in Nat \ {0}
  <2>1. \A s \in Scalable : s \notin ObsCoreServices \cup Migrations \cup Exporters \cup {"gateway-lb", "loadtest"}
    BY DEF Scalable, CoreInfraServices, JsServices, PythonServices, ObsCoreServices, Migrations, Exporters
  <2>2. Scalable \subseteq Keys
    BY DEF Keys
  <2> QED
    BY <2>1, <2>2 DEF Migrations, Exporters
<1>4. "loadtest" \in planned => scale["loadtest"] \in Nat \ {0}
  <2>1. "loadtest" \notin Scalable \cup ObsCoreServices /\ "loadtest" \in Keys
    BY DEF Scalable, Keys, CoreInfraServices, JsServices, PythonServices, ObsCoreServices
  <2> QED
    BY <2>1
<1>5. "loadtest" \notin Scalable
  BY DEF Scalable, CoreInfraServices, JsServices, PythonServices
<1> HIDE DEF planned
<1> QED
  BY <1>1, <1>2, <1>3, <1>4, <1>5 DEF IsPlan

LEMMA NoNames == DOMAIN <<>> = {}
<1>1. <<>> \in Seq({}) /\ Len(<<>>) = 0
  OBVIOUS
<1> QED
  BY <1>1, LenProperties

LEMMA PlanOfIs ==
  ASSUME NEW r \in CommandStates
  PROVE  /\ IsPlan(PlanOf(r))
         /\ "loadtest" \in DOMAIN PlanOf(r) => PlanOf(r)["loadtest"] = 1
<1>1. CASE r.scale = None
  BY <1>1, NoNames DEF PlanOf, IsPlan
<1>2. CASE r.scale # None
  <2>1. PICK file \in Confs : r.scale = LoadServicesConf(file)
    BY <1>2 DEF CommandStates
  <2> QED
    BY <1>2, <2>1, ScaleIs, PlanIs DEF PlanOf
<1> QED
  BY <1>1, <1>2

-----------------------------------------------------------------------------
(* Calls. *)

CallsOf(plan) ==
  [ do : {"build", "up", "attach", "recreate", "run", "down"}, dev : BOOLEAN,
    names : SUBSET Services, counts : {<<>>, plan} ]

LEMMA IfIs ==
  ASSUME NEW S, NEW call \in S, NEW condition \in BOOLEAN
  PROVE  /\ If(condition, call) \in Seq(S)
         /\ Len(If(condition, call)) = (IF condition THEN 1 ELSE 0)
         /\ condition => If(condition, call)[1] = call
  BY DEF If

LEMMA CallIs ==
  ASSUME NEW plan, NEW dev \in BOOLEAN, NEW names \in SUBSET Services
  PROVE  /\ Up(dev, names, plan) \in CallsOf(plan)
         /\ Up(dev, names, <<>>) \in CallsOf(plan)
         /\ [Up(dev, names, plan) EXCEPT !.do = "attach"] \in CallsOf(plan)
         /\ Build(dev, names) \in CallsOf(plan)
  BY DEF Up, Build, CallsOf

LEMMA OtherCallIs ==
  ASSUME NEW plan
  PROVE  /\ \A dev \in BOOLEAN : Recreate(dev, "loadtest") \in CallsOf(plan)
         /\ RunAlone("loadtest") \in CallsOf(plan)
         /\ Down \in CallsOf(plan)
<1>1. {"loadtest"} \subseteq Services
  BY DEF Services
<1> QED
  BY <1>1 DEF Recreate, RunAlone, Down, CallsOf

LEMMA BuildsAre ==
  ASSUME NEW plan, IsPlan(plan), NEW dev \in BOOLEAN
  PROVE  /\ Builds(dev, DOMAIN plan) \in Seq(CallsOf(plan))
         /\ Len(Builds(dev, DOMAIN plan)) \in 0..2
         /\ \A i \in 1..Len(Builds(dev, DOMAIN plan)) : Builds(dev, DOMAIN plan)[i].do = "build"
<1> DEFINE gateway == Build(dev, {"gateway"})
           python == Build(dev, DOMAIN plan \cap PythonServices)
           js == DOMAIN plan \cap (JsServices \cup Migrations) # {}
           py == DOMAIN plan \cap PythonServices # {}
<1>1. gateway \in CallsOf(plan) /\ python \in CallsOf(plan)
  BY CallIs DEF IsPlan, Services, Scalable, JsServices, PythonServices
<1>2. gateway.do = "build" /\ python.do = "build"
  BY DEF Build
<1>3. Builds(dev, DOMAIN plan) = If(js, gateway) \o If(py, python)
  BY DEF Builds
<1> HIDE DEF gateway, python, js, py
<1>4. js \in BOOLEAN /\ py \in BOOLEAN
  BY DEF js, py
<1>5. /\ If(js, gateway) \in Seq(CallsOf(plan)) /\ If(py, python) \in Seq(CallsOf(plan))
      /\ Len(If(js, gateway)) = (IF js THEN 1 ELSE 0) /\ Len(If(py, python)) = (IF py THEN 1 ELSE 0)
      /\ js => If(js, gateway)[1] = gateway
      /\ py => If(py, python)[1] = python
  BY <1>1, <1>4, IfIs
<1>6. PICK a \in Seq(CallsOf(plan)), b \in Seq(CallsOf(plan)) : a = If(js, gateway) /\ b = If(py, python)
  BY <1>5
<1>7. /\ Len(a) \in 0..1 /\ Len(b) \in 0..1
      /\ \A i \in 1..Len(a) : a[i].do = "build"
      /\ \A i \in 1..Len(b) : b[i].do = "build"
  BY <1>2, <1>5, <1>6
<1>8. /\ a \o b \in Seq(CallsOf(plan)) /\ Len(a \o b) = Len(a) + Len(b)
      /\ \A i \in 1..(Len(a) + Len(b)) : (a \o b)[i] = IF i <= Len(a) THEN a[i] ELSE b[i - Len(a)]
  BY ConcatProperties
<1>9. \A i \in 1..(Len(a) + Len(b)) : (a \o b)[i].do = "build"
  <2>1. TAKE i \in 1..(Len(a) + Len(b))
  <2>2. CASE i <= Len(a)
    BY <1>7, <1>8, <2>2
  <2>3. CASE ~(i <= Len(a))
    <3>1. i - Len(a) \in 1..Len(b)
      BY <1>7, <2>3
    <3> QED
      BY <1>7, <1>8, <2>3, <3>1
  <2> QED
    BY <2>2, <2>3
<1>10. Builds(dev, DOMAIN plan) = a \o b /\ Len(a) + Len(b) \in 0..2
  BY <1>3, <1>6, <1>7
<1> QED
  BY <1>8, <1>9, <1>10

(* The number of the call that starts the services. *)
LEMMA UpAtIs ==
  ASSUME NEW plan, IsPlan(plan)
  PROVE  UpAt(plan) \in 1..3
<1>1. PICK n \in 0..2 : n = Len(Builds(FALSE, DOMAIN plan))
  BY BuildsAre
<1>2. n + 1 \in 1..3
  OBVIOUS
<1> QED
  BY <1>1, <1>2 DEF UpAt

LEMMA CmdUpIs ==
  ASSUME NEW plan, IsPlan(plan), DOMAIN plan # {}
  PROVE  /\ CmdUp(plan) \in Seq(CallsOf(plan))
         /\ UpAt(plan) \in 1..3
         /\ Len(CmdUp(plan)) = IF "loadtest" \in DOMAIN plan THEN UpAt(plan) + 1 ELSE UpAt(plan)
         /\ \A i \in 1..(UpAt(plan) - 1) : CmdUp(plan)[i].do = "build"
         /\ CmdUp(plan)[UpAt(plan)] = Up(FALSE, DOMAIN plan \ {"loadtest"}, plan)
         /\ "loadtest" \in DOMAIN plan =>
              CmdUp(plan)[UpAt(plan) + 1] = Recreate(FALSE, "loadtest")
<1>1. PICK a \in Seq(CallsOf(plan)) : a = Builds(FALSE, DOMAIN plan)
  BY BuildsAre
<1>2. PICK u \in CallsOf(plan) : u = Up(FALSE, DOMAIN plan \ {"loadtest"}, plan)
  BY CallIs DEF IsPlan
<1>3. PICK t \in Seq(CallsOf(plan)) : t = If("loadtest" \in DOMAIN plan, Recreate(FALSE, "loadtest"))
  <2>1. Recreate(FALSE, "loadtest") \in CallsOf(plan)
    BY OtherCallIs
  <2>2. If("loadtest" \in DOMAIN plan, Recreate(FALSE, "loadtest")) \in Seq(CallsOf(plan))
    <3>1. PICK call \in CallsOf(plan) : call = Recreate(FALSE, "loadtest")
      BY <2>1
    <3>2. <<call>> \in Seq(CallsOf(plan)) /\ <<>> \in Seq(CallsOf(plan))
      OBVIOUS
    <3> QED
      BY <3>1, <3>2 DEF If
  <2> QED
    BY <2>2
<1>4. /\ Len(a) \in 0..2 /\ \A i \in 1..Len(a) : a[i].do = "build"
  BY <1>1, BuildsAre
<1>5. /\ Len(t) = (IF "loadtest" \in DOMAIN plan THEN 1 ELSE 0)
      /\ "loadtest" \in DOMAIN plan => t[1] = Recreate(FALSE, "loadtest")
  <2>1. CASE "loadtest" \in DOMAIN plan
    BY <1>3, <2>1 DEF If
  <2>2. CASE "loadtest" \notin DOMAIN plan
    BY <1>3, <2>2 DEF If
  <2> QED
    BY <2>1, <2>2
<1>6. PICK v \in Seq(CallsOf(plan)) : v = <<u>> /\ Len(v) = 1 /\ v[1] = u
  <2>1. <<u>> \in Seq(CallsOf(plan)) /\ Len(<<u>>) = 1 /\ <<u>>[1] = u
    OBVIOUS
  <2> QED
    BY <2>1
<1>7. CmdUp(plan) = (a \o v) \o t
  BY <1>1, <1>2, <1>3, <1>6 DEF CmdUp
<1>8. /\ a \o v \in Seq(CallsOf(plan)) /\ Len(a \o v) = Len(a) + 1
      /\ \A i \in 1..(Len(a) + 1) : (a \o v)[i] = IF i <= Len(a) THEN a[i] ELSE v[i - Len(a)]
  BY <1>6, ConcatProperties
<1>9. PICK w \in Seq(CallsOf(plan)) : w = a \o v
  BY <1>8
<1>10. /\ Len(w) = Len(a) + 1
       /\ \A i \in 1..Len(a) : w[i] = a[i]
       /\ w[Len(a) + 1] = u
  BY <1>4, <1>6, <1>8, <1>9
<1>11. /\ w \o t \in Seq(CallsOf(plan)) /\ Len(w \o t) = Len(w) + Len(t)
       /\ \A i \in 1..(Len(w) + Len(t)) : (w \o t)[i] = IF i <= Len(w) THEN w[i] ELSE t[i - Len(w)]
  BY ConcatProperties
<1>12. UpAt(plan) = Len(a) + 1
  BY <1>1 DEF UpAt
<1>13. \A i \in 1..Len(a) : (w \o t)[i].do = "build"
  <2>1. \A i \in 1..Len(a) : (w \o t)[i] = a[i]
    BY <1>4, <1>5, <1>10, <1>11
  <2> QED
    BY <1>4, <2>1
<1>14. (w \o t)[Len(a) + 1] = u
  BY <1>4, <1>5, <1>10, <1>11
<1>15. "loadtest" \in DOMAIN plan => (w \o t)[Len(a) + 2] = Recreate(FALSE, "loadtest")
  <2>1. SUFFICES ASSUME "loadtest" \in DOMAIN plan PROVE (w \o t)[Len(a) + 2] = t[1]
    BY <1>5
  <2>2. Len(a) + 2 \in 1..(Len(w) + Len(t)) /\ ~(Len(a) + 2 <= Len(w)) /\ Len(a) + 2 - Len(w) = 1
    BY <1>4, <1>5, <1>10, <2>1
  <2> QED
    BY <1>11, <2>2
<1>16. UpAt(plan) \in 1..3 /\ Len(w \o t) = IF "loadtest" \in DOMAIN plan THEN UpAt(plan) + 1 ELSE UpAt(plan)
  <2>1. Len(w \o t) = Len(a) + 1 + Len(t)
    BY <1>10, <1>11
  <2>2. Len(a) \in 0..2
    BY <1>4
  <2>3. UpAt(plan) \in 1..3
    <3>1. PICK n \in 0..2 : n = Len(a)
      BY <2>2
    <3>2. n + 1 \in 1..3
      OBVIOUS
    <3> QED
      BY <1>12, <3>1, <3>2
  <2>4. CASE "loadtest" \in DOMAIN plan
    <3>1. Len(t) = 1
      BY <1>5, <2>4
    <3>2. Len(w \o t) = UpAt(plan) + 1
      BY <1>12, <2>1, <2>2, <3>1
    <3> QED
      BY <2>3, <2>4, <3>2
  <2>5. CASE "loadtest" \notin DOMAIN plan
    <3>1. Len(t) = 0
      BY <1>5, <2>5
    <3>2. Len(w \o t) = UpAt(plan)
      BY <1>12, <2>1, <2>2, <3>1
    <3> QED
      BY <2>3, <2>5, <3>2
  <2> QED
    BY <2>4, <2>5
<1> QED
  <2>1. CmdUp(plan) = w \o t
    BY <1>7, <1>9
  <2>2. UpAt(plan) - 1 = Len(a) /\ UpAt(plan) + 1 = Len(a) + 2
    BY <1>4, <1>12
  <2> QED
    BY <1>2, <1>11, <1>12, <1>13, <1>14, <1>15, <1>16, <2>1, <2>2

LEMMA FourIs ==
  ASSUME NEW S, NEW a \in Seq(S), NEW b \in Seq(S), NEW c \in Seq(S), NEW d \in Seq(S)
  PROVE  /\ ((a \o b) \o c) \o d \in Seq(S)
         /\ Len(((a \o b) \o c) \o d) = Len(a) + Len(b) + Len(c) + Len(d)
<1>1. PICK ab \in Seq(S) : ab = a \o b /\ Len(ab) = Len(a) + Len(b)
  BY ConcatProperties
<1>2. PICK abc \in Seq(S) : abc = ab \o c /\ Len(abc) = Len(ab) + Len(c)
  BY ConcatProperties
<1>3. abc \o d \in Seq(S) /\ Len(abc \o d) = Len(abc) + Len(d)
  BY ConcatProperties
<1> QED
  BY <1>1, <1>2, <1>3

LEMMA CmdDevIs ==
  ASSUME NEW plan, IsPlan(plan)
  PROVE  CmdDev(plan) \in Seq(CallsOf(plan)) /\ Len(CmdDev(plan)) \in 0..5
<1> DEFINE foreground == DOMAIN plan \cap JsServices
           detached == DOMAIN plan \ (foreground \cup {"loadtest"})
           up == Up(TRUE, detached, plan)
           again == Recreate(TRUE, "loadtest")
           attach == [Up(TRUE, foreground, plan) EXCEPT !.do = "attach"]
           some == detached # {}
           k6 == "loadtest" \in DOMAIN plan
           js == foreground # {}
<1>1. up \in CallsOf(plan) /\ again \in CallsOf(plan) /\ attach \in CallsOf(plan)
  <2>1. foreground \subseteq Services /\ detached \subseteq Services
    BY DEF IsPlan
  <2> QED
    BY <2>1, CallIs, OtherCallIs
<1>2. CmdDev(plan) = ((Builds(TRUE, DOMAIN plan) \o If(some, up)) \o If(k6, again)) \o If(js, attach)
  BY DEF CmdDev
<1>3. some \in BOOLEAN /\ k6 \in BOOLEAN /\ js \in BOOLEAN
  OBVIOUS
<1> HIDE DEF up, again, attach, some, k6, js
<1>4. PICK a \in Seq(CallsOf(plan)) : a = Builds(TRUE, DOMAIN plan) /\ Len(a) \in 0..2
  BY BuildsAre
<1>5. PICK b \in Seq(CallsOf(plan)) : b = If(some, up) /\ Len(b) \in 0..1
  BY <1>1, <1>3, IfIs
<1>6. PICK c \in Seq(CallsOf(plan)) : c = If(k6, again) /\ Len(c) \in 0..1
  BY <1>1, <1>3, IfIs
<1>7. PICK d \in Seq(CallsOf(plan)) : d = If(js, attach) /\ Len(d) \in 0..1
  BY <1>1, <1>3, IfIs
<1>8. CmdDev(plan) = ((a \o b) \o c) \o d
  BY <1>2, <1>4, <1>5, <1>6, <1>7
<1>9. /\ ((a \o b) \o c) \o d \in Seq(CallsOf(plan))
      /\ Len(((a \o b) \o c) \o d) = Len(a) + Len(b) + Len(c) + Len(d)
  BY FourIs
<1>10. PICK i \in 0..2, j \in 0..1, k \in 0..1, l \in 0..1 :
         i = Len(a) /\ j = Len(b) /\ k = Len(c) /\ l = Len(d)
  BY <1>4, <1>5, <1>6, <1>7
<1>11. i + j + k + l \in 0..5
  OBVIOUS
<1> QED
  BY <1>8, <1>9, <1>10, <1>11

LEMMA OneCallIs ==
  ASSUME NEW S, NEW call \in S
  PROVE  <<call>> \in Seq(S) /\ Len(<<call>>) = 1 /\ <<call>>[1] = call
OBVIOUS

LEMMA CallsAre ==
  ASSUME NEW plan, IsPlan(plan), NEW op
  PROVE  Calls(op, plan) \in Seq(CallsOf(plan)) /\ Len(Calls(op, plan)) \in 0..5
<1>1. CASE op = "up"
  <2>1. Calls(op, plan) = CmdUp(plan)
    BY <1>1 DEF Calls
  <2>2. CASE DOMAIN plan # {}
    <3>1. PICK n \in 1..3 : n = UpAt(plan)
      BY <2>2, CmdUpIs
    <3>2. Len(CmdUp(plan)) = n \/ Len(CmdUp(plan)) = n + 1
      BY <2>2, <3>1, CmdUpIs
    <3>3. n \in 0..5 /\ n + 1 \in 0..5
      OBVIOUS
    <3> QED
      BY <2>1, <2>2, <3>2, <3>3, CmdUpIs
  <2>3. CASE DOMAIN plan = {}
    <3>1. CmdUp(plan) = <<>>
      BY <2>3 DEF CmdUp
    <3>2. <<>> \in Seq(CallsOf(plan)) /\ Len(<<>>) \in 0..5
      OBVIOUS
    <3> QED
      BY <2>1, <3>1, <3>2
  <2> QED
    BY <2>2, <2>3
<1>2. CASE op = "dev"
  BY <1>2, CmdDevIs DEF Calls
<1>3. CASE op \in {"infra", "obs", "loadtest", "down", "build"}
  <2>1. /\ CoreInfraServices \in SUBSET Services
        /\ ObsCoreServices \cup Exporters \in SUBSET Services
        /\ {"gateway"} \cup PythonServices \in SUBSET Services
    BY DEF Services, Scalable, JsServices
  <2>2. \E call \in CallsOf(plan) : Calls(op, plan) = <<call>>
    <3>1. CASE op = "infra"
      BY <2>1, <3>1, CallIs DEF Calls
    <3>2. CASE op = "obs"
      BY <2>1, <3>2, CallIs DEF Calls
    <3>3. CASE op = "loadtest"
      BY <3>3, OtherCallIs DEF Calls, CmdLoadtest
    <3>4. CASE op = "down"
      BY <3>4, OtherCallIs DEF Calls
    <3>5. CASE op = "build"
      BY <2>1, <3>5, CallIs DEF Calls
    <3> QED
      BY <1>3, <3>1, <3>2, <3>3, <3>4, <3>5
  <2> QED
    BY <2>2, OneCallIs
<1>4. CASE op \notin {"up", "dev", "infra", "obs", "loadtest", "down", "build"}
  <2>1. Calls(op, plan) = <<>>
    BY <1>4 DEF Calls
  <2>2. <<>> \in Seq(CallsOf(plan)) /\ Len(<<>>) \in 0..5
    OBVIOUS
  <2> QED
    BY <2>1, <2>2
<1> QED
  BY <1>1, <1>2, <1>3, <1>4

-----------------------------------------------------------------------------
(* What a call does. *)

LEMMA NamedAreStarted ==
  ASSUME NEW names
  PROVE  names \subseteq WithDependencies(names)
  BY DEF WithDependencies

LEMMA ClosedSetsStay ==
  ASSUME NEW S, NEW names \in SUBSET S, \A s \in S : DependsOn(s) \subseteq S
  PROVE  WithDependencies(names) \subseteq S
<1> DEFINE More(set) == set \cup UNION {DependsOn(s) : s \in set}
<1>1. \A set \in SUBSET S : More(set) \in SUBSET S
  OBVIOUS
<1>2. WithDependencies(names) = More(More(More(names)))
  BY DEF WithDependencies
<1> HIDE DEF More
<1> QED
  BY <1>1, <1>2

(* What the load test needs, and what no application is part of. *)
BehindLoadtest == {"loadtest", "gateway-lb", "gateway"} \cup CoreInfraServices
Beneath == CoreInfraServices \cup ObsCoreServices \cup Exporters

LEMMA BehindLoadtestIs == WithDependencies({"loadtest"}) \subseteq BehindLoadtest
<1>1. \A s \in BehindLoadtest : DependsOn(s) \subseteq BehindLoadtest
  BY DEF BehindLoadtest, DependsOn, CoreInfraServices, Migrations
<1>2. {"loadtest"} \in SUBSET BehindLoadtest
  BY DEF BehindLoadtest
<1> QED
  BY <1>1, <1>2, ClosedSetsStay

LEMMA BeneathIs ==
  ASSUME NEW names \in SUBSET Beneath
  PROVE  WithDependencies(names) \cap Overridden = {}
<1>1. \A s \in Beneath : DependsOn(s) \subseteq Beneath
  BY DEF Beneath, DependsOn, CoreInfraServices, ObsCoreServices, Exporters, Migrations
<1>2. Beneath \cap Overridden = {}
  BY DEF Beneath, Overridden, CoreInfraServices, ObsCoreServices, Exporters,
         JsServices, PythonServices, Migrations
<1> QED
  BY <1>1, <1>2, ClosedSetsStay

LEMMA KeysLoadedAre ==
  ASSUME NEW new, Becomes(new)
  PROVE  cont' = new /\ keys' \subseteq keys \cup {keyFile}
  BY DEF Becomes, KeysLoaded

Containers == [Services -> [n : Nat, dev : BOOLEAN]]

(* What starting does to one service. *)
StartsAs(call, s) ==
  /\ s \notin WithDependencies(call.names) => cont'[s] = cont[s]
  /\ s \in WithDependencies(call.names) =>
       /\ cont'[s].dev = (call.dev /\ s \in Overridden)
       /\ s \in call.names /\ s \in DOMAIN call.counts => cont'[s].n = call.counts[s]
       /\ s \in call.names /\ s \notin DOMAIN call.counts => cont'[s].n = 1
       /\ s \notin call.names => cont'[s].n \in {cont[s].n, 1}

LEMMA EffectIs ==
  ASSUME TypeOK, NEW plan, IsPlan(plan), NEW call \in CallsOf(plan), TakesEffect(call)
  PROVE  /\ cont' \in Containers
         /\ keys' \subseteq keys \cup {keyFile}
         /\ call.do \in {"build", "run"} => cont' = cont
         /\ call.do \in {"up", "attach", "recreate"} => \A s \in Services : StartsAs(call, s)
<1> USE DEF Containers
<1>1. cont \in Containers
  BY DEF TypeOK
<1>2. CASE call.do \in {"build", "run"}
  BY <1>1, <1>2 DEF TakesEffect, containers
<1>3. CASE call.do = "down"
  <2>1. Becomes([s \in Services |-> [n |-> 0, dev |-> FALSE]])
    BY <1>3 DEF TakesEffect
  <2>2. [s \in Services |-> [n |-> 0, dev |-> FALSE]] \in Containers
    OBVIOUS
  <2> QED
    BY <1>3, <2>1, <2>2, KeysLoadedAre
<1>4. CASE call.do \in {"up", "attach", "recreate"}
  <2> DEFINE started == WithDependencies(call.names)
             new(keep) == [s \in Services |->
               IF s \in started
               THEN [n |-> Number(call, s, keep), dev |-> call.dev /\ s \in Overridden]
               ELSE cont[s]]
  <2>1. PICK keep \in BOOLEAN : Becomes(new(keep))
    BY <1>4 DEF TakesEffect
  <2>2. cont' = new(keep) /\ keys' \subseteq keys \cup {keyFile}
    BY <2>1, KeysLoadedAre
  <2>3. ASSUME NEW s \in Services
        PROVE  /\ Number(call, s, keep) \in Nat
               /\ s \in call.names /\ s \in DOMAIN call.counts => Number(call, s, keep) = call.counts[s]
               /\ s \in call.names /\ s \notin DOMAIN call.counts => Number(call, s, keep) = 1
               /\ s \notin call.names => Number(call, s, keep) \in {cont[s].n, 1}
    <3>1. cont[s].n \in Nat
      BY <1>1
    <3>2. s \in DOMAIN call.counts => call.counts[s] \in Nat
      BY NoNames DEF CallsOf, IsPlan
    <3> QED
      BY <3>1, <3>2 DEF Number
  <2>4. call.dev \in BOOLEAN
    BY DEF CallsOf
  <2>5. cont' \in Containers
    BY <1>1, <2>2, <2>3, <2>4
  <2>6. ASSUME NEW s \in Services PROVE StartsAs(call, s)
    BY <2>2, <2>3 DEF StartsAs
  <2> QED
    BY <1>4, <2>2, <2>5, <2>6
<1> QED
  BY <1>2, <1>3, <1>4 DEF CallsOf

-----------------------------------------------------------------------------
(* Records of commands. *)

(* What holds of a record whatever its position. *)
Grounded(r) ==
  /\ r.said => r.op = "up"
  /\ r.op \notin {"up", "dev"} => r.scale = None
  /\ r.op = "up" /\ r.vus = 0 /\ "loadtest" \in DOMAIN PlanOf(r) => r.scale["loadtest"] = 1

LEMMA GroundedIs ==
  ASSUME NEW r, CommandInStep(r)
  PROVE  Grounded(r)
  BY DEF CommandInStep, Grounded

LEMMA NoneIs == None \notin {"up", "dev", "infra", "obs", "loadtest", "auth:keys", "--force"}
  BY NoneIsNoCommand DEF AllOperations

LEMMA EndedIs ==
  ASSUME NEW r \in CommandStates, Grounded(r)
  PROVE  /\ Ended(r) \in CommandStates /\ CommandInStep(Ended(r))
         /\ Ended(r).at = "done" /\ Ended(r).said = r.said
         /\ r.op = "--force" => Ended(r).op = "--force"
         /\ r.said => Ended(r) = [r EXCEPT !.at = "done"]
<1>1. CASE r.said
  <2>1. PICK q \in CommandStates : q = [r EXCEPT !.at = "done"]
    BY DEF CommandStates
  <2>2. /\ q.at = "done" /\ q.said = r.said /\ q.op = r.op /\ q.scale = r.scale
        /\ q.vus = r.vus /\ q.step = r.step
    BY <2>1 DEF CommandStates
  <2>3. PlanOf(q) = PlanOf(r)
    BY <2>2 DEF PlanOf
  <2>4. CommandInStep(q)
    BY <1>1, <2>2, <2>3 DEF CommandInStep, Grounded
  <2>5. Ended(r) = q
    BY <1>1, <2>1 DEF Ended
  <2>6. r.op = "up"
    BY <1>1 DEF Grounded
  <2> QED
    BY <2>1, <2>2, <2>4, <2>5, <2>6
<1>2. CASE ~r.said
  <2> DEFINE op == IF r.op = "--force" THEN r.op ELSE None
  <2>1. PICK q : q = [r EXCEPT !.at = "done", !.vus = 0, !.scale = None, !.step = 1, !.k6 = 0,
                               !.alone = TRUE, !.op = IF @ = "--force" THEN @ ELSE None]
    OBVIOUS
  <2>2. Ended(r) = q
    BY <1>2, <2>1 DEF Ended
  <2>3. /\ q.at = "done" /\ q.said = r.said /\ q.scale = None /\ q.step = 1 /\ q.vus = 0
        /\ q.op = op
    BY <2>1 DEF CommandStates
  <2>4. q \in CommandStates
    <3>1. PICK e \in CommandStates : e = [r EXCEPT !.at = "done", !.vus = 0, !.scale = None]
      BY DEF CommandStates
    <3>2. PICK f \in CommandStates : f = [e EXCEPT !.step = 1, !.k6 = 0, !.alone = TRUE]
      <4>1. \A x \in CommandStates : [x EXCEPT !.step = 1] \in CommandStates
        BY DEF CommandStates
      <4>2. \A x \in CommandStates : [x EXCEPT !.k6 = 0, !.alone = TRUE] \in CommandStates
        BY DEF CommandStates
      <4> QED
        BY <4>1, <4>2
    <3>3. op \in AllOperations \cup {None}
      BY DEF CommandStates
    <3>4. q = [f EXCEPT !.op = op]
      BY <2>1, <3>1, <3>2 DEF CommandStates
    <3> HIDE DEF op
    <3> QED
      BY <3>3, <3>4 DEF CommandStates
  <2>5. CommandInStep(q)
    BY <1>2, <2>3, NoneIs DEF CommandInStep
  <2> QED
    BY <1>2, <2>2, <2>3, <2>4, <2>5
<1> QED
  BY <1>1, <1>2 DEF CommandStates

LEMMA DisturbedIs ==
  ASSUME NEW r \in CommandStates, CommandInStep(r)
  PROVE  /\ Disturbed(r) \in CommandStates /\ CommandInStep(Disturbed(r))
         /\ Disturbed(r).at = r.at /\ ~Disturbed(r).said
         /\ r.at = "run" => ~Disturbed(r).alone
         /\ r.at \notin {"idle", "done"} => Disturbed(r).op = r.op
         /\ r.op = "--force" => Disturbed(r).op = "--force"
<1>1. CASE r.at = "idle"
  <2>1. Disturbed(r) = r
    BY <1>1 DEF Disturbed
  <2> QED
    BY <1>1, <2>1 DEF CommandInStep
<1>2. CASE r.at = "done"
  <2>1. PICK q \in CommandStates : q = [r EXCEPT !.said = FALSE]
    BY DEF CommandStates
  <2>2. q.said = FALSE /\ q.op = r.op /\ q.scale = r.scale /\ q.vus = r.vus
    BY <2>1 DEF CommandStates
  <2>3. PlanOf(q) = PlanOf(r)
    BY <2>2 DEF PlanOf
  <2>4. Grounded(q)
    BY <2>2, <2>3, GroundedIs DEF Grounded
  <2>5. Disturbed(r) = Ended(q)
    BY <1>2, <2>1 DEF Disturbed
  <2> QED
    BY <1>2, <2>2, <2>4, <2>5, EndedIs
<1>3. CASE r.at \notin {"idle", "done"}
  <2>1. PICK q \in CommandStates : q = [r EXCEPT !.alone = FALSE]
    BY DEF CommandStates
  <2>2. /\ q.alone = FALSE /\ q.at = r.at /\ q.said = r.said /\ q.op = r.op
        /\ q.scale = r.scale /\ q.vus = r.vus /\ q.step = r.step
    BY <2>1 DEF CommandStates
  <2>3. PlanOf(q) = PlanOf(r)
    BY <2>2 DEF PlanOf
  <2>4. CommandInStep(q) /\ ~q.said
    BY <1>3, <2>2, <2>3 DEF CommandInStep
  <2>5. Disturbed(r) = q
    BY <1>3, <2>1 DEF Disturbed
  <2> QED
    BY <2>2, <2>4, <2>5
<1> QED
  BY <1>1, <1>2, <1>3

-----------------------------------------------------------------------------
(* Steps of a command that leave the containers alone. *)

(* Only the record of c changes. *)
Becoming(c, q) == \A d \in Commands : cmd'[d] = IF d = c THEN q ELSE cmd[d]

LEMMA FileStep ==
  ASSUME InductiveInv, NEW c \in Commands, NEW q \in CommandStates,
         cmd' \in [Commands -> CommandStates], Becoming(c, q),
         UNCHANGED <<manner, containers>>,
         envFile' \in ShellVus \cup {0, None}, keyFile' \in Commands \cup {None},
         keyFile # None => keyFile' # None,
         c \in InProgress \/ manner.overlap \/ InProgress = {},
         cmd[c].op = "--force" => q.op = "--force",
         CommandInStep(q), ~q.said, q.at = "run" => q.step = 1,
         q.at \in {"plan", "run", "attached"} => keyFile' # None,
         ~manner.overlap /\ q.at = "write" /\ q.op # "--force" => keyFile' = None,
         ~manner.overlap /\ q.op # "--force" /\ keys \subseteq {keyFile} => keys \subseteq {keyFile'}
  PROVE  InductiveInv'
<1>1. TypeOK'
  BY DEF InductiveInv, TypeOK, containers
<1>2. cmd'[c] = q /\ \A d \in Commands \ {c} : cmd'[d] = cmd[d]
  BY DEF Becoming
<1>3. manner' = manner /\ cont' = cont /\ keys' = keys
  BY DEF containers
<1>4. ~manner'.overlap => \A d, e \in InProgress' : d = e
  <2>1. SUFFICES ASSUME ~manner.overlap, NEW d \in InProgress', NEW e \in InProgress'
                 PROVE  d = e
    BY <1>3
  <2>2. \A f \in InProgress' : f = c \/ f \in InProgress
    BY <1>2 DEF InProgress
  <2> QED
    BY <2>1, <2>2 DEF InductiveInv
<1>5. ~manner'.overlap /\ (\A d \in Commands : cmd'[d].op # "--force") => keys' \subseteq {keyFile'}
  <2>1. SUFFICES ASSUME ~manner.overlap, \A d \in Commands : cmd'[d].op # "--force"
                 PROVE  keys \subseteq {keyFile'}
    BY <1>3
  <2>2. \A d \in Commands : cmd[d].op # "--force"
    BY <1>2, <2>1
  <2>3. q.op # "--force"
    BY <1>2, <2>1
  <2> QED
    BY <2>1, <2>2, <2>3 DEF InductiveInv
<1>6. ASSUME NEW d \in Commands
      PROVE  CommandInStep(cmd'[d]) /\ KeyInStep(d)' /\ StartedStands(d)'
  <2>1. CommandInStep(cmd[d]) /\ KeyInStep(d) /\ StartedStands(d)
    BY DEF InductiveInv
  <2>2. CASE d = c
    <3>1. CommandInStep(cmd'[d])
      BY <1>2, <2>2
    <3>2. KeyInStep(d)'
      BY <1>2, <1>3, <2>2 DEF KeyInStep
    <3>3. StartedStands(d)'
      <4>1. SUFFICES ASSUME q.at = "run", q.op = "up", q.step > UpAt(PlanOf(q)) PROVE FALSE
        BY <1>2, <2>2 DEF StartedStands
      <4>2. PICK n \in 1..3 : n = UpAt(PlanOf(q))
        BY UpAtIs, PlanOfIs
      <4>3. ~(1 > n)
        OBVIOUS
      <4> QED
        BY <4>1, <4>2, <4>3
    <3> QED
      BY <3>1, <3>2, <3>3
  <2>3. CASE d # c
    <3>1. cmd'[d] = cmd[d]
      BY <1>2, <2>3
    <3>2. KeyInStep(d)'
      <4>1. cmd[d].at = "write" /\ ~manner.overlap => FALSE
        <5>1. SUFFICES ASSUME cmd[d].at = "write", ~manner.overlap PROVE FALSE
          OBVIOUS
        <5>2. d \in InProgress
          BY <5>1 DEF InProgress
        <5> QED
          BY <2>3, <5>1, <5>2 DEF InductiveInv
      <4> QED
        BY <1>3, <2>1, <3>1, <4>1 DEF KeyInStep
    <3>3. StartedStands(d)'
      BY <1>3, <2>1, <3>1 DEF StartedStands
    <3> QED
      BY <2>1, <3>1, <3>2, <3>3
  <2> QED
    BY <2>2, <2>3
<1>7. UpMeansPlan'
  <2>1. ASSUME NEW d \in Commands, cmd'[d].said
        PROVE  d # c /\ cmd'[d] = cmd[d]
    BY <1>2, <2>1
  <2> QED
    BY <1>3, <2>1 DEF InductiveInv, UpMeansPlan
<1> QED
  BY <1>1, <1>4, <1>5, <1>6, <1>7 DEF InductiveInv

LEMMA InitEstablishes == Init => InductiveInv
<1> SUFFICES ASSUME Init PROVE InductiveInv
  OBVIOUS
<1>1. PICK r : r = [at |-> "idle", op |-> None, vus |-> 0, scale |-> None, step |-> 1,
                    k6 |-> 0, said |-> FALSE, alone |-> TRUE]
  OBVIOUS
<1>2. cmd = [c \in Commands |-> r]
  BY <1>1 DEF Init
<1>3. r \in CommandStates /\ r.at = "idle" /\ r.op = None /\ r.scale = None /\ r.step = 1 /\ ~r.said
  BY <1>1 DEF CommandStates
<1>4. TypeOK
  <2>1. [s \in Services |-> [n |-> 0, dev |-> FALSE]] \in [Services -> [n : Nat, dev : BOOLEAN]]
    OBVIOUS
  <2> QED
    BY <1>2, <1>3, <2>1 DEF Init, TypeOK
<1>5. InProgress = {}
  BY <1>2, <1>3 DEF InProgress
<1>6. \A c \in Commands : CommandInStep(cmd[c]) /\ KeyInStep(c) /\ StartedStands(c)
  BY <1>2, <1>3, NoneIs DEF CommandInStep, KeyInStep, StartedStands
<1>7. UpMeansPlan
  BY <1>2, <1>3 DEF UpMeansPlan
<1> QED
  BY <1>4, <1>5, <1>6, <1>7 DEF InductiveInv, Init

LEMMA TypeKeeps ==
  ASSUME InductiveInv, NEW c \in Commands, NEW op \in manner.ops, NEW vus \in ShellVus, Type(c, op, vus)
  PROVE  InductiveInv'
<1>1. PICK r \in CommandStates : r = cmd[c]
  BY DEF InductiveInv, TypeOK
<1>2. PICK q : q = [r EXCEPT !.op = op, !.vus = vus, !.at = IF OnlyKeys(op) THEN "key" ELSE "env"]
  OBVIOUS
<1>3. op \in AllOperations /\ vus \in Nat
  BY MannersKnown, VusAreNumbers DEF InductiveInv, TypeOK
<1>4. /\ q.op = op /\ q.vus = vus /\ q.at = (IF OnlyKeys(op) THEN "key" ELSE "env")
      /\ q.scale = r.scale /\ q.step = r.step /\ q.said = r.said
  BY <1>2 DEF CommandStates
<1>5. q \in CommandStates
  BY <1>2, <1>3 DEF CommandStates
<1>6. cmd' = [cmd EXCEPT ![c] = q]
  BY <1>1, <1>2 DEF Type
<1>7. cmd' \in [Commands -> CommandStates] /\ Becoming(c, q)
  BY <1>5, <1>6 DEF Becoming, InductiveInv, TypeOK
<1>8. r.at = "idle" /\ r.op = None /\ r.scale = None /\ r.step = 1 /\ ~r.said
  BY <1>1 DEF Type, InductiveInv, CommandInStep
<1>9. CommandInStep(q)
  <2>1. DOMAIN PlanOf(q) = {}
    BY <1>4, <1>8, NoNames DEF PlanOf
  <2> QED
    BY <1>4, <1>8, <2>1 DEF CommandInStep
<1>10. UNCHANGED <<manner, envFile, keyFile, containers>> /\ (manner.overlap \/ InProgress = {})
  BY DEF Type, files
<1>11. envFile \in ShellVus \cup {0, None} /\ keyFile \in Commands \cup {None}
  BY DEF InductiveInv, TypeOK
<1>12. cmd[c].op # "--force" /\ ~q.said /\ q.at \in {"key", "env"}
  BY <1>1, <1>4, <1>8, NoneIs
<1> QED
  BY <1>5, <1>7, <1>9, <1>10, <1>11, <1>12, FileStep

LEMMA EnsureEnvKeeps ==
  ASSUME InductiveInv, NEW c \in Commands, EnsureEnv(c)
  PROVE  InductiveInv'
<1>1. PICK r \in CommandStates : r = cmd[c]
  BY DEF InductiveInv, TypeOK
<1>2. PICK q : q = [r EXCEPT !.at = "key", !.vus = IF @ = 0 THEN envFile' ELSE @]
  OBVIOUS
<1>3. envFile' \in ShellVus \cup {0} /\ envFile' \in Nat
  BY VusAreNumbers DEF EnsureEnv, InductiveInv, TypeOK
<1>4. /\ q.at = "key" /\ q.op = r.op /\ q.scale = r.scale /\ q.step = r.step /\ q.said = r.said
  BY <1>2 DEF CommandStates
<1>5. q \in CommandStates
  BY <1>2, <1>3 DEF CommandStates
<1>6. cmd' = [cmd EXCEPT ![c] = q]
  BY <1>1, <1>2 DEF EnsureEnv
<1>7. cmd' \in [Commands -> CommandStates] /\ Becoming(c, q)
  BY <1>5, <1>6 DEF Becoming, InductiveInv, TypeOK
<1>8. r.at = "env" /\ r.scale = None /\ r.step = 1 /\ ~r.said
  BY <1>1 DEF EnsureEnv, InductiveInv, CommandInStep
<1>9. CommandInStep(q)
  <2>1. DOMAIN PlanOf(q) = {}
    BY <1>4, <1>8, NoNames DEF PlanOf
  <2> QED
    BY <1>4, <1>8, <2>1 DEF CommandInStep
<1>10. UNCHANGED <<manner, keyFile, containers>> /\ c \in InProgress
  BY <1>1, <1>8 DEF EnsureEnv, InProgress
<1>11. envFile' \in ShellVus \cup {0, None} /\ keyFile \in Commands \cup {None}
  BY <1>3 DEF InductiveInv, TypeOK
<1> QED
  BY <1>1, <1>4, <1>5, <1>7, <1>8, <1>9, <1>10, <1>11, FileStep

(* What AfterKey makes of the record of a command. *)
LEMMA AfterKeyIs ==
  ASSUME InductiveInv, NEW c \in Commands, cmd[c].at \in {"key", "write"}, AfterKey(c)
  PROVE  \E q \in CommandStates :
           /\ cmd' \in [Commands -> CommandStates] /\ Becoming(c, q)
           /\ CommandInStep(q) /\ ~q.said /\ q.at \in {"plan", "done"}
           /\ cmd[c].op = "--force" <=> q.op = "--force"
<1>1. PICK r \in CommandStates : r = cmd[c]
  BY DEF InductiveInv, TypeOK
<1>2. PICK q : q = IF OnlyKeys(r.op) THEN Ended(r) ELSE [r EXCEPT !.at = "plan"]
  OBVIOUS
<1>3. cmd' = [cmd EXCEPT ![c] = q]
  BY <1>1, <1>2 DEF AfterKey
<1>4. CommandInStep(r) /\ Grounded(r) /\ ~r.said /\ r.scale = None /\ r.step = 1
  BY <1>1, GroundedIs DEF InductiveInv, CommandInStep
<1>5. /\ q \in CommandStates /\ CommandInStep(q) /\ ~q.said /\ q.at \in {"plan", "done"}
      /\ r.op = "--force" <=> q.op = "--force"
  <2>1. CASE OnlyKeys(r.op)
    <3>1. q = Ended(r)
      BY <1>2, <2>1
    <3>2. r.op # "--force" => Ended(r).op = None
      BY <1>4 DEF Ended, CommandStates
    <3> QED
      BY <1>4, <3>1, <3>2, EndedIs, NoneIs
  <2>2. CASE ~OnlyKeys(r.op)
    <3>1. q = [r EXCEPT !.at = "plan"]
      BY <1>2, <2>2
    <3>2. /\ q \in CommandStates /\ q.at = "plan" /\ q.op = r.op /\ q.scale = r.scale
          /\ q.step = r.step /\ q.said = r.said
      BY <3>1 DEF CommandStates
    <3>3. DOMAIN PlanOf(q) = {}
      BY <1>4, <3>2, NoNames DEF PlanOf
    <3> QED
      BY <1>4, <2>2, <3>2, <3>3 DEF CommandInStep
  <2> QED
    BY <2>1, <2>2
<1>6. cmd' \in [Commands -> CommandStates] /\ Becoming(c, q)
  BY <1>3, <1>5 DEF Becoming, InductiveInv, TypeOK
<1> QED
  BY <1>1, <1>5, <1>6

LEMMA CheckKeyKeeps ==
  ASSUME InductiveInv, NEW c \in Commands, CheckKey(c)
  PROVE  InductiveInv'
<1>1. /\ cmd[c].at = "key" /\ c \in InProgress
      /\ UNCHANGED <<manner, envFile, keyFile, containers>>
      /\ envFile' \in ShellVus \cup {0, None} /\ keyFile' \in Commands \cup {None}
  BY DEF CheckKey, InProgress, files, InductiveInv, TypeOK
<1>2. CASE keyFile # None /\ cmd[c].op # "--force"
  <2>1. AfterKey(c)
    BY <1>2 DEF CheckKey
  <2>2. PICK q \in CommandStates :
          /\ cmd' \in [Commands -> CommandStates] /\ Becoming(c, q)
          /\ CommandInStep(q) /\ ~q.said /\ q.at \in {"plan", "done"}
          /\ cmd[c].op = "--force" <=> q.op = "--force"
    BY <1>1, <2>1, AfterKeyIs
  <2> QED
    BY <1>1, <1>2, <2>2, FileStep
<1>3. CASE ~(keyFile # None /\ cmd[c].op # "--force")
  <2>1. PICK r \in CommandStates : r = cmd[c]
    BY DEF InductiveInv, TypeOK
  <2>2. PICK q : q = [r EXCEPT !.at = "write"]
    OBVIOUS
  <2>3. cmd' = [cmd EXCEPT ![c] = q]
    BY <1>3, <2>1, <2>2 DEF CheckKey
  <2>4. /\ q \in CommandStates /\ q.at = "write" /\ q.op = r.op /\ q.scale = r.scale
        /\ q.step = r.step /\ q.said = r.said
    BY <2>2 DEF CommandStates
  <2>5. ~r.said /\ r.scale = None /\ r.step = 1
    BY <1>1, <2>1 DEF InductiveInv, CommandInStep
  <2>6. CommandInStep(q)
    <3>1. DOMAIN PlanOf(q) = {}
      BY <2>4, <2>5, NoNames DEF PlanOf
    <3> QED
      BY <2>4, <2>5, <3>1 DEF CommandInStep
  <2>7. cmd' \in [Commands -> CommandStates] /\ Becoming(c, q)
    BY <2>3, <2>4 DEF Becoming, InductiveInv, TypeOK
  <2> QED
    BY <1>1, <1>3, <2>1, <2>4, <2>5, <2>6, <2>7, FileStep
<1> QED
  BY <1>2, <1>3

LEMMA WriteKeyKeeps ==
  ASSUME InductiveInv, NEW c \in Commands, WriteKey(c)
  PROVE  InductiveInv'
<1>1. /\ cmd[c].at = "write" /\ c \in InProgress /\ AfterKey(c) /\ keyFile' = c
      /\ UNCHANGED <<manner, envFile, containers>>
      /\ envFile' \in ShellVus \cup {0, None} /\ keyFile' \in Commands \cup {None}
  BY DEF WriteKey, InProgress, files, InductiveInv, TypeOK
<1>2. keyFile' # None
  BY <1>1, NoneIsNoCommand
<1>3. PICK q \in CommandStates :
        /\ cmd' \in [Commands -> CommandStates] /\ Becoming(c, q)
        /\ CommandInStep(q) /\ ~q.said /\ q.at \in {"plan", "done"}
        /\ cmd[c].op = "--force" <=> q.op = "--force"
  BY <1>1, AfterKeyIs
<1>4. ~manner.overlap /\ q.op # "--force" /\ keys \subseteq {keyFile} => keys \subseteq {keyFile'}
  <2>1. SUFFICES ASSUME ~manner.overlap, q.op # "--force", keys \subseteq {keyFile}
                 PROVE  keys = {}
    OBVIOUS
  <2>2. keyFile = None
    BY <1>1, <1>3, <2>1 DEF InductiveInv, KeyInStep
  <2> QED
    BY <2>1, <2>2, NoneIsNoCommand DEF InductiveInv, TypeOK
<1> QED
  BY <1>1, <1>2, <1>3, <1>4, FileStep

LEMMA PlanKeeps ==
  ASSUME InductiveInv, NEW c \in Commands, NEW file \in Confs, Plan(c, file)
  PROVE  InductiveInv'
<1>1. PICK r \in CommandStates : r = cmd[c]
  BY DEF InductiveInv, TypeOK
<1>2. PICK scale \in [Keys -> Nat] : scale = LoadServicesConf(file)
  BY ScaleIs
<1>3. PICK p : p = IF r.op \in {"up", "dev"}
                   THEN [r EXCEPT !.scale = scale, !.vus = PlannedVus(@, scale)] ELSE r
  OBVIOUS
<1>4. PICK q : q = IF Calls(p.op, PlanOf(p)) # <<>> THEN [p EXCEPT !.at = "run"] ELSE Ended(p)
  OBVIOUS
<1>5. cmd' = [cmd EXCEPT ![c] = q]
  BY <1>1, <1>2, <1>3, <1>4 DEF Plan
<1>6. /\ r.at = "plan" /\ c \in InProgress
      /\ UNCHANGED <<manner, envFile, keyFile, containers>>
      /\ envFile' \in ShellVus \cup {0, None} /\ keyFile' \in Commands \cup {None}
      /\ keyFile' # None
  BY <1>1 DEF Plan, InProgress, files, InductiveInv, TypeOK, KeyInStep
<1>7. CommandInStep(r) /\ ~OnlyKeys(r.op) /\ ~r.said /\ r.scale = None /\ r.step = 1
  BY <1>1, <1>6 DEF InductiveInv, CommandInStep
<1>8. PlannedVus(r.vus, scale) \in Nat /\ (PlannedVus(r.vus, scale) = 0
        /\ "loadtest" \in DOMAIN PlanFromConf(scale) => scale["loadtest"] = 1)
  <2>1. r.vus \in Nat
    BY DEF CommandStates
  <2>2. "loadtest" \in DOMAIN PlanFromConf(scale) => scale["loadtest"] \in Nat \ {0}
    BY PlanIs
  <2> QED
    BY <2>1, <2>2 DEF PlannedVus
<1>9. /\ p \in CommandStates /\ p.op = r.op /\ p.at = r.at /\ p.step = 1 /\ ~p.said
      /\ Grounded(p)
  <2>1. CASE r.op \in {"up", "dev"}
    <3>1. p = [r EXCEPT !.scale = scale, !.vus = PlannedVus(@, scale)]
      BY <1>3, <2>1
    <3>2. scale \in {LoadServicesConf(f) : f \in Confs}
      BY <1>2
    <3>3. p \in CommandStates
      BY <1>8, <3>1, <3>2 DEF CommandStates
    <3>4. /\ p.op = r.op /\ p.at = r.at /\ p.step = 1 /\ ~p.said
          /\ p.scale = scale /\ p.vus = PlannedVus(r.vus, scale)
      BY <1>7, <3>1 DEF CommandStates
    <3>5. PlanOf(p) = <<>> \/ PlanOf(p) = PlanFromConf(scale)
      BY <3>4 DEF PlanOf
    <3> QED
      BY <1>8, <2>1, <3>3, <3>4, <3>5, NoNames DEF Grounded
  <2>2. CASE r.op \notin {"up", "dev"}
    <3>1. p = r
      BY <1>3, <2>2
    <3> QED
      BY <1>7, <2>2, <3>1, GroundedIs
  <2> QED
    BY <2>1, <2>2
<1>10. /\ q \in CommandStates /\ CommandInStep(q) /\ ~q.said /\ (q.at = "run" => q.step = 1)
       /\ q.at \in {"run", "done"} /\ (r.op = "--force" => q.op = "--force")
  <2>1. CASE Calls(p.op, PlanOf(p)) # <<>>
    <3>1. q = [p EXCEPT !.at = "run"]
      BY <1>4, <2>1
    <3>2. /\ q \in CommandStates /\ q.at = "run" /\ q.op = p.op /\ q.scale = p.scale
          /\ q.vus = p.vus /\ q.step = 1 /\ ~q.said
      BY <1>9, <3>1 DEF CommandStates
    <3>3. PlanOf(q) = PlanOf(p)
      BY <3>2 DEF PlanOf
    <3>4. Len(Calls(q.op, PlanOf(q))) >= 1
      <4>1. PICK calls \in Seq(CallsOf(PlanOf(q))) : calls = Calls(q.op, PlanOf(q))
        BY <3>2, PlanOfIs, CallsAre
      <4>2. calls # <<>>
        BY <2>1, <3>2, <3>3, <4>1
      <4>3. Len(calls) \in Nat /\ Len(calls) # 0
        BY <4>2, EmptySeq, LenProperties
      <4> QED
        BY <4>1, <4>3
    <3> QED
      BY <1>7, <1>9, <3>2, <3>3, <3>4 DEF CommandInStep, Grounded
  <2>2. CASE Calls(p.op, PlanOf(p)) = <<>>
    BY <1>4, <1>9, <2>2, EndedIs
  <2> QED
    BY <2>1, <2>2
<1>11. cmd' \in [Commands -> CommandStates] /\ Becoming(c, q)
  BY <1>5, <1>10 DEF Becoming, InductiveInv, TypeOK
<1>12. ~(~manner.overlap /\ q.at = "write" /\ q.op # "--force")
  BY <1>10
<1> QED
  BY <1>1, <1>6, <1>10, <1>11, <1>12, FileStep

-----------------------------------------------------------------------------
(* Steps of a command that change the containers. *)

(* The record of c changes, and all the others are disturbed. *)
Disturbing(c, q) == \A d \in Commands : cmd'[d] = IF d = c THEN q ELSE Disturbed(cmd[d])

(* What was said when c ended is true. *)
SaidTrue(q) ==
  q.said =>
    LET plan == PlanOf(q) IN
      /\ DOMAIN plan # {}
      /\ \A s \in DOMAIN plan :
           /\ cont'[s].n > 0 /\ ~cont'[s].dev
           /\ cont'[s].n = plan[s] \/ (s \in {"gateway", "s3mock"} /\ "loadtest" \in DOMAIN plan)
      /\ "loadtest" \in DOMAIN plan =>
           /\ q.k6 = Vus(q)
           /\ q.vus = 0 => q.scale["loadtest"] = 1

StandsStarted(q) ==
  LET plan == PlanOf(q) IN
    q.at = "run" /\ q.op = "up" /\ q.alone /\ q.step > UpAt(plan) =>
      \A s \in DOMAIN plan \ {"loadtest"} :
        /\ cont'[s].n = plan[s] /\ ~cont'[s].dev
        /\ s \in HostPortServices => plan[s] = 1

LEMMA ComposeStep ==
  ASSUME InductiveInv, NEW c \in InProgress, NEW q \in CommandStates,
         cmd' = [d \in Commands |-> IF d = c THEN q ELSE Disturbed(cmd[d])],
         UNCHANGED <<manner, files>>, keyFile # None,
         cont' \in Containers, keys' \subseteq keys \cup {keyFile},
         cmd[c].op = "--force" => q.op = "--force",
         CommandInStep(q), q.at \in {"run", "attached", "done"},
         StandsStarted(q), SaidTrue(q)
  PROVE  InductiveInv'
<1>1. \A d \in Commands : cmd[d] \in CommandStates /\ CommandInStep(cmd[d])
  BY DEF InductiveInv, TypeOK
<1>2. c \in Commands
  BY DEF InProgress
<1>3. cmd'[c] = q /\ \A d \in Commands \ {c} : cmd'[d] = Disturbed(cmd[d])
  BY <1>2
<1>4. TypeOK'
  <2>1. cmd' \in [Commands -> CommandStates]
    BY <1>1, DisturbedIs
  <2>2. keys' \subseteq Commands
    BY DEF InductiveInv, TypeOK
  <2> QED
    BY <2>1, <2>2 DEF InductiveInv, TypeOK, files, Containers
<1>5. manner' = manner /\ keyFile' = keyFile
  BY DEF files
<1>6. ~manner'.overlap => \A d, e \in InProgress' : d = e
  <2>1. \A d \in InProgress' : d \in InProgress
    BY <1>1, <1>3, DisturbedIs DEF InProgress
  <2> QED
    BY <1>5, <2>1 DEF InductiveInv
<1>7. ~manner'.overlap /\ (\A d \in Commands : cmd'[d].op # "--force") => keys' \subseteq {keyFile'}
  <2>1. SUFFICES ASSUME ~manner.overlap, \A d \in Commands : cmd'[d].op # "--force"
                 PROVE  keys' \subseteq {keyFile}
    BY <1>5
  <2>2. \A d \in Commands : cmd[d].op # "--force"
    BY <1>1, <1>2, <1>3, <2>1, DisturbedIs
  <2> QED
    BY <2>1, <2>2 DEF InductiveInv
<1>8. ASSUME NEW d \in Commands
      PROVE  CommandInStep(cmd'[d]) /\ KeyInStep(d)' /\ StartedStands(d)'
  <2>1. CASE d = c
    <3>1. KeyInStep(d)'
      BY <1>3, <1>5, <2>1 DEF KeyInStep
    <3>2. StartedStands(d)'
      BY <1>3, <2>1 DEF StartedStands, StandsStarted
    <3> QED
      BY <1>3, <2>1, <3>1, <3>2
  <2>2. CASE d # c
    <3>1. /\ cmd'[d] = Disturbed(cmd[d]) /\ CommandInStep(cmd'[d]) /\ cmd'[d].at = cmd[d].at
          /\ cmd[d].at = "run" => ~cmd'[d].alone
          /\ cmd[d].at \notin {"idle", "done"} => cmd'[d].op = cmd[d].op
      BY <1>1, <1>3, <2>2, DisturbedIs
    <3>2. KeyInStep(d)'
      BY <1>5, <3>1 DEF KeyInStep, InductiveInv
    <3>3. StartedStands(d)'
      BY <3>1 DEF StartedStands
    <3> QED
      BY <3>1, <3>2, <3>3
  <2> QED
    BY <2>1, <2>2
<1>9. UpMeansPlan'
  <2>1. ASSUME NEW d \in Commands, cmd'[d].said
        PROVE  cmd'[d] = q /\ SaidTrue(cmd'[d])
    BY <1>1, <1>3, <2>1, DisturbedIs
  <2> QED
    BY <2>1 DEF UpMeansPlan, SaidTrue
<1> QED
  BY <1>4, <1>6, <1>7, <1>8, <1>9 DEF InductiveInv

LEMMA InterruptKeeps ==
  ASSUME InductiveInv, NEW c \in Commands, Interrupt(c)
  PROVE  InductiveInv'
<1>1. PICK r \in CommandStates : r = cmd[c]
  BY DEF InductiveInv, TypeOK
<1>2. /\ r.at = "attached" /\ c \in InProgress /\ keyFile # None
      /\ UNCHANGED <<manner, files>>
      /\ cmd' = [d \in Commands |-> IF d = c THEN Ended(r) ELSE Disturbed(cmd[d])]
  BY <1>1 DEF Interrupt, InProgress, InductiveInv, KeyInStep
<1>3. Grounded(r) /\ ~r.said
  BY <1>1, <1>2, GroundedIs DEF InductiveInv, CommandInStep
<1>4. cont' \in Containers /\ keys' \subseteq keys \cup {keyFile}
  <2> DEFINE new == [s \in Services |->
        IF s \in DOMAIN PlanOf(cmd[c]) \cap JsServices THEN [n |-> 0, dev |-> TRUE] ELSE cont[s]]
  <2>1. Becomes(new)
    BY DEF Interrupt
  <2>2. new \in Containers
    BY DEF InductiveInv, TypeOK, Containers
  <2> HIDE DEF new
  <2> QED
    BY <2>1, <2>2, KeysLoadedAre
<1>5. PICK q \in CommandStates : q = Ended(r) /\ CommandInStep(q) /\ q.at = "done" /\ ~q.said
                                 /\ (r.op = "--force" => q.op = "--force")
  BY <1>3, EndedIs
<1>6. StandsStarted(q) /\ SaidTrue(q)
  BY <1>5 DEF StandsStarted, SaidTrue
<1> QED
  BY <1>1, <1>2, <1>4, <1>5, <1>6, ComposeStep

(* How a command goes on after a call, as if it were done. *)
GoesOn(r, call) ==
  LET last == r.step = Len(Calls(r.op, PlanOf(r))) IN
  CASE ~last                       -> [r EXCEPT !.step = @ + 1]
    [] last /\ call.do = "attach" -> [r EXCEPT !.at = "attached"]
    [] OTHER                       -> Ended([r EXCEPT !.said = (r.op = "up") /\ r.alone])

LEMMA OutcomesAre ==
  ASSUME NEW r, NEW call
  PROVE  /\ Outcomes(r, call)["ok"] = GoesOn(r, call)
         /\ Outcomes(r, call)["error"] = Ended(r)
         /\ Outcomes(r, call)["signal"] = Disturbed(GoesOn(r, call))
  BY DEF Outcomes, GoesOn

LEMMA GoesOnIs ==
  ASSUME NEW r \in CommandStates, CommandInStep(r), r.at = "run", NEW call
  PROVE  LET q == GoesOn(r, call)
             calls == Len(Calls(r.op, PlanOf(r)))
         IN /\ q \in CommandStates /\ CommandInStep(q) /\ q.at \in {"run", "attached", "done"}
            /\ r.op = "--force" => q.op = "--force"
            /\ q.at = "run" => r.step < calls /\ q = [r EXCEPT !.step = r.step + 1] /\ ~q.said
            /\ q.said => /\ r.op = "up" /\ r.alone /\ r.step = calls
                         /\ q = [r EXCEPT !.said = TRUE, !.at = "done"]
<1>1. PICK n \in 0..5 : n = Len(Calls(r.op, PlanOf(r)))
  BY PlanOfIs, CallsAre
<1>2. r.step \in 1..5 /\ r.step <= n /\ ~r.said /\ ~OnlyKeys(r.op) /\ Grounded(r)
  BY <1>1, GroundedIs DEF CommandStates, CommandInStep
<1>3. PICK q : q = GoesOn(r, call)
  OBVIOUS
<1>4. CASE r.step # n
  <2>1. q = [r EXCEPT !.step = r.step + 1]
    BY <1>1, <1>3, <1>4 DEF GoesOn
  <2>2. r.step + 1 \in 1..5 /\ r.step < n /\ r.step + 1 <= n
    <3>1. PICK i \in 1..5 : i = r.step
      BY <1>2
    <3>2. i <= n /\ i # n
      BY <1>2, <1>4, <3>1
    <3>3. i + 1 \in 1..5 /\ i < n /\ i + 1 <= n
      BY <3>2
    <3> QED
      BY <3>1, <3>3
  <2>3. /\ q \in CommandStates /\ q.step = r.step + 1 /\ q.at = "run" /\ q.op = r.op
        /\ q.said = r.said /\ q.scale = r.scale /\ q.vus = r.vus
    BY <2>1, <2>2 DEF CommandStates
  <2>4. PlanOf(q) = PlanOf(r)
    BY <2>3 DEF PlanOf
  <2>5. CommandInStep(q)
    BY <1>1, <1>2, <2>2, <2>3, <2>4 DEF CommandInStep, Grounded
  <2> QED
    BY <1>1, <1>2, <1>3, <2>1, <2>2, <2>3, <2>5
<1>5. CASE r.step = n /\ call.do = "attach"
  <2>1. q = [r EXCEPT !.at = "attached"]
    BY <1>1, <1>3, <1>5 DEF GoesOn
  <2>2. /\ q \in CommandStates /\ q.step = r.step /\ q.at = "attached" /\ q.op = r.op
        /\ q.said = r.said /\ q.scale = r.scale /\ q.vus = r.vus
    BY <2>1 DEF CommandStates
  <2>3. PlanOf(q) = PlanOf(r)
    BY <2>2 DEF PlanOf
  <2>4. CommandInStep(q)
    BY <1>2, <2>2, <2>3 DEF CommandInStep, Grounded
  <2> QED
    BY <1>1, <1>2, <1>3, <2>2, <2>4
<1>6. CASE r.step = n /\ call.do # "attach"
  <2>1. PICK p : p = [r EXCEPT !.said = (r.op = "up") /\ r.alone]
    OBVIOUS
  <2>2. q = Ended(p)
    BY <1>1, <1>3, <1>6, <2>1 DEF GoesOn
  <2>3. r.alone \in BOOLEAN
    BY DEF CommandStates
  <2>4. /\ p \in CommandStates /\ p.at = r.at /\ p.op = r.op /\ p.scale = r.scale /\ p.vus = r.vus
        /\ p.said = (r.op = "up" /\ r.alone)
    BY <2>1, <2>3 DEF CommandStates
  <2>5. PlanOf(p) = PlanOf(r)
    BY <2>4 DEF PlanOf
  <2>6. Grounded(p)
    BY <1>2, <2>4, <2>5 DEF Grounded
  <2>7. /\ q \in CommandStates /\ CommandInStep(q) /\ q.at = "done" /\ q.said = p.said
        /\ p.op = "--force" => q.op = "--force"
        /\ p.said => q = [p EXCEPT !.at = "done"]
    BY <2>2, <2>4, <2>6, EndedIs
  <2>8. p.said => q = [r EXCEPT !.said = TRUE, !.at = "done"]
    <3>1. SUFFICES ASSUME p.said PROVE q = [r EXCEPT !.said = TRUE, !.at = "done"]
      OBVIOUS
    <3>2. p = [r EXCEPT !.said = TRUE]
      BY <2>1, <2>4, <3>1
    <3> QED
      BY <2>7, <3>1, <3>2
  <2> QED
    BY <1>1, <1>3, <1>6, <2>4, <2>7, <2>8
<1> QED
  BY <1>4, <1>5, <1>6

LEMMA UpStarts ==
  ASSUME TypeOK, NEW plan, IsPlan(plan), NEW call, call = Up(FALSE, DOMAIN plan \ {"loadtest"}, plan),
         Bindable(call), TakesEffect(call)
  PROVE  \A s \in DOMAIN plan \ {"loadtest"} :
           /\ cont'[s].n = plan[s] /\ ~cont'[s].dev
           /\ s \in HostPortServices => plan[s] = 1
<1>1. /\ call \in CallsOf(plan) /\ call.do = "up" /\ ~call.dev
      /\ call.names = DOMAIN plan \ {"loadtest"} /\ call.counts = plan
  BY CallIs DEF IsPlan, Up
<1>2. \A s \in Services : StartsAs(call, s)
  BY <1>1, EffectIs
<1>3. TAKE s \in DOMAIN plan \ {"loadtest"}
<1>4. s \in Services /\ s \in WithDependencies(call.names)
  BY <1>1, NamedAreStarted DEF IsPlan
<1>5. cont'[s].n = plan[s] /\ ~cont'[s].dev
  BY <1>1, <1>2, <1>4 DEF StartsAs
<1>6. s \in HostPortServices => plan[s] = 1
  BY <1>1 DEF Bindable
<1> QED
  BY <1>5, <1>6

LEMMA RecreateLeaves ==
  ASSUME TypeOK, NEW plan, IsPlan(plan), plan["loadtest"] = 1,
         NEW call, call = Recreate(FALSE, "loadtest"), TakesEffect(call),
         \A s \in DOMAIN plan \ {"loadtest"} :
           /\ cont[s].n = plan[s] /\ ~cont[s].dev
           /\ s \in HostPortServices => plan[s] = 1
  PROVE  \A s \in DOMAIN plan :
           /\ cont'[s].n > 0 /\ ~cont'[s].dev
           /\ cont'[s].n = plan[s] \/ s \in {"gateway", "s3mock"}
<1>1. /\ call \in CallsOf(plan) /\ call.do = "recreate" /\ ~call.dev
      /\ call.names = {"loadtest"} /\ call.counts = <<>>
  BY OtherCallIs DEF Recreate
<1>2. \A s \in Services : StartsAs(call, s)
  BY <1>1, EffectIs
<1>3. TAKE s \in DOMAIN plan
<1>4. s \in Services /\ plan[s] \in Nat \ {0}
  BY DEF IsPlan
<1>5. CASE s = "loadtest"
  <2>1. s \in WithDependencies(call.names) /\ s \notin DOMAIN call.counts
    BY <1>1, <1>5, NamedAreStarted, NoNames
  <2>2. cont'[s].n = 1 /\ ~cont'[s].dev
    BY <1>1, <1>2, <1>4, <1>5, <2>1 DEF StartsAs
  <2> QED
    BY <1>5, <2>2
<1>6. CASE s # "loadtest" /\ s \notin WithDependencies(call.names)
  <2>1. cont'[s] = cont[s]
    BY <1>2, <1>4, <1>6 DEF StartsAs
  <2> QED
    BY <1>4, <1>6, <2>1
<1>7. CASE s # "loadtest" /\ s \in WithDependencies(call.names)
  <2>1. ~cont'[s].dev /\ cont'[s].n \in {plan[s], 1}
    BY <1>1, <1>2, <1>4, <1>7 DEF StartsAs
  <2>2. s \in HostPortServices \/ s \in {"gateway", "s3mock"}
    <3>1. s \in BehindLoadtest
      BY <1>1, <1>7, BehindLoadtestIs
    <3> QED
      BY <1>7, <3>1 DEF BehindLoadtest, CoreInfraServices, HostPortServices
  <2>3. s \in HostPortServices => plan[s] = 1
    BY <1>7
  <2> QED
    BY <1>4, <2>1, <2>2, <2>3
<1> QED
  BY <1>5, <1>6, <1>7

LEMMA K6Is ==
  ASSUME NEW r \in CommandStates, NEW call, NEW vus \in K6(r, call)
  PROVE  /\ vus \in Nat
         /\ call = Recreate(FALSE, "loadtest") => vus = Vus(r)
<1>1. Vus(r) \in Nat /\ r.k6 \in Nat
  BY DEF Vus, CommandStates
<1> QED
  BY <1>1 DEF K6, Recreate

(* The call that a running command has to make. *)
LEMMA CallInTurn ==
  ASSUME InductiveInv, NEW c \in Commands, cmd[c].at = "run"
  PROVE  LET plan == PlanOf(cmd[c])
             calls == Calls(cmd[c].op, plan)
         IN /\ IsPlan(plan) /\ calls[cmd[c].step] \in CallsOf(plan)
            /\ cmd[c].step \in 1..Len(calls)
<1>1. PICK r \in CommandStates : r = cmd[c]
  BY DEF InductiveInv, TypeOK
<1>2. PICK plan : plan = PlanOf(r) /\ IsPlan(plan)
  BY PlanOfIs
<1>3. PICK calls \in Seq(CallsOf(plan)) : calls = Calls(r.op, plan)
  BY <1>2, CallsAre
<1>4. r.step \in 1..5 /\ r.step <= Len(calls)
  BY <1>1, <1>2, <1>3 DEF CommandStates, InductiveInv, CommandInStep
<1>5. r.step \in 1..Len(calls)
  BY <1>3, <1>4
<1>6. calls[r.step] \in CallsOf(plan)
  BY <1>3, <1>5
<1> QED
  BY <1>1, <1>2, <1>3, <1>5, <1>6

(* A call of up that has ended well leaves what the next one and the end rest on. *)
LEMMA UpKeepsItsWord ==
  ASSUME InductiveInv, NEW r \in CommandStates, CommandInStep(r), r.at = "run", r.op = "up",
         NEW call, call = Calls(r.op, PlanOf(r))[r.step],
         NEW vus \in K6(r, call), NEW e \in CommandStates, e = [r EXCEPT !.k6 = vus],
         r.alone /\ r.step > UpAt(PlanOf(r)) =>
           \A s \in DOMAIN PlanOf(r) \ {"loadtest"} :
             /\ cont[s].n = PlanOf(r)[s] /\ ~cont[s].dev
             /\ s \in HostPortServices => PlanOf(r)[s] = 1,
         Bindable(call), TakesEffect(call),
         NEW q, q = GoesOn(e, call)
  PROVE  StandsStarted(q) /\ SaidTrue(q)
<1>1. /\ e.at = "run" /\ e.op = "up" /\ e.scale = r.scale /\ e.vus = r.vus /\ e.step = r.step
      /\ e.alone = r.alone /\ e.said = r.said /\ e.k6 = vus
  BY DEF CommandStates
<1>2. PICK plan : plan = PlanOf(r)
  OBVIOUS
<1>3. PlanOf(e) = plan /\ IsPlan(plan) /\ ("loadtest" \in DOMAIN plan => plan["loadtest"] = 1)
  BY <1>1, <1>2, PlanOfIs DEF PlanOf
<1>4. CommandInStep(e)
  BY <1>1, <1>2, <1>3 DEF CommandInStep
<1>5. Calls(e.op, PlanOf(e)) = CmdUp(plan) /\ call = CmdUp(plan)[r.step]
  BY <1>1, <1>2, <1>3 DEF Calls
<1>6. PICK step \in 1..5 : step = r.step
  BY DEF CommandStates
<1>7. DOMAIN plan # {}
  <2>1. step <= Len(CmdUp(plan))
    BY <1>2, <1>6 DEF CommandInStep, Calls
  <2>2. ASSUME DOMAIN plan = {} PROVE FALSE
    <3>1. Len(CmdUp(plan)) = 0
      BY <2>2 DEF CmdUp
    <3>2. ~(step <= 0)
      BY <1>6
    <3> QED
      BY <2>1, <3>1, <3>2
  <2> QED
    BY <2>2
<1>8. PICK at \in 1..3 : at = UpAt(plan)
  BY <1>3, UpAtIs
<1>9. Len(CmdUp(plan)) = IF "loadtest" \in DOMAIN plan THEN at + 1 ELSE at
  BY <1>3, <1>7, <1>8, CmdUpIs
<1>10. ASSUME step = at
      PROVE  \A s \in DOMAIN plan \ {"loadtest"} :
               /\ cont'[s].n = plan[s] /\ ~cont'[s].dev
               /\ s \in HostPortServices => plan[s] = 1
  <2>1. CmdUp(plan)[UpAt(plan)] = Up(FALSE, DOMAIN plan \ {"loadtest"}, plan)
    BY <1>3, <1>7, CmdUpIs
  <2>2. call = Up(FALSE, DOMAIN plan \ {"loadtest"}, plan)
    BY <1>5, <1>8, <1>6, <1>10, <2>1
  <2>3. TypeOK /\ IsPlan(plan)
    BY <1>3 DEF InductiveInv
  <2> QED
    BY <2>2, <2>3, UpStarts
<1>11. /\ q \in CommandStates
       /\ q.at = "run" => step < Len(CmdUp(plan)) /\ q = [e EXCEPT !.step = step + 1] /\ ~q.said
       /\ q.said => e.alone /\ step = Len(CmdUp(plan)) /\ q = [e EXCEPT !.said = TRUE, !.at = "done"]
  <2>1. /\ GoesOn(e, call) \in CommandStates
        /\ GoesOn(e, call).at = "run" =>
             /\ e.step < Len(Calls(e.op, PlanOf(e)))
             /\ GoesOn(e, call) = [e EXCEPT !.step = e.step + 1] /\ ~GoesOn(e, call).said
        /\ GoesOn(e, call).said =>
             /\ e.alone /\ e.step = Len(Calls(e.op, PlanOf(e)))
             /\ GoesOn(e, call) = [e EXCEPT !.said = TRUE, !.at = "done"]
    BY <1>1, <1>4, GoesOnIs
  <2>2. e.step = step /\ Calls(e.op, PlanOf(e)) = CmdUp(plan) /\ GoesOn(e, call) = q
    BY <1>1, <1>5, <1>6
  <2> QED
    BY <2>1, <2>2
<1>12. StandsStarted(q)
  <2>1. SUFFICES ASSUME q.at = "run", q.step > UpAt(PlanOf(q))
                 PROVE  \A s \in DOMAIN PlanOf(q) \ {"loadtest"} :
                          /\ cont'[s].n = PlanOf(q)[s] /\ ~cont'[s].dev
                          /\ s \in HostPortServices => PlanOf(q)[s] = 1
    BY DEF StandsStarted
  <2>2. q.step = step + 1 /\ q.scale = e.scale /\ step < Len(CmdUp(plan))
    BY <1>11, <2>1 DEF CommandStates
  <2>3. PlanOf(q) = plan
    BY <1>3, <2>2 DEF PlanOf
  <2>4. step + 1 > at
    BY <1>8, <2>1, <2>2, <2>3
  <2>5. step < at + 1
    BY <1>9, <2>2
  <2>6. step = at
    BY <2>4, <2>5
  <2> QED
    BY <1>10, <2>3, <2>6
<1>13. SaidTrue(q)
  <2>1. SUFFICES ASSUME q.said PROVE SaidTrue(q)
    BY DEF SaidTrue
  <2>2. /\ q.scale = e.scale /\ q.vus = e.vus /\ q.k6 = vus
        /\ e.alone /\ step = Len(CmdUp(plan))
    <3>1. q = [e EXCEPT !.said = TRUE, !.at = "done"] /\ e.alone /\ step = Len(CmdUp(plan))
      BY <1>11, <2>1
    <3>2. q.scale = e.scale /\ q.vus = e.vus /\ q.k6 = e.k6
      BY <3>1 DEF CommandStates
    <3> QED
      BY <1>1, <3>1, <3>2
  <2>3. PlanOf(q) = plan
    BY <1>3, <2>2 DEF PlanOf
  <2>4. CASE "loadtest" \notin DOMAIN plan
    <3>1. step = at
      BY <1>9, <2>2, <2>4
    <3>2. \A s \in DOMAIN plan : cont'[s].n = plan[s] /\ ~cont'[s].dev
      BY <1>10, <2>4, <3>1
    <3>3. \A s \in DOMAIN plan : plan[s] > 0
      BY <1>3 DEF IsPlan
    <3> QED
      BY <1>7, <2>3, <2>4, <3>2, <3>3 DEF SaidTrue
  <2>5. CASE "loadtest" \in DOMAIN plan
    <3>1. step = at + 1
      BY <1>9, <2>2, <2>5
    <3>2. step > at
      BY <3>1
    <3>3. call = Recreate(FALSE, "loadtest")
      BY <1>3, <1>7, <1>5, <1>8, <1>6, <2>5, <3>1, CmdUpIs
    <3>4. \A s \in DOMAIN plan \ {"loadtest"} :
            /\ cont[s].n = plan[s] /\ ~cont[s].dev
            /\ s \in HostPortServices => plan[s] = 1
      BY <1>1, <1>2, <1>8, <1>6, <2>2, <3>2
    <3>5. \A s \in DOMAIN plan :
            /\ cont'[s].n > 0 /\ ~cont'[s].dev
            /\ cont'[s].n = plan[s] \/ s \in {"gateway", "s3mock"}
      <4>1. TypeOK /\ IsPlan(plan) /\ plan["loadtest"] = 1
        BY <1>3, <2>5 DEF InductiveInv
      <4> QED
        BY <3>3, <3>4, <4>1, RecreateLeaves
    <3>6. vus = Vus(r) /\ Vus(r) = Vus(q)
      BY <1>1, <2>2, <3>3, K6Is DEF Vus
    <3>7. q.vus = 0 => q.scale["loadtest"] = 1
      BY <1>1, <1>2, <2>2, <2>5 DEF CommandInStep
    <3>8. q.k6 = Vus(q)
      BY <2>2, <3>6
    <3> QED
      BY <1>7, <2>3, <2>5, <3>5, <3>7, <3>8 DEF SaidTrue
  <2> QED
    BY <2>4, <2>5
<1> QED
  BY <1>12, <1>13

LEMMA DockerComposeKeeps ==
  ASSUME InductiveInv, NEW c \in Commands, DockerCompose(c)
  PROVE  InductiveInv'
<1>1. PICK r \in CommandStates : r = cmd[c]
  BY DEF InductiveInv, TypeOK
<1>2. PICK call : call = Calls(r.op, PlanOf(r))[r.step]
  OBVIOUS
<1>3. /\ r.at = "run" /\ c \in InProgress /\ keyFile # None
      /\ CommandInStep(r) /\ Grounded(r) /\ ~r.said
  BY <1>1, GroundedIs DEF DockerCompose, InProgress, InductiveInv, CommandInStep, KeyInStep
<1>4. PICK end \in {"ok", "error", "signal"}, vus \in K6(r, call) :
        /\ end = "ok" => Bindable(call) /\ TakesEffect(call)
        /\ end # "ok" => UNCHANGED containers \/ TakesEffect(call)
        /\ cmd' = [d \in Commands |->
             IF d = c THEN Outcomes([r EXCEPT !.k6 = vus], call)[end] ELSE Disturbed(cmd[d])]
  BY <1>1, <1>2 DEF DockerCompose
<1>5. UNCHANGED <<manner, files>>
  BY DEF DockerCompose
<1>6. cont' \in Containers /\ keys' \subseteq keys \cup {keyFile}
  <2>1. CASE TakesEffect(call)
    BY <1>1, <1>2, <1>3, <2>1, CallInTurn, EffectIs DEF InductiveInv
  <2>2. CASE UNCHANGED containers
    BY <2>2 DEF containers, Containers, InductiveInv, TypeOK
  <2> QED
    BY <1>4, <2>1, <2>2
<1>7. PICK e \in CommandStates : e = [r EXCEPT !.k6 = vus]
  <2>1. vus \in Nat
    BY <1>4, K6Is
  <2> QED
    BY <2>1 DEF CommandStates
<1>8. /\ e.at = "run" /\ e.op = r.op /\ e.scale = r.scale /\ e.vus = r.vus /\ e.step = r.step
      /\ e.said = r.said /\ PlanOf(e) = PlanOf(r)
  BY <1>3, <1>7 DEF CommandStates, PlanOf
<1>9. CommandInStep(e) /\ Grounded(e)
  BY <1>3, <1>8 DEF CommandInStep, Grounded
<1>10. PICK g \in CommandStates :
         /\ g = GoesOn(e, call) /\ CommandInStep(g) /\ g.at \in {"run", "attached", "done"}
         /\ e.op = "--force" => g.op = "--force"
         /\ g.at = "run" => g = [e EXCEPT !.step = e.step + 1] /\ ~g.said
         /\ g.said => e.op = "up" /\ g = [e EXCEPT !.said = TRUE, !.at = "done"]
  BY <1>8, <1>9, GoesOnIs
<1>11. PICK q : q = Outcomes(e, call)[end]
  OBVIOUS
<1>12. /\ q \in CommandStates /\ CommandInStep(q) /\ q.at \in {"run", "attached", "done"}
       /\ r.op = "--force" => q.op = "--force"
       /\ StandsStarted(q) /\ SaidTrue(q)
  <2>1. CASE end = "ok"
    <3>1. q = g
      BY <1>10, <1>11, <2>1, OutcomesAre
    <3>2. StandsStarted(q) /\ SaidTrue(q)
      <4>1. CASE r.op = "up"
        <5>1. StartedStands(c)
          BY DEF InductiveInv
        <5>2. r.alone /\ r.step > UpAt(PlanOf(r)) =>
                \A s \in DOMAIN PlanOf(r) \ {"loadtest"} :
                  /\ cont[s].n = PlanOf(r)[s] /\ ~cont[s].dev
                  /\ s \in HostPortServices => PlanOf(r)[s] = 1
          BY <1>1, <1>3, <4>1, <5>1 DEF StartedStands
        <5> QED
          BY <1>2, <1>3, <1>4, <1>7, <1>10, <2>1, <3>1, <4>1, <5>2, UpKeepsItsWord
      <4>2. CASE r.op # "up"
        <5>1. g.at = "run" => g.op # "up"
          BY <1>8, <1>10, <4>2 DEF CommandStates
        <5>2. ~g.said
          BY <1>8, <1>10, <4>2
        <5> QED
          BY <3>1, <5>1, <5>2 DEF StandsStarted, SaidTrue
      <4> QED
        BY <4>1, <4>2
    <3> QED
      BY <1>8, <1>10, <3>1, <3>2
  <2>2. CASE end = "error"
    <3>1. q = Ended(e)
      BY <1>11, <2>2, OutcomesAre
    <3>2. q.at = "done" /\ ~q.said
      BY <1>3, <1>8, <1>9, <3>1, EndedIs
    <3> QED
      BY <1>8, <1>9, <3>1, <3>2, EndedIs DEF StandsStarted, SaidTrue
  <2>3. CASE end = "signal"
    <3>1. q = Disturbed(g)
      BY <1>10, <1>11, <2>3, OutcomesAre
    <3>2. /\ q \in CommandStates /\ CommandInStep(q) /\ q.at = g.at /\ ~q.said
          /\ g.at = "run" => ~q.alone
          /\ g.op = "--force" => q.op = "--force"
      BY <1>10, <3>1, DisturbedIs
    <3> QED
      BY <1>8, <1>10, <3>2 DEF StandsStarted, SaidTrue
  <2> QED
    BY <1>4, <2>1, <2>2, <2>3
<1>13. cmd' = [d \in Commands |-> IF d = c THEN q ELSE Disturbed(cmd[d])]
  BY <1>4, <1>7, <1>11
<1> QED
  BY <1>1, <1>3, <1>5, <1>6, <1>12, <1>13, ComposeStep

-----------------------------------------------------------------------------

LEMMA NextKeeps == InductiveInv /\ [Next]_vars => InductiveInv'
<1> SUFFICES ASSUME InductiveInv, [Next]_vars PROVE InductiveInv'
  OBVIOUS
<1>1. ASSUME NEW c \in Commands, NEW op \in manner.ops, NEW vus \in ShellVus, Type(c, op, vus)
      PROVE  InductiveInv'
  BY <1>1, TypeKeeps
<1>2. ASSUME NEW c \in Commands, EnsureEnv(c) PROVE InductiveInv'
  BY <1>2, EnsureEnvKeeps
<1>3. ASSUME NEW c \in Commands, CheckKey(c) PROVE InductiveInv'
  BY <1>3, CheckKeyKeeps
<1>4. ASSUME NEW c \in Commands, WriteKey(c) PROVE InductiveInv'
  BY <1>4, WriteKeyKeeps
<1>5. ASSUME NEW c \in Commands, NEW file \in Confs, Plan(c, file) PROVE InductiveInv'
  BY <1>5, PlanKeeps
<1>6. ASSUME NEW c \in Commands, DockerCompose(c) PROVE InductiveInv'
  BY <1>6, DockerComposeKeeps
<1>7. ASSUME NEW c \in Commands, Interrupt(c) PROVE InductiveInv'
  BY <1>7, InterruptKeeps
<1>8. CASE UNCHANGED vars
  <2>1. manner' = manner /\ envFile' = envFile /\ keyFile' = keyFile /\ cont' = cont /\ keys' = keys /\ cmd' = cmd
    BY <1>8 DEF vars
  <2>2. InProgress' = InProgress
    BY <2>1 DEF InProgress
  <2>3. TypeOK' /\ UpMeansPlan'
    BY <2>1 DEF InductiveInv, TypeOK, UpMeansPlan
  <2>4. \A c \in Commands : CommandInStep(cmd'[c]) /\ KeyInStep(c)' /\ StartedStands(c)'
    BY <2>1 DEF InductiveInv, KeyInStep, StartedStands
  <2> QED
    BY <2>1, <2>2, <2>3, <2>4 DEF InductiveInv
<1> QED
  BY <1>1, <1>2, <1>3, <1>4, <1>5, <1>6, <1>7, <1>8 DEF Next, Quiet

(***************************************************************************)
(* Commands keep to their order, a key is there before a container that    *)
(* loads it, and what the first part of up has started still stands when   *)
(* its second part begins, unless somebody else has run compose.           *)
(***************************************************************************)
THEOREM Invariance == Spec => []InductiveInv
<1>1. InductiveInv /\ [Next]_vars => InductiveInv'
  BY NextKeeps
<1> QED
  BY <1>1, InitEstablishes, PTL DEF Spec

(***************************************************************************)
(* "Roomly is up" is said only when something was planned and every        *)
(* planned service runs, from the base files and in the planned number,    *)
(* and with the planned load test (roomly.mjs:296-323).                    *)
(***************************************************************************)
THEOREM UpIsTrue == Spec => []UpMeansPlan
<1>1. InductiveInv => UpMeansPlan
  BY DEF InductiveInv
<1> QED
  BY <1>1, Invariance, PTL

(***************************************************************************)
(* All containers of user-service sign with one key when commands follow   *)
(* each other and none of them is asked to write a new one                 *)
(* (generate-jwt-keys.mjs:25).                                             *)
(***************************************************************************)
THEOREM KeysShared == Spec => []ReplicasShareKey
<1>1. InductiveInv => ReplicasShareKey
  <2>1. SUFFICES ASSUME InductiveInv, ~manner.overlap, \A c \in Commands : cmd[c].op # "--force"
                 PROVE  Cardinality(keys) <= 1
    BY DEF ReplicasShareKey
  <2>2. keys \subseteq {keyFile}
    BY <2>1 DEF InductiveInv
  <2>3. IsFiniteSet({keyFile}) /\ Cardinality({keyFile}) = 1
    BY FS_Singleton
  <2>4. Cardinality(keys) <= Cardinality({keyFile}) /\ Cardinality(keys) \in Nat
    BY <2>2, <2>3, FS_Subset, FS_CardinalityType
  <2> QED
    BY <2>3, <2>4
<1> QED
  BY <1>1, Invariance, PTL

LEMMA OnlyCall ==
  ASSUME NEW x, NEW i \in 1..Len(<<x>>)
  PROVE  <<x>>[i] = x
OBVIOUS

(* The only steps that infra, obs and loadtest take in compose name no application. *)
LEMMA OthersNameNoApplication ==
  ASSUME InductiveInv, NEW c \in Commands, cmd[c].at = "run", cmd[c].op \in {"infra", "obs", "loadtest"},
         NEW call, call = Calls(cmd[c].op, PlanOf(cmd[c]))[cmd[c].step]
  PROVE  \/ call.do = "run"
         \/ call.do = "up" /\ call.names \in SUBSET Beneath
<1>1. PICK plan : plan = PlanOf(cmd[c])
  OBVIOUS
<1>2. cmd[c].step \in 1..Len(Calls(cmd[c].op, plan))
  BY <1>1, CallInTurn
<1>3. CASE cmd[c].op = "infra"
  <2>1. Calls(cmd[c].op, plan) = <<Up(FALSE, CoreInfraServices, <<>>)>>
    BY <1>3 DEF Calls
  <2>2. call = Up(FALSE, CoreInfraServices, <<>>)
    BY <1>1, <1>2, <2>1, OnlyCall
  <2> QED
    BY <2>2 DEF Up, Beneath
<1>4. CASE cmd[c].op = "obs"
  <2>1. Calls(cmd[c].op, plan) = <<Up(FALSE, ObsCoreServices \cup Exporters, <<>>)>>
    BY <1>4 DEF Calls
  <2>2. call = Up(FALSE, ObsCoreServices \cup Exporters, <<>>)
    BY <1>1, <1>2, <2>1, OnlyCall
  <2> QED
    BY <2>2 DEF Up, Beneath
<1>5. CASE cmd[c].op = "loadtest"
  <2>1. Calls(cmd[c].op, plan) = <<RunAlone("loadtest")>>
    BY <1>5 DEF Calls, CmdLoadtest
  <2>2. call = RunAlone("loadtest")
    BY <1>1, <1>2, <2>1, OnlyCall
  <2> QED
    BY <2>2 DEF RunAlone
<1> QED
  BY <1>3, <1>4, <1>5

LEMMA OnlyTheActorMoves ==
  ASSUME InductiveInv, NEW c \in Commands, NEW d \in Commands, d # c, cmd'[d].at # cmd[d].at,
         NEW q, cmd' = [b \in Commands |-> IF b = c THEN q ELSE Disturbed(cmd[b])]
  PROVE  FALSE
<1>1. cmd'[d] = Disturbed(cmd[d])
  OBVIOUS
<1>2. cmd[d] \in CommandStates /\ CommandInStep(cmd[d])
  BY DEF InductiveInv, TypeOK
<1> QED
  BY <1>1, <1>2, DisturbedIs

(***************************************************************************)
(* Infra, obs and loadtest never recreate, scale or stop an application    *)
(* container (roomly.mjs:418).                                             *)
(***************************************************************************)
THEOREM OthersLeftAlone == Spec => AppsLeftAlone
<1>1. ASSUME InductiveInv, Next
      PROVE  \A c \in Commands :
               cmd[c].op \in {"infra", "obs", "loadtest"} /\ cmd'[c].at # cmd[c].at
                 => \A s \in Overridden : cont'[s] = cont[s]
  <2>1. TAKE d \in Commands
  <2>2. SUFFICES ASSUME cmd[d].op \in {"infra", "obs", "loadtest"}, cmd'[d].at # cmd[d].at
                 PROVE  \A s \in Overridden : cont'[s] = cont[s]
    OBVIOUS
  <2>3. CASE cont' = cont
    BY <2>3
  <2>4. ASSUME NEW c \in Commands, DockerCompose(c)
        PROVE  \A s \in Overridden : cont'[s] = cont[s]
    <3>1. PICK call : call = Calls(cmd[c].op, PlanOf(cmd[c]))[cmd[c].step]
      OBVIOUS
    <3>2. d = c
      <4>1. PICK q : cmd' = [b \in Commands |-> IF b = c THEN q ELSE Disturbed(cmd[b])]
        BY <2>4 DEF DockerCompose
      <4> QED
        BY <1>1, <2>2, <4>1, OnlyTheActorMoves
    <3>3. cmd[c].at = "run" /\ (TakesEffect(call) \/ UNCHANGED containers)
      BY <2>4, <3>1 DEF DockerCompose
    <3>4. CASE UNCHANGED containers
      BY <3>4 DEF containers
    <3>5. CASE TakesEffect(call)
      <4>1. IsPlan(PlanOf(cmd[c])) /\ call \in CallsOf(PlanOf(cmd[c]))
        BY <1>1, <3>1, <3>3, CallInTurn
      <4>2. \/ call.do = "run"
            \/ call.do = "up" /\ call.names \in SUBSET Beneath
        BY <1>1, <2>2, <3>1, <3>2, <3>3, OthersNameNoApplication
      <4>3. /\ call.do = "run" => cont' = cont
            /\ call.do = "up" => \A s \in Services : StartsAs(call, s)
        BY <1>1, <3>5, <4>1, EffectIs DEF InductiveInv
      <4>4. Overridden \subseteq Services
        BY DEF Overridden, Services, Scalable
      <4> QED
        BY <4>2, <4>3, <4>4, BeneathIs DEF StartsAs
    <3> QED
      BY <3>3, <3>4, <3>5
  <2>5. ASSUME NEW c \in Commands, Interrupt(c)
        PROVE  cont' = cont
    <3>1. d = c
      <4>1. PICK q : cmd' = [b \in Commands |-> IF b = c THEN q ELSE Disturbed(cmd[b])]
        BY <2>5 DEF Interrupt
      <4> QED
        BY <1>1, <2>2, <4>1, OnlyTheActorMoves
    <3>2. cmd[c].scale = None
      BY <1>1, <2>2, <3>1 DEF InductiveInv, CommandInStep
    <3>3. DOMAIN PlanOf(cmd[c]) = {}
      BY <3>2, NoNames DEF PlanOf
    <3>4. cont' = [s \in Services |->
            IF s \in DOMAIN PlanOf(cmd[c]) \cap JsServices THEN [n |-> 0, dev |-> TRUE] ELSE cont[s]]
      BY <2>5, KeysLoadedAre DEF Interrupt
    <3>5. cont = [s \in Services |-> cont[s]]
      BY <1>1 DEF InductiveInv, TypeOK
    <3> QED
      BY <3>3, <3>4, <3>5
  <2>6. cont' = cont \/ \E c \in Commands : DockerCompose(c) \/ Interrupt(c)
    BY <1>1 DEF Next, Type, EnsureEnv, CheckKey, WriteKey, Plan, Quiet, vars, containers
  <2> QED
    BY <2>3, <2>4, <2>5, <2>6
<1>2. InductiveInv /\ [Next]_vars =>
        [\A c \in Commands :
           cmd[c].op \in {"infra", "obs", "loadtest"} /\ cmd'[c].at # cmd[c].at
             => \A s \in Overridden : cont'[s] = cont[s]]_vars
  BY <1>1
<1> QED
  BY <1>2, Invariance, PTL DEF Spec, AppsLeftAlone

=============================================================================
