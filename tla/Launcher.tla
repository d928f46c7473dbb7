------------------------------ MODULE Launcher ------------------------------
(***************************************************************************)
(* scripts/roomly.mjs: npm run up, dev, infra, obs, loadtest, down, build  *)
(* and auth:keys.  A command prepares the secrets, turns services.conf     *)
(* into a plan and the plan into docker compose calls, which it runs one   *)
(* after the other.  Several commands may run at once, in shells of their  *)
(* own; they share the files, the images and the containers.               *)
(*                                                                         *)
(* docker compose is external: a call starts what it names and all that    *)
(* this depends on, and recreates a container whose configuration changed. *)
(***************************************************************************)
EXTENDS Integers, Sequences, FiniteSets

CONSTANTS
  Commands,   \* commands, each typed at most once
  Manners,    \* what is typed: whether at once, how many at most, and which
  Confs,      \* contents of services.conf: functions from some keys to integers
  ShellVus,   \* LOADTEST_VUS in a shell or in .env: numbers, 0 when unset
  None

AllOperations ==
  {"up", "dev", "infra", "obs", "loadtest", "down", "build", "ps", "auth:keys", "--force"}

JsServices == {"gateway", "user-service", "notification-service", "media-service"}
PythonServices == {"hotel-service", "booking-service"}
CoreInfraServices == {"postgres", "redis", "rabbitmq", "s3mock"}
ObsCoreServices == {"tempo", "otel-collector", "loki", "grafana", "prometheus"}
Migrations == {"user-migrate", "media-migrate"}
Exporters == {"postgres-exporter", "redis-exporter"}
Scalable == CoreInfraServices \cup JsServices \cup PythonServices
Services ==
  Scalable \cup ObsCoreServices \cup Migrations \cup Exporters \cup {"gateway-lb", "loadtest"}

HostPortServices ==
  {"postgres", "redis", "rabbitmq", "gateway-lb"} \cup PythonServices \cup ObsCoreServices

Keys == Scalable \cup {"obs", "loadtest"}

ASSUME ConfsAreConfs == \A file \in Confs : DOMAIN file \subseteq Keys /\ \A k \in DOMAIN file : file[k] \in Int
ASSUME MannersKnown == 
  Manners \subseteq [overlap : BOOLEAN, most : Nat, ops : SUBSET AllOperations]
ASSUME VusAreNumbers == ShellVus \subseteq Nat
ASSUME NoneIsNoCommand == None \notin Commands \cup AllOperations

(* What docker-compose.dev.yml overrides. *)
Overridden == JsServices \cup PythonServices \cup Migrations

(* depends_on of the compose files. *)
DependsOn(s) ==
  CASE s = "gateway"              -> CoreInfraServices
    [] s \in {"gateway-lb"}       -> {"gateway"}
    [] s = "notification-service" -> {"gateway", "rabbitmq"}
    [] s \in Migrations           -> {"gateway", "postgres"}
    [] s = "user-service"         -> {"gateway", "user-migrate", "postgres", "redis", "rabbitmq"}
    [] s = "media-service"        -> {"gateway", "media-migrate", "postgres", "s3mock"}
    [] s = "hotel-service"        -> {"postgres"}
    [] s = "booking-service"      -> {"postgres", "hotel-service"}
    [] s = "postgres-exporter"    -> {"postgres"}
    [] s = "redis-exporter"       -> {"redis"}
    [] s = "otel-collector"       -> {"tempo", "loki"}
    [] s = "prometheus"           -> {"otel-collector"}
    [] s = "grafana"              -> {"loki", "tempo", "otel-collector", "prometheus"}
    [] s = "loadtest"             -> {"gateway-lb"}
    [] OTHER                      -> {}

(* Three steps reach everything a service depends on. *)
WithDependencies(names) ==
  LET More(set) == set \cup UNION {DependsOn(s) : s \in set}
  IN More(More(More(names)))

-----------------------------------------------------------------------------
(* From services.conf to compose calls. *)

DefaultScale == [k \in Keys |-> IF k = "loadtest" THEN 0 ELSE 1]

(* A missing line, or one without a natural number, leaves the default. *)
LoadServicesConf(file) ==
  [k \in Keys |-> IF k \in DOMAIN file /\ file[k] >= 0 THEN file[k] ELSE DefaultScale[k]]

(* The plan: which services to start, in which number. *)
PlanFromConf(scale) ==
  LET on(k, names) == IF scale[k] > 0 THEN names ELSE {}
      planned ==
        {k \in Scalable : scale[k] > 0}
        \cup on("obs", ObsCoreServices \cup on("postgres", {"postgres-exporter"})
                                       \cup on("redis", {"redis-exporter"}))
        \cup on("gateway", {"gateway-lb"} \cup on("loadtest", {"loadtest"}))
        \cup on("user-service", {"user-migrate"})
        \cup on("media-service", {"media-migrate"})
  IN [s \in planned |-> IF s \in Scalable THEN scale[s] ELSE 1]

(* LOADTEST_VUS after planning: what was set wins over loadtest=N. *)
PlannedVus(vus, scale) ==
  IF vus = 0 /\ "loadtest" \in DOMAIN PlanFromConf(scale) /\ scale["loadtest"] > 1
  THEN scale["loadtest"] ELSE vus

Build(dev, names) == [do |-> "build", dev |-> dev, names |-> names, counts |-> <<>>]
Up(dev, names, counts) == [do |-> "up", dev |-> dev, names |-> names, counts |-> counts]
Recreate(dev, name) == [do |-> "recreate", dev |-> dev, names |-> {name}, counts |-> <<>>]
RunAlone(name) == [do |-> "run", dev |-> FALSE, names |-> {name}, counts |-> <<>>]
Down == [do |-> "down", dev |-> FALSE, names |-> {}, counts |-> <<>>]

If(condition, call) == IF condition THEN <<call>> ELSE <<>>

(* needsGatewayImage and needsPythonImages. *)
Builds(dev, planned) ==
  If(planned \cap (JsServices \cup Migrations) # {}, Build(dev, {"gateway"}))
  \o If(planned \cap PythonServices # {}, Build(dev, planned \cap PythonServices))

(* Variant: k6 is one of the services that up starts. *)
CmdUpTogether(plan) ==
  IF DOMAIN plan = {} THEN <<>>
  ELSE Builds(FALSE, DOMAIN plan) \o <<Up(FALSE, DOMAIN plan, plan)>>

(* Nothing to start: no call at all. *)
CmdUp(plan) ==
  LET planned == DOMAIN plan IN
    IF planned = {} THEN <<>>
    ELSE Builds(FALSE, planned)
         \o <<Up(FALSE, planned \ {"loadtest"}, plan)>>
         \o If("loadtest" \in planned, Recreate(FALSE, "loadtest"))

(* The services of dev; an empty plan leaves no call here either. *)
CmdDev(plan) ==
  LET planned    == DOMAIN plan
      foreground == planned \cap JsServices
      detached   == planned \ (foreground \cup {"loadtest"})
  IN Builds(TRUE, planned)
     \o If(detached # {}, Up(TRUE, detached, plan))
     \o If("loadtest" \in planned, Recreate(TRUE, "loadtest"))
     \o If(foreground # {}, [Up(TRUE, foreground, plan) EXCEPT !.do = "attach"])

(* Variant (a faulty version, not used): k6 is started with its dependencies. *)
CmdLoadtestWithDeps == <<Recreate(FALSE, "loadtest")>>

CmdLoadtest == <<RunAlone("loadtest")>>

(* The plan is empty for the commands that do not read services.conf. *)
Calls(op, plan) ==
  CASE op = "up"       -> CmdUp(plan)
    [] op = "dev"      -> CmdDev(plan)
    [] op = "infra"    -> <<Up(FALSE, CoreInfraServices, <<>>)>>
    [] op = "obs"      -> <<Up(FALSE, ObsCoreServices \cup Exporters, <<>>)>>
    [] op = "loadtest" -> CmdLoadtest
    [] op = "down"     -> <<Down>>
    [] op = "build"    -> <<Build(FALSE, {"gateway"} \cup PythonServices)>>
    [] OTHER           -> <<>>

-----------------------------------------------------------------------------

VARIABLES
  manner,     \* how commands are typed, which never changes
  envFile,    \* LOADTEST_VUS in infra/secrets/.env; None while there is no such file
  keyFile,    \* the command that wrote the JWT key, None while there is none
  cont,       \* per service: number of containers, and whether of the dev overlay
  keys,       \* JWT keys that the containers of user-service have loaded
  cmd         \* progress of the commands

vars == <<manner, envFile, keyFile, cont, keys, cmd>>
files == <<envFile, keyFile>>
containers == <<cont, keys>>

(***************************************************************************)
(* at = "idle" not typed, "env" ensureEnv, "key" and "write" the JWT key,  *)
(* "plan" services.conf not read, "run" compose calls to make, "attached"  *)
(* to the foreground services of dev, "done".  vus is LOADTEST_VUS in the  *)
(* process, scale what was read, step the next call, k6 the VUs of the     *)
(* load test it has started (0: none).  alone: nobody else has run compose *)
(* since the command was typed, and no call of its own was killed by a     *)
(* signal; said: "Roomly is up" was printed when alone, and nobody has run *)
(* compose since.                                                          *)
(***************************************************************************)
CommandStates ==
  [ at : {"idle", "env", "key", "write", "plan", "run", "attached", "done"},
    op : AllOperations \cup {None}, vus : Nat,
    scale : {LoadServicesConf(file) : file \in Confs} \cup {None},
    step : 1..5, k6 : Nat, said : BOOLEAN, alone : BOOLEAN ]

TypeOK ==
  /\ manner \in Manners
  /\ envFile \in ShellVus \cup {0, None}
  /\ keyFile \in Commands \cup {None}
  /\ cont \in [Services -> [n : Nat, dev : BOOLEAN]]
  /\ keys \subseteq Commands
  /\ cmd \in [Commands -> CommandStates]

Init ==
  /\ manner \in Manners
  /\ envFile \in {None} \cup (ShellVus \ {0})
  /\ keyFile = None
  /\ cont = [s \in Services |-> [n |-> 0, dev |-> FALSE]]
  /\ keys = {}
  /\ cmd = [c \in Commands |->
       [at |-> "idle", op |-> None, vus |-> 0, scale |-> None, step |-> 1,
        k6 |-> 0, said |-> FALSE, alone |-> TRUE]]

-----------------------------------------------------------------------------

InProgress == {c \in Commands : cmd[c].at \notin {"idle", "done"}}

OnlyKeys(op) == op \in {"auth:keys", "--force"}

(* vus: LOADTEST_VUS in the shell. *)
Type(c, op, vus) ==
  /\ cmd[c].at = "idle"
  /\ manner.overlap \/ InProgress = {}
  /\ Cardinality({d \in Commands : cmd[d].at # "idle"}) < manner.most
  /\ cmd' = [cmd EXCEPT ![c].op = op, ![c].vus = vus,
                        ![c].at = IF OnlyKeys(op) THEN "key" ELSE "env"]
  /\ UNCHANGED <<manner, files, containers>>

(* ensureEnv copies .env if it is missing, and reads it after the shell. *)
EnsureEnv(c) ==
  /\ cmd[c].at = "env"
  /\ envFile' = IF envFile = None THEN 0 ELSE envFile
  /\ cmd' = [cmd EXCEPT ![c].at = "key", ![c].vus = IF @ = 0 THEN envFile' ELSE @]
  /\ UNCHANGED <<manner, keyFile, containers>>

(* The process is gone; only what it has said, and --force, is remembered. *)
Ended(r) ==
  IF r.said THEN [r EXCEPT !.at = "done"]
  ELSE [r EXCEPT !.at = "done", !.vus = 0, !.scale = None, !.step = 1, !.k6 = 0, !.alone = TRUE,
                 !.op = IF @ = "--force" THEN @ ELSE None]

(* Somebody else runs compose. *)
Disturbed(r) ==
  CASE r.at = "idle" -> r
    [] r.at = "done" -> Ended([r EXCEPT !.said = FALSE])
    [] OTHER         -> [r EXCEPT !.alone = FALSE]

AfterKey(c) ==
  cmd' = [cmd EXCEPT ![c] = IF OnlyKeys(@.op) THEN Ended(@) ELSE [@ EXCEPT !.at = "plan"]]

(* Variant: only npm run auth:keys makes a key. *)
CheckKeyOnRequest(c) ==
  /\ cmd[c].at = "key"
  /\ IF OnlyKeys(cmd[c].op)
     THEN cmd' = [cmd EXCEPT ![c].at = "write"] ELSE AfterKey(c)
  /\ UNCHANGED <<manner, files, containers>>

(* Variant: the key is written whether or not there is one. *)
CheckKeyNever(c) ==
  /\ cmd[c].at = "key"
  /\ cmd' = [cmd EXCEPT ![c].at = "write"]
  /\ UNCHANGED <<manner, files, containers>>

(* ensureDevJwtPrivateKey looks for the key before it makes one... *)
CheckKey(c) ==
  /\ cmd[c].at = "key"
  /\ IF keyFile # None /\ cmd[c].op # "--force"
     THEN AfterKey(c) ELSE cmd' = [cmd EXCEPT ![c].at = "write"]
  /\ UNCHANGED <<manner, files, containers>>

(* ... and writes it without looking again. *)
WriteKey(c) ==
  /\ cmd[c].at = "write"
  /\ keyFile' = c
  /\ AfterKey(c)
  /\ UNCHANGED <<manner, envFile, containers>>

(* VUS: ${LOADTEST_VUS:-10} of docker-compose.loadtest.yml. *)
Vus(r) == IF r.vus = 0 THEN 10 ELSE r.vus

PlanOf(r) == IF r.scale = None THEN <<>> ELSE PlanFromConf(r.scale)

(***************************************************************************)
(* Up and dev read services.conf, which may have been edited since it was  *)
(* last read; with an empty plan there is nothing to start, and they exit. *)
(***************************************************************************)
Plan(c, file) ==
  LET scale == LoadServicesConf(file)
      r     == IF cmd[c].op \in {"up", "dev"}
               THEN [cmd[c] EXCEPT !.scale = scale, !.vus = PlannedVus(@, scale)]
               ELSE cmd[c]
  IN /\ cmd[c].at = "plan"
     /\ cmd' = [cmd EXCEPT ![c] =
          IF Calls(r.op, PlanOf(r)) # <<>> THEN [r EXCEPT !.at = "run"]
          ELSE Ended(r)]
     /\ UNCHANGED <<manner, files, containers>>

-----------------------------------------------------------------------------
(* docker compose. *)

(* A service with a port of its own on the host cannot have two containers. *)
Bindable(call) ==
  \A s \in DOMAIN call.counts \cap call.names \cap HostPortServices : call.counts[s] = 1

(***************************************************************************)
(* What is named gets its --scale, else one container; what it depends on  *)
(* may keep the number it has or be brought back to one.                   *)
(***************************************************************************)
Number(call, s, keep) ==
  CASE s \in call.names /\ s \in DOMAIN call.counts -> call.counts[s]
    [] s \notin call.names /\ keep /\ cont[s].n > 1 -> cont[s].n
    [] OTHER -> 1

(* A container that is made anew loads the key that is there now. *)
KeysLoaded(old, new) ==
  IF new.n = 0 THEN {{}}
  ELSE IF old.n = 0 \/ old.dev # new.dev THEN {{keyFile}}
  ELSE IF new.n > old.n THEN {keys \cup {keyFile}}
  ELSE IF new.n = old.n THEN {keys}
  ELSE SUBSET keys \ {{}}

Becomes(new) ==
  /\ cont' = new
  /\ keys' \in KeysLoaded(cont["user-service"], new["user-service"])

(* An exited load test is started again by up, or not; recreating it starts it. *)
K6(r, call) ==
  CASE "loadtest" \notin call.names -> {r.k6}
    [] "loadtest" \in call.names /\ call.do = "up" /\ cont["loadtest"].n > 0 -> {0, Vus(r)}
    [] OTHER -> {Vus(r)}

TakesEffect(call) ==
  CASE call.do \in {"build", "run"} -> UNCHANGED containers
    [] call.do = "down" -> Becomes([s \in Services |-> [n |-> 0, dev |-> FALSE]])
    [] OTHER ->
         LET started == WithDependencies(call.names) IN
           \E keep \in BOOLEAN :
             Becomes([s \in Services |->
               IF s \in started
               THEN [n |-> Number(call, s, keep), dev |-> call.dev /\ s \in Overridden]
               ELSE cont[s]])

(***************************************************************************)
(* run: an exit status ends the command with an error, but a child that a  *)
(* signal has killed has none, and the command goes on as if it were done. *)
(***************************************************************************)
Outcomes(r, call) ==
  LET last   == r.step = Len(Calls(r.op, PlanOf(r)))
      goesOn == CASE ~last                       -> [r EXCEPT !.step = @ + 1]
                  [] last /\ call.do = "attach" -> [r EXCEPT !.at = "attached"]
                  [] OTHER                       -> Ended([r EXCEPT !.said = (r.op = "up") /\ r.alone])
  IN [ok |-> goesOn, error |-> Ended(r), signal |-> Disturbed(goesOn)]

DockerCompose(c) ==
  LET call == Calls(cmd[c].op, PlanOf(cmd[c]))[cmd[c].step] IN
  /\ cmd[c].at = "run"
  /\ \E end \in {"ok", "error", "signal"}, vus \in K6(cmd[c], call) :
       /\ end = "ok" => Bindable(call) /\ TakesEffect(call)
       /\ end # "ok" => UNCHANGED containers \/ TakesEffect(call)
       /\ cmd' = [d \in Commands |->
            IF d = c THEN Outcomes([cmd[c] EXCEPT !.k6 = vus], call)[end] ELSE Disturbed(cmd[d])]
  /\ UNCHANGED <<manner, files>>

(* Ctrl-C stops the services that dev is attached to. *)
Interrupt(c) ==
  /\ cmd[c].at = "attached"
  /\ Becomes([s \in Services |->
       IF s \in DOMAIN PlanOf(cmd[c]) \cap JsServices THEN [n |-> 0, dev |-> TRUE] ELSE cont[s]])
  /\ cmd' = [d \in Commands |->
       IF d = c THEN Ended(cmd[c]) ELSE Disturbed(cmd[d])]
  /\ UNCHANGED <<manner, files>>

Quiet ==
  /\ InProgress = {}
  /\ UNCHANGED vars

Next ==
  \/ \E c \in Commands :
       \/ \E op \in manner.ops, vus \in ShellVus : Type(c, op, vus)
       \/ EnsureEnv(c) \/ CheckKey(c) \/ WriteKey(c)
       \/ \E file \in Confs : Plan(c, file)
       \/ DockerCompose(c) \/ Interrupt(c)
  \/ Quiet

Spec == Init /\ [][Next]_vars

-----------------------------------------------------------------------------

(***************************************************************************)
(* "Roomly is up" is true (roomly.mjs:323): unless a compose call was      *)
(* killed or another command got in between, something was planned, every  *)
(* planned service runs from the base files in the planned number (except  *)
(* that the load test's own call may bring gateway and s3mock, which it    *)
(* depends on and gives no number, back to one), and a planned load test   *)
(* was started by this very command, with loadtest=N, N > 1, VUs when      *)
(* LOADTEST_VUS is unset (services.conf:11).                               *)
(***************************************************************************)
UpMeansPlan ==
  \A c \in Commands : cmd[c].said =>
    LET plan == PlanOf(cmd[c]) IN
      /\ DOMAIN plan # {}
      /\ \A s \in DOMAIN plan :
           /\ cont[s].n > 0 /\ ~cont[s].dev
           /\ cont[s].n = plan[s] \/ (s \in {"gateway", "s3mock"} /\ "loadtest" \in DOMAIN plan)
      /\ "loadtest" \in DOMAIN plan =>
           /\ cmd[c].k6 = Vus(cmd[c])
           /\ cmd[c].vus = 0 => cmd[c].scale["loadtest"] = 1

(***************************************************************************)
(* The containers of user-service sign with one key, however often it is   *)
(* started, scaled or rebuilt, if nobody types --force and no two commands *)
(* are in progress at once (generate-jwt-keys.mjs:25).                     *)
(***************************************************************************)
ReplicasShareKey ==
  ~manner.overlap /\ (\A c \in Commands : cmd[c].op # "--force") => Cardinality(keys) <= 1

(***************************************************************************)
(* Infra, obs and loadtest never recreate, scale or stop an application    *)
(* container, whichever stack runs (roomly.mjs:418 "do not recreate        *)
(* gateway from base compose").                                            *)
(***************************************************************************)
AppsLeftAlone ==
  [][\A c \in Commands :
       cmd[c].op \in {"infra", "obs", "loadtest"} /\ cmd'[c].at # cmd[c].at
         => \A s \in Overridden : cont'[s] = cont[s]]_vars

-----------------------------------------------------------------------------
(* Why they hold. *)

(***************************************************************************)
(* A command knows nothing of services.conf before it has its key, and     *)
(* unless it is up or dev never does, has a call to make while it runs,    *)
(* says something only at its end, and has the VUs of a planned load test  *)
(* before its first call.                                                  *)
(***************************************************************************)
CommandInStep(r) ==
  /\ r.at = "idle" => r.op = None
  /\ r.at \in {"env", "plan", "run", "attached"} => ~OnlyKeys(r.op)
  /\ r.at \notin {"run", "attached", "done"} => r.scale = None /\ r.step = 1
  /\ r.op \notin {"up", "dev"} => r.scale = None
  /\ r.at = "run" => r.step <= Len(Calls(r.op, PlanOf(r)))
  /\ r.said => r.at = "done" /\ r.op = "up"
  /\ r.op = "up" /\ r.vus = 0 /\ "loadtest" \in DOMAIN PlanOf(r) => r.scale["loadtest"] = 1

(* No container is started without a key, and one command at a time writes one only once. *)
KeyInStep(c) ==
  /\ cmd[c].at \in {"plan", "run", "attached"} => keyFile # None
  /\ ~manner.overlap /\ cmd[c].at = "write" /\ cmd[c].op # "--force" => keyFile = None

(* The call of up that starts the services, by its number. *)
UpAt(plan) == Len(Builds(FALSE, DOMAIN plan)) + 1

(* Between this call and that for the load test, what was started stands. *)
StartedStands(c) ==
  LET plan == PlanOf(cmd[c]) IN
    cmd[c].at = "run" /\ cmd[c].op = "up" /\ cmd[c].alone /\ cmd[c].step > UpAt(plan) =>
      \A s \in DOMAIN plan \ {"loadtest"} :
        /\ cont[s].n = plan[s] /\ ~cont[s].dev
        /\ s \in HostPortServices => plan[s] = 1

(* The inductive invariant. *)
InductiveInv ==
  /\ TypeOK
  /\ ~manner.overlap => \A c, d \in InProgress : c = d
  /\ ~manner.overlap /\ (\A c \in Commands : cmd[c].op # "--force") => keys \subseteq {keyFile}
  /\ \A c \in Commands : CommandInStep(cmd[c]) /\ KeyInStep(c) /\ StartedStands(c)
  /\ UpMeansPlan

=============================================================================
