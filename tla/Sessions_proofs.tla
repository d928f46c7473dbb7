--------------------------- MODULE Sessions_proofs ---------------------------
(***************************************************************************)
(* Proofs about Sessions, for any number of requests, any environment and  *)
(* any lifetimes and rounding of the clock.                                *)
(***************************************************************************)
EXTENDS Sessions, Integers, TLAPS

-----------------------------------------------------------------------------
(* Rounding the clock. *)

LEMMA SecondsFloor ==
  ASSUME NEW t \in Nat
  PROVE  /\ Seconds(t) \in Nat
         /\ Seconds(t) * TicksPerSecond <= t
         /\ t < (Seconds(t) + 1) * TicksPerSecond
<1>1. TicksPerSecond \in Nat /\ TicksPerSecond > 0
  BY TimesPositive
<1> QED
  BY <1>1 DEF Seconds

LEMMA ProductsGrow ==
  ASSUME NEW a \in Int, NEW b \in Int, a <= b
  PROVE  a * TicksPerSecond <= b * TicksPerSecond
<1>1. TicksPerSecond \in Nat
  BY TimesPositive
<1>2. (b - a) * TicksPerSecond >= 0
  BY <1>1
<1> QED
  BY <1>1, <1>2

LEMMA SecondsReached ==
  ASSUME NEW t \in Nat, NEW k \in Int, k * TicksPerSecond <= t
  PROVE  k <= Seconds(t)
<1>1. TicksPerSecond \in Nat
  BY TimesPositive
<1>2. Seconds(t) \in Nat /\ t < (Seconds(t) + 1) * TicksPerSecond
  BY SecondsFloor
<1>3. ASSUME Seconds(t) + 1 <= k PROVE FALSE
  <2>1. (Seconds(t) + 1) * TicksPerSecond <= k * TicksPerSecond
    BY <1>2, <1>3, ProductsGrow
  <2>2. PICK a \in Int : a = (Seconds(t) + 1) * TicksPerSecond
    BY <1>1, <1>2
  <2>3. PICK b \in Int : b = k * TicksPerSecond
    BY <1>1
  <2> QED
    BY <1>2, <2>1, <2>2, <2>3
<1> QED
  BY <1>2, <1>3

LEMMA SecondsGrow ==
  ASSUME NEW t \in Nat, NEW u \in Nat, t <= u
  PROVE  Seconds(t) <= Seconds(u)
<1>1. Seconds(t) \in Nat /\ Seconds(t) * TicksPerSecond <= t
  BY SecondsFloor
<1>2. PICK a \in Int : a = Seconds(t) * TicksPerSecond
  BY <1>1, TimesPositive
<1>3. Seconds(t) * TicksPerSecond <= u
  BY <1>1, <1>2
<1> QED
  BY <1>1, <1>3, SecondsReached

-----------------------------------------------------------------------------
(* The type invariant in parts, and what the updates of a request do. *)

ReqTyped == req \in [Requests -> RequestStates]

PairsTyped ==
  /\ jar \in Requests \cup {None}
  /\ exp \in [Requests -> Nat]
  /\ family \in [Requests -> Requests \cup {None}]

RedisTyped ==
  /\ store \in [Requests -> Nat]
  /\ deny \in [Requests -> Nat]
  /\ denied \subseteq Requests
  /\ spent \subseteq Requests

LEMMA TypeParts ==
  TypeOK <=> /\ env \in Environments /\ now \in 0..MaxNow
             /\ ReqTyped /\ PairsTyped /\ RedisTyped
  BY DEF TypeOK, ReqTyped, PairsTyped, RedisTyped

Ops == Operations \cup {"none"}

Ids == Requests \cup {None}

LEMMA RequestStatesAre ==
  RequestStates =
    [ at : Stages, op : Ops, access : Ids, refresh : Ids, jti : Ids,
      ttl : 0..AccessTtl, stale : BOOLEAN, status : Statuses ]
  BY DEF RequestStates, Ops, Ids

LEMMA LiteralsAre ==
  /\ {"check", "get", "del", "sign", "save", "verify", "isRevoked", "logout", "deny", "revoke",
      "reply", "done"} \subseteq Stages
  /\ Statuses = {0, 200, 204, 401, 500}
  /\ Operations \subseteq Ops
  /\ None \in Ids /\ Requests \subseteq Ids
  /\ 0 \in 0..AccessTtl
  BY TimesPositive DEF Stages, Statuses, Ops, Ids

Says(f, at, op, access, refresh, jti, ttl, stale, status) ==
  /\ f \in RequestStates
  /\ f.at = at /\ f.op = op /\ f.access = access /\ f.refresh = refresh
  /\ f.jti = jti /\ f.ttl = ttl /\ f.stale = stale /\ f.status = status

LEMMA OneField ==
  ASSUME NEW r \in RequestStates
  PROVE  /\ \A x \in Stages : [r EXCEPT !.at = x] \in RequestStates
         /\ \A x \in Ids : [r EXCEPT !.jti = x] \in RequestStates
         /\ \A x \in 0..AccessTtl : [r EXCEPT !.ttl = x] \in RequestStates
         /\ \A x \in Statuses : [r EXCEPT !.status = x] \in RequestStates
<1>1. ASSUME NEW x \in Stages PROVE [r EXCEPT !.at = x] \in RequestStates
  BY RequestStatesAre
<1>2. ASSUME NEW x \in Ids PROVE [r EXCEPT !.jti = x] \in RequestStates
  BY RequestStatesAre
<1>3. ASSUME NEW x \in 0..AccessTtl PROVE [r EXCEPT !.ttl = x] \in RequestStates
  BY RequestStatesAre
<1>4. ASSUME NEW x \in Statuses PROVE [r EXCEPT !.status = x] \in RequestStates
  BY RequestStatesAre
<1> QED
  BY <1>1, <1>2, <1>3, <1>4

LEMMA StageSays ==
  ASSUME NEW r \in RequestStates, NEW x \in Stages
  PROVE  Says([r EXCEPT !.at = x], x, r.op, r.access, r.refresh, r.jti, r.ttl, r.stale, r.status)
<1> DEFINE f == [r EXCEPT !.at = x]
<1>1. f \in RequestStates
  BY OneField
<1>2. /\ f.at = x /\ f.op = r.op /\ f.access = r.access /\ f.refresh = r.refresh
      /\ f.jti = r.jti /\ f.ttl = r.ttl /\ f.stale = r.stale /\ f.status = r.status
  BY RequestStatesAre
<1> QED
  BY <1>1, <1>2 DEF Says

LEMMA StatusSays ==
  ASSUME NEW r \in RequestStates, NEW x \in Statuses
  PROVE  Says([r EXCEPT !.status = x], r.at, r.op, r.access, r.refresh, r.jti, r.ttl, r.stale, x)
<1> DEFINE f == [r EXCEPT !.status = x]
<1>1. f \in RequestStates
  BY OneField
<1>2. /\ f.at = r.at /\ f.op = r.op /\ f.access = r.access /\ f.refresh = r.refresh
      /\ f.jti = r.jti /\ f.ttl = r.ttl /\ f.stale = r.stale /\ f.status = x
  BY RequestStatesAre
<1> QED
  BY <1>1, <1>2 DEF Says

LEMMA TtlSays ==
  ASSUME NEW r \in RequestStates, NEW x \in 0..AccessTtl
  PROVE  Says([r EXCEPT !.ttl = x], r.at, r.op, r.access, r.refresh, r.jti, x, r.stale, r.status)
<1> DEFINE f == [r EXCEPT !.ttl = x]
<1>1. f \in RequestStates
  BY OneField
<1>2. /\ f.at = r.at /\ f.op = r.op /\ f.access = r.access /\ f.refresh = r.refresh
      /\ f.jti = r.jti /\ f.ttl = x /\ f.stale = r.stale /\ f.status = r.status
  BY RequestStatesAre
<1> QED
  BY <1>1, <1>2 DEF Says

LEMMA ClaimsSays ==
  ASSUME NEW r \in RequestStates, NEW x \in Ids
  PROVE  Says([r EXCEPT !.jti = x], r.at, r.op, r.access, r.refresh, x, r.ttl, r.stale, r.status)
<1> DEFINE f == [r EXCEPT !.jti = x]
<1>1. f \in RequestStates
  BY OneField
<1>2. /\ f.at = r.at /\ f.op = r.op /\ f.access = r.access /\ f.refresh = r.refresh
      /\ f.jti = x /\ f.ttl = r.ttl /\ f.stale = r.stale /\ f.status = r.status
  BY RequestStatesAre
<1> QED
  BY <1>1, <1>2 DEF Says

(* The request q becomes the record f. *)
Puts(q, f) == req' = [req EXCEPT ![q] = f]

(* The request q now has these fields, and the others what they had. *)
Becomes(q, at, op, access, refresh, jti, ttl, stale, status) ==
  /\ ReqTyped'
  /\ \A p \in Requests : p # q => req'[p] = req[p]
  /\ Says(req'[q], at, op, access, refresh, jti, ttl, stale, status)

LEMMA PutBecomes ==
  ASSUME ReqTyped, NEW q \in Requests, NEW f, Puts(q, f),
         NEW at, NEW op, NEW access, NEW refresh, NEW jti, NEW ttl, NEW stale, NEW status,
         Says(f, at, op, access, refresh, jti, ttl, stale, status)
  PROVE  Becomes(q, at, op, access, refresh, jti, ttl, stale, status)
<1>1. f \in RequestStates
  BY DEF Says
<1>2. ReqTyped' /\ req'[q] = f /\ \A p \in Requests : p # q => req'[p] = req[p]
  BY <1>1 DEF ReqTyped, Puts
<1> QED
  BY <1>2 DEF Becomes

(* The kinds of move. *)
Moves(q, at, jti, ttl, status) ==
  Becomes(q, at, req[q].op, req[q].access, req[q].refresh, jti, ttl, req[q].stale, status)

LEMMA GoToMoves ==
  ASSUME ReqTyped, NEW q \in Requests, NEW stage \in Stages, GoTo(q, stage)
  PROVE  Moves(q, stage, req[q].jti, req[q].ttl, req[q].status)
<1>1. PICK r : r = req[q]
  OBVIOUS
<1>2. PICK f : f = [r EXCEPT !.at = stage]
  OBVIOUS
<1>3. r \in RequestStates
  BY <1>1 DEF ReqTyped
<1>4. Says(f, stage, r.op, r.access, r.refresh, r.jti, r.ttl, r.stale, r.status)
  BY <1>2, <1>3, StageSays
<1>5. Puts(q, f)
  BY <1>1, <1>2 DEF GoTo, Puts
<1> QED
  BY <1>1, <1>4, <1>5, PutBecomes DEF Moves

Ends(q, stage, status) == req' = [req EXCEPT ![q] = [@ EXCEPT !.at = stage, !.status = status]]

LEMMA EndMoves ==
  ASSUME ReqTyped, NEW q \in Requests, NEW stage \in Stages, NEW status \in Statuses,
         Ends(q, stage, status)
  PROVE  Moves(q, stage, req[q].jti, req[q].ttl, status)
<1>1. PICK r : r = req[q]
  OBVIOUS
<1>2. PICK g : g = [r EXCEPT !.at = stage]
  OBVIOUS
<1>3. PICK f : f = [g EXCEPT !.status = status]
  OBVIOUS
<1>4. r \in RequestStates
  BY <1>1 DEF ReqTyped
<1>5. Says(g, stage, r.op, r.access, r.refresh, r.jti, r.ttl, r.stale, r.status)
  BY <1>2, <1>4, StageSays
<1>6. g \in RequestStates
  BY <1>5 DEF Says
<1>7. Says(f, g.at, g.op, g.access, g.refresh, g.jti, g.ttl, g.stale, status)
  BY <1>3, <1>6, StatusSays
<1>8. Says(f, stage, r.op, r.access, r.refresh, r.jti, r.ttl, r.stale, status)
  BY <1>5, <1>7 DEF Says
<1>9. Puts(q, f)
  BY <1>1, <1>2, <1>3 DEF Ends, Puts
<1> QED
  BY <1>1, <1>8, <1>9, PutBecomes DEF Moves

LEMMA ReplyMoves ==
  ASSUME ReqTyped, NEW q \in Requests, NEW status \in Statuses, Reply(q, status)
  PROVE  Moves(q, "reply", req[q].jti, req[q].ttl, status)
<1>1. Ends(q, "reply", status)
  BY DEF Reply, Ends
<1>2. "reply" \in Stages
  BY LiteralsAre
<1> QED
  BY <1>1, <1>2, EndMoves

LEMMA MoveOnMoves ==
  ASSUME ReqTyped, NEW q \in Requests, NEW stage \in Stages, NEW ttl \in 0..AccessTtl,
         MoveOn(q, stage, ttl)
  PROVE  Moves(q, stage, req[q].jti, ttl, IF stage = "reply" THEN 204 ELSE 0)
<1>1. PICK r : r = req[q]
  OBVIOUS
<1>2. PICK status : status = IF stage = "reply" THEN 204 ELSE 0
  OBVIOUS
<1>3. PICK g : g = [r EXCEPT !.at = stage]
  OBVIOUS
<1>4. PICK k : k = [g EXCEPT !.ttl = ttl]
  OBVIOUS
<1>5. PICK f : f = [k EXCEPT !.status = status]
  OBVIOUS
<1>6. r \in RequestStates /\ status \in Statuses
  BY <1>1, <1>2, LiteralsAre DEF ReqTyped
<1>7. Says(g, stage, r.op, r.access, r.refresh, r.jti, r.ttl, r.stale, r.status)
  BY <1>3, <1>6, StageSays
<1>8. g \in RequestStates
  BY <1>7 DEF Says
<1>9. Says(k, g.at, g.op, g.access, g.refresh, g.jti, ttl, g.stale, g.status)
  BY <1>4, <1>8, TtlSays
<1>10. k \in RequestStates
  BY <1>9 DEF Says
<1>11. Says(f, k.at, k.op, k.access, k.refresh, k.jti, k.ttl, k.stale, status)
  BY <1>5, <1>6, <1>10, StatusSays
<1>12. Says(f, stage, r.op, r.access, r.refresh, r.jti, ttl, r.stale, status)
  BY <1>7, <1>9, <1>11 DEF Says
<1>13. Puts(q, f)
  BY <1>1, <1>2, <1>3, <1>4, <1>5 DEF MoveOn, Puts
<1> QED
  BY <1>1, <1>2, <1>12, <1>13, PutBecomes DEF Moves

LEMMA ClaimsMove ==
  ASSUME ReqTyped, NEW q \in Requests,
         req' = [req EXCEPT ![q] = [@ EXCEPT !.at = "logout", !.jti = req[q].access]]
  PROVE  Moves(q, "logout", req[q].access, req[q].ttl, req[q].status)
<1>1. PICK r : r = req[q]
  OBVIOUS
<1>2. PICK g : g = [r EXCEPT !.at = "logout"]
  OBVIOUS
<1>3. PICK f : f = [g EXCEPT !.jti = r.access]
  OBVIOUS
<1>4. r \in RequestStates
  BY <1>1 DEF ReqTyped
<1>5. r.access \in Ids
  BY <1>4, RequestStatesAre
<1>6. Says(g, "logout", r.op, r.access, r.refresh, r.jti, r.ttl, r.stale, r.status)
  BY <1>2, <1>4, StageSays, LiteralsAre
<1>7. g \in RequestStates
  BY <1>6 DEF Says
<1>8. Says(f, g.at, g.op, g.access, g.refresh, r.access, g.ttl, g.stale, g.status)
  BY <1>3, <1>5, <1>7, ClaimsSays
<1>9. Says(f, "logout", r.op, r.access, r.refresh, r.access, r.ttl, r.stale, r.status)
  BY <1>6, <1>8 DEF Says
<1>10. Puts(q, f)
  BY <1>1, <1>2, <1>3 DEF Puts
<1> QED
  BY <1>1, <1>9, <1>10, PutBecomes DEF Moves

(* A request arrives, with a status if it is refused at once. *)
Arrives(q, stage, op, access, refresh, status) ==
  Puts(q, [Sent(stage, op, access, refresh) EXCEPT !.status = status])

LEMMA ArrivalMoves ==
  ASSUME ReqTyped, NEW q \in Requests, NEW stage \in Stages, NEW op \in Operations,
         NEW access \in Ids, NEW refresh \in Ids, NEW status \in Statuses,
         Arrives(q, stage, op, access, refresh, status)
  PROVE  \E stale \in BOOLEAN :
           /\ stale => op = "me" /\ access \in denied
           /\ Becomes(q, stage, op, access, refresh, None, 0, stale, status)
<1>1. PICK stale \in BOOLEAN : stale = (op = "me" /\ access \in denied)
  OBVIOUS
<1>2. PICK g : g = Sent(stage, op, access, refresh)
  OBVIOUS
<1>3. PICK f : f = [g EXCEPT !.status = status]
  OBVIOUS
<1>4. op \in Ops /\ None \in Ids /\ 0 \in 0..AccessTtl /\ 0 \in Statuses
  BY LiteralsAre
<1>5. g = [ at |-> stage, op |-> op, access |-> access, refresh |-> refresh, jti |-> None,
            ttl |-> 0, stale |-> stale, status |-> 0 ]
  BY <1>1, <1>2 DEF Sent
<1>6. g \in RequestStates
  BY <1>4, <1>5, RequestStatesAre
<1>7. Says(g, stage, op, access, refresh, None, 0, stale, 0)
  BY <1>5, <1>6 DEF Says
<1>8. Says(f, g.at, g.op, g.access, g.refresh, g.jti, g.ttl, g.stale, status)
  BY <1>3, <1>6, StatusSays
<1>9. Says(f, stage, op, access, refresh, None, 0, stale, status)
  BY <1>7, <1>8 DEF Says
<1>10. Puts(q, f)
  BY <1>2, <1>3 DEF Arrives
<1>11. Becomes(q, stage, op, access, refresh, None, 0, stale, status)
  BY <1>9, <1>10, PutBecomes
<1> QED
  BY <1>1, <1>11

-----------------------------------------------------------------------------
(* A request moves: the others stay in step, and so does it. *)

(***************************************************************************)
(* What a step of the request q leaves alone: the clock, the other         *)
(* requests and their pairs, except that refresh tokens may be used up.    *)
(***************************************************************************)
Frame(q) ==
  /\ UNCHANGED <<env, now>>
  /\ req[q].at # "done"
  /\ \A p \in Requests : p # q => req'[p] = req[p]
  /\ \A p \in Requests : p # q \/ Issued(p) => exp'[p] = exp[p]
  /\ \A p \in Requests : p # q => store'[p] = store[p] \/ p \in spent'
  /\ spent \subseteq spent' /\ denied \subseteq denied'

LEMMA Standing ==
  ASSUME InductiveInv, NEW q \in Requests
  PROVE  /\ TokensInStep(q) /\ StagesInStep(q) /\ EffectsInStep(q)
         /\ req[q] \in RequestStates
         /\ req[q].access \in Ids /\ req[q].refresh \in Ids /\ req[q].jti \in Ids
         /\ exp[q] \in Nat /\ store[q] \in Nat /\ deny[q] \in Nat /\ family[q] \in Ids
         /\ now \in Nat /\ Seconds(now) \in Nat
         /\ ReqTyped /\ PairsTyped /\ RedisTyped
<1>1. ReqTyped /\ PairsTyped /\ RedisTyped /\ now \in Nat
  BY TypeParts DEF InductiveInv
<1>2. req[q] \in RequestStates
  BY <1>1 DEF ReqTyped
<1>3. req[q].access \in Ids /\ req[q].refresh \in Ids /\ req[q].jti \in Ids
  BY <1>2, RequestStatesAre
<1>4. exp[q] \in Nat /\ store[q] \in Nat /\ deny[q] \in Nat /\ family[q] \in Ids
  BY <1>1 DEF PairsTyped, RedisTyped, Ids
<1>5. Seconds(now) \in Nat
  BY <1>1, SecondsFloor
<1> QED
  BY <1>1, <1>2, <1>3, <1>4, <1>5 DEF InductiveInv

(* A pair that was given stays given, and issued as it was. *)
LEMMA GivenStays ==
  ASSUME InductiveInv, NEW q \in Requests, Frame(q), NEW p \in Requests, Given(p)
  PROVE  p # q /\ Given(p)' /\ exp'[p] = exp[p] /\ Issued(p)
<1>1. p # q
  BY DEF Given, Frame
<1>2. req'[p] = req[p] /\ exp'[p] = exp[p]
  BY <1>1 DEF Frame
<1>3. Issued(p)
  BY Standing DEF Given, EffectsInStep
<1> QED
  BY <1>1, <1>2, <1>3 DEF Given

LEMMA OthersStay ==
  ASSUME InductiveInv, NEW q \in Requests, Frame(q), NEW p \in Requests, p # q
  PROVE  StagesInStep(p)' /\ EffectsInStep(p)'
<1>1. /\ req'[p] = req[p] /\ exp'[p] = exp[p] /\ now' = now /\ env' = env
      /\ spent \subseteq spent' /\ denied \subseteq denied'
      /\ store'[p] = store[p] \/ p \in spent'
  BY DEF Frame
<1>2. /\ StagesInStep(p) /\ EffectsInStep(p)
      /\ req[p].access \in Ids /\ req[p].refresh \in Ids /\ req[p].jti \in Ids
  BY Standing
<1>3. /\ req[p].access # None =>
           Given(req[p].access) /\ Given(req[p].access)' /\ exp'[req[p].access] = exp[req[p].access]
      /\ req[p].refresh # None => Given(req[p].refresh) /\ Given(req[p].refresh)'
  <2>1. \A x \in Requests : Given(x) => Given(x)' /\ exp'[x] = exp[x]
    BY GivenStays
  <2>2. /\ req[p].access # None => req[p].access \in Requests /\ Given(req[p].access)
        /\ req[p].refresh # None => req[p].refresh \in Requests /\ Given(req[p].refresh)
    BY <1>2 DEF StagesInStep, Ids
  <2> QED
    BY <1>1, <2>1, <2>2 DEF Given
<1>4. StagesInStep(p)'
  BY <1>1, <1>2, <1>3 DEF StagesInStep, Issued, Given
<1>5. Lasts(p) => Lasts(p)'
  BY <1>1 DEF Lasts
<1>6. EndsAccess(req[p].access) => EndsAccess(req[p].access)'
  BY <1>1, <1>3 DEF EndsAccess, Expired
<1>7. EffectsInStep(p)'
  BY <1>1, <1>2, <1>5, <1>6 DEF EffectsInStep, Issued, Took, LoggedOut, At
<1> QED
  BY <1>4, <1>7

(* What the invariant asks of a request with these fields. *)
StagesMay(q, at, op, access, refresh, jti, ttl, stale, status) ==
  /\ at \notin {"reply", "done"} => status = 0
  /\ at \in InFlight \ {"save", "reply"} \/ at = "idle" => ~(exp'[q] > 0)
  /\ at = "save" => exp'[q] > 0
  /\ at \in {"verify", "isRevoked"} => op \in {"me", "logout"} /\ access # None
  /\ at \in {"get", "del"} => refresh # None
  /\ at = "deny" => jti # None /\ ttl + Seconds(now) >= exp'[jti]
  /\ at = "revoke" => refresh # None
  /\ jti \in {None, access}
  /\ access # None => access \in Requests /\ Given(access)
  /\ refresh # None => refresh \in Requests /\ Given(refresh)
  /\ stale => access \in denied'

EffectsMay(q, at, op, access, refresh, jti, status) ==
  /\ status = 200 /\ op \in {"sign_in", "refresh"} =>
       /\ exp'[q] > 0
       /\ q \in spent' \/ store'[q] >= (exp'[q] - AccessTtl + RefreshTtl) * TicksPerSecond
  /\ op = "refresh" /\ (at \in {"sign", "save"} \/ status = 200) => refresh \in spent'
  /\ op = "logout" /\ status = 204 /\ refresh # None => refresh \in spent'
  /\ "redis" \notin env.faults =>
       /\ at = "logout" /\ op = "logout" /\ jti = None =>
            access = None \/ access \in denied' \/ exp'[access] <= Seconds(now)
       /\ op = "logout" /\ (at = "revoke" \/ status = 204) =>
            access = None \/ access \in denied' \/ exp'[access] <= Seconds(now)

LEMMA MoverStays ==
  ASSUME InductiveInv, NEW q \in Requests, Frame(q),
         NEW at, NEW op, NEW access, NEW refresh, NEW jti, NEW ttl, NEW stale, NEW status,
         Becomes(q, at, op, access, refresh, jti, ttl, stale, status),
         StagesMay(q, at, op, access, refresh, jti, ttl, stale, status),
         EffectsMay(q, at, op, access, refresh, jti, status)
  PROVE  StagesInStep(q)' /\ EffectsInStep(q)'
<1>1. /\ req'[q].at = at /\ req'[q].op = op /\ req'[q].access = access
      /\ req'[q].refresh = refresh /\ req'[q].jti = jti /\ req'[q].ttl = ttl
      /\ req'[q].stale = stale /\ req'[q].status = status
  BY DEF Becomes, Says
<1>2. now' = now /\ env' = env
  BY DEF Frame
<1>4. /\ access # None => Given(access)'
      /\ refresh # None => Given(refresh)'
  BY GivenStays DEF StagesMay
<1>5. /\ req'[q].access # None => Given(req[q].access)'
      /\ req'[q].refresh # None => Given(req[q].refresh)'
  BY <1>1, <1>4 DEF Given
<1>6. StagesInStep(q)'
  BY <1>1, <1>2, <1>5 DEF StagesInStep, StagesMay, Issued
<1>7. EffectsInStep(q)'
  BY <1>1, <1>2 DEF EffectsInStep, EffectsMay, Issued, Lasts, Took, LoggedOut, At, EndsAccess, Expired
<1> QED
  BY <1>6, <1>7

(* A step that issues, spends and denies nothing. *)
LEMMA TokensStay ==
  ASSUME InductiveInv, NEW q \in Requests, Frame(q), UNCHANGED <<tokenVars, redisVars>>,
         NEW p \in Requests
  PROVE  TokensInStep(p)'
<1>1. /\ exp' = exp /\ family' = family /\ store' = store /\ deny' = deny /\ now' = now
      /\ spent' = spent /\ denied' = denied
  BY DEF Frame, tokenVars, redisVars
<1>2. Given(p) => Given(p)'
  BY GivenStays
<1> QED
  BY <1>1, <1>2, Standing DEF TokensInStep, Issued

-----------------------------------------------------------------------------
(* A request moves alone. *)

(* What a calm environment asks of such a move. *)
CalmMay(q, at, op, refresh, status) ==
  /\ at \in InFlight =>
       req[q].at \in InFlight \/ \A p \in Requests : req[p].at \notin InFlight
  /\ ~Settles(q) \/ (op = "refresh" /\ at = "reply" /\ status = 200)
  /\ op = "refresh" /\ (at \in {"sign", "save"} \/ status = 200) =>
       Took(q) /\ refresh = req[q].refresh
  /\ op = "refresh" => at # "sign"
  /\ op = "logout" /\ status = 204 /\ refresh # None =>
       LoggedOut(q) /\ refresh = req[q].refresh
  /\ at \in {"get", "del", "verify", "isRevoked", "logout", "deny", "revoke"} /\ refresh # None =>
       refresh \notin spent

LEMMA CalmMoveKeeps ==
  ASSUME InductiveInv, NEW q \in Requests, Frame(q), UNCHANGED <<jar, tokenVars, spent>>,
         NEW at, NEW op, NEW access, NEW refresh, NEW jti, NEW ttl, NEW stale, NEW status,
         Becomes(q, at, op, access, refresh, jti, ttl, stale, status),
         Calm => CalmMay(q, at, op, refresh, status)
  PROVE  CalmChains'
<1>1. /\ req'[q].at = at /\ req'[q].op = op /\ req'[q].refresh = refresh /\ req'[q].status = status
      /\ \A p \in Requests : p # q => req'[p] = req[p]
  BY DEF Becomes, Says
<1>2. /\ exp' = exp /\ family' = family /\ spent' = spent /\ env' = env /\ jar' = jar
  BY DEF Frame, tokenVars
<1> SUFFICES ASSUME Calm, Calm'
             PROVE  CalmChains'
  BY <1>2 DEF CalmChains, Calm
<1>3. CalmMay(q, at, op, refresh, status)
  OBVIOUS
<1>4. \A p \in Requests : Live(p)' <=> Live(p)
  BY <1>2 DEF Live, Issued
<1>6. ASSUME NEW p \in Requests
      PROVE  /\ Took(p)' => Took(p) /\ req'[p].refresh = req[p].refresh
             /\ LoggedOut(p)' /\ req'[p].refresh # None =>
                  LoggedOut(p) /\ req'[p].refresh = req[p].refresh
             /\ At(p, "sign", "refresh")' => At(p, "sign", "refresh") /\ req'[p].refresh = req[p].refresh
             /\ Presents(p)' => req'[p].refresh \notin spent
             /\ Settles(p) => Settles(p)'
  <2>1. CASE p = q
    <3>1. /\ Took(p)' => Took(p) /\ req'[p].refresh = req[p].refresh
          /\ LoggedOut(p)' /\ req'[p].refresh # None =>
               LoggedOut(p) /\ req'[p].refresh = req[p].refresh
          /\ At(p, "sign", "refresh")' => At(p, "sign", "refresh") /\ req'[p].refresh = req[p].refresh
          /\ Presents(p)' => req'[p].refresh \notin spent
      BY <1>1, <1>3, <2>1 DEF CalmMay, Took, LoggedOut, At, Presents
    <3>2. Settles(p) => Settles(p)'
      BY <1>1, <1>3, <2>1 DEF CalmMay, Took, Settles, InFlight, Stages
    <3> QED
      BY <3>1, <3>2
  <2>2. CASE p # q
    <3>1. req'[p] = req[p]
      BY <1>1, <2>2
    <3>2. Presents(p) => req[p].refresh \notin spent
      BY DEF InductiveInv, CalmChains
    <3> QED
      BY <3>1, <3>2 DEF Took, LoggedOut, At, Presents, Settles
  <2> QED
    BY <2>1, <2>2
<1>7. \A p, s \in Requests : req'[p].at \in InFlight /\ req'[s].at \in InFlight => p = s
  BY <1>1, <1>3 DEF CalmMay, InductiveInv, CalmChains
<1>8. \A p, s \in Requests : Took(p)' /\ Took(s)' /\ req'[p].refresh = req'[s].refresh => p = s
  BY <1>6 DEF InductiveInv, CalmChains
<1>9. OneLivePerFamily'
  BY <1>2, <1>4 DEF InductiveInv, CalmChains, OneLivePerFamily
<1>10. jar' \in spent' => \E p \in Requests : Settles(p)'
  BY <1>2, <1>6 DEF InductiveInv, CalmChains
<1>11. ASSUME NEW p \in Requests, LoggedOut(p)', req'[p].refresh # None
       PROVE  \A x \in Requests : Live(x)' => family'[x] # family'[req'[p].refresh]
  <2>1. NoneLive(family[req[p].refresh]) /\ req'[p].refresh = req[p].refresh
    BY <1>6, <1>11 DEF InductiveInv, CalmChains
  <2> QED
    BY <1>2, <1>4, <2>1 DEF NoneLive
<1>12. ASSUME NEW p \in Requests, At(p, "sign", "refresh")'
       PROVE  /\ \A x \in Requests : Live(x)' => family'[x] # family'[req'[p].refresh]
              /\ \A s \in Requests : LoggedOut(s)' /\ req'[s].refresh # None =>
                   family'[req'[s].refresh] # family'[req'[p].refresh]
  <2>1. /\ NoneLive(family[req[p].refresh]) /\ req'[p].refresh = req[p].refresh
        /\ \A s \in Requests : LoggedOut(s) /\ req[s].refresh # None =>
             family[req[s].refresh] # family[req[p].refresh]
    BY <1>6, <1>12 DEF InductiveInv, CalmChains
  <2> QED
    BY <1>2, <1>4, <1>6, <2>1 DEF NoneLive
<1> QED
  BY <1>2, <1>6, <1>7, <1>8, <1>9, <1>10, <1>11, <1>12 DEF CalmChains, NoneLive

(* A step of q that leaves the jar alone keeps the invariant, part by part. *)
LEMMA PartsKeep ==
  ASSUME InductiveInv, NEW q \in Requests, Frame(q), jar' = jar,
         NEW at, NEW op, NEW access, NEW refresh, NEW jti, NEW ttl, NEW stale, NEW status,
         Becomes(q, at, op, access, refresh, jti, ttl, stale, status),
         StagesMay(q, at, op, access, refresh, jti, ttl, stale, status),
         EffectsMay(q, at, op, access, refresh, jti, status),
         PairsTyped', RedisTyped', \A p \in Requests : TokensInStep(p)', CalmChains'
  PROVE  InductiveInv'
<1>1. TypeOK'
  BY TypeParts
     DEF InductiveInv, Frame, Becomes, TypeOK, ReqTyped, PairsTyped, RedisTyped
<1>2. \A p \in Requests : StagesInStep(p)' /\ EffectsInStep(p)'
  BY OthersStay, MoverStays
<1>3. jar' # None => Given(jar)'
  <2>1. jar \in Requests \cup {None}
    BY DEF InductiveInv, TypeOK
  <2>2. ASSUME NEW p \in Requests, jar = p, Given(p) PROVE Given(jar)'
    BY <2>2, GivenStays DEF Given
  <2> QED
    BY <2>1, <2>2 DEF InductiveInv
<1> QED
  BY <1>1, <1>2, <1>3 DEF InductiveInv

LEMMA MoveAloneKeeps ==
  ASSUME InductiveInv, NEW q \in Requests, req[q].at # "done",
         UNCHANGED <<env, now, jar, tokenVars, redisVars>>,
         NEW at, NEW op, NEW access, NEW refresh, NEW jti, NEW ttl, NEW stale, NEW status,
         Becomes(q, at, op, access, refresh, jti, ttl, stale, status),
         StagesMay(q, at, op, access, refresh, jti, ttl, stale, status),
         EffectsMay(q, at, op, access, refresh, jti, status),
         Calm => CalmMay(q, at, op, refresh, status)
  PROVE  InductiveInv'
<1>1. Frame(q) /\ spent' = spent
  BY DEF Frame, Becomes, tokenVars, redisVars
<1>2. PairsTyped' /\ RedisTyped'
  BY TypeParts DEF InductiveInv, TypeOK, PairsTyped, RedisTyped, tokenVars, redisVars
<1>3. \A p \in Requests : TokensInStep(p)'
  BY <1>1, TokensStay
<1>4. CalmChains'
  BY <1>1, CalmMoveKeeps
<1> QED
  BY <1>1, <1>2, <1>3, <1>4, PartsKeep

Early == {"idle", "check", "get", "del", "sign", "verify", "isRevoked", "logout", "deny", "revoke"}

(* Where a request stands before it moves. *)
LEMMA Stands ==
  ASSUME InductiveInv, NEW q \in Requests, NEW r, r = req[q]
  PROVE  /\ r \in RequestStates
         /\ r.at \notin {"reply", "done"} => r.status = 0
         /\ r.at \in Early => ~(exp[q] > 0)
         /\ r.at = "save" => exp[q] > 0
         /\ r.at \in {"verify", "isRevoked"} => r.op \in {"me", "logout"} /\ r.access # None
         /\ r.at \in {"get", "del", "revoke"} => r.refresh # None
         /\ r.at = "deny" => r.jti # None /\ r.ttl + Seconds(now) >= exp[r.jti]
         /\ r.jti \in {None, r.access}
         /\ r.access # None => r.access \in Requests /\ Given(r.access)
         /\ r.refresh # None => r.refresh \in Requests /\ Given(r.refresh)
         /\ r.stale => r.access \in denied
         /\ r.status = 200 /\ r.op \in {"sign_in", "refresh"} => exp[q] > 0 /\ Lasts(q)
         /\ Took(q) => r.refresh \in spent
         /\ LoggedOut(q) /\ r.refresh # None => r.refresh \in spent
         /\ "redis" \notin env.faults =>
              /\ At(q, "logout", "logout") /\ r.jti = None => EndsAccess(r.access)
              /\ At(q, "revoke", "logout") \/ LoggedOut(q) => EndsAccess(r.access)
<1>1. /\ StagesInStep(q) /\ EffectsInStep(q) /\ r \in RequestStates
      /\ r.access \in Ids /\ r.refresh \in Ids
  BY Standing
<1>2. r.at \in Early => r.at \in InFlight \ {"save", "reply"} \/ r.at = "idle"
  BY DEF Early, InFlight, Stages
<1> QED
  BY <1>1, <1>2 DEF StagesInStep, EffectsInStep, Issued, Ids

(***************************************************************************)
(* A request moves on alone, from a stage before its pair is issued to     *)
(* another or to the answer that says no pair is.                          *)
(***************************************************************************)
EarlyMay(q, at, op, access, refresh, jti, ttl, status) ==
  /\ (at \in Early \ {"idle"} /\ status = 0) \/ at = "reply"
  /\ status = 200 => op = "me"
  /\ at \in {"verify", "isRevoked"} => op \in {"me", "logout"} /\ access # None
  /\ at \in {"get", "del", "revoke"} => refresh # None
  /\ at = "deny" => jti # None /\ ttl + Seconds(now) >= exp[jti]
  /\ jti \in {None, access}
  /\ op = "refresh" => at # "sign"
  /\ op = "logout" /\ status = 204 => refresh = None
  /\ "redis" \notin env.faults =>
       /\ at = "logout" /\ op = "logout" /\ jti = None => EndsAccess(access)
       /\ op = "logout" /\ (at = "revoke" \/ status = 204) => EndsAccess(access)

LEMMA EarlyMoveKeeps ==
  ASSUME InductiveInv, NEW q \in Requests, NEW r, r = req[q],
         UNCHANGED <<env, now, jar, tokenVars, redisVars>>,
         NEW at, NEW jti, NEW ttl, NEW status,
         Moves(q, at, jti, ttl, status),
         r.at \in Early \ {"idle", "sign"},
         r.at = "check" => at \in {"sign", "reply"},
         EarlyMay(q, at, r.op, r.access, r.refresh, jti, ttl, status)
  PROVE  InductiveInv'
<1>1. Becomes(q, at, r.op, r.access, r.refresh, jti, ttl, r.stale, status)
  BY DEF Moves
<1>2. /\ exp' = exp /\ spent' = spent /\ denied' = denied /\ store' = store
      /\ env' = env /\ now' = now
  BY DEF tokenVars, redisVars
<1>3. /\ ~(exp[q] > 0) /\ r.at \notin {"reply", "done", "save"} /\ r.status = 0
      /\ r.access # None => r.access \in Requests /\ Given(r.access)
      /\ r.refresh # None => r.refresh \in Requests /\ Given(r.refresh)
      /\ r.stale => r.access \in denied
  BY Stands DEF Early
<1>4. at \notin {"save", "done", "idle"} /\ (at \notin {"reply", "done"} => status = 0)
  BY DEF EarlyMay, Early
<1>5. StagesMay(q, at, r.op, r.access, r.refresh, jti, ttl, r.stale, status)
  BY <1>2, <1>3, <1>4 DEF StagesMay, EarlyMay
<1>7. EffectsMay(q, at, r.op, r.access, r.refresh, jti, status)
  BY <1>2, <1>4 DEF EffectsMay, EarlyMay, EndsAccess, Expired
<1>8. ASSUME Calm PROVE CalmMay(q, at, r.op, r.refresh, status)
  <2>1. r.at \in InFlight
    BY DEF Early, InFlight, Stages
  <2>2. ~Settles(q)
    BY <1>3 DEF Settles, Took, LoggedOut
  <2>3. r.refresh # None /\ r.at # "check" => Presents(q)
    BY DEF Presents, Early
  <2>4. Presents(q) => r.refresh \notin spent
    BY <1>8 DEF InductiveInv, CalmChains
  <2> QED
    BY <1>3, <1>4, <2>1, <2>2, <2>3, <2>4 DEF CalmMay, EarlyMay
<1> QED
  BY <1>1, <1>2, <1>3, <1>5, <1>7, <1>8, MoveAloneKeeps

LEMMA EarlyStepsKeep ==
  ASSUME InductiveInv, NEW q \in Requests,
         SignIn(q) \/ TakeGet(q) \/ VerifyClaims(q) \/ Admit(q) \/ KeepClaims(q)
  PROVE  InductiveInv'
<1>1. UNCHANGED <<env, now, jar, tokenVars, redisVars>>
  BY DEF SignIn, TakeGet, VerifyClaims, Admit, KeepClaims
<1>2. PICK r : r = req[q]
  OBVIOUS
<1>3. /\ ReqTyped
      /\ r.jti \in {None, r.access}
      /\ r.at \notin {"reply", "done"} => r.status = 0
  BY <1>2, Stands, Standing
<1>4. /\ {0, 200, 401} \subseteq Statuses
      /\ {"sign", "del", "isRevoked", "logout", "reply"} \subseteq Stages
  BY LiteralsAre
<1>5. CASE SignIn(q)
  <2>1. r.at = "check" /\ r.op = "sign_in" /\ r.status = 0
    BY <1>2, <1>3, <1>5 DEF SignIn, At
  <2>2. CASE GoTo(q, "sign")
    <3>1. Moves(q, "sign", r.jti, r.ttl, 0)
      BY <1>2, <1>3, <1>4, <2>1, <2>2, GoToMoves
    <3>2. EarlyMay(q, "sign", r.op, r.access, r.refresh, r.jti, r.ttl, 0)
      BY <1>3, <2>1 DEF EarlyMay, Early
    <3> QED
      BY <1>1, <1>2, <2>1, <3>1, <3>2, EarlyMoveKeeps DEF Early
  <2>3. CASE Reply(q, 401)
    <3>1. Moves(q, "reply", r.jti, r.ttl, 401)
      BY <1>2, <1>3, <1>4, <2>3, ReplyMoves
    <3>2. EarlyMay(q, "reply", r.op, r.access, r.refresh, r.jti, r.ttl, 401)
      BY <1>3, <2>1 DEF EarlyMay
    <3> QED
      BY <1>1, <1>2, <2>1, <3>1, <3>2, EarlyMoveKeeps DEF Early
  <2> QED
    BY <1>5, <2>2, <2>3 DEF SignIn
<1>6. CASE TakeGet(q)
  <2>1. r.at = "get" /\ r.op = "refresh" /\ r.status = 0 /\ r.refresh # None
    BY <1>2, <1>3, <1>6, Stands DEF TakeGet, At
  <2>2. CASE GoTo(q, "del")
    <3>1. Moves(q, "del", r.jti, r.ttl, 0)
      BY <1>2, <1>3, <1>4, <2>1, <2>2, GoToMoves
    <3>2. EarlyMay(q, "del", r.op, r.access, r.refresh, r.jti, r.ttl, 0)
      BY <1>3, <2>1 DEF EarlyMay, Early
    <3> QED
      BY <1>1, <1>2, <2>1, <3>1, <3>2, EarlyMoveKeeps DEF Early
  <2>3. CASE Reply(q, 401)
    <3>1. Moves(q, "reply", r.jti, r.ttl, 401)
      BY <1>2, <1>3, <1>4, <2>3, ReplyMoves
    <3>2. EarlyMay(q, "reply", r.op, r.access, r.refresh, r.jti, r.ttl, 401)
      BY <1>3, <2>1 DEF EarlyMay
    <3> QED
      BY <1>1, <1>2, <2>1, <3>1, <3>2, EarlyMoveKeeps DEF Early
  <2> QED
    BY <1>6, <2>2, <2>3 DEF TakeGet
<1>7. CASE VerifyClaims(q)
  <2>1. r.at = "verify" /\ r.op \in {"me", "logout"} /\ r.status = 0 /\ r.access # None
    BY <1>2, <1>3, <1>7, Stands DEF VerifyClaims
  <2>2. CASE GoTo(q, "isRevoked")
    <3>1. Moves(q, "isRevoked", r.jti, r.ttl, 0)
      BY <1>2, <1>3, <1>4, <2>1, <2>2, GoToMoves
    <3>2. EarlyMay(q, "isRevoked", r.op, r.access, r.refresh, r.jti, r.ttl, 0)
      BY <1>3, <2>1 DEF EarlyMay, Early
    <3> QED
      BY <1>1, <1>2, <2>1, <3>1, <3>2, EarlyMoveKeeps DEF Early
  <2>3. CASE Reply(q, 401) /\ r.op = "me"
    <3>1. Moves(q, "reply", r.jti, r.ttl, 401)
      BY <1>2, <1>3, <1>4, <2>3, ReplyMoves
    <3>2. EarlyMay(q, "reply", r.op, r.access, r.refresh, r.jti, r.ttl, 401)
      BY <1>3, <2>1 DEF EarlyMay
    <3> QED
      BY <1>1, <1>2, <2>1, <3>1, <3>2, EarlyMoveKeeps DEF Early
  <2>4. CASE GoTo(q, "logout") /\ Expired(r.access)
    <3>1. Moves(q, "logout", r.jti, r.ttl, 0)
      BY <1>2, <1>3, <1>4, <2>1, <2>4, GoToMoves
    <3>2. EarlyMay(q, "logout", r.op, r.access, r.refresh, r.jti, r.ttl, 0)
      BY <1>3, <2>1, <2>4 DEF EarlyMay, Early, EndsAccess
    <3> QED
      BY <1>1, <1>2, <2>1, <3>1, <3>2, EarlyMoveKeeps DEF Early
  <2> QED
    BY <1>2, <1>7, <2>1, <2>2, <2>3, <2>4 DEF VerifyClaims
<1>8. CASE Admit(q)
  <2>1. r.at = "isRevoked" /\ r.op = "me"
    BY <1>2, <1>8 DEF Admit, At
  <2>2. PICK status \in {200, 401} : Reply(q, status)
    BY <1>8 DEF Admit
  <2>3. Moves(q, "reply", r.jti, r.ttl, status)
    BY <1>2, <1>3, <1>4, <2>2, ReplyMoves
  <2>4. EarlyMay(q, "reply", r.op, r.access, r.refresh, r.jti, r.ttl, status)
    BY <1>3, <2>1 DEF EarlyMay
  <2> QED
    BY <1>1, <1>2, <2>1, <2>3, <2>4, EarlyMoveKeeps DEF Early
<1>9. CASE KeepClaims(q)
  <2>1. r.at = "isRevoked" /\ r.op = "logout" /\ r.status = 0 /\ r.access # None /\ r.access \in Requests
    BY <1>2, <1>3, <1>9, Stands DEF KeepClaims, At
  <2>2. CASE Denied(r.access)
    <3>1. Moves(q, "logout", r.jti, r.ttl, 0)
      BY <1>2, <1>3, <1>4, <1>9, <2>1, <2>2, GoToMoves DEF KeepClaims
    <3>2. r.access \in denied
      BY <2>1, <2>2, Standing DEF Denied, TokensInStep
    <3>3. EarlyMay(q, "logout", r.op, r.access, r.refresh, r.jti, r.ttl, 0)
      BY <1>3, <2>1, <3>2 DEF EarlyMay, Early, EndsAccess
    <3> QED
      BY <1>1, <1>2, <2>1, <3>1, <3>3, EarlyMoveKeeps DEF Early
  <2>3. CASE ~Denied(r.access)
    <3>1. Moves(q, "logout", r.access, r.ttl, 0)
      BY <1>2, <1>3, <1>9, <2>1, <2>3, ClaimsMove DEF KeepClaims
    <3>2. EarlyMay(q, "logout", r.op, r.access, r.refresh, r.access, r.ttl, 0)
      BY <1>3, <2>1 DEF EarlyMay, Early
    <3> QED
      BY <1>1, <1>2, <2>1, <3>1, <3>2, EarlyMoveKeeps DEF Early
  <2> QED
    BY <2>2, <2>3
<1> QED
  BY <1>5, <1>6, <1>7, <1>8, <1>9
(* The remaining time of a verified token fits the deny entry. *)
LEMMA StartLogoutKeeps ==
  ASSUME InductiveInv, NEW q \in Requests, StartLogout(q)
  PROVE  InductiveInv'
<1>1. UNCHANGED <<env, now, jar, tokenVars, redisVars>>
  BY DEF StartLogout
<1>2. PICK r : r = req[q]
  OBVIOUS
<1>3. /\ ReqTyped /\ r.at = "logout" /\ r.op = "logout"
      /\ r.jti \in {None, r.access}
      /\ r.access # None => r.access \in Requests /\ Given(r.access)
      /\ "redis" \notin env.faults /\ r.jti = None => EndsAccess(r.access)
      /\ Seconds(now) \in Nat
  BY <1>2, Stands, Standing DEF StartLogout, At
<1>4. {"deny", "revoke", "reply"} \subseteq Stages /\ 0 \in 0..AccessTtl /\ AccessTtl \in Nat
  BY LiteralsAre, TimesPositive
<1>5. CASE r.jti # None /\ exp[r.jti] > Seconds(now)
  <2>1. PICK p \in Requests : p = r.jti
    BY <1>3, <1>5
  <2>2. /\ exp[p] \in Nat /\ Given(p)
        /\ exp[p] <= Seconds(now) + AccessTtl
    <3>1. Given(p) /\ TokensInStep(p) /\ EffectsInStep(p) /\ exp[p] \in Nat
      BY <1>3, <1>5, <2>1, Standing
    <3>2. exp[p] > 0
      BY <1>3, <1>5, <2>1, <3>1
    <3> QED
      BY <1>3, <1>4, <3>1, <3>2 DEF TokensInStep, Issued
  <2>3. PICK ttl \in 0..AccessTtl : ttl = exp[p] - Seconds(now)
    BY <1>3, <1>4, <1>5, <2>1, <2>2
  <2>4. MoveOn(q, "deny", ttl)
    BY <1>2, <1>5, <2>1, <2>3 DEF StartLogout
  <2>5. Moves(q, "deny", r.jti, ttl, 0)
    BY <1>2, <1>3, <1>4, <2>4, MoveOnMoves
  <2>6. ttl + Seconds(now) >= exp[r.jti]
    BY <1>3, <2>1, <2>2, <2>3
  <2>7. EarlyMay(q, "deny", r.op, r.access, r.refresh, r.jti, ttl, 0)
    BY <1>3, <1>5, <2>6 DEF EarlyMay, Early
  <2> QED
    BY <1>1, <1>2, <1>3, <2>5, <2>7, EarlyMoveKeeps DEF Early
<1>6. CASE ~(r.jti # None /\ exp[r.jti] > Seconds(now))
  <2>1. MoveOn(q, AfterDeny(q), 0)
    BY <1>2, <1>6 DEF StartLogout
  <2>2. "redis" \notin env.faults => EndsAccess(r.access)
    <3>1. CASE r.jti = None
      BY <1>3, <3>1
    <3>2. CASE r.jti # None
      <4>1. r.jti = r.access /\ exp[r.access] \in Nat /\ ~(exp[r.access] > Seconds(now))
        BY <1>3, <1>6, <3>2, Standing
      <4> QED
        BY <1>3, <4>1 DEF EndsAccess, Expired
    <3> QED
      BY <3>1, <3>2
  <2>3. CASE r.refresh = None
    <3>1. MoveOn(q, "reply", 0)
      BY <1>2, <2>1, <2>3 DEF AfterDeny
    <3>2. Moves(q, "reply", r.jti, 0, 204)
      BY <1>2, <1>3, <1>4, <3>1, MoveOnMoves
    <3>3. EarlyMay(q, "reply", r.op, r.access, r.refresh, r.jti, 0, 204)
      BY <1>3, <2>2, <2>3 DEF EarlyMay
    <3> QED
      BY <1>1, <1>2, <1>3, <3>2, <3>3, EarlyMoveKeeps DEF Early
  <2>4. CASE r.refresh # None
    <3>1. MoveOn(q, "revoke", 0)
      BY <1>2, <2>1, <2>4 DEF AfterDeny
    <3>2. Moves(q, "revoke", r.jti, 0, 0)
      BY <1>2, <1>3, <1>4, <3>1, MoveOnMoves
    <3>3. EarlyMay(q, "revoke", r.op, r.access, r.refresh, r.jti, 0, 0)
      BY <1>3, <2>2, <2>4 DEF EarlyMay, Early
    <3> QED
      BY <1>1, <1>2, <1>3, <3>2, <3>3, EarlyMoveKeeps DEF Early
  <2> QED
    BY <2>3, <2>4
<1> QED
  BY <1>5, <1>6

(* Redis fails a command: the request fails, or the logout goes on. *)
LEMMA RedisFailsKeeps ==
  ASSUME InductiveInv, NEW q \in Requests, RedisFails(q)
  PROVE  InductiveInv'
<1>1. UNCHANGED <<env, now, jar, tokenVars, redisVars>> /\ "redis" \in env.faults
  BY DEF RedisFails
<1>2. PICK r : r = req[q]
  OBVIOUS
<1>3. /\ ReqTyped /\ r.jti \in {None, r.access}
      /\ r.at \in {"get", "del", "save", "isRevoked", "deny", "revoke"} /\ r.status = 0
      /\ r.access # None => r.access \in Requests /\ Given(r.access)
      /\ r.refresh # None => r.refresh \in Requests /\ Given(r.refresh)
      /\ r.stale => r.access \in denied
  BY <1>2, Stands, Standing DEF RedisFails
<1>4. {"reply", "logout"} \subseteq Stages /\ 500 \in Statuses
  BY LiteralsAre
<1>5. CASE At(q, "isRevoked", "logout")
  <2>1. r.at = "isRevoked" /\ r.op = "logout"
    BY <1>2, <1>5 DEF At
  <2>2. GoTo(q, "logout")
    BY <1>5 DEF RedisFails
  <2>3. Moves(q, "logout", r.jti, r.ttl, 0)
    BY <1>2, <1>3, <1>4, <2>2, GoToMoves
  <2>4. EarlyMay(q, "logout", r.op, r.access, r.refresh, r.jti, r.ttl, 0)
    BY <1>1, <1>3, <2>1 DEF EarlyMay, Early
  <2> QED
    BY <1>1, <1>2, <2>1, <2>3, <2>4, EarlyMoveKeeps DEF Early
<1>6. CASE ~At(q, "isRevoked", "logout")
  <2>1. Reply(q, 500)
    BY <1>6 DEF RedisFails
  <2>2. Becomes(q, "reply", r.op, r.access, r.refresh, r.jti, r.ttl, r.stale, 500)
    BY <1>2, <1>3, <1>4, <2>1, ReplyMoves DEF Moves
  <2>3. denied' = denied
    BY <1>1 DEF redisVars
  <2>4. StagesMay(q, "reply", r.op, r.access, r.refresh, r.jti, r.ttl, r.stale, 500)
    BY <1>3, <2>3 DEF StagesMay
  <2>5. EffectsMay(q, "reply", r.op, r.access, r.refresh, r.jti, 500)
    BY <1>1 DEF EffectsMay
  <2>6. ~Calm /\ r.at # "done"
    BY <1>1, <1>3 DEF Calm
  <2> QED
    BY <1>1, <1>2, <2>2, <2>4, <2>5, <2>6, MoveAloneKeeps
<1> QED
  BY <1>5, <1>6

(* An answer is lost: nothing but the request changes. *)
LEMMA LoseKeeps ==
  ASSUME InductiveInv, NEW q \in Requests, Lose(q)
  PROVE  InductiveInv'
<1>1. UNCHANGED <<env, now, jar, tokenVars, redisVars>> /\ "lost" \in env.faults
  BY DEF Lose
<1>2. PICK r : r = req[q]
  OBVIOUS
<1>3. /\ ReqTyped /\ r.jti \in {None, r.access} /\ r.at = "reply"
      /\ r.access # None => r.access \in Requests /\ Given(r.access)
      /\ r.refresh # None => r.refresh \in Requests /\ Given(r.refresh)
      /\ r.stale => r.access \in denied
  BY <1>2, Stands, Standing DEF Lose
<1>4. "done" \in Stages /\ 500 \in Statuses
  BY LiteralsAre
<1>5. Ends(q, "done", 500)
  BY DEF Lose, Ends
<1>6. Becomes(q, "done", r.op, r.access, r.refresh, r.jti, r.ttl, r.stale, 500)
  BY <1>2, <1>3, <1>4, <1>5, EndMoves DEF Moves
<1>7. denied' = denied
  BY <1>1 DEF redisVars
<1>8. StagesMay(q, "done", r.op, r.access, r.refresh, r.jti, r.ttl, r.stale, 500)
  BY <1>3, <1>7 DEF StagesMay, InFlight
<1>9. EffectsMay(q, "done", r.op, r.access, r.refresh, r.jti, 500)
  BY DEF EffectsMay
<1>10. ~Calm /\ r.at # "done"
  BY <1>1, <1>3 DEF Calm
<1> QED
  BY <1>1, <1>2, <1>6, <1>8, <1>9, <1>10, MoveAloneKeeps

(* A request arrives with the cookies of the jar. *)
LEMMA ArriveKeeps ==
  ASSUME InductiveInv, NEW q \in Requests, NEW op \in Operations,
         NEW access \in AccessCookies(op), NEW refresh \in RefreshCookies(op),
         Arrive(q, op, access, refresh)
  PROVE  InductiveInv'
<1>1. /\ UNCHANGED <<env, now, jar, tokenVars, redisVars>> /\ req[q].at = "idle"
      /\ env.overlap \/ \A p \in Requests : req[p].at \notin InFlight
  BY DEF Arrive
<1>2. PICK stage : stage = FirstStage(op, access, refresh)
  OBVIOUS
<1>3. PICK status \in {0, 401} : status = IF stage = "reply" THEN 401 ELSE 0
  OBVIOUS
<1>4. /\ access # None => access = jar /\ op \in {"me", "logout"}
      /\ refresh # None => refresh = jar /\ op \in {"refresh", "logout"}
  BY DEF AccessCookies, RefreshCookies
<1>5. /\ ReqTyped /\ jar \in Ids /\ (jar # None => jar \in Requests /\ Given(jar))
  BY Standing DEF InductiveInv, PairsTyped, Ids
<1>6. access \in Ids /\ refresh \in Ids
  BY <1>4, <1>5, LiteralsAre
<1>7. /\ stage \in {"check", "get", "verify", "logout", "reply"}
      /\ stage = "verify" => op \in {"me", "logout"} /\ access # None
      /\ stage = "get" => op = "refresh" /\ refresh # None
      /\ stage = "logout" => op = "logout" /\ access = None
      /\ stage = "check" => op = "sign_in"
  BY <1>2 DEF FirstStage, Operations
<1>8. stage \in Stages /\ status \in Statuses
  BY <1>3, <1>7, LiteralsAre
<1>9. Arrives(q, stage, op, access, refresh, status)
  BY <1>2, <1>3 DEF Arrive, Arrives, Puts
<1>10. PICK stale \in BOOLEAN :
         /\ stale => op = "me" /\ access \in denied
         /\ Becomes(q, stage, op, access, refresh, None, 0, stale, status)
  BY <1>5, <1>6, <1>8, <1>9, ArrivalMoves
<1>11. exp' = exp /\ denied' = denied /\ ~(exp[q] > 0) /\ Seconds(now) \in Nat
  BY <1>1, Stands, Standing DEF tokenVars, redisVars, Early
<1>12. StagesMay(q, stage, op, access, refresh, None, 0, stale, status)
  BY <1>3, <1>4, <1>5, <1>7, <1>10, <1>11 DEF StagesMay
<1>13. EffectsMay(q, stage, op, access, refresh, None, status)
  BY <1>3, <1>7 DEF EffectsMay
<1>14. ASSUME Calm PROVE CalmMay(q, stage, op, refresh, status)
  <2>1. \A p \in Requests : req[p].at \notin InFlight
    BY <1>1, <1>14 DEF Calm
  <2>2. ~Settles(q)
    BY <1>1, <2>1 DEF Settles
  <2>3. jar \notin spent
    BY <1>14, <2>1 DEF InductiveInv, CalmChains, Settles, InFlight, Stages
  <2> QED
    BY <1>3, <1>4, <1>7, <2>1, <2>2, <2>3 DEF CalmMay
<1> QED
  BY <1>1, <1>10, <1>12, <1>13, <1>14, MoveAloneKeeps
-----------------------------------------------------------------------------
(* The steps that issue, spend and deny tokens. *)

(***************************************************************************)
(* In a calm environment the request that moves is the only one in flight; *)
(* what it leaves behind is then all that CalmChains asks for.             *)
(***************************************************************************)
LEMMA LoneMoveKeeps ==
  ASSUME InductiveInv, NEW q \in Requests, Frame(q), Calm, Calm',
         req[q].at \in InFlight,
         Took(q)' => /\ req'[q].refresh = req[q].refresh
                     /\ Took(q) \/ req[q].refresh \notin spent,
         OneLivePerFamily',
         jar' \in spent' => Settles(q)',
         Presents(q)' => req'[q].refresh \notin spent',
         \A s \in Requests : LoggedOut(s)' /\ req'[s].refresh # None =>
           \A x \in Requests : Live(x)' => family'[x] # family'[req'[s].refresh],
         At(q, "sign", "refresh")' =>
           /\ \A x \in Requests : Live(x)' => family'[x] # family'[req'[q].refresh]
           /\ \A s \in Requests : LoggedOut(s)' /\ req'[s].refresh # None =>
                family'[req'[s].refresh] # family'[req'[q].refresh]
  PROVE  CalmChains'
<1>1. ASSUME NEW p \in Requests, p # q
      PROVE  req'[p] = req[p] /\ req[p].at \notin InFlight /\ (Took(p)' <=> Took(p))
  <2>1. req'[p] = req[p]
    BY <1>1 DEF Frame
  <2>2. req[p].at \notin InFlight
    BY <1>1 DEF InductiveInv, CalmChains
  <2> QED
    BY <2>1, <2>2 DEF Took
<1>2. {"get", "del", "sign", "verify", "isRevoked", "logout", "deny", "revoke"} \subseteq InFlight
  BY DEF InFlight, Stages
<1>3. \A p, s \in Requests : req'[p].at \in InFlight /\ req'[s].at \in InFlight => p = s
  BY <1>1
<1>4. \A p, s \in Requests : Took(p)' /\ Took(s)' /\ req'[p].refresh = req'[s].refresh => p = s
  <2>1. ASSUME NEW s \in Requests, s # q, Took(q)', Took(s)', req'[q].refresh = req'[s].refresh
        PROVE  FALSE
    <3>1. Took(s) /\ req[s].refresh = req[q].refresh
      BY <1>1, <2>1
    <3>2. req[s].refresh \in spent
      BY <3>1, Standing DEF EffectsInStep
    <3>3. Took(q)
      BY <2>1, <3>1, <3>2
    <3> QED
      BY <2>1, <3>1, <3>3 DEF InductiveInv, CalmChains
  <2>2. ASSUME NEW p \in Requests, NEW s \in Requests, p # q, s # q, Took(p)', Took(s)',
               req'[p].refresh = req'[s].refresh
        PROVE  p = s
    BY <1>1, <2>2 DEF InductiveInv, CalmChains
  <2> QED
    BY <2>1, <2>2
<1>5. \A p \in Requests : Presents(p)' => req'[p].refresh \notin spent'
  <2>1. ASSUME NEW p \in Requests, p # q PROVE ~Presents(p)'
    BY <1>1, <1>2, <2>1 DEF Presents
  <2> QED
    BY <2>1
<1>6. \A p \in Requests : At(p, "sign", "refresh")' => p = q
  BY <1>1, <1>2 DEF At
<1> QED
  BY <1>3, <1>4, <1>5, <1>6 DEF CalmChains, NoneLive

(* A refresh token is used up, by a refresh or by a logout. *)
Spends(p) ==
  /\ store' = [store EXCEPT ![p] = 0]
  /\ spent' = spent \cup {p}
  /\ UNCHANGED <<jar, tokenVars, deny, denied>>

LEMMA SpendingKeeps ==
  ASSUME InductiveInv, NEW q \in Requests, Frame(q), NEW p \in Requests, Given(p), Spends(p)
  PROVE  /\ PairsTyped' /\ RedisTyped'
         /\ \A x \in Requests : TokensInStep(x)'
<1>1. /\ exp' = exp /\ family' = family /\ deny' = deny /\ denied' = denied /\ now' = now /\ jar' = jar
      /\ PairsTyped /\ RedisTyped
  BY Standing DEF Spends, Frame, tokenVars
<1>2. PairsTyped' /\ RedisTyped'
  BY <1>1 DEF PairsTyped, RedisTyped, Spends
<1>3. ASSUME NEW x \in Requests PROVE TokensInStep(x)'
  <2>1. /\ store'[x] > 0 => store[x] > 0 /\ x # p
        /\ x \in spent' => x \in spent \/ x = p
    BY <1>1 DEF RedisTyped, Spends
  <2>2. (Given(x) => Given(x)') /\ Given(p)'
    BY GivenStays
  <2>3. TokensInStep(x)
    BY Standing
  <2>4. x \in spent' \cup denied' => Given(x)'
    BY <1>1, <2>1, <2>2, <2>3 DEF TokensInStep
  <2>5. store'[x] > 0 => Issued(x)' /\ x \notin spent'
    BY <1>1, <2>1, <2>3 DEF TokensInStep, Issued
  <2> QED
    BY <1>1, <2>3, <2>4, <2>5 DEF TokensInStep, Issued
<1> QED
  BY <1>2, <1>3

(* The token that a calm request presents is the one live token of its family. *)
LEMMA SpendingEnds ==
  ASSUME InductiveInv, NEW q \in Requests, Frame(q), NEW p \in Requests, Given(p), Spends(p),
         Calm, Presents(q), req[q].refresh = p
  PROVE  /\ p \notin spent /\ Live(p)
         /\ \A x \in Requests : Live(x)' => Live(x) /\ family'[x] # family'[p]
         /\ OneLivePerFamily'
         /\ \A s \in Requests : LoggedOut(s) /\ req[s].refresh # None =>
              family[req[s].refresh] # family[p]
<1>1. exp' = exp /\ family' = family /\ spent' = spent \cup {p}
  BY DEF Spends, tokenVars
<1>2. p \notin spent /\ Live(p)
  <2>1. p \notin spent
    BY DEF InductiveInv, CalmChains
  <2> QED
    BY <2>1, GivenStays DEF Live
<1>3. \A x \in Requests : Live(x)' => Live(x) /\ x # p
  BY <1>1 DEF Live, Issued
<1>4. OneLivePerFamily
  BY DEF InductiveInv, CalmChains
<1>5. \A x \in Requests : Live(x)' => Live(x) /\ family'[x] # family'[p]
  BY <1>1, <1>2, <1>3, <1>4 DEF OneLivePerFamily
<1>6. OneLivePerFamily'
  BY <1>1, <1>3, <1>4 DEF OneLivePerFamily
<1>7. ASSUME NEW s \in Requests, LoggedOut(s), req[s].refresh # None
      PROVE  family[req[s].refresh] # family[p]
  BY <1>2, <1>7 DEF InductiveInv, CalmChains, NoneLive
<1> QED
  BY <1>2, <1>5, <1>6, <1>7

(* What logouts have ended stays ended when q spends a token of another family. *)
LEMMA LogoutsStayEnded ==
  ASSUME InductiveInv, NEW q \in Requests, Frame(q), Calm, UNCHANGED tokenVars,
         NEW s \in Requests, s # q, LoggedOut(s)', req'[s].refresh # None
  PROVE  /\ LoggedOut(s) /\ req'[s].refresh = req[s].refresh
         /\ \A x \in Requests : Live(x)' => family'[x] # family'[req'[s].refresh]
<1>1. req'[s] = req[s] /\ exp' = exp /\ family' = family /\ spent \subseteq spent'
  BY DEF Frame, tokenVars
<1>2. LoggedOut(s)
  BY <1>1 DEF LoggedOut
<1>3. \A x \in Requests : Live(x)' => Live(x)
  BY <1>1 DEF Live, Issued
<1> QED
  BY <1>1, <1>2, <1>3 DEF InductiveInv, CalmChains, NoneLive

LEMMA TakeDelKeeps ==
  ASSUME InductiveInv, NEW q \in Requests, TakeDel(q)
  PROVE  InductiveInv'
<1>1. PICK r : r = req[q]
  OBVIOUS
<1>2. PICK p : p = r.refresh
  OBVIOUS
<1>3. /\ ReqTyped /\ r.at = "del" /\ r.op = "refresh" /\ r.status = 0
      /\ p \in Requests /\ Given(p) /\ ~(exp[q] > 0)
      /\ r.jti \in {None, r.access}
      /\ r.access # None => r.access \in Requests /\ Given(r.access)
      /\ r.refresh # None
      /\ r.stale => r.access \in denied
  BY <1>1, <1>2, Stands, Standing DEF TakeDel, At, Early
<1>4. Spends(p) /\ UNCHANGED <<env, now>>
  BY <1>1, <1>2 DEF TakeDel, DelRefresh, Spends
<1>5. Becomes(q, "sign", r.op, r.access, r.refresh, r.jti, r.ttl, r.stale, 0)
  BY <1>1, <1>3, GoToMoves, LiteralsAre DEF TakeDel, Moves
<1>6. /\ exp' = exp /\ denied' = denied /\ spent' = spent \cup {p} /\ jar' = jar
      /\ \A x \in Requests : store'[x] = store[x] \/ x \in spent'
  BY <1>4, Standing DEF Spends, tokenVars, RedisTyped
<1>7. Frame(q)
  BY <1>1, <1>3, <1>4, <1>5, <1>6 DEF Frame, Becomes
<1>8. StagesMay(q, "sign", r.op, r.access, r.refresh, r.jti, r.ttl, r.stale, 0)
  BY <1>2, <1>3, <1>6 DEF StagesMay
<1>9. EffectsMay(q, "sign", r.op, r.access, r.refresh, r.jti, 0)
  BY <1>2, <1>3, <1>6 DEF EffectsMay
<1>10. CalmChains'
  <2> SUFFICES ASSUME Calm, Calm' PROVE CalmChains'
    BY <1>4 DEF CalmChains, Calm
  <2>1. Presents(q) /\ req[q].at \in InFlight /\ req[q].refresh = p
    BY <1>1, <1>2, <1>3 DEF Presents, InFlight, Stages
  <2>2. /\ req'[q].at = "sign" /\ req'[q].op = "refresh" /\ req'[q].refresh = p
    BY <1>2, <1>3, <1>5 DEF Becomes, Says
  <2>3. /\ Took(q)' /\ Settles(q)' /\ ~Presents(q)' /\ ~LoggedOut(q)'
    BY <2>2 DEF Took, Settles, Presents, LoggedOut, InFlight, Stages
  <2>4. /\ p \notin spent /\ OneLivePerFamily'
        /\ \A x \in Requests : Live(x)' => family'[x] # family'[p]
        /\ \A s \in Requests : LoggedOut(s) /\ req[s].refresh # None =>
             family[req[s].refresh] # family[p]
    BY <1>3, <1>4, <1>7, <2>1, SpendingEnds
  <2>5. \A s \in Requests : LoggedOut(s)' /\ req'[s].refresh # None =>
          /\ LoggedOut(s) /\ req'[s].refresh = req[s].refresh
          /\ \A x \in Requests : Live(x)' => family'[x] # family'[req'[s].refresh]
    BY <1>4, <1>7, <2>3, LogoutsStayEnded DEF Spends
  <2>6. family' = family
    BY <1>4 DEF Spends, tokenVars
  <2>7. \A s \in Requests : LoggedOut(s)' /\ req'[s].refresh # None =>
          family'[req'[s].refresh] # family'[p]
    BY <2>4, <2>5, <2>6
  <2> QED
    BY <1>7, <2>1, <2>2, <2>3, <2>4, <2>5, <2>7, LoneMoveKeeps
<1>11. /\ PairsTyped' /\ RedisTyped'
       /\ \A x \in Requests : TokensInStep(x)'
  BY <1>3, <1>4, <1>7, SpendingKeeps
<1> QED
  BY <1>5, <1>6, <1>7, <1>8, <1>9, <1>10, <1>11, PartsKeep

LEMMA RevokeRefreshKeeps ==
  ASSUME InductiveInv, NEW q \in Requests, RevokeRefresh(q)
  PROVE  InductiveInv'
<1>1. PICK r : r = req[q]
  OBVIOUS
<1>2. PICK p : p = r.refresh
  OBVIOUS
<1>3. /\ ReqTyped /\ r.at = "revoke" /\ r.op = "logout"
      /\ p \in Requests /\ Given(p)
      /\ r.jti \in {None, r.access}
      /\ r.access # None => r.access \in Requests /\ Given(r.access)
      /\ r.refresh # None
      /\ r.stale => r.access \in denied
      /\ "redis" \notin env.faults => EndsAccess(r.access)
  BY <1>1, <1>2, Stands, Standing DEF RevokeRefresh, At
<1>4. Spends(p) /\ UNCHANGED <<env, now>>
  BY <1>1, <1>2 DEF RevokeRefresh, DelRefresh, Spends
<1>5. Becomes(q, "reply", r.op, r.access, r.refresh, r.jti, 0, r.stale, 204)
  <2>1. Moves(q, "reply", r.jti, 0, 204)
    BY <1>1, <1>3, MoveOnMoves, LiteralsAre DEF RevokeRefresh
  <2> QED
    BY <1>1, <2>1 DEF Moves
<1>6. /\ exp' = exp /\ denied' = denied /\ spent' = spent \cup {p} /\ jar' = jar
      /\ \A x \in Requests : store'[x] = store[x] \/ x \in spent'
  BY <1>4, Standing DEF Spends, tokenVars, RedisTyped
<1>7. Frame(q)
  BY <1>1, <1>3, <1>4, <1>5, <1>6 DEF Frame, Becomes
<1>8. StagesMay(q, "reply", r.op, r.access, r.refresh, r.jti, 0, r.stale, 204)
  BY <1>2, <1>3, <1>6 DEF StagesMay
<1>9. EffectsMay(q, "reply", r.op, r.access, r.refresh, r.jti, 204)
  BY <1>2, <1>3, <1>6 DEF EffectsMay, EndsAccess, Expired
<1>10. CalmChains'
  <2> SUFFICES ASSUME Calm, Calm' PROVE CalmChains'
    BY <1>4 DEF CalmChains, Calm
  <2>1. Presents(q) /\ req[q].at \in InFlight /\ req[q].refresh = p
    BY <1>1, <1>2, <1>3 DEF Presents, InFlight, Stages
  <2>2. /\ req'[q].at = "reply" /\ req'[q].op = "logout" /\ req'[q].refresh = p
        /\ req'[q].status = 204
    BY <1>2, <1>3, <1>5 DEF Becomes, Says
  <2>3. ~Took(q)' /\ Settles(q)' /\ ~Presents(q)' /\ ~At(q, "sign", "refresh")'
    BY <2>2 DEF Took, Settles, Presents, LoggedOut, At
  <2>4. /\ OneLivePerFamily'
        /\ \A x \in Requests : Live(x)' => family'[x] # family'[p]
    BY <1>3, <1>4, <1>7, <2>1, SpendingEnds
  <2>5. \A s \in Requests : LoggedOut(s)' /\ req'[s].refresh # None =>
          \A x \in Requests : Live(x)' => family'[x] # family'[req'[s].refresh]
    <3>1. ASSUME NEW s \in Requests, s # q, LoggedOut(s)', req'[s].refresh # None
          PROVE  \A x \in Requests : Live(x)' => family'[x] # family'[req'[s].refresh]
      BY <1>4, <1>7, <3>1, LogoutsStayEnded DEF Spends
    <3> QED
      BY <2>2, <2>4, <3>1
  <2> QED
    BY <1>7, <2>1, <2>3, <2>4, <2>5, LoneMoveKeeps
<1>11. /\ PairsTyped' /\ RedisTyped'
       /\ \A x \in Requests : TokensInStep(x)'
  BY <1>3, <1>4, <1>7, SpendingKeeps
<1> QED
  BY <1>5, <1>6, <1>7, <1>8, <1>9, <1>10, <1>11, PartsKeep
LEMMA SignAccessTokenKeeps ==
  ASSUME InductiveInv, NEW q \in Requests, SignAccessToken(q)
  PROVE  InductiveInv'
<1>1. PICK r : r = req[q]
  OBVIOUS
<1>2. PICK f : f = IF r.op = "refresh" THEN family[r.refresh] ELSE q
  OBVIOUS
<1>3. PICK e : e = Seconds(now) + AccessTtl
  OBVIOUS
<1>4. /\ ReqTyped /\ PairsTyped /\ RedisTyped /\ r.at = "sign" /\ r.status = 0
      /\ ~(exp[q] > 0)
      /\ r.jti \in {None, r.access}
      /\ r.access # None => r.access \in Requests /\ Given(r.access)
      /\ r.refresh # None => r.refresh \in Requests /\ Given(r.refresh)
      /\ r.stale => r.access \in denied
      /\ r.op = "refresh" => r.refresh \in spent
  BY <1>1, Stands, Standing DEF SignAccessToken, Early, Took
<1>5. /\ exp' = [exp EXCEPT ![q] = e] /\ family' = [family EXCEPT ![q] = f]
      /\ UNCHANGED <<env, now, jar, redisVars>> /\ GoTo(q, "save")
  BY <1>1, <1>2, <1>3 DEF SignAccessToken
<1>6. /\ e \in Nat /\ e > 0 /\ Seconds(now) \in Nat /\ AccessTtl \in Nat
      /\ e \in AccessTtl .. (Seconds(now) + AccessTtl)
  BY <1>3, Standing, TimesPositive
<1>7. /\ f \in Requests /\ (f # q => Issued(f) /\ r.op = "refresh" /\ f = family[r.refresh])
      /\ r.op = "refresh" => r.refresh # None /\ r.refresh # q /\ f # q
  <2>1. CASE r.op = "refresh"
    <3>1. r.refresh \in Requests /\ Given(r.refresh) /\ f = family[r.refresh]
      BY <1>2, <1>4, <2>1, NoneIsNoRequest DEF RedisTyped
    <3>2. Issued(r.refresh)
      BY <3>1, Standing DEF EffectsInStep, Given
    <3>3. f \in Requests /\ Issued(f)
      BY <3>1, <3>2, Standing DEF TokensInStep, Ids
    <3> QED
      BY <1>4, <2>1, <3>1, <3>2, <3>3, NoneIsNoRequest DEF Issued
  <2>2. CASE r.op # "refresh"
    BY <1>2, <2>2
  <2> QED
    BY <2>1, <2>2
<1>8. /\ exp'[q] = e /\ family'[q] = f
      /\ \A x \in Requests : x # q => exp'[x] = exp[x] /\ family'[x] = family[x]
      /\ PairsTyped'
  BY <1>4, <1>5, <1>6, <1>7 DEF PairsTyped
<1>9. /\ store' = store /\ deny' = deny /\ spent' = spent /\ denied' = denied /\ now' = now
      /\ RedisTyped'
  BY <1>4, <1>5 DEF redisVars, RedisTyped
<1>10. Becomes(q, "save", r.op, r.access, r.refresh, r.jti, r.ttl, r.stale, 0)
  BY <1>1, <1>4, <1>5, GoToMoves, LiteralsAre DEF Moves
<1>11. Frame(q)
  BY <1>1, <1>4, <1>5, <1>8, <1>9, <1>10 DEF Frame, Becomes, Issued
<1>12. StagesMay(q, "save", r.op, r.access, r.refresh, r.jti, r.ttl, r.stale, 0)
  BY <1>4, <1>6, <1>8, <1>9 DEF StagesMay
<1>13. EffectsMay(q, "save", r.op, r.access, r.refresh, r.jti, 0)
  BY <1>4, <1>9 DEF EffectsMay
<1>14. /\ ~Given(q) /\ ~Issued(q) /\ q \notin spent
       /\ \A x \in Requests : Issued(x) => Issued(x)' /\ x # q
       /\ \A x \in Requests : x # q => (Issued(x)' <=> Issued(x))
  BY <1>1, <1>4, <1>8, Standing DEF Given, Issued, TokensInStep
<1>15. ASSUME NEW x \in Requests PROVE TokensInStep(x)'
  <2>1. TokensInStep(x) /\ (Given(x) => Given(x)')
    BY <1>11, Standing, GivenStays
  <2>2. CASE x = q
    <3>1. exp'[x] > 0 /\ Issued(f)'
      BY <1>6, <1>7, <1>8, <1>14, <2>2 DEF Issued
    <3>2. ~(store[x] > 0) /\ ~(deny[x] > 0) /\ x \notin spent \cup denied
      BY <1>14, <2>1, <2>2 DEF TokensInStep
    <3>3. Issued(family[x])' = (exp'[family'[x]] > 0)
      BY DEF Issued
    <3> QED
      BY <1>6, <1>7, <1>8, <1>9, <2>2, <3>1, <3>2, <3>3, NoneIsNoRequest DEF TokensInStep, Issued
  <2>3. CASE x # q
    <3>1. exp'[x] = exp[x] /\ family'[x] = family[x]
      BY <1>8, <2>3
    <3>2. family[x] # None => family[x] \in Requests /\ exp'[family[x]] > 0
      BY <1>14, <2>1, Standing DEF TokensInStep, Issued, Ids
    <3> QED
      BY <1>9, <2>1, <3>1, <3>2 DEF TokensInStep, Issued
  <2> QED
    BY <2>2, <2>3
<1>16. CalmChains'
  <2> SUFFICES ASSUME Calm, Calm' PROVE CalmChains'
    BY <1>5 DEF CalmChains, Calm
  <2>1. /\ req'[q].at = "save" /\ req'[q].op = r.op /\ req'[q].refresh = r.refresh
        /\ req'[q].status = 0 /\ req[q].at \in InFlight
        /\ \A s \in Requests : s # q => req'[s] = req[s]
    BY <1>1, <1>4, <1>10 DEF Becomes, Says, InFlight, Stages
  <2>2. /\ Took(q)' => Took(q) /\ req'[q].refresh = req[q].refresh
        /\ ~Presents(q)' /\ ~LoggedOut(q)' /\ ~At(q, "sign", "refresh")'
        /\ Settles(q) => Settles(q)'
    BY <1>1, <1>4, <2>1 DEF Took, Presents, LoggedOut, At, Settles, InFlight, Stages
  <2>3. \A x \in Requests : Live(x)' => x = q \/ (x # q /\ Live(x) /\ family'[x] = family[x])
    BY <1>8, <1>9, <1>14 DEF Live
  <2>4. ASSUME NEW x \in Requests, Live(x) PROVE family[x] # f
    <3>1. CASE r.op = "refresh"
      BY <1>1, <1>4, <1>7, <2>4, <3>1 DEF InductiveInv, CalmChains, NoneLive, At
    <3>2. CASE r.op # "refresh"
      <4>1. f = q
        BY <1>7, <3>2
      <4>2. family[x] # None => Issued(family[x])
        BY Standing DEF TokensInStep
      <4> QED
        BY <1>14, <4>1, <4>2, NoneIsNoRequest
    <3> QED
      BY <3>1, <3>2
  <2>5. OneLivePerFamily'
    <3>1. ASSUME NEW x \in Requests, NEW y \in Requests, Live(x)', Live(y)',
                 family'[x] = family'[y], x # q
          PROVE  x = y
      BY <1>8, <2>3, <2>4, <3>1 DEF InductiveInv, CalmChains, OneLivePerFamily
    <3>2. ASSUME NEW y \in Requests, Live(y)', family'[q] = family'[y] PROVE q = y
      BY <1>8, <2>3, <2>4, <3>2
    <3> QED
      BY <3>1, <3>2 DEF OneLivePerFamily
  <2>6. jar' \in spent' => Settles(q)'
    <3>1. ASSUME jar \in spent PROVE Settles(q)
      <4>1. PICK s \in Requests : Settles(s)
        BY <3>1 DEF InductiveInv, CalmChains
      <4>2. req[s].at \in InFlight
        BY <4>1 DEF Settles, InFlight, Stages
      <4> QED
        BY <2>1, <4>1, <4>2 DEF InductiveInv, CalmChains
    <3> QED
      BY <1>5, <1>9, <2>2, <3>1
  <2>7. ASSUME NEW s \in Requests, LoggedOut(s)', req'[s].refresh # None,
               NEW x \in Requests, Live(x)'
        PROVE  family'[x] # family'[req'[s].refresh]
    <3>1. s # q /\ req'[s] = req[s] /\ LoggedOut(s)
      BY <2>1, <2>2, <2>7 DEF LoggedOut
    <3>2. PICK y \in Requests : y = req[s].refresh /\ Given(y)
      BY <2>7, <3>1, Stands
    <3>3. y # q /\ Issued(y) /\ family'[y] = family[y]
      BY <1>8, <1>11, <3>2, GivenStays
    <3>4. CASE x = q
      <4>1. family'[x] = f
        BY <1>8, <3>4
      <4>2. CASE r.op = "refresh"
        <5>1. family[y] # family[r.refresh]
          BY <1>1, <1>4, <2>7, <3>1, <3>2, <4>2 DEF InductiveInv, CalmChains, At
        <5> QED
          BY <1>2, <3>1, <3>2, <3>3, <4>1, <4>2, <5>1
      <4>3. CASE r.op # "refresh"
        <5>1. family[y] # None => Issued(family[y])
          BY <3>2, Standing DEF TokensInStep
        <5>2. f = q /\ family[y] # q
          BY <1>7, <1>14, <4>3, <5>1, NoneIsNoRequest
        <5> QED
          BY <3>1, <3>2, <3>3, <4>1, <5>2
      <4> QED
        BY <4>2, <4>3
    <3>5. CASE x # q
      <4>1. Live(x) /\ family'[x] = family[x]
        BY <2>3, <2>7, <3>5
      <4>2. family[x] # family[y]
        BY <2>7, <3>1, <3>2, <4>1 DEF InductiveInv, CalmChains, NoneLive
      <4> QED
        BY <3>1, <3>2, <3>3, <4>1, <4>2
    <3> QED
      BY <3>4, <3>5
  <2> QED
    BY <1>11, <2>1, <2>2, <2>5, <2>6, <2>7, LoneMoveKeeps
<1> QED
  BY <1>5, <1>8, <1>9, <1>10, <1>11, <1>12, <1>13, <1>15, <1>16, PartsKeep

(* The lifetime of the refresh token counts from no earlier than its iat. *)
(* A refresh token is stored, whether or not the request is told. *)
LEMMA SavingKeeps ==
  ASSUME InductiveInv, NEW q \in Requests, req[q].at = "save", Frame(q),
         SetRefresh(q), UNCHANGED <<jar, tokenVars>>
  PROVE  /\ PairsTyped' /\ RedisTyped'
         /\ \A x \in Requests : TokensInStep(x)'
<1>1. PICK t : t = now + RefreshTtl * TicksPerSecond
  OBVIOUS
<1>2. /\ PairsTyped /\ RedisTyped /\ exp[q] > 0 /\ now \in Nat
      /\ t \in Nat /\ now' = now /\ env' = env
  <2>1. now \in Nat /\ RefreshTtl \in Nat /\ TicksPerSecond \in Nat
    BY Standing, TimesPositive
  <2> QED
    BY <1>1, <2>1, Stands, Standing DEF Frame
<1>3. /\ store' = [store EXCEPT ![q] = t] /\ UNCHANGED <<exp, family, jar, deny, denied, spent>>
  BY <1>1 DEF SetRefresh, tokenVars
<1>4. /\ store'[q] = t /\ \A x \in Requests : x # q => store'[x] = store[x]
      /\ RedisTyped' /\ PairsTyped'
  BY <1>2, <1>3 DEF RedisTyped, PairsTyped
<1>5. ASSUME NEW x \in Requests PROVE TokensInStep(x)'
  <2>1. TokensInStep(x) /\ (Given(x) => Given(x)')
    BY Standing, GivenStays
  <2>2. store'[x] > 0 => Issued(x)' /\ x \notin spent'
    <3>1. CASE x = q
      BY <1>2, <1>3, <2>1, <3>1 DEF TokensInStep, Issued, Given
    <3>2. CASE x # q
      BY <1>3, <1>4, <2>1, <3>2 DEF TokensInStep, Issued
    <3> QED
      BY <3>1, <3>2
  <2> QED
    BY <1>2, <1>3, <2>1, <2>2 DEF TokensInStep, Issued
<1> QED
  BY <1>4, <1>5

LEMMA SaveRefreshTokenKeeps ==
  ASSUME InductiveInv, NEW q \in Requests, SaveRefreshToken(q)
  PROVE  InductiveInv'
<1>1. PICK r : r = req[q]
  OBVIOUS
<1>2. PICK t : t = now + RefreshTtl * TicksPerSecond
  OBVIOUS
<1>3. /\ ReqTyped /\ PairsTyped /\ RedisTyped /\ r.at = "save" /\ r.status = 0
      /\ exp[q] > 0 /\ exp[q] \in Nat
      /\ r.jti \in {None, r.access}
      /\ r.access # None => r.access \in Requests /\ Given(r.access)
      /\ r.refresh # None => r.refresh \in Requests /\ Given(r.refresh)
      /\ r.stale => r.access \in denied
      /\ r.op = "refresh" => r.refresh \in spent
  BY <1>1, Stands, Standing DEF SaveRefreshToken, Took
<1>4. /\ store' = [store EXCEPT ![q] = t] /\ Reply(q, 200)
      /\ UNCHANGED <<env, now, jar, tokenVars, deny, denied, spent>>
  BY <1>2 DEF SaveRefreshToken, SetRefresh
<1>5. now \in Nat /\ Seconds(now) \in Nat /\ Seconds(now) * TicksPerSecond <= now
  BY Standing, SecondsFloor
<1>6. AccessTtl \in Nat /\ RefreshTtl \in Nat /\ TicksPerSecond \in Nat
  BY TimesPositive
<1>7. t \in Nat
  BY <1>2, <1>5, <1>6
<1>8. t >= (exp[q] - AccessTtl + RefreshTtl) * TicksPerSecond
  <2>1. PICK d \in Int : d = exp[q] - AccessTtl
    BY <1>3, <1>6
  <2>2. d <= Seconds(now)
    BY <1>3, <1>5, <1>6, <2>1, Standing DEF TokensInStep, Issued
  <2>3. d * TicksPerSecond <= Seconds(now) * TicksPerSecond
    BY <1>5, <2>2, ProductsGrow
  <2>4. PICK a \in Int : a = d * TicksPerSecond
    BY <1>6
  <2>5. PICK b \in Int : b = Seconds(now) * TicksPerSecond
    BY <1>5, <1>6
  <2>6. PICK c \in Int : c = RefreshTtl * TicksPerSecond
    BY <1>6
  <2>7. (d + RefreshTtl) * TicksPerSecond = a + c
    BY <1>6, <2>4, <2>6
  <2> QED
    BY <1>2, <1>5, <2>1, <2>3, <2>4, <2>5, <2>6, <2>7
<1>9. /\ store'[q] = t /\ \A x \in Requests : x # q => store'[x] = store[x]
      /\ RedisTyped'
  BY <1>3, <1>4, <1>7 DEF RedisTyped
<1>10. exp' = exp /\ family' = family /\ PairsTyped'
  BY <1>3, <1>4 DEF PairsTyped, tokenVars
<1>11. Becomes(q, "reply", r.op, r.access, r.refresh, r.jti, r.ttl, r.stale, 200)
  BY <1>1, <1>3, <1>4, ReplyMoves, LiteralsAre DEF Moves
<1>12. Frame(q)
  BY <1>1, <1>3, <1>4, <1>9, <1>10, <1>11 DEF Frame, Becomes
<1>13. StagesMay(q, "reply", r.op, r.access, r.refresh, r.jti, r.ttl, r.stale, 200)
  BY <1>3, <1>4 DEF StagesMay
<1>14. EffectsMay(q, "reply", r.op, r.access, r.refresh, r.jti, 200)
  BY <1>3, <1>4, <1>8, <1>9, <1>10 DEF EffectsMay
<1>15. \A x \in Requests : TokensInStep(x)'
  BY <1>1, <1>3, <1>4, <1>12, SavingKeeps DEF SaveRefreshToken
<1>16. ASSUME Calm PROVE CalmMay(q, "reply", r.op, r.refresh, 200)
  BY <1>1, <1>3 DEF CalmMay, Settles, Took, LoggedOut, InFlight, Stages
<1>17. CalmChains'
  BY <1>4, <1>11, <1>12, <1>16, CalmMoveKeeps
<1> QED
  BY <1>4, <1>9, <1>10, <1>11, <1>12, <1>13, <1>14, <1>15, <1>17, PartsKeep
(* The deny entry is counted from the remaining time, so it lasts until exp. *)
LEMMA DenyingKeeps ==
  ASSUME InductiveInv, NEW q \in Requests, req[q].at = "deny", Frame(q),
         SetDeny(req[q].jti, req[q].ttl), UNCHANGED <<jar, tokenVars>>
  PROVE  /\ PairsTyped' /\ RedisTyped'
         /\ \A x \in Requests : TokensInStep(x)'
<1>1. PICK r : r = req[q]
  OBVIOUS
<1>2. PICK p : p = r.jti
  OBVIOUS
<1>3. PICK t : t = now + r.ttl * TicksPerSecond
  OBVIOUS
<1>4. /\ PairsTyped /\ RedisTyped /\ now' = now
      /\ p # None /\ r.ttl + Seconds(now) >= exp[p] /\ p = r.access
      /\ r.access # None => r.access \in Requests /\ Given(r.access)
  BY <1>1, <1>2, Stands, Standing DEF Frame
<1>5. p \in Requests /\ Given(p) /\ exp[p] \in Nat
  BY <1>4, Standing
<1>6. /\ deny' = [deny EXCEPT ![p] = t] /\ denied' = denied \cup {p}
      /\ UNCHANGED <<exp, family, jar, store, spent>>
  BY <1>1, <1>2, <1>3 DEF SetDeny, tokenVars
<1>7. r.ttl \in Nat /\ TicksPerSecond \in Nat /\ now \in Nat
  <2>1. r \in RequestStates /\ AccessTtl \in Nat
    BY <1>1, Standing, TimesPositive
  <2>2. r.ttl \in 0..AccessTtl
    BY <2>1, RequestStatesAre
  <2> QED
    BY <2>1, <2>2, Standing, TimesPositive
<1>8. t \in Nat /\ t >= exp[p] * TicksPerSecond
  <2>1. Seconds(now) \in Nat /\ Seconds(now) * TicksPerSecond <= now
    BY <1>7, SecondsFloor
  <2>2. exp[p] * TicksPerSecond <= (r.ttl + Seconds(now)) * TicksPerSecond
    BY <1>4, <1>5, <1>7, <2>1, ProductsGrow
  <2>3. PICK a \in Nat : a = r.ttl * TicksPerSecond
    BY <1>7
  <2>4. PICK b \in Nat : b = Seconds(now) * TicksPerSecond
    BY <1>7, <2>1
  <2>5. PICK c \in Nat : c = exp[p] * TicksPerSecond
    BY <1>5, <1>7
  <2>6. (r.ttl + Seconds(now)) * TicksPerSecond = a + b
    BY <1>7, <2>1, <2>3, <2>4
  <2> QED
    BY <1>3, <1>7, <2>1, <2>2, <2>3, <2>4, <2>5, <2>6
<1>9. /\ deny'[p] = t /\ \A x \in Requests : x # p => deny'[x] = deny[x]
      /\ RedisTyped' /\ PairsTyped'
  BY <1>4, <1>5, <1>6, <1>8 DEF RedisTyped, PairsTyped
<1>10. ASSUME NEW x \in Requests PROVE TokensInStep(x)'
  <2>1. TokensInStep(x) /\ (Given(x) => Given(x)') /\ Given(p)'
    BY <1>5, Standing, GivenStays
  <2>2. /\ deny'[x] > 0 => x \in denied'
        /\ x \in denied' => deny'[x] >= exp[x] * TicksPerSecond
        /\ x \in spent \cup denied' => Given(x)'
    <3>1. CASE x = p
      BY <1>6, <1>8, <1>9, <2>1, <3>1
    <3>2. CASE x # p
      BY <1>6, <1>9, <2>1, <3>2 DEF TokensInStep
    <3> QED
      BY <3>1, <3>2
  <2> QED
    BY <1>6, <1>4, <2>1, <2>2 DEF TokensInStep, Issued
<1> QED
  BY <1>9, <1>10

LEMMA DenyAccessKeeps ==
  ASSUME InductiveInv, NEW q \in Requests, DenyAccess(q)
  PROVE  InductiveInv'
<1>1. PICK r : r = req[q]
  OBVIOUS
<1>2. PICK p : p = r.jti
  OBVIOUS
<1>4. /\ ReqTyped /\ PairsTyped /\ RedisTyped /\ r.at = "deny" /\ r.op = "logout" /\ r.status = 0
      /\ ~(exp[q] > 0)
      /\ p # None /\ r.ttl + Seconds(now) >= exp[p] /\ p = r.access
      /\ r.jti \in {None, r.access}
      /\ r.access # None => r.access \in Requests /\ Given(r.access)
      /\ r.refresh # None => r.refresh \in Requests /\ Given(r.refresh)
      /\ r.stale => r.access \in denied
  BY <1>1, <1>2, Stands, Standing DEF DenyAccess, At, Early
<1>5. p \in Requests /\ Given(p) /\ exp[p] \in Nat
  BY <1>4, Standing
<1>6. /\ denied' = denied \cup {p}
      /\ MoveOn(q, AfterDeny(q), 0)
      /\ UNCHANGED <<env, now, jar, tokenVars, store, spent>>
  BY <1>1, <1>2 DEF DenyAccess, SetDeny
<1>10. exp' = exp /\ store' = store
  BY <1>6 DEF tokenVars
<1>11. PICK stage : stage = IF r.refresh = None THEN "reply" ELSE "revoke"
  OBVIOUS
<1>12. PICK status : status = IF stage = "reply" THEN 204 ELSE 0
  OBVIOUS
<1>13. stage \in {"reply", "revoke"} /\ (stage = "revoke" <=> r.refresh # None)
  BY <1>11
<1>14. Becomes(q, stage, r.op, r.access, r.refresh, r.jti, 0, r.stale, status)
  <2>1. MoveOn(q, stage, 0)
    BY <1>1, <1>6, <1>11 DEF AfterDeny
  <2>2. Moves(q, stage, r.jti, 0, status)
    BY <1>1, <1>4, <1>12, <1>13, <2>1, MoveOnMoves, LiteralsAre
  <2> QED
    BY <1>1, <2>2 DEF Moves
<1>15. Frame(q)
  BY <1>1, <1>4, <1>6, <1>10, <1>14 DEF Frame, Becomes
<1>16. StagesMay(q, stage, r.op, r.access, r.refresh, r.jti, 0, r.stale, status)
  BY <1>4, <1>6, <1>10, <1>12, <1>13 DEF StagesMay
<1>17. EffectsMay(q, stage, r.op, r.access, r.refresh, r.jti, status)
  BY <1>4, <1>6, <1>12, <1>13 DEF EffectsMay
<1>18. /\ PairsTyped' /\ RedisTyped'
       /\ \A x \in Requests : TokensInStep(x)'
  BY <1>1, <1>4, <1>6, <1>15, DenyingKeeps DEF DenyAccess
<1>19. ASSUME Calm PROVE CalmMay(q, stage, r.op, r.refresh, status)
  <2>1. Presents(q) => r.refresh \notin spent
    BY <1>1, <1>19 DEF InductiveInv, CalmChains
  <2>2. r.refresh # None => Presents(q)
    BY <1>1, <1>4 DEF Presents
  <2>3. r.at \in InFlight /\ ~Settles(q)
    BY <1>1, <1>4 DEF Settles, Took, LoggedOut, InFlight, Stages
  <2> QED
    BY <1>1, <1>4, <1>12, <1>13, <2>1, <2>2, <2>3 DEF CalmMay
<1>20. CalmChains'
  BY <1>6, <1>14, <1>15, <1>19, CalmMoveKeeps
<1> QED
  BY <1>6, <1>10, <1>14, <1>15, <1>16, <1>17, <1>18, <1>20, PartsKeep

(* A command fails after it was run: what it did stays done, and the request fails. *)
LEMMA RedisFailsLateKeeps ==
  ASSUME InductiveInv, NEW q \in Requests, RedisFailsLate(q)
  PROVE  InductiveInv'
<1>1. PICK r : r = req[q]
  OBVIOUS
<1>2. /\ UNCHANGED <<env, now, jar, tokenVars>> /\ "redis" \in env.faults /\ Reply(q, 500)
      /\ \/ r.at \in {"del", "revoke"} /\ DelRefresh(r.refresh)
         \/ r.at = "save" /\ SetRefresh(q)
         \/ r.at = "deny" /\ SetDeny(r.jti, r.ttl)
  BY <1>1 DEF RedisFailsLate
<1>3. /\ ReqTyped /\ PairsTyped /\ RedisTyped
      /\ r.jti \in {None, r.access}
      /\ r.access # None => r.access \in Requests /\ Given(r.access)
      /\ r.refresh # None => r.refresh \in Requests /\ Given(r.refresh)
      /\ r.at \in {"del", "revoke"} => r.refresh # None
      /\ r.stale => r.access \in denied
  BY <1>1, Stands, Standing
<1>4. Becomes(q, "reply", r.op, r.access, r.refresh, r.jti, r.ttl, r.stale, 500)
  BY <1>1, <1>2, <1>3, ReplyMoves, LiteralsAre DEF Moves
<1>5. /\ exp' = exp /\ spent \subseteq spent' /\ denied \subseteq denied'
      /\ \A x \in Requests : x # q => store'[x] = store[x] \/ x \in spent'
  <2>1. CASE r.at \in {"del", "revoke"} /\ DelRefresh(r.refresh)
    BY <1>2, <1>3, <2>1 DEF DelRefresh, tokenVars, RedisTyped
  <2>2. CASE r.at = "save" /\ SetRefresh(q)
    BY <1>2, <1>3, <2>2 DEF SetRefresh, tokenVars, RedisTyped
  <2>3. CASE r.at = "deny" /\ SetDeny(r.jti, r.ttl)
    BY <1>2, <2>3 DEF SetDeny, tokenVars
  <2> QED
    BY <1>2, <2>1, <2>2, <2>3
<1>6. Frame(q)
  BY <1>1, <1>2, <1>4, <1>5 DEF Frame, Becomes
<1>7. StagesMay(q, "reply", r.op, r.access, r.refresh, r.jti, r.ttl, r.stale, 500)
  BY <1>3, <1>5 DEF StagesMay
<1>8. EffectsMay(q, "reply", r.op, r.access, r.refresh, r.jti, 500)
  BY <1>2 DEF EffectsMay
<1>9. CalmChains'
  BY <1>2 DEF CalmChains, Calm
<1>10. /\ PairsTyped' /\ RedisTyped'
       /\ \A x \in Requests : TokensInStep(x)'
  <2>1. CASE r.at \in {"del", "revoke"} /\ DelRefresh(r.refresh)
    <3>1. Spends(r.refresh)
      BY <1>2, <2>1 DEF DelRefresh, Spends
    <3> QED
      BY <1>3, <1>6, <2>1, <3>1, SpendingKeeps
  <2>2. CASE r.at = "save" /\ SetRefresh(q)
    BY <1>1, <1>2, <1>6, <2>2, SavingKeeps
  <2>3. CASE r.at = "deny" /\ SetDeny(r.jti, r.ttl)
    BY <1>1, <1>2, <1>6, <2>3, DenyingKeeps
  <2> QED
    BY <1>2, <2>1, <2>2, <2>3
<1> QED
  BY <1>2, <1>4, <1>6, <1>7, <1>8, <1>9, <1>10, PartsKeep

(* The answer arrives, and its pair is the browser's. *)
LEMMA DeliverKeeps ==
  ASSUME InductiveInv, NEW q \in Requests, Deliver(q)
  PROVE  InductiveInv'
<1>1. PICK r : r = req[q]
  OBVIOUS
<1>2. /\ ReqTyped /\ PairsTyped /\ RedisTyped /\ r.at = "reply"
      /\ r.jti \in {None, r.access}
      /\ r.access # None => r.access \in Requests /\ Given(r.access)
      /\ r.refresh # None => r.refresh \in Requests /\ Given(r.refresh)
      /\ r.stale => r.access \in denied
      /\ r.status = 200 /\ r.op \in {"sign_in", "refresh"} => exp[q] > 0 /\ Lasts(q)
      /\ Took(q) => r.refresh \in spent
      /\ LoggedOut(q) /\ r.refresh # None => r.refresh \in spent
      /\ "redis" \notin env.faults =>
           (At(q, "revoke", "logout") \/ LoggedOut(q) => EndsAccess(r.access))
  BY <1>1, Stands, Standing DEF Deliver
<1>3. UNCHANGED <<env, now, tokenVars, redisVars>> /\ GoTo(q, "done")
  BY DEF Deliver
<1>4. /\ exp' = exp /\ family' = family /\ store' = store /\ deny' = deny
      /\ spent' = spent /\ denied' = denied /\ now' = now /\ env' = env
  BY <1>3 DEF tokenVars, redisVars
<1>5. \/ r.status = 200 /\ r.op \in {"sign_in", "refresh"} /\ jar' = q
      \/ r.status = 204 /\ jar' = None
      \/ /\ ~(r.status = 200 /\ r.op \in {"sign_in", "refresh"}) /\ r.status # 204
         /\ jar' = jar
  BY <1>1 DEF Deliver
<1>6. Becomes(q, "done", r.op, r.access, r.refresh, r.jti, r.ttl, r.stale, r.status)
  BY <1>1, <1>2, <1>3, GoToMoves, LiteralsAre DEF Moves
<1>7. Frame(q)
  BY <1>1, <1>2, <1>4, <1>6 DEF Frame, Becomes
<1>8. StagesMay(q, "done", r.op, r.access, r.refresh, r.jti, r.ttl, r.stale, r.status)
  BY <1>2, <1>4 DEF StagesMay, InFlight
<1>9. EffectsMay(q, "done", r.op, r.access, r.refresh, r.jti, r.status)
  BY <1>1, <1>2, <1>4 DEF EffectsMay, Lasts, Took, LoggedOut, EndsAccess, Expired
<1>10. \A p \in Requests : StagesInStep(p)' /\ EffectsInStep(p)'
  BY <1>6, <1>7, <1>8, <1>9, OthersStay, MoverStays
<1>11. \A p \in Requests : TokensInStep(p)'
  BY <1>3, <1>7, TokensStay
<1>12. TypeOK'
  <2>1. jar' \in Requests \cup {None}
    BY <1>2, <1>5 DEF PairsTyped
  <2> QED
    BY <1>2, <1>4, <1>6, <2>1, TypeParts
       DEF InductiveInv, Becomes, TypeOK, ReqTyped, PairsTyped, RedisTyped
<1>13. jar' # None => Given(jar)'
  <2>1. CASE jar' = q
    <3>1. (r.status = 200 /\ r.op \in {"sign_in", "refresh"}) \/ jar = q
      BY <1>5, <2>1, NoneIsNoRequest
    <3>2. jar # q
      BY <1>1, <1>2, NoneIsNoRequest DEF InductiveInv, Given
    <3> QED
      BY <1>6, <2>1, <3>1, <3>2 DEF Becomes, Says, Given
  <2>2. ASSUME jar' = jar, NEW p \in Requests, jar = p, Given(p) PROVE Given(jar)'
    BY <1>7, <2>2, GivenStays DEF Given
  <2> QED
    BY <1>2, <1>5, <2>1, <2>2 DEF InductiveInv, PairsTyped
<1>14. CalmChains'
  <2> SUFFICES ASSUME Calm, Calm' PROVE CalmChains'
    BY <1>3 DEF CalmChains, Calm
  <2>1. /\ req'[q].at = "done" /\ req'[q].op = r.op /\ req'[q].refresh = r.refresh
        /\ req'[q].status = r.status /\ req[q].at \in InFlight
        /\ \A s \in Requests : s # q => req'[s] = req[s]
    BY <1>1, <1>2, <1>6 DEF Becomes, Says, InFlight, Stages
  <2>2. /\ Took(q)' => Took(q) /\ req'[q].refresh = req[q].refresh
        /\ ~Presents(q)' /\ ~At(q, "sign", "refresh")'
        /\ LoggedOut(q)' => LoggedOut(q)
        /\ Settles(q) => (r.status = 200 /\ r.op = "refresh") \/ r.status = 204
    BY <1>1, <1>2, <2>1 DEF Took, Presents, LoggedOut, At, Settles
  <2>3. \A x \in Requests : Live(x)' <=> Live(x)
    BY <1>4 DEF Live, Issued
  <2>4. OneLivePerFamily'
    BY <1>4, <2>3 DEF InductiveInv, CalmChains, OneLivePerFamily
  <2>5. jar' \notin spent'
    <3>1. CASE jar' = jar /\ ~Settles(q)
      <4>1. ASSUME jar \in spent PROVE FALSE
        <5>1. PICK s \in Requests : Settles(s)
          BY <4>1 DEF InductiveInv, CalmChains
        <5>2. req[s].at \in InFlight
          BY <5>1 DEF Settles, InFlight, Stages
        <5> QED
          BY <2>1, <3>1, <5>1, <5>2 DEF InductiveInv, CalmChains
      <4> QED
        BY <1>4, <3>1, <4>1
    <3>2. CASE jar' = q
      <4>1. q \notin spent
        BY <1>1, <1>2, Standing DEF TokensInStep, Given
      <4> QED
        BY <1>4, <3>2, <4>1
    <3>3. CASE jar' = None
      BY <1>2, <1>4, <3>3, NoneIsNoRequest DEF RedisTyped
    <3> QED
      BY <1>5, <2>2, <3>1, <3>2, <3>3
  <2>6. ASSUME NEW s \in Requests, LoggedOut(s)', req'[s].refresh # None,
               NEW x \in Requests, Live(x)'
        PROVE  family'[x] # family'[req'[s].refresh]
    <3>1. LoggedOut(s) /\ req'[s].refresh = req[s].refresh
      <4>1. CASE s = q
        BY <1>1, <2>1, <2>2, <2>6, <4>1
      <4>2. CASE s # q
        BY <2>1, <2>6, <4>2 DEF LoggedOut
      <4> QED
        BY <4>1, <4>2
    <3> QED
      BY <1>4, <2>3, <2>6, <3>1 DEF InductiveInv, CalmChains, NoneLive
  <2> QED
    BY <1>7, <2>1, <2>2, <2>4, <2>5, <2>6, LoneMoveKeeps
<1> QED
  BY <1>10, <1>11, <1>12, <1>13, <1>14 DEF InductiveInv

(* Time passes: what has expired stays expired. *)
LEMMA TickKeeps ==
  ASSUME InductiveInv, Tick
  PROVE  InductiveInv'
<1>1. /\ now' = now + 1 /\ now < MaxNow
      /\ env' = env /\ jar' = jar /\ exp' = exp /\ family' = family /\ store' = store
      /\ deny' = deny /\ spent' = spent /\ denied' = denied /\ req' = req
  BY DEF Tick, tokenVars, redisVars
<1>2. now \in 0..MaxNow /\ MaxNow \in Nat /\ AccessTtl \in Nat
  BY TimesPositive DEF InductiveInv, TypeOK
<1>3. now \in Nat /\ now' \in Nat /\ now' \in 0..MaxNow /\ now <= now'
  BY <1>1, <1>2
<1>4. Seconds(now) \in Nat /\ Seconds(now') \in Nat /\ Seconds(now) <= Seconds(now')
  BY <1>3, SecondsFloor, SecondsGrow
<1>5. TypeOK'
  BY <1>1, <1>3 DEF InductiveInv, TypeOK
<1>6. \A p \in Requests : Given(p)' <=> Given(p)
  BY <1>1 DEF Given
<1>7. ASSUME NEW p \in Requests PROVE TokensInStep(p)'
  <2>1. exp[p] \in AccessTtl .. (Seconds(now) + AccessTtl) =>
          exp[p] \in AccessTtl .. (Seconds(now') + AccessTtl)
    BY <1>2, <1>4, Standing
  <2> QED
    BY <1>1, <1>6, <2>1, Standing DEF TokensInStep, Issued
<1>8. ASSUME NEW q \in Requests PROVE StagesInStep(q)'
  <2>1. PICK r : r = req[q]
    OBVIOUS
  <2>2. /\ StagesInStep(q) /\ r \in RequestStates
        /\ r.access \in Ids /\ r.refresh \in Ids /\ r.jti \in Ids
    BY <2>1, Standing
  <2>3. /\ r.access # None => Given(r.access) /\ Given(r.access)'
        /\ r.refresh # None => Given(r.refresh) /\ Given(r.refresh)'
    BY <1>6, <2>1, <2>2 DEF StagesInStep, Ids
  <2>4. r.at = "deny" => r.ttl + Seconds(now') >= exp[r.jti]
    <3>1. r.at = "deny" => r.jti \in Requests /\ r.ttl + Seconds(now) >= exp[r.jti]
      BY <2>1, <2>2 DEF StagesInStep, Ids
    <3>2. r.ttl \in 0..AccessTtl
      BY <2>2, RequestStatesAre
    <3>3. r.jti \in Requests => exp[r.jti] \in Nat
      BY Standing
    <3> QED
      BY <1>2, <1>4, <3>1, <3>2, <3>3
  <2> QED
    BY <1>1, <2>1, <2>2, <2>3, <2>4 DEF StagesInStep, Issued, Given
<1>9. ASSUME NEW q \in Requests PROVE EffectsInStep(q)'
  <2>1. \A p \in Ids : EndsAccess(p) => EndsAccess(p)'
    <3>1. ASSUME NEW p \in Requests, exp[p] <= Seconds(now) PROVE exp[p] <= Seconds(now')
      BY <1>4, <3>1, Standing
    <3> QED
      BY <1>1, <3>1 DEF EndsAccess, Expired, Ids
  <2>2. PICK a \in Ids : a = req[q].access
    BY Standing
  <2>3. EffectsInStep(q) /\ (EndsAccess(a) => EndsAccess(a)')
    BY <2>1, Standing
  <2>4. (EndsAccess(req[q].access) => EndsAccess(req[q].access)')
    BY <1>1, <2>2, <2>3 DEF EndsAccess, Expired
  <2> QED
    BY <1>1, <2>3, <2>4 DEF EffectsInStep, Issued, Lasts, Took, LoggedOut, At
<1>10. jar' # None => Given(jar)'
  BY <1>1 DEF InductiveInv, Given
<1>11. CalmChains'
  BY <1>1
     DEF InductiveInv, CalmChains, Calm, Took, OneLivePerFamily, Live, Issued, Settles,
         Presents, LoggedOut, NoneLive, At
<1> QED
  BY <1>5, <1>7, <1>8, <1>9, <1>10, <1>11 DEF InductiveInv

(* A stuttering step. *)
LEMMA StutterKeeps ==
  ASSUME InductiveInv, UNCHANGED vars
  PROVE  InductiveInv'
<1>1. /\ now' = now /\ env' = env /\ jar' = jar /\ exp' = exp /\ family' = family /\ store' = store
      /\ deny' = deny /\ spent' = spent /\ denied' = denied /\ req' = req
  BY DEF vars, tokenVars, redisVars
<1> QED
  BY <1>1
     DEF InductiveInv, TypeOK, TokensInStep, StagesInStep, EffectsInStep, CalmChains, Calm,
         Took, OneLivePerFamily, Live, Issued, Settles, Presents, LoggedOut, NoneLive, At,
         Given, Lasts, EndsAccess, Expired, Seconds
-----------------------------------------------------------------------------
(* The invariant, and what follows from it. *)

LEMMA InitEstablishes ==
  ASSUME Init
  PROVE  InductiveInv
<1>1. /\ env \in Environments /\ now = 0 /\ jar = None /\ denied = {} /\ spent = {}
      /\ exp \in [Requests -> Nat] /\ \A p \in Requests : exp[p] = 0
      /\ family \in [Requests -> Requests \cup {None}] /\ \A p \in Requests : family[p] = None
      /\ store \in [Requests -> Nat] /\ \A p \in Requests : store[p] = 0
      /\ deny \in [Requests -> Nat] /\ \A p \in Requests : deny[p] = 0
      /\ \A q \in Requests : req[q] = NotMade
      /\ now \in 0..MaxNow
  BY TimesPositive DEF Init
<1>2. NotMade \in RequestStates
  <2>1. /\ "idle" \in Stages /\ "none" \in Ops /\ None \in Ids /\ 0 \in 0..AccessTtl
        /\ 0 \in Statuses /\ FALSE \in BOOLEAN
    BY LiteralsAre DEF Stages, Ops
  <2> QED
    BY <2>1, RequestStatesAre DEF NotMade
<1>3. ASSUME NEW q \in Requests
      PROVE  /\ req[q].at = "idle" /\ req[q].op = "none" /\ req[q].access = None
             /\ req[q].refresh = None /\ req[q].jti = None /\ req[q].stale = FALSE
             /\ req[q].status = 0 /\ ~Issued(q)
  <2>1. /\ NotMade.at = "idle" /\ NotMade.op = "none" /\ NotMade.access = None
        /\ NotMade.refresh = None /\ NotMade.jti = None /\ NotMade.stale = FALSE
        /\ NotMade.status = 0
    BY DEF NotMade
  <2>2. req[q] = NotMade /\ exp[q] = 0
    BY <1>1
  <2> QED
    BY <2>1, <2>2 DEF Issued
<1>4. req \in [Requests -> RequestStates]
  BY <1>2 DEF Init
<1>5. TypeOK
  BY <1>1, <1>4 DEF TypeOK
<1>6. \A p \in Requests : TokensInStep(p)
  <2>1. ASSUME NEW p \in Requests PROVE TokensInStep(p)
    <3>1. family[p] = None /\ store[p] = 0 /\ deny[p] = 0 /\ denied = {} /\ spent = {}
      BY <1>1
    <3>2. ~Issued(p)
      BY <1>3
    <3>3. ~(store[p] > 0) /\ ~(deny[p] > 0)
      BY <3>1
    <3> QED
      BY <3>1, <3>2, <3>3 DEF TokensInStep
  <2> QED
    BY <2>1
<1>7. \A q \in Requests : StagesInStep(q) /\ EffectsInStep(q)
  <2>1. ASSUME NEW q \in Requests PROVE StagesInStep(q)
    BY <1>3 DEF StagesInStep
  <2>2. ASSUME NEW q \in Requests PROVE EffectsInStep(q)
    BY <1>3 DEF EffectsInStep, Took, LoggedOut, At
  <2> QED
    BY <2>1, <2>2
<1>8. CalmChains
  <2>1. \A q \in Requests :
          /\ req[q].at \notin InFlight /\ ~Took(q) /\ ~LoggedOut(q) /\ ~Presents(q)
          /\ ~At(q, "sign", "refresh") /\ ~Live(q)
    BY <1>3 DEF InFlight, Took, LoggedOut, Presents, At, Live
  <2>2. OneLivePerFamily
    BY <2>1 DEF OneLivePerFamily
  <2> QED
    BY <1>1, <2>1, <2>2 DEF CalmChains
<1> QED
  BY <1>1, <1>5, <1>6, <1>7, <1>8 DEF InductiveInv

LEMMA StepKeeps ==
  ASSUME InductiveInv, NEW q \in Requests, Step(q)
  PROVE  InductiveInv'
<1>1. CASE SignIn(q) \/ TakeGet(q) \/ VerifyClaims(q) \/ Admit(q) \/ KeepClaims(q)
  BY <1>1, EarlyStepsKeep
<1>2. CASE TakeDel(q)
  BY <1>2, TakeDelKeeps
<1>3. CASE SignAccessToken(q)
  BY <1>3, SignAccessTokenKeeps
<1>4. CASE SaveRefreshToken(q)
  BY <1>4, SaveRefreshTokenKeeps
<1>5. CASE StartLogout(q)
  BY <1>5, StartLogoutKeeps
<1>6. CASE DenyAccess(q)
  BY <1>6, DenyAccessKeeps
<1>7. CASE RevokeRefresh(q)
  BY <1>7, RevokeRefreshKeeps
<1>8. CASE Deliver(q)
  BY <1>8, DeliverKeeps
<1> QED
  BY <1>1, <1>2, <1>3, <1>4, <1>5, <1>6, <1>7, <1>8 DEF Step

LEMMA NextKeeps ==
  ASSUME InductiveInv, [Next]_vars
  PROVE  InductiveInv'
<1>1. ASSUME NEW q \in Requests, NEW op \in Operations, NEW access \in AccessCookies(op),
             NEW refresh \in RefreshCookies(op), Arrive(q, op, access, refresh)
      PROVE  InductiveInv'
  BY <1>1, ArriveKeeps
<1>2. ASSUME NEW q \in Requests, Step(q) PROVE InductiveInv'
  BY <1>2, StepKeeps
<1>3. ASSUME NEW q \in Requests, Lose(q) PROVE InductiveInv'
  BY <1>3, LoseKeeps
<1>4. ASSUME NEW q \in Requests, RedisFails(q) PROVE InductiveInv'
  BY <1>4, RedisFailsKeeps
<1>5. CASE Tick
  BY <1>5, TickKeeps
<1>7. ASSUME NEW q \in Requests, RedisFailsLate(q) PROVE InductiveInv'
  BY <1>7, RedisFailsLateKeeps
<1>6. CASE Quiet \/ UNCHANGED vars
  BY <1>6, StutterKeeps DEF Quiet
<1> QED
  BY <1>1, <1>2, <1>3, <1>4, <1>5, <1>6, <1>7 DEF Next

(***************************************************************************)
(* What Redis, the cookies and the requests in progress know of the tokens *)
(* agrees with their history, in every environment; without overlap and    *)
(* faults every family is a chain.                                         *)
(***************************************************************************)
THEOREM Invariance == Spec => []InductiveInv
<1>1. InductiveInv /\ [Next]_vars => InductiveInv'
  BY NextKeeps
<1> QED
  BY <1>1, InitEstablishes, PTL DEF Spec

LEMMA BackedFollows ==
  ASSUME InductiveInv
  PROVE  CookieBacked
<1> SUFFICES ASSUME jar # None, ~(jar \in spent), ~Stored(jar)
             PROVE  Seconds(now) >= exp[jar] - AccessTtl + RefreshTtl
  BY DEF CookieBacked
<1>1. PICK p \in Requests : p = jar /\ Given(p)
  BY Standing DEF InductiveInv, TypeOK
<1>2. /\ Issued(p) /\ Lasts(p) /\ store[p] \in Nat /\ exp[p] \in Nat /\ now \in Nat
  BY <1>1, Standing DEF EffectsInStep, Given
<1>3. AccessTtl \in Nat /\ RefreshTtl \in Nat /\ TicksPerSecond \in Nat
  BY TimesPositive
<1>4. PICK k \in Int : k = exp[p] - AccessTtl + RefreshTtl
  BY <1>2, <1>3
<1>5. PICK a \in Int : a = k * TicksPerSecond
  BY <1>3
<1>6. store[p] >= a /\ ~(now < store[p])
  BY <1>1, <1>2, <1>4, <1>5 DEF Lasts, Stored
<1>7. a <= now
  BY <1>2, <1>6
<1>8. k <= Seconds(now)
  BY <1>2, <1>5, <1>7, SecondsReached
<1> QED
  BY <1>1, <1>2, <1>4, <1>8, SecondsFloor

(***************************************************************************)
(* The refresh token in the cookies works until it is used up or over      *)
(* (redis-refresh-token.store.ts:19-32).                                   *)
(***************************************************************************)
THEOREM CookiesWork == Spec => []CookieBacked
  BY Invariance, BackedFollows, PTL

LEMMA DeniedOrExpired ==
  ASSUME InductiveInv, NEW p \in denied
  PROVE  Denied(p) \/ Expired(p)
<1>1. /\ p \in Requests /\ TokensInStep(p) /\ exp[p] \in Nat /\ deny[p] \in Nat /\ now \in Nat
  BY Standing DEF InductiveInv, TypeOK
<1>2. TicksPerSecond \in Nat
  BY TimesPositive
<1>3. PICK a \in Int : a = exp[p] * TicksPerSecond
  BY <1>1, <1>2
<1>4. deny[p] >= a
  BY <1>1, <1>3 DEF TokensInStep
<1>5. ASSUME ~(now < deny[p]) PROVE exp[p] <= Seconds(now)
  BY <1>1, <1>3, <1>4, <1>5, SecondsReached
<1> QED
  BY <1>5 DEF Denied, Expired

LEMMA SpentIsGone ==
  ASSUME InductiveInv, NEW p \in spent
  PROVE  ~Stored(p)
<1>1. p \in Requests /\ TokensInStep(p) /\ store[p] \in Nat /\ now \in Nat
  BY Standing DEF InductiveInv, TypeOK
<1> QED
  BY <1>1 DEF TokensInStep, Stored

LEMMA RevocationFollows ==
  ASSUME InductiveInv
  PROVE  LogoutRevokesIfRedisAnswers
<1> SUFFICES ASSUME "redis" \notin env.faults, NEW q \in Requests, LoggedOut(q)
             PROVE  /\ req[q].access # None => Denied(req[q].access) \/ Expired(req[q].access)
                    /\ req[q].refresh # None => ~Stored(req[q].refresh)
  BY DEF LogoutRevokesIfRedisAnswers, LogoutRevokes, LoggedOut
<1>1. EffectsInStep(q)
  BY Standing
<1>2. EndsAccess(req[q].access)
  BY <1>1 DEF EffectsInStep
<1>3. req[q].refresh # None => req[q].refresh \in spent
  BY <1>1 DEF EffectsInStep
<1> QED
  BY <1>2, <1>3, DeniedOrExpired, SpentIsGone DEF EndsAccess

(***************************************************************************)
(* A logout that Redis answers leaves neither token of use to anybody      *)
(* (auth.controller.ts:115-135, logout.use-case.ts).                       *)
(***************************************************************************)
THEOREM LogoutsRevoke == Spec => []LogoutRevokesIfRedisAnswers
  BY Invariance, RevocationFollows, PTL

LEMMA ChainsFollow ==
  ASSUME InductiveInv
  PROVE  CalmSessionsAreChains
<1> SUFFICES ASSUME Calm PROVE CalmSessionsAreChains
  BY DEF CalmSessionsAreChains
<1>1. ASSUME NEW p \in Requests, Stored(p) PROVE Live(p) /\ family[p] # None
  <2>1. TokensInStep(p) /\ store[p] \in Nat /\ now \in Nat
    BY Standing
  <2>2. store[p] > 0
    BY <1>1, <2>1 DEF Stored
  <2> QED
    BY <2>1, <2>2 DEF TokensInStep, Live
<1>2. RotatesOnce
  <2>1. \A q \in Requests : req[q].op = "refresh" /\ req[q].status = 200 => Took(q)
    BY DEF Took
  <2> QED
    BY <2>1 DEF RotatesOnce, InductiveInv, CalmChains
<1>3. \A p, r \in Requests :
        family[p] # None /\ family[p] = family[r] /\ Stored(p) /\ Stored(r) => p = r
  BY <1>1 DEF InductiveInv, CalmChains, OneLivePerFamily
<1>4. (\A q \in Requests : req[q].at \notin InFlight) => jar \notin spent
  BY DEF InductiveInv, CalmChains, Settles, InFlight, Stages
<1>5. \A q, p \in Requests :
        /\ req[q].op = "logout" /\ req[q].status = 204 /\ req[q].refresh # None
        /\ family[p] = family[req[q].refresh]
        => ~Stored(p)
  BY <1>1 DEF InductiveInv, CalmChains, LoggedOut, NoneLive
<1> QED
  BY <1>2, <1>3, <1>4, <1>5 DEF CalmSessionsAreChains

(***************************************************************************)
(* Without overlap and faults a session is one chain of rotations          *)
(* (refresh-session.use-case.ts:25).                                       *)
(***************************************************************************)
THEOREM SessionsAreChains == Spec => []CalmSessionsAreChains
  BY Invariance, ChainsFollow, PTL

(* A step of a request leaves the others as they are. *)
LEMMA OthersUntouched ==
  ASSUME InductiveInv, NEW p \in Requests, Step(p) \/ Lose(p) \/ RedisFails(p) \/ RedisFailsLate(p),
         NEW q \in Requests, q # p
  PROVE  req'[q] = req[q]
<1> ReqTyped
  BY Standing
<1>1. ASSUME NEW stage, GoTo(p, stage) PROVE req'[q] = req[q]
  BY <1>1 DEF ReqTyped, GoTo
<1>2. ASSUME NEW status, Reply(p, status) PROVE req'[q] = req[q]
  BY <1>2 DEF ReqTyped, Reply
<1>3. ASSUME NEW stage, NEW ttl, MoveOn(p, stage, ttl) PROVE req'[q] = req[q]
  BY <1>3 DEF ReqTyped, MoveOn
<1>4. ASSUME KeepClaims(p) PROVE req'[q] = req[q]
  <2>1. CASE Denied(req[p].access)
    BY <1>1, <1>4, <2>1 DEF KeepClaims
  <2>2. CASE ~Denied(req[p].access)
    BY <1>4, <2>2 DEF ReqTyped, KeepClaims
  <2> QED
    BY <2>1, <2>2
<1>5. ASSUME StartLogout(p) PROVE req'[q] = req[q]
  BY <1>3, <1>5 DEF StartLogout
<1>6. ASSUME SignIn(p) \/ TakeGet(p) \/ VerifyClaims(p) PROVE req'[q] = req[q]
  <2>1. CASE SignIn(p)
    BY <1>1, <1>2, <2>1 DEF SignIn
  <2>2. CASE TakeGet(p)
    BY <1>1, <1>2, <2>2 DEF TakeGet
  <2>3. CASE VerifyClaims(p)
    <3>1. GoTo(p, "isRevoked") \/ Reply(p, 401) \/ GoTo(p, "logout")
      <4>1. \/ ~Expired(req[p].access)
            \/ Expired(req[p].access) /\ req[p].op = "me"
            \/ Expired(req[p].access) /\ req[p].op = "logout"
        BY <2>3, Standing DEF VerifyClaims, StagesInStep
      <4> QED
        BY <2>3, <4>1 DEF VerifyClaims
    <3> QED
      BY <1>1, <1>2, <3>1
  <2> QED
    BY <1>6, <2>1, <2>2, <2>3
<1>7. ASSUME Admit(p) PROVE req'[q] = req[q]
  BY <1>2, <1>7 DEF Admit
<1>8. ASSUME DenyAccess(p) \/ RevokeRefresh(p) PROVE req'[q] = req[q]
  BY <1>3, <1>8 DEF DenyAccess, RevokeRefresh
<1>9. ASSUME TakeDel(p) \/ SignAccessToken(p) \/ Deliver(p) PROVE req'[q] = req[q]
  BY <1>1, <1>9 DEF TakeDel, SignAccessToken, Deliver
<1>10. ASSUME SaveRefreshToken(p) PROVE req'[q] = req[q]
  BY <1>2, <1>10 DEF SaveRefreshToken
<1>11. ASSUME Lose(p) PROVE req'[q] = req[q]
  BY <1>11 DEF ReqTyped, Lose
<1>12. ASSUME RedisFails(p) PROVE req'[q] = req[q]
  BY <1>1, <1>2, <1>12 DEF RedisFails
<1>13. ASSUME RedisFailsLate(p) PROVE req'[q] = req[q]
  BY <1>2, <1>13 DEF RedisFailsLate
<1> QED
  BY <1>4, <1>5, <1>6, <1>7, <1>8, <1>9, <1>10, <1>11, <1>12, <1>13 DEF Step

(***************************************************************************)
(* The guard lets nobody in with a token that was denied when the request  *)
(* arrived: the deny entry lasts as long as the token                      *)
(* (jwt-verifier.service.ts:38-48).                                        *)
(***************************************************************************)
THEOREM DenialBinds == Spec => AdmitsOnlyUndenied
<1>1. ASSUME InductiveInv, [Next]_vars, NEW q \in Requests, Admitted(q), req[q].stale
      PROVE  Expired(req[q].access)
  <2>1. At(q, "isRevoked", "me") /\ req'[q].status = 200
    BY <1>1 DEF Admitted
  <2>2. StagesInStep(q) /\ ReqTyped
    BY <1>1, Standing
  <2>3. req[q].access \in denied /\ req[q].status = 0
    BY <1>1, <2>1, <2>2 DEF StagesInStep, At
  <2>4. Admit(q) \/ RedisFails(q)
    <3>1. ASSUME NEW p \in Requests, Step(p) \/ Lose(p) \/ RedisFails(p) \/ RedisFailsLate(p), p # q PROVE FALSE
      <4>1. req'[q] = req[q]
        BY <1>1, <3>1, OthersUntouched
      <4> QED
        BY <2>1, <2>3, <4>1
    <3>2. ASSUME NEW p \in Requests, NEW op \in Operations, NEW access, NEW refresh,
                 Arrive(p, op, access, refresh)
          PROVE  FALSE
      <4>1. p # q
        BY <2>1, <3>2 DEF Arrive, At
      <4>2. req'[q] = req[q]
        BY <2>2, <3>2, <4>1 DEF Arrive, ReqTyped
      <4> QED
        BY <2>1, <2>3, <4>2
    <3>3. ~(req' = req)
      BY <2>1, <2>3
    <3>4. ~Tick /\ ~Quiet /\ ~UNCHANGED vars
      BY <3>3 DEF Tick, Quiet, vars
    <3>5. Step(q) \/ Lose(q) \/ RedisFails(q) \/ RedisFailsLate(q)
      BY <1>1, <3>1, <3>2, <3>4 DEF Next
    <3>6. req[q].at = "isRevoked" /\ req[q].op = "me"
      BY <2>1 DEF At
    <3> QED
      BY <3>5, <3>6
         DEF Step, Lose, RedisFailsLate, SignIn, TakeGet, TakeDel, SignAccessToken, SaveRefreshToken,
             VerifyClaims, KeepClaims, StartLogout, DenyAccess, RevokeRefresh, Deliver, At
  <2>5. CASE Admit(q)
    <3>1. ~Denied(req[q].access)
      <4>1. ASSUME Denied(req[q].access) PROVE FALSE
        <5>1. Reply(q, 401)
          BY <2>5, <4>1 DEF Admit
        <5>2. req'[q].status = 401
          BY <2>2, <5>1, ReplyMoves, LiteralsAre DEF Moves, Becomes, Says
        <5> QED
          BY <2>1, <5>2
      <4> QED
        BY <4>1
    <3> QED
      BY <1>1, <2>3, <3>1, DeniedOrExpired
  <2>6. CASE RedisFails(q)
    <3>1. Reply(q, 500)
      BY <2>1, <2>6 DEF RedisFails, At
    <3>2. req'[q].status = 500
      BY <2>2, <3>1, ReplyMoves, LiteralsAre DEF Moves, Becomes, Says
    <3> QED
      BY <2>1, <3>2
  <2> QED
    BY <2>4, <2>5, <2>6
<1>2. InductiveInv /\ [Next]_vars =>
        [\A q \in Requests : Admitted(q) => ~req[q].stale \/ Expired(req[q].access)]_vars
  BY <1>1
<1> QED
  BY <1>2, Invariance, PTL DEF Spec, AdmitsOnlyUndenied

=============================================================================
