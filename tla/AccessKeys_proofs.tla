--------------------------- MODULE AccessKeys_proofs ---------------------------
(***************************************************************************)
(* Proofs about AccessKeys, for any keys, environments, permissions,       *)
(* requests and pages: what the guards let pass was permitted, and, in     *)
(* redis, a key deleted in the dashboard grants nothing; the list is that  *)
(* of all keys that grant anything, its pages are together the list, and   *)
(* the page a request is shown is one of the list.                         *)
(***************************************************************************)
EXTENDS AccessKeys, Recursion

(* A request is a record with these fields; said by itself, since what the
   fields about pages hold does not matter here.                           *)
IsRequest(j) ==
  j = [pc |-> j.pc, route |-> j.route, key |-> j.key, env |-> j.env, target |-> j.target,
       page |-> j.page, size |-> j.size, todo |-> j.todo, items |-> j.items, held |-> j.held,
       perms |-> j.perms, origins |-> j.origins, pages |-> j.pages]

(* What a request knows that its guard let pass, or is about to. *)
Justified(j) ==
  /\ j.pc = "env" => j.route \notin Dashboard /\ j.held[1] \in j.perms
  /\ j.pc = "allowed" =>
       IF j.route \in Dashboard THEN \E p \in j.perms : p.admin
       ELSE \E p \in j.perms, e \in j.origins \cup (Envs \cap {j.env}) : Can(p, e, j.route)

(* A request under way asks about a key that was made. *)
Sound(j, made) == IsRequest(j) /\ j.target \in made /\ Justified(j)

Requests ==
  /\ DOMAIN job = Clients
  /\ \A c \in Clients : Active(c) => Sound(job[c], issued)

(* A deleted key is one that was made, and so is never made again. *)
Deleted ==
  /\ DOMAIN entry \subseteq issued /\ revoked \subseteq issued /\ issued \subseteq Keys
  /\ backend = "redis" => revoked \cap DOMAIN entry = {}

Inv == Requests /\ Deleted

-----------------------------------------------------------------------------
(* What a request sees of a step of the store leaves it as it is. *)
LEMMA SeenKeeps ==
  ASSUME NEW j, IsRequest(j)
  PROVE  /\ IsRequest(Seen(j))
         /\ Seen(j).pc = j.pc /\ Seen(j).route = j.route /\ Seen(j).key = j.key
         /\ Seen(j).env = j.env /\ Seen(j).target = j.target /\ Seen(j).held = j.held
         /\ Seen(j).page = j.page /\ Seen(j).size = j.size
         /\ Seen(j).items = j.items /\ Seen(j).todo = j.todo
<1>1. PICK P, O, Q : Seen(j) = [j EXCEPT !.perms = P, !.origins = O, !.pages = Q]
  BY Zenon DEF Seen
<1> QED BY <1>1 DEF IsRequest

LEMMA SeenGuard ==
  ASSUME NEW j, IsRequest(j), j.pc \in {"key", "env", "allowed"}
  PROVE  /\ Seen(j).perms = j.perms \cup {entry'[k] : k \in DOMAIN entry' \cap {j.key}}
         /\ Seen(j).origins = j.origins \cup {original'[e] : e \in DOMAIN original' \cap {j.env}}
<1> DEFINE P == {entry'[k] : k \in DOMAIN entry' \cap {j.key}}
           O == {original'[e] : e \in DOMAIN original' \cap {j.env}}
<1>1. PICK Q : Seen(j) = [j EXCEPT !.perms = @ \cup P, !.origins = @ \cup O, !.pages = Q]
  BY Zenon DEF Seen
<1> HIDE DEF P, O
<1>2. Seen(j).perms = j.perms \cup P /\ Seen(j).origins = j.origins \cup O
  BY <1>1 DEF IsRequest
<1> QED BY <1>2 DEF P, O

LEMMA SeenJustified ==
  ASSUME NEW j, IsRequest(j), Justified(j) PROVE Justified(Seen(j))
<1> DEFINE s == Seen(j)
<1>1. s.pc = j.pc /\ s.route = j.route /\ s.env = j.env /\ s.held = j.held
  BY SeenKeeps
<1>2. j.pc \in {"env", "allowed"} => j.perms \subseteq s.perms /\ j.origins \subseteq s.origins
  BY SeenGuard
<1> HIDE DEF s
<1>3. s.pc = "env" => s.route \notin Dashboard /\ s.held[1] \in s.perms
  BY <1>1, <1>2 DEF Justified
<1>4. ASSUME s.pc = "allowed", s.route \in Dashboard PROVE \E p \in s.perms : p.admin
  BY <1>1, <1>2, <1>4 DEF Justified
<1>5. ASSUME s.pc = "allowed", s.route \notin Dashboard
      PROVE  \E p \in s.perms, e \in s.origins \cup (Envs \cap {s.env}) : Can(p, e, s.route)
  <2>1. PICK p \in j.perms, e \in j.origins \cup (Envs \cap {j.env}) : Can(p, e, j.route)
    BY <1>1, <1>5 DEF Justified
  <2> QED BY <1>1, <1>2, <1>5, <2>1
<1> QED BY <1>3, <1>4, <1>5 DEF Justified, s

LEMMA SeenSound ==
  ASSUME NEW j, NEW made, Sound(j, made) PROVE Sound(Seen(j), made)
BY SeenKeeps, SeenJustified DEF Sound

(* A step of request c, which becomes j; the others see it. *)
LEMMA GoesKeeps ==
  ASSUME Requests, issued \subseteq issued', NEW c \in Clients, NEW j, Goes(c, j),
         j.pc # "idle" => Sound(Seen(j), issued')
  PROVE  Requests'
<1>1. job' = [d \in Clients |-> IF d = c THEN (IF j.pc = "idle" THEN Idle ELSE Seen(j))
                                ELSE IF Active(d) THEN Seen(job[d]) ELSE Idle]
  BY DEF Goes
<1> SUFFICES ASSUME NEW d \in Clients, job'[d].pc # "idle" PROVE Sound(job'[d], issued')
  BY <1>1 DEF Requests, Active
<1>2. CASE d = c
  BY <1>1, <1>2 DEF Idle
<1>3. CASE d # c
  <2>1. Active(d) /\ job'[d] = Seen(job[d])
    BY <1>1, <1>3 DEF Idle
  <2>2. Sound(job[d], issued')
    BY <2>1 DEF Requests, Sound
  <2> QED BY <2>1, <2>2, SeenSound
<1> QED BY <1>2, <1>3

LEMMA OthersKeep ==
  ASSUME Requests, issued \subseteq issued', Others PROVE Requests'
<1>1. job' = [d \in Clients |-> IF Active(d) THEN Seen(job[d]) ELSE Idle]
  BY DEF Others
<1> SUFFICES ASSUME NEW d \in Clients, job'[d].pc # "idle" PROVE Sound(job'[d], issued')
  BY <1>1 DEF Requests, Active
<1>2. Active(d) /\ job'[d] = Seen(job[d])
  BY <1>1 DEF Idle
<1>3. Sound(job[d], issued')
  BY <1>2 DEF Requests, Sound
<1> QED BY <1>2, <1>3, SeenSound

(* A request that ends, or goes where nothing has to be justified. *)
LEMMA EndsKeeps ==
  ASSUME Requests, issued \subseteq issued', NEW c \in Clients, Ends(c) PROVE Requests'
BY GoesKeeps DEF Ends, Idle

LEMMA GoesFree ==
  ASSUME Requests, issued \subseteq issued', NEW c \in Clients, NEW j, Goes(c, j),
         IsRequest(j), j.target \in issued', j.pc \notin {"env", "allowed"}
  PROVE  Requests'
BY GoesKeeps, SeenSound DEF Sound, Justified

(* A guard that decides for what it has seen. *)
LEMMA DecidedKeeps ==
  ASSUME Requests, issued \subseteq issued', NEW c \in Clients, Active(c), NEW allowed,
         Decided(c, allowed), job[c].pc \in {"key", "env"},
         allowed =>
           LET s == Seen([job[c] EXCEPT !.pc = "allowed"])
           IN  IF s.route \in Dashboard THEN \E p \in s.perms : p.admin
               ELSE \E p \in s.perms, e \in s.origins \cup (Envs \cap {s.env}) : Can(p, e, s.route)
  PROVE  Requests'
<1> DEFINE j == [job[c] EXCEPT !.pc = "allowed"]
<1>1. IsRequest(job[c]) /\ job[c].target \in issued'
  BY DEF Requests, Sound
<1>2. IsRequest(j) /\ j.pc = "allowed" /\ j.target = job[c].target
  BY <1>1 DEF IsRequest
<1>3. CASE allowed
  <2>1. Goes(c, j)
    BY <1>3 DEF Decided, Moves
  <2>2. IsRequest(Seen(j)) /\ Seen(j).pc = "allowed" /\ Seen(j).target \in issued'
    BY <1>1, <1>2, SeenKeeps
  <2>3. Justified(Seen(j))
    BY <1>3, <2>2 DEF Justified
  <2> HIDE DEF j
  <2> QED BY <2>1, <2>2, <2>3, GoesKeeps DEF Sound
<1>4. CASE ~allowed
  BY <1>4, EndsKeeps DEF Decided
<1> QED BY <1>3, <1>4

(* The guards. *)
LEMMA LookUpKeyKeeps ==
  ASSUME Requests, NEW c \in Clients, LookUpKey(c) PROVE Requests'
<1> DEFINE k == job[c].key  e == job[c].env
<1>1. Active(c) /\ job[c].pc = "key" /\ UNCHANGED <<entry, issued>>
  BY DEF LookUpKey, At, Keeps, store
<1>2. IsRequest(job[c]) /\ job[c].target \in issued' /\ issued \subseteq issued'
  BY <1>1 DEF Requests, Sound
<1>3. ASSUME NEW j, IsRequest(j), j.pc \in {"env", "allowed"}, j.key = k, k \in DOMAIN entry
      PROVE  entry[k] \in Seen(j).perms
  BY <1>1, <1>3, SeenGuard
<1>4. CASE k \notin DOMAIN entry
  BY <1>2, <1>4, EndsKeeps DEF LookUpKey
<1>5. CASE k \in DOMAIN entry /\ On(c, Dashboard)
  <2> DEFINE j == [job[c] EXCEPT !.pc = "allowed"]
  <2>1. IsRequest(j) /\ j.pc = "allowed" /\ j.key = k /\ j.route \in Dashboard
    BY <1>2, <1>5 DEF IsRequest, On
  <2>2. entry[k] \in Seen(j).perms /\ Seen(j).route \in Dashboard
    BY <1>3, <1>5, <2>1, SeenKeeps
  <2>3. Decided(c, entry[k].admin)
    BY <1>5 DEF LookUpKey
  <2> HIDE DEF j
  <2>4. entry[k].admin => \E p \in Seen(j).perms : p.admin
    BY <2>2
  <2> QED BY <1>1, <1>2, <2>2, <2>3, <2>4, DecidedKeeps DEF j
<1>6. CASE k \in DOMAIN entry /\ ~On(c, Dashboard) /\ e \in Envs
  <2> DEFINE j == [job[c] EXCEPT !.pc = "allowed"]
  <2>1. IsRequest(j) /\ j.pc = "allowed" /\ j.key = k /\ j.route = job[c].route /\ j.env = e
    BY <1>2 DEF IsRequest
  <2>2. /\ entry[k] \in Seen(j).perms /\ Seen(j).route = job[c].route /\ Seen(j).env = e
        /\ job[c].route \notin Dashboard
    BY <1>3, <1>6, <2>1, SeenKeeps DEF On
  <2>3. Decided(c, Can(entry[k], e, job[c].route))
    BY <1>6 DEF LookUpKey
  <2> HIDE DEF j
  <2>4. Can(entry[k], e, job[c].route) =>
          \E p \in Seen(j).perms, f \in Seen(j).origins \cup (Envs \cap {Seen(j).env}) :
            Can(p, f, Seen(j).route)
    BY <1>6, <2>2
  <2> QED BY <1>1, <1>2, <2>2, <2>3, <2>4, DecidedKeeps DEF j
<1>7. CASE k \in DOMAIN entry /\ ~On(c, Dashboard) /\ e \notin Envs
  <2> DEFINE j == [job[c] EXCEPT !.pc = "env", !.held = <<entry[k]>>]
  <2>1. /\ IsRequest(j) /\ j.pc = "env" /\ j.key = k /\ j.route = job[c].route
        /\ j.held = <<entry[k]>> /\ j.target = job[c].target
    <3>1. PICK held : held = <<entry[k]>>
      OBVIOUS
    <3>2. j = [job[c] EXCEPT !.pc = "env", !.held = held]
      BY <3>1
    <3> HIDE DEF j
    <3> QED BY <1>2, <3>1, <3>2 DEF IsRequest
  <2>2. Goes(c, j)
    BY <1>7 DEF LookUpKey
  <2> HIDE DEF j
  <2>3. /\ entry[k] \in Seen(j).perms /\ Seen(j).route \notin Dashboard /\ Seen(j).pc = "env"
        /\ Seen(j).held[1] = entry[k]
    BY <1>3, <1>7, <2>1, SeenKeeps DEF On
  <2>4. Sound(Seen(j), issued')
    BY <1>2, <2>1, <2>3, SeenKeeps DEF Sound, Justified
  <2> QED BY <1>2, <2>2, <2>4, GoesKeeps
<1> QED BY <1>4, <1>5, <1>6, <1>7

LEMMA LookUpEnvKeeps ==
  ASSUME Requests, NEW c \in Clients, LookUpEnv(c) PROVE Requests'
<1> DEFINE p == job[c].held[1]  e == job[c].env  j == [job[c] EXCEPT !.pc = "allowed"]
<1>1. Active(c) /\ job[c].pc = "env" /\ UNCHANGED <<original, issued>>
  BY DEF LookUpEnv, At, Keeps
<1>2. IsRequest(job[c]) /\ issued \subseteq issued' /\ job[c].route \notin Dashboard /\ p \in job[c].perms
  BY <1>1 DEF Requests, Sound, Justified
<1>3. IsRequest(j) /\ j.pc = "allowed" /\ j.route = job[c].route /\ j.env = e /\ j.perms = job[c].perms
  BY <1>2 DEF IsRequest
<1>4. Decided(c, e \in DOMAIN original /\ Can(p, original[e], job[c].route))
  BY DEF LookUpEnv
<1> HIDE DEF j
<1>5. /\ Seen(j).route = job[c].route /\ Seen(j).route \notin Dashboard /\ p \in Seen(j).perms
      /\ e \in DOMAIN original => original[e] \in Seen(j).origins
  BY <1>1, <1>2, <1>3, SeenKeeps, SeenGuard
<1>6. e \in DOMAIN original /\ Can(p, original[e], job[c].route) =>
        \E q \in Seen(j).perms, f \in Seen(j).origins \cup (Envs \cap {Seen(j).env}) :
          Can(q, f, Seen(j).route)
  BY <1>5
<1> QED BY <1>1, <1>2, <1>4, <1>5, <1>6, DecidedKeeps DEF j

(* Reading a list changes nothing a guard looked at. *)
LEMMA ListKeeps ==
  ASSUME Requests, NEW c \in Clients, CountKeys(c) \/ RangeKeys(c) \/ FetchItems(c)
  PROVE  Requests'
<1>1. Active(c) /\ issued' = issued
  BY DEF CountKeys, RangeKeys, FetchItems, Keeps
<1>2. IsRequest(job[c]) /\ job[c].target \in issued
  BY <1>1 DEF Requests, Sound
<1>3. ASSUME NEW place \in {"shown", "range"}, Moves(c, place), job[c].pc \in {"allowed", "fetch"}
      PROVE  Requests'
  <2>1. PICK j : Goes(c, j) /\ j = [job[c] EXCEPT !.pc = place]
    BY <1>3 DEF Moves
  <2>2. IsRequest(j) /\ j.target \in issued' /\ issued \subseteq issued' /\ j.pc \notin {"env", "allowed"}
    BY <1>1, <1>2, <2>1 DEF IsRequest
  <2> QED BY <2>1, <2>2, GoesFree
<1>4. CASE CountKeys(c)
  <2>1. (Moves(c, "shown") \/ Moves(c, "range")) /\ job[c].pc = "allowed"
    BY <1>4 DEF CountKeys, At
  <2> QED BY <1>3, <2>1
<1>5. CASE RangeKeys(c)
  <2>1. PICK j, todo : Goes(c, j) /\ j = [job[c] EXCEPT !.pc = "fetch", !.todo = todo]
    BY <1>5, Zenon DEF RangeKeys
  <2>2. IsRequest(j) /\ j.target \in issued' /\ issued \subseteq issued' /\ j.pc \notin {"env", "allowed"}
    BY <1>1, <1>2, <2>1 DEF IsRequest
  <2> QED BY <2>1, <2>2, GoesFree
<1>6. CASE FetchItems(c)
  <2>1. \/ Moves(c, "shown") \/ Ends(c)
        \/ \E items, todo : Goes(c, [job[c] EXCEPT !.items = items, !.todo = todo])
    BY <1>6, Zenon DEF FetchItems
  <2>2. job[c].pc = "fetch"
    BY <1>6 DEF FetchItems, At
  <2>3. ASSUME NEW items, NEW todo, Goes(c, [job[c] EXCEPT !.items = items, !.todo = todo])
        PROVE  Requests'
    <3>1. PICK j : Goes(c, j) /\ j = [job[c] EXCEPT !.items = items, !.todo = todo]
      BY <2>3
    <3>2. IsRequest(j) /\ j.target \in issued' /\ issued \subseteq issued' /\ j.pc \notin {"env", "allowed"}
      BY <1>1, <1>2, <2>2, <3>1 DEF IsRequest
    <3> QED BY <3>1, <3>2, GoesFree
  <2> QED BY <1>1, <1>3, <2>1, <2>2, <2>3, EndsKeeps
<1> QED BY <1>4, <1>5, <1>6

(* What a deletion and a new key do to the entries. *)
LEMMA RemoveDeleted ==
  ASSUME Deleted, NEW names, RemoveKeys(names), UNCHANGED <<backend, issued>>,
         revoked' \subseteq revoked \cup {k \in Keys : backend = "redis" => Stored(k) \in names},
         revoked' \subseteq issued
  PROVE  Deleted'
<1>1. DOMAIN entry' = DOMAIN entry \ {k \in Keys : Stored(k) \in names}
  BY DEF RemoveKeys
<1> QED BY <1>1 DEF Deleted

LEMMA GenerateDeleted ==
  ASSUME Deleted, NEW k \in Keys, NEW p, NEW when, GenerateAccessKey(k, p, when),
         UNCHANGED <<backend, revoked>>
  PROVE  Deleted' /\ issued \subseteq issued'
<1>1. DOMAIN entry' = DOMAIN entry \cup {k} /\ k \notin issued /\ issued' = issued \cup {k}
  BY DEF GenerateAccessKey, StoreAccessKey
<1> QED BY <1>1 DEF Deleted

LEMMA KeepsDeleted ==
  ASSUME Deleted, UNCHANGED <<backend, entry, issued, revoked>> PROVE Deleted'
BY DEF Deleted

LEMMA InvInit == Init => Inv
BY DEF Init, Inv, Requests, Deleted, Active, Idle

LEMMA InvStep == ASSUME Inv, [Next]_vars PROVE Inv'
<1> USE DEF Inv
<1>1. ASSUME NEW k \in Keys, Login(k), UNCHANGED backend PROVE Inv'
  BY <1>1, GenerateDeleted, OthersKeep DEF Login
<1>2. ASSUME NEW k \in Keys, Due(k), UNCHANGED backend PROVE Inv'
  BY <1>2, KeepsDeleted, OthersKeep DEF Due
<1>3. ASSUME NEW k \in Keys, Lapse(k), UNCHANGED backend PROVE Inv'
  <2>1. DOMAIN entry' \subseteq DOMAIN entry /\ UNCHANGED <<issued, revoked>> /\ Others
    BY <1>3 DEF Lapse
  <2> QED BY <1>3, <2>1, OthersKeep DEF Deleted
<1>4. ASSUME NEW k \in Keys, NEW p \in Profiles, NEW w \in Dates, PostAccess(k, p, w),
             UNCHANGED backend
      PROVE  Inv'
  BY <1>4, GenerateDeleted, OthersKeep DEF PostAccess
<1>5. ASSUME NEW k \in Keys, NEW p \in Profiles, NEW w \in Dates, NEW c \in Clients,
             CreateAccessKey(c, k, p, w), UNCHANGED backend
      PROVE  Inv'
  BY <1>5, GenerateDeleted, EndsKeeps DEF CreateAccessKey
<1>6. ASSUME NEW n \in Clones, Unclone(n) \/ \E e \in Envs : Clone(n, e), UNCHANGED backend
      PROVE  Inv'
  BY <1>6, KeepsDeleted, OthersKeep DEF Unclone, Clone, store
<1>7. ASSUME Keeps, UNCHANGED backend PROVE Deleted' /\ issued \subseteq issued'
  BY <1>7, KeepsDeleted DEF Keeps, store
<1>8. ASSUME NEW c \in Clients, NEW r, NEW k \in issued, NEW t \in issued, NEW e,
             \/ Ask(c, r, k, e, t) \/ Click(c, r, k, t)
             \/ \E page, size : ClickPage(c, k, page, size),
             UNCHANGED backend
      PROVE  Inv'
  <2>1. PICK j : /\ Goes(c, j) /\ IsRequest(j) /\ j.target \in issued /\ j.pc = "key" /\ Keeps
    <3>1. ASSUME NEW f, NEW s, NEW q \in issued
          PROVE  LET j == Request(s, k, f, q)
                 IN  IsRequest(j) /\ j.target \in issued /\ j.pc = "key"
      BY DEF Request, IsRequest
    <3>2. ASSUME NEW page, NEW size, NEW f
          PROVE  LET j == [Request("list", k, f, k) EXCEPT !.page = page, !.size = size]
                 IN  IsRequest(j) /\ j.target \in issued /\ j.pc = "key"
      <4>1. PICK i : i = Request("list", k, f, k)
        OBVIOUS
      <4>2. IsRequest(i) /\ i.target \in issued /\ i.pc = "key"
        BY <3>1, <4>1
      <4>3. PICK j : j = [i EXCEPT !.page = page, !.size = size]
        OBVIOUS
      <4>4. IsRequest(j) /\ j.target = i.target /\ j.pc = i.pc
        BY <4>2, <4>3 DEF IsRequest
      <4> QED BY <4>1, <4>2, <4>3, <4>4
    <3>3. CASE Ask(c, r, k, e, t)
      BY <3>1, <3>3 DEF Ask
    <3>4. CASE Click(c, r, k, t)
      BY <3>1, <3>4 DEF Click
    <3>5. CASE \E page, size : ClickPage(c, k, page, size)
      BY <3>2, <3>5 DEF ClickPage
    <3> QED BY <1>8, <3>3, <3>4, <3>5
  <2>2. Requests'
    BY <1>7, <1>8, <2>1, GoesFree
  <2> QED BY <1>7, <1>8, <2>1, <2>2
<1>9. ASSUME NEW c \in Clients, LookUpKey(c) \/ LookUpEnv(c), UNCHANGED backend PROVE Inv'
  BY <1>7, <1>9, LookUpKeyKeeps, LookUpEnvKeeps DEF LookUpKey, LookUpEnv
<1>10. ASSUME NEW c \in Clients, Fail(c) \/ Serve(c), UNCHANGED backend PROVE Inv'
  BY <1>7, <1>10, EndsKeeps DEF Fail, Serve
<1>11. ASSUME NEW c \in Clients, DeleteAccessKeys(c), UNCHANGED backend PROVE Inv'
  <2>1. Deleted'
    BY <1>11, RemoveDeleted DEF DeleteAccessKeys, Deleted
  <2> QED BY <1>11, <2>1, EndsKeeps DEF DeleteAccessKeys
<1>12. ASSUME NEW c \in Clients, DeleteAccessKey(c), UNCHANGED backend PROVE Inv'
  <2> DEFINE t == job[c].target
  <2>1. t \in issued /\ t \in Keys
    BY <1>12 DEF DeleteAccessKey, Requests, Sound, Deleted
  <2>2. RemoveKeys({ItemName(t)}) /\ revoked' \subseteq revoked \cup {t} /\ issued' = issued
    BY <1>12 DEF DeleteAccessKey
  <2>3. backend = "redis" => Stored(t) \in {ItemName(t)}
    BY DEF ItemName
  <2> HIDE DEF t
  <2>4. Deleted'
    BY <1>12, <2>1, <2>2, <2>3, RemoveDeleted DEF Deleted
  <2> QED BY <1>12, <2>2, <2>4, EndsKeeps DEF DeleteAccessKey
<1>13. ASSUME NEW c \in Clients, CountKeys(c) \/ RangeKeys(c) \/ FetchItems(c), UNCHANGED backend
       PROVE  Inv'
  BY <1>7, <1>13, ListKeeps DEF CountKeys, RangeKeys, FetchItems
<1>14. ASSUME NEW c \in Clients, Show(c), UNCHANGED backend PROVE Inv'
  BY <1>14, KeepsDeleted, EndsKeeps DEF Show, store
<1>15. CASE UNCHANGED vars
  BY <1>15, KeepsDeleted DEF vars, store, Requests, Active
<1> QED
  BY <1>1, <1>2, <1>3, <1>4, <1>5, <1>6, <1>8, <1>9, <1>10, <1>11, <1>12, <1>13, <1>14, <1>15
  DEF Next, Step

(* The invariant of the guards and of the deletions. *)
THEOREM Invariance == Spec => []Inv
BY InvInit, InvStep, PTL DEF Spec

(* What a guard lets pass was permitted, whatever happens to the key and   *)
(* to the clone between its two look-ups; any number of requests.          *)
THEOREM AlwaysPermitted == Spec => []AllowedWasPermitted
<1>1. Inv => AllowedWasPermitted
  BY DEF Inv, Requests, Sound, Justified, AllowedWasPermitted, At, On
<1> QED BY <1>1, Invariance, PTL

(* In redis, a key deleted with the dashboard's button grants nothing.     *)
THEOREM DeletedStaysDeleted == Spec => []DeletedGrantsNothing
<1>1. Inv => DeletedGrantsNothing
  BY DEF Inv, Deleted, DeletedGrantsNothing
<1> QED BY <1>1, Invariance, PTL

-----------------------------------------------------------------------------
(* Lists and their pages. *)

(* kept goes through list and leaves out what is gone. *)
Keeping(kept, list, gone) ==
  kept = [i \in 0 .. Len(list) |->
            IF i = 0 THEN <<>>
            ELSE IF list[i] \in gone THEN kept[i - 1] ELSE Append(kept[i - 1], list[i])]

LEMMA KeepingExists ==
  ASSUME NEW T, NEW list \in Seq(T), NEW gone
  PROVE  \E kept \in [0 .. Len(list) -> Seq(T)] : Keeping(kept, list, gone)
<1> DEFINE n == Len(list)
           step == [i \in 1 .. n |-> [s \in Seq(T) |->
                      IF list[i] \in gone THEN s ELSE Append(s, list[i])]]
<1>1. step \in [1 .. n -> [Seq(T) -> Seq(T)]] /\ n \in Nat /\ <<>> \in Seq(T)
  OBVIOUS
<1> HIDE DEF step
<1>2. PICK f : Folds(f, Seq(T), n, <<>>, step)
  BY <1>1, FoldExists
<1>3. ASSUME NEW i \in 1 .. n
      PROVE  f[i] = IF list[i] \in gone THEN f[i - 1] ELSE Append(f[i - 1], list[i])
  <2>1. i - 1 \in 0 .. n
    OBVIOUS
  <2>2. f[i - 1] \in Seq(T) /\ f[i] = step[i][f[i - 1]]
    BY <1>2, <2>1 DEF Folds
  <2> QED BY <2>2 DEF step
<1> DEFINE g == [i \in 0 .. n |->
                   IF i = 0 THEN <<>>
                   ELSE IF list[i] \in gone THEN f[i - 1] ELSE Append(f[i - 1], list[i])]
<1>4. f \in [0 .. n -> Seq(T)] /\ f[0] = <<>>
  BY <1>2 DEF Folds
<1>5. ASSUME NEW i \in 0 .. n PROVE f[i] = g[i]
  <2>1. CASE i = 0
    BY <1>4, <2>1
  <2>2. CASE i # 0
    BY <1>3, <2>2
  <2> QED BY <2>1, <2>2
<1>6. f = g
  <2> HIDE DEF g
  <2>1. g = [i \in 0 .. n |-> g[i]]
    BY DEF g
  <2>2. f = [i \in 0 .. n |-> f[i]]
    BY <1>4
  <2> QED BY <1>5, <2>1, <2>2
<1>7. Keeping(f, list, gone)
  BY <1>6, Zenon DEF Keeping
<1> QED BY <1>4, <1>7

LEMMA WithoutIs ==
  ASSUME NEW T, NEW list \in Seq(T), NEW gone
  PROVE  \E kept : /\ Keeping(kept, list, gone)
                   /\ Without(list, gone) = kept[Len(list)]
<1>1. PICK kept : kept = CHOOSE f : Keeping(f, list, gone)
  OBVIOUS
<1>2. Keeping(kept, list, gone)
  BY <1>1, KeepingExists
<1>3. Without(list, gone) = kept[Len(list)]
  BY <1>1, Zenon DEF Without, Keeping
<1> QED BY <1>2, <1>3

(* What is left of a list is what is not gone, and nothing twice. *)
LEMMA WithoutRange ==
  ASSUME NEW T, NEW list \in Seq(T), NEW gone
  PROVE  /\ Without(list, gone) \in Seq(T)
         /\ Range(Without(list, gone)) = Range(list) \ gone
         /\ IsInjective(list) => IsInjective(Without(list, gone))
<1>1. PICK kept : Keeping(kept, list, gone) /\ Without(list, gone) = kept[Len(list)]
  BY WithoutIs
<1>2. kept[0] = <<>>
  BY <1>1, Z3 DEF Keeping
<1>3. ASSUME NEW i \in 1 .. Len(list)
      PROVE kept[i] = IF list[i] \in gone THEN kept[i - 1] ELSE Append(kept[i - 1], list[i])
  <2>1. i \in 0 .. Len(list) /\ i # 0
    OBVIOUS
  <2> QED BY <1>1, <2>1, Zenon DEF Keeping
<1> DEFINE n == Len(list)
           Good(i) == /\ kept[i] \in Seq(T)
                      /\ Range(kept[i]) = {list[j] : j \in 1 .. i} \ gone
                      /\ IsInjective(list) => IsInjective(kept[i])
           S == {i \in 0 .. n : Good(i)}
<1>4. 0 \in S
  <2>1. <<>> \in Seq(T) /\ Range(<<>>) = {} /\ IsInjective(<<>>)
    BY DEF Range, IsInjective
  <2>2. {list[j] : j \in 1 .. 0} = {}
    OBVIOUS
  <2>3. Good(0)
    BY <1>2, <2>1, <2>2, Zenon
  <2> HIDE DEF Good
  <2> QED BY <2>3
<1>5. ASSUME NEW i \in 0 .. n - 1, i \in S PROVE i + 1 \in S
  <2>1. Good(i) /\ i + 1 \in 1 .. n
    BY <1>5
  <2>2. kept[i + 1] = IF list[i + 1] \in gone THEN kept[i] ELSE Append(kept[i], list[i + 1])
    BY <1>3, <2>1
  <2>3. {list[j] : j \in 1 .. i + 1} = {list[j] : j \in 1 .. i} \cup {list[i + 1]}
    OBVIOUS
  <2>4. CASE list[i + 1] \in gone
    BY <2>1, <2>2, <2>3, <2>4
  <2>5. CASE list[i + 1] \notin gone
    <3>1. kept[i + 1] = Append(kept[i], list[i + 1]) /\ list[i + 1] \in T
      BY <2>2, <2>5
    <3>2. Range(kept[i + 1]) = Range(kept[i]) \cup {list[i + 1]} /\ kept[i + 1] \in Seq(T)
      BY <2>1, <3>1, AppendRange
    <3>3. ASSUME IsInjective(list) PROVE IsInjective(kept[i + 1])
      <4>1. list[i + 1] \notin Range(kept[i])
        BY <2>1, <3>3 DEF IsInjective
      <4> QED BY <2>1, <3>1, <3>3, <4>1, AppendProperties DEF IsInjective, Range
    <3> QED BY <2>1, <2>3, <2>5, <3>2, <3>3
  <2> QED BY <2>4, <2>5
<1> HIDE DEF S
<1>6. 0 .. n \subseteq S
  BY <1>4, <1>5, InductTo
<1>7. Good(n)
  <2>1. n \in 0 .. n
    OBVIOUS
  <2>2. n \in S
    BY <1>6, <2>1
  <2> QED BY <2>2 DEF S
<1>8. Range(list) = {list[j] : j \in 1 .. n}
  BY DEF Range
<1> QED BY <1>1, <1>7, <1>8

LEMMA OrderedIs ==
  ASSUME NEW T, NEW list \in Seq(T)
  PROVE  Ordered(list) \in Seq(T) /\ Len(Ordered(list)) = Len(list)
BY DEF Ordered, Reverse

LEMMA SmallerIsMin ==
  ASSUME NEW a \in Nat, NEW b \in Nat
  PROVE  Min({a, b}) = IF a <= b THEN a ELSE b
<1> DEFINE m == IF a <= b THEN a ELSE b
<1>1. m \in {a, b} /\ \A y \in {a, b} : m <= y
  OBVIOUS
<1>2. \A x \in {a, b} : (\A y \in {a, b} : x <= y) => x = m
  OBVIOUS
<1> HIDE DEF m
<1> QED BY <1>1, <1>2 DEF Min, m

(* The last page is the first that reaches the end of the list. *)
LEMMA PagesReach ==
  ASSUME NEW list, Len(list) \in Nat, NEW size \in Nat \ {0}
  PROVE  /\ Pages(list, size) \in Nat
         /\ Len(list) <= Pages(list, size) * size
         /\ \A i \in 1 .. Pages(list, size) : (i - 1) * size \in Nat /\ (i - 1) * size < Len(list)
<1> DEFINE L == Len(list)  P == Pages(list, size)
<1>1. PICK x \in Nat : x = L + size - 1
  OBVIOUS
<1>2. P = x \div size
  BY <1>1 DEF Pages
<1>3. x \div size \in Nat /\ (x \div size) * size <= x /\ x < (x \div size) * size + size
  OBVIOUS
<1> HIDE DEF P
<1>4. P \in Nat /\ P * size <= x /\ x < P * size + size
  BY <1>2, <1>3
<1>5. L <= P * size
  <2>1. P * size \in Nat
    BY <1>4
  <2> QED BY <1>1, <1>4, <2>1
<1>6. ASSUME NEW i \in 1 .. P PROVE (i - 1) * size \in Nat /\ (i - 1) * size < L
  <2>1. i - 1 \in Nat /\ P - i \in Nat
    BY <1>4
  <2>2. (i - 1) * size \in Nat /\ (P - i) * size \in Nat
    BY <2>1
  <2>3. P * size = (i - 1) * size + (P - i) * size + size
    BY <1>4
  <2> QED BY <1>1, <1>4, <2>2, <2>3
<1> QED BY <1>4, <1>5, <1>6 DEF P

(* The pages of any list, one after the other, are the list. *)
LEMMA PagesCover ==
  ASSUME NEW T, NEW list \in Seq(T), NEW size \in Nat \ {0}
  PROVE  FlattenSeq([i \in 1 .. Pages(list, size) |-> Page(list, i, size)]) = Ordered(list)
<1> DEFINE P == Pages(list, size)  L == Len(list)  o == Ordered(list)
           seqs == [i \in 1 .. P |-> Page(list, i, size)]
<1>1. /\ P \in Nat /\ L \in Nat /\ L <= P * size
      /\ \A i \in 1 .. P : (i - 1) * size \in Nat /\ (i - 1) * size < L
  BY PagesReach
<1>2. o \in Seq(T) /\ Len(o) = L
  BY OrderedIs
<1> HIDE DEF P, o
<1>3. ASSUME NEW i \in 1 .. P
      PROVE  /\ seqs[i] = SubSeq(o, (i - 1) * size + 1, Min({i * size, L}))
             /\ seqs[i] \in Seq(T)
             /\ i * size \in Nat /\ i * size = (i - 1) * size + size
             /\ Min({i * size, L}) \in (i - 1) * size .. L
  <2>1. (i - 1) * size \in Nat /\ (i - 1) * size < L
    BY <1>1
  <2>2. i * size = (i - 1) * size + size
    BY <1>1
  <2>3. i * size \in Nat
    BY <2>1, <2>2
  <2>4. Min({i * size, L}) \in (i - 1) * size .. L
    BY <1>1, <2>1, <2>2, <2>3, SmallerIsMin
  <2>5. seqs[i] = SubSeq(o, (i - 1) * size + 1, Min({i * size, L}))
    BY DEF Page, o
  <2>6. SubSeq(o, (i - 1) * size + 1, Min({i * size, L})) \in Seq(T)
    <3>1. PICK a \in 1 .. L : a = (i - 1) * size + 1
      BY <1>1, <2>1
    <3>2. PICK b \in 0 .. L : b = Min({i * size, L})
      BY <1>1, <2>1, <2>4
    <3>3. SubSeq(o, a, b) \in Seq(T)
      BY <1>1, <1>2, SubSeqProperties
    <3> QED BY <3>1, <3>2, <3>3
  <2> QED BY <2>2, <2>3, <2>4, <2>5, <2>6
<1>4. seqs \in Seq(Seq(T)) /\ Len(seqs) = P
  <2>1. seqs \in [1 .. P -> Seq(T)]
    BY <1>3
  <2> QED BY <1>1, <2>1
<1> HIDE DEF seqs
<1>5. PICK flat : /\ flat[0] = <<>> /\ flat[P] = FlattenSeq(seqs)
                  /\ \A i \in 1 .. P : flat[i] = flat[i - 1] \o seqs[i]
  BY <1>4, FlattenIs
<1> DEFINE S == {i \in 0 .. P : flat[i] = SubSeq(o, 1, Min({i * size, L}))}
<1>6. 0 \in S
  <2>1. 0 * size = 0 /\ 0 \in Nat
    OBVIOUS
  <2>2. Min({0, L}) = 0
    BY <1>1, SmallerIsMin
  <2>3. SubSeq(o, 1, 0) = <<>>
    BY <1>2
  <2>4. SubSeq(o, 1, Min({0 * size, L})) = <<>>
    BY <2>1, <2>2, <2>3
  <2>5. 0 \in 0 .. P
    BY <1>1
  <2> QED BY <1>5, <2>4, <2>5
<1>7. ASSUME NEW i \in 0 .. P - 1, i \in S PROVE i + 1 \in S
  <2>1. PICK k \in 1 .. P : k = i + 1 /\ k - 1 = i
    BY <1>1
  <2>2. i * size \in Nat /\ i * size < L
    BY <1>1, <2>1
  <2>3. Min({i * size, L}) = i * size
    BY <1>1, <2>2, SmallerIsMin
  <2>4. flat[i] = SubSeq(o, 1, i * size)
    BY <1>7, <2>3
  <2>5. PICK m \in i * size .. L : m = Min({k * size, L})
    BY <1>3, <2>1
  <2>6. flat[k] = flat[i] \o SubSeq(o, i * size + 1, m)
    BY <1>3, <1>5, <2>1, <2>5
  <2>7. SubSeq(o, 1, i * size) \o SubSeq(o, i * size + 1, m) = SubSeq(o, 1, m)
    <3>1. 1 \in 1 .. Len(o) + 1 /\ i * size \in 1 - 1 .. Len(o) /\ m \in i * size .. Len(o)
      BY <1>1, <1>2, <2>2
    <3> QED BY <1>2, <3>1, ConcatAdjacentSubSeq
  <2>8. flat[k] = SubSeq(o, 1, Min({k * size, L}))
    BY <2>4, <2>5, <2>6, <2>7
  <2>9. k \in S
    <3>1. k \in 0 .. P
      BY <1>1, <2>1
    <3> QED BY <2>8, <3>1, Zenon
  <2> HIDE DEF S
  <2> QED BY <2>1, <2>9
<1> HIDE DEF S
<1>8. 0 .. P \subseteq S
  BY <1>1, <1>6, <1>7, InductTo
<1>9. P \in S
  BY <1>1, <1>8
<1>10. FlattenSeq(seqs) = SubSeq(o, 1, Min({P * size, L}))
  BY <1>5, <1>9 DEF S
<1>11. Min({P * size, L}) = L
  <2>1. P * size \in Nat
    BY <1>1
  <2> QED BY <1>1, <2>1, SmallerIsMin
<1>12. SubSeq(o, 1, L) = o
  BY <1>2, SubSeqFull
<1> QED BY <1>10, <1>11, <1>12 DEF seqs, o, P

(* The two records of a key, and what the store holds besides. *)
Records ==
  /\ issued \subseteq Keys
  /\ DOMAIN entry \subseteq issued /\ Range(entry) \subseteq Permissions
  /\ leased \subseteq DOMAIN entry
  /\ listed \in Seq(issued) /\ IsInjective(listed)
  /\ DOMAIN entry \subseteq Range(listed)
  /\ expires \in [Keys -> {"never", "later", "past"}]
  /\ \A k \in DOMAIN entry : expires[k] = "later" => k \in leased
  /\ DOMAIN original \subseteq Clones /\ Range(original) \subseteq Envs

(* A request for a page, apart from the page of the moment. *)
Paging(j) == j.route = "list" /\ j.pc \in {"allowed", "range"}

Fetching(j, made) ==
  /\ j.pc \in Places
  /\ j.page \in Nat \ {0} /\ j.size \in Nat \ {0}
  /\ j.items \in Seq(made) /\ j.todo \in Seq(made)
  /\ j.pc \notin {"fetch", "shown"} => j.items = <<>>
  /\ j.pc = "range" => j.route = "list"
  /\ j.pc = "fetch" => j.items \o j.todo \in j.pages
  /\ j.pc = "shown" => j.items \in j.pages

(* It has seen the page of this moment, or has taken one it had seen. *)
Paged(j, list, made) ==
  /\ IsRequest(j) /\ Fetching(j, made)
  /\ Paging(j) => Page(list, j.page, j.size) \in j.pages

Pagers ==
  /\ DOMAIN job = Clients
  /\ \A c \in Clients : Active(c) => Paged(job[c], listed, issued)

ListInv == Inv /\ Records /\ Pagers /\ screen \subseteq issued

LEMMA SeenPages ==
  ASSUME NEW j, IsRequest(j)
  PROVE  Seen(j).pages = IF Paging(j) THEN j.pages \cup {Page(listed', j.page, j.size)} ELSE j.pages
<1>1. CASE Paging(j)
  <2> DEFINE v == Page(listed', j.page, j.size)
  <2>1. PICK P, O : Seen(j) = [j EXCEPT !.perms = P, !.origins = O, !.pages = @ \cup {v}]
    BY <1>1, Zenon DEF Seen, Paging
  <2> HIDE DEF v
  <2>2. Seen(j).pages = j.pages \cup {v}
    BY <2>1 DEF IsRequest
  <2> QED BY <1>1, <2>2 DEF v
<1>2. CASE ~Paging(j)
  <2>1. PICK P, O : Seen(j) = [j EXCEPT !.perms = P, !.origins = O, !.pages = @]
    BY <1>2, Zenon DEF Seen, Paging
  <2> QED BY <1>2, <2>1 DEF IsRequest
<1> QED BY <1>1, <1>2

(* Whatever the list becomes, the request sees it. *)
LEMMA SeenPaged ==
  ASSUME NEW j, NEW made, NEW more, made \subseteq more, IsRequest(j), Fetching(j, made)
  PROVE  Paged(Seen(j), listed', more)
<1> DEFINE s == Seen(j)
<1>1. /\ IsRequest(s) /\ s.pc = j.pc /\ s.route = j.route
      /\ s.page = j.page /\ s.size = j.size /\ s.items = j.items /\ s.todo = j.todo
  BY SeenKeeps
<1>2. /\ j.pages \subseteq s.pages
      /\ Paging(j) => Page(listed', j.page, j.size) \in s.pages
  BY SeenPages
<1> HIDE DEF s
<1>3. s.items \in Seq(more) /\ s.todo \in Seq(more)
  BY <1>1 DEF Fetching
<1>4. Fetching(s, more)
  BY <1>1, <1>2, <1>3 DEF Fetching
<1>5. Paging(s) => Page(listed', s.page, s.size) \in s.pages
  BY <1>1, <1>2 DEF Paging
<1> QED BY <1>1, <1>4, <1>5 DEF Paged, s

LEMMA PagedPrime ==
  ASSUME backend' = backend, DOMAIN job' = Clients,
         \A c \in Clients : job'[c].pc # "idle" => Paged(job'[c], listed', issued')
  PROVE  Pagers'
BY DEF Pagers, Active, Paged, Fetching, Paging, IsRequest, Page, Ordered

LEMMA GoesPaged ==
  ASSUME Pagers, issued \subseteq issued', backend' = backend, NEW c \in Clients, NEW j, Goes(c, j),
         j.pc # "idle" => IsRequest(j) /\ Fetching(j, issued')
  PROVE  Pagers'
<1>1. job' = [d \in Clients |-> IF d = c THEN (IF j.pc = "idle" THEN Idle ELSE Seen(j))
                                ELSE IF Active(d) THEN Seen(job[d]) ELSE Idle]
  BY DEF Goes
<1>2. ASSUME NEW d \in Clients, job'[d].pc # "idle" PROVE Paged(job'[d], listed', issued')
  <2>1. CASE d = c
    <3>1. j.pc # "idle" /\ job'[d] = Seen(j)
      BY <1>1, <1>2, <2>1 DEF Idle
    <3> QED BY <3>1, SeenPaged
  <2>2. CASE d # c
    <3>1. Active(d) /\ job'[d] = Seen(job[d])
      BY <1>1, <1>2, <2>2 DEF Idle
    <3>2. IsRequest(job[d]) /\ Fetching(job[d], issued)
      BY <3>1 DEF Pagers, Paged
    <3> QED BY <3>1, <3>2, SeenPaged
  <2> QED BY <2>1, <2>2
<1> QED BY <1>1, <1>2, PagedPrime

LEMMA OthersPaged ==
  ASSUME Pagers, issued \subseteq issued', backend' = backend, Others PROVE Pagers'
<1>1. job' = [d \in Clients |-> IF Active(d) THEN Seen(job[d]) ELSE Idle]
  BY DEF Others
<1>2. ASSUME NEW d \in Clients, job'[d].pc # "idle" PROVE Paged(job'[d], listed', issued')
  <2>1. Active(d) /\ job'[d] = Seen(job[d])
    BY <1>1, <1>2 DEF Idle
  <2>2. IsRequest(job[d]) /\ Fetching(job[d], issued)
    BY <2>1 DEF Pagers, Paged
  <2> QED BY <2>1, <2>2, SeenPaged
<1> QED BY <1>1, <1>2, PagedPrime

LEMMA EndsPaged ==
  ASSUME Pagers, issued \subseteq issued', backend' = backend, NEW c \in Clients, Ends(c)
  PROVE  Pagers'
BY GoesPaged DEF Ends, Idle

(* A page of a list, and of an empty one. *)
LEMMA PageOfList ==
  ASSUME NEW T, NEW list \in Seq(T), NEW page \in Nat \ {0}, NEW size \in Nat \ {0}
  PROVE  /\ Page(list, page, size) \in Seq(T)
         /\ list = <<>> => Page(list, page, size) = <<>>
<1> DEFINE L == Len(list)  o == Ordered(list)
<1>1. o \in Seq(T) /\ Len(o) = L /\ L \in Nat
  BY OrderedIs
<1>2. PICK a \in Nat : a = (page - 1) * size
  <2>1. page - 1 \in Nat
    OBVIOUS
  <2> QED BY <2>1
<1>3. PICK b \in Nat : b = page * size
  OBVIOUS
<1>4. PICK m \in 0 .. L : m = Min({b, L})
  BY <1>1, <1>3, SmallerIsMin
<1>5. Page(list, page, size) = SubSeq(o, a + 1, m)
  BY <1>2, <1>3, <1>4 DEF Page
<1> HIDE DEF o
<1>6. SubSeq(o, a + 1, m) \in Seq(T)
  BY <1>1, SubSeqProperties
<1>7. ASSUME list = <<>> PROVE SubSeq(o, a + 1, m) = <<>>
  BY <1>1, <1>7, SubSeqEmpty
<1> QED BY <1>5, <1>6, <1>7

(* What the operations of the store do to the records. *)
LEMMA GenerateRecords ==
  ASSUME Records, NEW k \in Keys, NEW p \in Permissions, NEW when \in {"never", "later", "past"},
         GenerateAccessKey(k, p, when), original' = original
  PROVE  Records' /\ issued \subseteq issued'
<1>1. /\ k \notin issued /\ issued' = issued \cup {k}
      /\ entry' = [j \in DOMAIN entry \cup {k} |-> IF j = k THEN p ELSE entry[j]]
      /\ leased' = IF when = "later" THEN leased \cup {k} ELSE leased
      /\ listed' = Append(listed, k)
      /\ expires' = [expires EXCEPT ![k] = when]
  BY DEF GenerateAccessKey, StoreAccessKey
<1>2. listed \in Seq(issued') /\ k \in issued'
  BY <1>1 DEF Records
<1>3. listed' \in Seq(issued') /\ Range(listed') = Range(listed) \cup {k}
  BY <1>1, <1>2, AppendRange
<1>4. IsInjective(listed')
  <2>1. \A i \in DOMAIN listed : listed[i] # k
    BY <1>1 DEF Records
  <2> QED BY <1>1, <1>2, <2>1, AppendProperties DEF Records, IsInjective
<1>5. DOMAIN entry' = DOMAIN entry \cup {k} /\ Range(entry') \subseteq Permissions
  BY <1>1 DEF Records, Range
<1>6. expires' \in [Keys -> {"never", "later", "past"}]
  BY <1>1 DEF Records
<1>7. ASSUME NEW j \in DOMAIN entry', expires'[j] = "later" PROVE j \in leased'
  BY <1>1, <1>5, <1>7 DEF Records
<1>8. leased' \subseteq DOMAIN entry'
  BY <1>1, <1>5 DEF Records
<1> QED BY <1>1, <1>3, <1>4, <1>5, <1>6, <1>7, <1>8 DEF Records

LEMMA RemoveRecords ==
  ASSUME Records, NEW names, RemoveKeys(names), UNCHANGED <<issued, original>> PROVE Records'
<1> DEFINE gone == {k \in Keys : Stored(k) \in names}
<1>1. /\ entry' = [k \in DOMAIN entry \ gone |-> entry[k]]
      /\ leased' = leased \ gone /\ listed' = Without(listed, gone) /\ expires' = expires
  BY DEF RemoveKeys
<1> HIDE DEF gone
<1>2. /\ listed' \in Seq(issued) /\ IsInjective(listed')
      /\ Range(listed') = Range(listed) \ gone
  BY <1>1, WithoutRange DEF Records
<1>3. DOMAIN entry' = DOMAIN entry \ gone /\ Range(entry') \subseteq Permissions
  BY <1>1 DEF Records, Range
<1>4. ASSUME NEW j \in DOMAIN entry', expires'[j] = "later" PROVE j \in leased'
  BY <1>1, <1>3, <1>4 DEF Records
<1> QED BY <1>1, <1>2, <1>3, <1>4 DEF Records

LEMMA KeepsRecords ==
  ASSUME Records, UNCHANGED <<store, issued, original>> PROVE Records'
BY DEF Records, store

LEMMA DueRecords ==
  ASSUME Records, NEW k \in Keys, Due(k) \/ Lapse(k) PROVE Records' /\ issued' = issued
<1>1. CASE Due(k)
  <2>1. /\ expires' = [expires EXCEPT ![k] = "past"]
        /\ UNCHANGED <<entry, leased, listed, issued, original>>
    BY <1>1 DEF Due
  <2> QED BY <2>1 DEF Records
<1>2. CASE Lapse(k)
  <2>1. /\ entry' = [j \in DOMAIN entry \ {k} |-> entry[j]] /\ leased' = leased \ {k}
        /\ UNCHANGED <<listed, expires, issued, original>>
    BY <1>2 DEF Lapse
  <2>2. DOMAIN entry' = DOMAIN entry \ {k} /\ Range(entry') \subseteq Permissions
    BY <2>1 DEF Records, Range
  <2> QED BY <2>1, <2>2 DEF Records
<1> QED BY <1>1, <1>2

LEMMA CloneRecords ==
  ASSUME Records, NEW n \in Clones, Unclone(n) \/ \E e \in Envs : Clone(n, e)
  PROVE  Records' /\ issued' = issued
<1>1. DOMAIN original' \subseteq Clones /\ Range(original') \subseteq Envs
  <2>1. CASE Unclone(n)
    BY <2>1 DEF Unclone, Records, Range
  <2>2. ASSUME NEW e \in Envs, Clone(n, e)
        PROVE  DOMAIN original' \subseteq Clones /\ Range(original') \subseteq Envs
    BY <2>2 DEF Clone, Records, Range
  <2> QED BY <2>1, <2>2
<1>2. UNCHANGED <<entry, leased, listed, expires, issued>>
  BY DEF Unclone, Clone, store
<1> QED BY <1>1, <1>2 DEF Records

LEMMA ListInvInit == Init => ListInv
<1> SUFFICES ASSUME Init PROVE ListInv
  OBVIOUS
<1>1. Inv
  BY InvInit
<1>2. listed \in Seq(issued) /\ IsInjective(listed) /\ Range(entry) = {}
  BY DEF Init, IsInjective, Range
<1>3. DOMAIN original \subseteq Clones /\ Range(original) \subseteq Envs
  <2>1. PICK C \in SUBSET Clones : original \in [C -> Envs]
    BY DEF Init
  <2> QED BY <2>1 DEF Range
<1>4. Records
  BY <1>2, <1>3 DEF Init, Records
<1> QED BY <1>1, <1>4 DEF Init, ListInv, Pagers, Active, Idle

(* A request that moves on, and takes neither a page nor an item. *)
LEMMA MovesPaged ==
  ASSUME Pagers, issued' = issued, backend' = backend,
         NEW c \in Clients, Active(c), NEW j, Goes(c, j), IsRequest(j),
         j.route = job[c].route, j.page = job[c].page, j.size = job[c].size,
         j.items = job[c].items, j.todo = job[c].todo,
         j.pc \in Places, j.pc \notin {"fetch", "shown"}, job[c].pc \notin {"fetch", "shown"},
         j.pc = "range" => j.route = "list"
  PROVE  Pagers'
<1>1. Fetching(job[c], issued)
  BY DEF Pagers, Paged
<1>2. Fetching(j, issued')
  BY <1>1 DEF Fetching
<1> QED BY <1>2, GoesPaged

LEMMA GuardsPaged ==
  ASSUME Pagers, Keeps, backend' = backend, NEW c \in Clients, LookUpKey(c) \/ LookUpEnv(c)
  PROVE  Pagers'
<1>1. Active(c) /\ issued' = issued /\ job[c].pc \in {"key", "env"}
  BY DEF LookUpKey, LookUpEnv, Keeps, At
<1>2. IsRequest(job[c])
  BY <1>1 DEF Pagers, Paged
<1>3. \/ Ends(c) \/ Moves(c, "allowed")
      \/ \E held : Goes(c, [job[c] EXCEPT !.pc = "env", !.held = held])
  BY Zenon DEF LookUpKey, LookUpEnv, Decided
<1>4. ASSUME NEW pc \in {"allowed", "env"}, NEW held,
             Goes(c, [job[c] EXCEPT !.pc = pc, !.held = held])
      PROVE  Pagers'
  <2>1. PICK j : Goes(c, j) /\ j = [job[c] EXCEPT !.pc = pc, !.held = held]
    BY <1>4
  <2>2. /\ IsRequest(j) /\ j.pc = pc /\ j.route = job[c].route
        /\ j.page = job[c].page /\ j.size = job[c].size /\ j.items = job[c].items
        /\ j.todo = job[c].todo
    BY <1>2, <2>1 DEF IsRequest
  <2> QED BY <1>1, <2>1, <2>2, MovesPaged DEF Places
<1>5. ASSUME Moves(c, "allowed") PROVE Pagers'
  <2>1. [job[c] EXCEPT !.pc = "allowed"] = [job[c] EXCEPT !.pc = "allowed", !.held = job[c].held]
    BY <1>2 DEF IsRequest
  <2> QED BY <1>4, <1>5, <2>1, Zenon DEF Moves
<1> QED BY <1>1, <1>3, <1>4, <1>5, EndsPaged

(* The page is counted, taken and fetched. *)
LEMMA CountPaged ==
  ASSUME Pagers, Records, backend' = backend, NEW c \in Clients, CountKeys(c) PROVE Pagers'
<1>1. /\ Active(c) /\ issued' = issued /\ job[c].pc = "allowed" /\ job[c].route = "list"
      /\ Moves(c, IF listed = <<>> THEN "shown" ELSE "range")
  BY DEF CountKeys, Keeps, At, On
<1>2. IsRequest(job[c]) /\ Fetching(job[c], issued) /\ Page(listed, job[c].page, job[c].size) \in job[c].pages
  BY <1>1 DEF Pagers, Paged, Paging
<1>3. PICK pc : pc = IF listed = <<>> THEN "shown" ELSE "range"
  OBVIOUS
<1>4. PICK j : Goes(c, j) /\ j = [job[c] EXCEPT !.pc = pc]
  BY <1>1, <1>3 DEF Moves
<1>5. /\ IsRequest(j) /\ j.pc = pc /\ j.route = "list" /\ j.pages = job[c].pages
      /\ j.page = job[c].page /\ j.size = job[c].size /\ j.items = job[c].items
      /\ j.todo = job[c].todo
  BY <1>1, <1>2, <1>4 DEF IsRequest
<1>6. pc = "shown" => j.items \in j.pages
  <2>1. job[c].items = <<>>
    BY <1>1, <1>2 DEF Fetching
  <2>2. listed = <<>> => Page(listed, job[c].page, job[c].size) = <<>>
    <3>1. /\ listed \in Seq(issued)
          /\ job[c].page \in Nat \ {0} /\ job[c].size \in Nat \ {0}
      BY <1>2 DEF Records, Fetching
    <3> QED BY <3>1, PageOfList
  <2> QED BY <1>2, <1>3, <1>5, <2>1, <2>2
<1>7. Fetching(j, issued')
  BY <1>1, <1>2, <1>3, <1>5, <1>6 DEF Fetching, Places
<1> QED BY <1>1, <1>4, <1>5, <1>7, GoesPaged

LEMMA RangePaged ==
  ASSUME Pagers, Records, backend' = backend, NEW c \in Clients, RangeKeys(c) PROVE Pagers'
<1> DEFINE page == Page(listed, job[c].page, job[c].size)
<1>1. /\ Active(c) /\ issued' = issued /\ job[c].pc \in {"allowed", "range"}
      /\ job[c].route = "list" /\ Goes(c, [job[c] EXCEPT !.pc = "fetch", !.todo = page])
  BY DEF RangeKeys, Keeps, At, On
<1>2. IsRequest(job[c]) /\ Fetching(job[c], issued) /\ page \in job[c].pages
  BY <1>1 DEF Pagers, Paged, Paging
<1>3. page \in Seq(issued)
  BY <1>2, PageOfList DEF Records, Fetching
<1> HIDE DEF page
<1>4. PICK j : Goes(c, j) /\ j = [job[c] EXCEPT !.pc = "fetch", !.todo = page]
  BY <1>1
<1>5. /\ IsRequest(j) /\ j.pc = "fetch" /\ j.route = "list" /\ j.pages = job[c].pages
      /\ j.page = job[c].page /\ j.size = job[c].size /\ j.items = job[c].items
      /\ j.todo = page
  BY <1>1, <1>2, <1>4 DEF IsRequest
<1>6. j.items \o j.todo = page
  <2>1. job[c].items = <<>>
    BY <1>1, <1>2 DEF Fetching
  <2>2. <<>> \o page = page
    BY <1>3
  <2> QED BY <1>5, <2>1, <2>2
<1>7. Fetching(j, issued')
  BY <1>1, <1>2, <1>3, <1>5, <1>6 DEF Fetching, Places
<1> QED BY <1>1, <1>4, <1>5, <1>7, GoesPaged

(* What is taken off a sequence and what stays are the sequence. *)
LEMMA SplitSeq ==
  ASSUME NEW T, NEW a \in Seq(T), NEW s \in Seq(T), NEW n \in 1 .. Len(s)
  PROVE  /\ SubSeq(s, 1, n) \in Seq(T) /\ SubSeq(s, n + 1, Len(s)) \in Seq(T)
         /\ (a \o SubSeq(s, 1, n)) \o SubSeq(s, n + 1, Len(s)) = a \o s
<1>1. SubSeq(s, 1, n) \in Seq(T) /\ SubSeq(s, n + 1, Len(s)) \in Seq(T)
  BY SubSeqProperties
<1>2. SubSeq(s, 1, n) \o SubSeq(s, n + 1, Len(s)) = s
  <2>1. 1 \in 1 .. Len(s) + 1 /\ n \in 1 - 1 .. Len(s) /\ Len(s) \in n .. Len(s)
    OBVIOUS
  <2>2. SubSeq(s, 1, n) \o SubSeq(s, n + 1, Len(s)) = SubSeq(s, 1, Len(s))
    BY <2>1, ConcatAdjacentSubSeq
  <2> QED BY <2>2, SubSeqFull
<1>3. PICK p \in Seq(T) : p = SubSeq(s, 1, n)
  BY <1>1
<1>4. PICK q \in Seq(T) : q = SubSeq(s, n + 1, Len(s))
  BY <1>1
<1>5. (a \o p) \o q = a \o (p \o q)
  OBVIOUS
<1> QED BY <1>1, <1>2, <1>3, <1>4, <1>5

LEMMA FetchPaged ==
  ASSUME Pagers, Records, backend' = backend, NEW c \in Clients, FetchItems(c) PROVE Pagers'
<1> DEFINE todo == job[c].todo  items == job[c].items
<1>1. Active(c) /\ issued' = issued /\ job[c].pc = "fetch"
  BY DEF FetchItems, Keeps, At
<1>2. /\ IsRequest(job[c]) /\ Fetching(job[c], issued)
      /\ items \in Seq(issued) /\ todo \in Seq(issued) /\ items \o todo \in job[c].pages
  BY <1>1 DEF Pagers, Paged, Fetching
<1>3. ASSUME todo = <<>>, Moves(c, "shown") PROVE Pagers'
  <2>1. PICK j : Goes(c, j) /\ j = [job[c] EXCEPT !.pc = "shown"]
    BY <1>3 DEF Moves
  <2>2. /\ IsRequest(j) /\ j.pc = "shown" /\ j.pages = job[c].pages /\ j.page = job[c].page
        /\ j.size = job[c].size /\ j.items = items /\ j.todo = todo
    BY <1>2, <2>1 DEF IsRequest
  <2>3. items \in job[c].pages
    BY <1>2, <1>3
  <2>4. Fetching(j, issued')
    BY <1>1, <1>2, <2>2, <2>3 DEF Fetching, Places
  <2> QED BY <1>1, <2>1, <2>2, <2>4, GoesPaged
<1>4. ASSUME NEW n \in 1 .. Len(todo),
             Goes(c, [job[c] EXCEPT !.items = @ \o SubSeq(todo, 1, n),
                                    !.todo = SubSeq(todo, n + 1, Len(todo))])
      PROVE  Pagers'
  <2>1. PICK new : new = items \o SubSeq(todo, 1, n)
    OBVIOUS
  <2>2. PICK rest : rest = SubSeq(todo, n + 1, Len(todo))
    OBVIOUS
  <2>3. new \in Seq(issued) /\ rest \in Seq(issued) /\ new \o rest = items \o todo
    <3>1. /\ SubSeq(todo, 1, n) \in Seq(issued) /\ rest \in Seq(issued)
          /\ new \o rest = items \o todo
      BY <1>2, <2>1, <2>2, SplitSeq
    <3> HIDE DEF items, todo
    <3> QED BY <1>2, <2>1, <3>1
  <2>4. PICK j : Goes(c, j) /\ j = [job[c] EXCEPT !.items = new, !.todo = rest]
    BY <1>4, <2>1, <2>2, Zenon
  <2>5. /\ IsRequest(j) /\ j.pc = "fetch" /\ j.pages = job[c].pages /\ j.page = job[c].page
        /\ j.size = job[c].size /\ j.items = new /\ j.todo = rest
    BY <1>1, <1>2, <2>4 DEF IsRequest
  <2>6. Fetching(j, issued')
    BY <1>1, <1>2, <2>3, <2>5 DEF Fetching
  <2> QED BY <1>1, <2>4, <2>5, <2>6, GoesPaged
<1>5. CASE todo = <<>>
  BY <1>3, <1>5 DEF FetchItems
<1>6. CASE todo # <<>>
  <2>1. PICK n : n = IF backend = "redis" THEN Min({1, Len(todo)}) ELSE Len(todo)
    OBVIOUS
  <2>2. n \in 1 .. Len(todo)
    <3>1. Len(todo) \in Nat /\ Len(todo) # 0
      BY <1>2, <1>6
    <3> QED BY <2>1, <3>1, SmallerIsMin
  <2>3. \/ Ends(c)
        \/ Goes(c, [job[c] EXCEPT !.items = @ \o SubSeq(todo, 1, n),
                                  !.todo = SubSeq(todo, n + 1, Len(todo))])
    BY <1>6, <2>1, Zenon DEF FetchItems
  <2> QED BY <1>1, <1>4, <2>2, <2>3, EndsPaged
<1> QED BY <1>5, <1>6

LEMMA ShowPaged ==
  ASSUME Pagers, Records, screen \subseteq issued, backend' = backend, NEW c \in Clients, Show(c)
  PROVE  Pagers' /\ screen' \subseteq issued'
<1>1. /\ Active(c) /\ issued' = issued /\ Ends(c) /\ screen' = screen \cup Range(job[c].items)
  BY DEF Show
<1>2. job[c].items \in Seq(issued)
  BY <1>1 DEF Pagers, Paged, Fetching
<1>3. Range(job[c].items) \subseteq issued
  BY <1>2 DEF Range
<1> QED BY <1>1, <1>3, EndsPaged

LEMMA ListInvStep == ASSUME ListInv, [Next]_vars PROVE ListInv'
<1>1. Inv'
  BY InvStep DEF ListInv
<1> SUFFICES Records' /\ Pagers' /\ screen' \subseteq issued'
  BY <1>1 DEF ListInv
<1> USE DEF ListInv
<1>2. ASSUME NEW k \in Keys, Login(k), backend' = backend
      PROVE  Records' /\ Pagers' /\ screen' \subseteq issued'
  <2>1. Admin \in Permissions
    BY DEF Admin, Permissions
  <2>2. GenerateAccessKey(k, Admin, "later") /\ UNCHANGED <<original, screen>> /\ Others
    BY <1>2 DEF Login
  <2>3. Records' /\ issued \subseteq issued'
    BY <2>1, <2>2, GenerateRecords
  <2> QED BY <1>2, <2>2, <2>3, OthersPaged
<1>3. ASSUME NEW k \in Keys, Due(k) \/ Lapse(k), backend' = backend
      PROVE  Records' /\ Pagers' /\ screen' \subseteq issued'
  <2>1. Others /\ screen' = screen
    BY <1>3 DEF Due, Lapse
  <2> QED BY <1>3, <2>1, DueRecords, OthersPaged
<1>4. ASSUME NEW k \in Keys, NEW p \in Profiles, NEW w \in Dates, backend' = backend,
             PostAccess(k, p, w) \/ \E c \in Clients : CreateAccessKey(c, k, p, w)
      PROVE  Records' /\ Pagers' /\ screen' \subseteq issued'
  <2>1. p \in Permissions /\ w \in {"never", "later", "past"}
    BY AccessAssumption
  <2>2. /\ GenerateAccessKey(k, p, w) /\ UNCHANGED <<original, screen>>
        /\ Others \/ \E c \in Clients : Ends(c)
    BY <1>4 DEF PostAccess, CreateAccessKey
  <2>3. Records' /\ issued \subseteq issued'
    BY <2>1, <2>2, GenerateRecords
  <2> QED BY <1>4, <2>2, <2>3, OthersPaged, EndsPaged
<1>5. ASSUME NEW n \in Clones, Unclone(n) \/ \E e \in Envs : Clone(n, e), backend' = backend
      PROVE  Records' /\ Pagers' /\ screen' \subseteq issued'
  <2>1. Others /\ screen' = screen
    BY <1>5 DEF Unclone, Clone
  <2> QED BY <1>5, <2>1, CloneRecords, OthersPaged
<1>6. ASSUME Keeps
      PROVE  Records' /\ issued' = issued /\ screen' \subseteq issued'
  BY <1>6, KeepsRecords DEF Keeps
<1>7. ASSUME NEW c \in Clients, NEW r, NEW k \in issued, NEW t \in issued, NEW e,
             Ask(c, r, k, e, t) \/ Click(c, r, k, t), backend' = backend
      PROVE  Records' /\ Pagers' /\ screen' \subseteq issued'
  <2>1. PICK f : Goes(c, Request(r, k, f, t)) /\ Keeps
    BY <1>7 DEF Ask, Click
  <2>2. IsRequest(Request(r, k, f, t)) /\ Fetching(Request(r, k, f, t), issued)
    BY DEF Request, IsRequest, Fetching, Places
  <2> QED BY <1>6, <1>7, <2>1, <2>2, GoesPaged
<1>8. ASSUME NEW c \in Clients, NEW k \in issued, NEW ask \in PageAsks,
             ClickPage(c, k, ask[1], ask[2]), backend' = backend
      PROVE  Records' /\ Pagers' /\ screen' \subseteq issued'
  <2>1. ask[1] \in Nat \ {0} /\ ask[2] \in Nat \ {0}
    BY AccessAssumption
  <2>2. PICK e : /\ Keeps
                 /\ Goes(c, [Request("list", k, e, k) EXCEPT !.page = ask[1], !.size = ask[2]])
    BY <1>8 DEF ClickPage
  <2>3. PICK j : /\ Goes(c, j)
                 /\ j = [Request("list", k, e, k) EXCEPT !.page = ask[1], !.size = ask[2]]
    BY <2>2
  <2>4. /\ IsRequest(j) /\ j.pc = "key" /\ j.page = ask[1] /\ j.size = ask[2]
        /\ j.items = <<>> /\ j.todo = <<>>
    BY <2>3 DEF Request, IsRequest
  <2>5. Fetching(j, issued)
    BY <2>1, <2>4 DEF Fetching, Places
  <2> QED BY <1>6, <1>8, <2>2, <2>3, <2>4, <2>5, GoesPaged
<1>9. ASSUME NEW c \in Clients, LookUpKey(c) \/ LookUpEnv(c), backend' = backend
      PROVE  Records' /\ Pagers' /\ screen' \subseteq issued'
  BY <1>6, <1>9, GuardsPaged DEF LookUpKey, LookUpEnv
<1>10. ASSUME NEW c \in Clients, Fail(c) \/ Serve(c), backend' = backend
       PROVE  Records' /\ Pagers' /\ screen' \subseteq issued'
  BY <1>6, <1>10, EndsPaged DEF Fail, Serve
<1>11. ASSUME NEW c \in Clients, DeleteAccessKeys(c) \/ DeleteAccessKey(c), backend' = backend
       PROVE  Records' /\ Pagers' /\ screen' \subseteq issued'
  <2>1. PICK names : RemoveKeys(names) /\ Ends(c) /\ UNCHANGED <<issued, original, screen>>
    BY <1>11 DEF DeleteAccessKeys, DeleteAccessKey
  <2> QED BY <1>11, <2>1, RemoveRecords, EndsPaged
<1>12. ASSUME NEW c \in Clients, CountKeys(c) \/ RangeKeys(c) \/ FetchItems(c), backend' = backend
       PROVE  Records' /\ Pagers' /\ screen' \subseteq issued'
  BY <1>6, <1>12, CountPaged, RangePaged, FetchPaged DEF CountKeys, RangeKeys, FetchItems
<1>13. ASSUME NEW c \in Clients, Show(c), backend' = backend
       PROVE  Records' /\ Pagers' /\ screen' \subseteq issued'
  <2>1. Records'
    BY <1>13, KeepsRecords DEF Show
  <2> QED BY <1>13, <2>1, ShowPaged
<1>14. CASE UNCHANGED vars
  <2>1. Records' /\ screen' \subseteq issued'
    BY <1>14, KeepsRecords DEF vars
  <2>2. Pagers'
    BY <1>14, PagedPrime DEF vars, store, Pagers, Active
  <2> QED BY <2>1, <2>2
<1> QED
  BY <1>2, <1>3, <1>4, <1>5, <1>7, <1>8, <1>9, <1>10, <1>11, <1>12, <1>13, <1>14 DEF Next, Step

(* What is true of the records of the keys, and of the requests for a page. *)
THEOREM ListInvariance == Spec => []ListInv
BY ListInvInit, ListInvStep, PTL DEF Spec

(* The shape of the state: the two records of a key belong together, and a *)
(* key whose date is to come has a lease; for any number of keys.          *)
THEOREM TypeCorrect == Spec => []TypeOK
<1>1. ListInv => TypeOK
  <2> SUFFICES ASSUME ListInv PROVE TypeOK
    OBVIOUS
  <2>1. Range(listed) \subseteq issued
    BY DEF ListInv, Records, Range
  <2>2. \A c \in Clients : job[c].pc \in Places
    BY DEF ListInv, Pagers, Paged, Fetching, Active, Places
  <2>3. revoked \subseteq Keys
    BY DEF ListInv, Inv, Deleted
  <2> QED BY <2>1, <2>2, <2>3 DEF TypeOK, ListInv, Records, Pagers
<1> QED BY <1>1, ListInvariance, PTL

(* Every key that grants something is in the list of the dashboard.        *)
THEOREM AlwaysListed == Spec => []GrantsAreListed
<1>1. ListInv => GrantsAreListed
  BY DEF ListInv, Records, GrantsAreListed
<1> QED BY <1>1, ListInvariance, PTL

(* The page that is shown is the page there was at a moment of the request,*)
(* for pages of any size, whatever is made and deleted meanwhile.          *)
THEOREM PagesAreExact == Spec => []PageIsExact
<1>1. ListInv => PageIsExact
  BY DEF ListInv, Pagers, Paged, Fetching, PageIsExact, At
<1> QED BY <1>1, ListInvariance, PTL

(* The pages of the list are the list, for any number of keys.             *)
THEOREM PagesAreTheList == Spec => []PagesCoverList
<1>1. ListInv => PagesCoverList
  <2> SUFFICES ASSUME ListInv, NEW size \in 1 .. Cardinality(Keys) + 1
               PROVE  FlattenSeq([i \in 1 .. Pages(listed, size) |-> Page(listed, i, size)])
                        = Ordered(listed)
    BY DEF PagesCoverList
  <2>1. size \in Nat \ {0} /\ listed \in Seq(issued)
    BY DEF ListInv, Records
  <2> QED BY <2>1, PagesCover
<1> QED BY <1>1, ListInvariance, PTL
=============================================================================
