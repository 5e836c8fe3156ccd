-------------------------- MODULE ConfigAnswer_proofs --------------------------
(***************************************************************************)
(* Proofs about ConfigAnswer: what an answer shows of secrets, and that a  *)
(* request finds what the files say; for any files, order of their keys,   *)
(* permissions, secrets and requests that store them meanwhile.            *)
(***************************************************************************)
EXTENDS ConfigAnswer, Recursion

(* A request that puts secrets in their places, whatever its fields hold. *)
IsRequest(j) ==
  j = [pc |-> j.pc, perms |-> j.perms, env |-> j.env, ask |-> j.ask, found |-> j.found,
       shown |-> j.shown, todo |-> j.todo, seen |-> j.seen]

MayReveal(j) == CanRevealSecrets(j.perms, j.env)

(* A leaf that was looked at shows what the store held, any other what was
   found.                                                                  *)
Filled(j, l) ==
  IF j.found[l][1] = "secret" /\ l \notin j.todo
  THEN MayReveal(j) /\ \E s \in j.seen : j.shown[l] = Shown(GetSecret(s, j.found[l][2]))
  ELSE j.shown[l] = j.found[l]

Hidden(j, l) ==
  j.shown[l] = IF j.found[l][1] \in {"secret", "braces"} THEN Blank ELSE j.found[l]

Inserting(j) ==
  /\ IsRequest(j) /\ j.env \in Envs
  /\ secrets[j.env] \in j.seen
  /\ DOMAIN j.shown = DOMAIN j.found
  /\ \A l \in j.todo : l \in DOMAIN j.found /\ j.found[l][1] = "secret"
  /\ \A l \in DOMAIN j.found : Filled(j, l)

Answered(j) ==
  \A l \in DOMAIN j.found : IF MayReveal(j) THEN Filled(j, l) /\ j.todo = {} ELSE Hidden(j, l)

Inv ==
  /\ DOMAIN secrets = Envs
  /\ At("read") => request.env \in Envs
  /\ At("insert") => Inserting(request)
  /\ At("answered") => Answered(request)

LEMMA InvInit == Init => Inv
BY DEF Init, Inv, At, Idle

(* A step that leaves the secrets and the request. *)
LEMMA SameInv == ASSUME Inv, UNCHANGED <<secrets, request>> PROVE Inv'
BY DEF Inv, At, Inserting

LEMMA IdleInv == ASSUME Inv, UNCHANGED secrets, request' = Idle PROVE Inv'
BY DEF Inv, At, Idle

(* A request that goes on to its answer or stays where it is. *)
LEMMA InsertInv ==
  ASSUME Inv, UNCHANGED secrets, NEW j, request' = j, j.pc = "insert", Inserting(j) PROVE Inv'
BY DEF Inv, At, Inserting

LEMMA AnswerInv ==
  ASSUME Inv, UNCHANGED secrets, NEW j, request' = j, j.pc = "answered", Answered(j) PROVE Inv'
BY DEF Inv, At

LEMMA UpsertInv ==
  ASSUME Inv, NEW e \in Envs, NEW batch \in Batches, UpsertSecrets(e, batch) PROVE Inv'
<1>1. DOMAIN secrets' = Envs /\ \A f \in Envs \ {e} : secrets'[f] = secrets[f]
  BY DEF UpsertSecrets, Inv
<1>2. CASE At("insert") /\ request.env = e
  <2>1. PICK i, j, seen : /\ i = request /\ IsRequest(i) /\ seen = i.seen \cup {secrets'[e]}
                          /\ j = [i EXCEPT !.seen = seen] /\ request' = j
    BY <1>2 DEF UpsertSecrets, Inv, Inserting
  <2>2. /\ IsRequest(j) /\ j.pc = "insert" /\ j.env = e /\ j.found = i.found /\ j.shown = i.shown
        /\ j.todo = i.todo /\ j.seen = seen /\ j.perms = i.perms
    BY <1>2, <2>1 DEF IsRequest, At
  <2>3. \A l \in DOMAIN j.found : Filled(j, l)
    BY <1>2, <2>1, <2>2 DEF Inv, Inserting, Filled, MayReveal
  <2>4. Inserting(j)'
    BY <1>2, <2>1, <2>2, <2>3 DEF Inv, Inserting
  <2> QED BY <1>1, <2>1, <2>2, <2>4 DEF Inv, At
<1>3. CASE ~(At("insert") /\ request.env = e)
  BY <1>1, <1>3 DEF UpsertSecrets, Inv, At, Inserting
<1> QED BY <1>2, <1>3

LEMMA ReadInv == ASSUME Inv, ReadConfig PROVE Inv'
<1>1. PICK j, found, todo :
        /\ j = [pc |-> "insert", perms |-> request.perms, env |-> request.env, ask |-> request.ask,
                found |-> found, shown |-> found, todo |-> todo, seen |-> {secrets[request.env]}]
        /\ todo = {l \in DOMAIN found : found[l][1] = "secret"}
        /\ request' = j /\ UNCHANGED secrets
  BY Zenon DEF ReadConfig
<1>2. Inserting(j)
  BY <1>1 DEF ReadConfig, Inv, At, Inserting, IsRequest, Filled
<1> QED BY <1>1, <1>2, InsertInv

LEMMA HideInv == ASSUME Inv, HideSecrets PROVE Inv'
<1>1. PICK i : i = request /\ Inserting(i) /\ ~MayReveal(i)
  BY DEF HideSecrets, Inv, Reveals, MayReveal
<1>2. PICK j, todo, shown :
        /\ j = [i EXCEPT !.pc = "answered", !.todo = todo, !.shown = shown]
        /\ shown = [l \in DOMAIN i.shown |->
                      IF i.shown[l][1] \in {"secret", "braces"} THEN Blank ELSE i.shown[l]]
        /\ request' = j /\ UNCHANGED secrets
  BY <1>1, Zenon DEF HideSecrets
<1>3. /\ j.pc = "answered" /\ j.perms = i.perms /\ j.env = i.env /\ j.found = i.found
      /\ j.shown = shown
  BY <1>1, <1>2 DEF Inserting, IsRequest
<1>4. Answered(j)
  BY <1>1, <1>2, <1>3 DEF Inserting, Filled, Answered, Hidden, MayReveal
<1> QED BY <1>2, <1>3, <1>4, AnswerInv

LEMMA InsertedInv == ASSUME Inv, Inserted PROVE Inv'
<1>1. PICK i, j : /\ i = request /\ Inserting(i) /\ MayReveal(i) /\ i.todo = {}
                  /\ j = [i EXCEPT !.pc = "answered"] /\ request' = j /\ UNCHANGED secrets
  BY DEF Inserted, Inv, Reveals, MayReveal
<1>2. /\ j.pc = "answered" /\ j.perms = i.perms /\ j.env = i.env /\ j.found = i.found
      /\ j.shown = i.shown /\ j.todo = {} /\ j.seen = i.seen
  BY <1>1 DEF Inserting, IsRequest
<1>3. Answered(j)
  BY <1>1, <1>2 DEF Inserting, Filled, Answered, MayReveal
<1> QED BY <1>1, <1>2, <1>3, AnswerInv

LEMMA InsertSecretInv == ASSUME Inv, NEW l \in request.todo, InsertSecret(l) PROVE Inv'
<1> DEFINE v == GetSecret(secrets[request.env], request.found[l][2])
<1>1. PICK i : i = request /\ Inserting(i) /\ MayReveal(i) /\ i.pc = "insert"
  BY DEF InsertSecret, Inv, Reveals, MayReveal, At
<1>2. CASE v = Panic
  BY <1>2, IdleInv DEF InsertSecret
<1>3. CASE v # Panic
  <2>1. PICK j, todo, shown :
          /\ j = [i EXCEPT !.todo = todo, !.shown = shown]
          /\ todo = i.todo \ {l} /\ shown = [i.shown EXCEPT ![l] = Shown(v)]
          /\ request' = j /\ UNCHANGED secrets
    BY <1>1, <1>3, Zenon DEF InsertSecret
  <2>2. /\ IsRequest(j) /\ j.pc = "insert" /\ j.perms = i.perms /\ j.env = i.env
        /\ j.found = i.found /\ j.shown = shown /\ j.todo = todo /\ j.seen = i.seen
    BY <1>1, <2>1 DEF Inserting, IsRequest
  <2> HIDE DEF v
  <2>3. ASSUME NEW k \in DOMAIN j.found PROVE Filled(j, k)
    <3>1. CASE k = l
      BY <1>1, <2>1, <2>2, <3>1 DEF Inserting, Filled, MayReveal, v
    <3>2. CASE k # l
      BY <1>1, <2>1, <2>2, <3>2 DEF Inserting, Filled, MayReveal
    <3> QED BY <3>1, <3>2
  <2>4. Inserting(j)
    BY <1>1, <2>1, <2>2, <2>3 DEF Inserting
  <2> QED BY <2>1, <2>2, <2>4, InsertInv
<1> QED BY <1>2, <1>3

LEMMA InvStep == ASSUME Inv, [Next]_vars PROVE Inv'
<1>1. CASE \/ ExtractConfigList \/ NextFile \/ \E k \in left : ParseGlobal(k[2]) \/ ParseGroup(k[2])
           \/ UNCHANGED vars
  BY <1>1, SameInv DEF ExtractConfigList, NextFile, ParseGlobal, ParseGroup, vars
<1>2. ASSUME NEW p \in Profiles, NEW e \in Envs, NEW ask \in Asks, Ask(p, e, ask) PROVE Inv'
  BY <1>2 DEF Ask, Inv, At
<1>3. CASE End
  BY <1>3, IdleInv DEF End
<1> QED
  BY <1>1, <1>2, <1>3, UpsertInv, ReadInv, HideInv, InsertedInv, InsertSecretInv DEF Next

(* An answer shows nothing of a secret without the permission to reveal    *)
(* those of the environment asked for, and with it what the secret was at  *)
(* some moment of the request; for any files, keys and stored secrets.     *)
THEOREM AlwaysShown == Spec => []SecretsAreShown
<1>1. Inv => SecretsAreShown
  BY DEF Inv, Answered, Filled, Hidden, MayReveal, CanRevealSecrets, SecretsAreShown
<1> QED BY <1>1, InvInit, InvStep, PTL DEF Spec

-----------------------------------------------------------------------------
(* The shape of the state. *)

(* Where the parser is. *)
Parsing ==
  /\ tree \in Trees /\ at \in 0 .. Len(tree) + 1
  /\ left # {} => at \in DOMAIN tree /\ left \subseteq KeysOf(tree[at])

(* What is stored as a secret. *)
Stored ==
  /\ DOMAIN secrets = Envs
  /\ \A e \in Envs : /\ DOMAIN secrets[e] \cap Malformed = {}
                     /\ \A k \in DOMAIN secrets[e] : secrets[e][k] # Nil

AtPlace == request.pc \in {"idle", "read", "insert", "answered"}

TypeInv == Parsing /\ Stored /\ AtPlace

LEMMA TypeInit == Init => TypeInv
<1> SUFFICES ASSUME Init PROVE TypeInv
  OBVIOUS
<1>1. Parsing
  BY AnswerAssumption DEF Init, Parsing
<1>2. Stored /\ AtPlace
  BY DEF Init, Stored, AtPlace, Idle
<1> QED BY <1>1, <1>2 DEF TypeInv

LEMMA ParserTypes ==
  ASSUME TypeInv, \/ ExtractConfigList \/ NextFile
                  \/ \E k \in left : ParseGlobal(k[2]) \/ ParseGroup(k[2])
  PROVE  TypeInv'
<1>1. UNCHANGED <<tree, secrets, request>>
  BY DEF ExtractConfigList, NextFile, ParseGlobal, ParseGroup
<1>2. Stored' /\ AtPlace'
  BY <1>1 DEF TypeInv, Stored, AtPlace
<1>3. /\ Len(tree) \in Nat /\ DOMAIN tree = 1 .. Len(tree)
      /\ tree = <<>> => Len(tree) = 0
      /\ Len(tree) = 0 => tree = <<>>
  BY AnswerAssumption DEF TypeInv, Parsing
<1>4. ASSUME NEW i \in 0 .. Len(tree) + 1, at' = i,
             left' = {} \/ (i \in DOMAIN tree /\ left' \subseteq KeysOf(tree[i]))
      PROVE  TypeInv'
  BY <1>1, <1>2, <1>4 DEF TypeInv, Parsing
<1>5. CASE ExtractConfigList
  <2>1. 1 \in 0 .. Len(tree) + 1 /\ (tree # <<>> => 1 \in DOMAIN tree)
    BY <1>3
  <2>2. at' = 1 /\ left' = IF tree = <<>> THEN {} ELSE KeysOf(tree[1])
    BY <1>5 DEF ExtractConfigList
  <2> QED BY <1>4, <2>1, <2>2
<1>6. CASE NextFile
  <2>1. at \in 0 .. Len(tree) + 1 /\ at # 0 /\ ~(at > Len(tree))
    BY <1>6 DEF NextFile, Extracting, Parsed, TypeInv, Parsing
  <2>2. at + 1 \in 0 .. Len(tree) + 1 /\ (at # Len(tree) => at + 1 \in DOMAIN tree)
    <3>1. PICK n \in Nat : n = Len(tree) /\ DOMAIN tree = 1 .. n
      BY <1>3
    <3>2. at \in 0 .. n + 1 /\ at # 0 /\ ~(at > n)
      BY <2>1, <3>1
    <3>3. at + 1 \in 0 .. n + 1 /\ (at # n => at + 1 \in 1 .. n)
      BY <3>2
    <3> QED BY <3>1, <3>3
  <2>3. at' = at + 1 /\ left' = IF at = Len(tree) THEN {} ELSE KeysOf(tree[at + 1])
    BY <1>6 DEF NextFile
  <2> QED BY <1>4, <2>2, <2>3
<1>7. CASE \E k \in left : ParseGlobal(k[2]) \/ ParseGroup(k[2])
  <2>1. left # {} /\ left' \subseteq left /\ at' = at
    BY <1>7 DEF ParseGlobal, ParseGroup
  <2>2. at \in 0 .. Len(tree) + 1 /\ at \in DOMAIN tree /\ left \subseteq KeysOf(tree[at])
    BY <2>1 DEF TypeInv, Parsing
  <2> QED BY <1>4, <2>1, <2>2
<1> QED BY <1>5, <1>6, <1>7

LEMMA UpsertTypes ==
  ASSUME Inv, TypeInv, NEW e \in Envs, NEW batch \in Batches, UpsertSecrets(e, batch)
  PROVE  TypeInv'
<1>1. Parsing'
  BY DEF TypeInv, Parsing, UpsertSecrets
<1>2. Stored'
  <2>1. PICK over : /\ over = Over(batch, secrets[e]) /\ secrets' = [secrets EXCEPT ![e] = over]
    BY DEF UpsertSecrets
  <2>2. DOMAIN over \cap Malformed = {} /\ \A k \in DOMAIN over : over[k] # Nil
    BY <2>1 DEF UpsertSecrets, Over, TypeInv, Stored
  <2> QED BY <2>1, <2>2 DEF TypeInv, Stored
<1>3. AtPlace'
  <2>1. CASE At("insert") /\ request.env = e
    <3>1. PICK i, j, seen : /\ i = request /\ IsRequest(i) /\ i.pc = "insert"
                            /\ j = [i EXCEPT !.seen = seen] /\ request' = j
      BY <2>1 DEF UpsertSecrets, Inv, Inserting, At
    <3>2. j.pc = "insert"
      BY <3>1 DEF IsRequest
    <3> QED BY <3>1, <3>2 DEF AtPlace
  <2>2. CASE ~(At("insert") /\ request.env = e)
    BY <2>2 DEF UpsertSecrets, TypeInv, AtPlace
  <2> QED BY <2>1, <2>2
<1> QED BY <1>1, <1>2, <1>3 DEF TypeInv

LEMMA RequestTypes ==
  ASSUME Inv, TypeInv,
         \/ \E p \in Profiles, e \in Envs, ask \in Asks : Ask(p, e, ask)
         \/ ReadConfig \/ HideSecrets \/ Inserted \/ End
         \/ At("insert") /\ \E l \in request.todo : InsertSecret(l)
  PROVE  TypeInv'
<1>1. UNCHANGED <<tree, at, left, secrets>>
  BY DEF Ask, ReadConfig, HideSecrets, Inserted, End, InsertSecret
<1>2. Parsing' /\ Stored'
  BY <1>1 DEF TypeInv, Parsing, Stored
<1>3. CASE \/ \E p \in Profiles, e \in Envs, ask \in Asks : Ask(p, e, ask)
           \/ End
  BY <1>2, <1>3 DEF Ask, End, Idle, TypeInv, AtPlace
<1>4. CASE ReadConfig
  <2>1. PICK found, todo :
          request' = [pc |-> "insert", perms |-> request.perms, env |-> request.env,
                      ask |-> request.ask, found |-> found, shown |-> found, todo |-> todo,
                      seen |-> {secrets[request.env]}]
    BY <1>4, Zenon DEF ReadConfig
  <2> QED BY <1>2, <2>1 DEF TypeInv, AtPlace
<1>5. ASSUME At("insert"),
             \/ request' = Idle
             \/ \E place \in {"insert", "answered"} : \E todo, shown :
                  request' = [request EXCEPT !.pc = place, !.todo = todo, !.shown = shown]
      PROVE  TypeInv'
  <2>1. PICK i : i = request /\ IsRequest(i) /\ i.pc = "insert"
    BY <1>5 DEF Inv, Inserting, At
  <2>2. ASSUME NEW place \in {"insert", "answered"}, NEW todo, NEW shown,
               request' = [i EXCEPT !.pc = place, !.todo = todo, !.shown = shown]
        PROVE  request'.pc = place
    BY <2>1, <2>2 DEF IsRequest
  <2>3. request'.pc \in {"insert", "answered", "idle"}
    <3>1. CASE request' = Idle
      BY <3>1 DEF Idle
    <3>2. CASE request' # Idle
      BY <1>5, <2>1, <2>2, <3>2
    <3> QED BY <3>1, <3>2
  <2> QED BY <1>2, <2>3 DEF TypeInv, AtPlace
<1>6. CASE HideSecrets
  <2>1. \E todo, shown : request' = [request EXCEPT !.pc = "answered", !.todo = todo, !.shown = shown]
    BY <1>6, Zenon DEF HideSecrets
  <2> QED BY <1>5, <1>6, <2>1 DEF HideSecrets
<1>7. ASSUME At("insert"), NEW place \in {"insert", "answered"}, NEW todo, NEW shown,
             \/ request' = [request EXCEPT !.pc = place]
             \/ request' = [request EXCEPT !.todo = todo, !.shown = shown]
      PROVE  TypeInv'
  <2>1. PICK i : i = request /\ IsRequest(i) /\ i.pc = "insert"
    BY <1>7 DEF Inv, Inserting, At
  <2>2. request'.pc \in {"insert", "answered"}
    BY <1>7, <2>1 DEF IsRequest
  <2> QED BY <1>2, <2>2 DEF TypeInv, AtPlace
<1>8. CASE Inserted
  <2>1. At("insert") /\ request' = [request EXCEPT !.pc = "answered"]
    BY <1>8 DEF Inserted
  <2> QED BY <1>7, <2>1
<1>9. ASSUME At("insert"), NEW l \in request.todo, InsertSecret(l) PROVE TypeInv'
  <2>1. request' = Idle \/ \E todo, shown : request' = [request EXCEPT !.todo = todo, !.shown = shown]
    BY <1>9, Zenon DEF InsertSecret
  <2> QED BY <1>5, <1>7, <1>9, <2>1
<1> QED BY <1>3, <1>4, <1>6, <1>8, <1>9

LEMMA TypeStep == Inv /\ TypeInv /\ [Next]_vars => TypeInv'
<1> SUFFICES ASSUME Inv, TypeInv, [Next]_vars PROVE TypeInv'
  OBVIOUS
<1>1. CASE UNCHANGED vars
  BY <1>1 DEF vars, TypeInv, Parsing, Stored, AtPlace
<1> QED BY <1>1, ParserTypes, UpsertTypes, RequestTypes DEF Next

(* The keys still to be parsed are keys of the file the parser is at, what *)
(* is stored as a secret is never nil and can be named, and a request has  *)
(* seen only secrets that can be stored (ParseConfigList, UpsertSecrets,   *)
(* InsertSecrets).                                                         *)
THEOREM TypeCorrect == Spec => []TypeOK
<1>1. Inv /\ TypeInv => TypeOK
  BY DEF Inv, Inserting, At, TypeInv, Parsing, Stored, AtPlace, TypeOK
<1> QED BY <1>1, InvInit, InvStep, TypeInit, TypeStep, PTL DEF Spec

-----------------------------------------------------------------------------
(* What the parser makes of the items of a group. *)

(* A group holds what items say: of each key the last local value, and the
   pointers.                                                               *)
Holds(g, items) ==
  /\ g = [Local |-> g.Local, Global |-> g.Global] /\ g.Global \in Seq(ToSet(g.Global))
  /\ \A k : k \in DOMAIN g.Local <=> Locals(items, k) # {}
  /\ \A k \in DOMAIN g.Local :
       \E i \in Locals(items, k) :
         (\A j \in Locals(items, k) : j <= i) /\ g.Local[k] = items[i].of[k]
  /\ \A k : k \in ToSet(g.Global) <=> Pointers(items, k) # {}

(* An item more. *)
LEMMA LocalsOfAppend ==
  ASSUME NEW T, NEW s \in Seq(T), NEW x \in T, NEW k
  PROVE  /\ Locals(Append(s, x), k) =
              Locals(s, k) \cup (IF x.kind = "locals" /\ k \in DOMAIN x.of THEN {Len(s) + 1} ELSE {})
         /\ Pointers(Append(s, x), k) =
              Pointers(s, k) \cup (IF x = [kind |-> "pointer", to |-> k] THEN {Len(s) + 1} ELSE {})
<1>1. PICK u : u = Append(s, x)
  OBVIOUS
<1>2. PICK n \in Nat : n = Len(s)
  OBVIOUS
<1>3. DOMAIN u = DOMAIN s \cup {n + 1} /\ DOMAIN s = 1 .. n /\ n + 1 \notin DOMAIN s
  BY <1>1, <1>2
<1>4. u[n + 1] = x /\ \A i \in DOMAIN s : u[i] = s[i]
  BY <1>1, <1>2
<1>5. Locals(u, k) = Locals(s, k) \cup (IF x.kind = "locals" /\ k \in DOMAIN x.of THEN {n + 1} ELSE {})
  BY <1>3, <1>4 DEF Locals
<1>6. Pointers(u, k) = Pointers(s, k) \cup (IF x = [kind |-> "pointer", to |-> k] THEN {n + 1} ELSE {})
  BY <1>3, <1>4 DEF Pointers
<1> QED BY <1>1, <1>2, <1>5, <1>6

LEMMA AddItemHolds ==
  ASSUME NEW T, NEW s \in Seq(T), NEW x \in T, IsItem(x), NEW g, Holds(g, s)
  PROVE  Holds(AddItem(g, x), Append(s, x))
<1>1. PICK u : u = Append(s, x)
  OBVIOUS
<1>2. PICK n \in Nat : n = Len(s)
  OBVIOUS
<1>3. /\ u[n + 1] = x
      /\ \A i \in DOMAIN s : u[i] = s[i] /\ i < n + 1
  BY <1>1, <1>2
<1>4. \A k : /\ Locals(s, k) \subseteq DOMAIN s
             /\ Locals(u, k) = Locals(s, k) \cup (IF x.kind = "locals" /\ k \in DOMAIN x.of THEN {n + 1} ELSE {})
             /\ Pointers(u, k) = Pointers(s, k) \cup (IF x = [kind |-> "pointer", to |-> k] THEN {n + 1} ELSE {})
  BY <1>1, <1>2, LocalsOfAppend DEF Locals
<1>5. CASE x.kind = "pointer"
  <2>1. PICK G : G = Append(g.Global, x.to)
    OBVIOUS
  <2>2. PICK h : h = AddItem(g, x) /\ h = [Local |-> g.Local, Global |-> G]
    BY <1>5, <2>1 DEF AddItem, Holds
  <2>3. h.Local = g.Local /\ h.Global = G
    BY <2>2
  <2>4. ToSet(G) = ToSet(g.Global) \cup {x.to} /\ G \in Seq(ToSet(G))
    <3> DEFINE U == ToSet(g.Global) \cup {x.to}
    <3> HIDE DEF U
    <3>1. PICK a \in Seq(U) : a = g.Global
      BY DEF Holds, U
    <3>2. PICK b \in U : b = x.to
      BY DEF U
    <3>3. G = Append(a, b)
      BY <2>1, <3>1, <3>2
    <3>4. /\ DOMAIN G = DOMAIN a \cup {Len(a) + 1} /\ G[Len(a) + 1] = b
          /\ \A i \in DOMAIN a : G[i] = a[i]
      BY <3>3
    <3>5. ToSet(G) = ToSet(a) \cup {b}
      BY <3>4 DEF ToSet
    <3>6. G \in Seq(U)
      BY <3>3
    <3>7. G \in Seq(ToSet(G))
      BY <3>6 DEF ToSet
    <3> QED BY <3>1, <3>2, <3>5, <3>7
  <2>5. x = [kind |-> "pointer", to |-> x.to] /\ x.kind # "locals"
    BY <1>5 DEF IsItem
  <2>6. \A k : Locals(u, k) = Locals(s, k)
    BY <1>4, <2>5
  <2>7. \A k : k \in ToSet(G) <=> Pointers(u, k) # {}
    <3> SUFFICES ASSUME NEW k PROVE k \in ToSet(G) <=> Pointers(u, k) # {}
      OBVIOUS
    <3>1. (x = [kind |-> "pointer", to |-> k]) <=> k = x.to
      BY <2>5
    <3>2. k \in ToSet(g.Global) <=> Pointers(s, k) # {}
      BY DEF Holds
    <3> QED BY <1>4, <2>4, <3>1, <3>2
  <2>8. \A k \in DOMAIN g.Local :
          \E i \in Locals(u, k) :
            (\A j \in Locals(u, k) : j <= i) /\ g.Local[k] = u[i].of[k]
    BY <1>3, <1>4, <2>6 DEF Holds
  <2>9. \A k : k \in DOMAIN g.Local <=> Locals(u, k) # {}
    BY <2>6 DEF Holds
  <2>10. Holds(h, u)
    BY <2>2, <2>3, <2>4, <2>7, <2>8, <2>9 DEF Holds
  <2> QED BY <1>1, <2>2, <2>10
<1>6. CASE x.kind = "locals"
  <2>1. PICK L : L = Over(x.of, g.Local)
    OBVIOUS
  <2>2. PICK h : h = AddItem(g, x) /\ h = [Local |-> L, Global |-> g.Global]
    BY <1>6, <2>1 DEF AddItem, Holds
  <2>3. h.Local = L /\ h.Global = g.Global
    BY <2>2
  <2>4. /\ DOMAIN L = DOMAIN x.of \cup DOMAIN g.Local
        /\ \A k \in DOMAIN L : L[k] = IF k \in DOMAIN x.of THEN x.of[k] ELSE g.Local[k]
    BY <2>1 DEF Over
  <2>5. \A k : Pointers(u, k) = Pointers(s, k)
    <3>1. \A k : x # [kind |-> "pointer", to |-> k]
      BY <1>6
    <3> QED BY <1>4, <3>1
  <2>6. \A k : Locals(u, k) = Locals(s, k) \cup (IF k \in DOMAIN x.of THEN {n + 1} ELSE {})
    BY <1>4, <1>6
  <2>7. \A k : k \in DOMAIN L <=> Locals(u, k) # {}
    BY <2>4, <2>6 DEF Holds
  <2>8. ASSUME NEW k \in DOMAIN L
        PROVE  \E i \in Locals(u, k) :
                 (\A j \in Locals(u, k) : j <= i) /\ L[k] = u[i].of[k]
    <3>1. CASE k \in DOMAIN x.of
      <4>1. n + 1 \in Locals(u, k) /\ \A j \in Locals(u, k) : j <= n + 1
        <5>1. \A j \in Locals(s, k) : j <= n + 1
          BY <1>2, <1>4
        <5> QED BY <2>6, <3>1, <5>1
      <4> QED BY <1>3, <2>4, <3>1, <4>1
    <3>2. CASE k \notin DOMAIN x.of
      <4>1. k \in DOMAIN g.Local /\ L[k] = g.Local[k] /\ Locals(u, k) = Locals(s, k)
        BY <2>4, <2>6, <3>2
      <4>2. PICK i \in Locals(s, k) : (\A j \in Locals(s, k) : j <= i) /\ g.Local[k] = s[i].of[k]
        BY <4>1 DEF Holds
      <4> QED BY <1>3, <1>4, <4>1, <4>2
    <3> QED BY <3>1, <3>2
  <2>9. \A k : k \in ToSet(g.Global) <=> Pointers(u, k) # {}
    BY <2>5 DEF Holds
  <2>10. g.Global \in Seq(ToSet(g.Global))
    BY DEF Holds
  <2>11. Holds(h, u)
    BY <2>2, <2>3, <2>7, <2>8, <2>9, <2>10 DEF Holds
  <2> QED BY <1>1, <2>2, <2>11
<1> QED BY <1>5, <1>6 DEF IsItem

(* added goes from group through the first m of items. *)
Adding(added, group, items, m) ==
  added = [i \in 0 .. m |-> IF i = 0 THEN group ELSE AddItem(added[i - 1], items[i])]

LEMMA AddingSteps ==
  ASSUME NEW m \in Nat, NEW group, NEW items, NEW f
  PROVE  Adding(f, group, items, m) <=>
           /\ f = [i \in 0 .. m |-> f[i]] /\ f[0] = group
           /\ \A i \in 1 .. m : f[i] = AddItem(f[i - 1], items[i])
<1> DEFINE e == [i \in 0 .. m |-> IF i = 0 THEN group ELSE AddItem(f[i - 1], items[i])]
<1>1. ASSUME Adding(f, group, items, m)
      PROVE  /\ f = [i \in 0 .. m |-> f[i]] /\ f[0] = group
             /\ \A i \in 1 .. m : f[i] = AddItem(f[i - 1], items[i])
  <2>1. f = e
    BY <1>1 DEF Adding
  <2>2. e = [i \in 0 .. m |-> e[i]]
    OBVIOUS
  <2>3. 0 \in 0 .. m /\ \A i \in 1 .. m : i \in 0 .. m /\ i # 0
    OBVIOUS
  <2>4. f[0] = group
    BY <1>1, <2>3, Zenon DEF Adding
  <2>5. ASSUME NEW i \in 1 .. m PROVE f[i] = AddItem(f[i - 1], items[i])
    BY <1>1, <2>3, Zenon DEF Adding
  <2> HIDE DEF e
  <2> QED BY <2>1, <2>2, <2>4, <2>5
<1>2. ASSUME f = [i \in 0 .. m |-> f[i]], f[0] = group,
             \A i \in 1 .. m : f[i] = AddItem(f[i - 1], items[i])
      PROVE  Adding(f, group, items, m)
  <2>1. ASSUME NEW i \in 0 .. m
        PROVE  f[i] = IF i = 0 THEN group ELSE AddItem(f[i - 1], items[i])
    BY <1>2
  <2>2. [i \in 0 .. m |-> f[i]] = e
    BY <2>1, Zenon
  <2> QED BY <1>2, <2>2, Zenon DEF Adding
<1> QED BY <1>1, <1>2

LEMMA AddingExists ==
  ASSUME NEW n \in Nat, NEW group, NEW items
  PROVE  \E f : Adding(f, group, items, n)
<1> DEFINE S == {m \in 0 .. n : \E f : Adding(f, group, items, m)}
<1>1. 0 \in S
  <2>1. PICK f : f = [i \in 0 .. 0 |-> group]
    OBVIOUS
  <2>2. f = [i \in 0 .. 0 |-> f[i]] /\ f[0] = group /\ 1 .. 0 = {}
    BY <2>1
  <2>3. Adding(f, group, items, 0)
    BY <2>2, AddingSteps
  <2> QED BY <2>3
<1>2. ASSUME NEW m \in 0 .. n - 1, m \in S PROVE m + 1 \in S
  <2>1. PICK f : Adding(f, group, items, m)
    BY <1>2
  <2>2. f[0] = group /\ \A i \in 1 .. m : f[i] = AddItem(f[i - 1], items[i])
    BY <2>1, AddingSteps
  <2>3. PICK x : x = AddItem(f[m], items[m + 1])
    OBVIOUS
  <2>4. PICK g : g = [i \in 0 .. m + 1 |-> IF i = m + 1 THEN x ELSE f[i]]
    OBVIOUS
  <2>5. g = [i \in 0 .. m + 1 |-> g[i]]
    BY <2>4
  <2>6. g[m + 1] = x /\ \A i \in 0 .. m : g[i] = f[i]
    BY <2>4
  <2>7. ASSUME NEW i \in 1 .. m + 1 PROVE g[i] = AddItem(g[i - 1], items[i])
    <3>1. CASE i = m + 1
      <4>1. i - 1 = m /\ m \in 0 .. m
        BY <3>1
      <4>2. g[i - 1] = f[m]
        BY <2>6, <4>1
      <4> QED BY <2>3, <2>6, <3>1, <4>2
    <3>2. CASE i # m + 1
      <4>1. i \in 1 .. m /\ i - 1 \in 0 .. m /\ i \in 0 .. m
        BY <3>2
      <4>2. f[i] = AddItem(f[i - 1], items[i])
        BY <2>2, <4>1
      <4>3. g[i] = f[i] /\ g[i - 1] = f[i - 1]
        BY <2>6, <4>1
      <4> QED BY <4>2, <4>3
    <3> QED BY <3>1, <3>2
  <2>8. g[0] = group
    BY <2>2, <2>6
  <2>9. m + 1 \in Nat /\ m + 1 \in 0 .. n
    OBVIOUS
  <2>10. Adding(g, group, items, m + 1)
    BY <2>5, <2>7, <2>8, <2>9, AddingSteps
  <2> QED BY <2>9, <2>10
<1> HIDE DEF S
<1>3. \A m \in 0 .. n - 1 : m \in S => m + 1 \in S
  BY <1>2
<1>4. 0 .. n \subseteq S
  BY <1>1, <1>3, InductTo
<1> QED BY <1>4 DEF S

LEMMA AddItemsHolds ==
  ASSUME NEW T, \A x \in T : IsItem(x), NEW s \in Seq(T), NEW t \in Seq(T), NEW g, Holds(g, s)
  PROVE  Holds(AddItems(g, t), s \o t)
<1> DEFINE n == Len(t)
<1>1. n \in Nat
  OBVIOUS
<1>2. PICK f : f = CHOOSE added : Adding(added, g, t, n)
  OBVIOUS
<1>3. Adding(f, g, t, n)
  BY <1>1, <1>2, AddingExists
<1>4. AddItems(g, t) = f[n]
  BY <1>2, Zenon DEF AddItems, Adding
<1>5. f[0] = g /\ \A i \in 1 .. n : f[i] = AddItem(f[i - 1], t[i])
  BY <1>1, <1>3, AddingSteps
<1> DEFINE S == {i \in 0 .. n : Holds(f[i], s \o SubSeq(t, 1, i))}
<1>6. 0 \in S
  <2>1. SubSeq(t, 1, 0) = <<>> /\ s \o <<>> = s
    OBVIOUS
  <2>2. Holds(f[0], s \o SubSeq(t, 1, 0))
    BY <1>5, <2>1
  <2> QED BY <1>1, <2>2
<1>7. ASSUME NEW i \in 0 .. n - 1, i \in S PROVE i + 1 \in S
  <2>1. PICK k \in 1 .. n : k = i + 1 /\ k - 1 = i
    BY <1>1
  <2>2. PICK b \in Seq(T) : b = SubSeq(t, 1, i)
    <3>1. (\A j \in 1 .. i : t[j] \in T) /\ i \in Int
      BY <1>1
    <3>2. SubSeq(t, 1, i) \in Seq(T)
      BY <3>1, SubSeqProperties
    <3> QED BY <3>2
  <2>3. PICK a \in Seq(T) : a = s \o b
    <3>1. s \o b \in Seq(T)
      BY ConcatProperties
    <3> QED BY <3>1
  <2>4. PICK x \in T : x = t[k]
    OBVIOUS
  <2>5. s \o SubSeq(t, 1, k) = Append(a, x)
    <3>1. SubSeq(t, 1, k) = SubSeq(t, 1, k - 1) \o <<t[k]>>
      <4>1. 1 \in 1 .. Len(t) /\ k \in 1 .. Len(t)
        BY <2>1
      <4> QED BY <4>1, SubSeqRecursiveSecond
    <3>3. s \o (b \o <<x>>) = (s \o b) \o <<x>>
      OBVIOUS
    <3>4. a \o <<x>> = Append(a, x)
      OBVIOUS
    <3> QED BY <2>1, <2>2, <2>3, <2>4, <3>1, <3>3, <3>4
  <2>6. f[k] = AddItem(f[i], x)
    BY <1>5, <2>1, <2>4
  <2>7. Holds(f[k], Append(a, x))
    <3>1. Holds(f[i], a) /\ IsItem(x)
      BY <1>7, <2>2, <2>3
    <3> QED BY <2>6, <3>1, AddItemHolds
  <2>8. k \in 0 .. n /\ Holds(f[k], s \o SubSeq(t, 1, k))
    <3>1. k \in 0 .. n
      BY <1>1
    <3> QED BY <2>5, <2>7, <3>1
  <2>9. k \in S
    BY <2>8, Zenon
  <2> HIDE DEF S
  <2> QED BY <2>1, <2>9
<1> HIDE DEF S
<1>8. 0 .. n \subseteq S
  BY <1>1, <1>6, <1>7, InductTo
<1>9. n \in S
  BY <1>1, <1>8
<1>10. SubSeq(t, 1, n) = t
  BY SubSeqFull
<1> QED BY <1>4, <1>9, <1>10 DEF S

-----------------------------------------------------------------------------
(* What it has made of the files it has gone through. *)

LEMMA TreeIs ==
  ASSUME tree \in Trees
  PROVE  /\ Len(tree) \in Nat /\ DOMAIN tree = 1 .. Len(tree) /\ (tree = <<>> <=> Len(tree) = 0)
         /\ \A i \in DOMAIN tree : IsFile(tree[i])
<1>1. tree \in Seq(ToSet(tree)) /\ \A f \in ToSet(tree) : IsFile(f)
  BY AnswerAssumption
<1>2. Len(tree) \in Nat /\ DOMAIN tree = 1 .. Len(tree) /\ (tree = <<>> <=> Len(tree) = 0)
  BY <1>1
<1>3. \A i \in DOMAIN tree : tree[i] \in ToSet(tree)
  BY DEF ToSet
<1> QED BY <1>1, <1>2, <1>3

(* The items of group n in file i, in the first m files, and in any file. *)
FileItems(n, i) == IF n \in DOMAIN tree[i].groups THEN tree[i].groups[n] ELSE <<>>
ItemsTo(n, m) == FlattenSeq([i \in 1 .. m |-> FileItems(n, i)])
AllItems(n) == UNION {ToSet(FileItems(n, i)) : i \in DOMAIN tree}

LEMMA FileItemsIs ==
  ASSUME tree \in Trees, NEW n
  PROVE  /\ \A x \in AllItems(n) : IsItem(x)
         /\ \A i \in DOMAIN tree : FileItems(n, i) \in Seq(AllItems(n))
<1>1. ASSUME NEW i \in DOMAIN tree
      PROVE  /\ FileItems(n, i) \in Seq(ToSet(FileItems(n, i)))
             /\ \A x \in ToSet(FileItems(n, i)) : IsItem(x)
  <2>1. CASE n \in DOMAIN tree[i].groups
    BY <2>1, TreeIs DEF FileItems, IsFile
  <2>2. CASE n \notin DOMAIN tree[i].groups
    BY <2>2 DEF FileItems, ToSet
  <2> QED BY <2>1, <2>2
<1>2. ASSUME NEW i \in DOMAIN tree PROVE FileItems(n, i) \in Seq(AllItems(n))
  <2>1. ToSet(FileItems(n, i)) \subseteq AllItems(n)
    BY DEF AllItems
  <2> QED BY <1>1, <2>1, SeqMonotonic
<1>3. \A x \in AllItems(n) : IsItem(x)
  BY <1>1 DEF AllItems
<1> QED BY <1>2, <1>3

(* A file more. *)
LEMMA ItemsToStep ==
  ASSUME tree \in Trees, NEW n, NEW m \in Nat, m + 1 \in DOMAIN tree
  PROVE  /\ ItemsTo(n, m) \in Seq(AllItems(n))
         /\ ItemsTo(n, m + 1) = ItemsTo(n, m) \o FileItems(n, m + 1)
<1> DEFINE T == AllItems(n)
           s == [i \in 1 .. m |-> FileItems(n, i)]
           u == [i \in 1 .. m + 1 |-> FileItems(n, i)]
           t == FileItems(n, m + 1)
<1>1. \A i \in 1 .. m + 1 : i \in DOMAIN tree
  BY TreeIs
<1>2. t \in Seq(T) /\ \A i \in 1 .. m : FileItems(n, i) \in Seq(T)
  BY <1>1, FileItemsIs
<1>3. s \in Seq(Seq(T)) /\ Len(s) = m
  BY <1>2
<1>4. u = Append(s, t)
  <2>1. DOMAIN u = DOMAIN Append(s, t)
    BY <1>3
  <2>2. ASSUME NEW i \in 1 .. m + 1 PROVE u[i] = Append(s, t)[i]
    <3>1. CASE i = m + 1
      BY <1>3, <3>1
    <3>2. CASE i # m + 1
      <4>1. i \in 1 .. m
        BY <3>2
      <4>2. Append(s, t)[i] = s[i]
        BY <1>3, <4>1
      <4> QED BY <4>1, <4>2
    <3> QED BY <3>1, <3>2
  <2>3. Append(s, t) = [i \in 1 .. m + 1 |-> Append(s, t)[i]]
    BY <1>3
  <2> QED BY <2>2, <2>3
<1> HIDE DEF s, u, t
<1>5. FlattenSeq(s) \in Seq(T) /\ FlattenSeq(u) = FlattenSeq(s) \o t
  BY <1>2, <1>3, <1>4, FlattenAppend
<1> QED BY <1>5 DEF ItemsTo, s, u, t

LEMMA ItemsToEnds ==
  ASSUME tree \in Trees, NEW n
  PROVE  ItemsTo(n, 0) = <<>> /\ ItemsTo(n, Len(tree)) = ItemsOf(n)
<1>1. ItemsTo(n, 0) = <<>>
  <2>1. PICK s : s = [i \in 1 .. 0 |-> FileItems(n, i)]
    OBVIOUS
  <2>2. s = <<>> /\ Len(s) = 0
    BY <2>1
  <2>3. FlattenSeq(s) = <<>>
    BY <2>2 DEF FlattenSeq
  <2> QED BY <2>1, <2>3 DEF ItemsTo
<1>2. ItemsTo(n, Len(tree)) = ItemsOf(n)
  BY TreeIs, Zenon DEF ItemsTo, ItemsOf, FileItems
<1> QED BY <1>1, <1>2

(* How many files the parser has gone through as far as a key is concerned. *)
Reached(key) ==
  IF key \in left THEN at - 1 ELSE IF at > Len(tree) THEN Len(tree) ELSE at

Definers(n, m) == {i \in 1 .. m : n \in DOMAIN tree[i].globals}

GlobalSaid(globals, n, m) ==
  /\ n \in DOMAIN globals <=> Definers(n, m) # {}
  /\ n \in DOMAIN globals =>
       \E i \in Definers(n, m) :
         (\A j \in Definers(n, m) : j <= i) /\ globals[n] = tree[i].globals[n]

GroupSaid(groups, n, m) ==
  /\ n \in DOMAIN groups <=> \E i \in 1 .. m : n \in DOMAIN tree[i].groups
  /\ IF n \in DOMAIN groups THEN Holds(groups[n], ItemsTo(n, m)) ELSE ItemsTo(n, m) = <<>>

(* What has been parsed says what the files gone through say. *)
Said ==
  /\ parsed = [globals |-> parsed.globals, groups |-> parsed.groups]
  /\ \A n : GlobalSaid(parsed.globals, n, Reached(<<"global", n>>))
  /\ \A n : GroupSaid(parsed.groups, n, Reached(<<"group", n>>))

LEMMA SaidPrime ==
  ASSUME tree' = tree, parsed' = [globals |-> parsed'.globals, groups |-> parsed'.groups],
         \A n : GlobalSaid(parsed'.globals, n, Reached(<<"global", n>>)'),
         \A n : GroupSaid(parsed'.groups, n, Reached(<<"group", n>>)')
  PROVE  Said'
BY DEF Said, GlobalSaid, GroupSaid, Definers, ItemsTo, FileItems

LEMMA SaidInit == Init => Said
<1> SUFFICES ASSUME Init PROVE Said
  OBVIOUS
<1>1. tree \in Trees /\ at = 0 /\ left = {} /\ parsed = [globals |-> <<>>, groups |-> <<>>]
  BY DEF Init
<1>2. \A key : Reached(key) = 0
  BY <1>1, TreeIs DEF Reached
<1>3. DOMAIN parsed.globals = {} /\ DOMAIN parsed.groups = {} /\ 1 .. 0 = {}
  BY <1>1
<1>4. \A n : GlobalSaid(parsed.globals, n, 0)
  BY <1>3 DEF GlobalSaid, Definers
<1>5. \A n : GroupSaid(parsed.groups, n, 0)
  BY <1>1, <1>3, ItemsToEnds DEF GroupSaid
<1>6. parsed = [globals |-> parsed.globals, groups |-> parsed.groups]
  BY <1>1
<1> QED BY <1>2, <1>4, <1>5, <1>6 DEF Said

(* A file that says nothing of a name. *)
LEMMA NothingSaid ==
  ASSUME tree \in Trees, NEW n, NEW m \in Nat, m + 1 \in DOMAIN tree
  PROVE  /\ \A globals : n \notin DOMAIN tree[m + 1].globals /\ GlobalSaid(globals, n, m)
                           => GlobalSaid(globals, n, m + 1)
         /\ \A groups : n \notin DOMAIN tree[m + 1].groups /\ GroupSaid(groups, n, m)
                           => GroupSaid(groups, n, m + 1)
<1>1. ASSUME n \notin DOMAIN tree[m + 1].globals
      PROVE  Definers(n, m + 1) = Definers(n, m)
  <2>1. 1 .. m + 1 = 1 .. m \cup {m + 1}
    OBVIOUS
  <2> QED BY <1>1, <2>1 DEF Definers
<1>2. ASSUME n \notin DOMAIN tree[m + 1].groups
      PROVE  /\ ItemsTo(n, m + 1) = ItemsTo(n, m)
             /\ (\E i \in 1 .. m + 1 : n \in DOMAIN tree[i].groups)
                  <=> \E i \in 1 .. m : n \in DOMAIN tree[i].groups
  <2>1. FileItems(n, m + 1) = <<>>
    BY <1>2 DEF FileItems
  <2>2. PICK s \in Seq(AllItems(n)) : s = ItemsTo(n, m) /\ ItemsTo(n, m + 1) = s \o <<>>
    BY <2>1, ItemsToStep
  <2>3. s \o <<>> = s
    OBVIOUS
  <2>4. 1 .. m + 1 = 1 .. m \cup {m + 1}
    OBVIOUS
  <2> QED BY <1>2, <2>2, <2>3, <2>4
<1> QED BY <1>1, <1>2 DEF GlobalSaid, GroupSaid

(* A file that gives a value to a global, and one that has items of a group. *)
LEMMA GlobalMore ==
  ASSUME NEW n, NEW m \in Nat, n \in DOMAIN tree[m + 1].globals, NEW globals
  PROVE  GlobalSaid(Put(globals, n, tree[m + 1].globals[n]), n, m + 1)
<1>1. PICK g : g = Put(globals, n, tree[m + 1].globals[n])
  OBVIOUS
<1>2. n \in DOMAIN g /\ g[n] = tree[m + 1].globals[n]
  BY <1>1 DEF Put
<1>3. m + 1 \in Definers(n, m + 1) /\ \A j \in Definers(n, m + 1) : j <= m + 1
  BY DEF Definers
<1> QED BY <1>1, <1>2, <1>3 DEF GlobalSaid

LEMMA GroupMore ==
  ASSUME tree \in Trees, NEW n, NEW m \in Nat, m + 1 \in DOMAIN tree,
         n \in DOMAIN tree[m + 1].groups, NEW groups, GroupSaid(groups, n, m),
         NEW before, before = IF n \in DOMAIN groups THEN groups[n]
                              ELSE [Local |-> <<>>, Global |-> <<>>]
  PROVE  GroupSaid(Put(groups, n, AddItems(before, tree[m + 1].groups[n])), n, m + 1)
<1> DEFINE T == AllItems(n)
<1>1. PICK s \in Seq(T) : s = ItemsTo(n, m)
  BY ItemsToStep
<1>2. PICK t \in Seq(T) : t = FileItems(n, m + 1) /\ t = tree[m + 1].groups[n]
  BY FileItemsIs DEF FileItems
<1>3. Holds(before, s)
  <2>1. CASE n \in DOMAIN groups
    BY <1>1, <2>1 DEF GroupSaid
  <2>2. CASE n \notin DOMAIN groups
    <3>1. s = <<>> /\ before = [Local |-> <<>>, Global |-> <<>>]
      BY <1>1, <2>2 DEF GroupSaid
    <3>2. \A k : Locals(s, k) = {} /\ Pointers(s, k) = {}
      BY <3>1 DEF Locals, Pointers
    <3>3. before.Global = <<>> /\ ToSet(before.Global) = {} /\ DOMAIN before.Local = {}
      BY <3>1 DEF ToSet
    <3>4. before = [Local |-> before.Local, Global |-> before.Global]
      BY <3>1
    <3>5. before.Global \in Seq(ToSet(before.Global))
      <4>1. \A S : <<>> \in Seq(S)
        OBVIOUS
      <4> QED BY <3>3, <4>1
    <3>6. \A k : k \notin DOMAIN before.Local /\ k \notin ToSet(before.Global)
      BY <3>3
    <3> QED BY <3>2, <3>4, <3>5, <3>6 DEF Holds
  <2> QED BY <2>1, <2>2
<1>4. Holds(AddItems(before, t), s \o t)
  BY <1>3, FileItemsIs, AddItemsHolds
<1>5. ItemsTo(n, m + 1) = s \o t
  BY <1>1, <1>2, ItemsToStep
<1>6. PICK h : h = Put(groups, n, AddItems(before, tree[m + 1].groups[n]))
  OBVIOUS
<1>7. n \in DOMAIN h /\ h[n] = AddItems(before, t)
  BY <1>2, <1>6 DEF Put
<1>8. \E i \in 1 .. m + 1 : n \in DOMAIN tree[i].groups
  OBVIOUS
<1> QED BY <1>4, <1>5, <1>6, <1>7, <1>8 DEF GroupSaid

(* What is put under one name says nothing of another. *)
LEMMA PutOther ==
  ASSUME NEW n, NEW k, n # k, NEW m, NEW f, NEW v
  PROVE  /\ GlobalSaid(f, n, m) => GlobalSaid(Put(f, k, v), n, m)
         /\ GroupSaid(f, n, m) => GroupSaid(Put(f, k, v), n, m)
<1>1. PICK g : g = Put(f, k, v)
  OBVIOUS
<1>2. (n \in DOMAIN g <=> n \in DOMAIN f) /\ (n \in DOMAIN f => g[n] = f[n])
  BY <1>1 DEF Put
<1>3. GlobalSaid(f, n, m) => GlobalSaid(g, n, m)
  BY <1>2 DEF GlobalSaid
<1>4. GroupSaid(f, n, m) => GroupSaid(g, n, m)
  BY <1>2 DEF GroupSaid
<1> QED BY <1>1, <1>3, <1>4

(* The parser goes to the next file, the first or the end. *)
LEMMA AdvanceSaid ==
  ASSUME Said, Parsing, left = {}, at <= Len(tree), at' = at + 1,
         left' = IF at = Len(tree) THEN {} ELSE KeysOf(tree[at + 1]),
         UNCHANGED <<tree, parsed>>
  PROVE  Said'
<1>1. PICK N \in Nat : N = Len(tree) /\ DOMAIN tree = 1 .. N /\ tree \in Trees
  BY TreeIs DEF Parsing
<1>2. at \in 0 .. N
  BY <1>1 DEF Parsing
<1>3. \A key : Reached(key) = at
  BY <1>1, <1>2 DEF Reached
<1>4. \A key : \/ Reached(key)' = at
               \/ Reached(key)' = at + 1 /\ at + 1 \in DOMAIN tree /\ key \notin KeysOf(tree[at + 1])
  <2>1. CASE at = N
    BY <1>1, <1>2, <2>1 DEF Reached
  <2>2. CASE at # N
    <3>1. at + 1 \in 1 .. N /\ ~(at + 1 > N) /\ at + 1 - 1 = at
      BY <1>2, <2>2
    <3>2. PICK keys : keys = KeysOf(tree[at + 1]) /\ left' = keys
      BY <1>1, <2>2
    <3>3. \A key : Reached(key)' = IF key \in keys THEN at ELSE at + 1
      BY <1>1, <1>2, <3>1, <3>2 DEF Reached
    <3> QED BY <1>1, <3>1, <3>2, <3>3
  <2> QED BY <2>1, <2>2
<1>5. ASSUME NEW n PROVE GlobalSaid(parsed.globals, n, Reached(<<"global", n>>)')
  <2>1. GlobalSaid(parsed.globals, n, at)
    <3>1. GlobalSaid(parsed.globals, n, Reached(<<"global", n>>))
      BY Zenon DEF Said
    <3>2. Reached(<<"global", n>>) = at
      BY <1>3
    <3> QED BY <3>1, <3>2, Zenon
  <2>2. <<"global", n>> \notin KeysOf(tree[at + 1]) => n \notin DOMAIN tree[at + 1].globals
    BY DEF KeysOf
  <2> QED BY <1>1, <1>2, <1>4, <2>1, <2>2, NothingSaid
<1>6. ASSUME NEW n PROVE GroupSaid(parsed.groups, n, Reached(<<"group", n>>)')
  <2>1. GroupSaid(parsed.groups, n, at)
    <3>1. GroupSaid(parsed.groups, n, Reached(<<"group", n>>))
      BY Zenon DEF Said
    <3>2. Reached(<<"group", n>>) = at
      BY <1>3
    <3> QED BY <3>1, <3>2, Zenon
  <2>2. <<"group", n>> \notin KeysOf(tree[at + 1]) => n \notin DOMAIN tree[at + 1].groups
    BY DEF KeysOf
  <2> QED BY <1>1, <1>2, <1>4, <2>1, <2>2, NothingSaid
<1>7. parsed' = parsed /\ tree' = tree /\ parsed' = [globals |-> parsed'.globals, groups |-> parsed'.groups]
  BY DEF Said
<1> QED BY <1>5, <1>6, <1>7, SaidPrime

(* It parses a key. *)
LEMMA ReachedKey ==
  ASSUME Parsing, NEW key \in left, left' = left \ {key}, UNCHANGED <<tree, at>>
  PROVE  /\ at \in Nat /\ at - 1 \in Nat /\ at \in DOMAIN tree /\ key \in KeysOf(tree[at])
         /\ Reached(key) = at - 1 /\ Reached(key)' = at
         /\ \A k : k # key => Reached(k)' = Reached(k)
<1>1. PICK N \in Nat : N = Len(tree) /\ DOMAIN tree = 1 .. N
  BY TreeIs DEF Parsing
<1>2. at \in 1 .. N /\ key \in KeysOf(tree[at])
  BY <1>1 DEF Parsing
<1> QED BY <1>1, <1>2 DEF Reached

LEMMA ParseSaid ==
  ASSUME Said, Parsing, NEW n, ParseGlobal(n) \/ ParseGroup(n)
  PROVE  Said'
<1>1. tree \in Trees
  BY DEF Parsing
<1>2. CASE ParseGlobal(n)
  <2> DEFINE key == <<"global", n>>
  <2>1. /\ key \in left /\ left' = left \ {key} /\ UNCHANGED <<tree, at>>
        /\ parsed' = [parsed EXCEPT !.globals = Put(parsed.globals, n, tree[at].globals[n])]
    BY <1>2, Zenon DEF ParseGlobal, Said
  <2>2. /\ parsed'.globals = Put(parsed.globals, n, tree[at].globals[n])
        /\ parsed'.groups = parsed.groups
        /\ parsed' = [globals |-> parsed'.globals, groups |-> parsed'.groups]
    <3>1. PICK g : g = Put(parsed.globals, n, tree[at].globals[n])
      OBVIOUS
    <3> QED BY <2>1, <3>1 DEF Said
  <2>3. /\ at \in Nat /\ at - 1 \in Nat /\ at \in DOMAIN tree /\ key \in KeysOf(tree[at])
        /\ Reached(key)' = at /\ \A k : k # key => Reached(k)' = Reached(k)
    BY <2>1, ReachedKey
  <2>4. n \in DOMAIN tree[at].globals
    BY <2>3 DEF KeysOf
  <2>5. ASSUME NEW k PROVE GlobalSaid(parsed'.globals, k, Reached(<<"global", k>>)')
    <3>1. CASE k = n
      <4>1. PICK m \in Nat : m + 1 = at
        BY <2>3
      <4>2. GlobalSaid(Put(parsed.globals, n, tree[m + 1].globals[n]), n, m + 1)
        BY <2>4, <4>1, GlobalMore
      <4> QED BY <2>2, <2>3, <3>1, <4>1, <4>2
    <3>2. CASE k # n
      <4>1. <<"global", k>> # key
        BY <3>2
      <4>2. GlobalSaid(parsed.globals, k, Reached(<<"global", k>>)')
        BY <2>3, <4>1 DEF Said
      <4> QED BY <2>2, <3>2, <4>2, PutOther
    <3> QED BY <3>1, <3>2
  <2>6. ASSUME NEW k PROVE GroupSaid(parsed'.groups, k, Reached(<<"group", k>>)')
    BY <2>2, <2>3 DEF Said
  <2> HIDE DEF key
  <2> QED BY <2>1, <2>2, <2>5, <2>6, SaidPrime
<1>3. CASE ParseGroup(n)
  <2> DEFINE key == <<"group", n>>
             groups == parsed.groups
             before == IF n \in DOMAIN groups THEN groups[n] ELSE [Local |-> <<>>, Global |-> <<>>]
             new == Put(groups, n, AddItems(before, tree[at].groups[n]))
  <2>1. /\ key \in left /\ left' = left \ {key} /\ UNCHANGED <<tree, at>>
        /\ parsed' = [parsed EXCEPT !.groups = new]
    BY <1>3, Zenon DEF ParseGroup
  <2>2. /\ parsed'.groups = new /\ parsed'.globals = parsed.globals
        /\ parsed' = [globals |-> parsed'.globals, groups |-> parsed'.groups]
    <3> HIDE DEF new
    <3> QED BY <2>1 DEF Said
  <2>3. /\ at \in Nat /\ at - 1 \in Nat /\ at \in DOMAIN tree /\ key \in KeysOf(tree[at])
        /\ Reached(key) = at - 1 /\ Reached(key)' = at
        /\ \A k : k # key => Reached(k)' = Reached(k)
    BY <2>1, ReachedKey
  <2>4. n \in DOMAIN tree[at].groups
    BY <2>3 DEF KeysOf
  <2>5. ASSUME NEW k PROVE GroupSaid(parsed'.groups, k, Reached(<<"group", k>>)')
    <3>1. CASE k = n
      <4>1. PICK m \in Nat : m + 1 = at /\ m = at - 1
        BY <2>3
      <4>2. GroupSaid(groups, n, m)
        BY <2>3, <4>1 DEF Said
      <4>3. PICK b : b = before
        OBVIOUS
      <4>4. GroupSaid(Put(groups, n, AddItems(b, tree[m + 1].groups[n])), n, m + 1)
        BY <1>1, <2>3, <2>4, <4>1, <4>2, <4>3, GroupMore
      <4> QED BY <2>2, <2>3, <3>1, <4>1, <4>3, <4>4
    <3>2. CASE k # n
      <4>1. <<"group", k>> # key
        BY <3>2
      <4>2. GroupSaid(groups, k, Reached(<<"group", k>>)')
        BY <2>3, <4>1 DEF Said
      <4> HIDE DEF before
      <4> QED BY <2>2, <3>2, <4>2, PutOther
    <3> QED BY <3>1, <3>2
  <2>6. ASSUME NEW k PROVE GlobalSaid(parsed'.globals, k, Reached(<<"global", k>>)')
    BY <2>2, <2>3 DEF Said
  <2> HIDE DEF key, new
  <2> QED BY <2>1, <2>2, <2>5, <2>6, SaidPrime
<1> QED BY <1>2, <1>3

-----------------------------------------------------------------------------
(* What a request finds. *)

LEMMA MaxIs ==
  ASSUME NEW S, S \subseteq Int, NEW i \in S, \A j \in S : j <= i PROVE Max(S) = i
<1>1. \A k \in S : (\A j \in S : k >= j) => k = i
  OBVIOUS
<1>2. \A j \in S : i >= j
  OBVIOUS
<1> QED BY <1>1, <1>2 DEF Max

(* At the end, what has been parsed says what all files say. *)
LEMMA AllGlobals ==
  ASSUME Said, Parsing, Parsed
  PROVE  /\ DOMAIN parsed.globals = Globals /\ Globals \subseteq Names
         /\ \A n \in Globals : parsed.globals[n] = tree[Max(Defining(n))].globals[n]
<1>1. PICK N \in Nat : N = Len(tree) /\ DOMAIN tree = 1 .. N
  BY TreeIs DEF Parsing
<1>2. left = {} /\ at > N
  BY <1>1 DEF Parsing, Parsed
<1>3. \A n : GlobalSaid(parsed.globals, n, N)
  BY <1>1, <1>2 DEF Said, Reached
<1>4. \A n : Definers(n, N) = Defining(n) /\ Defining(n) \subseteq Int
  BY <1>1 DEF Definers, Defining
<1>5. \A n : n \in Globals <=> Defining(n) # {}
  BY DEF Globals, Defining
<1>6. \A n : n \in DOMAIN parsed.globals <=> n \in Globals
  BY <1>3, <1>4, <1>5 DEF GlobalSaid
<1>7. ASSUME NEW n \in Globals PROVE parsed.globals[n] = tree[Max(Defining(n))].globals[n]
  <2>1. PICK i \in Defining(n) : (\A j \in Defining(n) : j <= i) /\ parsed.globals[n] = tree[i].globals[n]
    BY <1>3, <1>4, <1>6 DEF GlobalSaid
  <2>2. Max(Defining(n)) = i
    BY <1>4, <2>1, MaxIs
  <2> QED BY <2>1, <2>2
<1>8. Globals \subseteq Names
  BY TreeIs DEF Parsing, Globals, IsFile
<1> QED BY <1>6, <1>7, <1>8

LEMMA AllGroups ==
  ASSUME Said, Parsing, Parsed
  PROVE  /\ DOMAIN parsed.groups = Groups
         /\ \A n \in Groups : Holds(parsed.groups[n], ItemsOf(n))
<1>1. PICK N \in Nat : N = Len(tree) /\ DOMAIN tree = 1 .. N /\ tree \in Trees
  BY TreeIs DEF Parsing
<1>2. left = {} /\ at > N
  BY <1>1 DEF Parsing, Parsed
<1>3. \A n : GroupSaid(parsed.groups, n, N)
  BY <1>1, <1>2 DEF Said, Reached
<1>4. \A n : n \in DOMAIN parsed.groups <=> n \in Groups
  BY <1>1, <1>3 DEF GroupSaid, Groups
<1> QED BY <1>1, <1>3, <1>4, ItemsToEnds DEF GroupSaid

(* The items of a group are pointers and local values of names. *)
LEMMA ItemsOfIs ==
  ASSUME tree \in Trees, NEW n
  PROVE  /\ DOMAIN ItemsOf(n) \subseteq Int
         /\ \A k : Locals(ItemsOf(n), k) # {} => k \in Names
<1> DEFINE T == AllItems(n)
<1>1. ItemsOf(n) \in Seq(T)
  <2>1. CASE Len(tree) = 0
    <3>1. ItemsOf(n) = <<>>
      BY <2>1, ItemsToEnds
    <3> QED BY <3>1
  <2>2. CASE Len(tree) # 0
    <3>1. PICK m \in Nat : m + 1 = Len(tree) /\ m + 1 \in DOMAIN tree
      <4>1. Len(tree) - 1 \in Nat /\ Len(tree) - 1 + 1 = Len(tree) /\ Len(tree) \in DOMAIN tree
        BY <2>2, TreeIs
      <4> QED BY <4>1
    <3>2. PICK s \in Seq(T) : s = ItemsTo(n, m)
      BY <3>1, ItemsToStep
    <3>3. PICK t \in Seq(T) : t = FileItems(n, m + 1)
      BY <3>1, FileItemsIs
    <3>4. ItemsTo(n, m + 1) = s \o t
      BY <3>1, <3>2, <3>3, ItemsToStep
    <3>5. s \o t \in Seq(T)
      OBVIOUS
    <3> QED BY <3>1, <3>4, <3>5, ItemsToEnds
  <2> QED BY <2>1, <2>2
<1>2. PICK items \in Seq(T) : items = ItemsOf(n)
  BY <1>1
<1>3. DOMAIN items \subseteq Int /\ \A i \in DOMAIN items : items[i] \in T
  OBVIOUS
<1>4. ASSUME NEW k, NEW i \in Locals(items, k) PROVE k \in Names
  <2>1. i \in DOMAIN items /\ items[i].kind = "locals" /\ k \in DOMAIN items[i].of
    BY DEF Locals
  <2>2. IsItem(items[i])
    BY <1>3, <2>1, FileItemsIs
  <2> QED BY <2>1, <2>2 DEF IsItem
<1> QED BY <1>2, <1>3, <1>4

(* What a group has, and its value. *)
LEMMA CombinedIs ==
  ASSUME Said, Parsing, Parsed, NEW n \in Groups
  PROVE  /\ DOMAIN Combined(n) =
              {k \in Names : \/ Locals(ItemsOf(n), k) # {}
                             \/ k \in Globals /\ Pointers(ItemsOf(n), k) # {}}
         /\ \A k \in DOMAIN Combined(n) :
              Combined(n)[k] = IF Locals(ItemsOf(n), k) # {}
                               THEN ItemsOf(n)[Max(Locals(ItemsOf(n), k))].of[k]
                               ELSE tree[Max(Defining(k))].globals[k]
<1>1. PICK g : g = parsed.groups[n] /\ Holds(g, ItemsOf(n))
  BY AllGroups
<1>2. PICK G : G = [k \in ToSet(g.Global) \cap DOMAIN parsed.globals |-> parsed.globals[k]]
  OBVIOUS
<1>3. Combined(n) = Over(g.Local, G)
  BY <1>1, <1>2 DEF Combined
<1>4. /\ DOMAIN Combined(n) = DOMAIN g.Local \cup DOMAIN G
      /\ \A k \in DOMAIN Combined(n) :
           Combined(n)[k] = IF k \in DOMAIN g.Local THEN g.Local[k] ELSE G[k]
  BY <1>3 DEF Over
<1>5. \A k : k \in DOMAIN g.Local <=> Locals(ItemsOf(n), k) # {}
  BY <1>1 DEF Holds
<1>6. \A k : k \in DOMAIN G <=> k \in Globals /\ Pointers(ItemsOf(n), k) # {}
  BY <1>1, <1>2, AllGlobals DEF Holds
<1>7. \A k \in DOMAIN G : G[k] = tree[Max(Defining(k))].globals[k]
  BY <1>2, <1>6, AllGlobals
<1>8. \A k \in DOMAIN Combined(n) : k \in Names
  BY <1>4, <1>5, <1>6, AllGlobals, ItemsOfIs DEF Parsing
<1>9. ASSUME NEW k \in DOMAIN g.Local
      PROVE  g.Local[k] = ItemsOf(n)[Max(Locals(ItemsOf(n), k))].of[k]
  <2>1. PICK i \in Locals(ItemsOf(n), k) :
          (\A j \in Locals(ItemsOf(n), k) : j <= i) /\ g.Local[k] = ItemsOf(n)[i].of[k]
    BY <1>1 DEF Holds
  <2>2. Locals(ItemsOf(n), k) \subseteq Int
    BY ItemsOfIs DEF Locals, Parsing
  <2>3. Max(Locals(ItemsOf(n), k)) = i
    BY <2>1, <2>2, MaxIs
  <2> QED BY <2>1, <2>3
<1>10. \A k : k \in DOMAIN Combined(n) <=>
           k \in Names /\ \/ Locals(ItemsOf(n), k) # {}
                          \/ k \in Globals /\ Pointers(ItemsOf(n), k) # {}
  BY <1>4, <1>5, <1>6, <1>8
<1>11. \A k \in DOMAIN Combined(n) :
         Combined(n)[k] = IF Locals(ItemsOf(n), k) # {}
                          THEN ItemsOf(n)[Max(Locals(ItemsOf(n), k))].of[k]
                          ELSE tree[Max(Defining(k))].globals[k]
  BY <1>4, <1>5, <1>7, <1>9
<1> QED BY <1>10, <1>11

(* What is read is what is documented. *)
LEMMA AnswerIs ==
  ASSUME Said, Parsing, Parsed, backend \in Backends, NEW ask
  PROVE  Answer(ask) = [c \in DocumentedCells(ask) |-> DocumentedValue(c)]
<1>1. backend \in {"redis", "etcd"}
  BY AnswerAssumption
<1> DEFINE groups == ToSet(ask.groups) \cap DOMAIN parsed.groups
           named == IF backend = "redis" THEN ToSet(ask.groups) ELSE groups
           globals == (ToSet(ask.globals) \cap DOMAIN parsed.globals) \ named
           ofGroups == UNION {{<<n, k>> : k \in DOMAIN Combined(n)} : n \in groups}
           cells == ofGroups \cup {<<k>> : k \in globals}
           value(c) == IF Len(c) = 1 THEN parsed.globals[c[1]] ELSE Combined(c[1])[c[2]]
           said(n, k) == \/ Locals(ItemsOf(n), k) # {}
                         \/ k \in Globals /\ Pointers(ItemsOf(n), k) # {}
           hidden == IF backend = "etcd" THEN Groups \cap ToSet(ask.groups) ELSE ToSet(ask.groups)
           docGroups == {c \in (Groups \cap ToSet(ask.groups)) \X Names : said(c[1], c[2])}
           docGlobals == {<<k>> : k \in (Globals \cap ToSet(ask.globals)) \ hidden}
<1>2. Answer(ask) = [c \in cells |-> value(c)]
  BY Zenon DEF Answer
<1>3. DocumentedCells(ask) = docGroups \cup docGlobals
  BY Zenon DEF DocumentedCells
<1>4. groups = Groups \cap ToSet(ask.groups) /\ groups \subseteq Groups
  BY AllGroups
<1>5. named = hidden
  BY <1>1, <1>4
<1>6. globals = (Globals \cap ToSet(ask.globals)) \ hidden /\ globals \subseteq Globals
  BY <1>5, AllGlobals
<1> HIDE DEF groups, named, hidden, globals
<1>7. \A n \in groups : \A k : k \in DOMAIN Combined(n) <=> k \in Names /\ said(n, k)
  BY <1>4, CombinedIs
<1>8. \A c : c \in ofGroups <=> \E n \in groups, k \in Names : said(n, k) /\ c = <<n, k>>
  BY <1>7
<1>9. \A c : c \in docGroups <=> \E n \in groups, k \in Names : said(n, k) /\ c = <<n, k>>
  BY <1>4
<1>10. ofGroups = docGroups
  BY <1>8, <1>9, Zenon
<1>11. cells = DocumentedCells(ask)
  BY <1>3, <1>6, <1>10
<1>12. ASSUME NEW c \in cells PROVE value(c) = DocumentedValue(c)
  <2>1. CASE c \in ofGroups
    <3>1. PICK n \in groups : \E k \in DOMAIN Combined(n) : c = <<n, k>>
      BY <2>1
    <3>2. PICK k \in DOMAIN Combined(n) : c = <<n, k>>
      BY <3>1
    <3>3. Len(c) = 2 /\ c[1] = n /\ c[2] = k /\ c[Len(c)] = k
      BY <3>2
    <3>4. value(c) = Combined(n)[k]
      BY <3>3
    <3>5. Combined(n)[k] = IF Locals(ItemsOf(n), k) # {}
                           THEN ItemsOf(n)[Max(Locals(ItemsOf(n), k))].of[k]
                           ELSE tree[Max(Defining(k))].globals[k]
      BY <1>4, <3>2, CombinedIs
    <3>6. DocumentedValue(c) = IF Locals(ItemsOf(n), k) # {}
                               THEN ItemsOf(n)[Max(Locals(ItemsOf(n), k))].of[k]
                               ELSE tree[Max(Defining(k))].globals[k]
      BY <3>3 DEF DocumentedValue
    <3> HIDE DEF value
    <3> QED BY <3>4, <3>5, <3>6
  <2>2. CASE c \notin ofGroups
    <3>1. PICK k \in globals : c = <<k>>
      BY <2>2
    <3>2. Len(c) = 1 /\ c[1] = k /\ c[Len(c)] = k
      BY <3>1
    <3>3. value(c) = parsed.globals[k]
      BY <3>2
    <3>4. parsed.globals[k] = tree[Max(Defining(k))].globals[k]
      BY <1>6, AllGlobals
    <3>5. DocumentedValue(c) = tree[Max(Defining(k))].globals[k]
      BY <3>2 DEF DocumentedValue
    <3> HIDE DEF value
    <3> QED BY <3>3, <3>4, <3>5
  <2> QED BY <2>1, <2>2
<1> HIDE DEF cells, value
<1> QED BY <1>2, <1>11, <1>12

(* The leaves of the cells and their values. *)
Found(cells) == [l \in Leaves(cells) |-> cells[l[1]][l[2]]]

(* What a request that reads the configuration should find. *)
Documented(ask) == Found([c \in DocumentedCells(ask) |-> DocumentedValue(c)])

Reading ==
  /\ backend \in Backends
  /\ ~At("idle") => Parsed
  /\ At("insert") \/ At("answered") => request.found = Documented(request.ask)

LEMMA DocumentedSame ==
  ASSUME UNCHANGED <<tree, backend>>, NEW ask PROVE Documented(ask)' = Documented(ask)
<1>1. DocumentedCells(ask)' = DocumentedCells(ask)
  BY DEF DocumentedCells, Groups, Globals, ItemsOf
<1>2. \A c : DocumentedValue(c)' = DocumentedValue(c)
  BY DEF DocumentedValue, Defining, ItemsOf
<1>3. [c \in DocumentedCells(ask) |-> DocumentedValue(c)]' = [c \in DocumentedCells(ask) |-> DocumentedValue(c)]
  BY <1>1, <1>2
<1> QED BY <1>3 DEF Documented, Found, Leaves

(* The parser runs when no request does, and each of its steps says more. *)
LEMMA ParserReads ==
  ASSUME Inv, TypeInv, Said, Reading,
         \/ ExtractConfigList \/ NextFile
         \/ \E k \in left : ParseGlobal(k[2]) \/ ParseGroup(k[2])
  PROVE  Said' /\ Reading'
<1>1. PICK N \in Nat : N = Len(tree) /\ DOMAIN tree = 1 .. N /\ (tree = <<>> <=> N = 0)
  BY TreeIs DEF TypeInv, Parsing
<1>2. /\ at \in 0 .. N + 1 /\ (left # {} => at \in 1 .. N)
  BY <1>1 DEF TypeInv, Parsing
<1>3. ~Parsed
  <2>1. left # {} => ~Parsed
    BY <1>1, <1>2 DEF Parsed
  <2>2. ExtractConfigList => ~Parsed
    BY <1>1 DEF ExtractConfigList, Extracting, Parsed
  <2> QED BY <2>1, <2>2 DEF NextFile
<1>4. At("idle") /\ UNCHANGED <<backend, tree, request>>
  BY <1>3 DEF Reading, ExtractConfigList, NextFile, ParseGlobal, ParseGroup
<1>5. Reading'
  BY <1>4 DEF Reading, At
<1>6. CASE ExtractConfigList \/ NextFile
  <2>1. /\ left = {} /\ at <= Len(tree) /\ at' = at + 1 /\ UNCHANGED <<tree, parsed>>
        /\ left' = IF at = Len(tree) THEN {} ELSE KeysOf(tree[at + 1])
    <3>1. CASE ExtractConfigList
      BY <1>1, <1>2, <3>1 DEF ExtractConfigList, Extracting
    <3>2. CASE NextFile
      BY <1>1, <1>2, <3>2 DEF NextFile, Parsed
    <3> QED BY <1>6, <3>1, <3>2
  <2>2. Said'
    BY <2>1, AdvanceSaid DEF TypeInv
  <2> QED BY <1>5, <2>2
<1>7. CASE \E k \in left : ParseGlobal(k[2]) \/ ParseGroup(k[2])
  BY <1>5, <1>7, ParseSaid DEF TypeInv
<1> QED BY <1>6, <1>7

(* Requests, and what is stored as secrets, leave what was parsed. *)
LEMMA SaidSame ==
  ASSUME Said, UNCHANGED <<tree, at, left, parsed>> PROVE Said'
<1>1. \A key : Reached(key)' = Reached(key)
  BY DEF Reached
<1> QED BY <1>1, SaidPrime DEF Said

LEMMA RequestReads ==
  ASSUME Inv, TypeInv, Said, Reading, UNCHANGED <<backend, tree, at, left, parsed>>,
         \/ request'.pc = "idle"
         \/ Parsed /\ request'.pc = "read"
         \/ /\ At("insert") \/ At("answered")
            /\ request'.pc \in {"insert", "answered"}
            /\ request'.found = request.found /\ request'.ask = request.ask
         \/ At("read") /\ ReadConfig
         \/ UNCHANGED request
  PROVE  Said' /\ Reading'
<1>1. Said' /\ backend' \in Backends /\ (Parsed' <=> Parsed)
  BY SaidSame DEF Reading, Parsed
<1>2. \A ask : Documented(ask)' = Documented(ask)
  BY DocumentedSame
<1>3. CASE request'.pc = "idle"
  BY <1>1, <1>3 DEF Reading, At
<1>4. CASE Parsed /\ request'.pc = "read"
  BY <1>1, <1>4 DEF Reading, At
<1>5. CASE /\ At("insert") \/ At("answered")
           /\ request'.pc \in {"insert", "answered"}
           /\ request'.found = request.found /\ request'.ask = request.ask
  <2>1. Parsed /\ request.found = Documented(request.ask)
    BY <1>5 DEF Reading, At
  <2>2. PICK ask : ask = request.ask /\ ask = request'.ask
    BY <1>5
  <2>3. request'.found = Documented(ask)'
    BY <1>2, <1>5, <2>1, <2>2
  <2> QED BY <1>1, <2>1, <2>2, <2>3 DEF Reading, At
<1>6. CASE At("read") /\ ReadConfig
  <2>1. Parsed
    BY <1>6 DEF Reading, At
  <2>2. PICK ask : ask = request.ask
    OBVIOUS
  <2>3. PICK value : value = [c \in DocumentedCells(ask) |-> DocumentedValue(c)]
    OBVIOUS
  <2>4. Answer(ask) = value
    BY <2>1, <2>3, AnswerIs DEF Reading, TypeInv
  <2>5. PICK found : found = Found(value)
    OBVIOUS
  <2>6. \E todo :
          request' = [pc |-> "insert", perms |-> request.perms, env |-> request.env,
                      ask |-> request.ask, found |-> found, shown |-> found, todo |-> todo,
                      seen |-> {secrets[request.env]}]
    BY <1>6, <2>2, <2>4, <2>5, Zenon DEF ReadConfig, Found
  <2>7. request'.found = found /\ request'.ask = ask /\ request'.pc = "insert"
    BY <2>2, <2>6
  <2>8. found = Documented(ask)
    BY <2>3, <2>5 DEF Documented
  <2>9. request'.found = Documented(ask)'
    BY <1>2, <2>7, <2>8
  <2> QED BY <1>1, <2>1, <2>7, <2>9 DEF Reading, At
<1>7. CASE UNCHANGED request
  <2>1. PICK ask : ask = request.ask /\ ask = request'.ask
    BY <1>7
  <2>2. At("insert") \/ At("answered") => request'.found = Documented(ask)'
    BY <1>2, <1>7, <2>1 DEF Reading
  <2> QED BY <1>1, <1>7, <2>1, <2>2 DEF Reading, At
<1> QED BY <1>3, <1>4, <1>5, <1>6, <1>7

LEMMA ReadingStep ==
  ASSUME Inv, TypeInv, Said, Reading, [Next]_vars PROVE Said' /\ Reading'
<1>1. ASSUME At("insert"), NEW pc \in {"insert", "answered"}, NEW todo, NEW shown, NEW seen,
             request' = [request EXCEPT !.pc = pc, !.todo = todo, !.shown = shown, !.seen = seen]
      PROVE  /\ request'.pc \in {"insert", "answered"}
             /\ request'.found = request.found /\ request'.ask = request.ask
  <2>1. PICK i : i = request /\ IsRequest(i)
    BY <1>1 DEF Inv, Inserting
  <2> QED BY <1>1, <2>1 DEF IsRequest
<1>2. ASSUME At("insert")
      PROVE  IsRequest(request) /\ request.pc = "insert"
  BY <1>2 DEF Inv, Inserting, At
<1>3. ASSUME NEW e \in Envs, NEW batch \in Batches, UpsertSecrets(e, batch) PROVE Said' /\ Reading'
  <2>1. UNCHANGED <<backend, tree, at, left, parsed>>
    BY <1>3 DEF UpsertSecrets
  <2>2. CASE At("insert") /\ request.env = e
    <3>1. PICK seen : request' = [request EXCEPT !.seen = seen]
      BY <1>3, <2>2 DEF UpsertSecrets
    <3>2. /\ request'.pc = "insert"
          /\ request'.found = request.found /\ request'.ask = request.ask
      BY <1>2, <2>2, <3>1 DEF IsRequest
    <3> QED BY <2>1, <2>2, <3>2, RequestReads
  <2>3. CASE ~(At("insert") /\ request.env = e)
    BY <1>3, <2>1, <2>3, RequestReads DEF UpsertSecrets
  <2> QED BY <2>2, <2>3
<1>4. ASSUME NEW p \in Profiles, NEW e \in Envs, NEW ask \in Asks, Ask(p, e, ask)
      PROVE  Said' /\ Reading'
  BY <1>4, RequestReads DEF Ask
<1>5. CASE ReadConfig
  BY <1>5, RequestReads DEF ReadConfig
<1>6. CASE HideSecrets
  <2>1. \E todo, shown : request' = [request EXCEPT !.pc = "answered", !.todo = todo, !.shown = shown]
    BY <1>6, Zenon DEF HideSecrets
  <2>2. /\ request'.pc = "answered"
        /\ request'.found = request.found /\ request'.ask = request.ask
    BY <1>2, <1>6, <2>1 DEF IsRequest, HideSecrets
  <2> QED BY <1>6, <2>2, RequestReads DEF HideSecrets
<1>7. CASE Inserted
  <2>1. request' = [request EXCEPT !.pc = "answered"]
    BY <1>7 DEF Inserted
  <2>2. /\ request'.pc = "answered"
        /\ request'.found = request.found /\ request'.ask = request.ask
    BY <1>2, <1>7, <2>1 DEF IsRequest, Inserted
  <2> QED BY <1>7, <2>2, RequestReads DEF Inserted
<1>8. ASSUME At("insert"), NEW l \in request.todo, InsertSecret(l) PROVE Said' /\ Reading'
  <2>1. request' = Idle \/ \E todo, shown : request' = [request EXCEPT !.todo = todo, !.shown = shown]
    BY <1>8, Zenon DEF InsertSecret
  <2>2. CASE request' = Idle
    <3>1. request'.pc = "idle"
      BY <2>2 DEF Idle
    <3> QED BY <1>8, <3>1, RequestReads DEF InsertSecret
  <2>3. CASE \E todo, shown : request' = [request EXCEPT !.todo = todo, !.shown = shown]
    <3>1. PICK todo, shown : request' = [request EXCEPT !.todo = todo, !.shown = shown]
      BY <2>3
    <3>2. /\ request'.pc = "insert"
          /\ request'.found = request.found /\ request'.ask = request.ask
      BY <1>2, <1>8, <3>1 DEF IsRequest
    <3> QED BY <1>8, <3>2, RequestReads DEF InsertSecret
  <2> QED BY <2>1, <2>2, <2>3
<1>9. CASE End
  BY <1>9, RequestReads DEF End, Idle
<1>10. CASE UNCHANGED vars
  BY <1>10, RequestReads DEF vars
<1> QED
  BY <1>3, <1>4, <1>5, <1>6, <1>7, <1>8, <1>9, <1>10, ParserReads DEF Next

LEMMA ReadingInit == Init => Reading
BY DEF Init, Reading, At, Idle

(* What has been parsed is what the files say as far as the parser is, and *)
(* what a request found is what they say of what it asks for.              *)
THEOREM ReadInvariance == Spec => [](Said /\ Reading)
BY InvInit, InvStep, TypeInit, TypeStep, SaidInit, ReadingInit, ReadingStep, PTL DEF Spec

(* A request finds what the files say of what it asks for; for any files,  *)
(* names and orders in which the keys of a file are parsed.                *)
THEOREM AlwaysDocumented == Spec => []AnswerIsDocumented
<1>1. Reading => AnswerIsDocumented
  BY Zenon DEF Reading, Documented, Found, AnswerIsDocumented
<1> QED BY <1>1, ReadInvariance, PTL

=============================================================================
