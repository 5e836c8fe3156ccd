------------------------------ MODULE RedisConfig ------------------------------
(***************************************************************************)
(* Configurations in redis: the poller's upserts, reads, clones and        *)
(* deletions of clones.                                                    *)
(*                                                                         *)
(* A key has the segments <<repo, env, kind, name>>.  A deletion by        *)
(* pattern names two consecutive segments that the repo does not come      *)
(* before, so that the deletion of <repo>:<env> finds no key at all, and   *)
(* only the one a failed clone cleans up with, <env>:*, does.  An upsert   *)
(* therefore writes over what there is, in one transaction.                *)
(***************************************************************************)
EXTENDS ConfigKeys

CONSTANTS
  Repo, Star,  \* the name of the repository; the segment "*"
  Magic,      \* environments whose name, as a Lua pattern, is not itself ("-")
  Targets,    \* the names clients give to clones
  Secrets,    \* names of secrets
  Readers, Cloners, Deleters,  \* requests in progress
  Requests,   \* the <<groups, globals>> a read may ask for
  Overrides,  \* the sets of globals a clone request may set (updateGlobals)
  Top,        \* the holder of the globals a read asks for itself
  None,       \* nobody holds the lock; no metadata record; no lookup
  MaxFaults   \* bound: failed calls and crashes in a behaviour

ASSUME RedisAssumption ==
  /\ Repo \notin Envs /\ Star \notin Envs
  /\ Magic \subseteq Envs /\ Targets \subseteq Envs
  /\ Requests \subseteq (SUBSET Groups) \X (SUBSET Globals)
  /\ Overrides \subseteq SUBSET Globals
  /\ Top \notin Groups
  /\ None \notin Envs \cup Cloners
  /\ MaxFaults \in Nat

VARIABLES
  kv,       \* redis: [Keys -> Values or Missing]
  secrets,  \* redis: the secrets an environment has
  meta,     \* redis: the original in e's metadata record (reserved: e itself)
  lock,     \* redis: environments with the lock key of an upsert
  upc, uenv, uver,  \* the poller: its next call; environment and version
  floor,    \* history: the version of the last upsert that succeeded, 0 if none
  read,     \* reader: see NoRead
  mux,      \* the request that holds gitrepo.Mux
  clone,    \* cloner: see NoClone
  dpc, denv, \* deleter: its next call; the environment to delete
  faults    \* counter of failures, bounded by MaxFaults

redis   == <<kv, secrets, meta, lock>>
poller  == <<upc, uenv, uver, floor>>
cloner  == <<mux, clone>>
deleter == <<dpc, denv>>
vars    == <<redis, poller, read, cloner, deleter, faults>>

NoRead ==
  [pc |-> "idle", env |-> None,
   asked |-> <<{}, {}>>,  \* the request
   todo |-> {},           \* <<holder, name>> still to look up
   at |-> None,           \* the one whose key was found
   got |-> {},            \* <<holder, name, value>> read
   base |-> [k \in {} |-> Missing], floor |-> 0,  \* history: kv, floor when it began
   changed |-> FALSE]     \* history: was the environment written meanwhile?

NoClone ==
  [pc |-> "idle", src |-> None, dst |-> None,
   globs |-> {},          \* the globals to set
   look |-> {},           \* those still to look up
   puts |-> {},           \* those found, still to set
   base |-> [k \in {} |-> Missing], held |-> {}]  \* history: kv, secrets at the scripts

Fail == faults < MaxFaults /\ faults' = faults + 1

(* Every read learns that keys of its environment were written. *)
Touched(db) ==
  [r \in Readers |->
     [read[r] EXCEPT !.changed = @ \/ \E k \in Keys : k[1] = read[r].env /\ db[k] # kv[k]]]

Init ==
  /\ kv = [k \in Keys |-> Missing]
  /\ secrets = [e \in Envs |-> {}]
  /\ meta = [e \in Envs |-> IF e \in Reserved THEN e ELSE None]
  /\ lock = {}
  /\ upc = "idle" /\ uenv \in Reserved /\ uver = 0
  /\ floor = [e \in Reserved |-> 0]
  /\ read = [r \in Readers |-> NoRead]
  /\ mux = None /\ clone = [c \in Cloners |-> NoClone]
  /\ dpc = [d \in Deleters |-> "idle"] /\ denv = [d \in Deleters |-> None]
  /\ faults = 0

(* Mutant: the pattern means what the calls of DeleteConfig mean by it. *)
MutPatternDelete(db, a, b) ==
  [k \in Keys |-> IF <<k[1], b>> = <<a, Star>> \/ <<Repo, k[1]>> = <<a, b>> THEN Missing ELSE db[k]]

(* Mutant: the segment "*" is taken literally. *)
MutLiteralStar(db, a, b) == db

(* DeleteConfig(a, b): the pattern "configleam:config:*:<a>:<b>:*". *)
PatternDelete(db, a, b) ==
  LET kind(k) == IF k[2] \in Groups THEN "group" ELSE "global" IN
  [k \in Keys |-> IF k[1] = a /\ b \in {Star, kind(k)} THEN Missing ELSE db[k]]

-----------------------------------------------------------------------------
(* The poller. *)

(* UpsertConfig sets the lock key, for a second, whoever set it before. *)
SetLock(e, v) ==
  /\ upc = "idle" /\ v >= floor[e]
  /\ \/ /\ upc' = "delete" /\ uenv' = e /\ uver' = v /\ lock' = lock \cup {e}
        /\ UNCHANGED faults
     \/ Fail /\ lock' \in {lock, lock \cup {e}} /\ UNCHANGED <<upc, uenv, uver>>
  /\ UNCHANGED <<kv, secrets, meta, floor, read, cloner, deleter>>

DeleteConfig ==
  /\ upc = "delete"
  /\ LET db == PatternDelete(kv, Repo, uenv) IN
       /\ kv' = db /\ read' = Touched(db)
       /\ \/ upc' = "store" /\ UNCHANGED faults
          \/ Fail /\ upc' = "release"
  /\ UNCHANGED <<secrets, meta, lock, uenv, uver, floor, cloner, deleter>>

(* Mutant: the version is stored under the keys the last one had. *)
MutStoreOverExisting ==
  /\ upc = "store"
  /\ LET new == [k \in Keys |->
                   IF k[1] = uenv /\ k[2] \in Content[uver]
                      /\ (kv[k] # Missing \/ floor[uenv] = 0)
                   THEN <<uenv, uver>> ELSE kv[k]] IN
       /\ kv' = new /\ read' = Touched(new)
       /\ floor' = [floor EXCEPT ![uenv] = uver]
       /\ upc' = "release"
  /\ UNCHANGED <<secrets, meta, lock, uenv, uver, cloner, deleter, faults>>

(* One transaction; when the call fails it may have been executed. *)
StoreConfig ==
  /\ upc = "store"
  /\ LET new == PutVersion(kv, uenv, uver) IN
       \/ /\ kv' = new /\ read' = Touched(new)
          /\ floor' = [floor EXCEPT ![uenv] = uver]
          /\ UNCHANGED faults
       \/ /\ Fail
          /\ \E db \in {kv, new} : kv' = db /\ read' = Touched(db)
          /\ UNCHANGED floor
  /\ upc' = "release"
  /\ UNCHANGED <<secrets, meta, lock, uenv, uver, cloner, deleter>>

(* The deferred Del, whose error nobody looks at. *)
DeleteLock ==
  /\ upc = "release" /\ upc' = "idle"
  /\ \/ lock' = lock \ {uenv} /\ UNCHANGED faults
     \/ Fail /\ UNCHANGED lock
  /\ UNCHANGED <<kv, secrets, meta, uenv, uver, floor, read, cloner, deleter>>

LockExpires(e) ==
  /\ e \in lock /\ lock' = lock \ {e}
  /\ UNCHANGED <<kv, secrets, meta, poller, read, cloner, deleter, faults>>

-----------------------------------------------------------------------------
(* Readers. *)

Reads(r, new) ==
  /\ read' = [read EXCEPT ![r] = new]
  /\ UNCHANGED <<redis, poller, cloner, deleter>>

(* The guard lets only registered environments pass. *)
BeginRead(r, e, req) ==
  /\ read[r].pc \in {"idle", "done"}
  /\ meta[e] # None
  /\ Reads(r, [NoRead EXCEPT !.pc = "lock", !.env = e, !.asked = req,
                 !.todo = {<<h, h>> : h \in req[1]} \cup ({Top} \X req[2]),
                 !.base = kv,
                 !.floor = IF e \in Reserved THEN floor[e] ELSE 0])
  /\ UNCHANGED faults

(* checkLockAndRetry looks for "lock:<env>", a key no call sets. *)
CheckLock(r) ==
  /\ read[r].pc = "lock"
  /\ Reads(r, [read[r] EXCEPT !.pc = "keys"])
  /\ UNCHANGED faults

(* A group's globals come right after it, the requested globals at last. *)
Rank(p) == IF p[1] = Top THEN 3 ELSE IF p[2] \in Groups THEN 2 ELSE 1

(* Keys with the pattern of p: the names of its keys, none or one. *)
FindKey(r, p) ==
  /\ read[r].pc = "keys" /\ p \in read[r].todo
  /\ \A q \in read[r].todo : Rank(p) <= Rank(q)
  /\ LET left == [read[r] EXCEPT !.todo = @ \ {p}] IN
       Reads(r, IF kv[<<read[r].env, p[2]>>] = Missing THEN left
                ELSE [left EXCEPT !.at = p, !.pc = "get"])
  /\ UNCHANGED faults

(* Mutant: the globals of a group are not looked up. *)
MutNoRefs(r) ==
  /\ read[r].pc = "get"
  /\ LET p == read[r].at
         val == kv[<<read[r].env, p[2]>>] IN
       Reads(r, [read[r] EXCEPT !.pc = "keys", !.at = None,
                   !.got = IF val = Missing THEN @ ELSE @ \cup {<<p[1], p[2], val>>}])
  /\ UNCHANGED faults

(* Get of the key: it may be gone, which is no error. *)
GetKey(r) ==
  /\ read[r].pc = "get"
  /\ LET p == read[r].at
         val == kv[<<read[r].env, p[2]>>]
         back == [read[r] EXCEPT !.pc = "keys", !.at = None] IN
       Reads(r, IF val = Missing THEN back
                ELSE [back EXCEPT
                        !.got = @ \cup {<<p[1], p[2], val>>},
                        !.todo = IF p[2] \in Groups THEN @ \cup ({p[1]} \X Refs[p[2]]) ELSE @])
  /\ UNCHANGED faults

AnswerRead(r) ==
  /\ read[r].pc = "keys" /\ read[r].todo = {}
  /\ Reads(r, [read[r] EXCEPT !.pc = "done"])
  /\ UNCHANGED faults

ReadFails(r) ==
  /\ read[r].pc \in {"lock", "keys", "get"}
  /\ Fail
  /\ Reads(r, NoRead)

-----------------------------------------------------------------------------
(* Cloners. *)

Goes(c, place, j) ==
  /\ clone' = [clone EXCEPT ![c] = [j EXCEPT !.pc = place]]
  /\ UNCHANGED mux

(* The handler answers; the deferred Unlock runs. *)
Answers(c, answer) ==
  /\ clone' = [clone EXCEPT ![c] = [NoClone EXCEPT !.pc = answer]]
  /\ mux' = None

BeginClone(c, e, n, G) ==
  /\ clone[c].pc \in {"idle", "ok", "error"}
  /\ meta[e] # None
  /\ IF e \in Reserved
     THEN Goes(c, "lock", [NoClone EXCEPT !.src = e, !.dst = n, !.globs = G, !.look = G])
     ELSE Goes(c, "error", NoClone)
  /\ UNCHANGED <<redis, poller, read, deleter, faults>>

(* Mutant: the lock is not waited for. *)
MutNoMux(c) ==
  /\ clone[c].pc = "lock"
  /\ mux' = c
  /\ clone' = [clone EXCEPT ![c].pc = "script"]
  /\ UNCHANGED <<redis, poller, read, deleter, faults>>

LockMux(c) ==
  /\ clone[c].pc = "lock" /\ mux = None
  /\ mux' = c
  /\ clone' = [clone EXCEPT ![c].pc = "script"]
  /\ UNCHANGED <<redis, poller, read, deleter, faults>>

(* The process ends (log.Fatal, a crash): its requests are gone, and after *)
(* the restart nothing is under way.                                       *)
Exit ==
  /\ upc' = "idle" /\ mux' = None
  /\ read' = [r \in Readers |-> NoRead]
  /\ clone' = [c \in Cloners |-> NoClone]
  /\ dpc' = [d \in Deleters |-> "idle"]
  /\ UNCHANGED <<meta, lock, uenv, uver, floor, denv>>

Writes(db) == kv' = db /\ read' = Touched(db)

(* Mutant: groups only. *)
MutCopyGroups(db, e, n) ==
  [k \in Keys |-> IF k[1] = n /\ k[2] \in Groups /\ db[<<e, k[2]>>] # Missing
                  THEN db[<<e, k[2]>>] ELSE db[k]]

(* The keys of e under the name n: string.gsub takes e as a pattern. *)
Copied(db, e, n) ==
  [k \in Keys |-> IF k[1] = n /\ e \notin Magic /\ db[<<e, k[2]>>] # Missing
                  THEN db[<<e, k[2]>>] ELSE db[k]]

(* A script that is stopped has copied some of the keys. *)
Stopped(db, e, n, some) ==
  [k \in Keys |-> IF k[2] \in some THEN Copied(db, e, n)[k] ELSE db[k]]

(* One script copies all keys of the environment; if the call fails, the   *)
(* copies there are are deleted, if that does not fail too, and the        *)
(* process exits.                                                          *)
RunScript(c) ==
  LET j == clone[c]
      new == Copied(kv, j.src, j.dst) IN
  /\ j.pc = "script"
  /\ \/ /\ Writes(new)
        /\ Goes(c, IF j.globs = {} THEN "secrets" ELSE "keys", [j EXCEPT !.base = kv])
        /\ UNCHANGED <<secrets, meta, lock, poller, deleter, faults>>
     \/ /\ Fail
        /\ \E some \in SUBSET Names :
             LET part == Stopped(kv, j.src, j.dst, some) IN
             kv' \in {part, PatternDelete(part, j.dst, Star)}
        /\ Exit /\ UNCHANGED secrets

(* A failed clone deletes what it copied, and answers with the error even  *)
(* if that fails as well.                                                  *)
Cleanup(c) ==
  /\ \/ faults + 1 <= MaxFaults /\ faults' = faults + 1
        /\ Writes(PatternDelete(kv, clone[c].dst, Star))
     \/ faults + 2 <= MaxFaults /\ faults' = faults + 2
        /\ Writes(kv)
  /\ Answers(c, "error")
  /\ UNCHANGED <<secrets, meta, lock, poller, deleter>>

(* The globals of the request are looked up in the original. *)
FindGlobal(c) ==
  LET j == clone[c] IN
  /\ j.pc = "keys"
  /\ IF j.look = {} THEN Goes(c, "puts", j)
     ELSE \E n \in j.look :
            Goes(c, "keys", [j EXCEPT !.look = @ \ {n},
                               !.puts = IF kv[<<j.src, n>>] # Missing THEN @ \cup {n} ELSE @])
  /\ UNCHANGED <<redis, poller, read, deleter, faults>>

(* A pipeline, not a transaction, sets those that were found. *)
PutGlobal(c) ==
  LET j == clone[c] IN
  /\ j.pc = "puts"
  /\ IF j.puts = {} THEN Goes(c, "secrets", j) /\ Writes(kv)
     ELSE \E n \in j.puts : /\ Goes(c, "puts", [j EXCEPT !.puts = @ \ {n}])
                            /\ Writes([kv EXCEPT ![<<j.dst, n>>] = Override])
  /\ UNCHANGED <<secrets, meta, lock, poller, deleter, faults>>

GlobalsFail(c) ==
  /\ clone[c].pc \in {"keys", "puts"}
  /\ Cleanup(c)

(* Some secrets of e are under the name n too. *)
SecretsCopied(e, n, some) ==
  IF e \in Magic THEN secrets ELSE [secrets EXCEPT ![n] = @ \cup some]

(* CloneSecrets is such a script too, and exits as well; its clean-up finds *)
(* no key.                                                                 *)
CopySecrets(c) ==
  LET j == clone[c] IN
  /\ j.pc = "secrets"
  /\ \/ /\ secrets' = SecretsCopied(j.src, j.dst, secrets[j.src])
        /\ Goes(c, "env", [j EXCEPT !.held = secrets[j.src]])
        /\ UNCHANGED <<kv, meta, lock, poller, read, deleter, faults>>
     \/ /\ Fail
        /\ \E some \in SUBSET secrets[j.src] : secrets' = SecretsCopied(j.src, j.dst, some)
        /\ Exit /\ UNCHANGED kv

(* If AddEnv fails the clean-up is the deletion that finds no key. *)
AddEnv(c) ==
  LET j == clone[c]
      added == [meta EXCEPT ![j.dst] = j.src] IN
  /\ j.pc = "env"
  /\ \/ meta' = added /\ Answers(c, "ok") /\ Writes(kv) /\ UNCHANGED faults
     \/ /\ Fail /\ meta' \in {meta, added}
        /\ Writes(PatternDelete(kv, Repo, j.dst))
        /\ Answers(c, "error")
  /\ UNCHANGED <<secrets, lock, poller, deleter>>

UpsertSecrets(e, s) ==
  /\ meta[e] # None
  /\ secrets' = [secrets EXCEPT ![e] = @ \cup {s}]
  /\ UNCHANGED <<kv, meta, lock, poller, read, cloner, deleter, faults>>

-----------------------------------------------------------------------------
(* Deleters. *)

BeginDelete(d, e) ==
  /\ dpc[d] \in {"idle", "ok", "error"}
  /\ meta[e] # None
  /\ dpc' = [dpc EXCEPT ![d] = IF e \in Reserved THEN "error" ELSE "keys"]
  /\ denv' = [denv EXCEPT ![d] = e]
  /\ UNCHANGED <<redis, poller, read, cloner, faults>>

DeleteKeys(d) ==
  /\ dpc[d] = "keys"
  /\ \/ /\ Writes(PatternDelete(kv, Repo, denv[d]))
        /\ dpc' = [dpc EXCEPT ![d] = "env"] /\ UNCHANGED faults
     \/ Fail /\ Writes(kv) /\ dpc' = [dpc EXCEPT ![d] = "error"]
  /\ UNCHANGED <<secrets, meta, lock, poller, cloner, denv>>

(* DeleteEnv reads the record (HGETALL) and leaves it. *)
DeleteEnv(d) ==
  /\ dpc[d] = "env"
  /\ \/ dpc' = [dpc EXCEPT ![d] = "ok"] /\ UNCHANGED faults
     \/ Fail /\ dpc' = [dpc EXCEPT ![d] = "error"]
  /\ UNCHANGED <<redis, poller, read, cloner, denv>>

Crash == Fail /\ Exit /\ UNCHANGED <<kv, secrets>>

Upsert ==
  \/ \E e \in Reserved, v \in Versions : SetLock(e, v)
  \/ DeleteConfig \/ StoreConfig \/ DeleteLock

Next ==
  \/ Upsert
  \/ \E e \in Envs : LockExpires(e)
  \/ \E e \in Envs, s \in Secrets : s \notin secrets[e] /\ UpsertSecrets(e, s)
  \/ \E r \in Readers :
       \/ \E e \in Envs, req \in Requests : BeginRead(r, e, req)
       \/ CheckLock(r) \/ GetKey(r) \/ AnswerRead(r) \/ ReadFails(r)
       \/ \E p \in read[r].todo : FindKey(r, p)
  \/ \E c \in Cloners :
       \/ \E e \in Envs, n \in Targets, G \in Overrides : BeginClone(c, e, n, G)
       \/ LockMux(c) \/ RunScript(c) \/ FindGlobal(c) \/ PutGlobal(c) \/ GlobalsFail(c)
       \/ CopySecrets(c) \/ AddEnv(c)
  \/ \E d \in Deleters :
       \/ \E e \in Envs : BeginDelete(d, e)
       \/ DeleteKeys(d) \/ DeleteEnv(d)
  \/ Crash

Spec == Init /\ [][Next]_vars

-----------------------------------------------------------------------------
(* Properties. *)

(* The shape of the state, and that the lock of clones has one holder, the *)
(* only clone that is under way.                                           *)
TypeOK ==
  /\ kv \in [Keys -> Values \cup {Missing}]
  /\ secrets \in [Envs -> SUBSET Secrets]
  /\ meta \in [Envs -> Envs \cup {None}] /\ lock \subseteq Envs
  /\ upc \in {"idle", "delete", "store", "release"}
  /\ uenv \in Reserved /\ uver \in Versions \cup {0}
  /\ floor \in [Reserved -> Versions \cup {0}]
  /\ \A r \in Readers :
       /\ read[r].pc \in {"idle", "lock", "keys", "get", "done"}
       /\ read[r].pc = "get" => read[r].at \in (Groups \cup {Top}) \X Names
  /\ \A c \in Cloners :
       /\ clone[c].pc \in {"idle", "lock", "script", "keys", "puts", "secrets", "env", "ok", "error"}
       /\ (mux = c) = (clone[c].pc \notin {"idle", "lock", "ok", "error"})
  /\ dpc \in [Deleters -> {"idle", "keys", "env", "ok", "error"}]

(* Once an upsert has succeeded, every name its version defines stays      *)
(* stored, with a value that is not older: no moment of a later upsert,    *)
(* failed or not, no crash and no clone takes it away (storeConfig is one  *)
(* transaction and, with redis, nothing is deleted before it).             *)
LatestStored ==
  \A e \in Reserved : floor[e] > 0 =>
    \A n \in Content[floor[e]] :
      kv[<<e, n>>] # Missing /\ kv[<<e, n>>][1] = e /\ kv[<<e, n>>][2] >= floor[e]

(* A read of an environment of the repository that is answered has every   *)
(* name it asked for that the configuration defined when it began, at a    *)
(* version that is not older, whatever upserts it overlaps, although every *)
(* key is read by a call of its own (ReadConfig).                          *)
ReadMissesNothing ==
  \A r \in Readers :
    LET d == read[r] IN
    d.pc = "done" /\ d.env \in Reserved /\ d.floor > 0 =>
      \A n \in Content[d.floor] \cap (d.asked[1] \cup d.asked[2]) :
        \E a \in d.got : a[2] = n /\ a[3][2] >= d.floor

(* What a read of req in database db answers. *)
View(db, e, req) ==
  LET refs == {p \in req[1] \X Globals : p[2] \in Refs[p[1]] /\ db[<<e, p[1]>>] # Missing}
      wanted == {<<h, h>> : h \in req[1]} \cup refs \cup ({Top} \X req[2])
  IN {<<p[1], p[2], db[<<e, p[2]>>]>> : p \in {q \in wanted : db[<<e, q[2]>>] # Missing}}

(* A read whose environment nobody wrote answers with all of it that was   *)
(* asked for: the groups, the globals they refer to, and the globals.      *)
ReadIsView ==
  \A r \in Readers :
    read[r].pc = "done" /\ ~read[r].changed =>
      read[r].got = View(read[r].base, read[r].env, read[r].asked)

(* A clone that is answered with success has what the original had when    *)
(* the script ran, although upserts and secrets go on meanwhile: every key *)
(* with its value, or the request's where the request sets it, and every   *)
(* secret.                                                                 *)
CloneIsSnapshot ==
  [][\A c \in Cloners : clone[c].pc # "ok" /\ clone'[c].pc = "ok" =>
       LET j == clone[c] IN
       /\ \A n \in Names : j.base[<<j.src, n>>] # Missing =>
            kv'[<<j.dst, n>>] = IF n \in j.globs THEN Override ELSE j.base[<<j.src, n>>]
       /\ j.held \subseteq secrets'[j.dst]]_vars

(* A clone whose globals could not be looked up or set leaves no           *)
(* configuration of that name behind, unless the clean-up failed as well   *)
(* (the clean-up swaps the arguments of DeleteConfig, and so finds keys).  *)
FailedCloneIsGone ==
  [][\A c \in Cloners :
       /\ clone[c].pc \in {"keys", "puts"} /\ clone'[c].pc = "error"
       /\ faults' = faults + 1
       => IsEmpty(kv', clone[c].dst)]_vars

=============================================================================
