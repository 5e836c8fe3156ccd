------------------------------- MODULE CloneEnv -------------------------------
(***************************************************************************)
(* Cloning an environment (POST /config/clone) and deleting a clone        *)
(* (DELETE /config/clone) in etcd, while the poller replaces the original  *)
(* and the secrets change.                                                 *)
(*                                                                         *)
(* A clone copies the configuration and then the secrets, page by page: it *)
(* gets a page of keys, gets every key of the page again, and puts the     *)
(* copies in one transaction.  Then it puts the globals of the request and *)
(* registers the new environment.  Clones of one instance exclude each     *)
(* other (gitrepo.Mux); neither deletions nor the poller take that lock.   *)
(***************************************************************************)
EXTENDS EtcdConfig

CONSTANTS
  Secrets,    \* names of secrets
  Targets,    \* the names clients give to clones
  Order,      \* [Envs \X (Names \cup Secrets) -> Nat]: the order of the keys
  PageSize,   \* WithLimit
  Cloners, Deleters,  \* requests in progress
  Overrides,  \* the sets of globals a request may set (updateGlobals)
  None,       \* nobody holds the lock; no metadata record; no snapshot
  MaxFaults   \* bound: failed calls and crashes in a behaviour

Stages == {"config", "secrets"}
NamesOf(stage) == IF stage = "config" THEN Names ELSE Secrets

ASSUME CloneAssumption ==
  /\ Targets \subseteq Envs
  /\ Order \in [Envs \X (Names \cup Secrets) -> Nat \ {0}]
  /\ \A k, l \in DOMAIN Order : Order[k] = Order[l] => k = l
  /\ PageSize \in Nat \ {0}
  /\ Overrides \subseteq SUBSET Globals
  /\ None \notin Envs \cup Cloners
  /\ MaxFaults \in Nat

VARIABLES
  db,      \* etcd: the configuration and the secrets
  meta,    \* etcd: the Original in e's metadata record (reserved: e itself)
  upc, uenv,  \* the poller: "store" between the delete and the store of uenv
  mux,     \* the request that holds gitrepo.Mux
  cpc,     \* cloner: the call it makes next, or its answer
  job,     \* cloner: what CloneConfig works on, see NoJob
  base,    \* history: db when mux was taken, None when it is free or somebody else wrote
  failed,  \* history: did a call of the holder of mux fail, or was refused?
  dpc, denv,  \* deleter
  faults   \* counter of failures, bounded by MaxFaults

etcd    == <<db, meta>>
poller  == <<upc, uenv>>
cloner  == <<mux, cpc, job, base, failed>>
deleter == <<dpc, denv>>
vars    == <<etcd, poller, cloner, deleter, faults>>

NoJob ==
  [src |-> None, dst |-> None,  \* env and newEnv
   globs |-> {},                \* the globals to set
   stage |-> "config",          \* what is being copied
   cursor |-> 0,                \* the position after the last page
   page |-> {},                 \* keys of the page still to get
   last |-> 0,                  \* the last position of the page, 0 if no page follows
   ops |-> [k \in {} |-> Missing],  \* the puts prepared for the page
   twice |-> FALSE,             \* does one of the keys occur twice in ops?
   lastErr |-> FALSE]

Fail == faults < MaxFaults /\ faults' = faults + 1

Init ==
  /\ \E v \in [Reserved -> Versions] :
       db = [s \in Stages |->
               [k \in Envs \X NamesOf(s) |->
                  IF k[1] \in Reserved /\ (s = "config" => k[2] \in Content[v[k[1]]])
                  THEN <<k[1], v[k[1]]>> ELSE Missing]]
  /\ meta = [e \in Envs |-> IF e \in Reserved THEN e ELSE None]
  /\ upc = "idle" /\ uenv \in Reserved
  /\ mux = None
  /\ cpc = [c \in Cloners |-> "idle"] /\ job = [c \in Cloners |-> NoJob]
  /\ base = None /\ failed = FALSE
  /\ dpc = [d \in Deleters |-> "idle"] /\ denv = [d \in Deleters |-> None]
  /\ faults = 0

-----------------------------------------------------------------------------
(* Cloners. *)

(* The request goes on to its next call, with its job as j. *)
Goes(c, place, j) ==
  /\ cpc' = [cpc EXCEPT ![c] = place]
  /\ job' = [job EXCEPT ![c] = j]
  /\ UNCHANGED <<mux, base>>

(* Mutant: no deferred Unlock: a clone that fails keeps the lock. *)
MutKeepsLock(c, answer) ==
  /\ cpc' = [cpc EXCEPT ![c] = answer]
  /\ job' = [job EXCEPT ![c] = NoJob]
  /\ mux' = IF answer = "ok" THEN None ELSE mux
  /\ base' = None

(* The handler answers; the deferred Unlock runs, after a panic as well. *)
Answer(c, answer) ==
  /\ cpc' = [cpc EXCEPT ![c] = answer]
  /\ job' = [job EXCEPT ![c] = NoJob]
  /\ mux' = None /\ base' = None

CallFails == Fail /\ failed' = TRUE

Succeeds == UNCHANGED <<faults, failed>>

(* The guard lets only registered environments pass; the service clones only
   the reserved ones and does not look at newEnv.                          *)
BeginClone(c, e, n, G) ==
  /\ cpc[c] \in {"idle", "ok", "error"}
  /\ meta[e] # None
  /\ IF e \in Reserved
     THEN Goes(c, "lock", [NoJob EXCEPT !.src = e, !.dst = n, !.globs = G])
     ELSE Goes(c, "error", NoJob)
  /\ UNCHANGED <<etcd, poller, failed, deleter, faults>>

LockMux(c) ==
  /\ cpc[c] = "lock" /\ mux = None
  /\ cpc' = [cpc EXCEPT ![c] = "page"] /\ mux' = c
  /\ base' = db /\ failed' = FALSE
  /\ UNCHANGED <<etcd, poller, job, deleter, faults>>

(* The keys under the prefix of the source that come after the cursor. *)
Rest(j) ==
  {k \in Under[j.src] \X NamesOf(j.stage) : db[j.stage][k] # Missing /\ Order[k] > j.cursor}

(* A page of keys ends at a position, or at 0 with all of them. *)
PageUpTo(keys, last) == {k \in keys : last = 0 \/ Order[k] <= last}

(* Where it ends: with the limit, if there are more keys. *)
PageEnds(keys) ==
  IF Cardinality(keys) <= PageSize THEN {0}
  ELSE {n \in {Order[k] : k \in keys} : Cardinality(PageUpTo(keys, n)) = PageSize}

(* An error of this Get returns at once, with what was copied left behind;
   the service returns it if it is the configuration's, and deletes the
   copied configuration if it is the secrets'.                             *)
GetPage(c) ==
  LET j == job[c] IN
  /\ cpc[c] = "page"
  /\ \/ /\ Succeeds
        /\ \E last \in PageEnds(Rest(j)) :
             Goes(c, "key", [j EXCEPT !.page = PageUpTo(Rest(j), last), !.last = last,
                                      !.ops = NoJob.ops, !.twice = FALSE])
     \/ /\ CallFails
        /\ IF j.stage = "config" THEN Answer(c, "error") ELSE Goes(c, "undo", j)
  /\ UNCHANGED <<etcd, poller, deleter>>

(* strings.Replace of ":env:" leaves the keys of longer names as they are. *)
NewKey(j, k) == IF k[1] = j.src THEN <<j.dst, k[2]>> ELSE k

(* Another put for the transaction of a page. *)
WithPut(ops, k, v) == [l \in DOMAIN ops \cup {k} |-> IF l = k THEN v ELSE ops[l]]

(* Mutant: a key that is gone is put with no value. *)
MutGetMissing(c) ==
  LET j == job[c] IN
  /\ cpc[c] = "key"
  /\ \E k \in j.page :
       /\ \A l \in j.page : Order[k] <= Order[l]
       /\ \/ /\ Goes(c, "key", [j EXCEPT !.page = @ \ {k},
                                         !.ops = WithPut(@, NewKey(j, k), db[j.stage][k])])
             /\ Succeeds
          \/ /\ CallFails
             /\ Goes(c, "cleanup", j)
  /\ UNCHANGED <<etcd, poller, deleter>>

(* The next key of the page; a key that is gone is an index out of range.
   A copy may meet its own key among those of longer names.                *)
GetKey(c) ==
  LET j == job[c] IN
  /\ cpc[c] = "key"
  /\ \E k \in j.page :
       /\ \A l \in j.page : Order[k] <= Order[l]
       /\ \/ /\ db[j.stage][k] # Missing
             /\ Goes(c, "key", [j EXCEPT !.page = @ \ {k},
                                         !.ops = WithPut(@, NewKey(j, k), db[j.stage][k]),
                                         !.twice = @ \/ NewKey(j, k) \in DOMAIN j.ops])
             /\ Succeeds
          \/ /\ db[j.stage][k] = Missing
             /\ Answer(c, "error")
             /\ Succeeds
          \/ /\ CallFails
             /\ Goes(c, "cleanup", j)
  /\ UNCHANGED <<etcd, poller, deleter>>

(* CloneConfig or CloneSecrets returns nil. *)
NextStage(c) ==
  LET j == job[c] IN
  IF j.stage = "config"
  THEN Goes(c, "page", [j EXCEPT !.stage = "secrets", !.cursor = 0, !.lastErr = FALSE])
  ELSE Goes(c, "addenv", j)

Put(j) ==
  [db EXCEPT ![j.stage] = [k \in DOMAIN @ |-> IF k \in DOMAIN j.ops THEN j.ops[k] ELSE @[k]]]

(* Mutant: res.More is not looked at. *)
MutOnePage(c, err) ==
  LET j == job[c] IN
  IF err THEN Goes(c, "cleanup", j)
  ELSE IF j.stage = "config" /\ j.globs # {} THEN Goes(c, "globals", j)
  ELSE NextStage(c)

(* After the transaction of a page: an error is kept, the pages go on. *)
EndPage(c, err) ==
  LET j == job[c] IN
  IF j.last # 0 THEN Goes(c, "page", [j EXCEPT !.cursor = j.last, !.lastErr = err])
  ELSE IF err THEN Goes(c, "cleanup", j)
  ELSE IF j.stage = "config" /\ j.globs # {} THEN Goes(c, "globals", j)
  ELSE NextStage(c)

(* etcd refuses a transaction that puts a key twice. *)
PutPage(c) ==
  LET j == job[c] IN
  /\ cpc[c] = "key" /\ j.page = {}
  /\ \/ ~j.twice /\ db' = Put(j) /\ Succeeds /\ EndPage(c, j.lastErr)
     \/ j.twice /\ UNCHANGED <<db, faults>> /\ failed' = TRUE /\ EndPage(c, TRUE)
     \/ /\ DOMAIN j.ops # {} /\ ~j.twice
        /\ CallFails
        /\ db' \in {db, Put(j)}
        /\ EndPage(c, TRUE)
  /\ UNCHANGED <<meta, poller, deleter>>

PutGlobals(c) ==
  LET j == job[c]
      new == [db EXCEPT !["config"] =
                [k \in DOMAIN @ |-> IF k[1] = j.dst /\ k[2] \in j.globs THEN Override ELSE @[k]]] IN
  /\ cpc[c] = "globals"
  /\ \/ db' = new /\ Succeeds /\ NextStage(c)
     \/ CallFails /\ db' \in {db, new} /\ Goes(c, "cleanup", j)
  /\ UNCHANGED <<meta, poller, deleter>>

Emptied(st, e) == [db EXCEPT ![st] = PrefixDelete(@, e)]

(* Mutant: what was copied before the error is left behind. *)
MutNoCleanup(c) ==
  /\ cpc[c] = "cleanup"
  /\ Succeeds /\ NextStage(c)
  /\ UNCHANGED <<etcd, poller, deleter>>

(* Mutant: the source's keys are deleted instead of the copies. *)
MutCleanupSource(c) ==
  LET j == job[c]
      new == Emptied(j.stage, j.src) IN
  /\ cpc[c] = "cleanup"
  /\ \/ db' = new /\ Succeeds /\ NextStage(c)
     \/ /\ CallFails
        /\ db' \in {db, new}
        /\ IF j.stage = "config" THEN Answer(c, "error") ELSE Goes(c, "undo", j)
  /\ UNCHANGED <<meta, poller, deleter>>

(* After an error the copies are deleted, and the repository returns the
   error of the deletion: if that succeeds, the clone goes on.             *)
Cleanup(c) ==
  LET j == job[c]
      new == Emptied(j.stage, j.dst) IN
  /\ cpc[c] = "cleanup"
  /\ \/ db' = new /\ Succeeds /\ NextStage(c)
     \/ /\ CallFails
        /\ db' \in {db, new}
        /\ IF j.stage = "config" THEN Answer(c, "error") ELSE Goes(c, "undo", j)
  /\ UNCHANGED <<meta, poller, deleter>>

AddEnv(c) ==
  LET j == job[c]
      new == [meta EXCEPT ![j.dst] = j.src] IN
  /\ cpc[c] = "addenv"
  /\ \/ meta' = new /\ Succeeds /\ Answer(c, "ok")
     \/ CallFails /\ meta' \in {meta, new} /\ Goes(c, "undo", j)
  /\ UNCHANGED <<db, poller, deleter>>

(* The service deletes the copied configuration, not the secrets; an error
   of the deletion is only logged.                                         *)
Undo(c) ==
  LET new == Emptied("config", job[c].dst) IN
  /\ cpc[c] = "undo"
  /\ \/ db' = new /\ Succeeds
     \/ CallFails /\ db' \in {db, new}
  /\ Answer(c, "error")
  /\ UNCHANGED <<meta, poller, deleter>>

-----------------------------------------------------------------------------
(* The poller, the secrets and the deletions. *)

Disturb == base' = None /\ UNCHANGED <<mux, cpc, job, failed>>

BeginUpsert(e) ==
  /\ upc = "idle"
  /\ upc' = "store" /\ uenv' = e
  /\ db' = Emptied("config", e)
  /\ Disturb
  /\ UNCHANGED <<meta, deleter, faults>>

EndUpsert(v) ==
  /\ upc = "store"
  /\ upc' = "idle"
  /\ db' = [db EXCEPT !["config"] = PutVersion(@, uenv, v)]
  /\ Disturb
  /\ UNCHANGED <<meta, uenv, deleter, faults>>

(* PUT /secrets; the environment may be a clone. *)
UpsertSecrets(e) ==
  /\ meta[e] # None
  /\ db' = [db EXCEPT !["secrets"] =
              [k \in DOMAIN @ |-> IF k[1] = e THEN <<e, MaxVersion>> ELSE @[k]]]
  /\ Disturb
  /\ UNCHANGED <<meta, poller, deleter, faults>>

(* The guard lets only registered environments pass, the service refuses
   the reserved ones.                                                      *)
BeginDelete(d, e) ==
  /\ dpc[d] = "idle"
  /\ meta[e] # None
  /\ e \notin Reserved
  /\ dpc' = [dpc EXCEPT ![d] = "keys"] /\ denv' = [denv EXCEPT ![d] = e]
  /\ UNCHANGED <<etcd, poller, cloner, faults>>

EndDelete(d) == dpc' = [dpc EXCEPT ![d] = "idle"] /\ denv' = [denv EXCEPT ![d] = None]

DeleteKeys(d) ==
  LET new == Emptied("config", denv[d]) IN
  /\ dpc[d] = "keys"
  /\ \/ db' = new /\ dpc' = [dpc EXCEPT ![d] = "meta"] /\ UNCHANGED <<denv, faults>>
     \/ Fail /\ db' \in {db, new} /\ EndDelete(d)
  /\ Disturb
  /\ UNCHANGED <<meta, poller>>

(* On an error DeleteEnv panics; net/http ends the request. *)
DeleteMeta(d) ==
  LET new == [meta EXCEPT ![denv[d]] = None] IN
  /\ dpc[d] = "meta"
  /\ \/ meta' = new /\ UNCHANGED faults
     \/ Fail /\ meta' \in {meta, new}
  /\ EndDelete(d)
  /\ Disturb
  /\ UNCHANGED <<db, poller>>

(* The process ends in the middle of everything. *)
Crash ==
  /\ Fail
  /\ mux' = None /\ base' = None
  /\ cpc' = [c \in Cloners |-> "idle"] /\ job' = [c \in Cloners |-> NoJob]
  /\ dpc' = [d \in Deleters |-> "idle"] /\ denv' = [d \in Deleters |-> None]
  /\ upc' = "idle"
  /\ UNCHANGED <<etcd, uenv, failed>>

Clone(c) ==
  \/ LockMux(c) \/ GetPage(c) \/ GetKey(c) \/ PutPage(c)
  \/ PutGlobals(c) \/ Cleanup(c) \/ AddEnv(c) \/ Undo(c)

Next ==
  \/ \E c \in Cloners :
       \/ \E e \in Envs, n \in Targets, G \in Overrides : BeginClone(c, e, n, G)
       \/ Clone(c)
  \/ \E e \in Reserved : BeginUpsert(e)
  \/ \E v \in Versions : EndUpsert(v)
  \/ \E e \in Envs : UpsertSecrets(e)
  \/ \E d \in Deleters : \/ \E e \in Envs : BeginDelete(d, e)
                          \/ DeleteKeys(d) \/ DeleteMeta(d)
  \/ Crash

Spec == Init /\ [][Next]_vars

-----------------------------------------------------------------------------
AllKeys(st) == Envs \X NamesOf(st)

TypeOK ==
  /\ \A st \in Stages : db[st] \in [AllKeys(st) -> Values \cup {Missing}]
  /\ meta \in [Envs -> Envs \cup {None}]
  /\ upc \in {"idle", "store"} /\ uenv \in Reserved
  /\ mux \in Cloners \cup {None}
  /\ cpc \in [Cloners -> {"idle", "lock", "page", "key", "globals", "cleanup", "addenv", "undo",
                           "ok", "error"}]
  /\ \A c \in Cloners :
       LET j == job[c] IN
       /\ DOMAIN j = DOMAIN NoJob
       /\ j.src \in Envs \cup {None} /\ j.dst \in Targets \cup {None}
       /\ j.globs \subseteq Globals
       /\ j.stage \in Stages
       /\ j.cursor \in Nat /\ j.last \in Nat
       /\ j.page \cup DOMAIN j.ops \subseteq AllKeys("config") \cup AllKeys("secrets")
       /\ \A k \in DOMAIN j.ops : j.ops[k] \in Values
       /\ j.twice \in BOOLEAN /\ j.lastErr \in BOOLEAN
  /\ base # None => DOMAIN base = Stages
  /\ failed \in BOOLEAN
  /\ dpc \in [Deleters -> {"idle", "keys", "meta"}]
  /\ denv \in [Deleters -> Envs \cup {None}]
  /\ faults \in Nat

(* The lock is held by the one clone that is under way and by nobody else:
   whichever call of it fails, panics or ends the process, it gives the lock
   back, so that the poller's next pass and the next clone get it.         *)
LockGivenBack ==
  \A c \in Cloners : (mux = c) = (cpc[c] \notin {"idle", "lock", "ok", "error"})

(* What the clone should put under a name of its new environment. *)
Copied(j, st, n) ==
  IF st = "config" /\ n \in j.globs THEN Override ELSE base[st][<<j.src, n>>]

(* Every key of the source has been copied; nothing is at the target. *)
Complete(j, st, new) ==
  \A n \in NamesOf(st) : Copied(j, st, n) # Missing => new[st][<<j.dst, n>>] = Copied(j, st, n)

Nothing(j, st, kv) == \A n \in NamesOf(st) : kv[st][<<j.dst, n>>] = Missing

(* The clone is reported as successful and nobody else wrote meanwhile. *)
Undisturbed(c) == cpc[c] = "addenv" /\ cpc'[c] = "ok" /\ base # None

(* A clone that is reported as successful, of whose calls none failed or
   was refused and that no upsert or deletion disturbed, left in a new
   environment exactly the source's configuration, with the globals of the
   request instead of its own, and its secrets, however many pages they took
   and whatever other clones ran before or wait.                           *)
CloneExact ==
  [][\A c \in Cloners : Undisturbed(c) /\ ~failed /\ faults' = faults =>
       \A st \in Stages :
         /\ Complete(job[c], st, db')
         /\ Nothing(job[c], st, base) =>
              \A n \in NamesOf(st) : db'[st][<<job[c].dst, n>>] = Copied(job[c], st, n)]_vars

(* Whatever calls fail, a clone that is reported as successful and was not
   disturbed never leaves a part of the configuration or of the secrets.   *)
NeverHalfCloned ==
  [][\A c \in Cloners : Undisturbed(c) =>
       \A st \in Stages : Complete(job[c], st, db') \/ Nothing(job[c], st, db')]_vars

(* The environments a clone writes: those whose names begin with its new name
   (its puts, the clean-up and the undo), and those whose names begin with
   its source's, whose keys come with the pages and are put back.          *)
Reach(j) == Under[j.dst] \cup (Under[j.src] \ {j.src})

Reconfigured(e) == \E n \in Names : db'["config"][<<e, n>>] # db["config"][<<e, n>>]

Reached ==
  \A e \in Reserved :
    /\ Reconfigured(e) =>
         \/ upc' # upc /\ e \in Under[uenv']
         \/ \E c \in Cloners : mux = c /\ cpc'[c] # cpc[c] /\ e \in Reach(job[c])
         \/ \E d \in Deleters : dpc[d] = "keys" /\ dpc'[d] # dpc[d]
                               /\ e \in Under[denv[d]] \ {denv[d]}
    /\ meta'[e] # meta[e] =>
         \E c \in Cloners : mux = c /\ cpc[c] = "addenv" /\ job[c].dst = e

(* Whatever the pages, failures and crashes, the configuration of a reserved
   environment is changed by nothing but the poller, upserting it or one
   whose name its own begins with; the clone that holds the lock, if its
   new name is that environment's (newEnv is not checked) or the beginning
   of it, or if its source's name is; and the deletion of a clone whose name
   is a true beginning of it.  In particular a clone leaves its source alone
   that its new name does not reach, also when it fails, and a deletion the
   environment it was refused for.  The metadata record is changed by the
   clone under that very name only.                                        *)
ReservedReached == [][Reached]_vars

(* A clone that is reported as successful and was not disturbed has the
   configuration of its source.                                            *)
CloneReported ==
  [][\A c \in Cloners : Undisturbed(c) => Complete(job[c], "config", db')]_vars
=============================================================================
