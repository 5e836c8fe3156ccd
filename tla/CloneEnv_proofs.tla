---------------------------- MODULE CloneEnv_proofs ----------------------------
(***************************************************************************)
(* Proofs about CloneEnv, for any environments, pages, requests, failures  *)
(* and crashes: a clone gives the lock back, the environments of the Git   *)
(* repository are written only by what reaches them by name, and a clone   *)
(* that nobody disturbs is whole or nothing, and exact if no call fails.   *)
(***************************************************************************)
EXTENDS CloneEnv, TLAPS

(* The calls of a clone that holds the lock. *)
Calls == {"page", "key", "globals", "cleanup", "addenv", "undo"}

(* It goes on to another call or answers. *)
GoesOn(c) ==
  \/ \E place \in Calls : \E j : Goes(c, place, j)
  \/ \E answer \in {"ok", "error"} : Answer(c, answer)

LEMMA GoesOnGoes ==
  ASSUME NEW c, NEW j
  PROVE  /\ Goes(c, "page", j) => GoesOn(c)
         /\ Goes(c, "key", j) => GoesOn(c)
         /\ Goes(c, "globals", j) => GoesOn(c)
         /\ Goes(c, "cleanup", j) => GoesOn(c)
         /\ Goes(c, "addenv", j) => GoesOn(c)
         /\ Goes(c, "undo", j) => GoesOn(c)
BY Zenon DEF GoesOn, Calls

LEMMA GoesOnAnswer == ASSUME NEW c PROVE Answer(c, "ok") \/ Answer(c, "error") => GoesOn(c)
BY DEF GoesOn

LEMMA GoesOnPage == ASSUME NEW c, NEW err PROVE NextStage(c) \/ EndPage(c, err) => GoesOn(c)
BY GoesOnGoes, Zenon DEF NextStage, EndPage

LEMMA HolderSteps ==
  ASSUME NEW c \in Cloners,
         \/ GetPage(c) \/ GetKey(c) \/ PutPage(c) \/ PutGlobals(c)
         \/ Cleanup(c) \/ AddEnv(c) \/ Undo(c)
  PROVE  cpc[c] \in Calls /\ GoesOn(c) /\ UNCHANGED deleter
<1>1. CASE GetPage(c)
  BY <1>1, GoesOnGoes, GoesOnAnswer, Zenon DEF GetPage, Calls
<1>2. CASE GetKey(c)
  BY <1>2, GoesOnGoes, GoesOnAnswer, Zenon DEF GetKey, Calls
<1>3. CASE PutPage(c)
  BY <1>3, GoesOnPage, Zenon DEF PutPage, Calls
<1>4. CASE PutGlobals(c)
  BY <1>4, GoesOnGoes, GoesOnPage, Zenon DEF PutGlobals, Calls
<1>5. CASE Cleanup(c)
  BY <1>5, GoesOnGoes, GoesOnPage, GoesOnAnswer, Zenon DEF Cleanup, Calls
<1>6. CASE AddEnv(c)
  BY <1>6, GoesOnGoes, GoesOnAnswer, Zenon DEF AddEnv, Calls
<1>7. CASE Undo(c)
  BY <1>7, GoesOnAnswer, Zenon DEF Undo, Calls
<1> QED BY <1>1, <1>2, <1>3, <1>4, <1>5, <1>6, <1>7

-----------------------------------------------------------------------------
(* The lock. *)

LockInv == DOMAIN cpc = Cloners /\ mux \in Cloners \cup {None} /\ LockGivenBack

LEMMA HolderKeepsLock ==
  ASSUME LockInv, NEW c \in Cloners, cpc[c] \in Calls, GoesOn(c) PROVE LockInv'
<1>1. ASSUME NEW place \in Calls, NEW j, Goes(c, place, j) PROVE LockInv'
  BY <1>1 DEF LockInv, LockGivenBack, Goes, Calls
<1>2. ASSUME NEW answer \in {"ok", "error"}, Answer(c, answer) PROVE LockInv'
  BY <1>2, CloneAssumption DEF LockInv, LockGivenBack, Answer, Calls
<1> QED BY <1>1, <1>2 DEF GoesOn

LEMMA LockInit == Init => LockInv
BY CloneAssumption DEF Init, LockInv, LockGivenBack

LEMMA LockStep == ASSUME LockInv, [Next]_vars PROVE LockInv'
<1>1. ASSUME NEW c \in Cloners, NEW e \in Envs, NEW n \in Targets, NEW G \in Overrides,
             BeginClone(c, e, n, G)
      PROVE  LockInv'
  BY <1>1 DEF BeginClone, Goes, LockInv, LockGivenBack
<1>2. ASSUME NEW c \in Cloners, LockMux(c) PROVE LockInv'
  BY <1>2, CloneAssumption DEF LockMux, LockInv, LockGivenBack
<1>3. ASSUME NEW c \in Cloners, Clone(c), ~LockMux(c) PROVE LockInv'
  BY <1>3, HolderSteps, HolderKeepsLock DEF Clone
<1>4. CASE UNCHANGED <<mux, cpc>>
  BY <1>4 DEF LockInv, LockGivenBack
<1>5. CASE Crash
  BY <1>5, CloneAssumption DEF Crash, LockInv, LockGivenBack
<1>6. ASSUME NEW e \in Envs, BeginUpsert(e) \/ UpsertSecrets(e) PROVE UNCHANGED <<mux, cpc>>
  BY <1>6 DEF BeginUpsert, UpsertSecrets, Disturb
<1>7. ASSUME NEW v \in Versions, EndUpsert(v) PROVE UNCHANGED <<mux, cpc>>
  BY <1>7 DEF EndUpsert, Disturb
<1>8. ASSUME NEW d \in Deleters,
             (\E e \in Envs : BeginDelete(d, e)) \/ DeleteKeys(d) \/ DeleteMeta(d)
      PROVE  UNCHANGED <<mux, cpc>>
  BY <1>8 DEF BeginDelete, DeleteKeys, DeleteMeta, Disturb, cloner
<1>9. CASE UNCHANGED vars
  BY <1>4, <1>9 DEF vars, cloner
<1> QED
  BY <1>1, <1>2, <1>3, <1>4, <1>5, <1>6, <1>7, <1>8, <1>9, NamesAssumption DEF Next

(* Whichever call of a clone fails, panics or ends the process, the clone  *)
(* gives gitrepo.Mux back, and only one at a time holds it; any number of  *)
(* requests, pages and failures.                                           *)
THEOREM AlwaysGivenBack == Spec => []LockGivenBack
<1>1. LockInv => LockGivenBack
  BY DEF LockInv
<1> QED BY <1>1, LockInit, LockStep, PTL DEF Spec

-----------------------------------------------------------------------------
(* What reaches the reserved environments. *)

(* Whatever its fields hold. *)
IsJob(j) ==
  j = [src |-> j.src, dst |-> j.dst, globs |-> j.globs, stage |-> j.stage, cursor |-> j.cursor,
       page |-> j.page, last |-> j.last, ops |-> j.ops, twice |-> j.twice, lastErr |-> j.lastErr]

(* What a clone is about to put is within its reach. *)
Aside(j) ==
  /\ IsJob(j)
  /\ j.src \in Envs /\ j.dst \in Targets /\ j.stage \in Stages
  /\ \A k \in j.page : k[1] \in Under[j.src]
  /\ \A k \in DOMAIN j.ops : k[1] \in Reach(j)

UnderWay(c) == cpc[c] \in Calls \cup {"lock"}

Stored == DOMAIN db = Stages /\ DOMAIN db["config"] = Keys /\ DOMAIN meta = Envs

Requests ==
  /\ DOMAIN cpc = Cloners /\ DOMAIN job = Cloners
  /\ \A c \in Cloners : UnderWay(c) => Aside(job[c])

Deletions ==
  /\ DOMAIN dpc = Deleters /\ DOMAIN denv = Deleters
  /\ \A d \in Deleters : dpc[d] # "idle" => denv[d] \in Envs \ Reserved

AsideInv == Stored /\ Requests /\ Deletions

(* A step leaves the configurations of the reserved environments as they are, but for those in S. *)
KeptBut(S) ==
  /\ Stored'
  /\ \A e \in Reserved \ S, n \in Names : db'["config"][<<e, n>>] = db["config"][<<e, n>>]

LEMMA ReachesTarget == ASSUME NEW j, Aside(j) PROVE j.dst \in Envs /\ j.dst \in Reach(j)
BY CloneAssumption, UnderAssumption DEF Aside, Reach

(* The writes. *)
LEMMA PutKeeps ==
  ASSUME Stored, NEW j, Aside(j), db' = Put(j), UNCHANGED meta PROVE KeptBut(Reach(j))
<1>1. DOMAIN db' = Stages /\ DOMAIN meta' = Envs
  BY DEF Put, Stored
<1>2. CASE j.stage = "config"
  <2>1. db'["config"] = [k \in Keys |-> IF k \in DOMAIN j.ops THEN j.ops[k] ELSE db["config"][k]]
    BY <1>2 DEF Put, Stored, Stages
  <2>2. \A e \in Reserved \ Reach(j), n \in Names : <<e, n>> \in Keys /\ <<e, n>> \notin DOMAIN j.ops
    BY NamesAssumption DEF Keys, Aside
  <2> QED BY <1>1, <2>1, <2>2 DEF KeptBut, Stored
<1>3. CASE j.stage # "config"
  BY <1>1, <1>3 DEF Put, KeptBut, Stored
<1> QED BY <1>2, <1>3

LEMMA GlobalsKeep ==
  ASSUME Stored, NEW j, Aside(j), UNCHANGED meta,
         db' = [db EXCEPT !["config"] =
                  [k \in DOMAIN @ |-> IF k[1] = j.dst /\ k[2] \in j.globs THEN Override ELSE @[k]]]
  PROVE  KeptBut(Reach(j))
<1>1. DOMAIN db' = Stages /\ DOMAIN meta' = Envs
  BY DEF Stored
<1>2. db'["config"] = [k \in Keys |-> IF k[1] = j.dst /\ k[2] \in j.globs THEN Override
                                      ELSE db["config"][k]]
  BY DEF Stored, Stages
<1>3. \A e \in Reserved \ Reach(j), n \in Names : <<e, n>> \in Keys /\ <<e, n>>[1] # j.dst
  BY NamesAssumption, ReachesTarget DEF Keys
<1> QED BY <1>1, <1>2, <1>3 DEF KeptBut, Stored

LEMMA EmptiedKeeps ==
  ASSUME Stored, NEW st, NEW e, db' = Emptied(st, e), UNCHANGED meta PROVE KeptBut(Under[e])
<1>1. DOMAIN db' = Stages /\ DOMAIN meta' = Envs
  BY DEF Emptied, Stored
<1>2. CASE st = "config"
  <2>1. db'["config"] = [k \in Keys |-> IF k[1] \in Under[e] THEN Missing ELSE db["config"][k]]
    BY <1>2 DEF Emptied, PrefixDelete, Stored, Stages
  <2>2. \A f \in Reserved \ Under[e], n \in Names : <<f, n>> \in Keys /\ <<f, n>>[1] \notin Under[e]
    BY NamesAssumption DEF Keys
  <2> QED BY <1>1, <2>1, <2>2 DEF KeptBut, Stored
<1>3. CASE st # "config"
  BY <1>1, <1>3 DEF Emptied, KeptBut, Stored
<1> QED BY <1>2, <1>3

LEMMA SameKeeps == ASSUME Stored, NEW S, UNCHANGED <<db, meta>> PROVE KeptBut(S)
BY DEF Stored, KeptBut

LEMMA SameReached == ASSUME Stored, UNCHANGED <<db, meta>> PROVE Stored' /\ Reached
BY DEF Stored, Reached, Reconfigured

(* The requests. *)
LEMMA GoesAside ==
  ASSUME Requests, NEW c \in Cloners, NEW place, NEW j, Goes(c, place, j), Aside(j)
  PROVE  Requests'
BY DEF Requests, Goes, UnderWay

LEMMA AnswerAside ==
  ASSUME Requests, NEW c \in Cloners, NEW answer \in {"ok", "error"}, Answer(c, answer)
  PROVE  Requests'
BY DEF Requests, Answer, UnderWay, Calls

LEMMA NextStageAside ==
  ASSUME Requests, NEW c \in Cloners, Aside(job[c]), NextStage(c) PROVE Requests'
<1>1. PICK j : j = [job[c] EXCEPT !.stage = "secrets", !.cursor = 0, !.lastErr = FALSE]
  OBVIOUS
<1>2. Aside(j)
  BY <1>1 DEF Aside, IsJob, Stages, Reach
<1>3. (\E place : Goes(c, place, j)) \/ (\E place : Goes(c, place, job[c]))
  BY <1>1, Zenon DEF NextStage
<1> QED BY <1>2, <1>3, GoesAside

LEMMA EndPageAside ==
  ASSUME Requests, NEW c \in Cloners, Aside(job[c]), NEW err, EndPage(c, err) PROVE Requests'
<1>1. PICK j : j = [job[c] EXCEPT !.cursor = job[c].last, !.lastErr = err]
  OBVIOUS
<1>2. Aside(j)
  BY <1>1 DEF Aside, IsJob, Reach
<1>3. \/ \E place : Goes(c, place, j)
      \/ \E place : Goes(c, place, job[c])
      \/ NextStage(c)
  BY <1>1, Zenon DEF EndPage
<1> QED BY <1>2, <1>3, GoesAside, NextStageAside

LEMMA BeginAside ==
  ASSUME Requests, NEW c \in Cloners, NEW e \in Envs, NEW n \in Targets, NEW G \in Overrides,
         BeginClone(c, e, n, G)
  PROVE  Requests'
<1>1. CASE e \in Reserved
  <2>1. PICK j : /\ j = [NoJob EXCEPT !.src = e, !.dst = n, !.globs = G]
                 /\ Goes(c, "lock", j)
    BY <1>1 DEF BeginClone
  <2>2. IsJob(NoJob) /\ NoJob.page = {} /\ NoJob.stage = "config" /\ DOMAIN NoJob.ops = {}
    BY DEF IsJob, NoJob
  <2>3. /\ IsJob(j) /\ j.src = e /\ j.dst = n /\ j.stage = "config"
        /\ j.page = {} /\ j.ops = NoJob.ops
    <3>1. PICK i : i = NoJob /\ IsJob(i) /\ i.page = {} /\ i.stage = "config"
      BY <2>2
    <3> QED BY <2>1, <3>1 DEF IsJob
  <2>4. Aside(j)
    BY <2>2, <2>3 DEF Aside, Stages
  <2> QED BY <2>1, <2>4, GoesAside
<1>2. CASE e \notin Reserved
  BY <1>2 DEF BeginClone, Goes, Requests, UnderWay, Calls
<1> QED BY <1>1, <1>2

LEMMA GetPageAside ==
  ASSUME Requests, NEW c \in Cloners, Aside(job[c]), GetPage(c) PROVE Requests'
<1>1. ASSUME NEW page, NEW last, page = PageUpTo(Rest(job[c]), last),
             Goes(c, "key", [job[c] EXCEPT !.page = page, !.last = last,
                                           !.ops = NoJob.ops, !.twice = FALSE])
      PROVE  Requests'
  <2>1. PICK j, ops : /\ j = [job[c] EXCEPT !.page = page, !.last = last, !.ops = ops, !.twice = FALSE]
                      /\ ops = NoJob.ops /\ Goes(c, "key", j)
    BY <1>1
  <2>2. /\ IsJob(j) /\ j.src = job[c].src /\ j.dst = job[c].dst /\ j.stage = job[c].stage
        /\ j.page = page /\ j.ops = ops
    BY <2>1 DEF Aside, IsJob
  <2>3. DOMAIN ops = {} /\ \A k \in page : k[1] \in Under[job[c].src]
    BY <1>1, <2>1 DEF NoJob, PageUpTo, Rest
  <2>4. Aside(j)
    BY <2>2, <2>3 DEF Aside
  <2> QED BY <2>1, <2>4, GoesAside
<1>2. \/ \E page, last : /\ page = PageUpTo(Rest(job[c]), last)
                          /\ Goes(c, "key", [job[c] EXCEPT !.page = page, !.last = last,
                                                           !.ops = NoJob.ops, !.twice = FALSE])
      \/ Answer(c, "error") \/ Goes(c, "undo", job[c])
  BY Zenon DEF GetPage
<1> QED BY <1>1, <1>2, GoesAside, AnswerAside

LEMMA GetKeyAside ==
  ASSUME Requests, NEW c \in Cloners, Aside(job[c]), GetKey(c) PROVE Requests'
<1>1. ASSUME NEW k \in job[c].page, NEW v, NEW w,
             Goes(c, "key", [job[c] EXCEPT !.page = @ \ {k},
                                           !.ops = WithPut(@, NewKey(job[c], k), v), !.twice = w])
      PROVE  Requests'
  <2>1. PICK j, page, ops : /\ j = [job[c] EXCEPT !.page = page, !.ops = ops, !.twice = w]
                            /\ page = job[c].page \ {k}
                            /\ ops = WithPut(job[c].ops, NewKey(job[c], k), v)
                            /\ Goes(c, "key", j)
    BY <1>1
  <2>2. /\ IsJob(j) /\ j.src = job[c].src /\ j.dst = job[c].dst /\ j.stage = job[c].stage
        /\ j.page = page /\ j.ops = ops
    BY <2>1 DEF Aside, IsJob
  <2>3. DOMAIN ops = {NewKey(job[c], k)} \cup DOMAIN job[c].ops
    BY <2>1 DEF WithPut
  <2>4. NewKey(job[c], k)[1] \in Reach(job[c])
    BY ReachesTarget DEF NewKey, Aside, Reach
  <2>5. Aside(j)
    BY <2>1, <2>2, <2>3, <2>4 DEF Aside, Reach
  <2> QED BY <2>1, <2>5, GoesAside
<1>2. \/ \E k \in job[c].page : \E v, w :
           Goes(c, "key", [job[c] EXCEPT !.page = @ \ {k},
                                         !.ops = WithPut(@, NewKey(job[c], k), v), !.twice = w])
      \/ Answer(c, "error") \/ Goes(c, "cleanup", job[c])
  BY Zenon DEF GetKey
<1> QED BY <1>1, <1>2, GoesAside, AnswerAside

-----------------------------------------------------------------------------
LEMMA AsideInit == Init => AsideInv
BY NamesAssumption DEF Init, AsideInv, Stored, Requests, Deletions, UnderWay, Calls, Stages,
                       NamesOf, Keys

(* A step of a clone that holds the lock goes to another place if it writes. *)
LEMMA Moves ==
  ASSUME DOMAIN cpc = Cloners, NEW c \in Cloners
  PROVE  /\ \A place : \A j : Goes(c, place, j) => cpc'[c] = place
         /\ \A answer : Answer(c, answer) => cpc'[c] = answer
         /\ NextStage(c) => cpc'[c] \in {"page", "addenv"}
         /\ \A err : EndPage(c, err) => cpc'[c] \in Calls \ {"key"}
<1>1. \A place : \A j : Goes(c, place, j) => cpc'[c] = place
  BY DEF Goes
<1>2. \A answer : Answer(c, answer) => cpc'[c] = answer
  BY DEF Answer
<1>3. NextStage(c) => cpc'[c] \in {"page", "addenv"}
  BY <1>1, Zenon DEF NextStage
<1>4. ASSUME NEW err, EndPage(c, err) PROVE cpc'[c] \in Calls \ {"key"}
  <2>1. \/ \E place \in {"page", "cleanup", "globals"} : \E j : Goes(c, place, j)
        \/ NextStage(c)
    BY <1>4, Zenon DEF EndPage
  <2> QED BY <1>1, <1>3, <2>1 DEF Calls
<1> QED BY <1>1, <1>2, <1>3, <1>4

LEMMA CloneReaches ==
  ASSUME LockInv, NEW c \in Cloners, cpc[c] \in Calls, cpc'[c] # cpc[c],
         KeptBut(Reach(job[c])), UNCHANGED meta
  PROVE  Stored' /\ Reached
<1>1. mux = c
  BY DEF LockInv, LockGivenBack, Calls
<1> QED BY <1>1 DEF KeptBut, Reached, Reconfigured

LEMMA CloneAside ==
  ASSUME LockInv, AsideInv, NEW c \in Cloners, Clone(c), ~LockMux(c)
  PROVE  Stored' /\ Reached /\ Requests'
<1>1. cpc[c] \in Calls /\ Aside(job[c]) /\ job[c].dst \in Envs /\ DOMAIN cpc = Cloners
  BY HolderSteps, ReachesTarget DEF Clone, AsideInv, Requests, UnderWay
<1>2. \A e : db' \in {db, Emptied(job[c].stage, job[c].dst), Emptied("config", job[c].dst)} /\ UNCHANGED meta
             => KeptBut(Reach(job[c]))
  <2>1. \A S : KeptBut(Under[job[c].dst]) => KeptBut(Reach(job[c]))
    BY DEF KeptBut, Reach
  <2> QED BY <2>1, EmptiedKeeps, SameKeeps DEF AsideInv
<1> USE DEF AsideInv
<1>3. CASE GetPage(c)
  BY <1>1, <1>3, GetPageAside, SameReached DEF GetPage, etcd
<1>4. CASE GetKey(c)
  BY <1>1, <1>4, GetKeyAside, SameReached DEF GetKey, etcd
<1>5. CASE PutPage(c)
  <2>1. /\ db' \in {db, Put(job[c])} /\ UNCHANGED meta
        /\ cpc[c] = "key" /\ \E err : EndPage(c, err)
    BY <1>5 DEF PutPage
  <2>2. KeptBut(Reach(job[c])) /\ cpc'[c] # cpc[c]
    BY <1>1, <2>1, PutKeeps, SameKeeps, Moves
  <2> QED BY <1>1, <2>1, <2>2, EndPageAside, CloneReaches
<1>6. CASE PutGlobals(c)
  <2>1. (NextStage(c) \/ Goes(c, "cleanup", job[c])) /\ cpc[c] = "globals" /\ UNCHANGED meta
    BY <1>6 DEF PutGlobals
  <2>2. KeptBut(Reach(job[c]))
    BY <1>1, <1>6, GlobalsKeep, SameKeeps DEF PutGlobals
  <2>3. cpc'[c] # cpc[c]
    BY <1>1, <2>1, Moves
  <2> QED BY <1>1, <2>1, <2>2, <2>3, NextStageAside, GoesAside, CloneReaches
<1>7. CASE Cleanup(c)
  <2>1. /\ NextStage(c) \/ Answer(c, "error") \/ Goes(c, "undo", job[c])
        /\ cpc[c] = "cleanup" /\ UNCHANGED meta
        /\ db' \in {db, Emptied(job[c].stage, job[c].dst)}
    BY <1>7 DEF Cleanup
  <2>2. cpc'[c] # cpc[c]
    BY <1>1, <2>1, Moves
  <2> QED BY <1>1, <1>2, <2>1, <2>2, NextStageAside, GoesAside, AnswerAside, CloneReaches
<1>8. CASE AddEnv(c)
  <2>1. /\ cpc[c] = "addenv" /\ UNCHANGED db
        /\ meta' \in {meta, [meta EXCEPT ![job[c].dst] = job[c].src]}
        /\ Answer(c, "ok") \/ Goes(c, "undo", job[c])
    BY <1>8 DEF AddEnv
  <2>2. mux = c
    BY <2>1 DEF LockInv, LockGivenBack
  <2>3. Stored' /\ Reached
    BY <1>1, <2>1, <2>2, NamesAssumption DEF Stored, Reached, Reconfigured
  <2> QED BY <1>1, <2>1, <2>3, GoesAside, AnswerAside
<1>9. CASE Undo(c)
  <2>1. /\ Answer(c, "error") /\ cpc[c] = "undo" /\ UNCHANGED meta
        /\ db' \in {db, Emptied("config", job[c].dst)}
    BY <1>9 DEF Undo
  <2>2. cpc'[c] # cpc[c]
    BY <1>1, <2>1, Moves
  <2> QED BY <1>1, <1>2, <2>1, <2>2, AnswerAside, CloneReaches
<1> QED BY <1>3, <1>4, <1>5, <1>6, <1>7, <1>8, <1>9 DEF Clone

(* The poller. *)
LEMMA DisturbAside ==
  ASSUME AsideInv, Disturb, UNCHANGED deleter PROVE Requests' /\ Deletions'
BY DEF Disturb, deleter, AsideInv, Requests, UnderWay, Deletions

LEMMA PollerReaches ==
  ASSUME upc' # upc, KeptBut(Under[uenv']), UNCHANGED meta PROVE Stored' /\ Reached
BY DEF KeptBut, Reached, Reconfigured

LEMMA BeginReaches ==
  ASSUME AsideInv, NEW e \in Reserved, BeginUpsert(e) PROVE Stored' /\ Reached
BY PollerReaches, EmptiedKeeps DEF BeginUpsert, AsideInv

LEMMA EndReaches ==
  ASSUME AsideInv, NEW v \in Versions, EndUpsert(v), uenv \in Reserved PROVE Stored' /\ Reached
<1>1. /\ db' = [db EXCEPT !["config"] = PutVersion(@, uenv, v)]
      /\ upc' # upc /\ uenv' = uenv /\ meta' = meta
  BY DEF EndUpsert
<1>2. \A f \in Reserved, n \in Names : <<f, n>> \in Keys
  BY NamesAssumption DEF Keys
<1>3. uenv \in Under[uenv]
  BY NamesAssumption, UnderAssumption
<1>4. KeptBut(Under[uenv'])
  BY <1>1, <1>2, <1>3 DEF KeptBut, AsideInv, Stored, Stages, PutVersion
<1> QED BY <1>1, <1>4, PollerReaches

(* The deletions. *)
LEMMA DeletionReaches ==
  ASSUME AsideInv, NEW d \in Deleters, DeleteKeys(d) \/ DeleteMeta(d)
  PROVE  Stored' /\ Reached /\ Deletions'
<1>1. denv[d] \in Envs \ Reserved
  BY DEF DeleteKeys, DeleteMeta, AsideInv, Deletions
<1>2. CASE DeleteKeys(d)
  <2>1. KeptBut(Under[denv[d]]) /\ UNCHANGED meta
    BY <1>2, EmptiedKeeps, SameKeeps DEF DeleteKeys, AsideInv
  <2>2. dpc[d] = "keys" /\ dpc'[d] # dpc[d]
    BY <1>2 DEF DeleteKeys, EndDelete, AsideInv, Deletions
  <2>3. Stored' /\ Reached
    BY <1>1, <2>1, <2>2 DEF KeptBut, Reached, Reconfigured
  <2>4. Deletions'
    BY <1>2 DEF DeleteKeys, EndDelete, AsideInv, Deletions
  <2> QED BY <2>3, <2>4
<1>3. CASE DeleteMeta(d)
  <2>1. Stored' /\ Reached
    BY <1>1, <1>3, NamesAssumption DEF DeleteMeta, AsideInv, Stored, Reached, Reconfigured
  <2>2. Deletions'
    BY <1>3 DEF DeleteMeta, EndDelete, AsideInv, Deletions
  <2> QED BY <2>1, <2>2
<1> QED BY <1>2, <1>3

(* Every step keeps the invariant and stays within reach. *)
LEMMA AsideStep ==
  ASSUME LockInv, AsideInv, uenv \in Reserved, [Next]_vars
  PROVE  AsideInv' /\ (uenv \in Reserved)' /\ Reached
<1> DEFINE Goal == AsideInv' /\ (uenv \in Reserved)' /\ Reached
<1>1. ASSUME Stored' /\ Reached, Requests', Deletions', (uenv \in Reserved)' PROVE Goal
  BY <1>1 DEF AsideInv
<1>2. UNCHANGED <<db, meta>> => Stored' /\ Reached
  BY SameReached DEF AsideInv
<1>3. UNCHANGED <<cpc, job>> => Requests'
  BY DEF AsideInv, Requests, UnderWay
<1>4. UNCHANGED deleter => Deletions'
  BY DEF deleter, AsideInv, Deletions
<1> HIDE DEF Goal
<1>5. ASSUME NEW c \in Cloners, NEW e \in Envs, NEW n \in Targets, NEW G \in Overrides,
             BeginClone(c, e, n, G)
      PROVE  Goal
  BY <1>1, <1>2, <1>4, <1>5, BeginAside DEF BeginClone, etcd, poller, AsideInv
<1>6. ASSUME NEW c \in Cloners, Clone(c) PROVE Goal
  <2>1. UNCHANGED <<deleter, uenv>>
    BY <1>6 DEF Clone, LockMux, GetPage, GetKey, PutPage, PutGlobals, Cleanup, AddEnv, Undo, poller
  <2>2. CASE LockMux(c)
    <3>1. Requests' /\ UNCHANGED <<db, meta>>
      BY <2>2 DEF LockMux, AsideInv, Requests, UnderWay, Calls, etcd
    <3> QED BY <1>1, <1>2, <1>4, <2>1, <3>1
  <2>3. CASE ~LockMux(c)
    BY <1>1, <1>4, <1>6, <2>1, <2>3, CloneAside
  <2> QED BY <2>2, <2>3
<1>7. ASSUME NEW e \in Reserved, BeginUpsert(e) PROVE Goal
  BY <1>1, <1>7, BeginReaches, DisturbAside DEF BeginUpsert
<1>8. ASSUME NEW v \in Versions, EndUpsert(v) PROVE Goal
  BY <1>1, <1>8, EndReaches, DisturbAside DEF EndUpsert
<1>9. ASSUME NEW e \in Envs, UpsertSecrets(e) PROVE Goal
  <2>1. Stored' /\ Reached
    BY <1>9 DEF UpsertSecrets, AsideInv, Stored, Stages, Reached, Reconfigured
  <2> QED BY <1>1, <1>9, <2>1, DisturbAside DEF UpsertSecrets, poller
<1>10. ASSUME NEW d \in Deleters, NEW e \in Envs, BeginDelete(d, e) PROVE Goal
  <2>1. Deletions' /\ UNCHANGED <<db, meta, cpc, job, uenv>>
    BY <1>10 DEF BeginDelete, AsideInv, Deletions, etcd, cloner, poller
  <2> QED BY <1>1, <1>2, <1>3, <2>1
<1>11. ASSUME NEW d \in Deleters, DeleteKeys(d) \/ DeleteMeta(d) PROVE Goal
  <2>1. UNCHANGED <<cpc, job, uenv>>
    BY <1>11 DEF DeleteKeys, DeleteMeta, Disturb, poller
  <2> QED BY <1>1, <1>3, <1>11, <2>1, DeletionReaches
<1>12. ASSUME Crash PROVE Goal
  <2>1. Requests' /\ Deletions' /\ UNCHANGED <<db, meta, uenv>>
    BY <1>12 DEF Crash, Requests, Deletions, UnderWay, Calls, etcd
  <2> QED BY <1>1, <1>2, <2>1
<1>13. ASSUME UNCHANGED vars PROVE Goal
  BY <1>1, <1>2, <1>3, <1>4, <1>13 DEF vars, etcd, cloner, poller
<1>14. Goal
  BY <1>5, <1>6, <1>7, <1>8, <1>9, <1>10, <1>11, <1>12, <1>13 DEF Next
<1> QED BY <1>14 DEF Goal

(* Whatever names clones get, whatever names begin with others, and       *)
(* whichever calls fail: the configuration of a reserved environment       *)
(* changes only in steps of the poller, the clone that holds the lock and  *)
(* deletions, and only within the reach of the name the step is for.       *)
THEOREM AlwaysWithinReach == Spec => ReservedReached
<1>1. Init => LockInv /\ AsideInv /\ uenv \in Reserved
  BY LockInit, AsideInit DEF Init
<1>2. LockInv /\ AsideInv /\ uenv \in Reserved /\ [Next]_vars =>
        (LockInv /\ AsideInv /\ uenv \in Reserved)'
  BY LockStep, AsideStep
<1>3. LockInv /\ AsideInv /\ uenv \in Reserved /\ [Next]_vars => [Reached]_vars
  BY AsideStep
<1> QED BY <1>1, <1>2, <1>3, PTL DEF Spec, ReservedReached

-----------------------------------------------------------------------------
(* Types. *)
Places == Calls \cup {"idle", "lock", "ok", "error"}

(* A job whose next call is made at a place. *)
Ready(place, j) ==
  /\ IsJob(j)
  /\ j.src \in Envs \cup {None} /\ j.dst \in Targets \cup {None}
  /\ j.globs \subseteq Globals
  /\ j.stage \in Stages
  /\ j.cursor \in Nat /\ j.last \in Nat
  /\ j.page \cup DOMAIN j.ops \subseteq AllKeys("config") \cup AllKeys("secrets")
  /\ \A k \in DOMAIN j.ops : j.ops[k] \in Values
  /\ j.twice \in BOOLEAN /\ j.lastErr \in BOOLEAN
  /\ place \in Calls \cup {"lock"} => j.src \in Envs /\ j.dst \in Targets
  /\ place = "key" => j.page \cup DOMAIN j.ops \subseteq AllKeys(j.stage)

Jobs ==
  /\ cpc \in [Cloners -> Places] /\ DOMAIN job = Cloners
  /\ mux \in Cloners \cup {None}
  /\ \A c \in Cloners : Ready(cpc[c], job[c])

Data(d) ==
  /\ DOMAIN d = Stages
  /\ \A st \in Stages : d[st] \in [AllKeys(st) -> Values \cup {Missing}]

Others ==
  /\ meta \in [Envs -> Envs \cup {None}]
  /\ upc \in {"idle", "store"} /\ uenv \in Reserved
  /\ base # None => DOMAIN base = Stages
  /\ failed \in BOOLEAN
  /\ dpc \in [Deleters -> {"idle", "keys", "meta"}]
  /\ denv \in [Deleters -> Envs \cup {None}]
  /\ \A d \in Deleters : dpc[d] # "idle" => denv[d] \in Envs
  /\ faults \in Nat
  /\ MaxVersion \in Versions

TypeInv == Data(db) /\ Jobs /\ Others

(* The writes. *)
LEMMA WriteData ==
  ASSUME Data(db), NEW st \in Stages, NEW new \in [AllKeys(st) -> Values \cup {Missing}]
  PROVE  Data([db EXCEPT ![st] = new])
BY DEF Data

LEMMA PutData ==
  ASSUME Data(db), NEW j, Ready("key", j) PROVE Data(Put(j))
<1>1. PICK st \in Stages : st = j.stage
  BY DEF Ready
<1> DEFINE new == [k \in AllKeys(st) |-> IF k \in DOMAIN j.ops THEN j.ops[k] ELSE db[st][k]]
<1>2. new \in [AllKeys(st) -> Values \cup {Missing}]
  BY DEF Data, Ready
<1>3. Put(j) = [db EXCEPT ![st] = new]
  BY <1>1 DEF Put, Data
<1> QED BY <1>2, <1>3, WriteData

LEMMA GlobalsData ==
  ASSUME Data(db), NEW e, NEW G
  PROVE  Data([db EXCEPT !["config"] =
                 [k \in DOMAIN @ |-> IF k[1] = e /\ k[2] \in G THEN Override ELSE @[k]]])
<1> DEFINE new == [k \in AllKeys("config") |->
                     IF k[1] = e /\ k[2] \in G THEN Override ELSE db["config"][k]]
<1>1. new \in [AllKeys("config") -> Values \cup {Missing}]
  BY DEF Data, Values, Stages
<1>2. DOMAIN db["config"] = AllKeys("config")
  BY DEF Data, Stages
<1> QED BY <1>1, <1>2, WriteData DEF Stages

LEMMA EmptiedData == ASSUME Data(db), NEW st \in Stages, NEW e PROVE Data(Emptied(st, e))
<1> DEFINE new == [k \in AllKeys(st) |-> IF k[1] \in Under[e] THEN Missing ELSE db[st][k]]
<1>1. new \in [AllKeys(st) -> Values \cup {Missing}]
  BY DEF Data
<1>2. Emptied(st, e) = [db EXCEPT ![st] = new]
  BY DEF Emptied, PrefixDelete, Data
<1> QED BY <1>1, <1>2, WriteData

LEMMA VersionData ==
  ASSUME Data(db), NEW e \in Envs, NEW v \in Versions
  PROVE  Data([db EXCEPT !["config"] = PutVersion(@, e, v)])
<1> DEFINE new == PutVersion(db["config"], e, v)
<1>1. AllKeys("config") = Keys
  BY DEF AllKeys, NamesOf, Keys
<1>2. \A k \in Keys : db["config"][k] \in Values \cup {Missing}
  BY <1>1 DEF Data, Stages
<1>3. new \in [AllKeys("config") -> Values \cup {Missing}]
  BY <1>1, <1>2 DEF PutVersion, Values
<1> QED BY <1>3, WriteData DEF Stages

LEMMA SecretsData ==
  ASSUME Data(db), NEW e \in Envs, MaxVersion \in Versions
  PROVE  Data([db EXCEPT !["secrets"] =
                 [k \in DOMAIN @ |-> IF k[1] = e THEN <<e, MaxVersion>> ELSE @[k]]])
<1> DEFINE new == [k \in AllKeys("secrets") |->
                     IF k[1] = e THEN <<e, MaxVersion>> ELSE db["secrets"][k]]
<1>1. new \in [AllKeys("secrets") -> Values \cup {Missing}]
  BY DEF Data, Values, Stages
<1>2. DOMAIN db["secrets"] = AllKeys("secrets")
  BY DEF Data, Stages
<1> QED BY <1>1, <1>2, WriteData DEF Stages

(* The jobs. *)
LEMMA GoesJobs ==
  ASSUME Jobs, NEW c \in Cloners, NEW place \in Places, NEW j, Goes(c, place, j), Ready(place, j)
  PROVE  Jobs'
BY DEF Jobs, Goes

LEMMA NoJobReady ==
  /\ IsJob(NoJob) /\ NoJob.stage = "config" /\ NoJob.cursor = 0 /\ NoJob.last = 0
  /\ NoJob.page = {} /\ DOMAIN NoJob.ops = {} /\ ~NoJob.twice /\ ~NoJob.lastErr
  /\ NoJob.twice \in BOOLEAN /\ NoJob.lastErr \in BOOLEAN
  /\ \A answer \in {"idle", "ok", "error"} : Ready(answer, NoJob)
<1>1. PICK i : i = NoJob
  OBVIOUS
<1>2. /\ IsJob(i) /\ i.stage = "config" /\ i.cursor = 0 /\ i.last = 0 /\ i.src = None /\ i.dst = None
      /\ i.page = {} /\ i.globs = {} /\ DOMAIN i.ops = {} /\ i.twice = FALSE /\ i.lastErr = FALSE
  BY <1>1 DEF IsJob, NoJob
<1>3. ASSUME NEW answer \in {"idle", "ok", "error"} PROVE Ready(answer, i)
  <2>1. answer \notin Calls \cup {"lock"} /\ answer # "key" /\ i.stage \in Stages
    BY <1>2 DEF Calls, Stages
  <2>2. i.twice \in BOOLEAN /\ i.lastErr \in BOOLEAN
    BY <1>2
  <2> QED BY <1>2, <2>1, <2>2 DEF Ready
<1> QED BY <1>1, <1>2, <1>3

LEMMA AnswerJobs ==
  ASSUME Jobs, NEW c \in Cloners, NEW answer \in {"ok", "error"}, Answer(c, answer) PROVE Jobs'
<1>1. PICK i : i = NoJob /\ Ready(answer, i)
  BY NoJobReady
<1>2. job' = [job EXCEPT ![c] = i] /\ cpc' = [cpc EXCEPT ![c] = answer] /\ mux' = None
  BY <1>1 DEF Answer
<1> QED BY <1>1, <1>2 DEF Jobs, Places

LEMMA NextStageJobs ==
  ASSUME Jobs, NEW c \in Cloners, cpc[c] \in Calls, NextStage(c) PROVE Jobs'
<1>1. PICK j : j = [job[c] EXCEPT !.stage = "secrets", !.cursor = 0, !.lastErr = FALSE]
  OBVIOUS
<1>2. Ready(cpc[c], job[c])
  BY DEF Jobs
<1>3. Ready("page", j)
  <2>1. /\ IsJob(j) /\ j.src = job[c].src /\ j.dst = job[c].dst /\ j.globs = job[c].globs
        /\ j.stage = "secrets" /\ j.cursor = 0 /\ j.page = job[c].page /\ j.last = job[c].last
        /\ j.ops = job[c].ops /\ j.twice = job[c].twice /\ j.lastErr = FALSE
    BY <1>1, <1>2 DEF Ready, IsJob
  <2>2. "secrets" \in Stages /\ j.src \in Envs /\ j.dst \in Targets
    BY <1>2, <2>1 DEF Ready, Stages
  <2>3. j.twice \in BOOLEAN /\ j.lastErr \in BOOLEAN
    BY <1>2, <2>1 DEF Ready
  <2> QED BY <1>2, <2>1, <2>2, <2>3 DEF Ready
<1>4. Ready("addenv", job[c])
  BY <1>2 DEF Ready, Calls
<1>5. Goes(c, "page", j) \/ Goes(c, "addenv", job[c])
  BY <1>1, Zenon DEF NextStage
<1> QED BY <1>3, <1>4, <1>5, GoesJobs DEF Places, Calls

LEMMA EndPageJobs ==
  ASSUME Jobs, NEW c \in Cloners, cpc[c] \in Calls, NEW err \in BOOLEAN, EndPage(c, err) PROVE Jobs'
<1>1. PICK j : j = [job[c] EXCEPT !.cursor = job[c].last, !.lastErr = err]
  OBVIOUS
<1>2. Ready(cpc[c], job[c])
  BY DEF Jobs
<1>3. Ready("page", j)
  <2>1. /\ IsJob(j) /\ j.src = job[c].src /\ j.dst = job[c].dst /\ j.globs = job[c].globs
        /\ j.stage = job[c].stage /\ j.cursor = job[c].last /\ j.page = job[c].page /\ j.last = job[c].last
        /\ j.ops = job[c].ops /\ j.twice = job[c].twice /\ j.lastErr = err
    BY <1>1, <1>2 DEF Ready, IsJob
  <2> QED BY <1>2, <2>1 DEF Ready, Calls
<1>4. Ready("cleanup", job[c]) /\ Ready("globals", job[c])
  BY <1>2 DEF Ready, Calls
<1>5. Goes(c, "page", j) \/ Goes(c, "cleanup", job[c]) \/ Goes(c, "globals", job[c]) \/ NextStage(c)
  BY <1>1, Zenon DEF EndPage
<1> QED BY <1>3, <1>4, <1>5, GoesJobs, NextStageJobs DEF Places, Calls

LEMMA BeginJobs ==
  ASSUME Jobs, NEW c \in Cloners, NEW e \in Envs, NEW n \in Targets, NEW G \in Overrides,
         BeginClone(c, e, n, G)
  PROVE  Jobs'
<1>1. CASE e \in Reserved
  <2>1. PICK i : i = NoJob /\ Ready("idle", i)
    BY NoJobReady
  <2>2. PICK j : j = [i EXCEPT !.src = e, !.dst = n, !.globs = G] /\ Goes(c, "lock", j)
    BY <1>1, <2>1 DEF BeginClone
  <2>3. /\ IsJob(j) /\ j.src = e /\ j.dst = n /\ j.globs = G /\ j.stage = i.stage
        /\ j.cursor = i.cursor /\ j.page = i.page /\ j.last = i.last
        /\ j.ops = i.ops /\ j.twice = i.twice /\ j.lastErr = i.lastErr
    BY <2>1, <2>2 DEF Ready, IsJob
  <2>4. Ready("lock", j)
    BY <2>1, <2>3, CloneAssumption DEF Ready
  <2> QED BY <2>2, <2>4, GoesJobs DEF Places
<1>2. CASE e \notin Reserved
  BY <1>2, NoJobReady, GoesJobs DEF BeginClone, Places
<1> QED BY <1>1, <1>2

(* The keys of a page are the stage's. *)
LEMMA RestKeys ==
  ASSUME NEW j, j.src \in Envs, j.stage \in Stages
  PROVE  /\ Rest(j) \subseteq AllKeys(j.stage)
         /\ \A k \in Rest(j) : Order[k] \in Nat \ {0}
<1>1. Rest(j) \subseteq AllKeys(j.stage)
  BY UnderAssumption DEF Rest, AllKeys
<1>2. AllKeys(j.stage) \subseteq Envs \X (Names \cup Secrets)
  BY DEF AllKeys, NamesOf
<1> QED BY <1>1, <1>2, CloneAssumption

LEMMA GetPageJobs == ASSUME Jobs, NEW c \in Cloners, GetPage(c) PROVE Jobs'
<1>1. Ready("page", job[c])
  BY DEF GetPage, Jobs
<1>2. ASSUME NEW page, NEW last, last \in PageEnds(Rest(job[c])), page = PageUpTo(Rest(job[c]), last),
             Goes(c, "key", [job[c] EXCEPT !.page = page, !.last = last,
                                           !.ops = NoJob.ops, !.twice = FALSE])
      PROVE  Jobs'
  <2>1. PICK j, ops : /\ j = [job[c] EXCEPT !.page = page, !.last = last, !.ops = ops, !.twice = FALSE]
                      /\ ops = NoJob.ops /\ Goes(c, "key", j)
    BY <1>2
  <2>2. /\ IsJob(j) /\ j.src = job[c].src /\ j.dst = job[c].dst /\ j.globs = job[c].globs
        /\ j.stage = job[c].stage /\ j.cursor = job[c].cursor /\ j.page = page /\ j.last = last
        /\ j.ops = ops /\ j.twice = FALSE /\ j.lastErr = job[c].lastErr
    BY <1>1, <2>1 DEF Ready, IsJob
  <2>3. DOMAIN ops = {}
    BY <2>1, NoJobReady
  <2>4. page \subseteq AllKeys(j.stage)
    BY <1>1, <1>2, <2>2, RestKeys DEF PageUpTo, Ready, Calls
  <2>5. last \in Nat
    <3>1. PICK keys : keys = Rest(job[c]) /\ \A k \in keys : Order[k] \in Nat
      BY <1>1, RestKeys DEF Ready, Calls
    <3>2. last = 0 \/ \E k \in keys : last = Order[k]
      BY <1>2, <3>1 DEF PageEnds
    <3> QED BY <3>1, <3>2
  <2>6. AllKeys(j.stage) \subseteq AllKeys("config") \cup AllKeys("secrets")
    BY <1>1, <2>2 DEF Ready, Stages
  <2>7. Ready("key", j)
    BY <1>1, <2>2, <2>3, <2>4, <2>5, <2>6 DEF Ready, Calls
  <2> QED BY <2>1, <2>7, GoesJobs DEF Places, Calls
<1>3. \/ \E page, last : /\ last \in PageEnds(Rest(job[c])) /\ page = PageUpTo(Rest(job[c]), last)
                          /\ Goes(c, "key", [job[c] EXCEPT !.page = page, !.last = last,
                                                           !.ops = NoJob.ops, !.twice = FALSE])
      \/ Answer(c, "error") \/ Goes(c, "undo", job[c])
  BY Zenon DEF GetPage
<1>4. Ready("undo", job[c])
  BY <1>1 DEF Ready, Calls
<1> QED BY <1>2, <1>3, <1>4, GoesJobs, AnswerJobs DEF Places, Calls

LEMMA GetKeyJobs == ASSUME Data(db), Jobs, NEW c \in Cloners, GetKey(c) PROVE Jobs'
<1>1. Ready("key", job[c])
  BY DEF GetKey, Jobs
<1>2. ASSUME NEW k \in job[c].page, NEW v \in Values, NEW w \in BOOLEAN,
             Goes(c, "key", [job[c] EXCEPT !.page = @ \ {k},
                                           !.ops = WithPut(@, NewKey(job[c], k), v), !.twice = w])
      PROVE  Jobs'
  <2>1. PICK j, page, ops : /\ j = [job[c] EXCEPT !.page = page, !.ops = ops, !.twice = w]
                            /\ page = job[c].page \ {k}
                            /\ ops = WithPut(job[c].ops, NewKey(job[c], k), v)
                            /\ Goes(c, "key", j)
    BY <1>2
  <2>2. /\ IsJob(j) /\ j.src = job[c].src /\ j.dst = job[c].dst /\ j.globs = job[c].globs
        /\ j.stage = job[c].stage /\ j.cursor = job[c].cursor /\ j.page = page /\ j.last = job[c].last
        /\ j.ops = ops /\ j.twice = w /\ j.lastErr = job[c].lastErr
    BY <1>1, <2>1 DEF Ready, IsJob
  <2>3. k \in AllKeys(j.stage) /\ NewKey(job[c], k) \in AllKeys(j.stage)
    BY <1>1, <2>2, CloneAssumption DEF Ready, Calls, NewKey, AllKeys
  <2>4. DOMAIN ops \subseteq AllKeys(j.stage) /\ \A l \in DOMAIN ops : ops[l] \in Values
    BY <1>1, <2>1, <2>2, <2>3 DEF Ready, WithPut
  <2>5. AllKeys(j.stage) \subseteq AllKeys("config") \cup AllKeys("secrets")
    BY <1>1, <2>2 DEF Ready, Stages
  <2>6. page \subseteq AllKeys(j.stage)
    BY <1>1, <2>1, <2>2 DEF Ready
  <2>7. Ready("key", j)
    BY <1>1, <2>2, <2>4, <2>5, <2>6 DEF Ready
  <2> QED BY <2>1, <2>7, GoesJobs DEF Places, Calls
<1>3. \/ \E k \in job[c].page : \E w \in BOOLEAN :
           /\ db[job[c].stage][k] # Missing
           /\ Goes(c, "key", [job[c] EXCEPT !.page = @ \ {k},
                                            !.ops = WithPut(@, NewKey(job[c], k), db[job[c].stage][k]),
                                            !.twice = w])
      \/ Answer(c, "error") \/ Goes(c, "cleanup", job[c])
  <2>1. \A k : (job[c].twice \/ NewKey(job[c], k) \in DOMAIN job[c].ops) \in BOOLEAN
    OBVIOUS
  <2> QED BY <2>1, Zenon DEF GetKey
<1>4. \A k \in job[c].page : db[job[c].stage][k] \in Values \cup {Missing}
  BY <1>1 DEF Ready, Data
<1>5. Ready("cleanup", job[c])
  BY <1>1 DEF Ready, Calls
<1> QED BY <1>2, <1>3, <1>4, <1>5, GoesJobs, AnswerJobs DEF Places, Calls

-----------------------------------------------------------------------------
LEMMA TypeInit == Init => TypeInv
<1> SUFFICES ASSUME Init PROVE TypeInv
  OBVIOUS
<1>1. PICK v \in [Reserved -> Versions] :
        db = [s \in Stages |->
                [k \in Envs \X NamesOf(s) |->
                   IF k[1] \in Reserved /\ (s = "config" => k[2] \in Content[v[k[1]]])
                   THEN <<k[1], v[k[1]]>> ELSE Missing]]
  BY DEF Init
<1>2. Data(db)
  BY <1>1 DEF Data, AllKeys, Values
<1>3. Jobs
  BY NoJobReady DEF Init, Jobs, Places
<1>4. MaxVersion \in Versions
  <2>1. uenv \in Reserved /\ v[uenv] \in Versions
    BY DEF Init
  <2> QED BY <2>1, NamesAssumption DEF Versions
<1>5. Others
  BY <1>4, NamesAssumption DEF Init, Others
<1> QED BY <1>2, <1>3, <1>5 DEF TypeInv

(* A step of a clone that holds the lock. *)
LEMMA CloneTypes ==
  ASSUME TypeInv, NEW c \in Cloners, Clone(c), ~LockMux(c) PROVE TypeInv'
<1>1. cpc[c] \in Calls /\ GoesOn(c) /\ UNCHANGED deleter
  BY HolderSteps DEF Clone
<1>2. UNCHANGED poller /\ base' \in {base, None} /\ failed' \in BOOLEAN /\ faults' \in Nat
  <2>1. base' \in {base, None}
    BY <1>1, Zenon DEF GoesOn, Goes, Answer
  <2>2. failed' \in BOOLEAN /\ faults' \in Nat
    <3>1. Succeeds \/ CallFails \/ (UNCHANGED faults /\ failed' = TRUE)
      BY Zenon DEF Clone, GetPage, GetKey, PutPage, PutGlobals, Cleanup, AddEnv, Undo
    <3>2. failed' \in BOOLEAN
      BY <3>1, Zenon DEF Succeeds, CallFails, TypeInv, Others
    <3>3. faults' \in Nat
      <4>1. faults \in Nat /\ (faults' = faults \/ faults' = faults + 1)
        BY <3>1, Zenon DEF Succeeds, CallFails, Fail, TypeInv, Others
      <4> QED BY <4>1
    <3> QED BY <3>2, <3>3
  <2>3. UNCHANGED poller
    BY DEF Clone, GetPage, GetKey, PutPage, PutGlobals, Cleanup, AddEnv, Undo
  <2> QED BY <2>1, <2>2, <2>3
<1>3. Ready(cpc[c], job[c]) /\ job[c].src \in Envs /\ job[c].dst \in Envs
  BY <1>1, CloneAssumption DEF TypeInv, Jobs, Ready
<1>4. meta' \in [Envs -> Envs \cup {None}]
  <2>1. meta' \in {meta, [meta EXCEPT ![job[c].dst] = job[c].src]}
    BY Zenon DEF Clone, GetPage, GetKey, PutPage, PutGlobals, Cleanup, AddEnv, Undo, etcd
  <2> QED BY <1>3, <2>1 DEF TypeInv, Others
<1>5. Others'
  BY <1>1, <1>2, <1>4 DEF TypeInv, Others, poller, deleter
<1> SUFFICES Data(db)' /\ Jobs'
  BY <1>5 DEF TypeInv
<1> USE DEF TypeInv
<1>6. CASE GetPage(c)
  BY <1>6, GetPageJobs DEF GetPage, etcd
<1>7. CASE GetKey(c)
  BY <1>7, GetKeyJobs DEF GetKey, etcd
<1>8. CASE PutPage(c)
  <2>1. db' \in {db, Put(job[c])} /\ \E err \in BOOLEAN : EndPage(c, err)
    BY <1>3, <1>8 DEF PutPage, Ready
  <2>2. Ready("key", job[c])
    BY <1>3, <1>8 DEF PutPage
  <2> QED BY <1>1, <2>1, <2>2, EndPageJobs, PutData
<1>9. Ready("cleanup", job[c]) /\ Ready("undo", job[c])
  BY <1>3, <1>1 DEF Ready, Calls
<1>10. CASE PutGlobals(c)
  <2>1. NextStage(c) \/ Goes(c, "cleanup", job[c])
    BY <1>10 DEF PutGlobals
  <2>2. Data(db)'
    BY <1>10, GlobalsData DEF PutGlobals
  <2> QED BY <1>1, <1>9, <2>1, <2>2, NextStageJobs, GoesJobs DEF Places, Calls
<1>11. CASE Cleanup(c)
  <2>1. NextStage(c) \/ Answer(c, "error") \/ Goes(c, "undo", job[c])
    BY <1>11 DEF Cleanup
  <2>2. Data(db)'
    BY <1>3, <1>11, EmptiedData DEF Cleanup, Ready
  <2> QED BY <1>1, <1>9, <2>1, <2>2, NextStageJobs, GoesJobs, AnswerJobs DEF Places, Calls
<1>12. CASE AddEnv(c)
  BY <1>9, <1>12, GoesJobs, AnswerJobs DEF AddEnv, Places, Calls
<1>13. CASE Undo(c)
  BY <1>13, EmptiedData, AnswerJobs DEF Undo, Stages
<1> QED BY <1>6, <1>7, <1>8, <1>10, <1>11, <1>12, <1>13 DEF Clone

LEMMA TypeStep == ASSUME TypeInv, [Next]_vars PROVE TypeInv'
<1> USE DEF TypeInv
<1>1. UNCHANGED <<mux, cpc, job>> => Jobs'
  BY DEF Jobs
<1>2. UNCHANGED cloner => Jobs' /\ base' = base /\ failed' = failed
  BY <1>1 DEF cloner
<1>3. Disturb => Jobs' /\ base' = None /\ failed' = failed
  BY <1>1 DEF Disturb
<1>4. ASSUME NEW c \in Cloners, NEW e \in Envs, NEW n \in Targets, NEW G \in Overrides,
             BeginClone(c, e, n, G)
      PROVE  TypeInv'
  <2>1. UNCHANGED <<etcd, poller, base, failed, deleter, faults>>
    BY <1>4 DEF BeginClone, Goes
  <2> QED BY <1>4, <2>1, BeginJobs DEF Others, etcd, poller, deleter
<1>5. ASSUME NEW c \in Cloners, LockMux(c) PROVE TypeInv'
  <2>1. Ready("page", job[c])
    BY <1>5 DEF LockMux, Jobs, Ready, Calls
  <2>2. Jobs'
    BY <1>5, <2>1 DEF LockMux, Jobs, Places, Calls
  <2>3. DOMAIN base' = Stages /\ failed' \in BOOLEAN
    BY <1>5 DEF LockMux, Data
  <2> QED BY <1>5, <2>2, <2>3 DEF LockMux, Others, etcd, poller, deleter
<1>6. ASSUME NEW e \in Reserved, BeginUpsert(e) PROVE TypeInv'
  BY <1>3, <1>6, EmptiedData DEF BeginUpsert, Others, deleter, Stages
<1>7. ASSUME NEW v \in Versions, EndUpsert(v) PROVE TypeInv'
  BY <1>3, <1>7, VersionData, NamesAssumption DEF EndUpsert, Others, deleter
<1>8. ASSUME NEW e \in Envs, UpsertSecrets(e) PROVE TypeInv'
  BY <1>3, <1>8, SecretsData DEF UpsertSecrets, Others, poller, deleter
<1>9. ASSUME NEW d \in Deleters, NEW e \in Envs, BeginDelete(d, e) PROVE TypeInv'
  BY <1>2, <1>9 DEF BeginDelete, Others, etcd, poller
<1>10. ASSUME NEW d \in Deleters, DeleteKeys(d) PROVE TypeInv'
  <2>1. Data(db)'
    BY <1>10, EmptiedData DEF DeleteKeys, Stages
  <2> QED BY <1>3, <1>10, <2>1 DEF DeleteKeys, EndDelete, Fail, Others, poller
<1>11. ASSUME NEW d \in Deleters, DeleteMeta(d) PROVE TypeInv'
  <2>1. meta' \in [Envs -> Envs \cup {None}]
    BY <1>11 DEF DeleteMeta, Others
  <2> QED BY <1>3, <1>11, <2>1 DEF DeleteMeta, EndDelete, Fail, Others, poller
<1>12. CASE Crash
  <2>1. Jobs'
    BY <1>12, NoJobReady DEF Crash, Jobs, Places
  <2> QED BY <1>12, <2>1 DEF Crash, Fail, Others, etcd
<1>13. CASE UNCHANGED vars
  BY <1>2, <1>13 DEF vars, Others, etcd, poller, deleter
<1> QED
  BY <1>4, <1>5, <1>6, <1>7, <1>8, <1>9, <1>10, <1>11, <1>12, <1>13, CloneTypes DEF Next, Clone

LEMMA TypeInvariance == Spec => []TypeInv
BY TypeInit, TypeStep, PTL DEF Spec

(* The types of the state: jobs of clones hold keys and values of their    *)
(* stage, whatever the pages, failures and requests are.                   *)
THEOREM TypeCorrect == Spec => []TypeOK
<1>1. TypeInv => TypeOK
  <2> SUFFICES ASSUME TypeInv PROVE TypeOK
    OBVIOUS
  <2>1. \A st \in Stages : db[st] \in [AllKeys(st) -> Values \cup {Missing}]
    BY DEF TypeInv, Data
  <2>2. cpc \in [Cloners -> {"idle", "lock", "page", "key", "globals", "cleanup", "addenv", "undo",
                             "ok", "error"}]
    BY DEF TypeInv, Jobs, Places, Calls
  <2>3. ASSUME NEW c \in Cloners PROVE DOMAIN job[c] = DOMAIN NoJob
    <3>1. IsJob(job[c]) /\ IsJob(NoJob)
      BY NoJobReady DEF TypeInv, Jobs, Ready
    <3>2. \A j : IsJob(j) => DOMAIN j = {"src", "dst", "globs", "stage", "cursor", "page", "last",
                                         "ops", "twice", "lastErr"}
      BY DEF IsJob
    <3> QED BY <3>1, <3>2
  <2> QED BY <2>1, <2>2, <2>3 DEF TypeInv, Jobs, Ready, Others, TypeOK
<1> QED BY <1>1, TypeInvariance, PTL

-----------------------------------------------------------------------------
(* What a clone copies while nobody else writes.  d is the state of etcd, b
   what it was when the lock was taken.                                    *)
Own == Targets \cap Reserved = {}

(* The source's keys are what they were. *)
Intact(j, d, b) ==
  \A n \in NamesOf(j.stage) : d[j.stage][<<j.src, n>>] = b[j.stage][<<j.src, n>>]

(* What the source does not have stays as it was at the target. *)
Spared(j, d, b) ==
  \A n \in NamesOf(j.stage) : b[j.stage][<<j.src, n>>] = Missing =>
    d[j.stage][<<j.dst, n>>] = b[j.stage][<<j.dst, n>>]

(* The source's name n has been copied. *)
Has(j, d, b, n) == d[j.stage][<<j.dst, n>>] = b[j.stage][<<j.src, n>>]

(* Before a page: the keys up to the cursor have been copied. *)
Paged(j, d, b) ==
  /\ Intact(j, d, b) /\ Spared(j, d, b)
  /\ ~j.lastErr => \A n \in NamesOf(j.stage) :
       b[j.stage][<<j.src, n>>] # Missing => Order[<<j.src, n>>] > j.cursor \/ Has(j, d, b, n)

(* Within a page: with the puts prepared, those up to its end have been, but
   for the ones it still has to get.                                       *)
Keyed(j, d, b, new) ==
  /\ Intact(j, d, b) /\ Spared(j, d, b)
  /\ Intact(j, new, b) /\ Spared(j, new, b)
  /\ ~j.lastErr /\ ~j.twice => \A n \in NamesOf(j.stage) :
       b[j.stage][<<j.src, n>>] # Missing =>
         \/ <<j.src, n>> \in j.page
         \/ j.last # 0 /\ Order[<<j.src, n>>] > j.last
         \/ Has(j, new, b, n)

(* The value a name of the clone should have. *)
Wanted(j, st, b, n) == IF st = "config" /\ n \in j.globs THEN Override ELSE b[st][<<j.src, n>>]

(* A stage is over: the clone has everything and nothing else was written,
   or, after an error, it has nothing.                                     *)
Result(j, st, d, b, bad) ==
  \/ bad /\ \A n \in NamesOf(st) : d[st][<<j.dst, n>>] = Missing
  \/ \A n \in NamesOf(st) :
       d[st][<<j.dst, n>>] = IF Wanted(j, st, b, n) = Missing THEN b[st][<<j.dst, n>>]
                             ELSE Wanted(j, st, b, n)

Phase(place, j, d, new, b, bad) ==
  /\ place \in {"page", "key", "globals", "cleanup"} /\ j.stage = "config" =>
       d["secrets"] = b["secrets"]
  /\ \/ place \in {"page", "key", "globals", "cleanup"} /\ j.stage = "secrets"
     \/ place = "addenv"
     => Result(j, "config", d, b, bad)
  /\ place \in {"page", "key"} /\ j.lastErr => bad
  /\ place = "page" => Paged(j, d, b)
  /\ place = "key" => Keyed(j, d, b, new)
  /\ place = "globals" =>
       /\ j.stage = "config" /\ Spared(j, d, b)
       /\ \A n \in Names : b["config"][<<j.src, n>>] # Missing => Has(j, d, b, n)
  /\ place = "cleanup" => bad
  /\ place = "addenv" => Result(j, "secrets", d, b, bad)

(* The copies are in order if nobody disturbed the clone. *)
Ordered(c) == base # None => Phase(cpc[c], job[c], db, Put(job[c]), base, failed)

HalfInv ==
  \A c \in Cloners :
    /\ UnderWay(c) => job[c].src \in Reserved
    /\ cpc[c] = "lock" => job[c].stage = "config" /\ job[c].cursor = 0 /\ ~job[c].lastErr
    /\ mux = c => Ordered(c)

(* The position of a key the source may have. *)
LEMMA KeyFacts ==
  ASSUME NEW st \in Stages, NEW e \in Envs, NEW n \in NamesOf(st)
  PROVE  <<e, n>> \in AllKeys(st) /\ Order[<<e, n>>] \in Nat \ {0}
<1>1. <<e, n>> \in AllKeys(st) /\ <<e, n>> \in Envs \X (Names \cup Secrets)
  BY DEF AllKeys, NamesOf
<1> QED BY <1>1, CloneAssumption

LEMMA PutIs ==
  ASSUME Data(db), NEW j, j.stage \in Stages
  PROVE  /\ \A k \in AllKeys(j.stage) :
              Put(j)[j.stage][k] = IF k \in DOMAIN j.ops THEN j.ops[k] ELSE db[j.stage][k]
         /\ \A st \in Stages : st # j.stage => Put(j)[st] = db[st]
BY DEF Put, Data

(* Only the names of its environments and its globals matter to a result. *)
LEMMA SameResult ==
  ASSUME NEW i, NEW j, i.src = j.src, i.dst = j.dst, i.globs = j.globs,
         NEW st, NEW d, NEW b, NEW bad, Result(i, st, d, b, bad)
  PROVE  Result(j, st, d, b, bad)
BY DEF Result, Wanted

(* The next call of a clone. *)
LEMMA GoesPhase ==
  ASSUME Jobs, NEW c \in Cloners, NEW place \in Places, NEW j, Goes(c, place, j), base # None,
         Phase(place, j, db', (Put(j))', base, failed')
  PROVE  Ordered(c)'
<1>1. cpc'[c] = place /\ job'[c] = j /\ base' = base
  BY DEF Goes, Jobs
<1>2. (Put(job[c]))' = (Put(j))'
  BY <1>1 DEF Put
<1> QED BY <1>1, <1>2 DEF Ordered

LEMMA AnswerPhase == ASSUME NEW c, NEW answer, Answer(c, answer) PROVE Ordered(c)'
BY DEF Answer, Ordered

LEMMA NextStagePhase ==
  ASSUME Jobs, NEW c \in Cloners, cpc[c] \in Calls, NextStage(c), base # None,
         NEW j, j = job[c], Result(j, "config", db', base, failed'),
         j.stage = "config" => db'["secrets"] = base["secrets"],
         j.stage = "secrets" => Result(j, "secrets", db', base, failed')
  PROVE  Ordered(c)'
<1>1. Ready(cpc[c], j)
  BY DEF Jobs
<1>2. CASE j.stage = "config"
  <2>1. PICK i : /\ i = [j EXCEPT !.stage = "secrets", !.cursor = 0, !.lastErr = FALSE]
                 /\ Goes(c, "page", i)
    BY <1>2 DEF NextStage
  <2>2. /\ i.src = j.src /\ i.dst = j.dst /\ i.globs = j.globs /\ i.stage = "secrets"
        /\ i.cursor = 0 /\ i.lastErr = FALSE
    BY <1>1, <2>1 DEF Ready, IsJob
  <2>3. Result(i, "config", db', base, failed')
    BY <2>2, SameResult
  <2>4. Paged(i, db', base)
    <3>1. i.src \in Envs /\ "secrets" \in Stages
      BY <1>1, <2>2 DEF Ready, Stages
    <3>2. \A n \in NamesOf("secrets") : Order[<<i.src, n>>] \in Nat \ {0}
      BY <3>1, KeyFacts
    <3>3. \A n \in NamesOf("secrets") : Order[<<i.src, n>>] > 0
      BY <3>2
    <3> QED BY <1>2, <2>2, <3>3 DEF Paged, Intact, Spared
  <2>5. Phase("page", i, db', (Put(i))', base, failed')
    BY <2>2, <2>3, <2>4 DEF Phase
  <2> QED BY <2>1, <2>5, GoesPhase DEF Places, Calls
<1>3. CASE j.stage # "config"
  <2>1. Goes(c, "addenv", j) /\ j.stage = "secrets"
    BY <1>1, <1>3 DEF NextStage, Ready, Stages
  <2>2. Phase("addenv", j, db', (Put(j))', base, failed')
    BY <2>1 DEF Phase
  <2> QED BY <2>1, <2>2, GoesPhase DEF Places, Calls
<1> QED BY <1>2, <1>3

(* A stage whose every name has been copied. *)
LEMMA CopiedResult ==
  ASSUME NEW j, NEW d, NEW b, NEW bad, Spared(j, d, b), j.stage = "config" => j.globs = {},
         \A n \in NamesOf(j.stage) : b[j.stage][<<j.src, n>>] # Missing => Has(j, d, b, n)
  PROVE  Result(j, j.stage, d, b, bad)
BY DEF Result, Wanted, Spared, Has

LEMMA EndPagePhase ==
  ASSUME Jobs, NEW c \in Cloners, cpc[c] \in Calls, NEW err \in BOOLEAN, EndPage(c, err),
         base # None, NEW j, j = job[c],
         Intact(j, db', base), Spared(j, db', base),
         err => failed',
         ~err => \A n \in NamesOf(j.stage) : base[j.stage][<<j.src, n>>] # Missing =>
                   (j.last # 0 /\ Order[<<j.src, n>>] > j.last) \/ Has(j, db', base, n),
         j.stage = "config" => db'["secrets"] = base["secrets"],
         j.stage = "secrets" => Result(j, "config", db', base, failed')
  PROVE  Ordered(c)'
<1>1. Ready(cpc[c], j) /\ j.stage \in Stages
  BY DEF Jobs, Ready
<1>2. CASE j.last # 0
  <2>1. PICK i : i = [j EXCEPT !.cursor = j.last, !.lastErr = err] /\ Goes(c, "page", i)
    BY <1>2 DEF EndPage
  <2>2. /\ i.src = j.src /\ i.dst = j.dst /\ i.globs = j.globs /\ i.stage = j.stage
        /\ i.cursor = j.last /\ i.lastErr = err
    BY <1>1, <2>1 DEF Ready, IsJob
  <2>3. i.stage = "secrets" => Result(i, "config", db', base, failed')
    BY <2>2, SameResult
  <2>4. Paged(i, db', base)
    BY <2>2 DEF Paged, Intact, Spared, Has
  <2>5. Phase("page", i, db', (Put(i))', base, failed')
    BY <2>2, <2>3, <2>4 DEF Phase
  <2> QED BY <2>1, <2>5, GoesPhase DEF Places, Calls
<1>3. CASE j.last = 0 /\ err
  <2>1. Phase("cleanup", j, db', (Put(j))', base, failed')
    BY <1>3 DEF Phase
  <2>2. Goes(c, "cleanup", j)
    BY <1>3 DEF EndPage
  <2> QED BY <2>1, <2>2, GoesPhase DEF Places, Calls
<1>4. CASE j.last = 0 /\ ~err /\ j.stage = "config" /\ j.globs # {}
  <2>1. Phase("globals", j, db', (Put(j))', base, failed')
    BY <1>4 DEF Phase, NamesOf
  <2>2. Goes(c, "globals", j)
    BY <1>4 DEF EndPage
  <2> QED BY <2>1, <2>2, GoesPhase DEF Places, Calls
<1>5. CASE j.last = 0 /\ ~err /\ ~(j.stage = "config" /\ j.globs # {})
  <2>1. NextStage(c)
    BY <1>5 DEF EndPage
  <2>2. Result(j, j.stage, db', base, failed')
    BY <1>5, CopiedResult
  <2>3. Result(j, "config", db', base, failed')
    BY <1>1, <2>2 DEF Stages
  <2> QED BY <2>1, <2>2, <2>3, NextStagePhase
<1> QED BY <1>2, <1>3, <1>4, <1>5

(* A page: of the source's names after the cursor, it holds those up to its
   end.                                                                    *)
LEMMA GetPagePhase ==
  ASSUME TypeInv, NEW c \in Cloners, GetPage(c), base # None, Ordered(c) PROVE Ordered(c)'
<1>1. PICK j : j = job[c] /\ Ready("page", j) /\ Phase("page", j, db, Put(j), base, failed)
  BY DEF GetPage, TypeInv, Jobs, Ordered
<1>2. j.src \in Envs /\ j.dst \in Envs /\ j.stage \in Stages /\ Data(db) /\ Jobs
  BY <1>1, CloneAssumption DEF Ready, Calls, TypeInv
<1>3. db' = db
  BY DEF GetPage, etcd
<1>4. ASSUME NEW last, failed' = failed,
             Goes(c, "key", [j EXCEPT !.page = PageUpTo(Rest(j), last), !.last = last,
                                      !.ops = NoJob.ops, !.twice = FALSE])
      PROVE  Ordered(c)'
  <2>1. PICK i, page, ops : /\ i = [j EXCEPT !.page = page, !.last = last, !.ops = ops, !.twice = FALSE]
                            /\ page = PageUpTo(Rest(j), last)
                            /\ ops = NoJob.ops /\ Goes(c, "key", i)
    BY <1>4
  <2>2. /\ i.src = j.src /\ i.dst = j.dst /\ i.globs = j.globs /\ i.stage = j.stage
        /\ i.page = page /\ i.last = last /\ i.ops = ops /\ i.lastErr = j.lastErr
    BY <1>1, <2>1 DEF Ready, IsJob
  <2>3. DOMAIN ops = {}
    BY <2>1, NoJobReady
  <2>4. \A k \in AllKeys(i.stage) : Put(i)[i.stage][k] = db[i.stage][k]
    BY <1>2, <2>2, <2>3, PutIs
  <2>5. Put(i)' = Put(i)
    BY <1>3 DEF Put
  <2>6. \A n \in NamesOf(j.stage) : <<j.src, n>> \in AllKeys(j.stage) /\ <<j.dst, n>> \in AllKeys(j.stage)
    BY <1>2, KeyFacts
  <2>7. ASSUME ~j.lastErr, NEW n \in NamesOf(j.stage), base[j.stage][<<j.src, n>>] # Missing
        PROVE  \/ <<j.src, n>> \in page
               \/ last # 0 /\ Order[<<j.src, n>>] > last
               \/ Has(j, db, base, n)
    <3>1. Order[<<j.src, n>>] > j.cursor \/ Has(j, db, base, n)
      BY <1>1, <2>7 DEF Phase, Paged
    <3>2. CASE Order[<<j.src, n>>] > j.cursor
      <4>1. <<j.src, n>> \in Under[j.src] \X NamesOf(j.stage)
        BY <1>2, UnderAssumption
      <4>2. db[j.stage][<<j.src, n>>] # Missing
        BY <1>1, <2>7 DEF Phase, Paged, Intact
      <4>3. <<j.src, n>> \in Rest(j)
        BY <3>2, <4>1, <4>2 DEF Rest
      <4>4. last \in Nat /\ Order[<<j.src, n>>] \in Nat
        <5>1. last = i.last /\ Ready("key", i)
          <6>1. Jobs'
            BY GetPageJobs DEF TypeInv
          <6>2. job'[c] = i /\ cpc'[c] = "key"
            BY <2>1, <1>2 DEF Goes, Jobs
          <6> QED BY <2>2, <6>1, <6>2 DEF Jobs
        <5>2. Order[<<j.src, n>>] \in Nat
          BY <1>2, KeyFacts
        <5> QED BY <5>1, <5>2 DEF Ready
      <4> QED BY <2>1, <4>3, <4>4 DEF PageUpTo
    <3> QED BY <3>1, <3>2
  <2>8. Keyed(i, db, base, Put(i))
    <3>1. Intact(j, db, base) /\ Spared(j, db, base)
      BY <1>1 DEF Phase, Paged
    <3>2. Intact(i, db, base) /\ Spared(i, db, base)
      BY <2>2, <3>1 DEF Intact, Spared
    <3>3. Intact(i, Put(i), base) /\ Spared(i, Put(i), base)
      BY <2>2, <2>4, <2>6, <3>2 DEF Intact, Spared
    <3>4. \A n \in NamesOf(i.stage) : Has(i, Put(i), base, n) = Has(j, db, base, n)
      BY <2>2, <2>4, <2>6 DEF Has
    <3> QED BY <2>2, <2>7, <3>2, <3>3, <3>4 DEF Keyed
  <2>9. i.stage = "secrets" => Result(i, "config", db, base, failed)
    BY <1>1, <2>2, SameResult DEF Phase
  <2>10. Phase("key", i, db', (Put(i))', base, failed')
    BY <1>1, <1>3, <1>4, <2>2, <2>5, <2>8, <2>9 DEF Phase
  <2> QED BY <1>2, <2>1, <2>10, GoesPhase DEF Places, Calls
<1>5. CASE Goes(c, "undo", j)
  BY <1>2, <1>5, GoesPhase DEF Phase, Places, Calls
<1>6. \/ \E last : /\ failed' = failed
                   /\ Goes(c, "key", [j EXCEPT !.page = PageUpTo(Rest(j), last), !.last = last,
                                               !.ops = NoJob.ops, !.twice = FALSE])
      \/ Answer(c, "error") \/ Goes(c, "undo", j)
  BY <1>1, Zenon DEF GetPage, Succeeds
<1> QED BY <1>4, <1>5, <1>6, AnswerPhase

(* The copy of a key takes the place of the source's name, unless it is its
   own key, of a name that was not copied in this page.                    *)
LEMMA GetKeyPhase ==
  ASSUME TypeInv, NEW c \in Cloners, GetKey(c), base # None, Ordered(c),
         job[c].src # job[c].dst
  PROVE  Ordered(c)'
<1>1. PICK j : j = job[c] /\ Ready("key", j) /\ Phase("key", j, db, Put(j), base, failed)
  BY DEF GetKey, TypeInv, Jobs, Ordered
<1>2. j.src \in Envs /\ j.dst \in Envs /\ j.stage \in Stages /\ Data(db) /\ Jobs
  BY <1>1, CloneAssumption DEF Ready, Calls, TypeInv
<1>3. db' = db
  BY DEF GetKey, etcd
<1>4. ASSUME NEW k \in j.page, db[j.stage][k] # Missing, failed' = failed,
             Goes(c, "key", [j EXCEPT !.page = @ \ {k},
                                      !.ops = WithPut(@, NewKey(j, k), db[j.stage][k]),
                                      !.twice = @ \/ NewKey(j, k) \in DOMAIN j.ops])
      PROVE  Ordered(c)'
  <2>1. PICK i, page, ops, l, w :
          /\ i = [j EXCEPT !.page = page, !.ops = ops, !.twice = w]
          /\ page = j.page \ {k} /\ l = NewKey(j, k)
          /\ ops = WithPut(j.ops, l, db[j.stage][k]) /\ Goes(c, "key", i)
          /\ (w <=> j.twice \/ l \in DOMAIN j.ops)
    BY <1>4
  <2>2. /\ i.src = j.src /\ i.dst = j.dst /\ i.globs = j.globs /\ i.stage = j.stage
        /\ i.page = page /\ i.last = j.last /\ i.ops = ops /\ i.lastErr = j.lastErr
        /\ (i.twice <=> j.twice \/ l \in DOMAIN j.ops)
    BY <1>1, <2>1 DEF Ready, IsJob
  <2>3. k \in AllKeys(j.stage)
    BY <1>1 DEF Ready
  <2>4. k = <<k[1], k[2]>> /\ k[2] \in NamesOf(j.stage)
    BY <2>3 DEF AllKeys
  <2>5. l = IF k[1] = j.src THEN <<j.dst, k[2]>> ELSE k
    BY <2>1 DEF NewKey
  <2> DEFINE old == Put(j)[j.stage]
             new == Put(i)[j.stage]
  <2>6. \A a \in AllKeys(j.stage) :
          /\ old[a] = IF a \in DOMAIN j.ops THEN j.ops[a] ELSE db[j.stage][a]
          /\ new[a] = IF a = l THEN db[j.stage][k] ELSE old[a]
    <3>1. \A a \in AllKeys(j.stage) :
            old[a] = IF a \in DOMAIN j.ops THEN j.ops[a] ELSE db[j.stage][a]
      BY <1>2, PutIs
    <3>2. \A a \in AllKeys(j.stage) :
            new[a] = IF a \in DOMAIN ops THEN ops[a] ELSE db[j.stage][a]
      BY <1>2, <2>2, PutIs
    <3>3. DOMAIN ops = DOMAIN j.ops \cup {l}
          /\ \A a \in DOMAIN ops : ops[a] = IF a = l THEN db[j.stage][k] ELSE j.ops[a]
      BY <2>1 DEF WithPut
    <3> HIDE DEF old, new
    <3> QED BY <3>1, <3>2, <3>3
  <2>7. \A n \in NamesOf(j.stage) : <<j.src, n>> \in AllKeys(j.stage) /\ <<j.dst, n>> \in AllKeys(j.stage)
    BY <1>2, KeyFacts
  <2>8. Intact(j, db, base) /\ Spared(j, db, base) /\ Intact(j, Put(j), base) /\ Spared(j, Put(j), base)
    BY <1>1 DEF Phase, Keyed
  <2>9. Intact(i, Put(i), base)
    <3> SUFFICES ASSUME NEW n \in NamesOf(j.stage) PROVE new[<<j.src, n>>] = base[j.stage][<<j.src, n>>]
      BY <2>2 DEF Intact
    <3>1. old[<<j.src, n>>] = base[j.stage][<<j.src, n>>]
      BY <2>8 DEF Intact
    <3>2. <<j.src, n>> # l
      BY <1>1, <2>4, <2>5
    <3> HIDE DEF old, new
    <3> QED BY <2>6, <2>7, <3>1, <3>2
  <2>10. Spared(i, Put(i), base)
    <3> SUFFICES ASSUME NEW n \in NamesOf(j.stage), base[j.stage][<<j.src, n>>] = Missing
                 PROVE  new[<<j.dst, n>>] = base[j.stage][<<j.dst, n>>]
      BY <2>2 DEF Spared
    <3>1. /\ old[<<j.dst, n>>] = base[j.stage][<<j.dst, n>>]
          /\ db[j.stage][<<j.dst, n>>] = base[j.stage][<<j.dst, n>>]
      BY <2>8 DEF Spared
    <3>2. CASE l = <<j.dst, n>>
      <4>1. k # <<j.src, n>>
        BY <1>4, <2>8 DEF Intact
      <4>2. k = <<j.dst, n>>
        BY <2>4, <2>5, <3>2, <4>1
      <4> HIDE DEF old, new
      <4> QED BY <2>6, <2>7, <3>1, <3>2, <4>2
    <3> HIDE DEF old, new
    <3> QED BY <2>6, <2>7, <3>1, <3>2
  <2>11. ASSUME ~i.lastErr, ~i.twice, NEW n \in NamesOf(j.stage), base[j.stage][<<j.src, n>>] # Missing
         PROVE  \/ <<j.src, n>> \in page
                \/ j.last # 0 /\ Order[<<j.src, n>>] > j.last
                \/ new[<<j.dst, n>>] = base[j.stage][<<j.src, n>>]
    <3>1. \/ <<j.src, n>> \in j.page
          \/ j.last # 0 /\ Order[<<j.src, n>>] > j.last
          \/ old[<<j.dst, n>>] = base[j.stage][<<j.src, n>>]
      BY <1>1, <2>2, <2>11 DEF Phase, Keyed, Has
    <3>2. l \notin DOMAIN j.ops
      BY <2>2, <2>11
    <3>3. CASE k = <<j.src, n>>
      <4>1. l = <<j.dst, n>> /\ db[j.stage][k] = base[j.stage][<<j.src, n>>]
        BY <2>5, <2>8, <3>3 DEF Intact
      <4> HIDE DEF old, new
      <4> QED BY <2>6, <2>7, <4>1
    <3>4. CASE k # <<j.src, n>>
      <4>1. <<j.src, n>> \in j.page => <<j.src, n>> \in page
        BY <2>1, <3>4
      <4>2. l = <<j.dst, n>> => k = l
        BY <2>4, <2>5, <3>4
      <4>3. new[<<j.dst, n>>] = old[<<j.dst, n>>]
        <5> HIDE DEF old, new
        <5> QED BY <2>6, <2>7, <3>2, <4>2
      <4> QED BY <3>1, <4>1, <4>3
    <3> QED BY <3>3, <3>4
  <2>12. Intact(i, db, base) /\ Spared(i, db, base)
    BY <2>2, <2>8 DEF Intact, Spared
  <2>13. Keyed(i, db, base, Put(i))
    BY <2>2, <2>9, <2>10, <2>11, <2>12 DEF Keyed, Has
  <2>14. i.stage = "secrets" => Result(i, "config", db, base, failed)
    BY <1>1, <2>2, SameResult DEF Phase
  <2>15. Put(i)' = Put(i)
    BY <1>3 DEF Put
  <2>16. Phase("key", i, db', (Put(i))', base, failed')
    BY <1>1, <1>3, <1>4, <2>2, <2>13, <2>14, <2>15 DEF Phase
  <2> QED BY <1>2, <2>1, <2>16, GoesPhase DEF Places, Calls
<1>5. CASE Goes(c, "cleanup", j) /\ CallFails
  <2>1. Phase("cleanup", j, db', (Put(j))', base, failed')
    BY <1>1, <1>3, <1>5 DEF Phase, CallFails, Result
  <2> QED BY <1>2, <1>5, <2>1, GoesPhase DEF Places, Calls
<1>6. \/ \E k \in j.page :
           /\ db[j.stage][k] # Missing /\ failed' = failed
           /\ Goes(c, "key", [j EXCEPT !.page = @ \ {k},
                                       !.ops = WithPut(@, NewKey(j, k), db[j.stage][k]),
                                       !.twice = @ \/ NewKey(j, k) \in DOMAIN j.ops])
      \/ Answer(c, "error")
      \/ Goes(c, "cleanup", j) /\ CallFails
  <2>1. Succeeds => failed' = failed
    BY DEF Succeeds
  <2> QED BY <1>1, <2>1 DEF GetKey
<1> QED BY <1>4, <1>5, <1>6, AnswerPhase

LEMMA PutPagePhase ==
  ASSUME TypeInv, NEW c \in Cloners, PutPage(c), base # None, Ordered(c) PROVE Ordered(c)'
<1>1. PICK j : j = job[c] /\ Ready("key", j) /\ Phase("key", j, db, Put(j), base, failed)
  BY DEF PutPage, TypeInv, Jobs, Ordered
<1>2. /\ j.stage \in Stages /\ Data(db) /\ Jobs /\ cpc[c] \in Calls
      /\ Keyed(j, db, base, Put(j)) /\ j.page = {}
  BY <1>1 DEF Ready, TypeInv, PutPage, Calls, Phase
<1>3. \A st \in Stages : st # j.stage => Put(j)[st] = db[st]
  BY <1>2, PutIs
<1>4. PICK err \in BOOLEAN :
        /\ EndPage(c, err)
        /\ db' \in {db, Put(j)}
        /\ failed' = failed \/ failed' = TRUE
        /\ err => failed'
        /\ ~err => ~j.lastErr /\ ~j.twice /\ db' = Put(j)
  <2>1. CASE ~j.twice /\ db' = Put(j) /\ failed' = failed /\ EndPage(c, j.lastErr)
    BY <1>1, <2>1 DEF Phase, Ready
  <2>2. CASE db' \in {db, Put(j)} /\ failed' = TRUE /\ EndPage(c, TRUE)
    BY <2>2
  <2> QED BY <1>1, <2>1, <2>2 DEF PutPage, Succeeds, CallFails
<1>5. Intact(j, db', base) /\ Spared(j, db', base)
  BY <1>2, <1>4 DEF Keyed
<1>6. ~err => \A n \in NamesOf(j.stage) : base[j.stage][<<j.src, n>>] # Missing =>
                (j.last # 0 /\ Order[<<j.src, n>>] > j.last) \/ Has(j, db', base, n)
  BY <1>2, <1>4 DEF Keyed
<1>7. j.stage = "config" => db'["secrets"] = base["secrets"]
  BY <1>1, <1>3, <1>4 DEF Phase, Stages
<1>8. j.stage = "secrets" => Result(j, "config", db', base, failed')
  <2>1. j.stage = "secrets" => db'["config"] = db["config"] /\ Result(j, "config", db, base, failed)
    BY <1>1, <1>3, <1>4 DEF Phase, Stages
  <2> QED BY <1>4, <2>1 DEF Result
<1> QED BY <1>1, <1>2, <1>4, <1>5, <1>6, <1>7, <1>8, EndPagePhase

LEMMA PutGlobalsPhase ==
  ASSUME TypeInv, NEW c \in Cloners, PutGlobals(c), base # None, Ordered(c) PROVE Ordered(c)'
<1>1. PICK j : j = job[c] /\ Ready("globals", j) /\ Phase("globals", j, db, Put(j), base, failed)
  BY DEF PutGlobals, TypeInv, Jobs, Ordered
<1>2. /\ Data(db) /\ Jobs /\ cpc[c] \in Calls /\ j.stage = "config" /\ j.dst \in Envs
  BY <1>1, CloneAssumption DEF Ready, TypeInv, PutGlobals, Calls, Phase
<1> DEFINE new == [db EXCEPT !["config"] =
                     [k \in DOMAIN @ |-> IF k[1] = j.dst /\ k[2] \in j.globs THEN Override ELSE @[k]]]
<1>0. new["secrets"] = db["secrets"] /\ db["secrets"] = base["secrets"]
  BY <1>1, <1>2 DEF Phase, Data, Stages
<1>3. CASE db' = new /\ failed' = failed /\ NextStage(c)
  <2>1. db'["secrets"] = base["secrets"]
    BY <1>0, <1>3
  <2>2. ASSUME NEW n \in Names
        PROVE  db'["config"][<<j.dst, n>>] = IF n \in j.globs THEN Override ELSE db["config"][<<j.dst, n>>]
    <3>1. <<j.dst, n>> \in AllKeys("config")
      BY <1>2 DEF AllKeys, NamesOf
    <3> QED BY <1>2, <1>3, <3>1 DEF Data, Stages
  <2>3. Override # Missing
    BY MissingAssumption DEF Values
  <2>4. Result(j, "config", db', base, failed')
    BY <1>1, <1>2, <2>2, <2>3 DEF Phase, Spared, Has, Result, Wanted, NamesOf
  <2> QED BY <1>1, <1>2, <1>3, <2>1, <2>4, NextStagePhase
<1>4. CASE db' \in {db, new} /\ failed' = TRUE /\ Goes(c, "cleanup", j)
  <2>1. db'["secrets"] = base["secrets"]
    <3> HIDE DEF new
    <3> QED BY <1>0, <1>4
  <2>2. Phase("cleanup", j, db', (Put(j))', base, failed')
    BY <1>2, <1>4, <2>1 DEF Phase
  <2> QED BY <1>2, <1>4, <2>2, GoesPhase DEF Places, Calls
<1> QED BY <1>1, <1>3, <1>4 DEF PutGlobals, Succeeds, CallFails

(* The copies are deleted, and the clone goes on as if it had succeeded. *)
LEMMA CleanupPhase ==
  ASSUME TypeInv, NEW c \in Cloners, Cleanup(c), base # None, Ordered(c) PROVE Ordered(c)'
<1>1. PICK j : j = job[c] /\ Ready("cleanup", j) /\ Phase("cleanup", j, db, Put(j), base, failed)
  BY DEF Cleanup, TypeInv, Jobs, Ordered
<1>2. /\ Data(db) /\ Jobs /\ cpc[c] \in Calls /\ j.stage \in Stages /\ j.dst \in Envs /\ failed
  BY <1>1, CloneAssumption DEF Ready, TypeInv, Cleanup, Calls, Phase
<1>3. CASE db' = Emptied(j.stage, j.dst) /\ failed' = failed /\ NextStage(c)
  <2>1. \A st \in Stages : st # j.stage => db'[st] = db[st]
    BY <1>2, <1>3 DEF Emptied, Data
  <2>2. ASSUME NEW n \in NamesOf(j.stage) PROVE db'[j.stage][<<j.dst, n>>] = Missing
    <3>1. <<j.dst, n>> \in DOMAIN db[j.stage] /\ j.dst \in Under[j.dst]
      BY <1>2, KeyFacts, UnderAssumption DEF Data
    <3> QED BY <1>2, <1>3, <3>1 DEF Emptied, PrefixDelete, Data
  <2>3. Result(j, j.stage, db', base, failed')
    BY <1>2, <1>3, <2>2 DEF Result
  <2>4. j.stage = "config" => db'["secrets"] = base["secrets"]
    BY <1>1, <2>1 DEF Phase, Stages
  <2>5. Result(j, "config", db', base, failed')
    <3>1. CASE j.stage = "config"
      BY <2>3, <3>1
    <3>2. CASE j.stage = "secrets"
      <4>1. db'["config"] = db["config"] /\ Result(j, "config", db, base, failed)
        BY <1>1, <2>1, <3>2 DEF Phase, Stages
      <4> QED BY <1>3, <4>1 DEF Result
    <3> QED BY <1>2, <3>1, <3>2 DEF Stages
  <2> QED BY <1>1, <1>2, <1>3, <2>3, <2>4, <2>5, NextStagePhase
<1>4. CASE Goes(c, "undo", j)
  BY <1>2, <1>4, GoesPhase DEF Phase, Places, Calls
<1> QED BY <1>1, <1>3, <1>4, AnswerPhase DEF Cleanup, Succeeds

LEMMA ClonePhase ==
  ASSUME TypeInv, NEW c \in Cloners, Clone(c), ~LockMux(c), Ordered(c), job[c].src # job[c].dst
  PROVE  Ordered(c)'
<1>1. CASE base = None
  <2>1. base' = None
    BY <1>1, HolderSteps, Zenon DEF Clone, GoesOn, Goes, Answer
  <2> QED BY <2>1 DEF Ordered
<1>2. CASE AddEnv(c) /\ base # None
  <2>1. Answer(c, "ok") \/ Goes(c, "undo", job[c])
    BY <1>2, Zenon DEF AddEnv
  <2> QED BY <1>2, <2>1, AnswerPhase, GoesPhase DEF TypeInv, Phase, Places, Calls
<1>3. CASE Undo(c) /\ base # None
  BY <1>3, AnswerPhase DEF Undo
<1> QED
  BY <1>1, <1>2, <1>3, GetPagePhase, GetKeyPhase, PutPagePhase, PutGlobalsPhase, CleanupPhase DEF Clone

(* The original of a clone stays its original. *)
LEMMA SourceStays ==
  ASSUME TypeInv, NEW c \in Cloners, Clone(c), ~LockMux(c)
  PROVE  cpc'[c] # "lock" /\ (UnderWay(c)' => job'[c].src = job[c].src)
<1>1. IsJob(job[c]) /\ c \in DOMAIN cpc /\ c \in DOMAIN job
  BY DEF TypeInv, Jobs, Ready
<1>2. ASSUME NEW answer \in {"ok", "error"}, Answer(c, answer)
      PROVE  cpc'[c] # "lock" /\ ~UnderWay(c)'
  BY <1>1, <1>2 DEF Answer, UnderWay, Calls
<1>3. ASSUME NEW place \in Calls, NEW j, j.src = job[c].src, Goes(c, place, j)
      PROVE  cpc'[c] # "lock" /\ job'[c].src = job[c].src
  BY <1>1, <1>3 DEF Goes, Calls
<1> DEFINE Goal == cpc'[c] # "lock" /\ (UnderWay(c)' => job'[c].src = job[c].src)
<1>4. ASSUME NEW place \in Calls, Goes(c, place, job[c]) PROVE Goal
  BY <1>3, <1>4
<1>5. ASSUME NextStage(c) PROVE Goal
  <2>1. PICK j : j = [job[c] EXCEPT !.stage = "secrets", !.cursor = 0, !.lastErr = FALSE]
    OBVIOUS
  <2>2. j.src = job[c].src
    BY <1>1, <2>1 DEF IsJob
  <2>3. Goes(c, "page", j) \/ Goes(c, "addenv", job[c])
    BY <1>5, <2>1, Zenon DEF NextStage
  <2> QED BY <1>3, <2>2, <2>3 DEF Calls
<1>6. ASSUME NEW err, EndPage(c, err) PROVE Goal
  <2>1. PICK j : j = [job[c] EXCEPT !.cursor = job[c].last, !.lastErr = err]
    OBVIOUS
  <2>2. j.src = job[c].src
    BY <1>1, <2>1 DEF IsJob
  <2>3. \/ Goes(c, "page", j) \/ Goes(c, "cleanup", job[c]) \/ Goes(c, "globals", job[c])
        \/ NextStage(c)
    BY <1>6, <2>1, Zenon DEF EndPage
  <2> QED BY <1>3, <1>5, <2>2, <2>3 DEF Calls
<1>7. CASE GetPage(c)
  <2>1. \/ \E page, last, ops : Goes(c, "key", [job[c] EXCEPT !.page = page, !.last = last,
                                                              !.ops = ops, !.twice = FALSE])
        \/ Answer(c, "error") \/ Goes(c, "undo", job[c])
    BY <1>7, Zenon DEF GetPage
  <2>2. \A page, last, ops :
          [job[c] EXCEPT !.page = page, !.last = last, !.ops = ops, !.twice = FALSE].src = job[c].src
    BY <1>1 DEF IsJob
  <2> QED BY <1>2, <1>3, <2>1, <2>2 DEF Calls
<1>8. CASE GetKey(c)
  <2>1. \/ \E page, ops, w : Goes(c, "key", [job[c] EXCEPT !.page = page, !.ops = ops, !.twice = w])
        \/ Answer(c, "error") \/ Goes(c, "cleanup", job[c])
    BY <1>8, Zenon DEF GetKey
  <2>2. \A page, ops, w : [job[c] EXCEPT !.page = page, !.ops = ops, !.twice = w].src = job[c].src
    BY <1>1 DEF IsJob
  <2> QED BY <1>2, <1>3, <2>1, <2>2 DEF Calls
<1>9. CASE PutPage(c)
  BY <1>6, <1>9, Zenon DEF PutPage
<1>10. CASE PutGlobals(c)
  BY <1>4, <1>5, <1>10 DEF PutGlobals, Calls
<1>11. CASE Cleanup(c)
  <2>1. NextStage(c) \/ Answer(c, "error") \/ Goes(c, "undo", job[c])
    BY <1>11 DEF Cleanup
  <2> QED BY <1>2, <1>4, <1>5, <2>1 DEF Calls
<1>12. CASE AddEnv(c)
  BY <1>2, <1>4, <1>12 DEF AddEnv, Calls
<1>13. CASE Undo(c)
  BY <1>2, <1>13 DEF Undo
<1> QED BY <1>7, <1>8, <1>9, <1>10, <1>11, <1>12, <1>13 DEF Clone

LEMMA HalfInit == Init => HalfInv
BY CloneAssumption DEF Init, HalfInv, UnderWay, Calls

LEMMA HalfStep ==
  ASSUME Own, TypeInv, LockInv, HalfInv, [Next]_vars PROVE HalfInv'
<1> DEFINE Fine(c) ==
      /\ UnderWay(c) => job[c].src \in Reserved
      /\ cpc[c] = "lock" => job[c].stage = "config" /\ job[c].cursor = 0 /\ ~job[c].lastErr
<1>1. \A c \in Cloners : Fine(c)
  BY DEF HalfInv
<1>2. \A c \in Cloners : UNCHANGED <<cpc[c], job[c]>> => Fine(c)'
  BY <1>1 DEF UnderWay
<1>3. ASSUME UNCHANGED <<cpc, job>>, base' = None \/ UNCHANGED <<db, mux, base, failed>>
      PROVE  HalfInv'
  <2>1. \A c \in Cloners : Fine(c)'
    BY <1>2, <1>3
  <2>2. CASE base' = None
    BY <2>1, <2>2 DEF HalfInv, Ordered
  <2>3. CASE UNCHANGED <<db, mux, base, failed>>
    <3>1. \A c : Ordered(c) => Ordered(c)'
      <4>1. \A j : (Put(j))' = Put(j)
        BY <2>3 DEF Put
      <4>2. \A c : (Put(job[c]))' = Put(job[c])
        BY <1>3, <2>3 DEF Put
      <4> QED BY <1>3, <2>3, <4>2 DEF Ordered
    <3> QED BY <2>1, <2>3, <3>1 DEF HalfInv
  <2> QED BY <1>3, <2>2, <2>3
<1>4. ASSUME NEW c \in Cloners, NEW e \in Envs, NEW n \in Targets, NEW G \in Overrides,
             BeginClone(c, e, n, G)
      PROVE  HalfInv'
  <2>1. /\ \A a \in Cloners \ {c} : UNCHANGED <<cpc[a], job[a]>>
        /\ UNCHANGED <<db, mux, base, failed>> /\ mux # c
    BY <1>4 DEF BeginClone, Goes, TypeInv, Jobs, etcd, LockInv, LockGivenBack
  <2>2. \A a \in Cloners \ {c} : Fine(a)' /\ (Ordered(a) => Ordered(a)')
    <3>1. \A a : UNCHANGED <<cpc[a], job[a]>> /\ Ordered(a) => Ordered(a)'
      <4> SUFFICES ASSUME NEW a, UNCHANGED <<cpc[a], job[a]>>, Ordered(a) PROVE Ordered(a)'
        OBVIOUS
      <4>1. (Put(job[a]))' = Put(job[a])
        BY <2>1 DEF Put
      <4> QED BY <2>1, <4>1 DEF Ordered
    <3> QED BY <1>2, <2>1, <3>1
  <2>3. Fine(c)'
    <3>1. CASE e \in Reserved
      <4>1. PICK i, j : /\ i = NoJob /\ IsJob(i) /\ i.stage = "config" /\ i.cursor = 0 /\ ~i.lastErr
                        /\ j = [i EXCEPT !.src = e, !.dst = n, !.globs = G] /\ Goes(c, "lock", j)
        BY <1>4, <3>1, NoJobReady DEF BeginClone
      <4>2. j.src = e /\ j.stage = "config" /\ j.cursor = 0 /\ ~j.lastErr
        BY <4>1 DEF IsJob
      <4> QED BY <3>1, <4>1, <4>2 DEF Goes, TypeInv, Jobs
    <3>2. CASE e \notin Reserved
      BY <1>4, <3>2 DEF BeginClone, Goes, TypeInv, Jobs, UnderWay, Calls
    <3> QED BY <3>1, <3>2
  <2> QED BY <2>1, <2>2, <2>3 DEF HalfInv
<1>5. ASSUME NEW c \in Cloners, LockMux(c) PROVE HalfInv'
  <2>1. /\ \A a \in Cloners : job'[a] = job[a] /\ (a # c => cpc'[a] = cpc[a])
        /\ cpc[c] = "lock" /\ cpc'[c] = "page" /\ mux' = c
        /\ base' = db /\ failed' = FALSE /\ db' = db
    BY <1>5 DEF LockMux, TypeInv, Jobs, etcd
  <2>2. \A a \in Cloners : Fine(a)'
    BY <1>1, <2>1 DEF UnderWay, Calls
  <2>3. Ordered(c)'
    <3>1. PICK j : /\ j = job[c] /\ Ready("lock", j)
                   /\ j.stage = "config" /\ j.cursor = 0 /\ ~j.lastErr
      BY <1>1, <2>1 DEF TypeInv, Jobs
    <3>2. \A n \in NamesOf("config") : Order[<<j.src, n>>] > 0
      <4>1. \A n \in NamesOf("config") : Order[<<j.src, n>>] \in Nat \ {0}
        BY <3>1, KeyFacts DEF Ready, Stages
      <4> QED BY <4>1
    <3>3. Paged(j, db', base')
      BY <2>1, <3>1, <3>2 DEF Paged, Intact, Spared
    <3>4. Phase("page", j, db', (Put(j))', base', failed')
      BY <2>1, <3>1, <3>3 DEF Phase
    <3>5. (Put(job[c]))' = (Put(j))'
      BY <2>1, <3>1 DEF Put
    <3> QED BY <2>1, <3>1, <3>4, <3>5 DEF Ordered
  <2> QED BY <2>1, <2>2, <2>3, CloneAssumption DEF HalfInv
<1>6. ASSUME NEW c \in Cloners, Clone(c), ~LockMux(c) PROVE HalfInv'
  <2>1. cpc[c] \in Calls /\ GoesOn(c)
    BY <1>6, HolderSteps DEF Clone
  <2>2. mux = c /\ Ordered(c)
    BY <2>1 DEF LockInv, LockGivenBack, HalfInv, Calls
  <2>3. job[c].src \in Reserved /\ job[c].dst \in Targets
    BY <1>1, <2>1 DEF UnderWay, TypeInv, Jobs, Ready
  <2>4. Ordered(c)'
    BY <1>6, <2>2, <2>3, ClonePhase DEF Own
  <2>5. (\A a \in Cloners \ {c} : UNCHANGED <<cpc[a], job[a]>>) /\ mux' \in {c, None}
    <3>1. (\E place, j : Goes(c, place, j)) \/ (\E answer : Answer(c, answer))
      BY <2>1, Zenon DEF GoesOn
    <3> QED BY <2>2, <3>1 DEF Goes, Answer, TypeInv, Jobs
  <2>6. Fine(c)'
    BY <1>6, <2>3, SourceStays
  <2>7. \A a \in Cloners : Fine(a)'
    BY <1>2, <2>5, <2>6
  <2> QED BY <2>4, <2>5, <2>7, CloneAssumption DEF HalfInv
<1>7. CASE Crash
  BY <1>7 DEF Crash, HalfInv, UnderWay, Calls, Ordered
<1>8. ASSUME NEW e \in Envs, BeginUpsert(e) \/ UpsertSecrets(e) PROVE HalfInv'
  BY <1>3, <1>8 DEF BeginUpsert, UpsertSecrets, Disturb
<1>9. ASSUME NEW v \in Versions, EndUpsert(v) PROVE HalfInv'
  BY <1>3, <1>9 DEF EndUpsert, Disturb
<1>10. ASSUME NEW d \in Deleters,
              (\E e \in Envs : BeginDelete(d, e)) \/ DeleteKeys(d) \/ DeleteMeta(d)
       PROVE  HalfInv'
  BY <1>3, <1>10 DEF BeginDelete, DeleteKeys, DeleteMeta, Disturb, etcd, cloner
<1>11. CASE UNCHANGED vars
  BY <1>3, <1>11 DEF vars, etcd, cloner
<1> QED
  BY <1>4, <1>5, <1>6, <1>7, <1>8, <1>9, <1>10, <1>11, NamesAssumption DEF Next, Clone

(* What holds of a clone that is about to register its environment. *)
LEMMA CloneDone ==
  ASSUME TypeInv, LockInv, HalfInv, [Next]_vars, NEW c \in Cloners, Undisturbed(c)
  PROVE  /\ db' = db
         /\ \A st \in Stages : Result(job[c], st, db, base, failed)
<1>1. mux = c /\ Ordered(c) /\ cpc[c] = "addenv"
  BY DEF Undisturbed, LockInv, LockGivenBack, HalfInv
<1>2. \A st \in Stages : Result(job[c], st, db, base, failed)
  BY <1>1 DEF Ordered, Phase, Undisturbed, Stages
<1>3. db' = db
  <2>1. cpc'[c] # cpc[c]
    BY DEF Undisturbed
  <2>2. ASSUME NEW a \in Cloners, a # c, Clone(a) PROVE FALSE
    <3>1. CASE LockMux(a)
      BY <1>1, <3>1, CloneAssumption DEF LockMux
    <3>2. CASE ~LockMux(a)
      BY <1>1, <2>2, <3>2, HolderSteps DEF Clone, LockInv, LockGivenBack, Calls
    <3> QED BY <3>1, <3>2
  <2>3. ASSUME Clone(c) PROVE db' = db
    BY <1>1, <2>3 DEF Clone, LockMux, GetPage, GetKey, PutPage, PutGlobals, Cleanup, AddEnv, Undo
  <2>4. ASSUME NEW a \in Cloners, NEW e \in Envs, NEW n \in Targets, NEW G \in Overrides,
               BeginClone(a, e, n, G)
        PROVE  db' = db
    BY <2>4 DEF BeginClone, etcd
  <2>5. ASSUME NEW e \in Envs, BeginUpsert(e) \/ UpsertSecrets(e) PROVE FALSE
    BY <2>1, <2>5 DEF BeginUpsert, UpsertSecrets, Disturb
  <2>6. ASSUME NEW v \in Versions, EndUpsert(v) PROVE FALSE
    BY <2>1, <2>6 DEF EndUpsert, Disturb
  <2>7. ASSUME NEW d \in Deleters,
               (\E e \in Envs : BeginDelete(d, e)) \/ DeleteKeys(d) \/ DeleteMeta(d)
        PROVE  FALSE
    BY <2>1, <2>7 DEF BeginDelete, DeleteKeys, DeleteMeta, Disturb, cloner
  <2>8. ~Crash
    BY DEF Crash, Undisturbed
  <2>9. ~UNCHANGED vars
    BY <2>1 DEF vars, cloner
  <2> QED BY <2>2, <2>3, <2>4, <2>5, <2>6, <2>7, <2>8, <2>9, NamesAssumption DEF Next
<1> QED BY <1>2, <1>3

LEMMA HalfInvariance == ASSUME Own PROVE Spec => [](TypeInv /\ LockInv /\ HalfInv)
<1>1. Init => TypeInv /\ LockInv /\ HalfInv
  BY TypeInit, LockInit, HalfInit
<1>2. TypeInv /\ LockInv /\ HalfInv /\ [Next]_vars => (TypeInv /\ LockInv /\ HalfInv)'
  BY TypeStep, LockStep, HalfStep
<1> QED BY <1>1, <1>2, PTL DEF Spec

(* However many pages and whichever failures, a clone that is answered with *)
(* success and that nobody disturbed has all of its original or nothing.   *)
THEOREM WholeOrNothing == ASSUME Own PROVE Spec => NeverHalfCloned
<1> DEFINE Whole ==
      \A c \in Cloners : Undisturbed(c) =>
        \A st \in Stages : Complete(job[c], st, db') \/ Nothing(job[c], st, db')
<1>1. ASSUME TypeInv, LockInv, HalfInv, [Next]_vars PROVE Whole
  <2>1. ASSUME NEW c \in Cloners, Undisturbed(c), NEW st \in Stages
        PROVE  /\ Result(job[c], st, db', base, failed)
               /\ \A n : Copied(job[c], st, n) = Wanted(job[c], st, base, n)
    BY <1>1, <2>1, CloneDone DEF Copied, Wanted
  <2> QED BY <2>1 DEF Result, Complete, Nothing
<1>2. TypeInv /\ LockInv /\ HalfInv /\ [Next]_vars => [Whole]_vars
  BY <1>1
<1> QED BY <1>2, HalfInvariance, PTL DEF Spec, NeverHalfCloned

(* One of whose calls none failed has all of it, and nothing else where    *)
(* there was nothing before.                                               *)
THEOREM ExactCopy == ASSUME Own PROVE Spec => CloneExact
<1> DEFINE Exact ==
      \A c \in Cloners : Undisturbed(c) /\ ~failed /\ faults' = faults =>
        \A st \in Stages :
          /\ Complete(job[c], st, db')
          /\ Nothing(job[c], st, base) =>
               \A n \in NamesOf(st) : db'[st][<<job[c].dst, n>>] = Copied(job[c], st, n)
<1>1. ASSUME TypeInv, LockInv, HalfInv, [Next]_vars PROVE Exact
  <2>1. ASSUME NEW c \in Cloners, Undisturbed(c), NEW st \in Stages
        PROVE  /\ Result(job[c], st, db', base, failed)
               /\ \A n : Copied(job[c], st, n) = Wanted(job[c], st, base, n)
    BY <1>1, <2>1, CloneDone DEF Copied, Wanted
  <2> QED BY <2>1 DEF Result, Complete, Nothing
<1>2. TypeInv /\ LockInv /\ HalfInv /\ [Next]_vars => [Exact]_vars
  BY <1>1
<1> QED BY <1>2, HalfInvariance, PTL DEF Spec, CloneExact
=============================================================================
