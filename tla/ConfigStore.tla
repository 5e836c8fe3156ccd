------------------------------ MODULE ConfigStore ------------------------------
(***************************************************************************)
(* Readers and writers of one environment's configuration in etcd.         *)
(*                                                                         *)
(* UpsertConfig replaces a configuration in separate calls: put the lock   *)
(* key with a lease, delete the old keys, store the new ones in one        *)
(* transaction, revoke the lease.  ReadConfig looks at the lock key up to  *)
(* three times and then gets every requested key with a call of its own.   *)
(* Every call is a step; any call may fail, a writer may crash between two *)
(* of them, and a lease expires on its own.                                *)
(***************************************************************************)
EXTENDS EtcdConfig

CONSTANTS
  Writers,   \* pollers that upsert: one, unless replicas run without election
  Readers,   \* requests to GET /config in progress
  Requests,  \* the <<groups, globals>> a request may ask for
  Tries,     \* retryCount of isEnvLockHeld
  Free, Stale,  \* no lock key; a lock key whose lease nobody will revoke
  Top,       \* the holder of the globals a request asks for itself
  MaxFaults  \* bound: failed calls and crashes in a behaviour

ASSUME StoreAssumption ==
  /\ Requests \subseteq (SUBSET Groups) \X (SUBSET Globals)
  /\ Tries \in Nat \ {0}
  /\ Free # Stale /\ {Free, Stale} \cap Writers = {}
  /\ Top \notin Groups
  /\ MaxFaults \in Nat

VARIABLES
  kv,         \* etcd: [Keys -> Values or Missing]
  lock,       \* etcd: whose lease the lock key of an environment hangs on
  wpc,        \* writer: the call it makes next
  wenv, wver, \* writer: environment and version of its upsert
  floor,      \* history: the version of the last upsert that succeeded, 0 if none
  emptied,    \* history: environments a deletion may have reached since their last upsert succeeded
  rpc,        \* reader: the call it makes next
  renv,       \* reader: the environment it reads
  tries,      \* reader: looks at the lock key so far
  groups,     \* reader: groups still to get
  refs,       \* reader: <<group, global>> still to get for the group it is at
  globals,    \* reader: requested globals still to get
  got,        \* reader: <<holder, name, value>> found so far
  asked,      \* reader: the request
  base,       \* history: kv and floor when the read began
  changed,    \* history: did a writer touch the environment during the read?
  faults      \* counter of failures, bounded by MaxFaults

etcd   == <<kv, lock>>
writer == <<wpc, wenv, wver, floor, emptied>>
reader == <<rpc, renv, tries, groups, refs, globals, got, asked, base>>
vars   == <<etcd, writer, reader, changed, faults>>

Fail == faults < MaxFaults /\ faults' = faults + 1

Init ==
  /\ kv = [k \in Keys |-> Missing]
  /\ lock = [e \in Envs |-> Free]
  /\ wpc = [w \in Writers |-> "idle"]
  /\ wenv \in [Writers -> Reserved]
  /\ wver = [w \in Writers |-> 0]
  /\ floor = [e \in Reserved |-> 0]
  /\ emptied = {}
  /\ rpc = [r \in Readers |-> "idle"]
  /\ renv \in [Readers -> Reserved]
  /\ tries = [r \in Readers |-> 0]
  /\ groups = [r \in Readers |-> {}]
  /\ refs = [r \in Readers |-> {}]
  /\ globals = [r \in Readers |-> {}]
  /\ got = [r \in Readers |-> {}]
  /\ asked = [r \in Readers |-> <<{}, {}>>]
  /\ base = [r \in Readers |-> [kv |-> kv, floor |-> 0]]
  /\ changed = [r \in Readers |-> FALSE]
  /\ faults = 0

-----------------------------------------------------------------------------
(* Writers. *)

(* The poller upserts the newest version it knows, which is never older than
   what was stored before (NeverRollsBack in ConfigSync); after a restart it
   upserts the stored version again.  lockEnv: Grant, then Put, unconditionally. *)
LockEnv(w, e, v) ==
  /\ wpc[w] = "idle"
  /\ v >= floor[e]
  /\ \/ /\ lock' = [lock EXCEPT ![e] = w]
        /\ wpc' = [wpc EXCEPT ![w] = "delete"]
        /\ wenv' = [wenv EXCEPT ![w] = e]
        /\ wver' = [wver EXCEPT ![w] = v]
        /\ UNCHANGED faults
     \/ /\ Fail
        /\ lock' \in {lock, [lock EXCEPT ![e] = Stale]}
        /\ UNCHANGED <<wpc, wenv, wver>>
  /\ UNCHANGED <<kv, floor, emptied, reader, changed>>

Touch(new) ==
  /\ kv' = new
  /\ changed' = [r \in Readers |->
                   changed[r] \/ \E n \in Names : new[<<renv[r], n>>] # kv[<<renv[r], n>>]]

DeleteConfig(w) ==
  /\ wpc[w] = "delete"
  /\ emptied' = emptied \cup (Under[wenv[w]] \cap Reserved)
  /\ \/ /\ Touch(PrefixDelete(kv, wenv[w]))
        /\ wpc' = [wpc EXCEPT ![w] = "store"]
        /\ UNCHANGED faults
     \/ /\ Fail
        /\ Touch(kv) \/ Touch(PrefixDelete(kv, wenv[w]))
        /\ wpc' = [wpc EXCEPT ![w] = "release"]
  /\ UNCHANGED <<lock, wenv, wver, floor, reader>>

StoreConfig(w) ==
  LET new == PutVersion(kv, wenv[w], wver[w]) IN
  /\ wpc[w] = "store"
  /\ wpc' = [wpc EXCEPT ![w] = "release"]
  /\ \/ /\ Touch(new)
        /\ floor' = [floor EXCEPT ![wenv[w]] = wver[w]]
        /\ emptied' = emptied \ {wenv[w]}
        /\ UNCHANGED faults
     \/ /\ Fail
        /\ Touch(kv) \/ Touch(new)
        /\ UNCHANGED <<floor, emptied>>
  /\ UNCHANGED <<lock, wenv, wver, reader>>

(* Revoking a lease removes the lock key if the key still hangs on it. *)
ReleaseEnvLock(w) ==
  LET e == wenv[w] IN
  /\ wpc[w] = "release"
  /\ wpc' = [wpc EXCEPT ![w] = "idle"]
  /\ \/ /\ lock' = IF lock[e] = w THEN [lock EXCEPT ![e] = Free] ELSE lock
        /\ UNCHANGED faults
     \/ /\ Fail
        /\ lock' = IF lock[e] = w THEN [lock EXCEPT ![e] = Stale] ELSE lock
  /\ UNCHANGED <<kv, wenv, wver, floor, emptied, reader, changed>>

Crash(w) ==
  /\ wpc[w] # "idle"
  /\ Fail
  /\ wpc' = [wpc EXCEPT ![w] = "idle"]
  /\ lock' = [e \in Envs |-> IF lock[e] = w THEN Stale ELSE lock[e]]
  /\ UNCHANGED <<kv, wenv, wver, floor, emptied, reader, changed>>

(* Five seconds after the grant; nothing keeps the lease alive meanwhile. *)
ExpireLease(e) ==
  /\ lock[e] # Free
  /\ lock' = [lock EXCEPT ![e] = Free]
  /\ UNCHANGED <<kv, writer, reader, changed, faults>>

-----------------------------------------------------------------------------
(* Readers. *)

BeginRead(r, e, req) ==
  /\ rpc[r] \in {"idle", "done"}
  /\ rpc' = [rpc EXCEPT ![r] = "lock"]
  /\ renv' = [renv EXCEPT ![r] = e]
  /\ tries' = [tries EXCEPT ![r] = 0]
  /\ groups' = [groups EXCEPT ![r] = req[1]]
  /\ refs' = [refs EXCEPT ![r] = {}]
  /\ globals' = [globals EXCEPT ![r] = req[2]]
  /\ got' = [got EXCEPT ![r] = {}]
  /\ asked' = [asked EXCEPT ![r] = req]
  /\ base' = [base EXCEPT ![r] = [kv |-> kv, floor |-> floor[e]]]
  /\ changed' = [changed EXCEPT ![r] = FALSE]
  /\ UNCHANGED <<etcd, writer, faults>>

(* Mutant: one look at the lock key too many. *)
MutOneMoreTry(r) ==
  /\ rpc[r] = "lock"
  /\ IF lock[renv[r]] = Free \/ tries[r] = Tries
     THEN rpc' = [rpc EXCEPT ![r] = "get"] /\ UNCHANGED tries
     ELSE tries' = [tries EXCEPT ![r] = @ + 1] /\ UNCHANGED rpc
  /\ UNCHANGED <<etcd, writer, renv, groups, refs, globals, got, asked, base, changed, faults>>

(* Mutant: the reader waits as long as the lock key exists. *)
MutWaitForLock(r) ==
  /\ rpc[r] = "lock"
  /\ lock[renv[r]] = Free
  /\ rpc' = [rpc EXCEPT ![r] = "get"]
  /\ UNCHANGED <<etcd, writer, renv, tries, groups, refs, globals, got, asked, base, changed, faults>>

(* The third look ends the wait whether the lock is still held or not. *)
IsEnvLockHeld(r) ==
  /\ rpc[r] = "lock"
  /\ IF lock[renv[r]] = Free \/ tries[r] + 1 = Tries
     THEN rpc' = [rpc EXCEPT ![r] = "get"] /\ UNCHANGED tries
     ELSE tries' = [tries EXCEPT ![r] = @ + 1] /\ UNCHANGED rpc
  /\ UNCHANGED <<etcd, writer, renv, groups, refs, globals, got, asked, base, changed, faults>>

Found(r, holder, n) ==
  LET val == kv[<<renv[r], n>>]
  IN  got' = [got EXCEPT ![r] = IF val = Missing THEN @ ELSE @ \cup {<<holder, n, val>>}]

GetGroup(r, g) ==
  /\ rpc[r] = "get" /\ refs[r] = {}
  /\ g \in groups[r]
  /\ Found(r, g, g)
  /\ groups' = [groups EXCEPT ![r] = @ \ {g}]
  /\ refs' = [refs EXCEPT ![r] = IF kv[<<renv[r], g>>] = Missing THEN {} ELSE {g} \X Refs[g]]
  /\ UNCHANGED <<etcd, writer, rpc, renv, tries, globals, asked, base, changed, faults>>

GetReference(r) ==
  /\ rpc[r] = "get"
  /\ \E p \in refs[r] :
       /\ Found(r, p[1], p[2])
       /\ refs' = [refs EXCEPT ![r] = @ \ {p}]
  /\ UNCHANGED <<etcd, writer, rpc, renv, tries, groups, globals, asked, base, changed, faults>>

GetGlobal(r, x) ==
  /\ rpc[r] = "get" /\ refs[r] = {} /\ groups[r] = {}
  /\ x \in globals[r]
  /\ Found(r, Top, x)
  /\ globals' = [globals EXCEPT ![r] = @ \ {x}]
  /\ UNCHANGED <<etcd, writer, rpc, renv, tries, groups, refs, asked, base, changed, faults>>

(* Mutant: the requested globals are not read when there are groups. *)
MutAnswerGroupsOnly(r) ==
  /\ rpc[r] = "get" /\ refs[r] = {} /\ groups[r] = {}
  /\ rpc' = [rpc EXCEPT ![r] = "done"]
  /\ UNCHANGED <<etcd, writer, renv, tries, groups, refs, globals, got, asked, base, changed, faults>>

Answer(r) ==
  /\ rpc[r] = "get" /\ refs[r] = {} /\ groups[r] = {} /\ globals[r] = {}
  /\ rpc' = [rpc EXCEPT ![r] = "done"]
  /\ UNCHANGED <<etcd, writer, renv, tries, groups, refs, globals, got, asked, base, changed, faults>>

(* A call to etcd fails: the handler answers with an error. *)
ReadFails(r) ==
  /\ rpc[r] \in {"lock", "get"}
  /\ Fail
  /\ rpc' = [rpc EXCEPT ![r] = "idle"]
  /\ UNCHANGED <<etcd, writer, renv, tries, groups, refs, globals, got, asked, base, changed>>

Write(w) ==
  \/ \E e \in Reserved, v \in Versions : LockEnv(w, e, v)
  \/ DeleteConfig(w) \/ StoreConfig(w) \/ ReleaseEnvLock(w)

Read(r) ==
  \/ IsEnvLockHeld(r)
  \/ \E g \in Groups : GetGroup(r, g)
  \/ GetReference(r)
  \/ \E x \in Globals : GetGlobal(r, x)
  \/ Answer(r)

Next ==
  \/ \E w \in Writers : Write(w) \/ Crash(w)
  \/ \E e \in Envs : ExpireLease(e)
  \/ \E r \in Readers : \/ \E e \in Reserved, req \in Requests : BeginRead(r, e, req)
                        \/ Read(r)
                        \/ ReadFails(r)

Spec == Init /\ [][Next]_vars

(* The goroutine of a request is scheduled.  Nothing is assumed of the
   writers, nor of leases: a lock may be held for ever.                    *)
Fairness == \A r \in Readers : WF_vars(Read(r))

FairSpec == Spec /\ Fairness

-----------------------------------------------------------------------------
TypeOK ==
  /\ kv \in [Keys -> Values \cup {Missing}]
  /\ lock \in [Envs -> Writers \cup {Free, Stale}]
  /\ wpc \in [Writers -> {"idle", "delete", "store", "release"}]
  /\ wenv \in [Writers -> Reserved]
  /\ wver \in [Writers -> Versions \cup {0}]
  /\ floor \in [Reserved -> Versions \cup {0}]
  /\ emptied \subseteq Reserved
  /\ rpc \in [Readers -> {"idle", "lock", "get", "done"}]
  /\ renv \in [Readers -> Reserved]
  /\ tries \in [Readers -> 0 .. Tries - 1]
  /\ groups \in [Readers -> SUBSET Groups]
  /\ refs \in [Readers -> SUBSET (Groups \X Globals)]
  /\ globals \in [Readers -> SUBSET Globals]
  /\ got \in [Readers -> SUBSET ((Groups \cup {Top}) \X Names \X Values)]
  /\ asked \in [Readers -> (SUBSET Groups) \X (SUBSET Globals)]
  /\ base \in [Readers -> [kv : [Keys -> Values \cup {Missing}], floor : Versions \cup {0}]]
  /\ changed \in [Readers -> BOOLEAN]
  /\ faults \in Nat

(* At every moment the keys of a reserved environment are those of exactly one
   version, or there are none: a version's keys never outlive it and never mix
   with another's, whatever call of an upsert fails or crashes.            *)
NeverMixed ==
  \A e \in Reserved :
    IsEmpty(kv, e) \/ \E v \in Versions : v >= floor[e] /\ IsAt(kv, e, v)

(* An environment that no deletion has reached since its last upsert is exactly
   at the version its poller recorded, whatever happens to the others.  A
   deletion reaches every environment whose name starts with the one it is
   for: an upsert of "dev" empties "develop" as well.                      *)
SettledIsExact ==
  \A e \in Reserved : floor[e] > 0 /\ e \notin emptied => IsAt(kv, e, floor[e])

(* The answer a read of request req gets from an unchanging database. *)
Wanted(db, e, req) ==
  {<<h, h>> : h \in req[1]}
    \cup {p \in req[1] \X Globals : p[2] \in Refs[p[1]] /\ db[<<e, p[1]>>] # Missing}
    \cup ({Top} \X req[2])

View(db, e, req) ==
  {<<p[1], p[2], db[<<e, p[2]>>]>> : p \in {q \in Wanted(db, e, req) : db[<<e, q[2]>>] # Missing}}

(* A read that no upsert disturbed answers with the environment as it was:
   all requested groups, combined with the globals they refer to, and the
   requested globals; a read that was disturbed may answer with values of
   several versions (every key is got by a call of its own, and the third
   look at the lock ends the wait), but with none that is older than the
   configuration stored when it began.                                     *)
ReadIsRegular ==
  \A r \in Readers : rpc[r] = "done" =>
    /\ \A a \in got[r] : a[3][1] = renv[r] /\ a[3][2] >= base[r].floor
    /\ ~changed[r] => got[r] = View(base[r].kv, renv[r], asked[r])

(* A request is answered even if the environment is locked time and again,
   or for ever.                                                            *)
ReadsFinish == \A r \in Readers : rpc[r] = "lock" ~> rpc[r] \in {"idle", "done"}
=============================================================================
