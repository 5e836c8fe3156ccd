--------------------------- MODULE ConfigStore_proofs ---------------------------
(***************************************************************************)
(* Proofs about ConfigStore, for any environments, versions, readers and   *)
(* faults: type correctness, and, with one poller, that a stored           *)
(* configuration is never mixed, that a settled one is exact, and what a   *)
(* read beside the poller answers with.                                    *)
(***************************************************************************)
EXTENDS ConfigStore, TLAPS

(* The poller works on a version that exists. *)
Versioned == \A w \in Writers : wpc[w] \in {"delete", "store"} => wver[w] \in Versions

Database == [Keys -> Values \cup {Missing}]

(* The shape of the state in two halves, since no step disturbs both. *)
WriteTyped ==
  /\ kv \in Database
  /\ lock \in [Envs -> Writers \cup {Free, Stale}]
  /\ wpc \in [Writers -> {"idle", "delete", "store", "release"}]
  /\ wenv \in [Writers -> Reserved]
  /\ wver \in [Writers -> Versions \cup {0}]
  /\ floor \in [Reserved -> Versions \cup {0}]
  /\ emptied \subseteq Reserved
  /\ faults \in Nat
  /\ Versioned

ReadTyped ==
  /\ rpc \in [Readers -> {"idle", "lock", "get", "done"}]
  /\ renv \in [Readers -> Reserved]
  /\ tries \in [Readers -> 0 .. Tries - 1]
  /\ groups \in [Readers -> SUBSET Groups]
  /\ refs \in [Readers -> SUBSET (Groups \X Globals)]
  /\ globals \in [Readers -> SUBSET Globals]
  /\ got \in [Readers -> SUBSET ((Groups \cup {Top}) \X Names \X Values)]
  /\ asked \in [Readers -> (SUBSET Groups) \X (SUBSET Globals)]
  /\ base \in [Readers -> [kv : Database, floor : Versions \cup {0}]]
  /\ changed \in [Readers -> BOOLEAN]

Typed == WriteTyped /\ ReadTyped

LEMMA TypeInit == Init => Typed
<1> SUFFICES ASSUME Init PROVE Typed
  OBVIOUS
<1> USE NamesAssumption, StoreAssumption, MissingAssumption
<1>1. WriteTyped
  BY DEF Init, WriteTyped, Versioned, Database
<1>2. base \in [Readers -> [kv : Database, floor : Versions \cup {0}]]
  BY DEF Init, Database
<1>3. tries \in [Readers -> 0 .. Tries - 1]
  BY DEF Init
<1>4. asked \in [Readers -> (SUBSET Groups) \X (SUBSET Globals)]
  BY DEF Init
<1> QED BY <1>1, <1>2, <1>3, <1>4 DEF Init, Typed, ReadTyped

(* The two ways of writing keep the shape of the database. *)
LEMMA PrefixDeleteType ==
  ASSUME NEW db \in Database, NEW e \in Envs
  PROVE  PrefixDelete(db, e) \in Database
BY DEF PrefixDelete, Database

LEMMA PutVersionType ==
  ASSUME NEW db \in Database, NEW e \in Envs, NEW v \in Versions
  PROVE  PutVersion(db, e, v) \in Database
BY DEF PutVersion, Database, Values

(* What a Get finds has the shape of an item of an answer. *)
LEMMA FoundType ==
  ASSUME Typed, NEW r \in Readers, NEW h \in Groups \cup {Top}, NEW n \in Names, Found(r, h, n)
  PROVE  got' \in [Readers -> SUBSET ((Groups \cup {Top}) \X Names \X Values)]
<1>1. <<renv[r], n>> \in Keys
  BY NamesAssumption DEF Keys, Typed, ReadTyped
<1>2. kv[<<renv[r], n>>] \in Values \cup {Missing}
  BY <1>1 DEF Typed, WriteTyped, Database
<1> QED BY <1>2 DEF Found, Typed, ReadTyped

LEMMA TypeStep == Typed /\ [Next]_vars => Typed'
<1> SUFFICES ASSUME Typed, [Next]_vars PROVE Typed'
  OBVIOUS
<1> USE NamesAssumption, StoreAssumption DEF Typed
<1>1. ASSUME NEW w \in Writers, NEW e \in Reserved, NEW v \in Versions, LockEnv(w, e, v)
      PROVE  Typed'
  <2>1. lock' \in [Envs -> Writers \cup {Free, Stale}] /\ faults' \in Nat
    BY <1>1 DEF LockEnv, Fail, WriteTyped
  <2>2. wpc' \in [Writers -> {"idle", "delete", "store", "release"}] /\ wenv' \in [Writers -> Reserved]
    BY <1>1 DEF LockEnv, WriteTyped
  <2>3. wver' \in [Writers -> Versions \cup {0}]
    BY <1>1 DEF LockEnv, WriteTyped
  <2>4. Versioned'
    BY <1>1 DEF LockEnv, WriteTyped, Versioned
  <2> QED BY <1>1, <2>1, <2>2, <2>3, <2>4 DEF LockEnv, reader, WriteTyped, ReadTyped
<1>2. ASSUME NEW w \in Writers, DeleteConfig(w) PROVE Typed'
  <2>1. kv' \in Database
    BY <1>2, PrefixDeleteType DEF DeleteConfig, Touch, WriteTyped
  <2>2. changed' \in [Readers -> BOOLEAN]
    BY <1>2, Zenon DEF DeleteConfig, Touch
  <2>3. wpc' \in [Writers -> {"idle", "delete", "store", "release"}] /\ Versioned'
    BY <1>2 DEF DeleteConfig, WriteTyped, Versioned
  <2>4. emptied' \subseteq Reserved /\ faults' \in Nat
    BY <1>2 DEF DeleteConfig, Fail, WriteTyped
  <2> QED BY <1>2, <2>1, <2>2, <2>3, <2>4 DEF DeleteConfig, reader, WriteTyped, ReadTyped
<1>3. ASSUME NEW w \in Writers, StoreConfig(w) PROVE Typed'
  <2>1. kv' \in Database
    BY <1>3, PutVersionType DEF StoreConfig, Touch, WriteTyped, Versioned
  <2>2. changed' \in [Readers -> BOOLEAN]
    BY <1>3, Zenon DEF StoreConfig, Touch
  <2>3. wpc' \in [Writers -> {"idle", "delete", "store", "release"}] /\ Versioned'
    BY <1>3 DEF StoreConfig, WriteTyped, Versioned
  <2>4. floor' \in [Reserved -> Versions \cup {0}]
    BY <1>3 DEF StoreConfig, WriteTyped
  <2>5. emptied' \subseteq Reserved /\ faults' \in Nat
    BY <1>3 DEF StoreConfig, Fail, WriteTyped
  <2> QED BY <1>3, <2>1, <2>2, <2>3, <2>4, <2>5 DEF StoreConfig, reader, WriteTyped, ReadTyped
<1>4. ASSUME NEW w \in Writers, ReleaseEnvLock(w) PROVE Typed'
  <2>1. lock' \in [Envs -> Writers \cup {Free, Stale}] /\ faults' \in Nat
    BY <1>4 DEF ReleaseEnvLock, Fail, WriteTyped
  <2>2. wpc' \in [Writers -> {"idle", "delete", "store", "release"}] /\ Versioned'
    BY <1>4 DEF ReleaseEnvLock, WriteTyped, Versioned
  <2> QED BY <1>4, <2>1, <2>2 DEF ReleaseEnvLock, reader, WriteTyped, ReadTyped
<1>5. ASSUME NEW w \in Writers, Crash(w) PROVE Typed'
  <2>1. wpc' \in [Writers -> {"idle", "delete", "store", "release"}] /\ Versioned'
    BY <1>5 DEF Crash, WriteTyped, Versioned
  <2> QED BY <1>5, <2>1 DEF Crash, Fail, reader, WriteTyped, ReadTyped
<1>6. ASSUME NEW e \in Envs, ExpireLease(e) PROVE Typed'
  BY <1>6 DEF ExpireLease, reader, writer, WriteTyped, ReadTyped, Versioned
<1>7. ASSUME NEW r \in Readers, NEW e \in Reserved, NEW req \in Requests, BeginRead(r, e, req)
      PROVE  Typed'
  <2>1. req \in (SUBSET Groups) \X (SUBSET Globals)
    OBVIOUS
  <2>2. base' \in [Readers -> [kv : Database, floor : Versions \cup {0}]]
    BY <1>7 DEF BeginRead, WriteTyped, ReadTyped
  <2>3. tries' \in [Readers -> 0 .. Tries - 1]
    BY <1>7 DEF BeginRead, ReadTyped
  <2>4. WriteTyped'
    BY <1>7 DEF BeginRead, etcd, writer, WriteTyped, Versioned
  <2> QED BY <1>7, <2>1, <2>2, <2>3, <2>4 DEF BeginRead, ReadTyped
<1>8. ASSUME NEW r \in Readers, IsEnvLockHeld(r) PROVE Typed'
  <2>1. tries[r] \in 0 .. Tries - 1
    BY DEF ReadTyped
  <2>2. tries' \in [Readers -> 0 .. Tries - 1] /\ rpc' \in [Readers -> {"idle", "lock", "get", "done"}]
    <3>1. CASE lock[renv[r]] = Free \/ tries[r] + 1 = Tries
      BY <1>8, <3>1 DEF IsEnvLockHeld, ReadTyped
    <3>2. CASE ~(lock[renv[r]] = Free \/ tries[r] + 1 = Tries)
      <4>1. tries' = [tries EXCEPT ![r] = @ + 1] /\ UNCHANGED rpc
        BY <1>8, <3>2 DEF IsEnvLockHeld
      <4>2. tries[r] + 1 \in 0 .. Tries - 1
        BY <2>1, <3>2
      <4> QED BY <4>1, <4>2 DEF ReadTyped
    <3> QED BY <3>1, <3>2
  <2> QED BY <1>8, <2>1, <2>2 DEF IsEnvLockHeld, etcd, writer, WriteTyped, ReadTyped, Versioned
<1>9. ASSUME NEW r \in Readers, NEW g \in Groups, GetGroup(r, g) PROVE Typed'
  <2>1. got' \in [Readers -> SUBSET ((Groups \cup {Top}) \X Names \X Values)]
    BY <1>9, FoundType DEF GetGroup, Names
  <2>2. {g} \X Refs[g] \in SUBSET (Groups \X Globals)
    OBVIOUS
  <2>3. refs' \in [Readers -> SUBSET (Groups \X Globals)]
    BY <1>9, <2>2 DEF GetGroup, ReadTyped
  <2>4. groups' \in [Readers -> SUBSET Groups]
    BY <1>9 DEF GetGroup, ReadTyped
  <2>5. WriteTyped'
    BY <1>9 DEF GetGroup, etcd, writer, WriteTyped, Versioned
  <2> QED BY <1>9, <2>1, <2>3, <2>4, <2>5 DEF GetGroup, ReadTyped
<1>10. ASSUME NEW r \in Readers, GetReference(r) PROVE Typed'
  <2>1. PICK p \in refs[r] : Found(r, p[1], p[2]) /\ refs' = [refs EXCEPT ![r] = @ \ {p}]
    BY <1>10 DEF GetReference
  <2>2. p[1] \in Groups /\ p[2] \in Globals
    BY <2>1 DEF ReadTyped
  <2>3. got' \in [Readers -> SUBSET ((Groups \cup {Top}) \X Names \X Values)]
    BY <2>1, <2>2, FoundType DEF Names
  <2>4. refs' \in [Readers -> SUBSET (Groups \X Globals)]
    BY <2>1 DEF ReadTyped
  <2>5. WriteTyped'
    BY <1>10 DEF GetReference, etcd, writer, WriteTyped, Versioned
  <2> QED BY <1>10, <2>3, <2>4, <2>5 DEF GetReference, ReadTyped
<1>11. ASSUME NEW r \in Readers, NEW x \in Globals, GetGlobal(r, x) PROVE Typed'
  <2>1. got' \in [Readers -> SUBSET ((Groups \cup {Top}) \X Names \X Values)]
    BY <1>11, FoundType DEF GetGlobal, Names
  <2>2. WriteTyped'
    BY <1>11 DEF GetGlobal, etcd, writer, WriteTyped, Versioned
  <2> QED BY <1>11, <2>1, <2>2 DEF GetGlobal, ReadTyped
<1>12. ASSUME NEW r \in Readers, Answer(r) PROVE Typed'
  BY <1>12 DEF Answer, etcd, writer, WriteTyped, ReadTyped, Versioned
<1>13. ASSUME NEW r \in Readers, ReadFails(r) PROVE Typed'
  BY <1>13 DEF ReadFails, Fail, etcd, writer, WriteTyped, ReadTyped, Versioned
<1>14. CASE UNCHANGED vars
  BY <1>14 DEF vars, etcd, writer, reader, WriteTyped, ReadTyped, Versioned
<1> QED
  BY <1>1, <1>2, <1>3, <1>4, <1>5, <1>6, <1>7, <1>8, <1>9, <1>10, <1>11, <1>12, <1>13, <1>14
  DEF Next, Write, Read

(* Type correctness of ConfigStore. *)
THEOREM TypeCorrect == Spec => []TypeOK
<1>1. Typed => TypeOK
  BY DEF Typed, WriteTyped, ReadTyped, TypeOK, Database
<1> QED BY <1>1, TypeInit, TypeStep, PTL DEF Spec

-----------------------------------------------------------------------------
(* One poller: what it is about to store finds its environment empty. *)

Alone == \A v, w \in Writers : v = w

Ready ==
  \A w \in Writers :
    /\ wpc[w] \in {"delete", "store"} => wver[w] >= floor[wenv[w]]
    /\ wpc[w] = "store" => IsEmpty(kv, wenv[w]) /\ wenv[w] \in emptied

Sound == Ready /\ NeverMixed /\ SettledIsExact

(* Two databases hold the same keys of environment e. *)
Same(db, new, e) == \A n \in Names : new[<<e, n>>] = db[<<e, n>>]

LEMMA SameEmpty ==
  ASSUME NEW db, NEW new, NEW e, Same(db, new, e) PROVE IsEmpty(db, e) => IsEmpty(new, e)
BY DEF Same, IsEmpty

LEMMA SameAt ==
  ASSUME NEW db, NEW new, NEW e, NEW v, Same(db, new, e) PROVE IsAt(db, e, v) => IsAt(new, e, v)
BY DEF Same, IsAt

(* A deletion empties every environment under the prefix, and no other. *)
LEMMA PrefixDeleteEmpties ==
  ASSUME NEW db \in Database, NEW e \in Envs, NEW f \in Envs
  PROVE  /\ f \in Under[e] => IsEmpty(PrefixDelete(db, e), f)
         /\ f \notin Under[e] => Same(db, PrefixDelete(db, e), f)
<1> SUFFICES ASSUME NEW n \in Names
             PROVE  PrefixDelete(db, e)[<<f, n>>]
                      = IF f \in Under[e] THEN Missing ELSE db[<<f, n>>]
  BY DEF IsEmpty, Same
<1>1. <<f, n>> \in DOMAIN db
  BY DEF Database, Keys
<1> QED BY <1>1 DEF PrefixDelete

(* A version put into an empty environment is all there is of it. *)
LEMMA PutVersionFills ==
  ASSUME NEW db \in Database, NEW e \in Envs, NEW v \in Versions, NEW f \in Envs
  PROVE  /\ f = e /\ IsEmpty(db, e) => IsAt(PutVersion(db, e, v), e, v)
         /\ f # e => Same(db, PutVersion(db, e, v), f)
<1>1. \A n \in Names : PutVersion(db, e, v)[<<f, n>>]
                        = IF f = e /\ n \in Content[v] THEN <<e, v>> ELSE db[<<f, n>>]
  BY DEF PutVersion, Keys
<1> QED BY <1>1 DEF IsAt, IsEmpty, Same

LEMMA SoundInit == Init => Sound
<1> SUFFICES ASSUME Init PROVE Sound
  OBVIOUS
<1>1. \A e \in Envs : IsEmpty(kv, e)
  BY DEF Init, IsEmpty, Keys
<1> QED BY <1>1, NamesAssumption DEF Init, Sound, Ready, NeverMixed, SettledIsExact

(* Whatever leaves the database and the poller alone keeps them sound. *)
LEMMA SoundKept ==
  ASSUME Sound, UNCHANGED <<kv, floor, emptied, wenv, wver>>,
         \A w \in Writers : wpc'[w] \in {"delete", "store"} => wpc'[w] = wpc[w]
  PROVE  Sound'
BY DEF Sound, Ready, NeverMixed, SettledIsExact, IsEmpty, IsAt

LEMMA SoundStep == ASSUME Alone, Typed, Sound, [Next]_vars PROVE Sound'
<1> USE NamesAssumption, UnderAssumption
<1>1. ASSUME NEW w \in Writers, NEW e \in Reserved, NEW v \in Versions, LockEnv(w, e, v)
      PROVE  Sound'
  <2>1. UNCHANGED <<kv, floor, emptied>>
    BY <1>1 DEF LockEnv
  <2>2. NeverMixed' /\ SettledIsExact'
    BY <2>1 DEF Sound, NeverMixed, SettledIsExact, IsEmpty, IsAt
  <2>3. Ready'
    <3> SUFFICES ASSUME NEW u \in Writers
                 PROVE  /\ wpc'[u] \in {"delete", "store"} => wver'[u] >= floor[wenv'[u]]
                        /\ wpc'[u] # "store" \/ (wpc[u] = "store" /\ wenv'[u] = wenv[u])
      BY <2>1 DEF Ready, Sound, IsEmpty
    <3>1. u = w
      BY DEF Alone
    <3> QED BY <1>1, <3>1 DEF LockEnv, Typed, WriteTyped, Sound, Ready
  <2> QED BY <2>2, <2>3 DEF Sound
<1>2. ASSUME NEW w \in Writers, DeleteConfig(w) PROVE Sound'
  <2> DEFINE gone == PrefixDelete(kv, wenv[w])
  <2>1. wenv[w] \in Reserved /\ kv \in Database
    BY DEF Typed, WriteTyped
  <2>2. UNCHANGED <<floor, wenv, wver>> /\ wpc[w] = "delete"
    BY <1>2 DEF DeleteConfig
  <2>3. kv' = kv \/ kv' = gone
    BY <1>2 DEF DeleteConfig, Touch
  <2>4. wpc'[w] = "release" \/ (wpc'[w] = "store" /\ kv' = gone)
    BY <1>2 DEF DeleteConfig, Touch, Typed, WriteTyped
  <2>5. emptied' = emptied \cup (Under[wenv[w]] \cap Reserved)
    BY <1>2 DEF DeleteConfig
  <2>6. \A e \in Reserved : /\ Same(kv, kv', e) \/ IsEmpty(kv', e)
                            /\ e \notin Under[wenv[w]] => Same(kv, kv', e)
    BY <2>1, <2>3, PrefixDeleteEmpties DEF Same
  <2>7. NeverMixed'
    BY <2>2, <2>6, SameEmpty, SameAt DEF Sound, NeverMixed
  <2>8. SettledIsExact'
    BY <2>2, <2>5, <2>6, SameAt DEF Sound, SettledIsExact
  <2>9. Ready'
    <3> SUFFICES ASSUME NEW u \in Writers
                 PROVE  /\ wpc'[u] \in {"delete", "store"} => wver'[u] >= floor'[wenv'[u]]
                        /\ wpc'[u] = "store" => IsEmpty(kv', wenv'[u]) /\ wenv'[u] \in emptied'
      BY DEF Ready
    <3>1. u = w
      BY DEF Alone
    <3>2. wver[w] >= floor[wenv[w]]
      BY <2>2 DEF Sound, Ready
    <3>3. wenv[w] \in Under[wenv[w]] /\ IsEmpty(gone, wenv[w])
      BY <2>1, PrefixDeleteEmpties
    <3> QED BY <3>1, <3>2, <3>3, <2>1, <2>2, <2>4, <2>5
  <2> QED BY <2>7, <2>8, <2>9 DEF Sound
<1>3. ASSUME NEW w \in Writers, StoreConfig(w) PROVE Sound'
  <2> DEFINE e == wenv[w]  v == wver[w]  new == PutVersion(kv, e, v)
  <2>1. e \in Reserved /\ kv \in Database /\ v \in Versions /\ floor \in [Reserved -> Versions \cup {0}]
    BY <1>3 DEF Typed, WriteTyped, Versioned, StoreConfig
  <2>2. v >= floor[e] /\ IsEmpty(kv, e) /\ e \in emptied
    BY <1>3 DEF StoreConfig, Sound, Ready
  <2>3. UNCHANGED <<wenv, wver>> /\ wpc' = [wpc EXCEPT ![w] = "release"]
    BY <1>3 DEF StoreConfig
  <2>4. \/ kv' = new /\ floor' = [floor EXCEPT ![e] = v] /\ emptied' = emptied \ {e}
        \/ kv' \in {kv, new} /\ UNCHANGED <<floor, emptied>>
    BY <1>3 DEF StoreConfig, Touch
  <2>5. \A f \in Reserved \ {e} : Same(kv, kv', f) /\ floor'[f] = floor[f] /\ (f \in emptied' <=> f \in emptied)
    BY <2>1, <2>4, PutVersionFills DEF Same
  <2>6. \/ IsEmpty(kv', e) /\ UNCHANGED <<floor, emptied>>
        \/ IsAt(kv', e, v) /\ floor'[e] = v
        \/ IsAt(kv', e, v) /\ UNCHANGED <<floor, emptied>>
    BY <2>1, <2>2, <2>4, PutVersionFills
  <2>7. NeverMixed'
    <3> SUFFICES ASSUME NEW f \in Reserved
                 PROVE  IsEmpty(kv', f) \/ \E u \in Versions : u >= floor'[f] /\ IsAt(kv', f, u)
      BY DEF NeverMixed
    <3>1. CASE f = e
      <4>1. v >= v
        BY <2>1 DEF Versions
      <4>2. IsEmpty(kv', e) \/ (v >= floor'[e] /\ IsAt(kv', e, v))
        BY <4>1, <2>2, <2>6
      <4> QED BY <2>1, <3>1, <4>2
    <3>2. CASE f # e
      BY <2>5, <3>2, SameEmpty, SameAt DEF Sound, NeverMixed
    <3> QED BY <3>1, <3>2
  <2>8. SettledIsExact'
    <3> SUFFICES ASSUME NEW f \in Reserved, floor'[f] > 0, f \notin emptied'
                 PROVE  IsAt(kv', f, floor'[f])
      BY DEF SettledIsExact
    <3>1. CASE f = e
      BY <2>2, <2>6, <3>1
    <3>2. CASE f # e
      BY <2>5, <3>2, SameAt DEF Sound, SettledIsExact
    <3> QED BY <3>1, <3>2
  <2>9. Ready'
    <3>1. \A u \in Writers : wpc'[u] = "release"
      BY <2>3 DEF Alone, Typed, WriteTyped
    <3> QED BY <3>1 DEF Ready
  <2> QED BY <2>7, <2>8, <2>9 DEF Sound
<1>4. ASSUME NEW w \in Writers, ReleaseEnvLock(w) PROVE Sound'
  BY <1>4, SoundKept DEF ReleaseEnvLock, Typed, WriteTyped
<1>5. ASSUME NEW w \in Writers, Crash(w) PROVE Sound'
  BY <1>5, SoundKept DEF Crash, Typed, WriteTyped
<1>6. ASSUME NEW e \in Envs, ExpireLease(e) PROVE Sound'
  BY <1>6, SoundKept DEF ExpireLease, writer
<1>7. ASSUME UNCHANGED <<etcd, writer>> PROVE Sound'
  BY <1>7, SoundKept DEF etcd, writer
<1>8. ASSUME NEW r \in Readers, NEW e \in Reserved, NEW req \in Requests,
             BeginRead(r, e, req) \/ Read(r) \/ ReadFails(r)
      PROVE  Sound'
  BY <1>7, <1>8
  DEF BeginRead, Read, IsEnvLockHeld, GetGroup, GetReference, GetGlobal, Answer, ReadFails
<1>9. ASSUME NEW r \in Readers, Read(r) \/ ReadFails(r) PROVE Sound'
  BY <1>7, <1>9 DEF Read, IsEnvLockHeld, GetGroup, GetReference, GetGlobal, Answer, ReadFails
<1>10. CASE UNCHANGED vars
  BY <1>7, <1>10 DEF vars
<1> QED
  BY <1>1, <1>2, <1>3, <1>4, <1>5, <1>6, <1>8, <1>9, <1>10 DEF Next, Write

LEMMA SoundAlways == ASSUME Alone PROVE Spec => [](Typed /\ Sound)
<1>1. Typed /\ Sound /\ [Next]_vars => (Typed /\ Sound)'
  BY TypeStep, SoundStep
<1> QED BY <1>1, TypeInit, SoundInit, PTL DEF Spec

(* With one poller, the keys of an environment of the repository are at    *)
(* every moment those of one version, no older than the last that was      *)
(* stored, or none, whatever call of an upsert fails or crashes.           *)
THEOREM OneVersion == ASSUME Alone PROVE Spec => []NeverMixed
<1>1. Sound => NeverMixed
  BY DEF Sound
<1> QED BY <1>1, SoundAlways, PTL

(* With one poller, an environment that no deletion reached since its last *)
(* upsert is exactly at that upsert's version.                             *)
THEOREM Settled == ASSUME Alone PROVE Spec => []SettledIsExact
<1>1. Sound => SettledIsExact
  BY DEF Sound
<1> QED BY <1>1, SoundAlways, PTL

-----------------------------------------------------------------------------
(* Reads. *)

(* What reader r has found is as new as what was stored when it began, and
   nobody disturbed the environment without its noticing.                  *)
Fresh(r) ==
  /\ floor[renv[r]] >= base[r].floor
  /\ \A a \in got[r] : a[3][1] = renv[r] /\ a[3][2] >= base[r].floor
  /\ ~changed[r] => Same(base[r].kv, kv, renv[r])

(* Reader r wants name n for holder h, judged by the database it began with. *)
Wants(r, h, n) ==
  \/ h = n /\ h \in asked[r][1]
  \/ h \in asked[r][1] /\ n \in Globals /\ n \in Refs[h] /\ base[r].kv[<<renv[r], h>>] # Missing
  \/ h = Top /\ n \in asked[r][2]

(* It has not got it yet. *)
Open(r, h, n) ==
  \/ h = n /\ h \in groups[r]
  \/ h \in groups[r] /\ n \in Globals /\ n \in Refs[h] /\ base[r].kv[<<renv[r], h>>] # Missing
  \/ <<h, n>> \in refs[r]
  \/ h = Top /\ n \in globals[r]

Holders == Groups \cup {Top}

(* An undisturbed reader has got what it wants, except for what is open. *)
Exact(r) ==
  /\ groups[r] \subseteq asked[r][1] /\ globals[r] \subseteq asked[r][2]
  /\ \A h \in Holders, n \in Names : <<h, n>> \in refs[r] => h \notin groups[r]
  /\ rpc[r] = "done" => groups[r] = {} /\ refs[r] = {} /\ globals[r] = {}
  /\ ~changed[r] =>
       \A h \in Holders, n \in Names :
         /\ <<h, n>> \in refs[r] => Wants(r, h, n)
         /\ \A v \in Values :
              <<h, n, v>> \in got[r] <=>
                Wants(r, h, n) /\ ~Open(r, h, n) /\ v = base[r].kv[<<renv[r], n>>]

Reading(r) == rpc[r] \in {"lock", "get", "done"}

Regular == \A r \in Readers : Fresh(r) /\ (Reading(r) => Exact(r))

LEMMA RegularInit == Init => Regular
<1> SUFFICES ASSUME Init, NEW r \in Readers PROVE Fresh(r) /\ ~Reading(r)
  BY DEF Regular
<1>1. renv[r] \in Reserved /\ base[r] = [kv |-> kv, floor |-> 0] /\ got[r] = {} /\ rpc[r] = "idle"
  BY DEF Init
<1>2. floor[renv[r]] = 0
  BY <1>1 DEF Init
<1> QED BY <1>1, <1>2 DEF Fresh, Reading, Same

(* A writer's step: a reader it does not reach sees the same environment. *)
LEMMA FreshAfterWrite ==
  ASSUME NEW r \in Readers, Typed, Fresh(r), NEW new, Touch(new),
         UNCHANGED <<renv, got, base>>, floor'[renv[r]] >= floor[renv[r]],
         floor'[renv[r]] \in Nat
  PROVE  Fresh(r)'
<1>1. floor[renv[r]] \in Nat /\ base[r].floor \in Nat /\ renv[r] \in Reserved
  BY NamesAssumption DEF Typed, WriteTyped, ReadTyped, Versions
<1>2. changed'[r] = (changed[r] \/ \E n \in Names : new[<<renv[r], n>>] # kv[<<renv[r], n>>]) /\ kv' = new
  BY DEF Touch
<1>3. ~changed'[r] => Same(base[r].kv, kv', renv[r])
  BY <1>2 DEF Fresh, Same
<1>4. floor'[renv[r]] >= base[r].floor
  BY <1>1 DEF Fresh
<1> QED BY <1>3, <1>4 DEF Fresh

LEMMA ExactAfterWrite ==
  ASSUME NEW r \in Readers, Exact(r), UNCHANGED reader, changed'[r] \/ changed'[r] = changed[r]
  PROVE  Exact(r)'
BY DEF Exact, reader, Wants, Open

(* A Get finds what a new enough version put there. *)
LEMMA FoundFresh ==
  ASSUME NEW r \in Readers, NEW h \in Holders, NEW n \in Names, Typed, Sound, Fresh(r),
         Found(r, h, n), UNCHANGED <<kv, floor, renv, base, changed>>
  PROVE  Fresh(r)'
<1> DEFINE e == renv[r]  val == kv[<<e, n>>]
<1>1. e \in Reserved /\ floor[e] \in Nat /\ base[r].floor \in Nat
  BY NamesAssumption DEF Typed, WriteTyped, ReadTyped, Versions
<1>2. val = Missing \/ \E v \in Versions : v >= floor[e] /\ val = <<e, v>>
  BY <1>1 DEF Sound, NeverMixed, IsEmpty, IsAt
<1>3. val = Missing \/ (val[1] = e /\ val[2] >= base[r].floor)
  BY <1>1, <1>2 DEF Fresh, Versions
<1>4. got' = [got EXCEPT ![r] = IF val = Missing THEN @ ELSE @ \cup {<<h, n, val>>}]
  BY DEF Found
<1>5. got'[r] = got[r] \/ (val # Missing /\ got'[r] = got[r] \cup {<<h, n, val>>})
  BY <1>4 DEF Typed, ReadTyped
<1>6. ASSUME NEW a \in got'[r] PROVE a[3][1] = e /\ a[3][2] >= base[r].floor
  <2>1. CASE a \in got[r]
    BY <2>1 DEF Fresh
  <2>2. CASE a \notin got[r]
    <3>1. a = <<h, n, val>> /\ val # Missing
      BY <1>5, <2>2
    <3> QED BY <1>3, <3>1
  <2> QED BY <2>1, <2>2
<1> QED BY <1>6 DEF Fresh

(* The steps of other readers. *)
Aside(r) ==
  /\ rpc'[r] = rpc[r] /\ renv'[r] = renv[r] /\ groups'[r] = groups[r] /\ refs'[r] = refs[r]
  /\ globals'[r] = globals[r] /\ got'[r] = got[r] /\ asked'[r] = asked[r]
  /\ base'[r] = base[r] /\ changed'[r] = changed[r]

LEMMA AsideKept ==
  ASSUME NEW r \in Readers, Fresh(r), Reading(r) => Exact(r), Aside(r), UNCHANGED <<kv, floor>>
  PROVE  Fresh(r)' /\ (Reading(r) => Exact(r))'
<1>1. Fresh(r)'
  BY DEF Fresh, Aside, Same
<1>2. Reading(r)' = Reading(r)
  BY DEF Reading, Aside
<1>3. Exact(r) => Exact(r)'
  BY DEF Exact, Aside, Wants, Open
<1> QED BY <1>1, <1>2, <1>3

(* A read begins with everything it wants open. *)
LEMMA BeginExact ==
  ASSUME Typed, NEW r \in Readers, NEW e \in Reserved, NEW req \in Requests, BeginRead(r, e, req)
  PROVE  Fresh(r)' /\ Exact(r)'
<1> USE NamesAssumption, StoreAssumption
<1>1. /\ rpc'[r] = "lock" /\ renv'[r] = e /\ groups'[r] = req[1] /\ refs'[r] = {}
      /\ globals'[r] = req[2] /\ got'[r] = {} /\ asked'[r] = req
      /\ base'[r] = [kv |-> kv, floor |-> floor[e]] /\ kv' = kv /\ floor' = floor
  BY DEF BeginRead, Typed, ReadTyped, etcd, writer
<1>2. floor[e] >= floor[e]
  BY DEF Typed, WriteTyped, Versions
<1>3. Fresh(r)'
  BY <1>1, <1>2 DEF Fresh, Same
<1>4. \A h \in Holders, n \in Names : Wants(r, h, n)' <=> Open(r, h, n)'
  BY <1>1 DEF Wants, Open
<1>5. Exact(r)'
  BY <1>1, <1>4 DEF Exact
<1> QED BY <1>3, <1>5

(* A reader that is undisturbed gets what its first look would have shown. *)
LEMMA FoundExact ==
  ASSUME NEW r \in Readers, Typed, Fresh(r), ~changed[r],
         NEW h \in Holders, NEW n \in Names, Found(r, h, n)
  PROVE  \A k \in Holders, m \in Names, v \in Values :
           <<k, m, v>> \in got'[r] <=>
             \/ <<k, m, v>> \in got[r]
             \/ k = h /\ m = n /\ v = base[r].kv[<<renv[r], n>>]
<1>1. base[r].kv[<<renv[r], n>>] = kv[<<renv[r], n>>]
  BY DEF Fresh, Same
<1>2. got'[r] = IF kv[<<renv[r], n>>] = Missing THEN got[r]
                ELSE got[r] \cup {<<h, n, kv[<<renv[r], n>>]>>}
  BY DEF Found, Typed, ReadTyped
<1> QED BY <1>1, <1>2, MissingAssumption

LEMMA GroupExact ==
  ASSUME Typed, NEW r \in Readers, NEW g \in Groups, GetGroup(r, g), Fresh(r), Exact(r)
  PROVE  Exact(r)'
<1> USE NamesAssumption, StoreAssumption
<1>1. /\ rpc'[r] = "get" /\ refs[r] = {} /\ g \in groups[r] /\ groups'[r] = groups[r] \ {g}
      /\ refs'[r] = IF kv[<<renv[r], g>>] = Missing THEN {} ELSE {g} \X Refs[g]
      /\ UNCHANGED <<kv, renv, globals, asked, base, changed>> /\ Found(r, g, g)
  BY DEF GetGroup, Typed, ReadTyped, etcd
<1>2. \A h \in Holders, n \in Names : <<h, n>> \in refs'[r] => h = g /\ n \in Refs[g] /\ n \in Globals
  BY <1>1
<1>3. ASSUME ~changed[r]
      PROVE  \A h \in Holders, n \in Names :
               /\ <<h, n>> \in refs'[r] => Wants(r, h, n)'
               /\ \A v \in Values :
                    <<h, n, v>> \in got'[r] <=>
                      Wants(r, h, n)' /\ ~Open(r, h, n)' /\ v = base'[r].kv[<<renv'[r], n>>]
  <2>1. base[r].kv[<<renv[r], g>>] = kv[<<renv[r], g>>]
    BY <1>3 DEF Fresh, Same, Names
  <2>2. \A h \in Holders, n \in Names : Wants(r, h, n)' <=> Wants(r, h, n)
    BY <1>1 DEF Wants
  <2>3. Wants(r, g, g) /\ ~Open(r, g, g)'
    BY <1>1, <1>2 DEF Wants, Open, Exact, Holders, Names
  <2>4. \A h \in Holders, n \in Names :
          ~(h = g /\ n = g) => (Open(r, h, n)' <=> Open(r, h, n))
    BY <1>1, <2>1 DEF Open, Holders
  <2>5. \A h \in Holders, n \in Names, v \in Values :
          <<h, n, v>> \in got'[r] <=>
            \/ <<h, n, v>> \in got[r]
            \/ h = g /\ n = g /\ v = base[r].kv[<<renv[r], g>>]
    BY <1>1, <1>3, FoundExact DEF Holders, Names
  <2>6. Open(r, g, g)
    BY <1>1 DEF Open
  <2>7. \A h \in Holders, n \in Names, v \in Values :
          <<h, n, v>> \in got[r] <=>
            Wants(r, h, n) /\ ~Open(r, h, n) /\ v = base[r].kv[<<renv[r], n>>]
    BY <1>3 DEF Exact
  <2>8. \A h \in Holders, n \in Names : <<h, n>> \in refs'[r] => Wants(r, h, n)
    BY <1>1, <1>2, <2>1 DEF Wants, Exact
  <2>9. ASSUME NEW h \in Holders, NEW n \in Names, NEW v \in Values
        PROVE  <<h, n, v>> \in got'[r] <=>
                 Wants(r, h, n) /\ ~Open(r, h, n)' /\ v = base[r].kv[<<renv[r], n>>]
    <3>1. CASE h = g /\ n = g
      BY <3>1, <2>3, <2>5, <2>6, <2>7
    <3>2. CASE ~(h = g /\ n = g)
      BY <3>2, <2>4, <2>5, <2>7
    <3> QED BY <3>1, <3>2
  <2>10. base'[r] = base[r] /\ renv'[r] = renv[r]
    BY <1>1
  <2> QED BY <2>2, <2>8, <2>9, <2>10
<1>4. \A h \in Holders, n \in Names : <<h, n>> \in refs'[r] => h \notin groups'[r]
  BY <1>1, <1>2
<1> QED BY <1>1, <1>3, <1>4 DEF Exact

LEMMA ReferenceExact ==
  ASSUME Typed, NEW r \in Readers, NEW g \in Groups, NEW x \in Globals,
         <<g, x>> \in refs[r], rpc'[r] = "get",
         Found(r, g, x), refs' = [refs EXCEPT ![r] = @ \ {<<g, x>>}],
         UNCHANGED <<kv, renv, groups, globals, asked, base, changed>>, Fresh(r), Exact(r)
  PROVE  Exact(r)'
<1> USE NamesAssumption, StoreAssumption
<1>2. g \in Holders /\ x \in Names
  BY DEF Holders, Names
<1>3. refs'[r] = refs[r] \ {<<g, x>>}
  BY DEF Typed, ReadTyped
<1>4. g \notin groups[r]
  BY <1>2 DEF Exact
<1>5. ASSUME ~changed[r]
      PROVE  \A h \in Holders, n \in Names :
               /\ <<h, n>> \in refs'[r] => Wants(r, h, n)'
               /\ \A v \in Values :
                    <<h, n, v>> \in got'[r] <=>
                      Wants(r, h, n)' /\ ~Open(r, h, n)' /\ v = base'[r].kv[<<renv'[r], n>>]
  <2>1. \A h \in Holders, n \in Names : Wants(r, h, n)' <=> Wants(r, h, n)
    BY DEF Wants
  <2>2. Wants(r, g, x) /\ Open(r, g, x) /\ ~Open(r, g, x)'
    BY <1>2, <1>3, <1>4, <1>5 DEF Open, Exact
  <2>3. \A h \in Holders, n \in Names :
          ~(h = g /\ n = x) => (Open(r, h, n)' <=> Open(r, h, n))
    BY <1>3 DEF Open
  <2>4. \A h \in Holders, n \in Names, v \in Values :
          <<h, n, v>> \in got'[r] <=>
            \/ <<h, n, v>> \in got[r]
            \/ h = g /\ n = x /\ v = base[r].kv[<<renv[r], x>>]
    BY <1>2, <1>5, FoundExact
  <2>5. \A h \in Holders, n \in Names :
          /\ <<h, n>> \in refs[r] => Wants(r, h, n)
          /\ \A v \in Values :
               <<h, n, v>> \in got[r] <=>
                 Wants(r, h, n) /\ ~Open(r, h, n) /\ v = base[r].kv[<<renv[r], n>>]
    BY <1>5 DEF Exact
  <2>6. ASSUME NEW h \in Holders, NEW n \in Names, NEW v \in Values
        PROVE  <<h, n, v>> \in got'[r] <=>
                 Wants(r, h, n) /\ ~Open(r, h, n)' /\ v = base[r].kv[<<renv[r], n>>]
    <3>1. CASE h = g /\ n = x
      BY <3>1, <2>2, <2>4, <2>5
    <3>2. CASE ~(h = g /\ n = x)
      BY <3>2, <2>3, <2>4, <2>5
    <3> QED BY <3>1, <3>2
  <2>7. base'[r] = base[r] /\ renv'[r] = renv[r]
    OBVIOUS
  <2>8. \A h \in Holders, n \in Names : <<h, n>> \in refs'[r] => Wants(r, h, n)'
    BY <1>3, <2>1, <2>5
  <2>9. \A h \in Holders, n \in Names, v \in Values :
          <<h, n, v>> \in got'[r] <=>
            Wants(r, h, n)' /\ ~Open(r, h, n)' /\ v = base'[r].kv[<<renv'[r], n>>]
    BY <2>1, <2>6, <2>7
  <2> QED BY <2>8, <2>9
<1> QED BY <1>3, <1>5 DEF Exact

LEMMA GlobalExact ==
  ASSUME Typed, NEW r \in Readers, NEW x \in Globals, GetGlobal(r, x), Fresh(r), Exact(r)
  PROVE  Exact(r)'
<1> USE NamesAssumption, StoreAssumption
<1>1. /\ rpc'[r] = "get" /\ refs[r] = {} /\ groups[r] = {} /\ x \in globals[r]
      /\ globals'[r] = globals[r] \ {x} /\ Found(r, Top, x)
      /\ UNCHANGED <<kv, renv, groups, refs, asked, base, changed>>
  BY DEF GetGlobal, Typed, ReadTyped, etcd
<1>2. Top \in Holders /\ x \in Names
  BY DEF Holders, Names
<1>3. ASSUME ~changed[r]
      PROVE  \A h \in Holders, n \in Names :
               /\ <<h, n>> \in refs'[r] => Wants(r, h, n)'
               /\ \A v \in Values :
                    <<h, n, v>> \in got'[r] <=>
                      Wants(r, h, n)' /\ ~Open(r, h, n)' /\ v = base'[r].kv[<<renv'[r], n>>]
  <2>1. \A h \in Holders, n \in Names : Wants(r, h, n)' <=> Wants(r, h, n)
    BY <1>1 DEF Wants
  <2>2. Wants(r, Top, x) /\ Open(r, Top, x) /\ ~Open(r, Top, x)'
    BY <1>1 DEF Open, Exact, Wants
  <2>3. \A h \in Holders, n \in Names :
          ~(h = Top /\ n = x) => (Open(r, h, n)' <=> Open(r, h, n))
    BY <1>1 DEF Open
  <2>4. \A h \in Holders, n \in Names, v \in Values :
          <<h, n, v>> \in got'[r] <=>
            \/ <<h, n, v>> \in got[r]
            \/ h = Top /\ n = x /\ v = base[r].kv[<<renv[r], x>>]
    BY <1>1, <1>2, <1>3, FoundExact
  <2>5. \A h \in Holders, n \in Names, v \in Values :
          <<h, n, v>> \in got[r] <=>
            Wants(r, h, n) /\ ~Open(r, h, n) /\ v = base[r].kv[<<renv[r], n>>]
    BY <1>3 DEF Exact
  <2> QED BY <1>1, <2>1, <2>2, <2>3, <2>4, <2>5
<1> QED BY <1>1, <1>3 DEF Exact

LEMMA RegularStep ==
  ASSUME Typed, Sound, Regular, [Next]_vars, Typed', Sound' PROVE Regular'
<1> USE NamesAssumption, StoreAssumption
<1>1. ASSUME NEW w \in Writers, Write(w) \/ Crash(w) PROVE Regular'
  <2>1. \A e \in Reserved : floor[e] \in Nat /\ floor'[e] \in Nat /\ floor'[e] >= floor[e]
    <3>1. wpc[w] = "store" => wver[w] >= floor[wenv[w]] /\ wenv[w] \in Reserved
      BY DEF Sound, Ready, Typed, WriteTyped
    <3>2. floor' = floor \/ (wpc[w] = "store" /\ floor' = [floor EXCEPT ![wenv[w]] = wver[w]])
      BY <1>1 DEF Write, LockEnv, DeleteConfig, StoreConfig, ReleaseEnvLock, Crash
    <3>3. \A e \in Reserved : floor[e] \in Nat /\ floor'[e] \in Nat
      BY DEF Typed, WriteTyped, Versions
    <3> QED BY <3>1, <3>2, <3>3 DEF Typed, WriteTyped
  <2>2. UNCHANGED reader
    BY <1>1 DEF Write, LockEnv, DeleteConfig, StoreConfig, ReleaseEnvLock, Crash
  <2>3. UNCHANGED <<kv, changed>> \/ \E new : Touch(new)
    BY <1>1 DEF Write, LockEnv, DeleteConfig, StoreConfig, ReleaseEnvLock, Crash
  <2>4. ASSUME NEW r \in Readers PROVE Fresh(r)' /\ (Reading(r) => Exact(r))'
    <3>1. Fresh(r) /\ renv[r] \in Reserved /\ base[r].floor \in Nat
      BY DEF Regular, Typed, ReadTyped, Versions
    <3>2. Fresh(r)'
      <4>1. CASE UNCHANGED <<kv, changed>>
        BY <2>1, <2>2, <3>1, <4>1 DEF Fresh, reader, Same
      <4>2. CASE \E new : Touch(new)
        BY <2>1, <2>2, <3>1, <4>2, FreshAfterWrite DEF reader
      <4> QED BY <2>3, <4>1, <4>2
    <3>3. changed'[r] \/ changed'[r] = changed[r]
      <4>1. CASE UNCHANGED <<kv, changed>>
        BY <4>1
      <4>2. ASSUME NEW new, Touch(new) PROVE changed'[r] \/ changed'[r] = changed[r]
        <5>1. changed'[r] = (changed[r] \/ \E n \in Names : new[<<renv[r], n>>] # kv[<<renv[r], n>>])
          BY <4>2 DEF Touch
        <5>2. changed[r] \in BOOLEAN
          BY DEF Typed, ReadTyped
        <5> QED BY <5>1, <5>2, Zenon
      <4> QED BY <2>3, <4>1, <4>2
    <3>4. Reading(r) => Exact(r)
      BY DEF Regular
    <3>5. Reading(r)' = Reading(r)
      BY <2>2 DEF Reading, reader
    <3> QED BY <2>2, <3>2, <3>3, <3>4, <3>5, ExactAfterWrite
  <2> QED BY <2>4 DEF Regular
<1>2. ASSUME NEW r \in Readers, Fresh(r)', (Reading(r) => Exact(r))', UNCHANGED <<kv, floor>>,
             \A s \in Readers \ {r} : Aside(s)
      PROVE  Regular'
  BY <1>2, AsideKept DEF Regular
<1>3. ASSUME NEW r \in Readers, NEW e \in Reserved, NEW req \in Requests, BeginRead(r, e, req)
      PROVE  Regular'
  <2>1. \A s \in Readers \ {r} : Aside(s)
    BY <1>3 DEF BeginRead, Aside, Typed, ReadTyped
  <2>2. UNCHANGED <<kv, floor>>
    BY <1>3 DEF BeginRead, etcd, writer
  <2> QED BY <1>2, <1>3, <2>1, <2>2, BeginExact
<1>4. ASSUME NEW r \in Readers, Read(r) \/ ReadFails(r) PROVE Regular'
  <2>1. ASSUME NEW s \in Readers \ {r} PROVE Aside(s)
    <3>1. CASE IsEnvLockHeld(r) \/ Answer(r) \/ ReadFails(r)
      BY <3>1 DEF IsEnvLockHeld, Answer, ReadFails, Aside, Typed, ReadTyped
    <3>2. ASSUME NEW g \in Groups, GetGroup(r, g) PROVE Aside(s)
      BY <3>2 DEF GetGroup, Found, Aside, Typed, ReadTyped
    <3>3. CASE GetReference(r)
      <4>1. PICK p \in refs[r] : Found(r, p[1], p[2]) /\ refs' = [refs EXCEPT ![r] = @ \ {p}]
        BY <3>3 DEF GetReference
      <4>2. refs'[s] = refs[s] /\ got'[s] = got[s]
        BY <4>1 DEF Found, Typed, ReadTyped
      <4> QED BY <3>3, <4>2 DEF GetReference, Aside
    <3>4. ASSUME NEW x \in Globals, GetGlobal(r, x) PROVE Aside(s)
      BY <3>4 DEF GetGlobal, Found, Aside, Typed, ReadTyped
    <3> QED BY <1>4, <3>1, <3>2, <3>3, <3>4 DEF Read
  <2>2. UNCHANGED <<kv, floor, renv, base, changed, asked>>
    BY <1>4 DEF Read, ReadFails, IsEnvLockHeld, GetGroup, GetReference, GetGlobal, Answer, etcd, writer
  <2>3. Fresh(r) /\ (Reading(r) => Exact(r)) /\ (rpc[r] \in {"lock", "get"} => Exact(r))
    BY DEF Regular, Reading
  <2>4. ASSUME UNCHANGED <<got, groups, refs, globals>>,
               rpc'[r] # "done" \/ (refs[r] = {} /\ groups[r] = {} /\ globals[r] = {}),
               rpc[r] \in {"lock", "get"}
        PROVE  Fresh(r)' /\ (Reading(r) => Exact(r))'
    <3>1. Fresh(r)'
      BY <2>2, <2>3, <2>4 DEF Fresh, Same
    <3>2. Exact(r)'
      BY <2>2, <2>3, <2>4 DEF Exact, Wants, Open
    <3> QED BY <3>1, <3>2
  <2>5. CASE IsEnvLockHeld(r)
    <3>1. rpc'[r] # "done"
      BY <2>5 DEF IsEnvLockHeld, Typed, ReadTyped
    <3> QED BY <1>2, <2>1, <2>2, <2>4, <2>5, <3>1 DEF IsEnvLockHeld
  <2>6. ASSUME NEW g \in Groups, GetGroup(r, g) PROVE Regular'
    <3>1. Fresh(r)'
      BY <2>2, <2>3, <2>6, FoundFresh DEF GetGroup, Holders, Names
    <3>2. Exact(r)'
      BY <2>3, <2>6, GroupExact DEF GetGroup
    <3> QED BY <1>2, <2>1, <2>2, <3>1, <3>2
  <2>7. CASE GetReference(r)
    <3>1. PICK p \in refs[r] : Found(r, p[1], p[2]) /\ refs' = [refs EXCEPT ![r] = @ \ {p}]
      BY <2>7 DEF GetReference
    <3>2. p[1] \in Groups /\ p[2] \in Globals /\ p = <<p[1], p[2]>>
      BY <3>1 DEF Typed, ReadTyped
    <3>3. p[1] \in Holders /\ p[2] \in Names
      BY <3>2 DEF Holders, Names
    <3>4. Fresh(r)'
      BY <2>2, <2>3, <3>1, <3>3, FoundFresh
    <3>5. rpc[r] = "get" /\ rpc'[r] = "get" /\ UNCHANGED <<groups, globals>>
      BY <2>7 DEF GetReference
    <3>6. Exact(r)'
      BY <2>2, <2>3, <3>1, <3>2, <3>5, ReferenceExact
    <3> QED BY <1>2, <2>1, <2>2, <3>4, <3>6
  <2>8. ASSUME NEW x \in Globals, GetGlobal(r, x) PROVE Regular'
    <3>1. Fresh(r)'
      BY <2>2, <2>3, <2>8, FoundFresh DEF GetGlobal, Holders, Names
    <3>2. Exact(r)'
      BY <2>3, <2>8, GlobalExact DEF GetGlobal
    <3> QED BY <1>2, <2>1, <2>2, <3>1, <3>2
  <2>9. CASE Answer(r)
    BY <1>2, <2>1, <2>2, <2>4, <2>9 DEF Answer
  <2>10. CASE ReadFails(r)
    <3>1. rpc'[r] # "done"
      BY <2>10 DEF ReadFails, Typed, ReadTyped
    <3> QED BY <1>2, <2>1, <2>2, <2>4, <2>10, <3>1 DEF ReadFails
  <2> QED BY <1>4, <2>5, <2>6, <2>7, <2>8, <2>9, <2>10 DEF Read
<1>5. CASE UNCHANGED <<kv, floor, reader, changed>>
  <2>1. \A r \in Readers : Aside(r)
    BY <1>5 DEF Aside, reader
  <2> QED BY <1>5, <2>1, AsideKept DEF Regular
<1>6. ASSUME NEW e \in Envs, ExpireLease(e) PROVE Regular'
  BY <1>5, <1>6 DEF ExpireLease, writer
<1>7. CASE UNCHANGED vars
  BY <1>5, <1>7 DEF vars, etcd, writer
<1> QED BY <1>1, <1>3, <1>4, <1>6, <1>7 DEF Next

(* With one poller, a read no upsert disturbed answers with exactly what   *)
(* the environment held when it began, and one that was disturbed with     *)
(* nothing older than what was stored then; any number of reads at once.   *)
THEOREM RegularReads == ASSUME Alone PROVE Spec => []ReadIsRegular
<1>1. Typed /\ Sound /\ Regular /\ [Next]_vars => (Typed /\ Sound /\ Regular)'
  BY TypeStep, SoundStep, RegularStep
<1>2. Typed /\ Regular => ReadIsRegular
  <2> SUFFICES ASSUME Typed, Regular, NEW r \in Readers, rpc[r] = "done"
               PROVE  /\ \A a \in got[r] : a[3][1] = renv[r] /\ a[3][2] >= base[r].floor
                      /\ ~changed[r] => got[r] = View(base[r].kv, renv[r], asked[r])
    BY DEF ReadIsRegular
  <2>1. Fresh(r) /\ Exact(r)
    BY DEF Regular, Reading
  <2>2. ASSUME ~changed[r] PROVE got[r] = View(base[r].kv, renv[r], asked[r])
    <3> DEFINE db == base[r].kv  e == renv[r]  want == Wanted(db, e, asked[r])
    <3>1. /\ e \in Reserved /\ db \in Database /\ asked[r][1] \subseteq Groups
          /\ asked[r][2] \subseteq Globals /\ got[r] \subseteq Holders \X Names \X Values
      BY DEF Typed, ReadTyped, Holders
    <3>2. \A h \in Holders, n \in Names : ~Open(r, h, n)
      BY <2>1 DEF Exact, Open
    <3>3. \A h \in Holders, n \in Names, v \in Values :
            <<h, n, v>> \in got[r] <=> Wants(r, h, n) /\ v = db[<<e, n>>]
      BY <2>1, <2>2, <3>2 DEF Exact
    <3>4. \A h \in Holders, n \in Names : Wants(r, h, n) <=> <<h, n>> \in want
      BY <3>1, NamesAssumption, StoreAssumption DEF Wants, Wanted, Holders, Names
    <3>5. \A p \in want : p \in Holders \X Names
      BY <3>1 DEF Wanted, Holders, Names
    <3>6. \A n \in Names : db[<<e, n>>] # Missing => db[<<e, n>>] \in Values
      BY <3>1, NamesAssumption DEF Database, Keys
    <3>7. ASSUME NEW a \in got[r] PROVE a \in View(db, e, asked[r])
      <4>1. PICK h \in Holders, n \in Names, v \in Values : a = <<h, n, v>>
        BY <3>1
      <4>2. <<h, n>> \in want /\ v = db[<<e, n>>]
        BY <3>3, <3>4, <4>1
      <4>3. v # Missing
        BY <4>1, MissingAssumption
      <4> DEFINE p == <<h, n>>
      <4>4. p \in want /\ p[1] = h /\ p[2] = n
        BY <4>2
      <4>5. a = <<p[1], p[2], db[<<e, p[2]>>]>> /\ db[<<e, p[2]>>] # Missing
        BY <4>1, <4>2, <4>3, <4>4
      <4> HIDE DEF p, want
      <4>6. a \in {<<q[1], q[2], db[<<e, q[2]>>]>> : q \in {i \in want : db[<<e, i[2]>>] # Missing}}
        BY <4>4, <4>5
      <4> QED BY <4>6 DEF View, want
    <3>8. ASSUME NEW a \in View(db, e, asked[r]) PROVE a \in got[r]
      <4>1. PICK p \in want : db[<<e, p[2]>>] # Missing /\ a = <<p[1], p[2], db[<<e, p[2]>>]>>
        BY DEF View
      <4>2. PICK h \in Holders, n \in Names : p = <<h, n>>
        BY <3>5
      <4> HIDE DEF want
      <4>3. Wants(r, h, n)
        BY <3>4, <4>1, <4>2
      <4>4. a = <<h, n, db[<<e, n>>]>> /\ db[<<e, n>>] \in Values
        BY <3>6, <4>1, <4>2
      <4> QED BY <3>3, <4>3, <4>4
    <3> QED BY <3>7, <3>8
  <2> QED BY <2>1, <2>2 DEF Fresh
<1> QED BY <1>1, <1>2, TypeInit, SoundInit, RegularInit, PTL DEF Spec

=============================================================================
