--------------------------- MODULE ConfigSync_proofs ---------------------------
(***************************************************************************)
(* Theorems about ConfigSync, for every set of environments and tags,      *)
(* every version order, every broken tree and any number of failures.      *)
(*                                                                         *)
(* The inductive invariant Inv follows one pass of the poller: what the    *)
(* analyzer put into "updates" stays newer than what is recorded and at    *)
(* least as new as what was ever stored, until it is itself stored,        *)
(* recorded and announced.                                                 *)
(***************************************************************************)
EXTENDS ConfigSync, TLAPS

Applying == pc \in {"extract", "delete", "put", "record", "notify"}

(* Memory only matters while the process runs, and follows origin. *)
Memory ==
  /\ fetched \subseteq remote
  /\ pc = "down" => main = "off"
  /\ pc \in {"clone", "addenv", "rollback"} => main = "starting"

(* A pending update was fetched, selects its environment and is newer than
   the recorded version; during its turn it moves from the queue, through the
   working tree and the database, into the record.                         *)
Pending ==
  /\ \A e \in DOMAIN updates :
       /\ updates[e] \in TagsOf(e, fetched)
       /\ (pc = "notify" /\ e = cur) \/ Version[updates[e]] > SemVer(e)
  /\ Applying => cur \in DOMAIN updates
  /\ pc \in {"delete", "put"} => <<wt, cur>> \notin Broken
  /\ pc = "record" => store[cur] = wt
  /\ pc = "notify" => store[cur] # None

Lost == \A e \in Apart : latest[e] # None /\ store[e] = None => Newer(e, fetched) # {}

Registered ==
  /\ pc # "rollback" => \A e \in added : meta[e] # Absent
  /\ ServingIsRegistered

Inv == TypeOK /\ Memory /\ Pending /\ Lost /\ StoredIsUsable /\ Registered

(* What holds in addition when a tag that was fetched can be checked out. *)
Faithful ==
  /\ Applying => wt = updates[cur]
  /\ \A e \in DOMAIN updates : served[e] <= Version[updates[e]]
  /\ \A e \in Envs : served[e] = 0 \/ \E t \in TagsOf(e, remote) : Version[t] = served[e]
  /\ \A e \in Envs : store[e] # None => served[e] = VersionOf(store[e])
  /\ \A e \in Envs : latest[e] # None => Version[latest[e]] <= served[e]
  /\ pc = "notify" => latest[cur] = updates[cur] /\ served[cur] = Version[updates[cur]]
  /\ MetadataNeverAhead

FInv == Inv /\ (~CheckoutFaults => Faithful)

-----------------------------------------------------------------------------
(* The analyzer returns, for environments only, tags it was given. *)
LEMMA Analysis ==
  ASSUME NEW tags \in SUBSET Tags, NEW f \in AnalyzeTagsForUpdates(tags)
  PROVE  /\ DOMAIN f \subseteq Envs
         /\ f \in [DOMAIN f -> Tags]
         /\ \A e \in DOMAIN f : f[e] \in Newest(e, tags)
BY DEF AnalyzeTagsForUpdates

(* Every step keeps the types. *)
LEMMA TypeStep == TypeOK /\ Pending /\ [Next]_vars => TypeOK'
<1> SUFFICES ASSUME TypeOK, Pending, [Next]_vars PROVE TypeOK'
  OBVIOUS
<1> USE TagsAssumption, BoundsAssumption DEF TypeOK, Trees, NoUpdates
<1>die. ASSUME Die, UNCHANGED <<remote, dir>>, store' \in [Envs -> Trees \cup {None}],
               meta' \in [Envs -> Tags \cup {None, Absent}], served' \in [Envs -> Nat],
               announced' \in [Envs -> Nat], faults' \in Nat
        PROVE  TypeOK'
  BY <1>die DEF Die
<1>abort. ASSUME Abort, UNCHANGED remote, store' \in [Envs -> Trees \cup {None}],
                 meta' \in [Envs -> Tags \cup {None, Absent}], served' \in [Envs -> Nat],
                 announced' \in [Envs -> Nat], faults' \in Nat
          PROVE  TypeOK'
  <2>1. CASE Booting
    BY <1>die, <1>abort, <2>1 DEF Abort
  <2>2. CASE ~Booting
    BY <1>abort, <2>2 DEF Abort, git
  <2> QED BY <2>1, <2>2
<1>1. CASE \E t \in Tags : PushTag(t)
  BY <1>1 DEF PushTag, git, work, ctl, db, hist
<1>2. CASE Start
  BY <1>2 DEF Start, git, work, ctl, db, hist
<1>3. CASE CloneRemoteRepo
  <2>1. CASE Die
    <3>1. UNCHANGED <<remote, dir, db, hist>>
      BY <1>3, <2>1 DEF CloneRemoteRepo, Die
    <3>2. faults' \in Nat
      BY <1>3 DEF CloneRemoteRepo, Fail
    <3> QED BY <2>1, <3>1, <3>2, <1>die DEF db, hist
  <2>2. CASE ~Die
    <3>1. dir' = TRUE /\ cloned' = TRUE /\ pc' = "pull"
          /\ UNCHANGED <<fetched, wt, work, main, ticker, poked, faults, remote, db, hist>>
      BY <1>3, <2>2 DEF CloneRemoteRepo
    <3> QED BY <3>1 DEF work, db, hist
  <2> QED BY <2>1, <2>2
<1>4. CASE PullTags
  <2>1. CASE /\ cloned
             /\ fetched' = remote
             /\ updates' \in AnalyzeTagsForUpdates(remote)
             /\ pc' = IF DOMAIN updates' # {} THEN "apply" ELSE IF Booting THEN "addenv" ELSE "wait"
             /\ UNCHANGED <<dir, cloned, wt, latest, cur, added, main, ticker, poked, faults>>
    BY <1>4, <2>1, Analysis DEF PullTags, db, hist
  <2>2. CASE cloned /\ Fail /\ Abort
    BY <1>4, <2>2, <1>abort DEF PullTags, db, hist, Fail
  <2>3. CASE ~cloned /\ Die /\ UNCHANGED <<dir, faults>>
    BY <1>4, <2>3, <1>die DEF PullTags, db, hist
  <2> QED
    BY <1>4, <2>1, <2>2, <2>3 DEF PullTags
<1>5. CASE \E e \in Envs : FetchAndCheckout(e)
  <2>1. CASE Die
    BY <1>5, <2>1, <1>die DEF FetchAndCheckout, git, db, hist, Fail
  <2>2. CASE ~Die
    BY <1>5, <2>2 DEF FetchAndCheckout, git, db, hist, Fail
  <2> QED BY <2>1, <2>2
<1>6. CASE ExtractAndParse
  BY <1>6, <1>abort DEF ExtractAndParse, git, work, db, hist
<1>7. CASE DeleteStored
  <2>1. Emptied(cur) \in [Envs -> Trees \cup {None}]
    BY DEF Emptied
  <2>2. CASE Abort
    BY <1>7, <2>1, <2>2, <1>abort DEF DeleteStored, hist, Fail
  <2>3. CASE ~Abort
    BY <1>7, <2>1, <2>3 DEF DeleteStored, git, work, hist
  <2> QED BY <2>2, <2>3
<1>8. CASE StoreConfig
  <2>1. ASSUME Put(wt)
        PROVE  store' \in [Envs -> Trees \cup {None}] /\ served' \in [Envs -> Nat]
    <3>1. VersionOf(wt) \in Nat
      BY DEF VersionOf
    <3>2. store' \in [Envs -> Trees \cup {None}]
      BY <2>1 DEF Put
    <3>3. served' \in [Envs -> Nat]
      BY <2>1, <3>1 DEF Put
    <3> QED BY <3>2, <3>3
  <2>2. store' \in [Envs -> Trees \cup {None}] /\ served' \in [Envs -> Nat]
    BY <1>8, <2>1 DEF StoreConfig
  <2>3. CASE Abort
    BY <1>8, <2>2, <2>3, <1>abort DEF StoreConfig, Fail
  <2>4. CASE ~Abort
    BY <1>8, <2>2, <2>4 DEF StoreConfig, git, work
  <2> QED BY <2>3, <2>4
<1>9. CASE SetEnvLatestVersion
  <2>1. cur \in DOMAIN updates
    BY <1>9 DEF SetEnvLatestVersion, Pending, Applying
  <2> QED
    BY <1>9, <2>1 DEF SetEnvLatestVersion, git, db, hist
<1>10. CASE NotifyConfigUpdate
  <2>1. cur \in DOMAIN updates
    BY <1>10 DEF NotifyConfigUpdate, Pending, Applying
  <2>2. announced' \in [Envs -> Nat]
    BY <1>10, <2>1 DEF NotifyConfigUpdate
  <2>3. DOMAIN updates' \subseteq Envs /\ updates' \in [DOMAIN updates' -> Tags]
    BY <1>10 DEF NotifyConfigUpdate, Without
  <2> QED
    BY <1>10, <2>2, <2>3 DEF NotifyConfigUpdate, git, db
<1>11. CASE \E e \in Envs : AddEnv(e)
  BY <1>11 DEF AddEnv, git, hist, Fail
<1>12. CASE \E e \in Envs : RollbackEnv(e)
  <2>1. CASE Die
    BY <1>12, <2>1, <1>die DEF RollbackEnv, git, ctl, hist, Fail
  <2>2. CASE ~Die
    BY <1>12, <2>2 DEF RollbackEnv, git, ctl, hist, Fail
  <2> QED BY <2>1, <2>2
<1>13. CASE RollbackDone
  BY <1>13, <1>die DEF RollbackDone, db, hist
<1>14. CASE RunReturns \/ NewTicker
  BY <1>14 DEF RunReturns, NewTicker, git, work, db, hist
<1>15. CASE RangeTicker
  BY <1>15, <1>die DEF RangeTicker, git, work, db, hist
<1>16. CASE TickerFires \/ Tick
  <2>1. CASE TickerFires
    BY <2>1 DEF TickerFires, git, work, db, hist
  <2>2. CASE Tick
    BY <2>2 DEF Tick, git, work, db, hist
  <2> QED BY <1>16, <2>1, <2>2
<1>17. CASE StopTicker \/ RemoveLocalRepo
  <2>1. dir' \in BOOLEAN /\ cloned' \in BOOLEAN /\ faults' \in Nat
    <3>1. CASE StopTicker
      BY <3>1 DEF StopTicker, git
    <3>2. CASE RemoveLocalRepo
      <4>1. CASE Fail /\ UNCHANGED <<dir, cloned>>
        BY <4>1 DEF Fail
      <4>2. CASE dir' = FALSE /\ cloned' = FALSE /\ UNCHANGED faults
        BY <4>2
      <4> QED BY <3>2, <4>1, <4>2 DEF RemoveLocalRepo
    <3> QED BY <1>17, <3>1, <3>2
  <2> QED
    BY <1>17, <2>1 DEF StopTicker, RemoveLocalRepo, git, work, db, hist
<1>18. CASE Exit \/ Crash
  BY <1>18, <1>die DEF Exit, Crash, db, hist, Fail
<1>19. CASE UNCHANGED vars
  BY <1>19 DEF vars, git, work, ctl, db, hist
<1> QED
  BY <1>1, <1>2, <1>3, <1>4, <1>5, <1>6, <1>7, <1>8, <1>9, <1>10, <1>11, <1>12, <1>13,
     <1>14, <1>15, <1>16, <1>17, <1>18, <1>19 DEF Next, Poller

-----------------------------------------------------------------------------
(* What the poller remembers are tags that are still in origin. *)
LEMMA MemoryStep == TypeOK /\ Memory /\ [Next]_vars => Memory'
<1> SUFFICES ASSUME TypeOK, Memory, [Next]_vars PROVE Memory'
  OBVIOUS
<1> USE DEF Memory
<1>die. ASSUME Die, UNCHANGED remote PROVE Memory'
  BY <1>die DEF Die
<1>abort. ASSUME Abort, UNCHANGED remote PROVE Memory'
  BY <1>abort, <1>die DEF Abort, Booting, git
<1>1. CASE \E t \in Tags : PushTag(t)
  BY <1>1 DEF PushTag, git, ctl
<1>2. CASE Start \/ CloneRemoteRepo
  BY <1>2, <1>die DEF Start, CloneRemoteRepo
<1>3. CASE PullTags
  BY <1>3, <1>die, <1>abort DEF PullTags, Booting
<1>4. CASE \E e \in Envs : FetchAndCheckout(e)
  BY <1>4, <1>die DEF FetchAndCheckout, git
<1>5. CASE ExtractAndParse \/ DeleteStored \/ StoreConfig
  BY <1>5, <1>abort DEF ExtractAndParse, DeleteStored, StoreConfig, git
<1>6. CASE SetEnvLatestVersion \/ NotifyConfigUpdate
  BY <1>6 DEF SetEnvLatestVersion, NotifyConfigUpdate, git, Booting
<1>7. CASE \E e \in Envs : AddEnv(e) \/ RollbackEnv(e)
  BY <1>7, <1>die DEF AddEnv, RollbackEnv, git, ctl
<1>8. CASE RollbackDone \/ RunReturns \/ NewTicker \/ RangeTicker \/ TickerFires \/ Tick
  BY <1>8, <1>die DEF RollbackDone, RunReturns, NewTicker, RangeTicker, TickerFires, Tick, git
<1>9. CASE StopTicker \/ RemoveLocalRepo \/ Exit \/ Crash
  BY <1>9, <1>die DEF StopTicker, RemoveLocalRepo, Exit, Crash, git
<1>10. CASE UNCHANGED vars
  BY <1>10 DEF vars, git, ctl
<1> QED
  BY <1>1, <1>2, <1>3, <1>4, <1>5, <1>6, <1>7, <1>8, <1>9, <1>10 DEF Next, Poller

(* The updates on their way are fetched tags, newer than what is recorded. *)
LEMMA PendingStep == TypeOK /\ Memory /\ Pending /\ [Next]_vars => Pending'
<1> SUFFICES ASSUME TypeOK, Memory, Pending, [Next]_vars PROVE Pending'
  OBVIOUS
<1> USE TagsAssumption DEF TypeOK, Pending, Applying, SemVer
<1>none. ASSUME updates' = NoUpdates, pc' \in {"down", "wait"} PROVE Pending'
  BY <1>none DEF NoUpdates
<1>die. ASSUME Die PROVE Pending'
  BY <1>die, <1>none DEF Die
<1>abort. ASSUME Abort PROVE Pending'
  BY <1>abort, <1>die, <1>none DEF Abort
<1>same. ASSUME UNCHANGED <<fetched, wt, latest, updates, cur, pc, store>> PROVE Pending'
  BY <1>same DEF TagsOf
<1>move. ASSUME UNCHANGED <<fetched, wt, latest, updates, cur, store>>,
                pc \notin {"notify"},
                pc' \notin {"extract", "delete", "put", "record", "notify"}
         PROVE  Pending'
  BY <1>move DEF TagsOf
<1>1. CASE \E t \in Tags : PushTag(t)
  BY <1>1, <1>same DEF PushTag, git, work, ctl, db
<1>2. CASE Start
  BY <1>2, <1>move DEF Start, work, db
<1>3. CASE CloneRemoteRepo
  BY <1>3, <1>die, <1>move DEF CloneRemoteRepo, work, db
<1>4. CASE PullTags
  <2>1. CASE /\ fetched' = remote
             /\ updates' \in AnalyzeTagsForUpdates(remote)
             /\ pc' = IF DOMAIN updates' # {} THEN "apply" ELSE IF Booting THEN "addenv" ELSE "wait"
             /\ UNCHANGED latest
    <3>1. \A e \in DOMAIN updates' : updates'[e] \in Newest(e, remote)
      BY <2>1, Analysis
    <3>2. \A e \in DOMAIN updates' : /\ updates'[e] \in TagsOf(e, fetched')
                                    /\ Version[updates'[e]] > SemVer(e)'
      BY <2>1, <3>1 DEF Newest, Newer
    <3> QED BY <2>1, <3>2 DEF TagsOf
  <2> QED
    BY <1>4, <2>1, <1>die, <1>abort DEF PullTags
<1>5. CASE \E e \in Envs : FetchAndCheckout(e)
  <2> PICK e \in Envs : FetchAndCheckout(e)
    BY <1>5
  <2>1. CASE Die
    BY <2>1, <1>die
  <2>2. CASE ~Die
    <3>1. /\ UNCHANGED <<fetched, latest, updates, store>>
          /\ cur' = e /\ e \in DOMAIN updates /\ pc' = "extract" /\ pc = "apply"
      BY <2>2 DEF FetchAndCheckout, git, db
    <3> QED BY <3>1 DEF TagsOf
  <2> QED BY <2>1, <2>2
<1>6. CASE ExtractAndParse
  <2>1. CASE Abort
    BY <2>1, <1>abort
  <2>2. CASE ~Abort
    BY <1>6, <2>2 DEF ExtractAndParse, git, work, db, TagsOf
  <2> QED BY <2>1, <2>2
<1>7. CASE DeleteStored
  <2>1. CASE Abort
    BY <2>1, <1>abort
  <2>2. CASE ~Abort
    BY <1>7, <2>2 DEF DeleteStored, git, work, TagsOf
  <2> QED BY <2>1, <2>2
<1>8. CASE StoreConfig
  <2>1. CASE Abort
    BY <2>1, <1>abort
  <2>2. CASE ~Abort
    BY <1>8, <2>2 DEF StoreConfig, Put, git, work, TagsOf
  <2> QED BY <2>1, <2>2
<1>9. CASE SetEnvLatestVersion
  <2>1. store[cur] # None
    BY <1>9 DEF SetEnvLatestVersion, Trees
  <2>2. \A e \in DOMAIN updates : e # cur => SemVer(e)' = SemVer(e)
    BY <1>9 DEF SetEnvLatestVersion
  <2> QED BY <1>9, <2>1, <2>2 DEF SetEnvLatestVersion, git, db, TagsOf
<1>10. CASE NotifyConfigUpdate
  <2>1. \A e \in DOMAIN updates' : e \in DOMAIN updates /\ e # cur /\ updates'[e] = updates[e]
    BY <1>10 DEF NotifyConfigUpdate, Without
  <2>2. UNCHANGED <<fetched, latest>> /\ pc' \in {"apply", "addenv", "wait"}
    BY <1>10 DEF NotifyConfigUpdate, git
  <2> QED BY <2>1, <2>2 DEF TagsOf
<1>11. CASE \E e \in Envs : AddEnv(e)
  <2>1. UNCHANGED <<fetched, wt, latest, updates, cur, store>> /\ pc = "addenv" /\ pc' \in {"addenv", "rollback"}
    BY <1>11 DEF AddEnv, git
  <2> QED BY <2>1, <1>move
<1>12. CASE \E e \in Envs : RollbackEnv(e)
  BY <1>12, <1>die, <1>same DEF RollbackEnv, git, ctl
<1>13. CASE RollbackDone \/ Exit \/ Crash
  BY <1>13, <1>die DEF RollbackDone, Exit, Crash
<1>14. CASE RunReturns \/ NewTicker \/ RangeTicker \/ Tick
  BY <1>14, <1>die, <1>move DEF RunReturns, NewTicker, RangeTicker, Tick, git, work, db
<1>15. CASE TickerFires \/ StopTicker \/ RemoveLocalRepo
  BY <1>15, <1>same DEF TickerFires, StopTicker, RemoveLocalRepo, git, work, db
<1>16. CASE UNCHANGED vars
  BY <1>16, <1>same DEF vars, git, work, ctl, db
<1> QED
  BY <1>1, <1>2, <1>3, <1>4, <1>5, <1>6, <1>7, <1>8, <1>9, <1>10, <1>11, <1>12, <1>13,
     <1>14, <1>15, <1>16 DEF Next, Poller

(* A configuration is deleted only while a fetched, newer tag is on its way,
   and that tag stays newer until the configuration is stored again.       *)
LEMMA LostStep == TypeOK /\ Memory /\ Pending /\ Lost /\ [Next]_vars => Lost'
<1> SUFFICES ASSUME TypeOK, Memory, Pending, Lost, [Next]_vars PROVE Lost'
  OBVIOUS
<1> USE TagsAssumption DEF TypeOK, Lost, Apart, SemVer, Newer, TagsOf
<1>die. ASSUME Die PROVE Lost'
  BY <1>die DEF Die
<1>same. ASSUME UNCHANGED <<fetched, latest, store>> PROVE Lost'
  BY <1>same
<1>pending. Applying => Newer(cur, fetched) # {} \/ pc = "notify"
  BY DEF Pending, Applying
<1>1. CASE \E t \in Tags : PushTag(t)
  BY <1>1, <1>same DEF PushTag, git, work, db
<1>2. CASE Start \/ CloneRemoteRepo
  BY <1>2, <1>die, <1>same DEF Start, CloneRemoteRepo, work, db
<1>3. CASE PullTags
  <2>1. CASE fetched' = remote /\ UNCHANGED <<latest, store>>
    BY <2>1 DEF Memory
  <2> QED
    BY <1>3, <2>1, <1>die, <1>same DEF PullTags, Abort, git, db
<1>4. CASE \E e \in Envs : FetchAndCheckout(e)
  BY <1>4, <1>die, <1>same DEF FetchAndCheckout, git, db
<1>5. CASE ExtractAndParse
  BY <1>5, <1>die, <1>same DEF ExtractAndParse, Abort, git, work, db
<1>6. CASE DeleteStored
  <2>1. CASE Die
    BY <2>1, <1>die
  <2>2. CASE ~Die
    <3>1. UNCHANGED <<fetched, latest>>
      BY <1>6, <2>2 DEF DeleteStored, Abort, git, work
    <3>2. \A e \in Apart : e = cur \/ store'[e] = store[e]
      <4>1. cur \in Envs
        BY <1>6 DEF DeleteStored, Pending, Applying
      <4>2. \A e \in Apart : e \in Envs /\ (e = cur \/ e \notin Under[cur])
        BY <4>1 DEF Apart
      <4> QED BY <1>6, <4>2 DEF DeleteStored, Emptied
    <3>3. Newer(cur, fetched) # {}
      BY <1>6, <1>pending DEF DeleteStored, Applying
    <3> QED BY <3>1, <3>2, <3>3
  <2> QED BY <2>1, <2>2
<1>7. CASE StoreConfig
  <2>1. CASE Die
    BY <2>1, <1>die
  <2>2. CASE ~Die
    <3>1. UNCHANGED <<fetched, latest>>
      BY <1>7, <2>2 DEF StoreConfig, Abort, git, work
    <3>2. \A e \in Envs : e = cur \/ store'[e] = store[e]
      BY <1>7 DEF StoreConfig, Put
    <3>3. Newer(cur, fetched) # {}
      BY <1>7, <1>pending DEF StoreConfig, Applying
    <3> QED BY <3>1, <3>2, <3>3
  <2> QED BY <2>1, <2>2
<1>8. CASE SetEnvLatestVersion
  <2>1. store[cur] # None
    BY <1>8 DEF SetEnvLatestVersion, Pending, Trees
  <2>2. \A e \in Envs : e # cur => latest'[e] = latest[e]
    BY <1>8 DEF SetEnvLatestVersion
  <2>3. UNCHANGED <<fetched, store>>
    BY <1>8 DEF SetEnvLatestVersion, git, db
  <2> QED BY <2>1, <2>2, <2>3
<1>9. CASE NotifyConfigUpdate
  BY <1>9, <1>same DEF NotifyConfigUpdate, git, db
<1>10. CASE \E e \in Envs : AddEnv(e) \/ RollbackEnv(e)
  BY <1>10, <1>die, <1>same DEF AddEnv, RollbackEnv, git
<1>11. CASE RollbackDone \/ Exit \/ Crash
  BY <1>11, <1>die DEF RollbackDone, Exit, Crash
<1>12. CASE RunReturns \/ NewTicker \/ RangeTicker \/ TickerFires \/ Tick
  BY <1>12, <1>die, <1>same DEF RunReturns, NewTicker, RangeTicker, TickerFires, Tick, git, work, db
<1>13. CASE StopTicker \/ RemoveLocalRepo
  BY <1>13, <1>same DEF StopTicker, RemoveLocalRepo, git, work, db
<1>14. CASE UNCHANGED vars
  BY <1>14, <1>same DEF vars, git, work, db
<1> QED
  BY <1>1, <1>2, <1>3, <1>4, <1>5, <1>6, <1>7, <1>8, <1>9, <1>10, <1>11, <1>12, <1>13,
     <1>14 DEF Next, Poller

(* Only a tree that extracted and parsed reaches the database. *)
LEMMA UsableStep == TypeOK /\ Pending /\ StoredIsUsable /\ [Next]_vars => StoredIsUsable'
<1> SUFFICES ASSUME TypeOK, Pending, StoredIsUsable, [Next]_vars PROVE StoredIsUsable'
  OBVIOUS
<1> USE DEF TypeOK, StoredIsUsable
<1>1. CASE DeleteStored
  BY <1>1 DEF DeleteStored, Emptied
<1>2. CASE StoreConfig
  BY <1>2 DEF StoreConfig, Put, Pending
<1>3. CASE ~DeleteStored /\ ~StoreConfig
  <2>1. UNCHANGED store
    BY <1>3 DEF Next, Poller, vars, db, PushTag, Start, CloneRemoteRepo, PullTags,
         FetchAndCheckout, ExtractAndParse, SetEnvLatestVersion, NotifyConfigUpdate, AddEnv,
         RollbackEnv, RollbackDone, RunReturns, NewTicker, RangeTicker, TickerFires, Tick,
         StopTicker, RemoveLocalRepo, Exit, Crash
  <2> QED BY <2>1
<1> QED BY <1>1, <1>2, <1>3

(* The boot registers every environment before the instance serves. *)
LEMMA RegisteredStep ==
  TypeOK /\ Memory /\ Registered /\ [Next]_vars => Registered'
<1> SUFFICES ASSUME TypeOK, Memory, Registered, [Next]_vars PROVE Registered'
  OBVIOUS
<1> USE TagsAssumption DEF TypeOK, Memory, Registered, ServingIsRegistered
<1>die. ASSUME Die PROVE Registered'
  BY <1>die DEF Die
<1>same. ASSUME UNCHANGED <<pc, main, added, meta>> PROVE Registered'
  BY <1>same
<1>move. ASSUME UNCHANGED <<main, added, meta>>, pc # "rollback" PROVE Registered'
  BY <1>move
<1>abort. ASSUME Abort, UNCHANGED meta, pc # "rollback" PROVE Registered'
  BY <1>abort, <1>die, <1>move DEF Abort
<1>1. CASE \E e \in Envs : AddEnv(e)
  <2> PICK e \in Envs : AddEnv(e)
    BY <1>1
  <2>1. main = "starting" /\ main' = main
    BY DEF AddEnv
  <2>2. CASE pc' = "rollback"
    BY <2>1, <2>2
  <2>3. CASE pc' # "rollback"
    <3>1. /\ pc = "addenv"
          /\ meta' = [meta EXCEPT ![e] = latest[e]]
          /\ added' = added \cup {e}
      BY <2>3 DEF AddEnv
    <3>2. latest[e] # Absent
      BY DEF Trees
    <3> QED BY <2>1, <3>1, <3>2
  <2> QED BY <2>2, <2>3
<1>2. CASE \E e \in Envs : RollbackEnv(e)
  <2> PICK e \in Envs : RollbackEnv(e)
    BY <1>2
  <2>1. CASE Die
    BY <2>1, <1>die
  <2>2. CASE ~Die
    BY <2>2 DEF RollbackEnv, ctl
  <2> QED BY <2>1, <2>2
<1>3. CASE RunReturns
  BY <1>3 DEF RunReturns, work, db
<1>4. CASE DeleteStored \/ StoreConfig
  BY <1>4, <1>move, <1>abort DEF DeleteStored, StoreConfig, work
<1>5. CASE PullTags \/ ExtractAndParse
  BY <1>5, <1>die, <1>move, <1>abort DEF PullTags, ExtractAndParse, work, db
<1>6. CASE Start \/ CloneRemoteRepo \/ SetEnvLatestVersion \/ NotifyConfigUpdate
  BY <1>6, <1>die, <1>move DEF Start, CloneRemoteRepo, SetEnvLatestVersion, NotifyConfigUpdate, work, db
<1>7. CASE \E e \in Envs : FetchAndCheckout(e)
  BY <1>7, <1>die, <1>move DEF FetchAndCheckout, db
<1>8. CASE NewTicker \/ RangeTicker \/ Tick
  BY <1>8, <1>die, <1>move DEF NewTicker, RangeTicker, Tick, work, db
<1>9. CASE RollbackDone \/ Exit \/ Crash
  BY <1>9, <1>die DEF RollbackDone, Exit, Crash
<1>10. CASE \E t \in Tags : PushTag(t)
  BY <1>10, <1>same DEF PushTag, ctl, work, db
<1>11. CASE StopTicker \/ RemoveLocalRepo
  BY <1>11 DEF StopTicker, RemoveLocalRepo, work, db
<1>12. CASE TickerFires \/ UNCHANGED vars
  BY <1>12, <1>same DEF TickerFires, vars, ctl, work, db
<1> QED
  BY <1>1, <1>2, <1>3, <1>4, <1>5, <1>6, <1>7, <1>8, <1>9, <1>10, <1>11, <1>12
  DEF Next, Poller

(* A process that was never started satisfies the invariant. *)
LEMMA InvInit == Init => Inv
<1> SUFFICES ASSUME Init PROVE Inv
  OBVIOUS
<1> USE TagsAssumption DEF Init
<1>1. TypeOK
  <2>1. DOMAIN updates \subseteq Envs /\ updates \in [DOMAIN updates -> Tags]
    BY DEF NoUpdates
  <2> QED BY <2>1 DEF TypeOK, Trees
<1>2. Memory /\ Pending
  BY DEF Memory, Pending, Applying, NoUpdates
<1>3. Lost /\ StoredIsUsable /\ Registered
  BY DEF Lost, StoredIsUsable, Registered, ServingIsRegistered
<1> QED BY <1>1, <1>2, <1>3 DEF Inv

(* Inv holds in every reachable state. *)
THEOREM Invariance == Spec => []Inv
<1>1. Init => Inv
  BY InvInit
<1>2. Inv /\ [Next]_vars => Inv'
  BY TypeStep, MemoryStep, PendingStep, LostStep, UsableStep, RegisteredStep DEF Inv
<1> QED BY <1>1, <1>2, PTL DEF Spec

(* The variables of the poller keep their types. *)
THEOREM TypeCorrect == Spec => []TypeOK
BY Invariance, PTL DEF Inv

(* A configuration that was recorded and lost by a failed upsert is waiting
   to be stored again, whatever fails (buildConfigFromLocalRepo, UpsertConfig). *)
THEOREM NothingForgotten == Spec => []LostIsPending
<1>1. Inv => LostIsPending
  BY DEF Inv, Memory, Lost, LostIsPending, Newer, TagsOf
<1> QED BY <1>1, Invariance, PTL

(* Readers never get a broken tree, even when checkouts fail unnoticed or
   Shutdown removes the clone in the middle of a pass.                     *)
THEOREM AlwaysUsable == Spec => []StoredIsUsable
BY Invariance, PTL DEF Inv

(* An instance that serves requests has registered its environments. *)
THEOREM AlwaysRegistered == Spec => []ServingIsRegistered
<1>1. Inv => ServingIsRegistered
  BY DEF Inv, Registered
<1> QED BY <1>1, Invariance, PTL

-----------------------------------------------------------------------------
(* The newest tag of an environment is at least as new as anything stored
   for it, because all that was ever stored came from a tag still in origin. *)
LEMMA NewestCoversServed ==
  ASSUME TypeOK, Faithful, NEW e \in Envs, NEW t \in Newest(e, remote)
  PROVE  served[e] <= Version[t]
<1> USE TagsAssumption DEF TypeOK, Newest, Newer, TagsOf
<1>1. Version[t] \in Nat /\ served[e] \in Nat /\ SemVer(e) \in Nat
  BY DEF SemVer
<1>2. CASE served[e] = 0
  BY <1>1, <1>2
<1>3. CASE \E u \in TagsOf(e, remote) : Version[u] = served[e]
  <2> PICK u \in TagsOf(e, remote) : Version[u] = served[e]
    BY <1>3
  <2>1. CASE Version[u] > SemVer(e)
    BY <2>1
  <2>2. CASE ~(Version[u] > SemVer(e))
    BY <2>2, <1>1
  <2> QED BY <2>1, <2>2
<1> QED BY <1>2, <1>3 DEF Faithful

(* What StoreConfig puts, when it does, is the update on its way. *)
LEMMA PutIsUpdate ==
  ASSUME TypeOK, Memory, Pending, Faithful, pc = "put", Put(wt)
  PROVE  /\ cur \in Envs /\ updates[cur] \in TagsOf(cur, remote)
         /\ store' = [store EXCEPT ![cur] = updates[cur]]
         /\ served' = [served EXCEPT ![cur] = Version[updates[cur]]]
         /\ served[cur] <= Version[updates[cur]]
         /\ Version[updates[cur]] \in Nat
<1> USE TagsAssumption DEF TypeOK, TagsOf
<1>1. cur \in DOMAIN updates /\ wt = updates[cur]
  BY DEF Pending, Faithful, Applying
<1>2. updates[cur] \in TagsOf(cur, fetched)
  BY <1>1 DEF Pending
<1>3. updates[cur] \in TagsOf(cur, remote)
  BY <1>2 DEF Memory
<1>4. VersionOf(wt) = Version[updates[cur]]
  BY <1>1, <1>3 DEF VersionOf
<1>5. served[cur] <= Version[updates[cur]]
  BY <1>1 DEF Faithful
<1> QED BY <1>1, <1>3, <1>4, <1>5 DEF Put

(* With reliable checkouts, what is recorded, registered and announced was
   stored before.                                                          *)
LEMMA FaithfulStep ==
  ASSUME ~CheckoutFaults, TypeOK, Memory, Pending, Faithful, [Next]_vars
  PROVE  Faithful'
<1> USE TagsAssumption DEF TypeOK, Faithful, MetadataNeverAhead, Applying, TagsOf, VersionOf
<1>none. ASSUME updates' = NoUpdates, pc' \in {"down", "wait"}, UNCHANGED <<remote, served, store, meta>>,
                latest' = latest \/ latest' = [e \in Envs |-> None]
         PROVE  Faithful'
  BY <1>none DEF NoUpdates
<1>die. ASSUME Die, UNCHANGED <<remote, served, store, meta>> PROVE Faithful'
  BY <1>die, <1>none DEF Die
<1>abort. ASSUME Abort, UNCHANGED <<remote, served, store, meta>> PROVE Faithful'
  BY <1>abort, <1>die, <1>none DEF Abort
<1>move. ASSUME UNCHANGED <<remote, wt, latest, updates, cur, served, store, meta>>,
                pc' = pc \/ pc' \notin {"extract", "delete", "put", "record", "notify"}
         PROVE  Faithful'
  BY <1>move
<1>1. CASE \E t \in Tags : PushTag(t)
  <2>1. remote \subseteq remote' /\ UNCHANGED <<wt, latest, updates, cur, served, store, meta, pc>>
    BY <1>1 DEF PushTag, git, work, ctl, db, hist
  <2> QED BY <2>1
<1>2. CASE Start \/ CloneRemoteRepo
  BY <1>2, <1>die, <1>move DEF Start, CloneRemoteRepo, work, db, hist
<1>3. CASE PullTags
  <2>1. CASE /\ updates' \in AnalyzeTagsForUpdates(remote)
             /\ pc' = IF DOMAIN updates' # {} THEN "apply" ELSE IF Booting THEN "addenv" ELSE "wait"
             /\ UNCHANGED <<remote, latest, served, store, meta>>
    <3>1. DOMAIN updates' \subseteq Envs /\ \A e \in DOMAIN updates' : updates'[e] \in Newest(e, remote)
      BY <2>1, Analysis
    <3>2. \A e \in DOMAIN updates' : served'[e] <= Version[updates'[e]]
      BY <2>1, <3>1, NewestCoversServed
    <3> QED BY <2>1, <3>2
  <2> QED BY <1>3, <2>1, <1>die, <1>abort DEF PullTags, db, hist
<1>4. CASE \E e \in Envs : FetchAndCheckout(e)
  <2> PICK e \in Envs : FetchAndCheckout(e)
    BY <1>4
  <2>1. CASE Die
    BY <2>1, <1>die DEF FetchAndCheckout, db, hist
  <2>2. CASE ~Die
    <3>1. /\ wt' = updates[e] /\ cur' = e /\ pc' = "extract"
          /\ UNCHANGED <<remote, latest, updates, served, store, meta>>
      BY <2>2 DEF FetchAndCheckout, git, db, hist
    <3> QED BY <3>1
  <2> QED BY <2>1, <2>2
<1>5. CASE ExtractAndParse
  <2>1. CASE Abort
    BY <1>5, <2>1, <1>abort DEF ExtractAndParse, db, hist
  <2>2. CASE ~Abort
    BY <1>5, <2>2 DEF ExtractAndParse, git, work, db, hist
  <2> QED BY <2>1, <2>2
<1>6. CASE DeleteStored
  <2>1. /\ UNCHANGED <<remote, served, meta>>
        /\ \A e \in Envs : store'[e] # None => store'[e] = store[e]
    BY <1>6 DEF DeleteStored, Emptied, hist
  <2>2. CASE Abort
    <3>1. updates' = NoUpdates /\ pc' \in {"down", "wait"}
      BY <2>2 DEF Abort, Die
    <3>2. latest' = latest \/ latest' = [e \in Envs |-> None]
      BY <2>2 DEF Abort, Die
    <3> QED BY <2>1, <3>1, <3>2 DEF NoUpdates
  <2>3. CASE ~Abort
    <3>1. pc = "delete" /\ pc' = "put" /\ UNCHANGED <<wt, latest, updates, cur>>
      BY <1>6, <2>3 DEF DeleteStored, git, work
    <3> QED BY <2>1, <3>1
  <2> QED BY <2>2, <2>3
<1>7. CASE StoreConfig
  <2>1. UNCHANGED <<remote, meta>> /\ pc = "put"
    BY <1>7 DEF StoreConfig
  <2>2. CASE ~Put(wt)
    BY <1>7, <2>2, <1>abort DEF StoreConfig
  <2>3. CASE Put(wt)
    <3>1. /\ cur \in Envs /\ updates[cur] \in TagsOf(cur, remote)
          /\ store' = [store EXCEPT ![cur] = updates[cur]]
          /\ served' = [served EXCEPT ![cur] = Version[updates[cur]]]
          /\ served[cur] <= Version[updates[cur]]
          /\ Version[updates[cur]] \in Nat
      BY <2>1, <2>3, PutIsUpdate
    <3>2. \A e \in Envs : /\ store'[e] # None => served'[e] = VersionOf(store'[e])
                          /\ served'[e] = 0 \/ \E t \in TagsOf(e, remote) : Version[t] = served'[e]
                          /\ served[e] <= served'[e]
      BY <3>1
    <3>3. \A e \in Envs : meta'[e] \in Tags => Version[meta'[e]] <= served'[e]
      BY <2>1, <3>1, <3>2
    <3>4. \A e \in Envs : latest[e] # None => Version[latest[e]] <= served'[e]
      BY <3>1, <3>2
    <3>5. CASE Abort
      <4>1. updates' = NoUpdates /\ pc' \in {"down", "wait"}
        BY <3>5 DEF Abort, Die
      <4>2. latest' = latest \/ latest' = [e \in Envs |-> None]
        BY <3>5 DEF Abort, Die
      <4> QED BY <2>1, <3>2, <3>3, <3>4, <4>1, <4>2 DEF NoUpdates
    <3>6. CASE ~Abort
      <4>1. pc' = "record" /\ UNCHANGED <<wt, latest, updates, cur>>
        BY <1>7, <3>6 DEF StoreConfig, git, work
      <4>2. \A e \in DOMAIN updates : served'[e] <= Version[updates[e]]
        BY <3>1
      <4> QED BY <2>1, <3>2, <3>3, <3>4, <4>1, <4>2
    <3> QED BY <3>5, <3>6
  <2> QED BY <2>2, <2>3
<1>8. CASE SetEnvLatestVersion
  <2>1. /\ pc = "record" /\ pc' = "notify"
        /\ latest' = [latest EXCEPT ![cur] = updates[cur]]
        /\ UNCHANGED <<remote, wt, updates, cur, served, store, meta>>
    BY <1>8 DEF SetEnvLatestVersion, git, db, hist
  <2>2. cur \in DOMAIN updates /\ updates[cur] \in Tags /\ cur \in Envs
    BY <2>1 DEF Pending
  <2>3. served[cur] = Version[updates[cur]]
    BY <2>1, <2>2 DEF Pending
  <2>4. \A e \in Envs : latest'[e] # None => Version[latest'[e]] <= served[e]
    BY <2>1, <2>2, <2>3
  <2> QED BY <2>1, <2>2, <2>3, <2>4
<1>9. CASE NotifyConfigUpdate
  <2>1. \A e \in DOMAIN updates' : e \in DOMAIN updates /\ updates'[e] = updates[e]
    BY <1>9 DEF NotifyConfigUpdate, Without
  <2>2. UNCHANGED <<remote, latest, served, store, meta>> /\ pc' \in {"apply", "addenv", "wait"}
    BY <1>9 DEF NotifyConfigUpdate, db
  <2> QED BY <2>1, <2>2
<1>10. CASE \E e \in Envs : AddEnv(e)
  <2> PICK e \in Envs : AddEnv(e)
    BY <1>10
  <2>1. /\ UNCHANGED <<remote, wt, latest, updates, cur, served, store>>
        /\ pc' \in {"addenv", "rollback"}
        /\ meta' = meta \/ meta' = [meta EXCEPT ![e] = latest[e]]
    BY DEF AddEnv, git, hist
  <2>2. \A x \in Envs : meta'[x] \in Tags => Version[meta'[x]] <= served[x]
    BY <2>1 DEF Trees
  <2> QED BY <2>1, <2>2
<1>11. CASE \E e \in Envs : RollbackEnv(e)
  <2> PICK e \in Envs : RollbackEnv(e)
    BY <1>11
  <2>1. CASE Die
    BY <2>1, <1>die DEF RollbackEnv, ctl, hist, Die
  <2>2. CASE ~Die
    <3>1. /\ UNCHANGED <<remote, wt, latest, updates, cur, served, store, pc>>
          /\ meta' \in {meta, [meta EXCEPT ![e] = Absent]}
      BY <2>2 DEF RollbackEnv, git, ctl, hist
    <3>2. \A x \in Envs : meta'[x] \in Tags => Version[meta'[x]] <= served[x]
      BY <3>1 DEF Trees
    <3> QED BY <3>1, <3>2
  <2> QED BY <2>1, <2>2
<1>12. CASE RollbackDone \/ Exit \/ Crash
  BY <1>12, <1>die DEF RollbackDone, Exit, Crash, db, hist
<1>13. CASE RunReturns \/ NewTicker \/ RangeTicker \/ Tick
  BY <1>13, <1>die, <1>move DEF RunReturns, NewTicker, RangeTicker, Tick, git, work, db, hist
<1>14. CASE TickerFires \/ StopTicker \/ RemoveLocalRepo \/ UNCHANGED vars
  BY <1>14, <1>move DEF TickerFires, StopTicker, RemoveLocalRepo, vars, git, work, ctl, db, hist
<1> QED
  BY <1>1, <1>2, <1>3, <1>4, <1>5, <1>6, <1>7, <1>8, <1>9, <1>10, <1>11, <1>12, <1>13, <1>14
  DEF Next, Poller

(* Nothing is stored, recorded or announced at first. *)
LEMMA FInvInit == Init => FInv
<1> SUFFICES ASSUME Init PROVE FInv
  OBVIOUS
<1>1. Faithful
  BY TagsAssumption DEF Init, Faithful, Applying, NoUpdates, MetadataNeverAhead, Trees
<1> QED BY <1>1, InvInit DEF FInv

(* The invariant together with what a reliable checkout adds to it. *)
THEOREM FInvariance == Spec => []FInv
<1>1. Init => FInv
  BY FInvInit
<1>2. FInv /\ [Next]_vars => FInv'
  BY TypeStep, MemoryStep, PendingStep, LostStep, UsableStep, RegisteredStep, FaithfulStep
  DEF FInv, Inv
<1> QED BY <1>1, <1>2, PTL DEF Spec

(* If a fetched tag can always be checked out, the recorded version of an
   environment is never ahead of the configuration readers get.            *)
THEOREM RecordedFollowsStored ==
  ASSUME ~CheckoutFaults PROVE Spec => []RecordedIsStored
<1>1. FInv => RecordedIsStored
  BY TagsAssumption DEF FInv, Inv, TypeOK, Faithful, RecordedIsStored, SemVer
<1> QED BY <1>1, FInvariance, PTL

(* ... and no metadata record names a version that was never stored. *)
THEOREM MetadataFollowsStored ==
  ASSUME ~CheckoutFaults PROVE Spec => []MetadataNeverAhead
<1>1. FInv => MetadataNeverAhead
  BY DEF FInv, Faithful
<1> QED BY <1>1, FInvariance, PTL

(* Only StoreConfig writes the history of what was stored, and never back. *)
LEMMA ServedStep ==
  ASSUME ~CheckoutFaults, FInv, [Next]_vars
  PROVE  \/ UNCHANGED served
         \/ /\ cur \in Envs /\ updates[cur] \in Tags
            /\ store' = [store EXCEPT ![cur] = updates[cur]]
            /\ served' = [served EXCEPT ![cur] = Version[updates[cur]]]
            /\ served[cur] <= Version[updates[cur]]
            /\ UNCHANGED announced
<1>1. CASE StoreConfig
  <2>1. CASE Put(wt)
    BY <1>1, <2>1, PutIsUpdate DEF StoreConfig, FInv, Inv, Memory, TypeOK, TagsOf
  <2>2. CASE ~Put(wt)
    BY <1>1, <2>2 DEF StoreConfig
  <2> QED BY <2>1, <2>2
<1>2. CASE ~StoreConfig
  BY <1>2 DEF Next, Poller, vars, db, hist, PushTag, Start, CloneRemoteRepo, PullTags,
     FetchAndCheckout, ExtractAndParse, DeleteStored, SetEnvLatestVersion, NotifyConfigUpdate,
     AddEnv, RollbackEnv, RollbackDone, RunReturns, NewTicker, RangeTicker, TickerFires, Tick,
     StopTicker, RemoveLocalRepo, Exit, Crash
<1> QED BY <1>1, <1>2

(* Versions only grow in the database, across crashes and restarts too. *)
THEOREM VersionsOnlyGrow ==
  ASSUME ~CheckoutFaults PROVE Spec => NeverRollsBack
<1>1. FInv /\ [Next]_vars => [\A e \in Envs : served'[e] >= served[e]]_vars
  <2> SUFFICES ASSUME FInv, [Next]_vars, NEW e \in Envs PROVE served'[e] >= served[e]
    OBVIOUS
  <2>1. served \in [Envs -> Nat]
    BY DEF FInv, Inv, TypeOK
  <2>2. Version \in [Tags -> Nat]
    BY TagsAssumption
  <2> QED BY <2>1, <2>2, ServedStep
<1> QED BY <1>1, FInvariance, PTL DEF Spec, NeverRollsBack

-----------------------------------------------------------------------------
(* At first nothing is available and nothing was published. *)
LEMMA FeedInit == Init => Feed!Init
BY TagsAssumption DEF Init, Feed!Init, Trees

(* Every step of the poller withdraws, publishes or announces one
   environment of the feed, or leaves the feed as it is.                   *)
LEMMA FeedStep ==
  ASSUME ~CheckoutFaults, FInv, [Next]_vars
  PROVE  [Feed!Next]_(Feed!feed)
<1> DEFINE up(db1) == [e \in Envs |-> db1[e] # None]
<1> USE DEF FInv, Inv, TypeOK, Feed!feed
<1>1. CASE DeleteStored
  <2>1. UNCHANGED hist /\ store' \in {store, Emptied(cur)}
    BY <1>1 DEF DeleteStored
  <2>2. CASE UNCHANGED store
    BY <2>1, <2>2 DEF hist
  <2>3. CASE store' = Emptied(cur)
    <3>1. Under[cur] \in SUBSET Envs
      BY <1>1, BoundsAssumption DEF DeleteStored, Pending, Applying
    <3>2. up(store)' = [e \in Envs |-> up(store)[e] /\ e \notin Under[cur]]
      BY <2>3 DEF Emptied
    <3>3. Feed!Withdraw(Under[cur])
      BY <2>1, <3>2 DEF hist, Feed!Withdraw
    <3>4. Feed!Next
      BY <3>1, <3>3 DEF Feed!Next, Feed!Withdraw
    <3> QED BY <3>4
  <2> QED BY <2>1, <2>2, <2>3
<1>2. CASE StoreConfig
  <2>1. CASE Put(wt)
    <3>1. /\ cur \in Envs /\ updates[cur] \in Tags
          /\ store' = [store EXCEPT ![cur] = updates[cur]]
          /\ served' = [served EXCEPT ![cur] = Version[updates[cur]]]
          /\ Version[updates[cur]] >= served[cur]
          /\ UNCHANGED announced
      BY <1>2, <2>1, PutIsUpdate, TagsAssumption DEF StoreConfig, Memory, TagsOf
    <3>2. Version[updates[cur]] \in {VersionOf(t) : t \in Trees}
      BY <3>1 DEF VersionOf, Trees
    <3>3. up(store)' = [up(store) EXCEPT ![cur] = TRUE]
      BY <3>1, TagsAssumption DEF Trees
    <3>4. Feed!Publish(cur, Version[updates[cur]])
      BY <3>1, <3>3 DEF Feed!Publish
    <3>5. Feed!Next
      BY <3>1, <3>2, <3>4 DEF Feed!Next, Feed!Publish
    <3> QED BY <3>5
  <2>2. CASE ~Put(wt)
    BY <1>2, <2>2 DEF StoreConfig
  <2> QED BY <2>1, <2>2
<1>3. CASE NotifyConfigUpdate
  <2>1. cur \in Envs /\ store[cur] # None /\ served[cur] = Version[updates[cur]]
    BY <1>3 DEF NotifyConfigUpdate, Pending, Applying, Faithful
  <2>2. UNCHANGED <<store, served>> /\ announced' = [announced EXCEPT ![cur] = served[cur]]
    BY <1>3, <2>1 DEF NotifyConfigUpdate, db
  <2>3. Feed!Announce(cur)
    BY <2>1, <2>2 DEF Feed!Announce
  <2> QED BY <2>1, <2>3 DEF Feed!Next
<1>4. CASE ~DeleteStored /\ ~StoreConfig /\ ~NotifyConfigUpdate
  <2>1. UNCHANGED <<store, served, announced>>
    BY <1>4 DEF Next, Poller, vars, db, hist, PushTag, Start, CloneRemoteRepo, PullTags,
       FetchAndCheckout, ExtractAndParse, SetEnvLatestVersion, AddEnv, RollbackEnv,
       RollbackDone, RunReturns, NewTicker, RangeTicker, TickerFires, Tick, StopTicker,
       RemoveLocalRepo, Exit, Crash
  <2> QED BY <2>1
<1> QED BY <1>1, <1>2, <1>3, <1>4

(* With reliable checkouts the poller, its clone and its crashes implement
   the feed that readers and subscribers rely on.                          *)
THEOREM Refinement ==
  ASSUME ~CheckoutFaults PROVE Spec => ImplementsFeed
<1>1. FInv /\ [Next]_vars => [Feed!Next]_(Feed!feed)
  BY FeedStep
<1> QED BY <1>1, FeedInit, FInvariance, PTL DEF Spec, Feed!Spec, ImplementsFeed
=============================================================================
