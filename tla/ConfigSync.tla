------------------------------ MODULE ConfigSync ------------------------------
(***************************************************************************)
(* One instance of configleam keeping the configuration of its reserved    *)
(* environments in step with the tags of a Git repository.                 *)
(*                                                                         *)
(* The poller (ConfigurationService.Run and the goroutine it starts) pulls *)
(* the tags, looks for newer versions, checks every new tag out, extracts  *)
(* and parses the environment's files, replaces the configuration in the   *)
(* database and announces the update.  The main goroutine shuts it down.   *)
(* The process may crash at any step and is started again.                 *)
(*                                                                         *)
(* A tag is a model value.  Version[t] is its semantic version (the order  *)
(* of major, minor, patch is the order of the numbers; 0 is 0.0.0 and also *)
(* a tag without a version, which is skipped), Selects[t] the environments *)
(* whose "-name" is a suffix of the tag.  A configuration is named by the  *)
(* tree it was extracted from.                                             *)
(***************************************************************************)
EXTENDS Naturals, FiniteSets

CONSTANTS
  Envs,            \* CG_ENVS: the reserved environments
  Tags,            \* the tags that may ever be pushed to origin
  Version,         \* [Tags -> Nat]
  Selects,         \* [Tags -> SUBSET Envs]
  BranchHead,      \* the tree of the configured branch, checked out by the clone
  Broken,          \* <<tree, e>>: e's files do not extract or parse in tree
  Unstorable,      \* <<tree, e>>: e's files in tree do not fit a transaction or have no JSON
  Under,           \* [Envs -> SUBSET Envs]: whose keys a deletion for e reaches
  None, Absent,    \* no tag, configuration or tree; no metadata record
  CheckoutFaults,  \* may FetchAndCheckout fail?
  MaxFaults        \* bound: failed calls and crashes in a behaviour

Trees == Tags \cup {BranchHead}

ASSUME TagsAssumption ==
  /\ Version \in [Tags -> Nat]
  /\ Selects \in [Tags -> SUBSET Envs]
  /\ BranchHead \notin Tags
  /\ None \notin Trees
  /\ Absent \notin Trees \cup {None}
  /\ None \notin Envs

ASSUME BoundsAssumption ==
  /\ Broken \subseteq Trees \X Envs /\ Unstorable \subseteq Trees \X Envs
  /\ Under \in [Envs -> SUBSET Envs]
  /\ CheckoutFaults \in BOOLEAN
  /\ MaxFaults \in Nat

VARIABLES
  remote,     \* tags pushed to origin so far
  dir,        \* the directory of the clone exists on disk
  cloned,     \* gr.locRep and gr.wt are set
  fetched,    \* tags present in the local clone
  wt,         \* the tree in the working directory
  latest,     \* gr.Envs[e]: the tag last recorded (LastTag and SemVer)
  updates,    \* updatedEnvs still to be applied: a function from environments to tags
  cur,        \* the environment being applied
  added,      \* addedEnvs: environments registered by this boot
  pc,         \* where the poller is
  main,       \* where the main goroutine is
  ticker,     \* s.ticker # nil
  poked,      \* a tick waits in ticker.C
  store,      \* database: the tree e's configuration comes from, None if deleted
  meta,       \* database: the Version in e's metadata record
  served,     \* history: the version of the last configuration stored for e
  announced,  \* history: the version of the last notification sent for e
  faults      \* counter of failures, bounded by MaxFaults

git  == <<dir, cloned, fetched, wt>>
work == <<latest, updates, cur, added>>
ctl  == <<pc, main, ticker, poked>>
db   == <<store, meta>>
hist == <<served, announced>>
vars == <<remote, git, work, ctl, db, hist, faults>>

SemVer(e) == IF latest[e] = None THEN 0 ELSE Version[latest[e]]

TagsOf(e, tags) == {t \in tags : e \in Selects[t]}

(* AnalyzeTagsForUpdates: for every environment with a matching tag newer
   than its recorded version, a newest such tag; which one of two tags with
   the same version is left open.                                          *)
Newer(e, tags) == {t \in TagsOf(e, tags) : Version[t] > SemVer(e)}

(* Mutant: without the comparison that keeps the highest version. *)
MutNewestAny(e, tags) == Newer(e, tags)

Newest(e, tags) ==
  {t \in Newer(e, tags) : \A u \in Newer(e, tags) : Version[u] <= Version[t]}

(* Mutant: environments without a newer tag are reported as well. *)
MutAnalyzeAll(tags) ==
  {f \in [Envs -> Tags \cup {None}] :
     \A e \in Envs : f[e] \in IF Newer(e, tags) = {} THEN {None} ELSE Newest(e, tags)}

AnalyzeTagsForUpdates(tags) ==
  {f \in [{e \in Envs : Newer(e, tags) # {}} -> Tags] :
     \A e \in DOMAIN f : f[e] \in Newest(e, tags)}

NoUpdates == [e \in {} |-> None]

VersionOf(tree) == IF tree \in Tags THEN Version[tree] ELSE 0

Without(f, e) == [x \in DOMAIN f \ {e} |-> f[x]]

Running == pc # "down"
Booting == main = "starting"

-----------------------------------------------------------------------------
Fail == faults < MaxFaults /\ faults' = faults + 1

(* The end of the process: what it kept in memory is gone.  The file system
   and the database stay.                                                  *)
Die ==
  /\ pc' = "down" /\ main' = "off"
  /\ cloned' = FALSE /\ fetched' = {} /\ wt' = BranchHead
  /\ latest' = [e \in Envs |-> None] /\ updates' = NoUpdates /\ cur' = None /\ added' = {}
  /\ ticker' = FALSE /\ poked' = FALSE

(* Mutant: an error makes watchRemoteReposForUpdates return. *)
MutAbortStopsWatch ==
  IF Booting
  THEN Die /\ UNCHANGED dir
  ELSE /\ pc' = "stopped"
       /\ UNCHANGED <<git, work, main, ticker, poked>>

(* An error returned by buildConfigFromLocalRepo: log.Fatal in Run, logged
   in watchRemoteReposForUpdates, which then waits for the next tick.      *)
Abort ==
  IF Booting
  THEN Die /\ UNCHANGED dir
  ELSE /\ pc' = "wait"
       /\ updates' = NoUpdates /\ cur' = None
       /\ UNCHANGED <<git, latest, added, main, ticker, poked>>

Init ==
  /\ remote \in SUBSET Tags
  /\ dir = FALSE /\ cloned = FALSE /\ fetched = {} /\ wt = BranchHead
  /\ latest = [e \in Envs |-> None] /\ updates = NoUpdates /\ cur = None /\ added = {}
  /\ pc = "down" /\ main = "off" /\ ticker = FALSE /\ poked = FALSE
  /\ store = [e \in Envs |-> None]
  /\ meta = [e \in Envs |-> Absent]
  /\ served = [e \in Envs |-> 0]
  /\ announced = [e \in Envs |-> 0]
  /\ faults = 0

PushTag(t) ==
  /\ t \notin remote
  /\ remote' = remote \cup {t}
  /\ UNCHANGED <<git, work, ctl, db, hist, faults>>

(* A restarted container has a fresh file system; a restarted process, or a
   directory on a volume, finds what the last one left.                    *)
Start ==
  /\ pc = "down"
  /\ pc' = "clone" /\ main' = "starting"
  /\ dir' \in {dir, FALSE}
  /\ UNCHANGED <<remote, cloned, fetched, wt, work, ticker, poked, db, hist, faults>>

(* CloneRemoteRepo refuses a directory that already holds a repository. *)
CloneRemoteRepo ==
  /\ pc = "clone"
  /\ \/ /\ ~dir
        /\ dir' = TRUE /\ cloned' = TRUE
        /\ pc' = "pull"
        /\ UNCHANGED <<fetched, wt, work, main, ticker, poked, faults>>
     \/ /\ dir
        /\ Die /\ UNCHANGED <<dir, faults>>
     \/ /\ ~dir
        /\ Fail /\ Die /\ UNCHANGED dir
  /\ UNCHANGED <<remote, db, hist>>

(* PullTagsFromRemoteRepo and the analysis of what it returns.  Without a
   local repository (RemoveLocalRepo) the first use of gr.locRep panics.   *)
PullTags ==
  /\ pc = "pull"
  /\ \/ /\ cloned
        /\ fetched' = remote
        /\ updates' \in AnalyzeTagsForUpdates(remote)
        /\ pc' = IF DOMAIN updates' # {} THEN "apply" ELSE IF Booting THEN "addenv" ELSE "wait"
        /\ UNCHANGED <<dir, cloned, wt, latest, cur, added, main, ticker, poked, faults>>
     \/ /\ cloned
        /\ Fail /\ Abort
     \/ /\ ~cloned
        /\ Die /\ UNCHANGED <<dir, faults>>
  /\ UNCHANGED <<remote, db, hist>>

(* The next environment in the random order of the analyzer's map.  An error
   of FetchAndCheckout is ignored: the working tree stays what it was.     *)
FetchAndCheckout(e) ==
  /\ pc = "apply"
  /\ e \in DOMAIN updates
  /\ \/ /\ cloned
        /\ wt' = updates[e]
        /\ cur' = e
        /\ pc' = "extract"
        /\ UNCHANGED <<dir, cloned, fetched, latest, updates, added, main, ticker, poked, faults>>
     \/ /\ cloned
        /\ CheckoutFaults /\ Fail
        /\ cur' = e
        /\ pc' = "extract"
        /\ UNCHANGED <<git, latest, updates, added, main, ticker, poked>>
     \/ /\ ~cloned
        /\ Die /\ UNCHANGED <<dir, faults>>
  /\ UNCHANGED <<remote, db, hist>>

(* Mutant: the errors of the extraction and of the parser are dropped. *)
MutParseUnchecked ==
  /\ pc = "extract"
  /\ pc' = "delete"
  /\ UNCHANGED <<remote, git, work, main, ticker, poked, db, hist, faults>>

(* ExtractConfigList walks the environment's directory, ParseConfigList
   merges the files; a missing directory and a broken file are errors.     *)
ExtractAndParse ==
  /\ pc = "extract"
  /\ IF dir /\ <<wt, cur>> \notin Broken
     THEN /\ pc' = "delete"
          /\ UNCHANGED <<git, work, main, ticker, poked>>
     ELSE Abort
  /\ UNCHANGED <<remote, db, hist, faults>>

(* DeleteConfig: etcd deletes the keys of every environment whose name starts
   with that of e; redis' pattern matches none, and the store writes over
   what is there.                                                          *)
Emptied(e) == [d \in Envs |-> IF d \in Under[e] THEN None ELSE store[d]]

(* Mutant: an error of UpsertConfig is logged and the loop goes on. *)
MutDeleteErrorDropped ==
  /\ pc = "delete"
  /\ \/ /\ store' = Emptied(cur)
        /\ pc' = "put"
        /\ UNCHANGED faults
     \/ /\ Fail
        /\ pc' = "record"
        /\ UNCHANGED store
  /\ UNCHANGED <<remote, git, work, main, ticker, poked, meta, hist>>

(* UpsertConfig: lock the environment and delete its keys (with redis, none).
   A call that fails may or may not have reached the database.             *)
DeleteStored ==
  /\ pc = "delete"
  /\ \/ /\ store' = Emptied(cur)
        /\ pc' = "put"
        /\ UNCHANGED <<git, work, main, ticker, poked, faults>>
     \/ /\ Fail /\ Abort
        /\ store' \in {store, Emptied(cur)}
  /\ UNCHANGED <<remote, meta, hist>>

(* storeConfig: one transaction with all the keys. *)
Put(tree) ==
  /\ store' = [store EXCEPT ![cur] = tree]
  /\ served' = [served EXCEPT ![cur] = VersionOf(tree)]

(* Mutant: storeConfig does not return the error of its transaction. *)
MutStoreErrorDropped ==
  /\ pc = "put"
  /\ pc' = "record"
  /\ \/ Put(wt) /\ UNCHANGED faults
     \/ Fail /\ UNCHANGED <<store, served>>
  /\ UNCHANGED <<remote, git, work, main, ticker, poked, meta, announced>>

(* A value without JSON, or more keys than a transaction of etcd takes, fails
   every time the tag is tried.                                            *)
StoreConfig ==
  /\ pc = "put"
  /\ \/ /\ <<wt, cur>> \notin Unstorable
        /\ Put(wt)
        /\ pc' = "record"
        /\ UNCHANGED <<git, work, main, ticker, poked, faults>>
     \/ /\ <<wt, cur>> \in Unstorable
        /\ Abort
        /\ UNCHANGED <<store, served, faults>>
     \/ /\ Fail /\ Abort
        /\ \/ UNCHANGED <<store, served>>
           \/ <<wt, cur>> \notin Unstorable /\ Put(wt)
  /\ UNCHANGED <<remote, meta, announced>>

SetEnvLatestVersion ==
  /\ pc = "record"
  /\ latest' = [latest EXCEPT ![cur] = updates[cur]]
  /\ pc' = "notify"
  /\ UNCHANGED <<remote, git, updates, cur, added, main, ticker, poked, db, hist, faults>>

NotifyConfigUpdate ==
  /\ pc = "notify"
  /\ announced' = [announced EXCEPT ![cur] = Version[updates[cur]]]
  /\ updates' = Without(updates, cur)
  /\ cur' = None
  /\ pc' = IF DOMAIN updates' # {} THEN "apply" ELSE IF Booting THEN "addenv" ELSE "wait"
  /\ UNCHANGED <<remote, git, latest, added, main, ticker, poked, db, served, faults>>

-----------------------------------------------------------------------------
(* Mutant: an error of AddEnv is logged and the loop goes on. *)
MutAddEnvErrorDropped(e) ==
  /\ pc = "addenv"
  /\ e \in Envs \ added
  /\ added' = added \cup {e}
  /\ \/ meta' = [meta EXCEPT ![e] = latest[e]] /\ UNCHANGED faults
     \/ Fail /\ UNCHANGED meta
  /\ UNCHANGED <<remote, git, latest, updates, cur, ctl, store, hist>>

(* buildConfigFromLocalFirstTime registers every environment; on an error it
   removes those it had registered, and Run ends the process.              *)
AddEnv(e) ==
  /\ pc = "addenv"
  /\ e \in Envs \ added
  /\ \/ /\ meta' = [meta EXCEPT ![e] = latest[e]]
        /\ added' = added \cup {e}
        /\ UNCHANGED <<pc, faults>>
     \/ /\ Fail
        /\ pc' = "rollback"
        /\ \/ meta' = meta
           \/ meta' = [meta EXCEPT ![e] = latest[e]]
        /\ UNCHANGED added
  /\ UNCHANGED <<remote, git, latest, updates, cur, main, ticker, poked, store, hist>>

(* DeleteEnv of redis deletes nothing.  In etcd an error makes the client
   return no response, and DeleteEnv uses it before it looks at the error:
   the process panics.                                                     *)
RollbackEnv(e) ==
  /\ pc = "rollback"
  /\ e \in added
  /\ \/ /\ meta' \in {meta, [meta EXCEPT ![e] = Absent]}
        /\ added' = added \ {e}
        /\ UNCHANGED <<git, latest, updates, cur, ctl, faults>>
     \/ /\ Fail /\ Die /\ UNCHANGED <<dir, meta>>
  /\ UNCHANGED <<remote, store, hist>>

RollbackDone ==
  /\ pc = "rollback"
  /\ added = {}
  /\ Die
  /\ UNCHANGED <<remote, dir, db, hist, faults>>

(* Run returns: the watch goroutine is spawned and main goes on to serve. *)
RunReturns ==
  /\ pc = "addenv"
  /\ added = Envs
  /\ pc' = "spawn" /\ main' = "serving"
  /\ UNCHANGED <<remote, git, work, ticker, poked, db, hist, faults>>

NewTicker ==
  /\ pc = "spawn"
  /\ ticker' = TRUE
  /\ pc' = "range"
  /\ UNCHANGED <<remote, git, work, main, poked, db, hist, faults>>

(* "range s.ticker.C" reads the field Shutdown may have set to nil. *)
RangeTicker ==
  /\ pc = "range"
  /\ IF ticker
     THEN pc' = "wait" /\ UNCHANGED <<git, work, main, ticker, poked>>
     ELSE Die /\ UNCHANGED dir
  /\ UNCHANGED <<remote, db, hist, faults>>

TickerFires ==
  /\ ticker /\ ~poked
  /\ poked' = TRUE
  /\ UNCHANGED <<remote, git, work, pc, main, ticker, db, hist, faults>>

(* A tick that was buffered before Stop is still delivered (Go 1.22). *)
Tick ==
  /\ pc = "wait"
  /\ poked
  /\ poked' = FALSE
  /\ pc' = "pull"
  /\ UNCHANGED <<remote, git, work, main, ticker, db, hist, faults>>

-----------------------------------------------------------------------------
(* The main goroutine after a signal: Shutdown stops the ticker and removes
   the clone while the poller goes on; then the process exits.             *)
StopTicker ==
  /\ main = "serving"
  /\ ticker' = FALSE
  /\ main' = "cleaning"
  /\ UNCHANGED <<remote, git, work, pc, poked, db, hist, faults>>

RemoveLocalRepo ==
  /\ main = "cleaning"
  /\ main' = "leaving"
  /\ \/ dir' = FALSE /\ cloned' = FALSE /\ UNCHANGED faults
     \/ Fail /\ UNCHANGED <<dir, cloned>>
  /\ UNCHANGED <<remote, fetched, wt, work, pc, ticker, poked, db, hist>>

Exit ==
  /\ main = "leaving"
  /\ Die
  /\ UNCHANGED <<remote, dir, db, hist, faults>>

Crash ==
  /\ Running
  /\ Fail /\ Die
  /\ UNCHANGED <<remote, dir, db, hist>>

Poller ==
  \/ CloneRemoteRepo \/ PullTags \/ \E e \in Envs : FetchAndCheckout(e)
  \/ ExtractAndParse \/ DeleteStored \/ StoreConfig
  \/ SetEnvLatestVersion \/ NotifyConfigUpdate
  \/ \E e \in Envs : AddEnv(e) \/ RollbackEnv(e)
  \/ RollbackDone \/ RunReturns \/ NewTicker \/ RangeTicker \/ Tick

Next ==
  \/ \E t \in Tags : PushTag(t)
  \/ Start \/ Poller \/ TickerFires
  \/ StopTicker \/ RemoveLocalRepo \/ Exit \/ Crash

Spec == Init /\ [][Next]_vars

(* The scheduler runs the poller, the operator restarts the process and the
   ticker fires.  Every pass over the updated environments starts in the
   random order of a Go map: an environment that has an update pending at
   the start of infinitely many passes is the first of one of them, which is
   strong fairness of its turn.                                            *)
Fairness ==
  /\ WF_vars(Start)
  /\ WF_vars(Poller)
  /\ WF_vars(TickerFires)
  /\ \A e \in Envs : SF_vars(FetchAndCheckout(e))

FairSpec == Spec /\ Fairness

-----------------------------------------------------------------------------
TypeOK ==
  /\ remote \subseteq Tags
  /\ dir \in BOOLEAN /\ cloned \in BOOLEAN
  /\ fetched \subseteq Tags
  /\ wt \in Trees
  /\ latest \in [Envs -> Tags \cup {None}]
  /\ DOMAIN updates \subseteq Envs /\ updates \in [DOMAIN updates -> Tags]
  /\ cur \in Envs \cup {None}
  /\ added \subseteq Envs
  /\ pc \in {"down", "clone", "pull", "apply", "extract", "delete", "put", "record",
            "notify", "addenv", "rollback", "spawn", "range", "wait"}
  /\ main \in {"off", "starting", "serving", "cleaning", "leaving"}
  /\ ticker \in BOOLEAN /\ poked \in BOOLEAN
  /\ store \in [Envs -> Trees \cup {None}]
  /\ meta \in [Envs -> Tags \cup {None, Absent}]
  /\ served \in [Envs -> Nat]
  /\ announced \in [Envs -> Nat]
  /\ faults \in Nat

(* The environments that no deletion for another one reaches: in redis all of
   them, in etcd those whose name does not start with another one's.       *)
Apart == {e \in Envs : \A d \in Envs \ {e} : e \notin Under[d]}

(* A configuration the poller has recorded and then lost (UpsertConfig failed
   between its delete and its store) is never forgotten: a newer tag than the
   recorded one is waiting in origin, so the next pass tries again.  What an
   upsert of another environment deleted may stay lost until the next tag. *)
LostIsPending ==
  \A e \in Apart :
    latest[e] # None /\ store[e] = None => Newer(e, remote) # {}

(* What readers get from the database always extracted and parsed: neither
   a failed checkout nor the removal of the clone by Shutdown in the middle
   of a pass makes the poller store a broken or empty tree.                *)
StoredIsUsable ==
  \A e \in Envs : store[e] # None => <<store[e], e>> \notin Broken

(* The poller never believes that an environment is at a newer version than
   the configuration readers get (SetEnvLatestVersion comes after the store). *)
RecordedIsStored ==
  \A e \in Envs : latest[e] # None /\ store[e] # None => VersionOf(store[e]) >= SemVer(e)

(* Every reserved environment has its metadata record as long as the
   instance serves requests, whatever an earlier boot rolled back.         *)
ServingIsRegistered ==
  main \notin {"off", "starting"} => \A e \in Envs : meta[e] # Absent

(* The version in a metadata record was stored once: AddEnv never registers
   a tag whose configuration did not reach the database, in this process or
   an earlier one.                                                         *)
MetadataNeverAhead ==
  \A e \in Envs : meta[e] \in Tags => Version[meta[e]] <= served[e]

(* Versions only grow in the database, also across crashes, restarts (which
   forget the recorded versions) and failed upserts.                       *)
NeverRollsBack == [][\A e \in Envs : served'[e] >= served[e]]_vars

(* What the readers rely on, with the poller hidden. *)
Feed == INSTANCE ConfigFeed WITH
          Versions <- {VersionOf(t) : t \in Trees},
          available <- [e \in Envs |-> store[e] # None],
          version <- served

ImplementsFeed == Feed!Spec

(* If the instance ends up serving for good, every environment whose newest
   tags are sound ends up at its newest version, in the poller's record and
   in the database, even when the newest tag of another environment is broken
   and aborts every pass that reaches it; but see LostIsPending of those that
   upserts of others delete.                                               *)
Top(e) == {t \in TagsOf(e, remote) : \A u \in TagsOf(e, remote) : Version[u] <= Version[t]}

Sound(e) == \A t \in Top(e) : <<t, e>> \notin Broken \cup Unstorable /\ Version[t] > 0

Converges ==
  (<>[](main = "serving")) =>
    \A e \in Apart :
      <>[](Sound(e) => \A t \in Top(e) : /\ SemVer(e) = Version[t]
                                        /\ store[e] # None /\ VersionOf(store[e]) = Version[t])
=============================================================================
