# Configleam verification

TLA+ models of configleam, the TLC configurations that check them on small instances, and TLAPS
proofs about seven of them; `Recursion` holds lemmas they share. Paths without a directory are those of `src/internal/app` or
`src/internal/pkg`; `PROJECT.json` maps every definition to the lines it stands for, lists the
runs, the mutants that show each property can fail, the hazards and the findings.

## The system

Configleam serves configurations kept in a Git repository. A *poller* pulls tags; a tag such as
`v1.2.0-develop` is a version of the environment `develop`. For a newer tag it checks the tree out,
extracts and parses the environment's files and replaces the configuration in a database, etcd or
redis. Requests read it, clone an environment under a new name, delete clones, write secrets, and
follow updates on an event stream. Access keys guard the requests; a dashboard manages them. With
leader election only one of several instances is meant to poll.

| component | state | operations | talks to |
|---|---|---|---|
| Synchronisation (`configuration/service`, `gitmanager`, `analyzer`) | the clone on disk, `gr.Envs` (recorded tags), the ticker | boot, pull, analyze, checkout, upsert, record, announce, register and roll back, shut down | origin, the repository, the broker |
| Configuration repository (`configuration/repository`), etcd and redis | configurations, metadata records, lock keys | upsert, read, clone, delete, add and delete an environment | called by the poller and the handlers; shares `gitrepo.Mux` |
| Secrets (`secrets`) | encrypted secrets per environment | upsert, get, clone, insert into a configuration | called by clones and handlers |
| Notification broker (`notify/service/broker.go`, `notify/service`, `notify/controller`) | registered clients, their channels, `enabled` | subscribe, unsubscribe, broadcast, cleanup | poller, stream handlers, main |
| Global notifications, leader election (`notify/repository/*`, `leaderelection`) | the lease, a published channel | run, publish, subscribe | main |
| Access keys (`access`), guards (`auth`, `permissions`), dashboard (`dashboard`) | permissions and metadata of keys | generate, check, list, delete, log in and out | the database, the metadata records |
| Extraction and parsing (`extractor`, `parser`) | none | read and merge the files of an environment | the clone's directory |
| Encryption, HTTP server, settings, clients | none of interest | pure functions and I/O | |

What is hard, and what makes the components correct:

* **Synchronisation.** Every call can fail, the process can stop anywhere, an upsert deletes before
  it stores, the recorded versions are forgotten by a restart, `Shutdown` runs beside the poller,
  one environment's name may be a suffix of another's. Correct when a version that is recorded is
  what readers get, versions never go back, a lost configuration is retried, nothing that does not
  parse is stored, and every environment gets to its newest version.
* **Repositories.** Upserts, reads and clones are sequences of calls that interleave; lock keys
  have leases. Correct when versions do not mix in the store, reads answer with what was stored,
  clones are whole or nothing, and locks are given back.
* **Answers.** Keys of files are parsed in the random order of Go maps, names are defined several times
  and in several roles, secrets are read one by one while others are stored, and two permissions are asked for under two names of the
  environment. Correct when an answer is what the files say and shows a secret only to who may see it.
* **Leader election.** One instance at a time is meant to poll, and the next one to take over.
* **Broker.** Unbuffered channels between the poller, the loop, handlers and main; a flag that is
  read before the send it guards. Correct when nothing is closed twice or sent on after its close,
  a slow stream never holds the poller, and the shutdown ends.
* **Access keys.** Two records with separate lifetimes for one key, two forms of its name, lists
  read in several calls, a guard that reads two records. Correct when what grants can be seen and
  deleted, what was deleted stops granting, and what passes was permitted.

## The modules

### ConfigFeed, ConfigSync, ConfigSync_proofs

`ConfigFeed` is the abstract specification: each environment has a published version that never
goes back, may be withdrawn for a while (several at once), and is announced only while it is published.

`ConfigSync` is one instance: the poller's program counter `pc` walks through `Run`,
`buildConfigFromLocalRepo`, `buildConfigFromLocalFirstTime` and `watchRemoteReposForUpdates`, `main`
through start-up and shutdown in `main.go`. Every call to Git or to the database is an action that
succeeds or fails (`Fail`, counted against `MaxFaults`); a failed call to the database may have had
its effect. `Abort` is an error returned by a pass: `log.Fatal` while booting, a log line
afterwards. `Die` is the end of the process by a crash, a panic or an exit; disk and database stay,
and `Start` finds the old directory or a fresh file system. The mutex that the code takes around
the extraction only excludes clones and appears in `CloneEnv`.

A tag is a model value with a number for its version and the set of environments it selects
(`strings.HasSuffix`). A configuration is named by the tree it came from, so that a configuration
taken from the wrong tree can be told. Here a tree either extracts and parses for an environment or is in
`Broken`, and one that parses may still be `Unstorable`: a value without JSON, or more keys than etcd
takes in a transaction, lets every store of it fail after the deletion. Which files merge into what is in `ConfigAnswer`.

`Under[e]` are the environments whose keys the deletion inside an upsert of `e` reaches: in etcd those
whose name starts with `e`, in redis none, since its pattern matches no key. `LostIsPending` and
`Converges` speak of the environments that are `Apart`, which no deletion for another one reaches.

### ConfigKeys, EtcdConfig, ConfigStore, ConfigStore_proofs

`ConfigKeys` holds what etcd and redis share: a key is an environment and a name, a value is named by
the environment and version it came from. `EtcdConfig` adds deletion by prefix.

`ConfigStore` is one upserting poller against reading requests in etcd: `LockEnv`, `DeleteConfig`,
`StoreConfig`, `ReleaseEnvLock` are the calls of `UpsertConfig`; `IsEnvLockHeld`, `GetGroup`,
`GetReference`, `GetGlobal` those of `ReadConfig`; leases expire by `ExpireLease`.

### CloneEnv, CloneEnv_proofs

`POST` and `DELETE /config/clone` in etcd: the service's and the repository's `CloneConfig`, the
secrets' `CloneSecrets`, `AddEnv`, the clean-up after an error, `DeleteConfig` and `DeleteEnv`, beside
an upserting poller and secret writes. A page of keys is got, every key of the page is got again,
and the copies are put in one transaction; `cursor` is the position of the last key seen. The range
of a page is a prefix, so the keys of a clone whose name begins with the original's are in it too and are
put as they are: `twice` is that a page puts a key as a copy and as itself, a transaction that etcd refuses.
`Targets` are the names of clones; the service looks at none of them, so that they may be reserved names or
begin one. `Reach` is what a clone writes on that account: the environments whose names begin with its new
name, and those whose names begin with its source's.

### RedisConfig, RedisConfig_proofs

The same operations in redis: an upsert writes over what is there, a clone is one Lua script, then
lookups and sets of the request's globals. Keys are found by pattern, and `PatternDelete` is what
the pattern really matches. `log.Fatal` inside a clone is `Exit`.

### NotifyBroker, NotifyBroker_proofs

`Broker.Run` (`RunSubscribe`, `RunUnsubscribe`, `RunBroadcast`, `Deliver`, `RunShutdown`), the
stream handler, the announcing poller and the shutdown of `main.go`. All channels are unbuffered, so
a send and its receive are one step; the look at `enabled` is a step of its own.

### AccessKeys, AccessKeys_proofs

The key store (`backend`, redis or etcd, is chosen at start-up), `Guard` and `GuardDashboard`, login and
logout, the dashboard's list, and both deletions. A request is a small program: look up the key, look up the
original of the environment, act. The list counts, gets a range and fetches each item separately.
`Due` and `Lapse` are the passing of dates and the end of leases. The history of a request (`perms`,
`origins`, `pages`) collects what the store held at each moment of it.

### ConfigAnswer, ConfigAnswer_proofs

From the files of a tree to the answer of `GET /config`. `ExtractConfigList` takes all files or
none; `ParseGlobal` and `ParseGroup` take one key of the file at hand, in any order, as Go ranges over
a map. `Answer` is what a read that no upsert overlaps combines: the local values of a group, the
globals it points to, the globals that are asked for and are not named like a group (`backend` decides
whether a group that was not found counts: in redis it does). `HideSecrets` and `InsertSecret` are
`InsertSecrets` without and with the permission to reveal, one placeholder at a time, beside
`UpsertSecrets`. A value is what its leaves are: text, a placeholder with its path, or another
string in double braces. The grammar of YAML and of placeholders is not modelled.

### Leadership

`main.go` with `EnableLeaderElection`: instances that stand for a lease of Kubernetes, the two callbacks,
lost leases, signals and restarts. `repository` is the field of `NotifyService` that no constructor sets.
The elector of client-go is external and modelled by what its callbacks are promised.

### MC modules

`MC<Module>` extends a module with the small instance: version and content functions, requests,
and the symmetry of interchangeable requests or keys. Symmetry is used only in runs of safety
properties. `MCCloneEnv` also has a state constraint, `Bounds`, for its two runs of safety properties. The `Mut...` operators in the modules are plausible bugs: each replaces the definition
next to it in one mutant run, and the property named there is then violated.

## The runs

| run | what it shows | bounds |
|---|---|---|
| `sync` | with reliable checkouts: a lost configuration is pending, what is stored parses, the recorded version is stored, a serving instance is registered, metadata are never ahead, versions never go back; `ConfigSync` implements `ConfigFeed`; an instance that serves for good brings every environment that is `Apart` and has sound newest tags to its newest version, although another's newest tag aborts passes for ever | 2 environments, `dev` and `dev2-dev`, so that tags of the second select the first too and an upsert of the first empties the second; 4 tags (two of version 1; two of version 2, which tie for `dev`, one broken for `dev2-dev` and the other not storable for `dev`), 3 failures or crashes |
| `store` | versions never mix in etcd, an environment no deletion reached is exactly its last upsert, a read is regular, reads end | 1 poller, 1 reader, `dev` a prefix of `develop`, 2 versions that share a group and differ in a global, 1 failure |
| `notify` | no panic, delivery in order and at most once, the poller is never held, registered streams that have not begun to leave are released by the shutdown | 2 connections, 2 environments, 2 updates |
| `clone` | a clone copies exactly, never half, gives the lock back however it ends, and with deletions and the poller changes a reserved environment only within its reach | the reserved `dev`, cloned to `de`, `dev2` and `dev` itself; 2 requests, 1 deletion, pages of two keys, 1 failure or crash; one of the three names in use at a time (`Bounds`) |
| `access` | keys that grant are listed, deleted keys grant nothing, what passes was permitted, a page is the list's at one moment, pages cover the list | redis and etcd, 2 keys, 2 requests, dates to come, past and none, pages of 1 and 2, a clone that comes and goes |
| `redis_read` | an upserted version stays complete, reads miss nothing of it and agree with an unchanging store | 1 read, 1 clone, 1 deletion, 1 failure |
| `redis_clone` | a clone is a snapshot, a failed one leaves nothing | 2 clones, 2 failures |
| `answer` | an answer is what the files say; secrets are shown only where the permission is for the environment asked for, and as they were | redis and etcd, every tree of up to three of five files with globals, groups, pointers, local values, one name in several roles and one unreadable file; placeholders of every outcome; an environment and its clone; 3 profiles, 2 requests' contents, 5 batches of secrets of which 3 are refused |
| `sync_stale_checkout`, `notify_shutdown`, `clone_reported`, `leader_syncs` | the four violations below | |

Why the bounds are enough to be of interest. Two environments and ties or suffixes are what the
analyzer must tell apart. Two versions that share one name and differ in others let a mixture, a
leftover and a stale value be told from each other. Pages of two keys, of
three or more, make clones cross page boundaries, and meet keys of the clone on a page of the original's.
The names of clones are the ways to reach an original: its own name, a beginning of it, and one it begins. `Bounds` of
`MCCloneEnv` cuts off states in which two of the names of clones are in use, since each of these ways needs one, and
fixes for each name whether globals are set; clones over another clone and reserved environments that
begin each other are covered by the theorems only. Three faults allow a failed upsert, a crash and a failed boot in
one behaviour. Two streams and two updates are what order and repetition need. Faults, tags and
updates are the only unbounded quantities, and are bounded by `MaxFaults`, `Tags` and `MaxUpdates`;
the pages asked for by `PageAsks`, and an election's failures by `MaxFailures`.

`CHECK_DEADLOCK FALSE` stands in the two `notify` runs only: the process ends, or hangs, after its
shutdown.

### Fairness

* `ConfigSync!Fairness`: the Go scheduler runs the poller, the ticker fires, an operator (a
  restart policy) starts the process again. `FetchAndCheckout(e)` is strongly fair: a pass ranges
  over a Go map, whose order is random, so an environment that is pending in infinitely many passes
  is the first of infinitely many. Without this a broken environment could hide the others for
  ever. Nothing is assumed of failures beyond their bound; `Converges` is about
  instances that serve for good.
* `ConfigStore!Fairness`: the goroutine of a read is scheduled. Nothing is assumed of writers or of
  leases: a lock may be held for ever, or time and again.
* `NotifyBroker!Fairness`: goroutines run; Go's `select` picks among ready cases at random, hence
  strong fairness of `RunBroadcast` and `RunShutdown`. Clients need neither connect nor leave.
  `ServedSpec` adds strong fairness of the handlers' sends, so that its counterexample
  does not rest on an unlucky `select`.
* `Leadership!Fairness`: Kubernetes restarts instances, leases that nobody renews run out, candidates try
  again (strongly fair: a lease is free time and again), goroutines run. Nothing has to fail, so that
  the counterexample of `leader_syncs` rests on no failure.

## The proofs

The modules of proofs hold for every value of the constants that meets the
named assumptions (`TagsAssumption`, `BoundsAssumption`, `UpdatesAssumption`, `NamesAssumption`,
`UnderAssumption`, `MissingAssumption`, `StoreAssumption`, `CloneAssumption`, `AccessAssumption`,
`RedisAssumption`, `AnswerAssumption`), which only say what
the constants are; TLC evaluates them in the runs.

**ConfigSync.** `LostIsPending` alone is not inductive: the state before a failed store must know
that the update in hand is newer than what is recorded. `Inv` therefore follows an update through a
pass: `Pending` says that every queued update was fetched, selects its environment and is newer than
the recorded version until it is recorded, that between the extraction and the store the tree in
hand parses, and that what is about to be recorded is stored; `Memory` ties the program counters and the
fetched tags to origin; `Lost` is `LostIsPending` over fetched tags; `Registered` follows the
records through boot and rollback. From `Inv`: `TypeCorrect`, `NothingForgotten`, `AlwaysUsable`,
`AlwaysRegistered`, all with failing checkouts.

With reliable checkouts (`~CheckoutFaults`, an assumption of these theorems that `sync_stale_checkout`
shows to be needed) `FInv` adds `Faithful`: the tree in hand is the tag in hand, nothing newer than
it was ever stored, and stored, recorded and registered versions are in order. The step that needs
an argument is a restart: the recorded versions are gone, but every version that was ever stored
belongs to a tag in origin, so the newest tag is at least as new (`NewestCoversServed`). From `FInv`:
`RecordedFollowsStored`, `MetadataFollowsStored`, `VersionsOnlyGrow`, and `Refinement`, that
`ConfigSync` implements `ConfigFeed` (`FeedInit`, `FeedStep`).

**NotifyBroker.** `NoPanic` needs that a registered client's channel is open and that the delivery
loop only has registered clients left (`TypeOK`); `DeliveredInOrder` needs that what a stream has
received came before what the loop is delivering, and strictly before for a client the loop has not
looked at (`Taken`, `Ordered`). From `Inv`: `TypeCorrect`, `NeverPanics`, `OrderedDelivery`.

**ConfigStore.** The theorems after type correctness assume `Alone`, that there is one poller, which
is what `src/README.md` describes; without it two upserts mix their versions, since the lock
excludes nobody. `NeverMixed` is not inductive: the step that stores must know that
nothing is left of an older version. `Ready` says that a poller about to store finds its environment empty
and counted among those a deletion may have reached, with a version not older than the last one
stored; `Sound` is `Ready` with `NeverMixed` and `SettledIsExact` (`OneVersion`, `Settled`).
For `ReadIsRegular` a reader in the middle of its calls is followed by two invariants. `Fresh` says that what it has
found is as new as what was stored when it began, and that the environment is as it was unless
the reader is counted as `changed`. `Exact` says that an undisturbed reader has got what it `Wants` and
only that, except for what is `Open` (groups, references of the group at hand, globals still to get). Each get moves
one name from open to got (`GroupExact`, `ReferenceExact`, `GlobalExact`), a writer's step leaves the reader alone or counts it as
changed (`FreshAfterWrite`, `ExactAfterWrite`), and another reader's step does not touch it (`Aside`).
From there `RegularReads`, for any number of readers, requests and versions.

**AccessKeys.** The history of a request holds what it saw (`perms`, `origins`), and the invariant
`Justified` ties the place a request has reached to it: at the second look-up the permissions in hand
were seen, and behind the guard they allow the route on an environment that was seen
(`LookUpKeyKeeps`, `LookUpEnvKeeps`); seeing more leaves that as it is (`SeenKeeps`). `Deleted` says that
a deleted key was made and has no entry, and a key is made once. From `Inv`: `AlwaysPermitted`,
`DeletedStaysDeleted`. The dashboard's list needs a second invariant, `ListInv`. `Records` says that the list names each
key once, that every key with an entry is in it, and that a key whose date is to come has a lease: `StoreAccessKey` and
`RemoveKeys` write both records, and a lease that ends takes the entry only. `Paged` follows a request for a
page: until it has taken its range it has seen the page of this very moment, and from then on the items it has fetched,
followed by those still to fetch, are one of the pages it has seen, whatever is made and deleted meanwhile. From `ListInv`:
`TypeCorrect`, `AlwaysListed`, `PagesAreExact`. `PagesAreTheList` rests on `PagesCover`: the pages put together are the
list, for any list and any size of a page.

**CloneEnv.** `LockInv` is `LockGivenBack` with the types it needs: every call of a clone that holds the lock
goes on to another call or answers (`HolderSteps`), and an answer gives the lock back. `AlwaysWithinReach`
assumes nothing of names: clones may get reserved ones, and reserved names may begin with each other. `AsideInv` says that
the keys a clone under way is about to put, copies of keys of longer names among them, are all in environments
within its `Reach`, and that a deletion's environment is not reserved; each step then changes only what the name it is for reaches.
`WholeOrNothing` and `ExactCopy` need only `Own`, that clones do not get reserved names. `Phase` says what an
undisturbed clone has copied at each of its calls: before a page the source's names up to the cursor (`Paged`), within
one those up to its end except the keys still to get (`Keyed`, about what the transaction would leave), after a stage
all of them, or nothing once a call has failed (`Result`). A name that is put twice is the one case in which the
transaction would leave an older value, and there it is refused. What a page holds is only that it ends with its
limit or with the last key, so no count of keys is needed.

**RedisConfig.** `TypeCorrect` and `AlwaysView` assume nothing, the other theorems that clones do not get reserved
names (`Apart`). `Covers` says that every name of a version is stored, at a version that is not older; what a step may
write (`Kept`) preserves it for every version an environment is known to have reached (`KeptCovers`), since the
deletion that comes before a store finds no key. That is `AlwaysStored`. A read remembers the version it began at
(`Behind`), and each name it has to find is still to look up, was found, or has been read (`Progress`): a key found
missing is none of them. Hence `NothingMissed`, although each key is read by a call of its own and `checkLockAndRetry`
looks for a key nobody sets. The two theorems about clones also assume `Plain`: no reserved environment has a name
that is a Lua pattern for something else. `Snap` says what a clone under way has: once its script has run, the
original still has each key it had then, and the copy has its value, or the request's global, or that global is still
to be found or set. It is disturbed only by a second clone, which the lock keeps out (`SInv`), and by the poller and
deletions, whose writes `Kept` bounds. `Outcomes` says with which writes a clone answers, and gives `AlwaysSnapshot`
and `NothingLeft`. For `AlwaysView`, `Gathered` says of a read whose environment nobody wrote that every cell it
`Wants` was found or is `Ahead`, itself or through its group, and that it found and looks for no other; every write to
its environment sets its `changed` (`TouchedViews`), which is all the theorem needs of the other requests.

**ConfigAnswer.** `Inserting` follows a request through its placeholders: one that was looked up shows what the store
held at a moment of the request, any other what was found, and only a request that may reveal looks one up. From it
`AlwaysShown`; `TypeCorrect` needs that trees are sequences (`AnswerAssumption`). That a request finds what the files say
rests on `Said`: of every global and group, what has been parsed is what the files gone through say of it, and how many
those are (`Reached`) depends on whether the key has been seen in the file at hand. A global is the last definition among
them; a group has the local values and pointers of all their items, of each key the last value (`Holds`,
`AddItemHolds`, `AddItemsHolds`). So the random order of a map's keys has no influence: a key counts once, in its own file
(`ParseSaid`), and a file that does not have it changes nothing (`AdvanceSaid`, `NothingSaid`). When the last file is
done, `Said` is about all files (`AllGlobals`, `AllGroups`), what a group combines is what is documented
of its cells (`CombinedIs`), so is an answer (`AnswerIs`), and the request keeps what it found (`Reading`). From there
`AlwaysDocumented`. It assumes that files give values to names and have pointers and maps of local values
as items, which `IsFile` says and the parser's type switches leave.

**Recursion.** A list without some keys, the items of a group, and pages or files put together are computed by recursion, and
the induction theorems of the library take an operator as a parameter, which the provers cannot instantiate. The lemmas of `Recursion`
state induction of a *set* of numbers instead (`Induct`, `InductTo`, from the least element of a set, `WFMin`), and that
the function a recursive definition chooses exists (`FoldExists`, `FlattenIs`); a proof then takes the set of the numbers for which
its claim holds. Where the models use recursion that is proved about, it is a recursive function
(`Without`, `AddItems`) or `FlattenSeq`.

Only model-checked: liveness (`Converges`, `ReadsFinish`, `NotifyReturns`,
`SubscribersReleased`), which is out of the provers' reach with fairness and
`ENABLED`. What `GetSecret` finds along a path is a fold that no theorem looks into: `AlwaysShown` holds whatever it
finds. No module declares a RECURSIVE operator.

## Findings

Four disagreements between the code and what the repository says have a run of their own, whose
counterexample TLC prints:

* `sync_stale_checkout`: `configuration/service/service.go:206` drops the error of
  `FetchAndCheckout`. The files of the tree checked out before are stored and recorded under the
  new tag, and stay until a newer tag comes.
* `notify_shutdown`: `notify/service/broker.go:47`. A stream is opened while the shutdown begins: `Cleanup` has
  unset `enabled` and `Run` has returned when its `Subscribe` looks. It skips the send, is registered nowhere, and its
  handler greets the client and waits in its `select` for a `Send` that nobody will use or close. As long as the client
  stays, the handler does not return, and `http.Server.Shutdown` waits for it for ever. (In another schedule of the
  model the look comes before `Cleanup` and the send, `:48` or `:54`, after `Run` has returned: then the handler is stuck
  in the send even after its client has gone.)
* `clone_reported`: `configuration/repository/etcd_repository.go:264`. After a failed call the clone is cleaned up and the
  result of the clean-up returned: a clone that is empty is registered and answered with
  "Config cloned successfully".
* `leader_syncs`: `notify/service/service.go:34`. `NotifyService.New` sets no repository, so
  `RunGlobal` calls a method of a nil interface in the goroutine of `OnStartedLeading`, before
  `configurationSet.Run`. The process of every elected instance ends; "the newly elected leader
  initiates the synchronization" (`src/README.md:149`) for none of them. Without leader election the
  code is not reached.

The models also show the following, kept without a run; the properties are stated so that they hold
of the code as it is:

* etcd reads get every key with its own call and the third look at a lock ends the wait
  (`etcd_repository.go:128,140`), so a read beside an upsert may mix versions. `ReadIsRegular` says
  what is left.
* The prefix of an environment in etcd has no closing delimiter (`:81`): an upsert of `dev` deletes
  `develop`, which stays without a configuration until its own next tag. `SettledIsExact` excepts
  environments a deletion reached (`emptied`), `LostIsPending` and `Converges` those that are not `Apart`.
* The name of a clone is not checked (`configuration/service/service.go:280`). A clone named like a reserved
  environment writes over it and takes its metadata record, and one whose name begins a reserved one deletes that one's
  configuration when it is cleaned up or deleted. A clone also puts back the keys of environments whose names begin
  with its source's, as they were when the page was got. `ReservedReached` says that this is all.
* The broker's send does not wait (`broker.go:76`): a stream that is writing misses the update.
* `RemoveKeys` takes encrypted keys. `DELETE /access` and logout pass the plain one
  (`access/repository/redis_repository.go:157`), and etcd's list names a key by its whole path
  (`etcd_repository.go:169`): nothing is deleted and the answer is success. `DeletedGrantsNothing`
  is about the dashboard's button with redis.
* A date in the past gives a negative duration and hence a key without an expiry
  (`access/repository/redis_repository.go:48`). `TypeOK` says that a date to come has a lease.
* In redis the deletion pattern of `DeleteConfig` matches no key of an environment
  (`redis_repository.go:96`), so that clones cannot be deleted and names a new version drops stay
  readable; `DeleteEnv` deletes nothing (`:370`), readers look at another lock
  key than writers set (`:232`), and the script takes the environment's name as a Lua pattern
  (`:271`), in which a hyphen is an operator. The constant `Magic` holds such names; the runs use
  names without.
* A placeholder with a path into a stored map that does not hold its segment panics in `Interface()`
  of a zero `reflect.Value` (`secrets/repository/etcd_repository.go:191`) and ends the request; a path
  through a stored string is answered with an empty string, as `etcd_repository_test.go:160` has it.
* In redis a group that was asked for and not found is answered as an empty group, and hides a
  requested global of that name (`redis_repository.go:194-200`); in etcd it does not.
* Placeholders are looked up one by one: an answer may show secrets of two upserts.
  `SecretsAreShown` is about each by itself.
* Reading a clone is permitted by its original (`auth.go:85-101`), revealing its secrets by the clone's
  own name (`configuration/service/service.go:126`), which the form for new keys does not know.
* With leader election a leader that lost its lease would not stand again (`main.go:96` runs the elector once).

## What is not modelled

* What is behind `NotifyService.repository` (publishing to other instances): no path of the program
  sets it. All models of the store have a single poller, which is what `src/README.md` describes.
* Reading of YAML, the grammar of tags and placeholders, the permissions' encoding, encryption: data
  without state, modelled by their outcome where a model needs one.
* Database clients, HTTP routing, TLS, templates, settings, health checks: I/O and constants.
* `GetAllEnvs`, `GetEnvParams`, `SetEnvVersion`, `PullUpdatesFromRemoteRepo`: nothing calls them.

Further abstractions: in `ConfigStore`, `CloneEnv` and `RedisConfig` names of groups and of globals are
disjoint and redis' empty group values are not told from missing ones (`ConfigAnswer` has both); keys created
at the same instant are ordered as they were stored; in `RedisConfig` clients give clones names that are not
reserved environments. A page's number and size are positive: for 0 and negatives redis sets a size of its own or
asks with a negative offset, and etcd slices with a negative index (`access/repository/redis_repository.go:100`,
`access/repository/etcd_repository.go:132`). A checkout that fails leaves the old tree, never a mixture of two, and a
directory that cannot be removed stays whole (`ConfigSync`). `ConfigStore!LockEnv` takes from `ConfigSync` that an upsert is never older than what was
stored (`NeverRollsBack`, proved there).

## Plan

Built in this order: `ConfigSync` with its abstract `ConfigFeed` and proofs, as the program's core;
`NotifyBroker` with its proofs; `ConfigStore`; `CloneEnv`; `AccessKeys`; `RedisConfig`; `ConfigAnswer`;
`Leadership`; the proofs of `ConfigStore`, `AccessKeys`, `CloneEnv`, `RedisConfig` and `ConfigAnswer`. To come:

1. `ConfigStore` with the poller of `ConfigSync` in place of its own guard, so that `NeverRollsBack` is
   used by composition and not by a guard.
2. The analyzer's choice of a tag by major, minor and patch against a reference definition, and the
   encoding of permissions.
