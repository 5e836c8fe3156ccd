------------------------------ MODULE AccessKeys ------------------------------
(***************************************************************************)
(* Access keys: the store of the keys (redis or etcd), the requests that   *)
(* present one (the guard of the HTTP server), and the dashboard that      *)
(* lists and deletes them.                                                 *)
(*                                                                         *)
(* A key is stored twice, in one transaction: its permissions, which may   *)
(* have a lease, and its metadata, which are what the dashboard lists and  *)
(* have none.  Both are stored under the encrypted form of the key, which  *)
(* no request is answered with except as an item of the dashboard's list.  *)
(***************************************************************************)
EXTENDS Naturals, Sequences, FiniteSets, SequencesExt

CONSTANTS
  Backends,  \* the stores a deployment may use: "redis", "etcd"
  Keys,      \* the keys crypto/rand will make
  Envs,      \* environments of the repositories (IsEnvOriginal)
  Clones,    \* other names of environments
  Profiles,  \* the permissions that may be asked for a new key
  Clients,   \* requests in progress
  Routes,    \* the routes they use
  Dates,     \* the dates new keys are given, relative to now
  PageAsks   \* bound: the pages asked for, <<page, size>>

Operations == {"Admin", "EnvAdminAccess", "ReadConfig", "RevealSecrets",
               "CloneEnvironment", "CreateSecrets", "AccessDashboard"}

(* What a key may do: everything, or these operations in an environment. *)
Permissions == [admin : BOOLEAN, ops : [Envs -> SUBSET Operations]]

(* The operation each route of the guarded API requires. *)
Guarded == {"ReadConfig", "CloneEnvironment", "CreateSecrets", "Admin"}
Dashboard == {"list", "create", "delete", "logout"}

ASSUME AccessAssumption ==
  /\ Backends \subseteq {"redis", "etcd"}
  /\ Envs \cap Clones = {}
  /\ Profiles \subseteq Permissions
  /\ Routes \subseteq Guarded \cup Dashboard \cup {"login"}
  /\ Dates \subseteq {"never", "later", "past"}
  /\ PageAsks \subseteq (Nat \ {0}) \X (Nat \ {0})

VARIABLES
  backend,  \* the store this deployment uses
  entry,    \* store: key -> its permissions, of the keys that have an entry
  leased,   \* store: the keys whose entry has a lease
  listed,   \* store: the keys that have metadata, oldest first
  expires,  \* store: the ExpirationDate of the metadata, relative to now
  issued,   \* the keys made so far
  original, \* store: clone -> Original of its metadata record
  screen,   \* the keys that lists have shown to administrators
  job,      \* what each client's request is doing
  revoked   \* history: the keys whose deletion in the dashboard succeeded

store == <<entry, leased, listed, expires>>
vars  == <<backend, store, issued, original, screen, job, revoked>>

Admin == [admin |-> TRUE, ops |-> [e \in Envs |-> {}]]

Idle == [pc |-> "idle"]
Active(c) == job[c].pc # "idle"

(***************************************************************************)
(* Permissions.Can: administrators may do everything, administrators of an *)
(* environment everything in it, others what their bits say.               *)
(***************************************************************************)
Can(p, e, op) ==
  \/ p.admin
  \/ e \in DOMAIN p.ops /\ ("EnvAdminAccess" \in p.ops[e] \/ op \in p.ops[e])

(* Redis lists the newest keys first, etcd the oldest. *)
Ordered(list) == IF backend = "redis" THEN Reverse(list) ELSE list

(* Mutant: pages counted from 0. *)
MutPageFromZero(list, page, size) ==
  SubSeq(Ordered(list), page * size + 1, Min({(page + 1) * size, Len(list)}))

(* The items of a page: pages are numbered from 1, the dashboard's 0 is 1. *)
Page(list, page, size) ==
  SubSeq(Ordered(list), (page - 1) * size + 1, Min({page * size, Len(list)}))

Pages(list, size) == (Len(list) + size - 1) \div size

(***************************************************************************)
(* How a request names a key: as the client knows it; by the name under    *)
(* which it is stored; or by the whole path of its metadata in the store.  *)
(***************************************************************************)
Plain(k)  == <<"plain", k>>
Stored(k) == <<"stored", k>>
Path(k)   == <<"path", k>>

ItemName(k) == IF backend = "redis" THEN Stored(k) ELSE Path(k)

Init ==
  /\ backend \in Backends
  /\ entry = <<>> /\ leased = {} /\ listed = <<>>
  /\ expires = [k \in Keys |-> "never"] /\ issued = {}
  /\ original \in UNION {[C -> Envs] : C \in SUBSET Clones}
  /\ screen = {} /\ revoked = {}
  /\ job = [c \in Clients |-> Idle]

-----------------------------------------------------------------------------
(* History: what the store was at some moment of each request. *)

Seen(j) ==
  LET guard == j.pc \in {"key", "env", "allowed"}
      paging == j.route = "list" /\ j.pc \in {"allowed", "range"}
  IN [j EXCEPT
        !.perms = IF guard THEN @ \cup {entry'[k] : k \in DOMAIN entry' \cap {j.key}} ELSE {},
        !.origins = IF guard THEN @ \cup {original'[e] : e \in DOMAIN original' \cap {j.env}}
                    ELSE {},
        !.pages = IF paging THEN @ \cup {Page(listed', j.page, j.size)} ELSE @]

(* The other requests see the step; the one of c becomes j. *)
Goes(c, j) ==
  job' = [d \in Clients |->
            IF d = c THEN (IF j.pc = "idle" THEN Idle ELSE Seen(j))
            ELSE IF Active(d) THEN Seen(job[d]) ELSE Idle]

Others == job' = [d \in Clients |-> IF Active(d) THEN Seen(job[d]) ELSE Idle]

(* A step of a request that leaves the store alone. *)
Keeps == UNCHANGED <<store, issued, original, screen, revoked>>

At(c, place) == job[c].pc = place
On(c, routes) == job[c].route \in routes
Moves(c, place) == Goes(c, [job[c] EXCEPT !.pc = place])
Ends(c) == Goes(c, Idle)

-----------------------------------------------------------------------------
(* The store. *)

(* Mutant: the lease is forgotten. *)
MutNoLease(k, p, when) ==
  /\ entry' = [j \in DOMAIN entry \cup {k} |-> IF j = k THEN p ELSE entry[j]]
  /\ leased' = leased
  /\ listed' = Append(listed, k)
  /\ expires' = [expires EXCEPT ![k] = when]

(* Mutant: a dated key that is past its date gets no metadata. *)
MutUnlisted(k, p, when) ==
  /\ entry' = [j \in DOMAIN entry \cup {k} |-> IF j = k THEN p ELSE entry[j]]
  /\ leased' = IF when = "later" THEN leased \cup {k} ELSE leased
  /\ listed' = IF when = "past" THEN listed ELSE Append(listed, k)
  /\ expires' = [expires EXCEPT ![k] = when]

(***************************************************************************)
(* StoreAccessKey: one transaction.  Only a date that is still to come     *)
(* makes a lease; a past date makes none, in both stores.                  *)
(***************************************************************************)
StoreAccessKey(k, p, when) ==
  /\ entry' = [j \in DOMAIN entry \cup {k} |-> IF j = k THEN p ELSE entry[j]]
  /\ leased' = IF when = "later" THEN leased \cup {k} ELSE leased
  /\ listed' = Append(listed, k)
  /\ expires' = [expires EXCEPT ![k] = when]

(* The list without what is gone, in its order. *)
Without(list, gone) ==
  LET kept[i \in 0 .. Len(list)] ==
        IF i = 0 THEN <<>>
        ELSE IF list[i] \in gone THEN kept[i - 1] ELSE Append(kept[i - 1], list[i])
  IN kept[Len(list)]

(* Mutant: the permissions are left behind. *)
MutRemoveMetadataOnly(names) ==
  LET gone == {k \in Keys : Stored(k) \in names} IN
  /\ listed' = Without(listed, gone)
  /\ UNCHANGED <<entry, leased, expires>>

(* RemoveKeys: one transaction, which takes the names as stored names. *)
RemoveKeys(names) ==
  LET gone == {k \in Keys : Stored(k) \in names} IN
  /\ entry' = [k \in DOMAIN entry \ gone |-> entry[k]]
  /\ leased' = leased \ gone
  /\ listed' = Without(listed, gone)
  /\ UNCHANGED expires

(* GenerateAccessKey makes a key nobody had, of 40 random characters.  A    *)
(* store that took effect although its call failed makes such a key too,   *)
(* one that nobody is told of and nobody uses.                             *)
GenerateAccessKey(k, p, when) ==
  /\ k \notin issued
  /\ issued' = issued \cup {k}
  /\ StoreAccessKey(k, p, when)

(* POST /access. *)
PostAccess(k, p, when) ==
  /\ GenerateAccessKey(k, p, when)
  /\ UNCHANGED <<original, screen, revoked>>
  /\ Others

(* A login makes a key for the session; its date is half an hour away. *)
Login(k) ==
  /\ "login" \in Routes
  /\ GenerateAccessKey(k, Admin, "later")
  /\ UNCHANGED <<original, screen, revoked>>
  /\ Others

(* The clock passes the date of k. *)
Due(k) ==
  /\ k \in issued /\ expires[k] = "later"
  /\ expires' = [expires EXCEPT ![k] = "past"]
  /\ UNCHANGED <<entry, leased, listed, issued, original, screen, revoked>>
  /\ Others

(* The lease ends; etcd's is in whole seconds and may end before the date. *)
Lapse(k) ==
  /\ k \in leased
  /\ backend = "redis" => expires[k] = "past"
  /\ entry' = [j \in DOMAIN entry \ {k} |-> entry[j]]
  /\ leased' = leased \ {k}
  /\ UNCHANGED <<listed, expires, issued, original, screen, revoked>>
  /\ Others

(* Meanwhile an environment is cloned (AddEnv), or a clone deleted. *)
Clone(n, e) ==
  /\ original' = [m \in DOMAIN original \cup {n} |-> IF m = n THEN e ELSE original[m]]
  /\ UNCHANGED <<store, issued, screen, revoked>>
  /\ Others

Unclone(n) ==
  /\ original' = [m \in DOMAIN original \ {n} |-> original[m]]
  /\ UNCHANGED <<store, issued, screen, revoked>>
  /\ Others

-----------------------------------------------------------------------------
(* Requests. *)

Request(r, k, e, t) ==
  [pc |-> "key", route |-> r, key |-> k, env |-> e, target |-> t,
   page |-> 1, size |-> 1, todo |-> <<>>, items |-> <<>>, held |-> <<>>,
   perms |-> {}, origins |-> {}, pages |-> {}]

(* A request to the API with key k for environment e; DELETE /access of t. *)
Ask(c, r, k, e, t) ==
  /\ ~Active(c)
  /\ r # "Admin" => t = k
  /\ Keeps
  /\ Goes(c, Request(r, k, e, t))

(* A click on the dashboard, with the cookie k; the delete button of t. *)
Click(c, r, k, t) ==
  /\ ~Active(c)
  /\ IF r = "delete" THEN t \in screen ELSE t = k
  /\ Keeps
  /\ Goes(c, Request(r, k, CHOOSE e \in Envs : TRUE, t))

(* A page of the list, from the dashboard. *)
ClickPage(c, k, page, size) ==
  /\ ~Active(c)
  /\ Keeps
  /\ Goes(c, [Request("list", k, CHOOSE e \in Envs : TRUE, k)
               EXCEPT !.page = page, !.size = size])

(* The handler runs, or the request is refused. *)
Decided(c, allowed) == IF allowed THEN Moves(c, "allowed") ELSE Ends(c)

(***************************************************************************)
(* The guards look the key up.  The dashboard's lets administrators pass;  *)
(* the API's decides at once for an environment of a repository and looks  *)
(* the original of another one up.                                         *)
(***************************************************************************)
LookUpKey(c) ==
  /\ Active(c) /\ At(c, "key")
  /\ Keeps
  /\ LET k == job[c].key  e == job[c].env IN
       IF k \notin DOMAIN entry THEN Ends(c)
       ELSE IF On(c, Dashboard) THEN Decided(c, entry[k].admin)
       ELSE IF e \in Envs THEN Decided(c, Can(entry[k], e, job[c].route))
       ELSE Goes(c, [job[c] EXCEPT !.pc = "env", !.held = <<entry[k]>>])

(* Mutant: a clone without a record is taken for an environment. *)
MutAnyClone(c) ==
  /\ Active(c) /\ At(c, "env")
  /\ Keeps
  /\ LET e == job[c].env IN
       Decided(c, e \in DOMAIN original => Can(job[c].held[1], original[e], job[c].route))

(* GetEnvOriginal: what is not a clone is refused. *)
LookUpEnv(c) ==
  /\ Active(c) /\ At(c, "env")
  /\ Keeps
  /\ LET e == job[c].env IN
       Decided(c, /\ e \in DOMAIN original
                  /\ Can(job[c].held[1], original[e], job[c].route))

(* A call to the store fails, and with it the request: nothing is stored.
   (A key that was stored by a call that failed is one nobody was told.)   *)
Fail(c) ==
  /\ Active(c) /\ ~At(c, "shown")
  /\ Keeps
  /\ Ends(c)

(* The handlers of configurations and secrets are in other modules. *)
Serve(c) ==
  /\ Active(c) /\ At(c, "allowed") /\ On(c, Guarded \ {"Admin"})
  /\ Keeps
  /\ Ends(c)

(* DELETE /access and logout name the key as the client knows it.         *)
DeleteAccessKeys(c) ==
  /\ Active(c) /\ At(c, "allowed") /\ On(c, {"Admin", "logout"})
  /\ RemoveKeys({Plain(job[c].target)})
  /\ UNCHANGED <<issued, original, screen, revoked>>
  /\ Ends(c)

(* The dashboard names it as the item of the list does.  The call may be
   answered with an error although the store executed it.                  *)
DeleteAccessKey(c) ==
  /\ Active(c) /\ At(c, "allowed") /\ On(c, {"delete"})
  /\ RemoveKeys({ItemName(job[c].target)})
  /\ revoked' \in {revoked, revoked \cup {job[c].target}}
  /\ UNCHANGED <<issued, original, screen>>
  /\ Ends(c)

CreateAccessKey(c, k, p, when) ==
  /\ Active(c) /\ At(c, "allowed") /\ On(c, {"create"})
  /\ GenerateAccessKey(k, p, when)
  /\ UNCHANGED <<original, screen, revoked>>
  /\ Ends(c)

(* The keys are counted (redis): without any the answer is empty. *)
CountKeys(c) ==
  /\ Active(c) /\ At(c, "allowed") /\ On(c, {"list"})
  /\ backend = "redis"
  /\ Keeps
  /\ Moves(c, IF listed = <<>> THEN "shown" ELSE "range")

(* The keys of the page are taken from all keys, in one call. *)
RangeKeys(c) ==
  /\ Active(c) /\ On(c, {"list"})
  /\ At(c, IF backend = "redis" THEN "range" ELSE "allowed")
  /\ Keeps
  /\ Goes(c, [job[c] EXCEPT !.pc = "fetch",
                            !.todo = Page(listed, job[c].page, job[c].size)])

(* Mutant: metadata that are gone are skipped. *)
MutSkipGone(c) ==
  /\ Active(c) /\ At(c, "fetch")
  /\ Keeps
  /\ LET here(k) == k \in Range(listed) IN
       Goes(c, [job[c] EXCEPT !.pc = "shown",
                              !.items = SelectSeq(job[c].todo, here)])

(***************************************************************************)
(* The metadata of the page: in redis key by key, and one that is gone is  *)
(* an error; in etcd in one transaction, and one that is gone is a panic   *)
(* of the handler (the empty range is indexed), which ends the request.    *)
(***************************************************************************)
FetchItems(c) ==
  /\ Active(c) /\ At(c, "fetch")
  /\ Keeps
  /\ LET todo == job[c].todo
         n == IF backend = "redis" THEN Min({1, Len(todo)}) ELSE Len(todo)
         now == SubSeq(todo, 1, n)
     IN IF todo = <<>> THEN Moves(c, "shown")
        ELSE IF Range(now) \subseteq Range(listed)
        THEN Goes(c, [job[c] EXCEPT !.items = @ \o now,
                                    !.todo = SubSeq(todo, n + 1, Len(todo))])
        ELSE Ends(c)

(* The list is rendered. *)
Show(c) ==
  /\ Active(c) /\ At(c, "shown")
  /\ screen' = screen \cup Range(job[c].items)
  /\ UNCHANGED <<store, issued, original, revoked>>
  /\ Ends(c)

Step ==
  \/ \E k \in Keys : Login(k) \/ Due(k) \/ Lapse(k)
  \/ \E k \in Keys, p \in Profiles, w \in Dates :
       \/ PostAccess(k, p, w)
       \/ \E c \in Clients : CreateAccessKey(c, k, p, w)
  \/ \E n \in Clones : Unclone(n) \/ \E e \in Envs : Clone(n, e)
  \/ \E c \in Clients :
       \/ \E r \in Routes \cap Guarded, k, t \in issued, e \in Envs \cup Clones :
            Ask(c, r, k, e, t)
       \/ \E r \in (Routes \cap Dashboard) \ {"list"}, k, t \in issued : Click(c, r, k, t)
       \/ \E k \in issued, ask \in PageAsks :
            "list" \in Routes /\ ClickPage(c, k, ask[1], ask[2])
       \/ LookUpKey(c) \/ LookUpEnv(c) \/ Fail(c) \/ Serve(c)
       \/ DeleteAccessKeys(c) \/ DeleteAccessKey(c)
       \/ CountKeys(c) \/ RangeKeys(c) \/ FetchItems(c) \/ Show(c)

Next == Step /\ UNCHANGED backend

Spec == Init /\ [][Next]_vars

-----------------------------------------------------------------------------
(* Properties. *)

Places == {"idle", "key", "env", "allowed", "range", "fetch", "shown"}

(* The shape of the state: a lease belongs to an entry, an entry with a    *)
(* date to come has a lease (so that it ends), and whatever the store or a *)
(* screen holds was made by the server.                                    *)
TypeOK ==
  /\ issued \subseteq Keys
  /\ DOMAIN entry \subseteq issued /\ Range(entry) \subseteq Permissions
  /\ leased \subseteq DOMAIN entry
  /\ IsInjective(listed) /\ Range(listed) \subseteq issued
  /\ expires \in [Keys -> {"never", "later", "past"}]
  /\ \A k \in DOMAIN entry : expires[k] = "later" => k \in leased
  /\ DOMAIN original \subseteq Clones /\ Range(original) \subseteq Envs
  /\ screen \subseteq issued
  /\ revoked \subseteq Keys
  /\ DOMAIN job = Clients /\ \A c \in Clients : job[c].pc \in Places

(* Every key that grants something is in the dashboard's list, whatever    *)
(* its lease and its date, so that an administrator can find and delete it *)
(* (StoreAccessKey and RemoveKeys write both records of a key together).   *)
GrantsAreListed == DOMAIN entry \subseteq Range(listed)

(* A key that was deleted with the dashboard's button never grants again,  *)
(* whatever requests were under way (DeleteAccessKey of the dashboard).    *)
(* It is stated of redis: etcd's list names a key by a path no deletion    *)
(* finds, and a deletion by the plain key finds it in neither store.       *)
DeletedGrantsNothing ==
  \A k \in Keys : backend = "redis" /\ k \in revoked => k \notin DOMAIN entry

(* What the guard lets pass was permitted: at some moment of the request   *)
(* the key granted the operation on the environment the request named, or  *)
(* on the original that environment had at some moment of the request      *)
(* (the guard reads the two records one after the other).                  *)
AllowedWasPermitted ==
  \A c \in Clients :
    Active(c) /\ At(c, "allowed") =>
      IF On(c, Dashboard) THEN \E p \in job[c].perms : p.admin
      ELSE \E p \in job[c].perms, e \in job[c].origins \cup (Envs \cap {job[c].env}) :
             Can(p, e, job[c].route)

(* A list that is shown is the page of the keys there were at one moment   *)
(* of the request, even when keys are made and deleted while the metadata  *)
(* are fetched one by one (PaginateAccessKeys).                            *)
PageIsExact ==
  \A c \in Clients : Active(c) /\ At(c, "shown") => job[c].items \in job[c].pages

(* The pages of a list, one after the other, are the list: no key is on    *)
(* two pages or on none, for any size of a page and number of keys.        *)
PagesCoverList ==
  \A size \in 1..Cardinality(Keys) + 1 :
    FlattenSeq([i \in 1..Pages(listed, size) |-> Page(listed, i, size)]) = Ordered(listed)

=============================================================================
