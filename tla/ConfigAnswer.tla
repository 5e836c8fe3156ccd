----------------------------- MODULE ConfigAnswer -----------------------------
(***************************************************************************)
(* From the files of a checked out tree to the answer of a request: the    *)
(* extractor and the parser make globals and groups of the files, a read   *)
(* of the repository combines them, and the service puts secrets in the    *)
(* place of their placeholders, each read with a call of its own beside    *)
(* the requests that store secrets.                                        *)
(*                                                                         *)
(* A value of a configuration is what its leaves are: <<"text", x>> for    *)
(* whatever is not touched, <<"secret", path>> for the string              *)
(* "{{ secret.a.b }}" and <<"braces">> for any other string between double *)
(* braces.  What stores the parsed configuration, and reads that overlap   *)
(* an upsert, are in ConfigStore and RedisConfig.                          *)
(***************************************************************************)
EXTENDS Naturals, Sequences, FiniteSetsExt, SequencesExt

CONSTANTS
  Backends,  \* the stores a deployment may use: "redis", "etcd"
  Trees,     \* trees: sequences of files in the order of filepath.Walk
  Envs,      \* environments a request may name
  Original,  \* the environment each of them was cloned from, or itself
  Profiles,  \* permissions of the keys that requests present
  Asks,      \* what requests ask for: [groups, globals], sequences of names
  Batches,   \* what UpsertSecrets is given: names -> values
  Names,     \* names of keys in the files
  Malformed  \* names of secrets with a dot

(* A value of a secret: a scalar, or a map of values. *)
Scalar(x) == [is |-> x, of |-> <<>>]
Map(f)    == [is |-> "map", of |-> f]
Nil       == Scalar("nil")

(* What looking a secret up may come to instead of a value. *)
Missing == Scalar("missing")
Panic   == Scalar("panic")

Permissions == [admin : BOOLEAN,
                ops : [Envs -> SUBSET {"EnvAdminAccess", "ReadConfig", "RevealSecrets"}]]

(* A file gives values to globals, and to groups sequences of items: pointers
   to a global, and maps of local values.                                  *)
IsItem(x) ==
  \/ x.kind = "pointer" /\ x = [kind |-> "pointer", to |-> x.to]
  \/ x.kind = "locals" /\ DOMAIN x.of \subseteq Names

IsFile(f) ==
  /\ DOMAIN f.globals \subseteq Names
  /\ \A n \in DOMAIN f.groups : /\ f.groups[n] \in Seq(ToSet(f.groups[n]))
                               /\ \A x \in ToSet(f.groups[n]) : IsItem(x)

ASSUME AnswerAssumption ==
  /\ Backends \subseteq {"redis", "etcd"}
  /\ Original \in [Envs -> Envs]
  /\ Profiles \subseteq Permissions
  /\ \A t \in Trees : t \in Seq(ToSet(t)) /\ \A f \in ToSet(t) : IsFile(f)

VARIABLES
  backend, \* the store this deployment uses
  tree,    \* the files that were checked out
  at,      \* the parser: the file it is in
  left,    \* the parser: the keys of that file it has not seen yet
  parsed,  \* ParsedRepoConfig: its Globals and Groups
  secrets, \* store: environment -> name -> value
  request  \* the request in progress

vars == <<backend, tree, at, left, parsed, secrets, request>>

(* The values of f, and those of g for what f does not define. *)
Over(f, g) == [k \in DOMAIN f \cup DOMAIN g |-> IF k \in DOMAIN f THEN f[k] ELSE g[k]]

Put(f, k, v) == [j \in DOMAIN f \cup {k} |-> IF j = k THEN v ELSE f[j]]

(* The keys of a file: its globals and, with their prefix, its groups. *)
KeysOf(file) == ({"global"} \X DOMAIN file.globals) \cup ({"group"} \X DOMAIN file.groups)

Extracting == at = 0
Parsed == at > Len(tree)

Idle == [pc |-> "idle"]
At(place) == request.pc = place

(***************************************************************************)
(* Permissions.Can for ReadConfig, which the guard asks of the original of *)
(* the environment, and CanRevealSecrets, which the service asks of the    *)
(* environment itself.                                                     *)
(***************************************************************************)
CanRead(p, e) == p.admin \/ p.ops[e] \cap {"EnvAdminAccess", "ReadConfig"} # {}

(* Mutant: the permission is that of the original, as the guard's is. *)
MutRevealOriginal(p, e) ==
  p.admin \/ p.ops[Original[e]] \cap {"EnvAdminAccess", "RevealSecrets"} # {}

CanRevealSecrets(p, e) == p.admin \/ p.ops[e] \cap {"EnvAdminAccess", "RevealSecrets"} # {}

Init ==
  /\ backend \in Backends
  /\ tree \in Trees
  /\ at = 0 /\ left = {}
  /\ parsed = [globals |-> <<>>, groups |-> <<>>]
  /\ secrets = [e \in Envs |-> <<>>]
  /\ request = Idle

-----------------------------------------------------------------------------
(* From files to the parsed configuration. *)

(* ExtractConfigList: one file that cannot be read is an error for all, and
   nothing reaches the parser (ConfigSync models what becomes of the pass). *)
ExtractConfigList ==
  /\ Extracting
  /\ \A i \in DOMAIN tree : tree[i].readable
  /\ at' = 1
  /\ left' = IF tree = <<>> THEN {} ELSE KeysOf(tree[1])
  /\ UNCHANGED <<backend, tree, parsed, secrets, request>>

NextFile ==
  /\ ~Extracting /\ ~Parsed /\ left = {}
  /\ at' = at + 1
  /\ left' = IF at = Len(tree) THEN {} ELSE KeysOf(tree[at + 1])
  /\ UNCHANGED <<backend, tree, parsed, secrets, request>>

(* Mutant: the first file to define a global wins. *)
MutFirstWins(n) ==
  /\ <<"global", n>> \in left
  /\ left' = left \ {<<"global", n>>}
  /\ parsed' = [parsed EXCEPT !.globals =
                  IF n \in DOMAIN @ THEN @ ELSE Put(@, n, tree[at].globals[n])]
  /\ UNCHANGED <<backend, tree, at, secrets, request>>

(* The keys of a file come in the random order of a Go map. *)
ParseGlobal(n) ==
  /\ <<"global", n>> \in left
  /\ left' = left \ {<<"global", n>>}
  /\ parsed' = [parsed EXCEPT !.globals = Put(@, n, tree[at].globals[n])]
  /\ UNCHANGED <<backend, tree, at, secrets, request>>

(* An item of a group: a pointer to a global, or a map of local values. *)
AddItem(group, item) ==
  IF item.kind = "pointer" THEN [group EXCEPT !.Global = Append(@, item.to)]
  ELSE [group EXCEPT !.Local = Over(item.of, @)]

AddItems(group, items) ==
  LET added[i \in 0 .. Len(items)] ==
        IF i = 0 THEN group ELSE AddItem(added[i - 1], items[i])
  IN added[Len(items)]

(***************************************************************************)
(* A group goes on where an earlier file left it.  A group that is a map,  *)
(* or one string, number or boolean, has that one item; what is neither is *)
(* dropped, and leaves the group without items.                            *)
(***************************************************************************)
ParseGroup(n) ==
  LET groups == parsed.groups
      before == IF n \in DOMAIN groups THEN groups[n] ELSE [Local |-> <<>>, Global |-> <<>>]
  IN
  /\ <<"group", n>> \in left
  /\ left' = left \ {<<"group", n>>}
  /\ parsed' = [parsed EXCEPT !.groups =
                  Put(groups, n, AddItems(before, tree[at].groups[n]))]
  /\ UNCHANGED <<backend, tree, at, secrets, request>>

-----------------------------------------------------------------------------
(* The secrets. *)

(* Mutant: what is given is not checked. *)
MutUnchecked(e, batch) ==
  /\ secrets' = [secrets EXCEPT ![e] = Over(batch, @)]
  /\ UNCHANGED <<backend, tree, at, left, parsed>>
  /\ request' = IF At("insert") /\ request.env = e
                THEN [request EXCEPT !.seen = @ \cup {secrets'[e]}] ELSE request

(* UpsertSecrets: all checks come first, and one transaction stores all. *)
UpsertSecrets(e, batch) ==
  /\ batch # <<>>
  /\ DOMAIN batch \cap Malformed = {}
  /\ \A k \in DOMAIN batch : batch[k] # Nil
  /\ secrets' = [secrets EXCEPT ![e] = Over(batch, @)]
  /\ UNCHANGED <<backend, tree, at, left, parsed>>
  /\ request' = IF At("insert") /\ request.env = e
                THEN [request EXCEPT !.seen = @ \cup {secrets'[e]}] ELSE request

(* getValueByNestedKeys: what a map does not hold is a zero reflect.Value,
   whose Interface() panics.                                               *)
Inner(v, k) ==
  IF v \in {Missing, Panic} THEN v
  ELSE IF v.is # "map" THEN Missing
  ELSE IF k \notin DOMAIN v.of THEN Panic
  ELSE IF v.of[k] = Nil THEN Missing
  ELSE v.of[k]

(* GetSecret: the first segment of the path is the name of a stored key. *)
GetSecret(stored, path) ==
  IF Head(path) \notin DOMAIN stored THEN Missing
  ELSE LET top == stored[Head(path)] IN
       IF Len(path) = 1 THEN top
       ELSE IF top.is = "map" THEN FoldLeft(Inner, top, Tail(path))
       ELSE Nil

-----------------------------------------------------------------------------
(* A request. *)

Blank == <<"blank">>

(* The local values of a group, and the globals its pointers find. *)
Combined(n) ==
  LET g == parsed.groups[n] IN
  Over(g.Local, [k \in ToSet(g.Global) \cap DOMAIN parsed.globals |-> parsed.globals[k]])

(***************************************************************************)
(* ReadConfig of the repository, by cells: <<group, key>> of a group that  *)
(* was found, <<key>> of a global.  A global is not looked for when the    *)
(* answer has a group of its name; in redis the answer has, empty, also    *)
(* the groups that were not found.                                         *)
(***************************************************************************)
Answer(ask) ==
  LET groups == ToSet(ask.groups) \cap DOMAIN parsed.groups
      named == IF backend = "redis" THEN ToSet(ask.groups) ELSE groups
      globals == (ToSet(ask.globals) \cap DOMAIN parsed.globals) \ named
      cells == (UNION {{<<n, k>> : k \in DOMAIN Combined(n)} : n \in groups})
                 \cup {<<k>> : k \in globals}
  IN [c \in cells |-> IF Len(c) = 1 THEN parsed.globals[c[1]] ELSE Combined(c[1])[c[2]]]

(* A request whose key the guard lets read the environment. *)
Ask(p, e, ask) ==
  /\ Parsed /\ At("idle")
  /\ CanRead(p, Original[e])
  /\ request' = [pc |-> "read", perms |-> p, env |-> e, ask |-> ask]
  /\ UNCHANGED <<backend, tree, at, left, parsed, secrets>>

(* The leaves of the cells, the maps among them to any depth. *)
Leaves(cells) == UNION {{<<c, i>> : i \in DOMAIN cells[c]} : c \in DOMAIN cells}

ReadConfig ==
  /\ At("read")
  /\ LET cells == Answer(request.ask)
         found == [l \in Leaves(cells) |-> cells[l[1]][l[2]]]
     IN request' = [pc |-> "insert", perms |-> request.perms, env |-> request.env,
                    ask |-> request.ask, found |-> found, shown |-> found,
                    todo |-> {l \in DOMAIN found : found[l][1] = "secret"},
                    seen |-> {secrets[request.env]}]
  /\ UNCHANGED <<backend, tree, at, left, parsed, secrets>>

Reveals == CanRevealSecrets(request.perms, request.env)

(* Without the permission, every string in double braces becomes empty. *)
HideSecrets ==
  /\ At("insert") /\ ~Reveals
  /\ request' = [request EXCEPT !.pc = "answered", !.todo = {},
       !.shown = [l \in DOMAIN @ |-> IF @[l][1] \in {"secret", "braces"} THEN Blank ELSE @[l]]]
  /\ UNCHANGED <<backend, tree, at, left, parsed, secrets>>

(* What is put in the place of a placeholder. *)
Shown(v) == IF v = Missing THEN Blank ELSE <<"value", v>>

(***************************************************************************)
(* With it, placeholders are looked up one by one, in the random order of  *)
(* the maps.  A panic ends the request; other strings in braces stay.      *)
(***************************************************************************)
InsertSecret(l) ==
  LET v == GetSecret(secrets[request.env], request.found[l][2]) IN
  /\ At("insert") /\ Reveals /\ l \in request.todo
  /\ request' = IF v = Panic THEN Idle
                ELSE [request EXCEPT !.todo = @ \ {l}, !.shown = [@ EXCEPT ![l] = Shown(v)]]
  /\ UNCHANGED <<backend, tree, at, left, parsed, secrets>>

Inserted ==
  /\ At("insert") /\ Reveals /\ request.todo = {}
  /\ request' = [request EXCEPT !.pc = "answered"]
  /\ UNCHANGED <<backend, tree, at, left, parsed, secrets>>

(* A call to the store fails, or a secret cannot be decrypted: the request
   is answered with an error.  An answer is sent.                          *)
End ==
  /\ ~At("idle")
  /\ request' = Idle
  /\ UNCHANGED <<backend, tree, at, left, parsed, secrets>>

Next ==
  \/ ExtractConfigList \/ NextFile
  \/ \E k \in left : ParseGlobal(k[2]) \/ ParseGroup(k[2])
  \/ \E e \in Envs, batch \in Batches : UpsertSecrets(e, batch)
  \/ \E p \in Profiles, e \in Envs, ask \in Asks : Ask(p, e, ask)
  \/ ReadConfig \/ HideSecrets \/ Inserted \/ End
  \/ At("insert") /\ \E l \in request.todo : InsertSecret(l)

Spec == Init /\ [][Next]_vars

-----------------------------------------------------------------------------
(* What a request should be answered, said of the files. *)

(* The items of group n, in the order of the files. *)
ItemsOf(n) ==
  FlattenSeq([i \in DOMAIN tree |->
                IF n \in DOMAIN tree[i].groups THEN tree[i].groups[n] ELSE <<>>])

Globals == UNION {DOMAIN tree[i].globals : i \in DOMAIN tree}
Groups  == UNION {DOMAIN tree[i].groups : i \in DOMAIN tree}

(* Where the files say something of k: in which of them as a global, and in
   which items of a group as a local value or as a pointer.                *)
Defining(k) == {i \in DOMAIN tree : k \in DOMAIN tree[i].globals}
Locals(items, k) == {i \in DOMAIN items : items[i].kind = "locals" /\ k \in DOMAIN items[i].of}
Pointers(items, k) == {i \in DOMAIN items : items[i] = [kind |-> "pointer", to |-> k]}

(* The last definition counts, and a local value before a global. *)
DocumentedValue(cell) ==
  LET k == cell[Len(cell)]
      locals == IF Len(cell) = 1 THEN {} ELSE Locals(ItemsOf(cell[1]), k)
  IN IF locals # {} THEN ItemsOf(cell[1])[Max(locals)].of[k]
     ELSE tree[Max(Defining(k))].globals[k]

(* A name that is asked for as a group is no global: in etcd if there is such
   a group, in redis in any case.                                          *)
DocumentedCells(ask) ==
  LET groups == Groups \cap ToSet(ask.groups)
      hidden == IF backend = "etcd" THEN groups ELSE ToSet(ask.groups)
      said(n, k) == \/ Locals(ItemsOf(n), k) # {}
                    \/ k \in Globals /\ Pointers(ItemsOf(n), k) # {}
  IN {c \in groups \X Names : said(c[1], c[2])}
       \cup {<<k>> : k \in (Globals \cap ToSet(ask.globals)) \ hidden}

-----------------------------------------------------------------------------
(* Properties. *)

(* The shape of the state: the keys still to be parsed are keys of the     *)
(* file the parser is at, what is stored as a secret can be named by a     *)
(* placeholder and is never nil (UpsertSecrets), and a request knows its   *)
(* environment's secrets while it inserts them.                            *)
TypeOK ==
  /\ at \in 0..Len(tree) + 1
  /\ left # {} => at \in DOMAIN tree /\ left \subseteq KeysOf(tree[at])
  /\ DOMAIN secrets = Envs
  /\ \A e \in Envs : /\ DOMAIN secrets[e] \cap Malformed = {}
                     /\ \A k \in DOMAIN secrets[e] : secrets[e][k] # Nil
  /\ request.pc \in {"idle", "read", "insert", "answered"}
  /\ At("insert") => secrets[request.env] \in request.seen

(* A request finds what the files say, whatever the order in which their   *)
(* keys are parsed and however many files define a name: the groups and    *)
(* globals it asks for and nothing else, in a group the local values over  *)
(* the globals, and the last of several definitions (ParseConfigList,      *)
(* storeConfig and ReadConfig; "Configuration Keys" of the README).        *)
AnswerIsDocumented ==
  At("insert") \/ At("answered") =>
    LET cells == DocumentedCells(request.ask)
        value == [c \in cells |-> DocumentedValue(c)]
    IN request.found = [l \in Leaves(value) |-> value[l[1]][l[2]]]

(* What an answer shows in the place of a placeholder: nothing without the *)
(* permission to reveal the secrets of the environment asked for, whatever *)
(* the key may do in the original of a clone; with it, what the secret was *)
(* at some moment of the request, whoever stores secrets meanwhile.  All   *)
(* else is shown as it was found (InsertSecrets, CanRevealSecrets).        *)
SecretsAreShown ==
  At("answered") =>
    LET p == request.perms  e == request.env
        reveal == p.admin \/ {"EnvAdminAccess", "RevealSecrets"} \cap p.ops[e] # {}
    IN \A l \in DOMAIN request.found :
         LET was == request.found[l]  is == request.shown[l] IN
         /\ was[1] = "text" => is = was
         /\ was[1] = "braces" => is = IF reveal THEN was ELSE Blank
         /\ was[1] = "secret" =>
              IF reveal THEN \E s \in request.seen : is = Shown(GetSecret(s, was[2]))
              ELSE is = Blank
=============================================================================
