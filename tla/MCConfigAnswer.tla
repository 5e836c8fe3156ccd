---------------------------- MODULE MCConfigAnswer ----------------------------
(***************************************************************************)
(* Small instances of ConfigAnswer: trees of up to three of five files, one  *)
(* of them unreadable; environment feat is a clone of dev.                 *)
(***************************************************************************)
EXTENDS ConfigAnswer

CONSTANTS dev, feat

Name(n, v) == [k \in {n} |-> v]
Text(x) == <<"text", x>>
Placeholder(path) == <<"secret", path>>
Pointer(k) == [kind |-> "pointer", to |-> k]
LocalValues(f) == [kind |-> "locals", of |-> f]

MCNames == {"web", "url", "db", "key"}

(* Values of one or two leaves; placeholders of every outcome. *)
Url(x) == <<Text(x)>>
Db     == <<Text("host"), Placeholder(<<"db", "pass">>), <<"braces">>>>
Token  == <<Placeholder(<<"tok">>), Placeholder(<<"tok", "part">>)>>
Odd    == <<Placeholder(<<"db", "gone">>), Placeholder(<<"db", "old">>),
            Placeholder(<<"db", "pass", "deep">>)>>

File1 == [readable |-> TRUE, globals |-> Over(Name("url", Url("one")), Name("db", Db)),
          groups  |-> Name("web", <<Pointer("url"), LocalValues(Name("key", Token))>>)]
File2 == [readable |-> TRUE, globals |-> Over(Name("url", Url("two")), Name("web", Url("hidden"))),
          groups  |-> Name("web", <<LocalValues(Name("url", Url("local"))), Pointer("db"),
                                    LocalValues(Name("url", Url("last")))>>)]
File3 == [readable |-> TRUE, globals |-> Name("web", Odd), groups |-> <<>>]
File4 == [readable |-> TRUE, globals |-> <<>>, groups |-> Name("db", <<>>)]

Unreadable == [readable |-> FALSE, globals |-> <<>>, groups |-> <<>>]

MCTrees == BoundedSeq({File1, File2, File3, File4, Unreadable}, 3)

(* What is stored as secrets, and what is refused. *)
MCBatches ==
  {Over(Name("db", Map(Over(Name("pass", Scalar("p1")), Name("old", Nil)))),
        Name("tok", Scalar("t1"))),
   Over(Name("db", Map(Name("pass", Scalar("p2")))), Name("tok", Scalar("t2"))),
   Name("db.pass", Scalar("p3")), Name("tok", Nil), <<>>}

MCMalformed == {"db.pass"}

MCOriginal == [e \in Envs |-> dev]

Key(admin, inDev, inFeat) ==
  [admin |-> admin, ops |-> [e \in Envs |-> IF e = dev THEN inDev ELSE inFeat]]

MCProfiles == {Key(TRUE, {}, {}), Key(FALSE, {"ReadConfig", "RevealSecrets"}, {}),
               Key(FALSE, {"ReadConfig"}, {"EnvAdminAccess"})}

MCAsks == {[groups |-> <<"web">>, globals |-> <<"web", "db">>],
           [groups |-> <<"db", "none">>, globals |-> <<"web", "url", "db", "none">>]}
=============================================================================
