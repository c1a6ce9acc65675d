------------------------------ MODULE MCCatalog ------------------------------
(* A world of one exited and one running container, two images and two      *)
(* volumes, and the requests that race in it, three at a time.              *)
EXTENDS Catalog, TLC

\* "old" mounts the named volume rw and an anonymous one; "run" runs.
OldWorld ==
  [records |-> [i \in {"old", "run"} |->
     IF i = "old"
     THEN [name |-> "db", image |-> "i1", status |-> "exited", binds |-> <<<<"data", <<"", "var">>, <<"rw">>>>>>,
           mounts |-> (<<"var">> :> [name |-> "data", rw |-> TRUE]) @@ (<<"tmp">> :> [name |-> "x1", rw |-> TRUE])]
     ELSE [name |-> "web", image |-> "i1", status |-> "running", binds |-> <<>>, mounts |-> <<>>]],
   images |-> [i \in {"i1", "i2", "i3"} |->
     IF i = "i1" THEN [present |-> TRUE, names |-> {"app:latest", "app:1"}, data |-> "whole", config |-> [entrypoint |-> <<>>, cmd |-> <<"sh">>]]
     ELSE IF i = "i2" THEN [present |-> TRUE, names |-> {}, data |-> "whole", config |-> [entrypoint |-> <<>>, cmd |-> <<>>]]
     ELSE [present |-> FALSE, names |-> {}, data |-> "none", config |-> [entrypoint |-> <<>>, cmd |-> <<>>]]],
   volumes |-> {"data", "x1"}]

FullNames == ("app" :> "app:latest") @@ ("app:1" :> "app:1") @@ ("i2" :> "i2:latest")
ShortIds == ("o" :> {"old"}) @@ ("a" :> {"old", "a"})

Plain == [op |-> "create", name |-> "", image |-> "app", entrypoint |-> <<>>, cmd |-> <<>>,
          binds |-> <<>>, mounts |-> <<>>, volumes |-> {}, from |-> <<>>, target |-> ""]
Inheriting == [Plain EXCEPT !.from = <<[name |-> "db", mode |-> "ro"]>>,
                            !.binds = <<<<"new", <<"srv", "">>, <<"ro", "rw">>>>, <<"/host", <<"var">>>>>>,
                            !.volumes = {<<"srv">>, <<"tmp", ".">>}]
Mounting == [Plain EXCEPT !.name = "app", !.target = "web", !.entrypoint = <<"run">>,
                          !.mounts = <<[type |-> "volume", source |-> "data", target |-> <<"var">>, readOnly |-> TRUE],
                                       [type |-> "volume", source |-> "", target |-> <<"x">>, readOnly |-> FALSE],
                                       [type |-> "tmpfs", source |-> "", target |-> <<"t">>, readOnly |-> FALSE]>>]
Odd == [Plain EXCEPT !.mounts = <<[type |-> "npipe", source |-> "", target |-> <<"p">>, readOnly |-> FALSE]>>]
Lost == [Plain EXCEPT !.target = "db", !.binds = <<<<"new", <<"n">>>>>>]
Commandless == [Plain EXCEPT !.image = "i2"]
Rm(r) == [op |-> "remove", ref |-> r]
Vol(op, n) == [op |-> op, ref |-> n]
Img(op, r, n) == [op |-> op, image |-> r, name |-> n]

Three(x, y, z) == ("a" :> x) @@ ("b" :> y) @@ ("c" :> z)

RaceSetups == {
  Three(Inheriting, Vol("volume prune", ""), Rm("o")),
  Three(Mounting, Vol("volume rm", "data"), Vol("volume create", "data")),
  Three(Plain, [Plain EXCEPT !.from = <<[name |-> "a", mode |-> ""]>>], Rm("a")),
  Three([Plain EXCEPT !.name = "db"], Rm("db"), Rm("old")),
  Three(Plain, Img("image rm", "app", ""), [op |-> "commit", ref |-> "old", image |-> "app"]),
  Three([Plain EXCEPT !.image = "app:1"], Img("image rm", "app:1", ""), Img("image tag", "i2", "app:1")),
  Three(Commandless, Img("image prune", "", ""), Img("image pull", "app", "")),
  Three(Vol("volume rm", "new"), [op |-> "commit", ref |-> "old", image |-> "app"], Rm("db")),
  Three(Img("image tag", "i2", "app:1"), Img("image prune", "", ""), Img("image rm", "i2", "")),
  Three(Odd, Lost, Rm("web")) }

PruneSetups == { Three([Plain EXCEPT !.binds = <<<<"new", <<"n">>>>>>], Vol("volume prune", ""), Rm("web")) }
=============================================================================
