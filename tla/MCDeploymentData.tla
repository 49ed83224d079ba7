--------------------------- MODULE MCDeploymentData ---------------------------
EXTENDS DeploymentData

\* Two spellings of one repository, and another repository.
LowerCases == [Owner_App |-> "owner_app", owner_app |-> "owner_app", owner_other |-> "owner_other",
               none |-> "none"]

URL(name, tail) == [github |-> TRUE, name |-> name, tail |-> tail]
URLs == {URL(name, tail) : name \in {"Owner_App", "owner_app", "owner_other"},
                           tail \in {<<>>, <<"git">>, <<"slash">>, <<"git", "slash">>}}
OddURLs == {BlankURL,
            URL("none", <<>>), URL("none", <<"git">>),
            [github |-> FALSE, name |-> "owner_app", tail |-> <<>>],
            URL("owner_app", <<"git", "git">>), URL("owner_app", <<"slash", "slash">>),
            URL("owner_app", <<"git", "slash", "slash">>), URL("owner_app", <<"slash", "git">>)}

\* Requests with up to three variables: raw names of PORT and A, padded or
\* not, a blank one and one that is not allowed.
Raw == [pad : BOOLEAN, name : {"PORT", "A"}]
       \cup {[pad |-> TRUE, name |-> ""], [pad |-> FALSE, name |-> "1A"]}
Envs == UNION {[names -> {3000, 4000}] : names \in {n \in SUBSET Raw : Cardinality(n) =< 3}}

Exposable == {<<0, "tcp">>, <<53, "udp">>, <<3000, "tcp">>, <<8080, "tcp">>}
Images == [exposed : SUBSET Exposable, obeys : BOOLEAN, listens : {3000, 8080},
           inspected : BOOLEAN]

\* Trees for the start command, for the manifests and for the walk.
Modules == [main : SUBSET {"FastAPI", "Flask"}, app : {{}, {"FastAPI"}, {"Flask"}}]
ModuleOf(m) == [c \in {"main", "app", "src.main", "src.app"} |->
                  IF c = "main" THEN m.main ELSE IF c = "src.app" THEN m.app ELSE {}]
ProjectsOf == {<<>>, <<[name |-> "site", package |-> FALSE]>>,
               <<[name |-> "docs", package |-> FALSE], [name |-> "site", package |-> TRUE]>>}
Plain == [manifests |-> {"package.json"}, deps |-> {}, manage |-> FALSE, projects |-> <<>>,
          modules |-> ModuleOf([main |-> {}, app |-> {}]), files |-> <<>>,
          dockerfile |-> FALSE]
PythonTrees ==
  {[Plain EXCEPT !.manifests = manifests, !.deps = deps, !.manage = manage,
                 !.projects = projects, !.modules = ModuleOf(m)] :
     manifests \in {{"requirements.txt"}, {}},
     deps \in {{"django", "flask"}, {"fastapi", "flask"}, {"django", "fastapi", "uvicorn"}, {"flask"}},
     manage \in BOOLEAN, projects \in ProjectsOf, m \in Modules}
OtherTrees == {[Plain EXCEPT !.manifests = manifests, !.dockerfile = (manifests = {})] :
                 manifests \in SUBSET {"go.mod", "package.json", "pyproject.toml", "Cargo.toml"}}
File == {[skipped |-> TRUE, scannable |-> TRUE, big |-> FALSE, says |-> {"pool"}],
         [skipped |-> FALSE, scannable |-> FALSE, big |-> FALSE, says |-> {"pool"}],
         [skipped |-> FALSE, scannable |-> TRUE, big |-> TRUE, says |-> {"pool"}],
         [skipped |-> FALSE, scannable |-> TRUE, big |-> FALSE, says |-> {}],
         [skipped |-> FALSE, scannable |-> TRUE, big |-> FALSE, says |-> {"localhost"}]}
FileTrees == {[Plain EXCEPT !.files = files] : files \in BoundedSeq(File, 3)}

Node == [exposed |-> {<<3000, "tcp">>}, obeys |-> FALSE, listens |-> 3000, inspected |-> TRUE]
Default == [url |-> URL("owner_app", <<>>), env |-> <<>>, tree |-> Plain, image |-> Node]

\* One aspect is varied at a time; URLs are varied in pairs, and the requests
\* of a sequence vary in their times as well.
InputsMC ==
  {<<[Default EXCEPT !.url = u], [Default EXCEPT !.url = v]>> : u \in URLs, v \in URLs}
  \cup {<<[Default EXCEPT !.url = u], Default>> : u \in OddURLs}
  \cup {<<[Default EXCEPT !.env = env]>> : env \in Envs}
  \cup {<<[Default EXCEPT !.image = image]>> : image \in Images}
  \cup {<<[Default EXCEPT !.tree = tree]>> : tree \in PythonTrees \cup OtherTrees \cup FileTrees}

\* 9.9 s, and twice in the tenth second's first milliseconds, and later in it.
InstantsMC == {990, 1000, 1005, 1010, 1012}
=============================================================================
