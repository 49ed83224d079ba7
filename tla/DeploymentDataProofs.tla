------------------------- MODULE DeploymentDataProofs -------------------------
(***************************************************************************)
(* Theorems about DeploymentData, for any requests, repositories, images,  *)
(* times and restarts.                                                     *)
(***************************************************************************)
EXTENDS DeploymentData, FiniteSetTheorems, SequenceTheorems, WellFoundedInduction, TLAPS

(***************************************************************************)
(* Sequences and least elements.                                           *)
(***************************************************************************)

(* A sequence that an element is appended to.                              *)
LEMMA AppendTo ==
  ASSUME NEW s, s \in Seq(Range(s)), NEW e
  PROVE  /\ Append(s, e) \in Seq(Range(Append(s, e)))
         /\ Range(Append(s, e)) = Range(s) \cup {e}
<1> DEFINE S == Range(s) \cup {e}
           t == Append(s, e)
<1>1. s \in Seq(S) /\ e \in S
  BY SeqMonotonic
<1>2. /\ t \in Seq(S)
      /\ Len(s) \in Nat
      /\ DOMAIN s = 1 .. Len(s)
      /\ DOMAIN t = 1 .. (Len(s) + 1)
      /\ \A i \in 1 .. Len(s) : t[i] = s[i]
      /\ t[Len(s) + 1] = e
  <2> HIDE DEF S
  <2> QED BY <1>1, AppendProperties, LenProperties
<1>3. Range(t) = Range(s) \cup {e}
  <2> HIDE DEF t, S
  <2>1. \A i \in 1 .. (Len(s) + 1) : i \in 1 .. Len(s) \/ i = Len(s) + 1
    BY <1>2
  <2>2. Len(s) + 1 \in DOMAIN t /\ DOMAIN s \subseteq DOMAIN t
    BY <1>2
  <2>3. Range(t) \subseteq Range(s) \cup {e}
    BY <1>2, <2>1 DEF Range
  <2>4. Range(s) \subseteq Range(t) /\ e \in Range(t)
    BY <1>2, <2>2 DEF Range
  <2> QED BY <2>3, <2>4
<1> QED BY <1>2, <1>3

(* A sequence that loses its head.                                         *)
LEMMA TailOf ==
  ASSUME NEW s, s \in Seq(Range(s)), s # <<>>
  PROVE  /\ Tail(s) \in Seq(Range(Tail(s)))
         /\ Range(Tail(s)) \subseteq Range(s)
         /\ Head(s) \in Range(s)
<1> DEFINE t == Tail(s)
<1>1. Head(s) \in Range(s) /\ t \in Seq(Range(s))
  BY HeadTailProperties
<1>2. Len(t) \in Nat /\ t \in [1 .. Len(t) -> Range(s)]
  BY <1>1, LenProperties
<1>3. t \in [1 .. Len(t) -> Range(t)] /\ Range(t) \subseteq Range(s)
  <2> HIDE DEF t
  <2> QED BY <1>2 DEF Range
<1>4. t \in Seq(Range(t))
  <2> HIDE DEF t
  <2> QED BY <1>2, <1>3, SeqDef
<1> QED BY <1>1, <1>3, <1>4

(* A sequence whose elements are replaced.                                 *)
LEMMA SameLength ==
  ASSUME NEW s, s \in Seq(Range(s)), NEW t, t = [i \in DOMAIN s |-> t[i]]
  PROVE  t \in Seq(Range(t)) /\ DOMAIN t = DOMAIN s
<1>1. Len(s) \in Nat /\ DOMAIN s = 1 .. Len(s)
  BY LenProperties
<1>2. t \in [1 .. Len(s) -> Range(t)]
  BY <1>1 DEF Range
<1> QED BY <1>1, <1>2, SeqDef

(* A set of naturals that is not empty has a least element.                *)
LEMMA MinOf ==
  ASSUME NEW I, I \subseteq Nat, I # {}
  PROVE  Min(I) \in I /\ \A i \in I : Min(I) =< i
<1>1. \A x, y \in Nat : <<x, y>> \in OpToRel(<, Nat) <=> x < y
  BY DEF OpToRel
<1>2. \E R : IsWellFoundedOn(R, Nat) /\ \A x, y \in Nat : <<x, y>> \in R <=> x < y
  BY <1>1, NatLessThanWellFounded, Zenon
<1>3. PICK R : IsWellFoundedOn(R, Nat) /\ \A x, y \in Nat : <<x, y>> \in R <=> x < y
  BY <1>2
<1>4. \E m \in I : \A i \in I : ~(<<i, m>> \in R)
  <2>1. IsWellFoundedOn(R, Nat)
    BY <1>3
  <2> QED BY <2>1, WFMin
<1>5. \E m \in I : \A i \in I : m =< i
  <2>1. PICK m \in I : \A i \in I : ~(<<i, m>> \in R)
    BY <1>4
  <2>2. ASSUME NEW i \in I PROVE m =< i
    <3>1. i \in Nat /\ m \in Nat
      OBVIOUS
    <3>2. ~(i < m)
      BY <1>3, <2>1, <3>1
    <3> QED BY <3>1, <3>2
  <2> QED BY <2>2
<1> QED BY <1>5 DEF Min

(***************************************************************************)
(* The URL of a repository on GitHub, however it is spelled, is valid when *)
(* it is normalized, and gives one key.                                    *)
(***************************************************************************)

URL == [github : BOOLEAN, name : DOMAIN Lower, tail : Seq({"git", "slash"})]

\* What TrimSuffix leaves of the suffixes of a repository's URL.
LEMMA TailTrimmed ==
  ASSUME NEW url \in URL, IsRepository(url)
  PROVE  TrimSuffix(TrimSuffix(url.tail, "slash"), "git") = <<>>
<1>1. CASE url.tail = <<>>
  BY <1>1 DEF TrimSuffix
<1>2. CASE url.tail = <<"git">>
  BY <1>2 DEF TrimSuffix, Last, Front
<1>3. CASE url.tail = <<"slash">>
  BY <1>3 DEF TrimSuffix, Last, Front
<1>4. CASE url.tail = <<"git", "slash">>
  BY <1>4 DEF TrimSuffix, Last, Front
<1> QED BY <1>1, <1>2, <1>3, <1>4 DEF IsRepository

\* The URL of a repository is valid once it is normalized.
LEMMA RepositoryNormalized ==
  ASSUME NEW url \in URL, IsRepository(url)
  PROVE  /\ NormalizeGitHubRepoURL(url) = [github |-> url.github, name |-> url.name, tail |-> <<>>]
         /\ ValidateGitHubRepoURL(NormalizeGitHubRepoURL(url))
<1>1. NormalizeGitHubRepoURL(url) = [github |-> url.github, name |-> url.name, tail |-> <<>>]
  <2>1. NormalizeGitHubRepoURL(url) = [url EXCEPT !.tail = <<>>]
    BY TailTrimmed DEF NormalizeGitHubRepoURL
  <2>2. url = [github |-> url.github, name |-> url.name, tail |-> url.tail]
    BY DEF URL
  <2>3. [url EXCEPT !.tail = <<>>] = [github |-> url.github, name |-> url.name, tail |-> <<>>]
    BY <2>2
  <2> QED BY <2>1, <2>3
<1>2. TrimSuffix(<<>>, "slash") = <<>> /\ "slash" \notin Range(<<>>)
  BY DEF TrimSuffix, Range
<1> QED BY <1>1, <1>2 DEF ValidateGitHubRepoURL, IsRepository

\* The key of a repository's URL is that of its name's lower case.
LEMMA RepositoryKey ==
  ASSUME NEW url \in URL, IsRepository(url)
  PROVE  railpackCacheKey(NormalizeGitHubRepoURL(url))
           = [github |-> TRUE, name |-> Lower[url.name], tail |-> <<>>]
<1>1. PICK plain : plain = [github |-> url.github, name |-> url.name, tail |-> <<>>]
  OBVIOUS
<1>2. NormalizeGitHubRepoURL(url) = plain
  BY <1>1, RepositoryNormalized
<1>3. NormalizeGitHubRepoURL(plain) = plain
  <2>1. TrimSuffix(TrimSuffix(<<>>, "slash"), "git") = <<>>
    BY DEF TrimSuffix
  <2>2. plain.tail = <<>> /\ [plain EXCEPT !.tail = <<>>] = plain
    BY <1>1
  <2> QED BY <2>1, <2>2 DEF NormalizeGitHubRepoURL
<1>4. railpackCacheKey(plain) = [plain EXCEPT !.name = Lower[plain.name]]
  BY <1>3 DEF railpackCacheKey
<1>5. [plain EXCEPT !.name = Lower[plain.name]]
        = [github |-> url.github, name |-> Lower[url.name], tail |-> <<>>]
  BY <1>1
<1>6. url.github = TRUE
  <2>1. url.github \in BOOLEAN
    BY DEF URL
  <2>2. url.github
    BY DEF IsRepository
  <2> QED BY <2>1, <2>2, Zenon
<1> QED BY <1>2, <1>4, <1>5, <1>6

(***************************************************************************)
(* The start command: the first that the tree allows, by framework.        *)
(***************************************************************************)

\* What SelectInSeq finds, for a predicate that is given by its indices.
LEMMA FirstIn ==
  ASSUME NEW I, NEW n \in Nat, I \subseteq 1 .. n, NEW i, i = IF I # {} THEN Min(I) ELSE 0
  PROVE  /\ i \in 0 .. n
         /\ i # 0 => i \in I
         /\ i = 0 <=> I = {}
<1>1. CASE I # {}
  <2>1. I \subseteq Nat
    OBVIOUS
  <2>2. Min(I) \in I
    BY <1>1, <2>1, MinOf
  <2>3. i \in I
    BY <1>1, <2>2, Zenon
  <2>4. i \in 1 .. n
    BY <2>3
  <2> QED BY <1>1, <2>3, <2>4
<1>2. CASE I = {}
  BY <1>2
<1> QED BY <1>1, <1>2

\* detectDjangoProject finds a package, or there is none.
LEMMA DjangoProject ==
  ASSUME NEW tree, IsTree(tree)
  PROVE  LET command == detectDjangoProject(tree)
             names == {project.name : project \in Range(tree.projects)}
         IN  \/ /\ command = NoCommand
                /\ \A project \in Range(tree.projects) : ~project.package
             \/ \E name \in names :
                  /\ command = <<"Django", name>>
                  /\ [name |-> name, package |-> TRUE] \in Range(tree.projects)
<1> DEFINE projects == tree.projects
           I == {i \in 1 .. Len(projects) : projects[i].package}
           found == SelectInSeq(projects, LAMBDA project : project.package)
<1>1. Len(projects) \in Nat /\ DOMAIN projects = 1 .. Len(projects)
  BY LenProperties DEF IsTree
<1>2. found = IF I # {} THEN Min(I) ELSE 0
  BY DEF SelectInSeq
<1>3. detectDjangoProject(tree) = IF found = 0 THEN NoCommand ELSE <<"Django", projects[found].name>>
  BY DEF detectDjangoProject
<1>4. /\ found \in 0 .. Len(projects)
      /\ found # 0 => found \in I
      /\ found = 0 <=> I = {}
  <2>1. I \subseteq 1 .. Len(projects)
    OBVIOUS
  <2> HIDE DEF I, found
  <2> QED BY <1>1, <1>2, <2>1, FirstIn
<1> HIDE DEF found
<1>5. CASE found = 0
  <2>1. \A i \in 1 .. Len(projects) : ~projects[i].package
    BY <1>4, <1>5
  <2> QED BY <1>1, <1>3, <1>5, <2>1 DEF Range
<1>6. CASE found # 0
  <2>1. found \in 1 .. Len(projects) /\ projects[found].package
    BY <1>4, <1>6
  <2>2. projects[found] \in Range(projects)
    BY <1>1, <2>1 DEF Range
  <2>3. /\ projects[found] = [name |-> projects[found].name, package |-> projects[found].package]
        /\ projects[found].package \in BOOLEAN
    BY <2>2 DEF IsTree
  <2>4. projects[found].package = TRUE
    BY <2>1, <2>3, Zenon
  <2>5. projects[found] = [name |-> projects[found].name, package |-> TRUE]
    BY <2>3, <2>4, Zenon
  <2>6. [name |-> projects[found].name, package |-> TRUE] \in Range(projects)
    BY <2>2, <2>5, Zenon
  <2> QED BY <1>3, <1>6, <2>2, <2>6
<1> QED BY <1>5, <1>6

\* findPythonAppModule finds a candidate that assigns the framework's
\* application, or there is none.
LEMMA PythonModule ==
  ASSUME NEW tree, NEW framework
  PROVE  LET command == findPythonAppModule(tree, framework)
         IN  \/ /\ command = NoCommand
                /\ \A module \in Range(Candidates) : framework \notin tree.modules[module]
             \/ \E module \in Range(Candidates) :
                  command = <<framework, module>> /\ framework \in tree.modules[module]
<1> DEFINE I == {i \in 1 .. Len(Candidates) : framework \in tree.modules[Candidates[i]]}
           found == SelectInSeq(Candidates, LAMBDA module : framework \in tree.modules[module])
<1>1. Len(Candidates) = 4 /\ DOMAIN Candidates = 1 .. 4
  BY DEF Candidates
<1>2. found = IF I # {} THEN Min(I) ELSE 0
  BY DEF SelectInSeq
<1>3. findPythonAppModule(tree, framework)
        = IF found = 0 THEN NoCommand ELSE <<framework, Candidates[found]>>
  BY DEF findPythonAppModule
<1>4. /\ found \in 0 .. 4
      /\ found # 0 => found \in I
      /\ found = 0 <=> I = {}
  <2>1. I \subseteq 1 .. 4 /\ 4 \in Nat
    BY <1>1
  <2> HIDE DEF I, found
  <2> QED BY <1>2, <2>1, FirstIn
<1> HIDE DEF found
<1> HIDE DEF Candidates
<1>5. CASE found = 0
  <2>1. \A i \in 1 .. 4 : framework \notin tree.modules[Candidates[i]]
    BY <1>1, <1>4, <1>5
  <2> QED BY <1>1, <1>3, <1>5, <2>1 DEF Range
<1>6. CASE found # 0
  <2>1. found \in 1 .. 4 /\ framework \in tree.modules[Candidates[found]]
    BY <1>1, <1>4, <1>6
  <2>2. Candidates[found] \in Range(Candidates)
    BY <1>1, <2>1 DEF Range
  <2> QED BY <1>3, <1>6, <2>1, <2>2
<1> QED BY <1>5, <1>6

\* What StartCommandIsBest says of the command that is inferred from a tree.
Best(tree, command) ==
  IF command = NoCommand THEN Startable(tree) = {}
  ELSE /\ command \in Startable(tree)
       /\ \A other \in Startable(tree) : Rank(command) =< Rank(other)

\* The ranks of the frameworks.
LEMMA RankOf ==
  ASSUME NEW module
  PROVE  /\ Rank(<<"Django", module>>) = 1
         /\ Rank(<<"FastAPI", module>>) = 2
         /\ Rank(<<"Flask", module>>) = 3
<1>1. /\ DOMAIN Frameworks = 1 .. 3
      /\ Frameworks[1] = "Django" /\ Frameworks[2] = "FastAPI" /\ Frameworks[3] = "Flask"
  BY DEF Frameworks
<1> HIDE DEF Frameworks
<1>2. Rank(<<"Django", module>>) = 1
  BY <1>1 DEF Rank
<1>3. Rank(<<"FastAPI", module>>) = 2
  BY <1>1 DEF Rank
<1>4. Rank(<<"Flask", module>>) = 3
  BY <1>1 DEF Rank
<1> QED BY <1>2, <1>3, <1>4

\* The commands a tree allows, by framework.
LEMMA StartableAre ==
  ASSUME NEW tree, NEW command
  PROVE  command \in Startable(tree) <=>
           /\ readDependencyText(tree) # {}
           /\ \/ \E name \in {project.name : project \in Range(tree.projects)} :
                   /\ command = <<"Django", name>>
                   /\ "django" \in readDependencyText(tree) /\ tree.manage
                   /\ [name |-> name, package |-> TRUE] \in Range(tree.projects)
              \/ \E module \in Range(Candidates) :
                   /\ command = <<"FastAPI", module>>
                   /\ {"fastapi", "uvicorn"} \subseteq readDependencyText(tree)
                   /\ "FastAPI" \in tree.modules[module]
              \/ \E module \in Range(Candidates) :
                   /\ command = <<"Flask", module>>
                   /\ "flask" \in readDependencyText(tree)
                   /\ "Flask" \in tree.modules[module]
<1>1. Range(Frameworks) = {"Django", "FastAPI", "Flask"}
  BY DEF Frameworks, Range
<1>2. Servers["Django"] = {"django"} /\ Servers["FastAPI"] = {"fastapi", "uvicorn"}
      /\ Servers["Flask"] = {"flask"}
  BY DEF Servers
<1>3. readDependencyText(tree) = IF {"requirements.txt", "pyproject.toml"} \cap tree.manifests = {}
                                 THEN {} ELSE tree.deps
  BY DEF readDependencyText
<1> DEFINE names == {project.name : project \in Range(tree.projects)}
<1> HIDE DEF names
<1>4. command \in Startable(tree) <=>
        /\ command \in Range(Frameworks) \X (Range(Candidates) \cup names)
        /\ {"requirements.txt", "pyproject.toml"} \cap tree.manifests # {}
        /\ Servers[command[1]] \subseteq tree.deps
        /\ IF command[1] = "Django"
           THEN tree.manage /\ [name |-> command[2], package |-> TRUE] \in Range(tree.projects)
           ELSE command[2] \in Range(Candidates) /\ command[1] \in tree.modules[command[2]]
  BY DEF Startable, names
<1> DEFINE Allowed(framework, module) ==
             /\ {"requirements.txt", "pyproject.toml"} \cap tree.manifests # {}
             /\ Servers[framework] \subseteq tree.deps
             /\ IF framework = "Django"
                THEN tree.manage /\ [name |-> module, package |-> TRUE] \in Range(tree.projects)
                ELSE module \in Range(Candidates) /\ framework \in tree.modules[module]
<1>5. command \in Startable(tree) <=>
        \E framework \in Range(Frameworks), module \in Range(Candidates) \cup names :
          command = <<framework, module>> /\ Allowed(framework, module)
  <2>1. ASSUME command \in Startable(tree)
        PROVE  /\ command[1] \in Range(Frameworks) /\ command[2] \in Range(Candidates) \cup names
               /\ command = <<command[1], command[2]>> /\ Allowed(command[1], command[2])
    BY <1>4, <2>1
  <2>2. ASSUME NEW framework \in Range(Frameworks), NEW module \in Range(Candidates) \cup names,
               command = <<framework, module>>, Allowed(framework, module)
        PROVE  command \in Startable(tree)
    <3>1. command[1] = framework /\ command[2] = module
      BY <2>2
    <3> QED BY <1>4, <2>2, <3>1
  <2> HIDE DEF Allowed
  <2> QED BY <2>1, <2>2
<1>6. command \in Startable(tree) <=>
        \E module \in Range(Candidates) \cup names :
          \/ command = <<"Django", module>> /\ Allowed("Django", module)
          \/ command = <<"FastAPI", module>> /\ Allowed("FastAPI", module)
          \/ command = <<"Flask", module>> /\ Allowed("Flask", module)
  <2> HIDE DEF Allowed
  <2> QED BY <1>1, <1>5
<1> DEFINE deps == readDependencyText(tree)
<1>7. ASSUME NEW module \in Range(Candidates) \cup names
      PROVE  /\ Allowed("Django", module) <=>
                  /\ deps # {} /\ module \in names
                  /\ "django" \in deps /\ tree.manage
                  /\ [name |-> module, package |-> TRUE] \in Range(tree.projects)
             /\ Allowed("FastAPI", module) <=>
                  /\ deps # {} /\ module \in Range(Candidates)
                  /\ {"fastapi", "uvicorn"} \subseteq deps
                  /\ "FastAPI" \in tree.modules[module]
             /\ Allowed("Flask", module) <=>
                  /\ deps # {} /\ module \in Range(Candidates)
                  /\ "flask" \in deps
                  /\ "Flask" \in tree.modules[module]
  <2>1. [name |-> module, package |-> TRUE] \in Range(tree.projects) => module \in names
    BY DEF names
  <2>2. deps = IF {"requirements.txt", "pyproject.toml"} \cap tree.manifests = {} THEN {} ELSE tree.deps
    BY <1>3
  <2> HIDE DEF deps, names
  <2>3. Allowed("Django", module) <=>
          /\ deps # {} /\ module \in names
          /\ "django" \in deps /\ tree.manage
          /\ [name |-> module, package |-> TRUE] \in Range(tree.projects)
    BY <1>2, <2>1, <2>2
  <2>4. Allowed("FastAPI", module) <=>
          /\ deps # {} /\ module \in Range(Candidates)
          /\ {"fastapi", "uvicorn"} \subseteq deps
          /\ "FastAPI" \in tree.modules[module]
    BY <1>2, <2>2
  <2>5. Allowed("Flask", module) <=>
          /\ deps # {} /\ module \in Range(Candidates)
          /\ "flask" \in deps
          /\ "Flask" \in tree.modules[module]
    BY <1>2, <2>2
  <2> QED BY <2>3, <2>4, <2>5
<1> HIDE DEF Allowed, deps
<1> QED
  BY <1>6, <1>7 DEF names, deps

\* DetectStartCommand infers the best command, or none where there is none.
LEMMA StartCommandBest ==
  ASSUME NEW tree, IsTree(tree)
  PROVE  Best(tree, DetectStartCommand(tree))
<1> DEFINE deps == readDependencyText(tree)
           names == {project.name : project \in Range(tree.projects)}
           djangoFound == "django" \in deps /\ tree.manage
           fastapiFound == {"fastapi", "uvicorn"} \subseteq deps
           flaskFound == "flask" \in deps
           django == IF djangoFound THEN detectDjangoProject(tree) ELSE NoCommand
           fastapi == IF fastapiFound THEN findPythonAppModule(tree, "FastAPI") ELSE NoCommand
           flask == IF flaskFound THEN findPythonAppModule(tree, "Flask") ELSE NoCommand
           command == DetectStartCommand(tree)
           IsDjango(c) == \E name \in names : c = <<"Django", name>> /\ djangoFound
                                              /\ [name |-> name, package |-> TRUE] \in Range(tree.projects)
           IsFastAPI(c) == \E module \in Range(Candidates) :
                             c = <<"FastAPI", module>> /\ fastapiFound /\ "FastAPI" \in tree.modules[module]
           IsFlask(c) == \E module \in Range(Candidates) :
                           c = <<"Flask", module>> /\ flaskFound /\ "Flask" \in tree.modules[module]
<1>1. command = IF django # NoCommand THEN django ELSE IF fastapi # NoCommand THEN fastapi ELSE flask
  BY DEF DetectStartCommand
<1>2. \A c : c \in Startable(tree) <=> deps # {} /\ (IsDjango(c) \/ IsFastAPI(c) \/ IsFlask(c))
  BY StartableAre
<1>3. /\ \A c : IsDjango(c) => c # NoCommand /\ Rank(c) = 1
      /\ \A c : IsFastAPI(c) => c # NoCommand /\ Rank(c) = 2
      /\ \A c : IsFlask(c) => c # NoCommand /\ Rank(c) = 3
  <2>1. \A f, m : <<f, m>> # NoCommand
    BY DEF NoCommand
  <2> QED BY <2>1, RankOf
<1>4. (django # NoCommand => IsDjango(django)) /\ (django = NoCommand => \A c : ~IsDjango(c))
  <2>1. CASE djangoFound
    <3>1. \/ detectDjangoProject(tree) = NoCommand
             /\ \A project \in Range(tree.projects) : ~project.package
          \/ \E name \in names :
               /\ detectDjangoProject(tree) = <<"Django", name>>
               /\ [name |-> name, package |-> TRUE] \in Range(tree.projects)
      BY DjangoProject
    <3>2. \A name : [name |-> name, package |-> TRUE] \in Range(tree.projects)
                    => \E project \in Range(tree.projects) : project.package
      <4>1. \A name : [name |-> name, package |-> TRUE].package
        OBVIOUS
      <4> QED BY <4>1, Zenon
    <3>3. \A name : <<"Django", name>> # NoCommand
      BY DEF NoCommand
    <3> HIDE DEF names
    <3> QED BY <2>1, <3>1, <3>2, <3>3
  <2>2. CASE ~djangoFound
    BY <2>2
  <2> QED BY <2>1, <2>2
<1>5. (fastapi # NoCommand => IsFastAPI(fastapi)) /\ (fastapi = NoCommand => \A c : ~IsFastAPI(c))
  <2>1. CASE fastapiFound
    <3>1. \A module : <<"FastAPI", module>> # NoCommand
      BY DEF NoCommand
    <3> QED BY <2>1, <3>1, PythonModule
  <2>2. CASE ~fastapiFound
    BY <2>2
  <2> QED BY <2>1, <2>2
<1>6. (flask # NoCommand => IsFlask(flask)) /\ (flask = NoCommand => \A c : ~IsFlask(c))
  <2>1. CASE flaskFound
    <3>1. \A module : <<"Flask", module>> # NoCommand
      BY DEF NoCommand
    <3> QED BY <2>1, <3>1, PythonModule
  <2>2. CASE ~flaskFound
    BY <2>2
  <2> QED BY <2>1, <2>2
<1>7. /\ \A c : IsDjango(c) => deps # {}
      /\ \A c : IsFastAPI(c) => deps # {}
      /\ \A c : IsFlask(c) => deps # {}
  OBVIOUS
<1> HIDE DEF IsDjango, IsFastAPI, IsFlask, django, fastapi, flask, command, deps
<1>8. CASE django # NoCommand
  BY <1>1, <1>2, <1>3, <1>4, <1>7, <1>8 DEF Best, command
<1>9. CASE django = NoCommand /\ fastapi # NoCommand
  BY <1>1, <1>2, <1>3, <1>4, <1>5, <1>7, <1>9 DEF Best, command
<1>10. CASE django = NoCommand /\ fastapi = NoCommand
  BY <1>1, <1>2, <1>3, <1>4, <1>5, <1>6, <1>7, <1>10 DEF Best, command
<1> QED BY <1>8, <1>9, <1>10

(***************************************************************************)
(* The hints: those of the files that are read.                            *)
(***************************************************************************)

\* What HintsAgree says of the hints that a tree is given.
Agree(tree, hints) ==
  LET readable == {i \in DOMAIN tree.files : Readable(tree.files[i])}
      said == UNION {tree.files[i].says : i \in readable}
  IN  /\ hints \cap {"localhost", "pool"} \subseteq said
      /\ Cardinality(readable) =< MaxScanned => said \subseteq hints

\* The hints are those of the files that may be read.
LEMMA HintsAre ==
  ASSUME NEW tree, IsTree(tree)
  PROVE  Agree(tree, Hints(tree))
<1> DEFINE files == tree.files
           readable == {i \in DOMAIN files : Readable(files[i])}
           before(i) == {j \in 1 .. i - 1 : Readable(files[j])}
           scanned == {i \in DOMAIN files : Readable(files[i]) /\ Cardinality(before(i)) < MaxScanned}
           said == UNION {files[i].says : i \in readable}
           manifest == SelectInSeq(Manifests, LAMBDA m : m \in tree.manifests)
<1>1. scanReadinessHints(tree) = UNION {files[i].says : i \in scanned}
  BY DEF scanReadinessHints
<1>2. scanReadinessHints(tree) \subseteq said
  BY <1>1
<1>3. Hints(tree) \cap {"localhost", "pool"} \subseteq scanReadinessHints(tree)
  <2>1. Len(Manifests) = 5 /\ \A i \in 1 .. 5 : Manifests[i] \notin {"localhost", "pool"}
    BY DEF Manifests
  <2>2. manifest # 0 => manifest \in 1 .. 5
    <3> DEFINE I == {i \in 1 .. Len(Manifests) : Manifests[i] \in tree.manifests}
    <3>1. manifest = IF I # {} THEN Min(I) ELSE 0
      BY DEF SelectInSeq
    <3>2. I \subseteq 1 .. 5 /\ 5 \in Nat
      BY <2>1
    <3> HIDE DEF I, manifest
    <3> QED BY <3>1, <3>2, FirstIn
  <2>3. Hints(tree) = (IF manifest = 0 THEN {"no manifest"} ELSE {Manifests[manifest]})
                      \cup (IF DetectStartCommand(tree) = NoCommand THEN {} ELSE {"start command"})
                      \cup (IF tree.dockerfile THEN {"Dockerfile"} ELSE {})
                      \cup scanReadinessHints(tree)
    BY DEF Hints
  <2> HIDE DEF manifest
  <2> QED BY <2>1, <2>2, <2>3
<1>4. ASSUME Cardinality(readable) =< MaxScanned, NEW i \in readable
      PROVE  Cardinality(before(i)) < MaxScanned
  <2>1. Len(files) \in Nat /\ DOMAIN files = 1 .. Len(files)
    BY LenProperties DEF IsTree
  <2>2. i \in 1 .. Len(files)
    BY <2>1
  <2>3. readable \subseteq 1 .. Len(files)
    BY <2>1
  <2>4. IsFiniteSet(readable)
    <3>1. IsFiniteSet(1 .. Len(files))
      BY <2>1, FS_Interval
    <3> HIDE DEF readable
    <3> QED BY <2>3, <3>1, FS_Subset
  <2>5. before(i) \subseteq readable \ {i}
    BY <2>1, <2>2
  <2>6. IsFiniteSet(readable \ {i}) /\ Cardinality(readable \ {i}) = Cardinality(readable) - 1
    <3> HIDE DEF readable
    <3> QED BY <1>4, <2>4, FS_RemoveElement
  <2>7. IsFiniteSet(before(i)) /\ Cardinality(before(i)) =< Cardinality(readable \ {i})
    <3> HIDE DEF readable, before
    <3> QED BY <2>5, <2>6, FS_Subset
  <2>8. Cardinality(before(i)) \in Nat /\ Cardinality(readable) \in Nat
    <3> HIDE DEF readable, before
    <3> QED BY <2>4, <2>7, FS_CardinalityType
  <2> HIDE DEF readable, before
  <2> QED BY <1>4, <2>6, <2>7, <2>8, ScanAssumption
<1>5. Cardinality(readable) =< MaxScanned => said \subseteq scanReadinessHints(tree)
  BY <1>1, <1>4
<1>6. scanReadinessHints(tree) \subseteq Hints(tree)
  BY DEF Hints
<1> QED BY <1>2, <1>3, <1>5, <1>6 DEF Agree

(***************************************************************************)
(* Variables, ports and texts of times.                                    *)
(***************************************************************************)

\* The trimmed names of a request, and what a container is given of the
\* variables that normalizeEnvVars makes of them.
NamesOf(submitted) == {raw.name : raw \in DOMAIN submitted} \ {""}

EnvironIs(submitted, env, port, environ) ==
  /\ DOMAIN env = NamesOf(submitted)
  /\ DOMAIN environ = NamesOf(submitted) \cup {"PORT"}
  /\ \A name \in NamesOf(submitted) :
       \E raw \in DOMAIN submitted : raw.name = name /\ environ[name] = submitted[raw]
  /\ "PORT" \notin NamesOf(submitted) => environ["PORT"] = port

\* RunArgs puts PORT behind the variables of the request.
LEMMA EnvironOf ==
  ASSUME NEW submitted, NEW env \in normalizeEnvVars(submitted), NEW port
  PROVE  EnvironIs(submitted, env, port, RunArgs(env, port))
<1> DEFINE environ == RunArgs(env, port)
<1> DEFINE names == NamesOf(submitted)
<1>1. /\ env \in [names -> Range(submitted)]
      /\ \A name \in names : \E raw \in {r \in DOMAIN submitted : r.name = name} : env[name] = submitted[raw]
  BY DEF normalizeEnvVars, NamesOf
<1>2. DOMAIN env = names
  BY <1>1
<1> HIDE DEF names
<1>3. PICK default : default = [PORT |-> port]
  OBVIOUS
<1>4. DOMAIN default = {"PORT"} /\ default["PORT"] = port
  BY <1>3
<1>5. environ = [x \in DOMAIN env \cup DOMAIN default |-> IF x \in DOMAIN env THEN env[x] ELSE default[x]]
  BY <1>3 DEF RunArgs, Over
<1> HIDE DEF environ
<1>6. /\ DOMAIN environ = names \cup {"PORT"}
      /\ \A name \in names : environ[name] = env[name]
      /\ "PORT" \notin names => environ["PORT"] = port
  BY <1>2, <1>4, <1>5
<1>7. \A name \in names : \E raw \in DOMAIN submitted : raw.name = name /\ environ[name] = submitted[raw]
  BY <1>1, <1>6
<1>8. EnvironIs(submitted, env, port, environ)
  BY <1>2, <1>6, <1>7 DEF EnvironIs, names
<1> QED BY <1>8 DEF environ

\* The names of an acceptable request are allowed.
LEMMA NamesAllowed ==
  ASSUME NEW submitted, NEW env \in normalizeEnvVars(submitted), EnvVarsAllowed(submitted)
  PROVE  DOMAIN env \subseteq GoodNames
<1>1. DOMAIN env = NamesOf(submitted)
  BY EnvironOf DEF EnvironIs
<1> QED BY <1>1 DEF EnvVarsAllowed, NamesOf


\* The ports are positive numbers.
LEMMA PortsAre ==
  Ports \subseteq Nat \ {0}
<1>1. LastPort \in Nat
  BY DEF LastPort
<1> QED BY <1>1 DEF Ports

\* The port that is detected, and that it is the one an image has alone.
LEMMA PortOf ==
  ASSUME NEW image, image.listens \in Ports,
         \A exposed \in image.exposed : exposed[1] \in Ports \cup {0}
  PROVE  /\ detectContainerPort(image) \in Ports
         /\ \/ image.inspected /\ image.exposed = {<<image.listens, "tcp">>}
            \/ image.exposed = {} /\ image.listens = DefaultPort
            => detectContainerPort(image) = image.listens
<1> DEFINE ports == {exposed[1] : exposed \in image.exposed} \ {0}
<1>1. detectContainerPort(image) = IF image.inspected THEN Least(ports) ELSE DefaultPort
  BY DEF detectContainerPort
<1>2. ports \subseteq Ports
  OBVIOUS
<1>3. DefaultPort \in Ports
  BY DataAssumption
<1>4. Least(ports) \in Ports
  <2> HIDE DEF ports
  <2>1. CASE ports = {}
    BY <1>3, <2>1 DEF Least
  <2>2. CASE ports # {}
    <3>1. ports \subseteq Nat
      BY <1>2, PortsAre
    <3>2. Min(ports) \in ports /\ \A other \in ports : Min(ports) =< other
      BY <2>2, <3>1, MinOf
    <3>3. Least(ports) \in ports
      BY <2>2, <3>2 DEF Least
    <3> QED BY <1>2, <3>3
  <2> QED BY <2>1, <2>2
<1>5. detectContainerPort(image) \in Ports
  BY <1>1, <1>3, <1>4
<1>6. ASSUME image.inspected, image.exposed = {<<image.listens, "tcp">>}
      PROVE  detectContainerPort(image) = image.listens
  <2>1. ports = {image.listens}
    <3>1. image.listens # 0
      BY PortsAre
    <3> QED BY <1>6, <3>1
  <2>2. Least({image.listens}) = image.listens
    <3>1. image.listens \in Nat
      BY PortsAre
    <3> QED BY <3>1 DEF Least
  <2> HIDE DEF ports
  <2> QED BY <1>1, <1>6, <2>1, <2>2
<1>7. ASSUME image.exposed = {}, image.listens = DefaultPort
      PROVE  detectContainerPort(image) = image.listens
  <2>1. ports = {}
    BY <1>7
  <2>2. Least({}) = DefaultPort
    BY DEF Least
  <2> HIDE DEF ports
  <2> QED BY <1>1, <1>7, <2>1, <2>2
<1> QED BY <1>5, <1>6, <1>7

\* The first bytes of the text of a time, and what its other bytes are.
LEMMA TextOf ==
  ASSUME NEW time \in Nat, time =< 9999
  PROVE  LET text == formatTime(time)
         IN  /\ text \in Seq(-1 .. 10)
             /\ Len(text) >= 2
             /\ text[1] = Second(time) \div 10
             /\ text[2] = Second(time) % 10
<1> DEFINE second == Second(time)
           Byte == -1 .. 10
           fraction == Fraction(time)
           end == <<Zulu>>
<1>1. second \in 0 .. 99
  BY DEF Second
<1>2. second \div 10 \in 0 .. 9 /\ second % 10 \in 0 .. 9
  <2> HIDE DEF second
  <2> QED BY <1>1
<1>3. PICK digits : digits = TwoDigits(second)
  OBVIOUS
<1>4. /\ digits \in Seq(Byte) /\ Len(digits) = 2
      /\ digits[1] = second \div 10 /\ digits[2] = second % 10
  <2>1. second \div 10 \in Byte /\ second % 10 \in Byte
    <3> HIDE DEF second
    <3> QED BY <1>2
  <2>2. digits = <<second \div 10, second % 10>>
    BY <1>3 DEF TwoDigits
  <2> HIDE DEF second, Byte
  <2> QED BY <2>1, <2>2
<1>5. fraction \in Seq(Byte)
  <2>1. /\ (time % 100) \div 10 \in Byte
        /\ time % 10 \in Byte
        /\ Dot \in Byte
    BY DEF Dot
  <2> HIDE DEF Byte
  <2> QED BY <2>1 DEF Fraction
<1>6. end \in Seq(Byte)
  BY DEF Zulu
<1> HIDE DEF second, fraction, end, Byte
<1> DEFINE start == digits \o fraction
           text == start \o end
<1>7. /\ start \in Seq(Byte) /\ Len(start) = Len(digits) + Len(fraction)
      /\ \A i \in 1 .. Len(digits) + Len(fraction) :
           start[i] = IF i =< Len(digits) THEN digits[i] ELSE fraction[i - Len(digits)]
  <2>1. digits \in Seq(Byte)
    BY <1>4
  <2> QED BY <1>5, <2>1
<1> HIDE DEF start
<1>8. Len(fraction) \in Nat /\ Len(end) \in Nat
  BY <1>5, <1>6, LenProperties
<1>9. start[1] = digits[1] /\ start[2] = digits[2]
  BY <1>4, <1>7, <1>8
<1>10. /\ text \in Seq(Byte) /\ Len(text) = Len(start) + Len(end)
       /\ \A i \in 1 .. Len(start) + Len(end) :
            text[i] = IF i =< Len(start) THEN start[i] ELSE end[i - Len(start)]
  <2>1. start \in Seq(Byte)
    BY <1>7
  <2> QED BY <1>6, <2>1
<1>11. formatTime(time) = text
  BY <1>3 DEF formatTime, start, second, fraction, end
<1> HIDE DEF text
<1>12. Len(text) >= 2 /\ text[1] = digits[1] /\ text[2] = digits[2]
  BY <1>4, <1>7, <1>8, <1>9, <1>10
<1>13. text \in Seq(-1 .. 10)
  BY <1>10 DEF Byte
<1> QED BY <1>4, <1>11, <1>12, <1>13 DEF second

\* The texts of times of different seconds are in the order of the times.
LEMMA TextInOrder ==
  ASSUME NEW m \in Nat, m =< 9999, NEW n \in Nat, n =< 9999, Second(m) < Second(n)
  PROVE  TextLess(formatTime(m), formatTime(n))
<1>1. PICK s : s = formatTime(m)
  OBVIOUS
<1>2. PICK t : t = formatTime(n)
  OBVIOUS
<1>3. /\ Len(s) \in Nat /\ Len(t) \in Nat /\ Len(s) >= 2 /\ Len(t) >= 2
      /\ s[1] = Second(m) \div 10 /\ s[2] = Second(m) % 10
      /\ t[1] = Second(n) \div 10 /\ t[2] = Second(n) % 10
  <2>1. s \in Seq(-1 .. 10) /\ t \in Seq(-1 .. 10)
    BY <1>1, <1>2, TextOf
  <2>2. Len(s) \in Nat /\ Len(t) \in Nat
    BY <2>1, LenProperties
  <2> QED BY <1>1, <1>2, <2>2, TextOf
<1>4. Second(m) \in Nat /\ Second(n) \in Nat
  BY DEF Second
<1>5. s[1] < t[1] \/ (s[1] = t[1] /\ s[2] < t[2])
  BY <1>3, <1>4
<1>6. CASE s[1] < t[1]
  <2>1. 1 \in 1 .. Len(t) /\ 1 .. (1 - 1) = {}
    BY <1>3
  <2> QED BY <1>1, <1>2, <1>6, <2>1 DEF TextLess
<1>7. CASE s[1] = t[1] /\ s[2] < t[2]
  <2>1. 2 \in 1 .. Len(t) /\ 1 .. (2 - 1) = {1} /\ 1 =< Len(s)
    BY <1>3
  <2> QED BY <1>1, <1>2, <1>7, <2>1 DEF TextLess
<1> QED BY <1>5, <1>6, <1>7

(***************************************************************************)
(* Host labels: the loop of sanitizeHostLabel over an ID.                  *)
(***************************************************************************)

\* A set of naturals that goes on from each to the next has them all.
LEMMA AllNat ==
  ASSUME NEW S, 0 \in S, \A n \in S \cap Nat : n + 1 \in S
  PROVE  Nat \subseteq S
<1> SUFFICES ASSUME ~(Nat \subseteq S) PROVE FALSE
  OBVIOUS
<1> DEFINE others == {n \in Nat : n \notin S}
<1>0. others \subseteq Nat /\ others # {} /\ 0 \notin others
  OBVIOUS
<1>1. \A i \in Nat : i + 1 \in others => i \in others
  OBVIOUS
<1> HIDE DEF others
<1>2. Min(others) \in others /\ \A i \in others : Min(others) =< i
  BY <1>0, MinOf
<1>3. PICK m : m \in others /\ \A i \in others : m =< i
  BY <1>2
<1>4. m \in Nat /\ m # 0
  BY <1>0, <1>3
<1>5. m - 1 \in Nat /\ (m - 1) + 1 = m
  BY <1>4
<1>6. m - 1 \in others
  BY <1>1, <1>3, <1>5
<1> QED BY <1>3, <1>4, <1>6

\* The greatest of a set that has the greatest of an interval.
LEMMA MaxIs ==
  ASSUME NEW n \in Nat, NEW s, s \subseteq 1 .. n, n \in s
  PROVE  Max(s) = n
<1>1. \A y \in s : y \in Nat /\ n >= y
  OBVIOUS
<1>2. \A x \in s : (\A y \in s : x >= y) <=> x = n
  BY <1>1
<1> QED BY <1>1, <1>2 DEF Max

(***************************************************************************)
(* The loop of sanitizeHostLabel, as FoldLeft goes through it.             *)
(***************************************************************************)

Written(value, n, g) ==
  g = [s \in SUBSET (1 .. n) |->
         IF s = {} THEN <<>> ELSE WriteRune(g[s \ {Max(s)}], value[Max(s)])]

(* The written texts of n characters give those of n + 1.                  *)
LEMMA WrittenNext ==
  ASSUME NEW value, NEW n \in Nat, NEW g, Written(value, n, g)
  PROVE  \E h : Written(value, n + 1, h)
<1> DEFINE h == [s \in SUBSET (1 .. (n + 1)) |->
                   IF n + 1 \in s THEN WriteRune(g[s \ {n + 1}], value[n + 1]) ELSE g[s]]
           step(f, s) == IF s = {} THEN <<>> ELSE WriteRune(f[s \ {Max(s)}], value[Max(s)])
<1>1. \A s \in SUBSET (1 .. n) : g[s] = step(g, s)
  BY DEF Written
<1>2. \A s \in SUBSET (1 .. (n + 1)) : n + 1 \notin s => s \in SUBSET (1 .. n) /\ h[s] = g[s]
  OBVIOUS
<1>3. \A s \in SUBSET (1 .. n) : s \in SUBSET (1 .. (n + 1)) /\ n + 1 \notin s /\ h[s] = g[s]
  OBVIOUS
<1>4. ASSUME NEW s \in SUBSET (1 .. (n + 1))
      PROVE  h[s] = step(h, s)
  <2>1. CASE n + 1 \in s
    <3>1. Max(s) = n + 1
      <4>1. n + 1 \in Nat /\ s \subseteq 1 .. (n + 1)
        OBVIOUS
      <4> HIDE DEF h, step
      <4> QED BY <2>1, <4>1, MaxIs
    <3>2. s \ {n + 1} \in SUBSET (1 .. n)
      OBVIOUS
    <3>3. h[s] = WriteRune(g[s \ {n + 1}], value[n + 1])
      BY <2>1
    <3>4. h[s \ {n + 1}] = g[s \ {n + 1}]
      BY <1>3, <3>2
    <3>5. step(h, s) = WriteRune(h[s \ {n + 1}], value[n + 1])
      <4> HIDE DEF h
      <4> QED BY <2>1, <3>1
    <3> HIDE DEF h, step
    <3> QED BY <3>3, <3>4, <3>5
  <2>2. CASE n + 1 \notin s
    <3>1. h[s] = step(g, s) /\ s \in SUBSET (1 .. n)
      BY <1>1, <1>2, <2>2
    <3>2. h[s \ {Max(s)}] = g[s \ {Max(s)}]
      BY <1>3, <3>1
    <3>3. step(h, s) = step(g, s)
      <4> HIDE DEF h
      <4> QED BY <3>2
    <3> HIDE DEF h, step
    <3> QED BY <3>1, <3>3
  <2> QED BY <2>1, <2>2
<1>5. h = [s \in SUBSET (1 .. (n + 1)) |-> h[s]]
  OBVIOUS
<1>6. h = [s \in SUBSET (1 .. (n + 1)) |-> step(h, s)]
  <2> HIDE DEF h, step
  <2> QED BY <1>4, <1>5
<1>7. Written(value, n + 1, h)
  BY <1>6 DEF Written
<1> QED BY <1>7

(* FoldLeft's function of the sets of indices exists for every n.          *)
LEMMA WrittenIs ==
  ASSUME NEW value, NEW n \in Nat
  PROVE  \E g : Written(value, n, g)
<1> DEFINE S == {m \in Nat : \E g : Written(value, m, g)}
<1>1. 0 \in S
  <2> DEFINE g == [s \in SUBSET (1 .. 0) |-> <<>>]
  <2>1. \A s \in SUBSET (1 .. 0) : s = {}
    OBVIOUS
  <2>2. Written(value, 0, g)
    BY <2>1 DEF Written
  <2> QED BY <2>2
<1>2. \A m \in S \cap Nat : m + 1 \in S
  BY WrittenNext
<1> HIDE DEF S
<1>3. n \in S
  BY <1>1, <1>2, AllNat
<1> QED BY <1>3 DEF S

\* What has been written after each character.
LEMMA DashedOf ==
  ASSUME NEW value, NEW n \in Nat, DOMAIN value = 1 .. n
  PROVE  \E text :
           /\ text[0] = <<>>
           /\ \A k \in 1 .. n : text[k] = WriteRune(text[k - 1], value[k])
           /\ Dashed(value) = text[n]
<1> DEFINE g == CHOOSE f : Written(value, n, f)
           text == [k \in 0 .. n |-> g[1 .. k]]
<1>1. Dashed(value) = g[1 .. n]
  BY DEF Dashed, FoldLeft, MapThenFoldSet, Written
<1>2. Written(value, n, g)
  BY WrittenIs
<1> HIDE DEF g
<1>3. g[1 .. 0] = <<>>
  <2>1. 1 .. 0 = {} /\ 1 .. 0 \in SUBSET (1 .. n)
    OBVIOUS
  <2> QED BY <1>2, <2>1 DEF Written
<1>4. ASSUME NEW k \in 1 .. n
      PROVE  g[1 .. k] = WriteRune(g[1 .. (k - 1)], value[k])
  <2>0. k \in Nat /\ k \in 1 .. k /\ 1 .. k \subseteq 1 .. k
    BY <1>4
  <2>1. 1 .. k \in SUBSET (1 .. n) /\ 1 .. k # {}
    <3>1. \A i \in 1 .. k : i \in 1 .. n
      BY <2>0
    <3> QED BY <2>0, <3>1
  <2>2. Max(1 .. k) = k
    BY <2>0, MaxIs
  <2>3. (1 .. k) \ {k} = 1 .. (k - 1)
    BY <2>0
  <2>4. g[1 .. k] = WriteRune(g[(1 .. k) \ {Max(1 .. k)}], value[Max(1 .. k)])
    BY <1>2, <2>1 DEF Written
  <2> QED BY <2>2, <2>3, <2>4
<1>5. text[0] = <<>> /\ text[n] = Dashed(value)
  BY <1>1, <1>3
<1>6. \A k \in 1 .. n : text[k] = WriteRune(text[k - 1], value[k])
  BY <1>4
<1> QED BY <1>5, <1>6

(***************************************************************************)
(* The label of an ID.                                                     *)
(***************************************************************************)

(* A text that ends in no dash is not trimmed on the right.                *)
LEMMA NotTrimmed ==
  ASSUME NEW text, NEW n \in Nat, n # 0, NEW S, text \in [1 .. n -> S], text[n] # "-"
  PROVE  TrimRight(text) = text
<1>1. text \in Seq(S) /\ Len(text) = n
  BY SeqDef, LenProperties
<1> DEFINE I == {i \in 1 .. Len(text) : text[i] # "-"}
<1>2. I \subseteq 1 .. n /\ n \in I /\ I # {}
  BY <1>1
<1>3. SelectLastInSeq(text, LAMBDA char : char # "-") = IF I # {} THEN Max(I) ELSE 0
  BY DEF SelectLastInSeq
<1>4. Max(I) = n
  <2> HIDE DEF I
  <2> QED BY <1>2, MaxIs
<1>5. TrimRight(text) = SubSeq(text, 1, n)
  <2> HIDE DEF I
  <2> QED BY <1>2, <1>3, <1>4 DEF TrimRight
<1> QED BY <1>1, <1>5

(* The first elements of a sequence, and one more of them.                 *)
Prefix(f, k) == [i \in 1 .. k |-> f[i]]

GoesOn(f, k) ==
  /\ Len(Prefix(f, k)) = k
  /\ k # 0 => Last(Prefix(f, k)) = f[k]
  /\ Append(Prefix(f, k), f[k + 1]) = Prefix(f, k + 1)

(* Every prefix of a sequence goes on to the next.                         *)
LEMMA PrefixNext ==
  ASSUME NEW n \in Nat, NEW S, NEW f \in [1 .. n -> S]
  PROVE  \A k \in Nat : k + 1 \in 1 .. n => GoesOn(f, k)
<1> SUFFICES ASSUME NEW k \in Nat, k + 1 \in 1 .. n PROVE GoesOn(f, k)
  OBVIOUS
<1> DEFINE s == Prefix(f, k)
           t == Prefix(f, k + 1)
           e == f[k + 1]
           u == Append(s, e)
<1>1. /\ s \in [1 .. k -> S] /\ t \in [1 .. (k + 1) -> S] /\ e \in S
      /\ \A i \in 1 .. k : t[i] = f[i] /\ s[i] = f[i]
      /\ t[k + 1] = e
  BY DEF Prefix
<1> HIDE DEF s, t, e
<1>2. s \in Seq(S) /\ Len(s) = k
  BY <1>1, SeqDef, LenProperties
<1>3. k # 0 => Last(s) = f[k]
  <2>1. k # 0 => k \in 1 .. k
    OBVIOUS
  <2> QED BY <1>1, <1>2, <2>1 DEF Last
<1>4. u \in Seq(S) /\ Len(u) = k + 1 /\ (\A i \in 1 .. k : u[i] = s[i]) /\ u[k + 1] = e
  BY <1>1, <1>2, AppendProperties
<1>5. u \in [1 .. (k + 1) -> S]
  <2> HIDE DEF u
  <2> QED BY <1>4, LenProperties
<1>6. \A i \in 1 .. (k + 1) : u[i] = t[i]
  <2>1. \A i \in 1 .. (k + 1) : i \in 1 .. k \/ i = k + 1
    OBVIOUS
  <2> HIDE DEF u
  <2> QED BY <1>1, <1>4, <2>1
<1>7. u = t
  <2> HIDE DEF u
  <2> QED BY <1>1, <1>5, <1>6
<1> QED BY <1>2, <1>3, <1>7 DEF GoesOn, s, t, e

(* A label has a dash for each separator, of which no two are together.    *)
EachDashed(value, label, n) ==
  /\ \A k \in 1 .. n : label[k] = IF value[k] \in Separators THEN "-" ELSE value[k]
  /\ \A k \in 1 .. n :
       k + 1 \in 1 .. n /\ value[k] \in Separators => value[k + 1] \notin Separators

(* Separators that are not beside one another become one dash each.        *)
LEMMA DashedEach ==
  ASSUME NEW n \in Nat, NEW S, NEW value \in [1 .. n -> S], NEW label \in [1 .. n -> S],
         EachDashed(value, label, n)
  PROVE  Dashed(value) = label
<1>0. /\ \A k \in 1 .. n : label[k] = IF value[k] \in Separators THEN "-" ELSE value[k]
      /\ \A k \in 1 .. n :
           k + 1 \in 1 .. n /\ value[k] \in Separators => value[k + 1] \notin Separators
  BY DEF EachDashed
<1>1. PICK text : /\ text[0] = <<>>
                  /\ \A k \in 1 .. n : text[k] = WriteRune(text[k - 1], value[k])
                  /\ Dashed(value) = text[n]
  BY DashedOf
<1> DEFINE R == {k \in Nat : k \in 0 .. n => text[k] = Prefix(label, k)}
<1>2. 0 \in R
  <2>1. Prefix(label, 0) = <<>>
    BY DEF Prefix
  <2> QED BY <1>1, <2>1
<1>3. ASSUME NEW k \in R \cap Nat
      PROVE  k + 1 \in R
  <2>1. ASSUME k + 1 \in 0 .. n
        PROVE  text[k + 1] = Prefix(label, k + 1)
    <3>1. k + 1 \in 1 .. n /\ k \in 0 .. n /\ (k + 1) - 1 = k
      BY <1>3, <2>1
    <3>2. text[k] = Prefix(label, k) /\ text[k + 1] = WriteRune(text[k], value[k + 1])
      BY <1>1, <1>3, <3>1
    <3>3. /\ Len(Prefix(label, k)) = k
          /\ k # 0 => Last(Prefix(label, k)) = label[k]
          /\ Append(Prefix(label, k), label[k + 1]) = Prefix(label, k + 1)
      <4>1. \A j \in Nat : j + 1 \in 1 .. n => GoesOn(label, j)
        BY PrefixNext
      <4> QED BY <3>1, <4>1 DEF GoesOn
    <3>4. value[k + 1] \in Separators => Prefix(label, k) = <<>> \/ Last(Prefix(label, k)) # "-"
      <4>1. CASE k = 0
        BY <4>1 DEF Prefix
      <4>2. CASE k # 0
        <5>1. k \in 1 .. n
          BY <1>3, <3>1, <4>2
        <5>2. value[k + 1] \in Separators => value[k] \notin Separators /\ label[k] = value[k]
          BY <1>0, <3>1, <5>1
        <5>3. "-" \in Separators
          BY DEF Separators
        <5> QED BY <3>3, <4>2, <5>2, <5>3
      <4> QED BY <4>1, <4>2
    <3>5. WriteRune(Prefix(label, k), value[k + 1]) = Append(Prefix(label, k), label[k + 1])
      BY <1>0, <3>1, <3>4 DEF WriteRune
    <3> QED BY <3>2, <3>3, <3>5
  <2> QED BY <1>3, <2>1
<1> HIDE DEF R
<1>4. n \in R
  BY <1>2, <1>3, AllNat
<1>5. text[n] = Prefix(label, n)
  BY <1>4 DEF R
<1>6. Prefix(label, n) = label
  BY DEF Prefix
<1> QED BY <1>1, <1>5, <1>6

(* An ID becomes a host label, as long as the bound of a label cuts none.  *)
LEMMA LabelOf ==
  ASSUME NEW a, NEW b, a \notin Separators, b \notin Separators, MaxLabel \in Nat, MaxLabel >= 5
  PROVE  /\ sanitizeHostLabel(<<"dep", "_", a, "_", b>>) = <<"dep", "-", a, "-", b>>
         /\ IsHostLabel(<<"dep", "-", a, "-", b>>)
<1> DEFINE label == <<"dep", "-", a, "-", b>>
           S == {"dep", "-", a, b}
<1>1. /\ label \in [1 .. 5 -> S] /\ label \in Seq(S) /\ Len(label) = 5 /\ label # <<>>
      /\ Head(label) = "dep" /\ label[5] = b /\ Last(label) = b
  BY DEF Last
<1>2. Range(label) \cap Separators \subseteq {"-"}
  <2>1. Range(label) \subseteq S
    <3>1. DOMAIN label = 1 .. 5 /\ \A i \in 1 .. 5 : label[i] \in S
      BY <1>1
    <3> HIDE DEF label, S
    <3> QED BY <3>1 DEF Range
  <2>2. "dep" \notin Separators
    BY DEF Separators
  <2> HIDE DEF label
  <2> QED BY <2>1, <2>2
<1>3. b # "-"
  BY DEF Separators
<1> HIDE DEF label, S
<1>4. Dashed(<<"dep", "_", a, "_", b>>) = label
  <2> DEFINE id == <<"dep", "_", a, "_", b>>
             T == {"dep", "_", "-", a, b}
  <2>1. id \in [1 .. 5 -> T] /\ label \in [1 .. 5 -> T]
    <3>1. id \in [1 .. 5 -> T]
      <4>1. id = [k \in 1 .. 5 |-> id[k]]
        OBVIOUS
      <4>2. \A k \in 1 .. 5 : id[k] \in T
        <5>1. id[1] \in T /\ id[2] \in T /\ id[3] \in T /\ id[4] \in T /\ id[5] \in T
          OBVIOUS
        <5>2. \A k \in 1 .. 5 : k = 1 \/ k = 2 \/ k = 3 \/ k = 4 \/ k = 5
          OBVIOUS
        <5> HIDE DEF id, T
        <5> QED BY <5>1, <5>2
      <4> HIDE DEF id, T
      <4> QED BY <4>1, <4>2
    <3>2. S \subseteq T
      BY DEF S
    <3> QED BY <1>1, <3>1, <3>2
  <2>2. /\ id[1] = "dep" /\ id[2] = "_" /\ id[3] = a /\ id[4] = "_" /\ id[5] = b
        /\ label[1] = "dep" /\ label[2] = "-" /\ label[3] = a /\ label[4] = "-" /\ label[5] = b
    BY DEF label
  <2> HIDE DEF id, T
  <2>3. "dep" \notin Separators /\ "_" \in Separators
    BY DEF Separators
  <2>4. \A k \in 1 .. 5 : k = 1 \/ k = 2 \/ k = 3 \/ k = 4 \/ k = 5
    OBVIOUS
  <2>5. \A k \in 1 .. 5 : label[k] = IF id[k] \in Separators THEN "-" ELSE id[k]
    BY <2>2, <2>3, <2>4
  <2>6. \A k \in 1 .. 5 : k + 1 \in 1 .. 5 /\ id[k] \in Separators => id[k + 1] \notin Separators
    <3>1. \A k \in 1 .. 5 : id[k] \in Separators => k = 2 \/ k = 4
      BY <2>2, <2>3, <2>4
    <3>2. id[2 + 1] \notin Separators /\ id[4 + 1] \notin Separators
      <4>1. 2 + 1 = 3 /\ 4 + 1 = 5
        OBVIOUS
      <4>2. id[3] \notin Separators /\ id[5] \notin Separators
        BY <2>2
      <4> QED BY <4>1, <4>2
    <3> QED BY <3>1, <3>2
  <2>7. 5 \in Nat
    OBVIOUS
  <2>8. EachDashed(id, label, 5)
    BY <2>5, <2>6 DEF EachDashed
  <2>9. Dashed(id) = label
    BY <2>1, <2>7, <2>8, DashedEach, Zenon
  <2> QED BY <2>9 DEF id
<1>5. TrimLeft(label) = label
  BY <1>1 DEF TrimLeft
<1>6. TrimRight(label) = label
  <2>1. label[5] # "-" /\ 5 \in Nat /\ 5 # 0
    BY <1>1, <1>3
  <2> QED BY <1>1, <2>1, NotTrimmed
<1>7. Min({LabelBound, Len(label)}) = 5
  <2>1. {LabelBound, Len(label)} = {MaxLabel, 5}
    BY <1>1 DEF LabelBound
  <2>2. {MaxLabel, 5} \subseteq Nat
    OBVIOUS
  <2> DEFINE m == Min({MaxLabel, 5})
  <2>3. m \in {MaxLabel, 5} /\ m =< 5
    <3> DEFINE I == {MaxLabel, 5}
    <3>1. I \subseteq Nat /\ I # {} /\ 5 \in I
      BY <2>2
    <3> HIDE DEF I
    <3>2. Min(I) \in I /\ \A i \in I : Min(I) =< i
      BY <3>1, MinOf
    <3> QED BY <3>1, <3>2 DEF I
  <2> HIDE DEF m
  <2>4. m = 5
    BY <2>3
  <2> QED BY <2>1, <2>4 DEF m
<1>8. SubSeq(label, 1, 5) = label
  BY <1>1
<1>9. sanitizeHostLabel(<<"dep", "_", a, "_", b>>) = label
  BY <1>1, <1>4, <1>5, <1>6, <1>7, <1>8 DEF sanitizeHostLabel
<1>10. IsHostLabel(label)
  BY <1>1, <1>2, <1>3 DEF IsHostLabel
<1> QED BY <1>9, <1>10 DEF label

(***************************************************************************)
(* What is true of every row: what it holds of its request, and that each  *)
(* stage has added what it computes of that.                               *)
(***************************************************************************)

Requested == {"id", "stage", "input", "env", "time", "created_at"}

RowOK(row) ==
  /\ Requested \subseteq DOMAIN row
  /\ row.stage \in Stages
  /\ WellFormed(row.input) /\ Acceptable(row.input)
  /\ row.env \in normalizeEnvVars(row.input.env)
  /\ row.time \in Instants /\ row.created_at = formatTime(row.time)
  /\ row.stage = "failed" => ~IsRepository(row.input.url)
  /\ "key" \in DOMAIN row => row.key = railpackCacheKey(NormalizeGitHubRepoURL(row.input.url))
  /\ "command" \in DOMAIN row => row.command = DetectStartCommand(row.input.tree)
  /\ "hints" \in DOMAIN row => row.hints = Hints(row.input.tree)
  /\ "environ" \in DOMAIN row =>
       row.environ = RunArgs(row.env, Port(detectContainerPort(row.input.image)))
  /\ "mapped" \in DOMAIN row =>
       /\ "environ" \in DOMAIN row
       /\ row.mapped = detectContainerPort(row.input.image)
  /\ "host" \in DOMAIN row => row.host = hostForDeployment(row.id)

\* A stage adds to one row, of a field that no request has, and leaves the
\* others as they were.
LEMMA StageAdds ==
  ASSUME rows \in Seq(Range(rows)), NEW i \in DOMAIN rows, RowOK(rows[i]),
         NEW from, NEW to, NEW computed, DOMAIN computed \cap Requested = {},
         Stage(i, from, to, computed)
  PROVE  /\ rows[i].stage = from
         /\ UNCHANGED <<now, nextID, restarts, todo, refused>>
         /\ rows' \in Seq(Range(rows')) /\ DOMAIN rows' = DOMAIN rows
         /\ \A j \in DOMAIN rows \ {i} : rows'[j] = rows[j]
         /\ DOMAIN rows'[i] = DOMAIN computed \cup DOMAIN rows[i]
         /\ \A x \in DOMAIN computed : rows'[i][x] = computed[x]
         /\ \A x \in DOMAIN rows[i] \ (DOMAIN computed \cup {"stage"}) : rows'[i][x] = rows[i][x]
         /\ rows'[i].id = rows[i].id /\ rows'[i].stage = to /\ rows'[i].input = rows[i].input
         /\ rows'[i].env = rows[i].env /\ rows'[i].time = rows[i].time
         /\ rows'[i].created_at = rows[i].created_at
<1>1. Requested \subseteq DOMAIN rows[i] /\ "stage" \in DOMAIN rows[i]
  BY DEF RowOK, Requested
<1>2. PICK old : old = [rows[i] EXCEPT !.stage = to]
  OBVIOUS
<1>3. DOMAIN old = DOMAIN rows[i] /\ \A x \in DOMAIN rows[i] : old[x] = IF x = "stage" THEN to ELSE rows[i][x]
  BY <1>2
<1>4. PICK next : next = Over(computed, old)
  OBVIOUS
<1>5. next = [x \in DOMAIN computed \cup DOMAIN old |-> IF x \in DOMAIN computed THEN computed[x] ELSE old[x]]
  BY <1>4 DEF Over
<1>6. /\ DOMAIN next = DOMAIN computed \cup DOMAIN rows[i]
      /\ \A x \in DOMAIN computed : next[x] = computed[x]
      /\ \A x \in DOMAIN rows[i] \ DOMAIN computed : next[x] = IF x = "stage" THEN to ELSE rows[i][x]
  BY <1>3, <1>5
<1>7. \A x \in Requested : next[x] = IF x = "stage" THEN to ELSE rows[i][x]
  BY <1>1, <1>6
<1>8. /\ next["id"] = rows[i]["id"] /\ next["stage"] = to /\ next["input"] = rows[i]["input"]
      /\ next["env"] = rows[i]["env"] /\ next["time"] = rows[i]["time"]
      /\ next["created_at"] = rows[i]["created_at"]
  BY <1>7 DEF Requested
<1>9. rows' = [rows EXCEPT ![i] = next]
  BY <1>2, <1>4 DEF Stage
<1>10. Len(rows) \in Nat /\ DOMAIN rows = 1 .. Len(rows)
  BY LenProperties
<1>11. DOMAIN rows' = DOMAIN rows /\ rows'[i] = next /\ \A j \in DOMAIN rows \ {i} : rows'[j] = rows[j]
  BY <1>9
<1>12. rows' = [j \in DOMAIN rows |-> rows'[j]]
  BY <1>9
<1>13. rows' \in Seq(Range(rows'))
  BY <1>12, SameLength
<1>14. rows[i].stage = from /\ UNCHANGED <<now, nextID, restarts, todo, refused>>
  BY DEF Stage
<1> QED BY <1>6, <1>8, <1>11, <1>13, <1>14

\* What it leaves and what it computes is right, so the row is.
LEMMA StageKeeps ==
  ASSUME rows \in Seq(Range(rows)), NEW i \in DOMAIN rows, RowOK(rows[i]),
         NEW from, NEW to \in Stages, NEW computed, DOMAIN computed \cap Requested = {},
         Stage(i, from, to, computed),
         to = "failed" => ~IsRepository(rows[i].input.url),
         "key" \in DOMAIN computed =>
           computed.key = railpackCacheKey(NormalizeGitHubRepoURL(rows[i].input.url)),
         "command" \in DOMAIN computed => computed.command = DetectStartCommand(rows[i].input.tree),
         "hints" \in DOMAIN computed => computed.hints = Hints(rows[i].input.tree),
         "environ" \in DOMAIN computed =>
           computed.environ = RunArgs(rows[i].env, Port(detectContainerPort(rows[i].input.image))),
         "mapped" \in DOMAIN computed =>
           "environ" \in DOMAIN computed /\ computed.mapped = detectContainerPort(rows[i].input.image),
         "host" \in DOMAIN computed => computed.host = hostForDeployment(rows[i].id)
  PROVE  RowOK(rows'[i])
<1> DEFINE row == rows[i]
           next == rows'[i]
<1>1. /\ DOMAIN next = DOMAIN computed \cup DOMAIN row
      /\ \A x \in DOMAIN computed : next[x] = computed[x]
      /\ \A x \in DOMAIN row \ (DOMAIN computed \cup {"stage"}) : next[x] = row[x]
      /\ next.id = row.id /\ next.stage = to /\ next.input = row.input
      /\ next.env = row.env /\ next.time = row.time /\ next.created_at = row.created_at
  BY StageAdds
<1> HIDE DEF row, next
<1>2. RowOK(row)
  BY DEF row
<1>3. /\ Requested \subseteq DOMAIN next /\ next.stage \in Stages
      /\ WellFormed(next.input) /\ Acceptable(next.input)
      /\ next.env \in normalizeEnvVars(next.input.env)
      /\ next.time \in Instants /\ next.created_at = formatTime(next.time)
      /\ next.stage = "failed" => ~IsRepository(next.input.url)
  BY <1>1, <1>2 DEF RowOK, row
<1>4. "key" \in DOMAIN next => next.key = railpackCacheKey(NormalizeGitHubRepoURL(next.input.url))
  BY <1>1, <1>2 DEF RowOK, row
<1>5. "command" \in DOMAIN next => next.command = DetectStartCommand(next.input.tree)
  BY <1>1, <1>2 DEF RowOK, row
<1>6. "hints" \in DOMAIN next => next.hints = Hints(next.input.tree)
  BY <1>1, <1>2 DEF RowOK, row
<1>7. "environ" \in DOMAIN next =>
        next.environ = RunArgs(next.env, Port(detectContainerPort(next.input.image)))
  BY <1>1, <1>2 DEF RowOK, row
<1>8. "mapped" \in DOMAIN next =>
        "environ" \in DOMAIN next /\ next.mapped = detectContainerPort(next.input.image)
  BY <1>1, <1>2 DEF RowOK, row
<1>9. "host" \in DOMAIN next => next.host = hostForDeployment(next.id)
  BY <1>1, <1>2 DEF RowOK, row
<1> QED BY <1>3, <1>4, <1>5, <1>6, <1>7, <1>8, <1>9 DEF RowOK, next

DataInv ==
  /\ now \in Instants /\ nextID \in Nat /\ restarts \in 0 .. MaxRestarts
  /\ todo \in Seq(Range(todo)) /\ \A input \in Range(todo) : WellFormed(input)
  /\ rows \in Seq(Range(rows)) /\ \A i \in DOMAIN rows : RowOK(rows[i])

\* Times are numbers whose seconds have two digits.
LEMMA InstantsAre ==
  ASSUME NEW time \in Instants
  PROVE  time \in Nat /\ time =< 9999
<1>1. LastTick = 9999
  BY DEF LastTick
<1>2. time \in 0 .. LastTick
  BY DataAssumption
<1> HIDE DEF LastTick
<1> QED BY <1>1, <1>2

\* The empty sequence.
LEMMA NothingIn ==
  <<>> \in Seq(Range(<<>>)) /\ Range(<<>>) = {} /\ DOMAIN <<>> = {}
BY DEF Range

\* Initially there is no row.
LEMMA DataInit ==
  ASSUME Init
  PROVE  DataInv
<1>1. now \in Instants /\ nextID = 0 /\ restarts = 0 /\ todo \in Inputs /\ rows = <<>>
  BY DEF Init
<1>2. todo \in Seq(Range(todo)) /\ \A input \in Range(todo) : WellFormed(input)
  BY <1>1, DataAssumption
<1>3. rows \in Seq(Range(rows)) /\ \A i \in DOMAIN rows : RowOK(rows[i])
  BY <1>1, NothingIn
<1>4. restarts \in 0 .. MaxRestarts /\ nextID \in Nat
  BY <1>1, DataAssumption
<1> QED BY <1>1, <1>2, <1>3, <1>4 DEF DataInv

\* The rows of a restart.
LEMMA RestartKeeps ==
  ASSUME DataInv, Restart
  PROVE  /\ rows' \in Seq(Range(rows')) /\ DOMAIN rows' = DOMAIN rows
         /\ \A i \in DOMAIN rows :
              RowOK(rows'[i]) /\ rows'[i].id = rows[i].id /\ rows'[i].time = rows[i].time
<1> DEFINE To(i) == IF rows[i].stage \in Final THEN rows[i].stage ELSE "abandoned"
<1>1. rows' = [i \in DOMAIN rows |-> [rows[i] EXCEPT !.stage = To(i)]]
  BY DEF Restart
<1>2. DOMAIN rows' = DOMAIN rows /\ \A i \in DOMAIN rows : rows'[i] = [rows[i] EXCEPT !.stage = To(i)]
  BY <1>1
<1>3. rows' = [i \in DOMAIN rows |-> rows'[i]]
  BY <1>1
<1>4. rows' \in Seq(Range(rows'))
  BY <1>3, SameLength DEF DataInv
<1>5. ASSUME NEW i \in DOMAIN rows
      PROVE  RowOK(rows'[i]) /\ rows'[i].id = rows[i].id /\ rows'[i].time = rows[i].time
  <2> DEFINE row == rows[i]
             next == rows'[i]
             to == To(i)
  <2>1. RowOK(row)
    BY DEF DataInv
  <2>2. to \in Stages /\ (to = "failed" => row.stage = "failed")
    BY <2>1 DEF RowOK, Final, Stages
  <2>3. next = [row EXCEPT !.stage = to]
    BY <1>2
  <2> HIDE DEF row, next, to
  <2>4. /\ DOMAIN next = DOMAIN row
        /\ \A x \in DOMAIN row : next[x] = IF x = "stage" THEN to ELSE row[x]
    BY <2>3
  <2>5. /\ next["id"] = row["id"] /\ next["stage"] = to /\ next["input"] = row["input"]
        /\ next["env"] = row["env"] /\ next["time"] = row["time"]
        /\ next["created_at"] = row["created_at"]
    <3>1. Requested \subseteq DOMAIN row
      BY <2>1 DEF RowOK
    <3> QED BY <2>4, <3>1 DEF Requested
  <2>6. /\ "key" \in DOMAIN row => next["key"] = row["key"]
        /\ "command" \in DOMAIN row => next["command"] = row["command"]
        /\ "hints" \in DOMAIN row => next["hints"] = row["hints"]
        /\ "environ" \in DOMAIN row => next["environ"] = row["environ"]
        /\ "mapped" \in DOMAIN row => next["mapped"] = row["mapped"]
        /\ "host" \in DOMAIN row => next["host"] = row["host"]
    BY <2>4
  <2>7. RowOK(next)
    BY <2>1, <2>2, <2>4, <2>5, <2>6 DEF RowOK
  <2> QED BY <2>5, <2>7 DEF row, next
<1> QED BY <1>2, <1>4, <1>5

\* The row of a request.
LEMMA CreateKeeps ==
  ASSUME DataInv, Create
  PROVE  /\ todo' \in Seq(Range(todo')) /\ \A input \in Range(todo') : WellFormed(input)
         /\ nextID' \in Nat /\ now' = now /\ restarts' = restarts
         /\ rows' \in Seq(Range(rows')) /\ \A i \in DOMAIN rows' : RowOK(rows'[i])
<1> DEFINE input == Head(todo)
           id == generateID(now, nextID + 1)
           Made(env) == [id |-> id, stage |-> "pending", input |-> input,
                         env |-> env, time |-> now, created_at |-> formatTime(now)]
<1>1. /\ todo # <<>> /\ todo' = Tail(todo)
      /\ nextID' = IF Acceptable(input) THEN nextID + 1 ELSE nextID
      /\ now' = now /\ restarts' = restarts
      /\ \/ UNCHANGED rows
         \/ /\ Acceptable(input)
            /\ \E env \in normalizeEnvVars(input.env) : rows' = Append(rows, Made(env))
  BY DEF Create
<1>2. nextID' \in Nat
  BY <1>1 DEF DataInv
<1>3. todo' \in Seq(Range(todo')) /\ Range(todo') \subseteq Range(todo) /\ input \in Range(todo)
  BY <1>1, TailOf DEF DataInv
<1>4. \A other \in Range(todo') : WellFormed(other)
  BY <1>3 DEF DataInv
<1>5. CASE UNCHANGED rows
  BY <1>1, <1>2, <1>3, <1>4, <1>5 DEF DataInv
<1>6. ASSUME Acceptable(input), NEW env \in normalizeEnvVars(input.env), rows' = Append(rows, Made(env))
      PROVE  rows' \in Seq(Range(rows')) /\ \A i \in DOMAIN rows' : RowOK(rows'[i])
  <2>1. RowOK(Made(env))
    <3>1. WellFormed(input) /\ now \in Instants
      BY <1>3 DEF DataInv
    <3> HIDE DEF input, id
    <3>2. DOMAIN Made(env) = Requested
      BY DEF Requested
    <3>3. "pending" \in Stages
      BY DEF Stages
    <3> QED BY <1>6, <3>1, <3>2, <3>3 DEF RowOK, Requested
  <2> HIDE DEF Made
  <2>2. rows' \in Seq(Range(rows')) /\ Range(rows') = Range(rows) \cup {Made(env)}
    BY <1>6, AppendTo DEF DataInv
  <2>3. \A row \in Range(rows) : RowOK(row)
    BY DEF DataInv, Range
  <2>4. \A i \in DOMAIN rows' : rows'[i] \in Range(rows')
    BY DEF Range
  <2> QED BY <2>1, <2>2, <2>3, <2>4
<1> HIDE DEF input, Made
<1> QED BY <1>1, <1>2, <1>3, <1>4, <1>5, <1>6

\* Each stage computes what RowOK says of it.
LEMMA StagesKeep ==
  ASSUME DataInv, NEW i \in DOMAIN rows,
         Validate(i) \/ inspectDeploymentSource(i) \/ Start(i) \/ Route(i)
  PROVE  /\ UNCHANGED <<now, nextID, restarts, todo, refused>>
         /\ rows' \in Seq(Range(rows')) /\ DOMAIN rows' = DOMAIN rows
         /\ \A j \in DOMAIN rows :
              RowOK(rows'[j]) /\ rows'[j].id = rows[j].id /\ rows'[j].time = rows[j].time
<1> DEFINE row == rows[i]
           url == NormalizeGitHubRepoURL(row.input.url)
           port == detectContainerPort(row.input.image)
           Kept == /\ UNCHANGED <<now, nextID, restarts, todo, refused>>
                   /\ rows' \in Seq(Range(rows')) /\ DOMAIN rows' = DOMAIN rows
                   /\ \A j \in DOMAIN rows :
                        RowOK(rows'[j]) /\ rows'[j].id = rows[j].id /\ rows'[j].time = rows[j].time
<1>1. rows \in Seq(Range(rows)) /\ \A j \in DOMAIN rows : RowOK(rows[j])
  BY DEF DataInv
<1>2. ASSUME NEW from, NEW to, NEW computed, DOMAIN computed \cap Requested = {},
             Stage(i, from, to, computed), RowOK(rows'[i])
      PROVE  Kept
  <2>1. /\ UNCHANGED <<now, nextID, restarts, todo, refused>>
        /\ rows' \in Seq(Range(rows')) /\ DOMAIN rows' = DOMAIN rows
        /\ \A j \in DOMAIN rows \ {i} : rows'[j] = rows[j]
        /\ rows'[i].id = rows[i].id /\ rows'[i].time = rows[i].time
    BY <1>1, <1>2, StageAdds
  <2> QED BY <1>1, <1>2, <2>1
<1> HIDE DEF Kept
<1>3. ASSUME Validate(i) PROVE Kept
  <2>1. CASE ValidateGitHubRepoURL(url)
    <3>1. PICK computed : computed = [url |-> url, key |-> railpackCacheKey(url)]
      OBVIOUS
    <3>2. Stage(i, "pending", "validated", computed)
      BY <1>3, <2>1, <3>1 DEF Validate
    <3> HIDE DEF url
    <3>3. DOMAIN computed = {"url", "key"} /\ computed.key = railpackCacheKey(url)
      BY <3>1
    <3>4. DOMAIN computed \cap Requested = {} /\ "validated" \in Stages
      BY <3>3 DEF Requested, Stages
    <3>5. RowOK(rows'[i])
      BY <1>1, <3>2, <3>3, <3>4, StageKeeps DEF url
    <3> QED BY <1>2, <3>2, <3>4, <3>5
  <2>2. CASE ~ValidateGitHubRepoURL(url)
    <3>1. PICK computed : computed = <<>>
      OBVIOUS
    <3>2. Stage(i, "pending", "failed", computed)
      BY <1>3, <2>2, <3>1 DEF Validate
    <3>3. DOMAIN computed = {}
      BY <3>1, NothingIn
    <3>4. ~IsRepository(row.input.url)
      <4>1. row.input.url \in URL
        BY <1>1 DEF RowOK, WellFormed, URL
      <4> QED BY <2>2, <4>1, RepositoryNormalized
    <3>5. DOMAIN computed \cap Requested = {} /\ "failed" \in Stages
      BY <3>3 DEF Stages, Final
    <3>6. RowOK(rows'[i])
      BY <1>1, <3>2, <3>3, <3>4, <3>5, StageKeeps
    <3> QED BY <1>2, <3>2, <3>5, <3>6
  <2> QED BY <2>1, <2>2
<1>4. ASSUME inspectDeploymentSource(i) PROVE Kept
  <2>1. PICK computed : computed = Inspect(row.input.tree)
    OBVIOUS
  <2>2. Stage(i, "validated", "inspected", computed)
    BY <1>4, <2>1 DEF inspectDeploymentSource
  <2>3. /\ DOMAIN computed = {"type", "command", "hints"}
        /\ computed.command = DetectStartCommand(row.input.tree)
        /\ computed.hints = Hints(row.input.tree)
    BY <2>1 DEF Inspect
  <2>4. DOMAIN computed \cap Requested = {} /\ "inspected" \in Stages
    BY <2>3 DEF Requested, Stages
  <2>5. RowOK(rows'[i])
    BY <1>1, <2>2, <2>3, <2>4, StageKeeps
  <2> QED BY <1>2, <2>2, <2>4, <2>5
<1>5. ASSUME Start(i) PROVE Kept
  <2>1. PICK computed : computed = [environ |-> RunArgs(row.env, Port(port)), mapped |-> port]
    OBVIOUS
  <2>2. Stage(i, "inspected", "started", computed)
    BY <1>5, <2>1 DEF Start
  <2> HIDE DEF port
  <2>3. /\ DOMAIN computed = {"environ", "mapped"}
        /\ computed.environ = RunArgs(row.env, Port(port)) /\ computed.mapped = port
    BY <2>1
  <2>4. DOMAIN computed \cap Requested = {} /\ "started" \in Stages
    BY <2>3 DEF Requested, Stages
  <2>5. RowOK(rows'[i])
    BY <1>1, <2>2, <2>3, <2>4, StageKeeps DEF port
  <2> QED BY <1>2, <2>2, <2>4, <2>5
<1>6. ASSUME Route(i) PROVE Kept
  <2>1. PICK computed : computed = [host |-> hostForDeployment(row.id)]
    OBVIOUS
  <2>2. Stage(i, "started", "routed", computed)
    BY <1>6, <2>1 DEF Route
  <2>3. DOMAIN computed = {"host"} /\ computed.host = hostForDeployment(row.id)
    BY <2>1
  <2>4. DOMAIN computed \cap Requested = {} /\ "routed" \in Stages
    BY <2>3 DEF Requested, Stages, Final
  <2>5. RowOK(rows'[i])
    BY <1>1, <2>2, <2>3, <2>4, StageKeeps
  <2> QED BY <1>2, <2>2, <2>4, <2>5
<1>7. Kept
  BY <1>3, <1>4, <1>5, <1>6
<1> QED BY <1>7 DEF Kept

\* DataInv is inductive.
LEMMA DataStep ==
  ASSUME DataInv, [Next]_dataVars
  PROVE  DataInv'
<1>1. CASE Tick
  BY <1>1 DEF Tick, DataInv
<1>2. CASE Restart
  <2>1. /\ now' \in Instants /\ nextID' \in Nat /\ restarts' \in 0 .. MaxRestarts /\ todo' = todo
    BY <1>2, DataAssumption DEF Restart, DataInv
  <2>2. rows' \in Seq(Range(rows')) /\ \A i \in DOMAIN rows' : RowOK(rows'[i])
    BY <1>2, RestartKeeps
  <2> QED BY <2>1, <2>2 DEF DataInv
<1>3. CASE Create
  <2>1. /\ todo' \in Seq(Range(todo')) /\ \A input \in Range(todo') : WellFormed(input)
        /\ nextID' \in Nat /\ now' = now /\ restarts' = restarts
        /\ rows' \in Seq(Range(rows')) /\ \A i \in DOMAIN rows' : RowOK(rows'[i])
    BY <1>3, CreateKeeps
  <2> QED BY <2>1 DEF DataInv
<1>4. ASSUME NEW i \in DOMAIN rows,
             Validate(i) \/ inspectDeploymentSource(i) \/ Start(i) \/ Route(i)
      PROVE  DataInv'
  <2>1. /\ UNCHANGED <<now, nextID, restarts, todo>>
        /\ rows' \in Seq(Range(rows')) /\ \A j \in DOMAIN rows' : RowOK(rows'[j])
    BY <1>4, StagesKeep
  <2> QED BY <2>1 DEF DataInv
<1>5. CASE UNCHANGED dataVars
  BY <1>5 DEF dataVars, DataInv
<1> QED BY <1>1, <1>2, <1>3, <1>4, <1>5 DEF Next, AwaitRequests

(* Every row holds its request, and what each stage has computed of it.     *)
THEOREM DataCorrect == Spec => []DataInv
<1>1. Init => DataInv
  BY DataInit
<1>2. DataInv /\ [Next]_dataVars => DataInv'
  BY DataStep
<1> QED BY <1>1, <1>2, PTL DEF Spec

(***************************************************************************)
(* The properties of the rows, which follow from what is true of each.     *)
(***************************************************************************)

\* The rows of a property are those of DataInv.
LEMMA RowsAre ==
  ASSUME DataInv
  PROVE  /\ \A row \in Row : RowOK(row)
         /\ \A field : \A row \in Reached(field) : row \in Row /\ field \in DOMAIN row
BY DEF DataInv, Row, Reached, Range

\* The types of the clock, of the counters and of what is computed: texts of
\* times are of their bytes, names of variables are of the pattern, and the
\* port that docker maps is a port.
LEMMA DataInvType ==
  ASSUME DataInv
  PROVE  DataTypeOK
<1>1. now \in Instants /\ restarts \in 0 .. MaxRestarts /\ nextID \in Nat
  BY DEF DataInv
<1>2. ASSUME NEW row \in Row
      PROVE  /\ row.stage \in Stages
             /\ Range(row.created_at) \subseteq -1 .. 10
             /\ DOMAIN row.env \subseteq GoodNames
  <2>1. RowOK(row)
    BY RowsAre
  <2>2. row.stage \in Stages
    BY <2>1 DEF RowOK
  <2>3. row.created_at \in Seq(-1 .. 10)
    <3>1. row.time \in Instants /\ row.created_at = formatTime(row.time)
      BY <2>1 DEF RowOK
    <3>2. row.time \in Nat /\ row.time =< 9999
      BY <3>1, InstantsAre
    <3> QED BY <3>1, <3>2, TextOf
  <2>4. Range(row.created_at) \subseteq -1 .. 10
    <3> DEFINE text == row.created_at
               Byte == -1 .. 10
    <3>1. text \in Seq(Byte)
      BY <2>3
    <3> HIDE DEF text, Byte
    <3>2. Range(text) \subseteq Byte
      BY <3>1, LenProperties DEF Range
    <3> QED BY <3>2 DEF text, Byte
  <2>5. DOMAIN row.env \subseteq GoodNames
    <3>1. row.env \in normalizeEnvVars(row.input.env) /\ EnvVarsAllowed(row.input.env)
      BY <2>1 DEF RowOK, Acceptable
    <3> QED BY <3>1, NamesAllowed
  <2> QED BY <2>2, <2>4, <2>5
<1>3. ASSUME NEW row \in Reached("command")
      PROVE  row.command = NoCommand \/ Len(row.command) = 2
  <2>1. RowOK(row) /\ row.command = DetectStartCommand(row.input.tree) /\ IsTree(row.input.tree)
    BY RowsAre DEF RowOK, WellFormed
  <2>2. Best(row.input.tree, row.command)
    BY <2>1, StartCommandBest
  <2>3. ASSUME row.command # NoCommand
        PROVE  Len(row.command) = 2
    <3> DEFINE modules == Range(Candidates) \cup
                            {project.name : project \in Range(row.input.tree.projects)}
    <3>1. row.command \in Startable(row.input.tree)
      BY <2>2, <2>3 DEF Best
    <3>2. row.command \in Range(Frameworks) \X modules
      BY <3>1 DEF Startable
    <3> HIDE DEF modules
    <3> QED BY <3>2
  <2> QED BY <2>3
<1>4. ASSUME NEW row \in Reached("mapped")
      PROVE  row.mapped \in Ports
  <2>1. RowOK(row) /\ row.mapped = detectContainerPort(row.input.image)
    BY RowsAre DEF RowOK
  <2>2. /\ row.input.image.listens \in Ports
        /\ \A exposed \in row.input.image.exposed : exposed[1] \in Ports \cup {0}
    BY <2>1 DEF RowOK, WellFormed
  <2> QED BY <2>1, <2>2, PortOf
<1> QED BY <1>1, <1>2, <1>3, <1>4 DEF DataTypeOK

(* Type correctness: what parsing, formatting and inspecting leave in a row *)
(* has the form that the next stage takes.                                  *)
THEOREM DataTypeCorrect == Spec => []DataTypeOK
<1>1. DataInv => DataTypeOK
  BY DataInvType
<1> QED BY <1>1, DataCorrect, PTL

(* ListDeployments gives the deployments of different seconds in the order  *)
(* of their times, although it compares the texts of RFC3339Nano, which are *)
(* of different lengths.                                                    *)
THEOREM ListedCorrect == Spec => []ListedByTime
<1>1. ASSUME DataInv
      PROVE  ListedByTime
  <2>1. ASSUME NEW r \in Row, NEW s \in Row, Second(r.time) < Second(s.time)
        PROVE  TextLess(r.created_at, s.created_at)
    <3>1. /\ r.time \in Instants /\ r.created_at = formatTime(r.time)
          /\ s.time \in Instants /\ s.created_at = formatTime(s.time)
      BY <1>1, RowsAre DEF RowOK
    <3>2. /\ r.time \in Nat /\ r.time =< 9999
          /\ s.time \in Nat /\ s.time =< 9999
      BY <3>1, InstantsAre
    <3> QED BY <2>1, <3>1, <3>2, TextInOrder
  <2> QED BY <2>1 DEF ListedByTime
<1> QED BY <1>1, DataCorrect, PTL

(* docker run gives the container the variables of the request, whatever    *)
(* white space their names had, and PORT besides.                           *)
THEOREM EnvCorrect == Spec => []EnvDelivered
<1>1. ASSUME DataInv
      PROVE  EnvDelivered
  <2>1. ASSUME NEW row \in Reached("environ")
        PROVE  LET submitted == row.input.env
                   names == NamesOf(submitted)
               IN  /\ DOMAIN row.environ = names \cup {"PORT"}
                   /\ \A name \in names :
                        \E raw \in DOMAIN submitted :
                          raw.name = name /\ row.environ[name] = submitted[raw]
    <3>1. /\ row.env \in normalizeEnvVars(row.input.env)
          /\ row.environ = RunArgs(row.env, Port(detectContainerPort(row.input.image)))
      BY <1>1, RowsAre DEF RowOK
    <3>2. EnvironIs(row.input.env, row.env, Port(detectContainerPort(row.input.image)), row.environ)
      BY <3>1, EnvironOf
    <3> QED BY <3>2 DEF EnvironIs
  <2> QED BY <2>1 DEF EnvDelivered, NamesOf
<1> QED BY <1>1, DataCorrect, PTL

(* An application that keeps the README's promise is reached through the    *)
(* port that the runtime detects and maps.                                  *)
THEOREM ReachableCorrect == Spec => []AppReachable
<1>1. ASSUME DataInv
      PROVE  AppReachable
  <2>1. ASSUME NEW row \in Reached("mapped"), KeepsPromise(row), "PORT" \notin DOMAIN row.env
        PROVE  ListensOn(row) = row.mapped
    <3> DEFINE image == row.input.image
               port == detectContainerPort(image)
    <3>1. /\ row.mapped = port
          /\ row.env \in normalizeEnvVars(row.input.env)
          /\ row.environ = RunArgs(row.env, Port(port))
          /\ WellFormed(row.input)
      BY <1>1, RowsAre DEF RowOK
    <3>2. /\ image.listens \in Ports
          /\ \A exposed \in image.exposed : exposed[1] \in Ports \cup {0}
      BY <3>1 DEF WellFormed
    <3>3. row.environ["PORT"] = port
      <4> HIDE DEF port
      <4>1. Port(port) = port
        BY DEF Port
      <4>2. EnvironIs(row.input.env, row.env, port, row.environ)
        BY <3>1, <4>1, EnvironOf
      <4> QED BY <2>1, <4>2 DEF EnvironIs
    <3>4. ASSUME ~(row.command # NoCommand \/ image.obeys)
          PROVE  image.listens = port
      <4>1. \/ image.inspected /\ image.exposed = {<<image.listens, "tcp">>}
            \/ image.exposed = {} /\ image.listens = DefaultPort
        BY <2>1, <3>4 DEF KeepsPromise
      <4> HIDE DEF image
      <4> QED BY <3>2, <4>1, PortOf
    <3> HIDE DEF port
    <3> QED BY <3>1, <3>3, <3>4 DEF ListensOn
  <2> QED BY <2>1 DEF AppReachable
<1> QED BY <1>1, DataCorrect, PTL

(* Builds of one repository share a cache, and builds of two never do,      *)
(* however the URL is spelled.                                              *)
THEOREM CacheKeyCorrect == Spec => []CacheKeyPerRepo
<1>1. ASSUME DataInv
      PROVE  CacheKeyPerRepo
  <2> DEFINE Key(name) == [github |-> TRUE, name |-> name, tail |-> <<>>]
  <2>1. ASSUME NEW r \in Reached("key"), IsRepository(r.input.url)
        PROVE  r.key = Key(Lower[r.input.url.name])
    <3>1. /\ r.key = railpackCacheKey(NormalizeGitHubRepoURL(r.input.url))
          /\ r.input.url \in URL
      BY <1>1, RowsAre DEF RowOK, WellFormed, URL
    <3> QED BY <2>1, <3>1, RepositoryKey
  <2>2. \A m, n : Key(m) = Key(n) <=> m = n
    <3>1. \A m : Key(m).name = m
      OBVIOUS
    <3> QED BY <3>1
  <2> HIDE DEF Key
  <2> QED BY <2>1, <2>2 DEF CacheKeyPerRepo
<1> QED BY <1>1, DataCorrect, PTL

(* A start command is inferred if and only if the repository has one, and   *)
(* it is of the first framework that it has one of.                         *)
THEOREM StartCommandCorrect == Spec => []StartCommandIsBest
<1>1. ASSUME DataInv
      PROVE  StartCommandIsBest
  <2>1. ASSUME NEW row \in Reached("command")
        PROVE  Best(row.input.tree, row.command)
    <3>1. row.command = DetectStartCommand(row.input.tree) /\ IsTree(row.input.tree)
      BY <1>1, RowsAre DEF RowOK, WellFormed
    <3> QED BY <3>1, StartCommandBest
  <2> QED BY <2>1 DEF StartCommandIsBest, Best
<1> QED BY <1>1, DataCorrect, PTL

(* Every hint comes from a file that may be read, and all are found while   *)
(* there are no more such files than the walk reads.                        *)
THEOREM HintsCorrect == Spec => []HintsAgree
<1>1. ASSUME DataInv
      PROVE  HintsAgree
  <2>1. ASSUME NEW row \in Reached("hints")
        PROVE  Agree(row.input.tree, row.hints)
    <3>1. row.hints = Hints(row.input.tree) /\ IsTree(row.input.tree)
      BY <1>1, RowsAre DEF RowOK, WellFormed
    <3> QED BY <3>1, HintsAre
  <2> QED BY <2>1 DEF HintsAgree, Agree
<1> QED BY <1>1, DataCorrect, PTL

(***************************************************************************)
(* IDs.  ToString stands for fmt's %d, of which it is enough that it tells *)
(* numbers apart.                                                          *)
(***************************************************************************)

Texts == \A m, n \in Nat : ToString(m) = ToString(n) => m = n

\* The ID of a row has a number that its process has given out in the
\* milliseconds of its time, which do not come again once they are over.
IDOK(row, clock, count) ==
  \E n \in Nat :
    /\ row.id = generateID(row.time, n)
    /\ row.time =< clock
    /\ Milli(row.time) < Milli(clock) \/ n =< count

IDInv ==
  /\ refused \in Seq(Range(refused)) /\ \A input \in Range(refused) : ~Acceptable(input)
  /\ \A i \in DOMAIN rows : IDOK(rows[i], now, nextID)

\* Milliseconds are in the order of the times.
LEMMA MilliOrder ==
  ASSUME NEW m \in Nat, NEW n \in Nat
  PROVE  /\ Milli(m) \in Nat /\ Milli(n) \in Nat
         /\ m =< n => Milli(m) =< Milli(n)
BY DEF Milli

\* A clock that goes on leaves the numbers of a process what they were.
LEMMA LaterOK ==
  ASSUME NEW clock \in Nat, NEW count \in Nat, NEW clock2 \in Nat, NEW count2 \in Nat,
         NEW row, row.time \in Nat, IDOK(row, clock, count),
         \/ clock =< clock2 /\ count =< count2
         \/ Milli(clock) < Milli(clock2),
         NEW row2, row2.id = row.id, row2.time = row.time
  PROVE  IDOK(row2, clock2, count2)
<1>1. PICK n \in Nat : /\ row.id = generateID(row.time, n)
                       /\ row.time =< clock
                       /\ Milli(row.time) < Milli(clock) \/ n =< count
  BY DEF IDOK
<1>2. /\ Milli(clock) \in Nat /\ Milli(clock2) \in Nat /\ Milli(row.time) \in Nat
      /\ Milli(row.time) =< Milli(clock)
      /\ clock =< clock2 => Milli(clock) =< Milli(clock2)
      /\ clock2 =< clock => Milli(clock2) =< Milli(clock)
  BY <1>1, MilliOrder
<1>3. /\ row.time =< clock2
      /\ Milli(row.time) < Milli(clock2) \/ n =< count2
  BY <1>1, <1>2
<1>4. row2.id = generateID(row2.time, n)
  BY <1>1
<1> QED BY <1>3, <1>4 DEF IDOK

\* No row has the ID that is given out next.
LEMMA NextIDFree ==
  ASSUME Texts, DataInv, IDInv, NEW i \in DOMAIN rows
  PROVE  rows[i].id # generateID(now, nextID + 1)
<1>1. PICK n \in Nat : /\ rows[i].id = generateID(rows[i].time, n)
                       /\ rows[i].time =< now
                       /\ Milli(rows[i].time) < Milli(now) \/ n =< nextID
  BY DEF IDInv, IDOK
<1>2. now \in Nat /\ rows[i].time \in Nat /\ nextID \in Nat
  BY InstantsAre DEF DataInv, RowOK
<1>3. Milli(now) \in Nat /\ Milli(rows[i].time) \in Nat
  BY <1>2, MilliOrder
<1>4. ASSUME rows[i].id = generateID(now, nextID + 1)
      PROVE  FALSE
  <2>1. /\ ToString(Milli(rows[i].time)) = ToString(Milli(now))
        /\ ToString(n) = ToString(nextID + 1)
    <3>1. \A a, b : /\ <<"dep", "_", a, "_", b>>[3] = a
                    /\ <<"dep", "_", a, "_", b>>[5] = b
      OBVIOUS
    <3>2. \A time, count : /\ generateID(time, count)[3] = ToString(Milli(time))
                           /\ generateID(time, count)[5] = ToString(count)
      BY <3>1, Zenon DEF generateID
    <3>3. generateID(rows[i].time, n) = generateID(now, nextID + 1)
      BY <1>1, <1>4
    <3>4. /\ generateID(rows[i].time, n)[3] = ToString(Milli(rows[i].time))
          /\ generateID(rows[i].time, n)[5] = ToString(n)
      BY <3>2, ZenonT(30)
    <3>5. /\ generateID(now, nextID + 1)[3] = ToString(Milli(now))
          /\ generateID(now, nextID + 1)[5] = ToString(nextID + 1)
      BY <3>2, ZenonT(30)
    <3> QED BY <3>3, <3>4, <3>5, ZenonT(30)
  <2>2. nextID + 1 \in Nat
    BY <1>2
  <2>3. Milli(rows[i].time) = Milli(now) /\ n = nextID + 1
    BY <1>3, <2>1, <2>2 DEF Texts
  <2> QED BY <1>1, <1>2, <1>3, <2>3
<1> QED BY <1>4

\* IDInv is inductive, relative to DataInv.
LEMMA IDStep ==
  ASSUME Texts, DataInv, DataInv', IDInv, [Next]_dataVars
  PROVE  IDInv'
<1>1. /\ now \in Instants /\ now' \in Instants /\ nextID \in Nat /\ nextID' \in Nat
      /\ \A i \in DOMAIN rows : rows[i].time \in Instants /\ IDOK(rows[i], now, nextID)
  BY DEF DataInv, IDInv, RowOK
<1>2. now \in Nat /\ now' \in Nat /\ \A i \in DOMAIN rows : rows[i].time \in Nat
  BY <1>1, InstantsAre
<1>3. ASSUME refused' = refused, DOMAIN rows' = DOMAIN rows,
             \A i \in DOMAIN rows : rows'[i].id = rows[i].id /\ rows'[i].time = rows[i].time,
             \/ now =< now' /\ nextID =< nextID'
             \/ Milli(now) < Milli(now')
      PROVE  IDInv'
  <2>1. ASSUME NEW i \in DOMAIN rows PROVE IDOK(rows'[i], now', nextID')
    BY <1>1, <1>2, <1>3, LaterOK
  <2> QED BY <1>3, <2>1 DEF IDInv
<1>4. CASE Tick
  BY <1>1, <1>2, <1>3, <1>4 DEF Tick
<1>5. CASE Restart
  <2>1. refused' = refused /\ Milli(now) < Milli(now')
    <3>1. \E later \in Instants : Milli(later) > Milli(now) /\ now' = later
      BY <1>5 DEF Restart
    <3>2. Milli(now) \in Nat /\ Milli(now') \in Nat
      BY <1>2, MilliOrder
    <3> QED BY <1>5, <3>1, <3>2 DEF Restart
  <2> QED BY <1>3, <1>5, <2>1, RestartKeeps
<1>6. CASE Create
  <2> DEFINE input == Head(todo)
             id == generateID(now, nextID + 1)
             Made(env) == [id |-> id, stage |-> "pending", input |-> input,
                           env |-> env, time |-> now, created_at |-> formatTime(now)]
  <2>1. /\ now' = now /\ nextID' = IF Acceptable(input) THEN nextID + 1 ELSE nextID
        /\ \/ ~Acceptable(input) /\ refused' = Append(refused, input) /\ UNCHANGED rows
           \/ /\ Acceptable(input) /\ UNCHANGED refused
              /\ \E env \in normalizeEnvVars(input.env) : rows' = Append(rows, Made(env))
    <3>1. ~(\E i \in DOMAIN rows : rows[i].id = id)
      BY NextIDFree
    <3> HIDE DEF id
    <3> QED BY <1>6, <3>1 DEF Create, id
  <2> HIDE DEF input, id
  <2>2. now =< now' /\ nextID =< nextID'
    BY <1>1, <1>2, <2>1
  <2>3. ASSUME NEW i \in DOMAIN rows, NEW row2, row2 = rows[i]
        PROVE  IDOK(row2, now', nextID')
    BY <1>1, <1>2, <2>2, <2>3, LaterOK
  <2>4. CASE ~Acceptable(input) /\ refused' = Append(refused, input) /\ UNCHANGED rows
    <3>1. refused' \in Seq(Range(refused')) /\ Range(refused') = Range(refused) \cup {input}
      BY <2>4, AppendTo DEF IDInv
    <3> QED BY <2>3, <2>4, <3>1 DEF IDInv
  <2>5. ASSUME Acceptable(input), UNCHANGED refused, NEW env, rows' = Append(rows, Made(env))
        PROVE  IDInv'
    <3>1. /\ Len(rows) \in Nat /\ DOMAIN rows = 1 .. Len(rows)
          /\ rows \in Seq(Range(rows))
      BY LenProperties DEF DataInv
    <3>2. IDOK(Made(env), now', nextID')
      <4>1. Made(env).id = generateID(now, nextID + 1) /\ Made(env).time = now
        BY DEF id
      <4>2. nextID' = nextID + 1 /\ now' = now
        BY <2>1, <2>5
      <4> HIDE DEF Made
      <4> QED BY <1>1, <1>2, <4>1, <4>2 DEF IDOK
    <3> DEFINE made == Made(env)
    <3> HIDE DEF made, Made
    <3>3. /\ DOMAIN rows' = 1 .. (Len(rows) + 1)
          /\ \A i \in 1 .. Len(rows) : rows'[i] = rows[i]
          /\ rows'[Len(rows) + 1] = made
      BY <2>5, <3>1 DEF made
    <3>4. ASSUME NEW i \in DOMAIN rows'
          PROVE  IDOK(rows'[i], now', nextID')
      <4>1. CASE i \in DOMAIN rows
        BY <2>3, <3>1, <3>3, <4>1
      <4>2. CASE i = Len(rows) + 1
        BY <3>2, <3>3, <4>2 DEF made
      <4> QED BY <3>1, <3>3, <4>1, <4>2
    <3> QED BY <2>5, <3>4 DEF IDInv
  <2> HIDE DEF Made
  <2> QED BY <2>1, <2>4, <2>5
<1>7. ASSUME NEW i \in DOMAIN rows,
             Validate(i) \/ inspectDeploymentSource(i) \/ Start(i) \/ Route(i)
      PROVE  IDInv'
  <2>1. /\ UNCHANGED <<now, nextID, refused>> /\ DOMAIN rows' = DOMAIN rows
        /\ \A j \in DOMAIN rows : rows'[j].id = rows[j].id /\ rows'[j].time = rows[j].time
    BY <1>7, StagesKeep
  <2> QED BY <1>1, <1>2, <1>3, <2>1
<1>8. CASE UNCHANGED dataVars
  BY <1>8 DEF dataVars, IDInv, IDOK
<1> QED BY <1>4, <1>5, <1>6, <1>7, <1>8 DEF Next, AwaitRequests

(* Every ID has a number that its process has given out in the milliseconds *)
(* of its time, and what was refused was not in order.                      *)
THEOREM IDCorrect ==
  ASSUME Texts
  PROVE  Spec => [](DataInv /\ IDInv)
<1>1. Init => IDInv
  <2>1. ASSUME Init PROVE IDInv
    <3>1. refused = <<>> /\ rows = <<>>
      BY <2>1 DEF Init
    <3> QED BY <3>1, NothingIn DEF IDInv
  <2> QED BY <2>1
<1>2. IDInv /\ DataInv /\ DataInv' /\ [Next]_dataVars => IDInv'
  BY IDStep
<1> QED BY <1>1, <1>2, DataCorrect, PTL DEF Spec

(* Nothing that is in order is turned away: the primary key refuses no ID,  *)
(* although the counter of a process starts anew at every restart, and the  *)
(* pipeline fails no deployment over the spelling of its URL.               *)
THEOREM RejectedCorrect ==
  ASSUME Texts
  PROVE  Spec => []RejectedOnlyInvalid
<1>1. ASSUME DataInv, IDInv
      PROVE  RejectedOnlyInvalid
  <2>1. \A row \in Row : row.stage = "failed" => ~IsRepository(row.input.url)
    BY <1>1, RowsAre DEF RowOK
  <2>2. \A input \in Range(refused) : ~Acceptable(input)
    BY <1>1 DEF IDInv
  <2> QED BY <2>1, <2>2 DEF RejectedOnlyInvalid
<1> QED BY <1>1, IDCorrect, PTL

(***************************************************************************)
(* Host names.  Of ToString it is enough here that digits are no           *)
(* separators; and no ID is longer than a label may be (four characters,   *)
(* the digits of two 64-bit numbers and a dash are 44 of 63).              *)
(***************************************************************************)

Digits == \A n \in Nat : ToString(n) \notin Separators
LabelsFit == MaxLabel \in Nat /\ MaxLabel >= 5

\* The table's primary key keeps the IDs apart.
OwnIDs ==
  /\ \A i \in DOMAIN rows : \E time, n \in Nat : rows[i].id = generateID(time, n)
  /\ \A i, j \in DOMAIN rows : rows[i].id = rows[j].id => i = j

\* OwnIDs is inductive, relative to DataInv.
LEMMA OwnIDsStep ==
  ASSUME DataInv, OwnIDs, [Next]_dataVars
  PROVE  OwnIDs'
<1>1. ASSUME DOMAIN rows' = DOMAIN rows, \A i \in DOMAIN rows : rows'[i].id = rows[i].id
      PROVE  OwnIDs'
  BY <1>1 DEF OwnIDs
<1>2. CASE UNCHANGED rows
  BY <1>1, <1>2
<1>3. CASE Restart
  BY <1>1, <1>3, RestartKeeps
<1>4. CASE Create
  <2> DEFINE input == Head(todo)
             id == generateID(now, nextID + 1)
             Made(env) == [id |-> id, stage |-> "pending", input |-> input,
                           env |-> env, time |-> now, created_at |-> formatTime(now)]
  <2>1. \/ UNCHANGED rows
        \/ /\ \A i \in DOMAIN rows : rows[i].id # id
           /\ \E env \in normalizeEnvVars(input.env) : rows' = Append(rows, Made(env))
    BY <1>4 DEF Create
  <2>2. ASSUME \A i \in DOMAIN rows : rows[i].id # id, NEW env, rows' = Append(rows, Made(env))
        PROVE  OwnIDs'
    <3> DEFINE made == Made(env)
    <3>1. made.id = id
      OBVIOUS
    <3>2. \E time, n \in Nat : id = generateID(time, n)
      BY InstantsAre DEF DataInv
    <3> HIDE DEF made, Made, id, input
    <3>3. Len(rows) \in Nat /\ DOMAIN rows = 1 .. Len(rows) /\ rows \in Seq(Range(rows))
      BY LenProperties DEF DataInv
    <3>4. /\ DOMAIN rows' = 1 .. (Len(rows) + 1)
          /\ \A i \in 1 .. Len(rows) : rows'[i] = rows[i]
          /\ rows'[Len(rows) + 1] = made
      BY <2>2, <3>3 DEF made
    <3>5. \A i \in DOMAIN rows' : \/ i \in DOMAIN rows /\ rows'[i] = rows[i]
                                  \/ i = Len(rows) + 1 /\ rows'[i] = made
      BY <3>3, <3>4
    <3>6. /\ \A i \in DOMAIN rows : \E time, n \in Nat : rows[i].id = generateID(time, n)
          /\ \A i, j \in DOMAIN rows : rows[i].id = rows[j].id => i = j
      BY DEF OwnIDs
    <3>7. \A i \in DOMAIN rows' : \E time, n \in Nat : rows'[i].id = generateID(time, n)
      <4> DEFINE Numbered(text) == \E time, n \in Nat : text = generateID(time, n)
      <4>1. Numbered(id) /\ \A i \in DOMAIN rows : Numbered(rows[i].id)
        BY <3>2, <3>6
      <4> HIDE DEF Numbered
      <4>2. \A i \in DOMAIN rows' : Numbered(rows'[i].id)
        BY <3>1, <3>5, <4>1
      <4> QED BY <4>2 DEF Numbered
    <3>8. \A i, j \in DOMAIN rows' : rows'[i].id = rows'[j].id => i = j
      BY <2>2, <3>1, <3>5, <3>6
    <3> QED BY <3>7, <3>8 DEF OwnIDs
  <2> HIDE DEF Made, id, input
  <2> QED BY <1>2, <2>1, <2>2
<1>5. ASSUME NEW i \in DOMAIN rows,
             Validate(i) \/ inspectDeploymentSource(i) \/ Start(i) \/ Route(i)
      PROVE  OwnIDs'
  BY <1>1, <1>5, StagesKeep
<1>6. CASE Tick
  BY <1>2, <1>6 DEF Tick
<1>7. CASE UNCHANGED dataVars
  BY <1>2, <1>7 DEF dataVars
<1> QED BY <1>3, <1>4, <1>5, <1>6, <1>7 DEF Next, AwaitRequests

(* Every routed deployment has a host name that the DNS takes and that no   *)
(* other deployment has: sanitizeHostLabel, which makes separators into     *)
(* dashes, drops doubled ones and cuts, loses nothing that tells IDs apart. *)
THEOREM HostsCorrect ==
  ASSUME Digits, LabelsFit
  PROVE  Spec => []HostsDistinct
<1>1. Init => OwnIDs
  <2>1. ASSUME Init PROVE OwnIDs
    <3>1. rows = <<>>
      BY <2>1 DEF Init
    <3> QED BY <3>1, NothingIn DEF OwnIDs
  <2> QED BY <2>1
<1>2. OwnIDs /\ DataInv /\ [Next]_dataVars => OwnIDs'
  BY OwnIDsStep
<1>3. ASSUME DataInv, OwnIDs
      PROVE  HostsDistinct
  <2> DEFINE ID(a, b) == <<"dep", "_", a, "_", b>>
             Label(a, b) == <<"dep", "-", a, "-", b>>
             Names(i, a, b) == rows[i].id = ID(a, b) /\ rows[i].host = Label(a, b)
  <2>1. \A a, b : Label(a, b)[3] = a /\ Label(a, b)[5] = b
    OBVIOUS
  <2>2. ASSUME NEW i \in DOMAIN rows, rows[i] \in Reached("host")
        PROVE  IsHostLabel(rows[i].host) /\ \E a, b : Names(i, a, b)
    <3>1. rows[i].host = sanitizeHostLabel(rows[i].id)
      BY <1>3, <2>2, RowsAre DEF RowOK, hostForDeployment
    <3>2. PICK time, n \in Nat : rows[i].id = generateID(time, n)
      BY <1>3 DEF OwnIDs
    <3>3. Milli(time) \in Nat
      BY MilliOrder
    <3>4. PICK a, b : a = ToString(Milli(time)) /\ b = ToString(n)
      OBVIOUS
    <3>5. a \notin Separators /\ b \notin Separators
      BY <3>2, <3>3, <3>4 DEF Digits
    <3>6. sanitizeHostLabel(ID(a, b)) = Label(a, b) /\ IsHostLabel(Label(a, b))
      BY <3>5, LabelOf DEF LabelsFit
    <3>7. rows[i].id = ID(a, b)
      BY <3>2, <3>4 DEF generateID
    <3> HIDE DEF ID, Label
    <3>8. Names(i, a, b) /\ IsHostLabel(rows[i].host)
      BY <3>1, <3>6, <3>7
    <3> HIDE DEF Names
    <3> QED BY <3>8
  <2>3. ASSUME NEW i \in DOMAIN rows, NEW j \in DOMAIN rows,
               {rows[i], rows[j]} \subseteq Reached("host"), rows[i].host = rows[j].host
        PROVE  i = j
    <3>1. PICK a, b : Names(i, a, b)
      BY <2>2, <2>3
    <3>2. PICK c, d : Names(j, c, d)
      BY <2>2, <2>3
    <3> HIDE DEF ID, Label
    <3>3. Label(a, b) = Label(c, d)
      BY <2>3, <3>1, <3>2
    <3>4. ID(a, b) = ID(c, d)
      <4>1. /\ Label(a, b)[3] = a /\ Label(a, b)[5] = b
            /\ Label(c, d)[3] = c /\ Label(c, d)[5] = d
        BY <2>1
      <4>2. a = c /\ b = d
        BY <3>3, <4>1
      <4> QED BY <4>2
    <3>5. rows[i].id = rows[j].id
      BY <3>1, <3>2, <3>4
    <3> QED BY <1>3, <3>5 DEF OwnIDs
  <2> QED BY <2>2, <2>3 DEF HostsDistinct
<1> QED BY <1>1, <1>2, <1>3, DataCorrect, PTL DEF Spec
=============================================================================
