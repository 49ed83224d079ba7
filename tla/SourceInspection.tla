--------------------------- MODULE SourceInspection ---------------------------
(***************************************************************************)
(* internal/source: what is read off a cloned repository.  A tree is       *)
(*   [manifests, deps, manage, projects, modules, files, dockerfile]:      *)
(* the manifests at its root, the words its Python manifests contain,      *)
(* whether it has a manage.py, its directories with a wsgi.py in the order *)
(* of Glob ([name, package]), the frameworks whose pattern the text of     *)
(* each candidate module matches (none if there is no such file), and its  *)
(* files in the order of WalkDir, each [skipped, scannable, big, says]: in *)
(* a directory that is skipped, by its extension, by its size, and the     *)
(* hints its text gives.                                                   *)
(***************************************************************************)
EXTENDS SequencesExt, FiniteSetsExt, Integers

CONSTANT MaxScanned   \* bound of the files that are read (60 in the code)

ASSUME ScanAssumption == MaxScanned \in Nat

IsTree(tree) ==
  /\ tree.projects \in Seq(Range(tree.projects))
  /\ \A project \in Range(tree.projects) :
       project = [name |-> project.name, package |-> project.package] /\ project.package \in BOOLEAN
  /\ tree.files \in Seq(Range(tree.files))

Manifests == <<"go.mod", "package.json", "requirements.txt", "pyproject.toml", "Cargo.toml">>

\* The switch: the first manifest there is.
detectProjectType(tree) ==
  LET i == SelectInSeq(Manifests, LAMBDA manifest : manifest \in tree.manifests)
  IN  IF i = 0 THEN "Unknown"
      ELSE <<"Go", "Node", "Python", "Python", "Rust">>[i]

readDependencyText(tree) ==
  IF {"requirements.txt", "pyproject.toml"} \cap tree.manifests = {} THEN {} ELSE tree.deps

Candidates == <<"main", "app", "src.main", "src.app">>

NoCommand == <<>>

\* The first directory that is a package.
detectDjangoProject(tree) ==
  LET i == SelectInSeq(tree.projects, LAMBDA project : project.package)
  IN  IF i = 0 THEN NoCommand ELSE <<"Django", tree.projects[i].name>>

\* The first candidate that matches the framework's pattern.
findPythonAppModule(tree, framework) ==
  LET i == SelectInSeq(Candidates, LAMBDA module : framework \in tree.modules[module])
  IN  IF i = 0 THEN NoCommand ELSE <<framework, Candidates[i]>>

\* Mutant: a project of Django is looked for and nothing else.
DetectStartCommandDjangoEnds(tree) ==
  LET dependencies == readDependencyText(tree)
  IN  IF "django" \in dependencies /\ tree.manage THEN detectDjangoProject(tree)
      ELSE IF {"fastapi", "uvicorn"} \subseteq dependencies
           THEN findPythonAppModule(tree, "FastAPI")
      ELSE IF "flask" \in dependencies THEN findPythonAppModule(tree, "Flask")
      ELSE NoCommand

\* The frameworks in their order; one that gives no command is passed over.
DetectStartCommand(tree) ==
  LET dependencies == readDependencyText(tree)
      django == IF "django" \in dependencies /\ tree.manage
                THEN detectDjangoProject(tree) ELSE NoCommand
      fastapi == IF {"fastapi", "uvicorn"} \subseteq dependencies
                 THEN findPythonAppModule(tree, "FastAPI") ELSE NoCommand
      flask == IF "flask" \in dependencies THEN findPythonAppModule(tree, "Flask") ELSE NoCommand
  IN  IF django # NoCommand THEN django
      ELSE IF fastapi # NoCommand THEN fastapi
      ELSE flask

Readable(file) == ~file.skipped /\ file.scannable /\ ~file.big

\* Mutant: files that are not read count as well.
scanReadinessHintsCountAll(tree) ==
  UNION {tree.files[i].says : i \in {j \in DOMAIN tree.files : j =< MaxScanned /\ Readable(tree.files[j])}}

\* The walk stops reading after so many files; uniqueStrings keeps a hint once.
scanReadinessHints(tree) ==
  LET scannedBefore(i) == {j \in 1 .. i - 1 : Readable(tree.files[j])}
      scanned == {i \in DOMAIN tree.files :
                    Readable(tree.files[i]) /\ Cardinality(scannedBefore(i)) < MaxScanned}
  IN  UNION {tree.files[i].says : i \in scanned}

\* The hints, as uniqueStrings leaves them, but for their order and wording:
\* one for the manifest found or for none, one for the start command.
Hints(tree) ==
  LET i == SelectInSeq(Manifests, LAMBDA manifest : manifest \in tree.manifests)
  IN  (IF i = 0 THEN {"no manifest"} ELSE {Manifests[i]})
      \cup (IF DetectStartCommand(tree) = NoCommand THEN {} ELSE {"start command"})
      \cup (IF tree.dockerfile THEN {"Dockerfile"} ELSE {})
      \cup scanReadinessHints(tree)

Inspect(tree) ==
  [type |-> detectProjectType(tree), command |-> DetectStartCommand(tree), hints |-> Hints(tree)]
=============================================================================
