----------------------------- MODULE RequestText -----------------------------
(***************************************************************************)
(* What a request says, and what is made of it: internal/validation, and   *)
(* normalizeEnvVars and railpackCacheKey of deployment_service.go.         *)
(*                                                                         *)
(* A URL is [github, name, tail]: whether it begins with                   *)
(* https://github.com/, the owner and repository as they are spelled, and  *)
(* what follows, a sequence of "git" (the suffix .git) and "slash".        *)
(* White space around it, which every reader trims, is left out.           *)
(*                                                                         *)
(* Raw names of variables are [pad, name]: with white space around them,   *)
(* which JSON keeps apart, or not.                                         *)
(***************************************************************************)
EXTENDS SequencesExt, Integers

CONSTANTS
  Lower,      \* a function: the lower case of each spelling of a repository
  NoRepo,     \* the spelling of a path that is not owner/repository
  GoodNames   \* the names of variables that the pattern allows

BlankURL == [github |-> FALSE, name |-> NoRepo, tail |-> <<>>]

TrimSuffix(tail, suffix) ==
  IF tail # <<>> /\ Last(tail) = suffix THEN Front(tail) ELSE tail

NormalizeGitHubRepoURL(url) ==
  [url EXCEPT !.tail = TrimSuffix(TrimSuffix(@, "slash"), "git")]

\* A segment of the pattern takes dots and letters, so a suffix as well.
ValidateGitHubRepoURL(url) ==
  /\ url.github /\ url.name # NoRepo
  /\ "slash" \notin Range(TrimSuffix(url.tail, "slash"))

\* Mutant: the spelling of the request is hashed.
railpackCacheKeySpelled(url) == NormalizeGitHubRepoURL(url)

\* The hash, which is taken to tell texts apart, of the lower case.
railpackCacheKey(url) ==
  LET normalized == NormalizeGitHubRepoURL(url)
  IN  [normalized EXCEPT !.name = Lower[@]]

\* normalizeEnvVars: a name in the pattern, or no name, may pass.
EnvVarsAllowed(envVars) == \A raw \in DOMAIN envVars : raw.name \in GoodNames \cup {""}

\* Raw names that trim to the same name: the last of the range over the map
\* counts, in any order.
normalizeEnvVars(envVars) ==
  LET spelled(name) == {raw \in DOMAIN envVars : raw.name = name}
      names == {raw.name : raw \in DOMAIN envVars} \ {""}
  IN  {env \in [names -> Range(envVars)] :
         \A name \in names : \E raw \in spelled(name) : env[name] = envVars[raw]}
=============================================================================
