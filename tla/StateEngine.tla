----------------------------- MODULE StateEngine -----------------------------
(***************************************************************************)
(* The deployment state engine: the statuses of a deployment row and the   *)
(* status changes the engine accepts (internal/state/engine.go).           *)
(***************************************************************************)

Status == {"pending", "building", "deploying", "running", "failed"}

allowedTransitions ==
  {<<"pending", "building">>, <<"building", "deploying">>,
   <<"deploying", "running">>}
    \cup {<<s, "failed">> : s \in {"pending", "building", "deploying"}}

CanTransition(current, next) == <<current, next>> \in allowedTransitions
=============================================================================
