------------------------------ MODULE HostLabel ------------------------------
(***************************************************************************)
(* The host name of a deployment, from its ID: sanitizeHostLabel and       *)
(* hostForDeployment of internal/caddy/router.go.  A text is a sequence of *)
(* its words (letters and digits) and of the characters between them.      *)
(***************************************************************************)
EXTENDS SequencesExt, FiniteSetsExt, Integers

CONSTANT MaxLabel   \* bound of a label (63 in the code)

Separators == {"_", "-", " "}

\* Mutant: a bound that cuts the counter off an ID.
LabelBoundShort == 3
LabelBound == MaxLabel

\* A run of other characters becomes one dash.
WriteRune(text, char) ==
  IF char \notin Separators THEN Append(text, char)
  ELSE IF text # <<>> /\ Last(text) = "-" THEN text
  ELSE Append(text, "-")

Dashed(value) == FoldLeft(WriteRune, <<>>, value)

TrimRight(text) == SubSeq(text, 1, SelectLastInSeq(text, LAMBDA char : char # "-"))
TrimLeft(text) == IF text # <<>> /\ Head(text) = "-" THEN Tail(text) ELSE text

sanitizeHostLabel(value) ==
  LET label == TrimRight(TrimLeft(Dashed(value)))
  IN  IF label = <<>> THEN <<"deployment">> ELSE TrimRight(SubSeq(label, 1, Min({LabelBound, Len(label)})))

\* A label that the DNS takes: no dash at either end.
IsHostLabel(label) ==
  /\ label # <<>> /\ Len(label) =< MaxLabel
  /\ Head(label) # "-" /\ Last(label) # "-"
  /\ Range(label) \cap Separators \subseteq {"-"}
=============================================================================
