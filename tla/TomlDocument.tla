---------------------------- MODULE TomlDocument ----------------------------
(***************************************************************************)
(* What a reader of configuration files promises: the document only grows, *)
(* what is stored keeps its place and its nature, and a file is either     *)
(* accepted as a whole or leaves nothing behind.                           *)
(***************************************************************************)
EXTENDS Naturals, Sequences

VARIABLES
    doc,    \* what is stored at each path: "value", "array" or "table"
    verdict \* "reading", then "accepted" or "refused"

docVars == <<doc, verdict>>

Parent(path) == SubSeq(path, 1, Len(path) - 1)

DocumentInit ==
    /\ doc = [path \in {<<>>} |-> "table"]
    /\ verdict = "reading"

Stored(path) == path \in DOMAIN doc'

Store ==
    /\ verdict = "reading" /\ verdict' = "reading"
    /\ \A path \in DOMAIN doc : Stored(path) /\ doc'[path] = doc[path]
    /\ \A path \in DOMAIN doc' \ DOMAIN doc :
         Stored(Parent(path)) /\ doc'[Parent(path)] \in {"array", "table"}

Accept == verdict = "reading" /\ verdict' = "accepted" /\ doc' = doc

Refuse == verdict = "reading" /\ verdict' = "refused" /\ DOMAIN doc' = {}

DocumentNext == Store \/ Accept \/ Refuse

DocumentSpec == DocumentInit /\ [][DocumentNext]_docVars
=============================================================================
