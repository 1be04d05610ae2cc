------------------------------ MODULE MCConfig ------------------------------
(* Small instances of the configuration options for TLC. *)
EXTENDS Config

CONSTANTS a, b, d1, d2

(* Two string options, "a/b/a" and "b/a": the inner part "b" of the first *)
(* is also the top-level part of the second.                               *)
MCOptions == {<<a, b, a>>, <<b, a>>}

MCOptType == [o \in MCOptions |-> "string"]

(* The regex of "b/a" rejects d2; "a/b/a" has none. *)
MCMatches == (<<a, b, a>> :> {d1, d2}) @@ (<<b, a>> :> {d1})
====
