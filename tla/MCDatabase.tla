----------------------------- MODULE MCDatabase -----------------------------
(* Instances of Database for TLC.                                          *)
EXTENDS Database, TLC

CONSTANTS i1, i2, c1, c2, k1, k2, a1

MCKeys == {k1}
MCIfaces == {i1, i2}
MCCallers == {c1, c2}
MCIfaceOf == (c1 :> i1) @@ (c2 :> i2)

NoFlags ==
  [local |-> FALSE, internal |-> FALSE, alwaysSecret |-> FALSE,
   alwaysCrown |-> FALSE, absExpiry |-> 0, relExpiry |-> 0, cache |-> FALSE]

(* i1: a subsystem's own cached Interface that forces its records secret   *)
(*     without being internal itself.    *)
(* i2: the Interface the websocket API makes, NewInterface(nil): no flags, *)
(*     no cache.                                                           *)
MCOptsPolicy ==
  (i1 :> [NoFlags EXCEPT !.local = TRUE, !.alwaysSecret = TRUE,
                         !.cache = TRUE])
  @@ (i2 :> NoFlags)

(* i1: an internal, local Interface with a cache (how host subsystems use *)
(*     the database); i2: the API's NewInterface(nil).                     *)
MCOptsCached ==
  (i1 :> [NoFlags EXCEPT !.local = TRUE, !.internal = TRUE, !.cache = TRUE])
  @@ (i2 :> NoFlags)

(* i1: a cached Interface that is local but not internal; i2: the API's.  *)
MCOptsCachedPublic ==
  (i1 :> [NoFlags EXCEPT !.local = TRUE, !.cache = TRUE]) @@ (i2 :> NoFlags)

(* Both goroutines use the API's Interface, NewInterface(nil). *)
MCOptsPlain == (i1 :> NoFlags) @@ (i2 :> NoFlags)

====
