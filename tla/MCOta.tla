------------------------------- MODULE MCOta -------------------------------
(* Three images: the one flashed on the bench and two builds.  `AsDocumented`   *)
(* is the workflow the tool describes: each build goes out once its version   *)
(* is bumped, under the version compiled into it and the file name that       *)
(* follows from it.  The other releases break that rule without touching its  *)
(* files: builds that reuse one version and one file name, one of them signed *)
(* with another key.                                                          *)
EXTENDS Ota, TLC

CONSTANTS factory, b1, b2, fleet, other

MCVersion == (factory :> 0) @@ (b1 :> 1) @@ (b2 :> 2)
MCSize == (factory :> 1) @@ (b1 :> 1) @@ (b2 :> 2)
MCImages == {factory, b1, b2}

Release(b, v, f, k) == [image |-> b, version |-> v, file |-> f, key |-> k]
AsDocumented == {Release(b, MCVersion[b], MCVersion[b], fleet) : b \in {b1, b2}}
Reused == {Release(factory, 3, 3, fleet), Release(b1, 3, 3, other),
           Release(b2, 3, 3, fleet)}
MCReleases == AsDocumented \cup Reused
=============================================================================
