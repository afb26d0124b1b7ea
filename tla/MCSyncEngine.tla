--------------------------- MODULE MCSyncEngine ---------------------------
(* Instances of SyncEngine for TLC: two people; two collections of the   *)
(* first, one of them mirrored by d1, and one of the second.               *)
EXTENDS SyncEngine, TLC

CONSTANTS d1, d2, u1, u2, c1, c2, c3, o1, o2, x, y, k1, k2, h1, h2

TwoDevices == {d1, d2}
TwoUsers == {u1, u2}
TwoCollections == {c1, c2}
ThreeCollections == {c1, c2, c3}

MCUserOf == d1 :> u1 @@ d2 :> u2
MCOwnerOf == c1 :> u1 @@ c2 :> u1 @@ c3 :> u2
MCMirrorOf == c1 :> NoMirror @@ c2 :> d1 @@ c3 :> NoMirror

\* One device, for the interleavings of requests that have nothing to do with
\* access.
MCOneUserOf == d1 :> u1
MCOneOwnerOf == c1 :> u1
MCOneMirrorOf == c1 :> NoMirror

\* Two devices of one person; the second collection is mirrored by d2.
MCOwnUserOf == d1 :> u1 @@ d2 :> u1
MCOwnOwnerOf == c1 :> u1 @@ c2 :> u1
MCOwnMirrorOf == c1 :> NoMirror @@ c2 :> d2

Symmetric == Permutations({x, y}) \cup Permutations({h1, h2})
=============================================================================
