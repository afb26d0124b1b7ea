---- MODULE MCSyncFeed ----
(* Instances of SyncFeed for TLC. *)
EXTENDS SyncFeed, TLC

CONSTANTS ann, bob, d1, d2, o1, o2, c1, c2

MC_OneUser == [d \in Devices |-> ann]
MC_TwoUsers == d1 :> ann @@ d2 :> bob
MC_OwnedByAnn == [c \in Collections |-> ann]
MC_SharedC1 == {<<bob, c1>>}
====
