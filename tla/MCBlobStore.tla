---- MODULE MCBlobStore ----
(* Instances of BlobStore for TLC. *)
EXTENDS BlobStore, TLC

CONSTANTS ann, bob, x, y, o1, o2

\* Objects o1 and o2 of ann; a plain content, and one with a derivative that
\* is another object's content.
MC_OwnerOf == [o \in Objects |-> ann]
MC_Payloads == {[main |-> x, extra |-> {x}], [main |-> y, extra |-> {x}]}
MC_SmallPayloads == {[main |-> x, extra |-> {}], [main |-> y, extra |-> {}]}

\* An empty store, or one whose counts a repair beside a push has left wrong.
MC_Init ==
  \/ Init
  \/ /\ file = Blobs /\ refs = Users \X Blobs
     /\ rows \in [Blobs -> {0, 2}]
     /\ \E p \in Objects :
          objects = [o \in Objects |->
                       IF o = p THEN [main |-> x, extra |-> {}, live |-> TRUE] ELSE NoObject]
     /\ tx = Idle /\ job = Idle /\ backup = Idle
     /\ upload = [h \in Uploads |-> Idle]

Symmetric == Permutations({o1, o2})

MC_Spec == MC_Init /\ [][Next]_vars
====
