--------------------------- MODULE MCServerUpdate ---------------------------
(* Instances of ServerUpdate for TLC. *)
EXTENDS ServerUpdateProps

CONSTANTS c1, c2, u1, s1, s2

\* The password of every user before the update.
AllFirst == [u \in User |-> s1]
=============================================================================
