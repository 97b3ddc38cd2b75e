--------------------------- MODULE MCRunLifecycle ---------------------------
(* Finite instances of RunLifecycle for TLC.                               *)
EXTENDS RunLifecycle, TLC

CONSTANTS r1, r2, t1, t2

\* One run; two runs that share an output path.
Alone == r1 :> t1
Same  == r1 :> t1 @@ r2 :> t1

\* Exchanging the two runs leaves the shared path's assignment unchanged.
RunSymmetry == {[c \in {r1, r2, t1, t2} |-> c],
                r1 :> r2 @@ r2 :> r1 @@ t1 :> t1 @@ t2 :> t2}
=============================================================================
