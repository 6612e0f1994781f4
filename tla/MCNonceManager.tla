-------------------------- MODULE MCNonceManager --------------------------
(* Instances of NonceManager for TLC. *)
EXTENDS NonceManager, TLC

CONSTANTS w1, w2, main, t1, t2, t3, r1, r2, r3

InMain == r1 :> main @@ r2 :> main @@ r3 :> main
\* one test at a time in each worker, as the awaits of the test code have it
OnePerWorker == t1 :> w1 @@ t2 :> w2 @@ InMain
\* three calls that overlap in one worker
ThreeInOneWorker == t1 :> w1 @@ t2 :> w1 @@ t3 :> w1 @@ InMain
=============================================================================
