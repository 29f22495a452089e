--------------------------- MODULE MCDurableQueue ---------------------------
(* One job and two workers, every kind of failure once.  The times are the  *)
(* code's scaled down: the lock outlives the lease, and the back-off of the *)
(* attempts before the last one just outlasts a dead worker's lock.         *)
EXTENDS DurableQueue
=============================================================================
