------------------------------ MODULE MCAcker ------------------------------
(* An instance of Acker for TLC: the primary and three secondaries of a     *)
(* shard of seven, f+1 = 3, whose other three store nothing.  One of the    *)
(* secondaries is faulty, one may start behind the primary.                 *)
EXTENDS Acker
=============================================================================
