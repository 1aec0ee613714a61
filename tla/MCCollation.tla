---------------------------- MODULE MCCollation ----------------------------
(* Instances of Collation for TLC: what the decisions hold.                 *)
EXTENDS Collation

\* No block, one or two batches, and configs after batches and alone.
MCPayloads ==
  {<<>>, <<"batch">>, <<"batch", "batch">>, <<"batch", "leaver", "config">>,
   <<"config">>}
=============================================================================
