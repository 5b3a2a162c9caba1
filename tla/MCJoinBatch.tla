----------------------------- MODULE MCJoinBatch -----------------------------
(* Words of four bits: 13 is what the two constants of map_blocking leave  *)
(* modulo 16.  A square wraps around, and an item comes twice.             *)
EXTENDS JoinBatch

Lists == {<<>>, <<5, 3, 5>>}
FailThree == {{3, 5}, {5}}
=============================================================================
