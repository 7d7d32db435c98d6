-------------------------- MODULE MCRunnerDelivery --------------------------
(***************************************************************************)
(* Small instances of RunnerDelivery: two connection slots, so that the    *)
(* host can still be reading from an old connection while a new one is up. *)
(***************************************************************************)
EXTENDS RunnerDeliveryInv, TLC

ConnSymmetry == Permutations(Conn)
=============================================================================
