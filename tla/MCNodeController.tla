-------------------------- MODULE MCNodeController --------------------------
(***************************************************************************)
(* Instances of NodeController for TLC.                                    *)
(***************************************************************************)
EXTENDS NodeController

\* An administrator follows the documented procedure for a lost node and sets
\* the taint with the effect NoExecute.
MCByHand == {NoExecute}

\* The loop of removeTaint filters: it keeps the taints with other keys, all of
\* them and in their order.
ASSUME OthersFilters ==
  \A n \in 0..4 : \A s \in [1..n -> OtherTaints \cup OutOfService] :
    Others(s) = SelectSeq(s, IsOther)
============================================================================
