------------------------- MODULE MCMessagePipeline --------------------------
(***************************************************************************)
(* Instances of MessagePipeline, with its refinement mapping, for TLC.     *)
(* All messages belong to one conversation, where workers compete for the  *)
(* lock.                                                                   *)
(***************************************************************************)
EXTENDS PipelineRefinement, TLC

CONSTANTS m1, m2, c1, w1, w2, t1, t2

MCOneConversation == [m \in Messages |-> c1]

(* Workers and composed texts are interchangeable.                         *)
MCSymmetry == Permutations(Workers) \cup Permutations(Texts)

=============================================================================
