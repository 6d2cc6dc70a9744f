----------------------------- MODULE MCRunCycle -----------------------------
(* Two bindings: a sensor that answers, a channel nothing serves and an empty *)
(* slot; and slots that name a channel the codec has no width for.            *)
EXTENDS RunCycle

MCBindings == {
  << [channel |-> 8, sampler |-> "fitted"],
     [channel |-> 9, sampler |-> "null"],
     [channel |-> 4, sampler |-> "missing"] >>,
  << [channel |-> 8, sampler |-> "fitted"],
     [channel |-> 13, sampler |-> "fitted"] >> }
MCSizable == 0 .. 12
MCEntropy == {0, 2, 4, 15}
=============================================================================
