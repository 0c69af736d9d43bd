---------------------- MODULE MCTextGenerationScheduler ----------------------
(* Instances of TextGenerationScheduler for TLC. *)
EXTENDS TextGenerationScheduler, TLC

CONSTANTS r1, r2, r3

\* Three requests that outgrow the pool together while they generate.
GrowingPrompts == r1 :> 1 @@ r2 :> 2 @@ r3 :> 3
GrowingLengths == r1 :> 3 @@ r2 :> 4 @@ r3 :> 4

\* Every configuration but the strategies that force CE.
Config(chunked, inFlight, strategy) ==
    [chunked |-> chunked, inFlight |-> inFlight, strategy |-> strategy]
UsualConfigs ==
    {Config(c, f, s) : c, f \in BOOLEAN, s \in {"per_replica", "decode_first"}}
WholePrompts == {Config(FALSE, FALSE, "per_replica")}
=============================================================================
