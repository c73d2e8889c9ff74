----------------------------- MODULE MCPipeline -----------------------------
(* Pipeline on ends of every class, with log lines that match one pattern  *)
(* or several, and replies that are allowed, prose or out of range.        *)
EXTENDS Pipeline

End(state, exit, derived) == [state |-> state, exit |-> exit, derived |-> derived]

MCEnds == {End("COMPLETED", <<0, 0>>, <<0, 0>>), End("FAILED", <<1, 0>>, <<>>),
           End("COMPLETED", <<0>>, <<>>), End("COMPLETED", <<>>, <<3, 0>>),
           End("CANCELLED", <<0, 0>>, <<0, 0>>), End("CANCELLED", <<0, 15>>, <<>>)}

MCCancelled == {End("CANCELLED", <<0, 0>>, <<0, 0>>)}
MCFailed == {End("FAILED", <<1, 0>>, <<0, 0>>)}

(* "max iteration reached", "Inf", "Out of memory: Killed".              *)
MCLines == {{3}, {5}, {9, 10}}

Reply(semantic, category, percent) ==
    [semantic |-> semantic, category |-> category, confidence |-> percent]

MCReplies == {Reply("normal", "NONE", 90), Reply("semantic_failed", "PARAMETER_MISMATCH", 150),
              Reply("suspicious", "NONE", -1), Reply("semantic_failed", "OUT_OF_MEMORY", 90)}
=============================================================================
