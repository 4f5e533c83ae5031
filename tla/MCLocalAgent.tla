------------------------------ MODULE MCLocalAgent ------------------------------
(***************************************************************************)
(* LocalAgent on a small instance; the constants are those of MCAgentApi.  *)
(* The output of its reading tools is checked for all small outputs.       *)
(***************************************************************************)
EXTENDS LocalAgent, MCAgentApi

\* Outputs of up to three lines of one to three characters, whose paths take up
\* one or two of them.
MCLines ==
    {line \in [path : {"none", "wanted", "ignored"}, head : 1 .. 2, length : 1 .. 3] :
        line.head <= line.length}

MCOutputs == UNION {[1 .. n -> MCLines] : n \in 0 .. 3}

MCResultLimits == 1 .. 2
================================================================================
