----------------------------- MODULE MCXdmaAsync ----------------------------
(* Two iocbs, the first of one or two segments.                            *)
EXTENDS XdmaAsync, TLC

CONSTANTS a, b

MCMaxSegs == a :> 2 @@ b :> 1
=============================================================================
