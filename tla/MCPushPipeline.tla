--------------------------- MODULE MCPushPipeline ---------------------------
(***************************************************************************)
(* TLC instances of PushPipeline: three calls with branches of two, one    *)
(* and no blocks, whose blocks have more, as many and fewer transactions   *)
(* than the pool has threads, or none.                                     *)
(***************************************************************************)
EXTENDS PushPipeline, TLC

CONSTANTS call1, call2, call3, t1, t2

MCBranch == (call1 :> <<1, 3>>) @@ (call2 :> <<2, 0>>) @@ (call3 :> <<>>)
=============================================================================
