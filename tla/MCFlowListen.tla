---------------------------- MODULE MCFlowListen ----------------------------
(* Two calls of ta2a.listen, or one of tmcp.listen; two pipelines of one  *)
(* role and one without a binding.                                         *)
EXTENDS FlowListen, TLC

CONSTANTS l1, l2, greet, refund, plain, helper

Binding == (greet :> helper) @@ (refund :> helper) @@ (plain :> NoRole)
=============================================================================
