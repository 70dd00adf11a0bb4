------------------------- MODULE MCSessionPipeline -------------------------
(***************************************************************************)
(* SessionPipeline on small instances: s1 and s2 share a topic.            *)
(***************************************************************************)
EXTENDS PipelineInvariant, TLC

CONSTANTS s1, s2, s3, t1, t2

TopicOfSession == (s1 :> t1) @@ (s2 :> t1) @@ (s3 :> t2)
TwoOnOneTopic == (s1 :> t1) @@ (s2 :> t1)
OneSession == s1 :> t1
=============================================================================
