-------------------------- MODULE MCControlLinkTx --------------------------
(* Instances of ControlLinkTx for TLC. *)
EXTENDS ControlLinkTx

MCReleaseOf == [v \in Levels |-> 0]

ScheduledKinds == {"abs", "jog", "cmd"}
LastingKinds == {"held", "abs"}
=============================================================================
