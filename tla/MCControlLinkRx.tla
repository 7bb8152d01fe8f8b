-------------------------- MODULE MCControlLinkRx --------------------------
(* Instances of ControlLinkRx for TLC. *)
EXTENDS ControlLinkRx

MCReleaseOf == [v \in Levels |-> 0]

Frame(t, i, v) == [type |-> t, id |-> i, val |-> v]

\* A held control with both levels and one more press, a command, movement, the
\* connection report (ConnId is 1), and the frames that never reach the queue.
MCFramesMixed ==
  {Frame("held", 0, 0), Frame("held", 0, 1), Frame("held", 1, 1),
   Frame("cmd", 0, 0), Frame("rel", 0, 1), Frame("rel", 0, 2),
   Frame("abs", 1, 0), Frame("abs", 1, 1), Frame("ping", 0, 0),
   Frame("challenge", 0, 0), Frame("unknown", 0, 0)}
=============================================================================
