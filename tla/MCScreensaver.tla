--------------------------- MODULE MCScreensaver ---------------------------
(* The instance of Screensaver for TLC: every producer. *)
EXTENDS Screensaver

AllSources == {"web", "ui", "flx4"}
=============================================================================
