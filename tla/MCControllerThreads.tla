------------------------- MODULE MCControllerThreads -------------------------
(* Instances of ControllerThreads for TLC. *)
EXTENDS ControllerThreads

CONSTANTS engine, app, video

\* A pause stops the engine and cancels what is under way.
StrictPause == { [scheduleWhilePaused |-> FALSE, cancelInflight |-> TRUE] }
=============================================================================
