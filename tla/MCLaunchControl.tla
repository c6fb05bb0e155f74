-------------------------- MODULE MCLaunchControl --------------------------
(* Two names for launches; the requests and faults are those of a .cfg.    *)
EXTENDS LaunchControl
=============================================================================
