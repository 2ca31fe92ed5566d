------------------------------ MODULE MCDaemon ------------------------------
(* Daemon with two receivers; Daemon.cfg gives it a channel of one flow,    *)
(* three flows and two edits of the configuration file.                     *)
EXTENDS Daemon

CONSTANTS netflow, sflow

MCReceiver == {netflow, sflow}
=============================================================================
