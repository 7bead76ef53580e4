------------------------------ MODULE MCExecute ------------------------------
(***************************************************************************)
(* execute() for TLC: programs that succeed, fail, exit 127 as a failed    *)
(* exec does, or exit 137 as a killed one does; SIGKILL and others.        *)
(***************************************************************************)
EXTENDS Execute

MCExitCodes == {0, 1, 127, 137, 255}
MCSignals   == {9, 11, 13, 15}
===============================================================================
