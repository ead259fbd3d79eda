--------------------------------- MODULE HawkCmd ---------------------------------
(***************************************************************************)
(* The handshake between the configuration registers and the control unit, *)
(* which both were written against: hawk_cmd_ready is raised for a command *)
(* and stays up until the control unit has let it run (hawk_cmd_run) and   *)
(* it has ended.  HawkCtrl runs on top of it; HawkRegs implements it.      *)
(***************************************************************************)

VARIABLE cmd   \* NONE, PENDING (ready, not yet let run) or ACTIVE

hawk_cmd_ready == cmd # "NONE"

(* The registers behind hawk_cmd_ready have no reset: a command may seem   *)
(* to wait at power up.                                                    *)
CmdInit == cmd \in {"NONE", "PENDING"}

CmdEnds == cmd = "ACTIVE" /\ cmd' = "NONE"
CmdCycle(hawk_cmd_run) ==
  \/ cmd = "NONE" /\ cmd' \in {"NONE", "PENDING"}
  \/ cmd = "PENDING" /\ cmd' = IF hawk_cmd_run THEN "ACTIVE" ELSE "PENDING"
  \/ cmd = "ACTIVE" /\ cmd' = "ACTIVE"
  \/ CmdEnds

CmdSpec == CmdInit /\ [][\E run \in BOOLEAN : CmdCycle(run)]_cmd
=============================================================================
