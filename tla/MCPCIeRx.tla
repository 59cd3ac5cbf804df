------------------------------ MODULE MCPCIeRx ------------------------------
(***************************************************************************)
(* Model-checking instance of PCIeRx: the device sends every kind of frame *)
(* rxMessage tells apart.                                                  *)
(***************************************************************************)
EXTENDS PCIeRx

\* A PLDM message, a control request, a control response, and a control
\* frame too short for its header (it carries no request bit).
MCFrameKinds ==
  { [type |-> "pldm", hdr |-> TRUE,  rq |-> FALSE],
    [type |-> "ctrl", hdr |-> TRUE,  rq |-> TRUE],
    [type |-> "ctrl", hdr |-> TRUE,  rq |-> FALSE],
    [type |-> "ctrl", hdr |-> FALSE, rq |-> FALSE] }
=============================================================================
