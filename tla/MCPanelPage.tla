---------------------------- MODULE MCPanelPage ----------------------------
(* An instance of PanelPage for TLC. *)
EXTENDS PanelPage

CONSTANTS r1, c1
=============================================================================
