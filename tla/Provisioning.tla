----------------------------- MODULE Provisioning -----------------------------
(****************************************************************************)
(* The two targets that the engine prepares by itself, a VPS (ServerSetup)  *)
(* and a cPanel account (Cpanel), side by side. They share no state.        *)
(****************************************************************************)
EXTENDS ServerSetup, Cpanel

vars == <<setupVars, cpanelVars>>

Init == SetupInit /\ CpanelInit

Next ==
  \/ SetupNext /\ UNCHANGED cpanelVars
  \/ CpanelNext /\ UNCHANGED setupVars

Spec == Init /\ [][Next]_vars

RetrySpec == Spec /\ SetupFairness /\ CpanelFairness

(* The types of both targets.                                               *)
TypeOK == SetupTypeOK /\ CpanelTypeOK
==============================================================================
