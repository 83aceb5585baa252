---------------------------- MODULE MCDashboard ----------------------------
(* TLC instance of the dashboard's session.                                *)
EXTENDS Dashboard
=============================================================================
