------------------------------- MODULE MCAppShell -------------------------------
(* Small instances of AppShell.                                                *)
EXTENDS AppShell
=================================================================================
