------------------------------ MODULE MCDesktopApp ------------------------------
(* Small instances of DesktopApp.                                              *)
EXTENDS DesktopApp

MCKeys == {<<"work_order", "w1">>}

=================================================================================
