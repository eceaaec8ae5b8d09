------------------------------ MODULE MCDesktopDb -------------------------------
(* Small instances of DesktopDb.                                               *)
EXTENDS DesktopDb

MCKeys ==
  {<<"work_order", "w1">>, <<"asset", "a1">>, <<"helpdesk_request", "h1">>}

=================================================================================
