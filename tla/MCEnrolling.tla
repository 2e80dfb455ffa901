----------------------------- MODULE MCEnrolling -----------------------------
EXTENDS Enrolling

(* CALLBACK_PORTS.                                                         *)
CallbackPorts == <<1455, 1457>>
=============================================================================
