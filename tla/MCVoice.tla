------------------------------- MODULE MCVoice -------------------------------
(* Voice on a small instance: the configuration gives the bounds. *)
EXTENDS Voice
===============================================================================
