---------------------------- MODULE MCBaseServer ----------------------------
(* Small networks of BaseServer: the bounds are in the configurations.      *)
EXTENDS BaseServer, TLC
=============================================================================
