--------------------------- MODULE MCServerSession ---------------------------
(* Two sockets behind one IP, two sessions: both hosts connect, or one       *)
(* leaves and comes back before or after the server has noticed.             *)
EXTENDS ServerSession

MCHosts == {V4(<<10, 0, 0, 1>>, 5000), V4(<<10, 0, 0, 1>>, 5001)}
=============================================================================
