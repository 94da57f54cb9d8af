---------------------------- MODULE MCClientLink ----------------------------
(* Two connections and two runs of the context, so that a link is reset and  *)
(* made again around a stop, with two packets to read and a datagram each    *)
(* way.                                                                      *)
EXTENDS ClientLink
=============================================================================
