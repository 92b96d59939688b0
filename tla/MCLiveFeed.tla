----------------------------- MODULE MCLiveFeed -----------------------------
(* Two hosts, a caller of refresh() at a time, and two sockets: the one in  *)
(* use and one that was replaced and still owes its close event.            *)
EXTENDS LiveFeed

CONSTANTS s1, s2, h1, h2, c1

MCSocks == {s1, s2}
MCHosts == {h1, h2}
MCCallers == {c1}
=============================================================================
