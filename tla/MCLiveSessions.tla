--------------------------- MODULE MCLiveSessions ---------------------------
(* LiveSessions on two connections.  Connections, sessions and request slots *)
(* are interchangeable, so the safety runs may use their symmetry.           *)
EXTENDS LiveSessions, TLC

Symmetric == Permutations(Conns) \cup Permutations(Reqs) \cup Permutations(Ids)
=============================================================================
