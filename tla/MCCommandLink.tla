---------------------------- MODULE MCCommandLink ----------------------------
(* CommandLink for TLC: the server's threads are interchangeable.            *)
EXTENDS CommandLink, TLC

HandlerSymmetry == Permutations(Handler)
==============================================================================
