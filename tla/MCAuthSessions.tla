--------------------------- MODULE MCAuthSessions ---------------------------
(* Instance of AuthSessions for TLC.                                       *)
EXTENDS AuthSessions, TLC

Symmetry == Permutations(Token) \cup Permutations(Session) \cup Permutations(Request)
=============================================================================
