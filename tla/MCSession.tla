----------------------------- MODULE MCSession ------------------------------
(* Two logins of two browsers on one central session, with the requests,    *)
(* callbacks and restarts that can get in each other's way.                 *)
EXTENDS Session, TLC

CONSTANTS i1

MCSidOf == [j \in LogoutTokens |-> i1]

\* Safety only: nothing tells the members of these sets apart.
Symmetric == Permutations(Browsers) \cup Permutations(States) \cup Permutations(Callbacks)
             \cup Permutations(Rpsids) \cup Permutations(Requests)
=============================================================================
