--------------------------- MODULE MCSessionPool ---------------------------
(* Instances of SessionPool for TLC: the main thread and IO threads.        *)
EXTENDS SessionPool

CONSTANTS s1, s2, main, io1, io2

OneSession == <<s1>>
TwoSessions == <<s1, s2>>

=============================================================================
