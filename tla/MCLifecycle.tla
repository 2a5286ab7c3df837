---------------------------- MODULE MCLifecycle ----------------------------
(* Two daemons, one after the other or at the same time, and the commands  *)
(* that ask about them or stop them.                                       *)
EXTENDS Lifecycle

CONSTANTS d1, d2, p1, s1

TwoDaemons == {d1, d2}
OneProber == {p1}
OneStopper == {s1}
NoClient == {}
=============================================================================
