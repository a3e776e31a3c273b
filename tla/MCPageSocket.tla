---------------------------- MODULE MCPageSocket ----------------------------
(* One page's connection, with two workers and two threads that send.      *)
EXTENDS PageSocket

CONSTANTS w1, w2, s1, s2

SomeWorkers == {w1, w2}
SomeSenders == {s1, s2}
=============================================================================
