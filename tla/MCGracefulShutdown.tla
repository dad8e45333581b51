-------------------------- MODULE MCGracefulShutdown --------------------------
\* A small instance of GracefulShutdown for TLC.
EXTENDS GracefulShutdown

CONSTANTS w1, w2, o1, o2

MCWorkers == {w1, w2}
MCOperators == {o1, o2}
===============================================================================
