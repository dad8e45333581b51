---------------------------- MODULE MCBackpressure ----------------------------
\* A small instance of Backpressure for TLC, whose counterexamples need no reset.
EXTENDS Backpressure

CONSTANTS p1, p2, d1

TwoProducers == {p1, p2}
OneConsumer == {d1}
===============================================================================
