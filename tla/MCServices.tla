------------------------------ MODULE MCServices ------------------------------
\* A small instance of Services for TLC.
EXTENDS Services, TLC

CONSTANTS t1, t2, c1, c2

MCThreads == {t1, t2}
MCClients == {c1, c2}
\* Every property treats threads alike, and clients.
MCSymmetry == Permutations(MCThreads) \cup Permutations(MCClients)

\* No time to live, one below a second, one of two ticks.
MCTtls == {{}, {0}, {2}}
===============================================================================
