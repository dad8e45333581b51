----------------------------- MODULE MCMonitoring -----------------------------
\* A small instance of Monitoring for TLC.
EXTENDS Monitoring, TLC

CONSTANTS r1, t1, t2

MCRoutes == {r1}
MCThreads == {t1, t2}
MCSymmetry == Permutations(MCThreads)   \* every property treats threads alike

\* Thresholds below, at and above the window; a window and a threshold of zero.
MCConfigs ==
  [window_size : {0, 3}, healthy_threshold : {2, 4}, unhealthy_threshold : {2}]
    \cup [window_size : {3}, healthy_threshold : {0, 2}, unhealthy_threshold : {3, 4}]
    \cup [window_size : {3}, healthy_threshold : {2, 4}, unhealthy_threshold : {0}]

\* The k-th of the sorted samples is what sorting them gives.
ASSUME SortedIsSorting ==
  \A s \in UNION {[1 .. n -> 0 .. 2] : n \in 1 .. 4} :
    \A k \in DOMAIN s : Collector!Sorted(s, k) = SortSeq(s, <)[k]
===============================================================================
