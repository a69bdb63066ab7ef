---------------------------- MODULE ScrapeBuckets ----------------------------
(***************************************************************************)
(* BucketsForScrapeDuration of pkg/utils/monitoring.go, which puts the     *)
(* metric resolution among prometheus' default histogram buckets.  Times   *)
(* are counted in half milliseconds, so that the halves it computes of     *)
(* whole milliseconds are whole numbers.                                   *)
(***************************************************************************)
EXTENDS Naturals, Sequences, SequencesExt

DefBuckets == <<10, 20, 50, 100, 200, 500, 1000, 2000, 5000, 10000, 20000>>

Shortest == DefBuckets[1]
Longest == Last(DefBuckets)

\* Validate: a resolution of at least ten seconds.
Accepted(timeout) == timeout >= 20000

\* The index at which the loop breaks off.
FirstAbove(timeout) ==
    CHOOSE i \in DOMAIN DefBuckets :
        /\ DefBuckets[i] > timeout
        /\ \A j \in 1..(i - 1) : DefBuckets[j] <= timeout

\* Only the bucket above is compared with the timeout.
CloseToTheNext(timeout, i) == DefBuckets[i] - timeout < Shortest

CloseToABucket(timeout, i) ==
    \/ DefBuckets[i] - timeout < Shortest
    \/ i > 1 /\ timeout - DefBuckets[i - 1] < Shortest

\* A timeout just above the longest bucket is skipped like any other.
BucketsSkippingAbove(timeout) ==
    IF timeout > Longest + Shortest
    THEN DefBuckets \o <<Longest + (timeout - Longest) \div 2, timeout,
                         timeout + timeout \div 2, 2 * timeout>>
    ELSE DefBuckets

BucketsForScrapeDuration(timeout) ==
    CASE timeout > Longest ->
             DefBuckets \o <<Longest + (timeout - Longest) \div 2, timeout,
                             timeout + timeout \div 2, 2 * timeout>>
      [] timeout < Longest ->
             LET i == FirstAbove(timeout)
             IN  IF CloseToABucket(timeout, i) THEN DefBuckets
                 ELSE InsertAt(DefBuckets, i, timeout)
      [] OTHER -> DefBuckets

-----------------------------------------------------------------------------
(* What the comment of the function and monitoring_test.go ask of every    *)
(* timeout, though the test tries three: buckets "in strictly increasing   *)
(* order" that "include some buckets around the scrape timeout".           *)
Increasing(timeout) ==
    LET buckets == BucketsForScrapeDuration(timeout)
    IN  \A i \in 1..(Len(buckets) - 1) : buckets[i] < buckets[i + 1]

PinpointsTimeout(timeout) ==
    LET buckets == BucketsForScrapeDuration(timeout)
        near == IF Accepted(timeout) THEN {timeout}
                ELSE (timeout - Shortest + 1)..(timeout + Shortest - 1)
    IN  \E i \in DOMAIN buckets : buckets[i] \in near
=============================================================================
