--------------------------- MODULE AnomalyTracker ---------------------------
(***************************************************************************)
(* anomaly/AnomalyTracker.cpp: the values of the last mNumOfPastBuckets    *)
(* buckets, kept in a circular array together with their sum, and the test *)
(* of an alert's threshold against that sum and the current bucket.        *)
(*                                                                         *)
(* A DimToValMap is a function on Keys with 0 for a key without entry, and *)
(* a null bucket is the map without entries: no operation below tells them *)
(* apart.  Each operation is an operator from the tracker before to the    *)
(* tracker after.                                                          *)
(***************************************************************************)
EXTENDS Integers, SequencesExt

CONSTANTS Keys,               \* dimension keys
          mNumOfPastBuckets,  \* Alert::num_buckets - 1
          TriggerIfSumGt      \* Alert::trigger_if_sum_gt

ASSUME PastBucketsAssumption == mNumOfPastBuckets \in Nat
ASSUME TriggerAssumption == TriggerIfSumGt \in Int

NoEntries == [k \in Keys |-> 0]

\* Entry by entry: a[k] += b[k]
AddMaps(a, b) == [k \in Keys |-> a[k] + b[k]]

NewTracker == [mPastBuckets |-> [i \in 0..(mNumOfPastBuckets - 1) |-> NoEntries],
               mSumOverPastBuckets |-> NoEntries, mMostRecentBucketNum |-> -1]

resetStorage(tr) ==
    [NewTracker EXCEPT !.mMostRecentBucketNum = tr.mMostRecentBucketNum]

index(n) == n % mNumOfPastBuckets

\* A key without entry in the sum is skipped.
subtractBucketFromSum(sum, bucket) ==
    [k \in Keys |-> IF sum[k] = 0 THEN 0 ELSE sum[k] - bucket[k]]

\* Makes n the most recent bucket; the buckets that fall out of the window
\* leave the array and the sum.
advanceMostRecentBucketTo(tr, n) ==
    LET most == tr.mMostRecentBucketNum
        fresh == [j \in 1..(n - most) |-> index(most + j)] IN
    IF mNumOfPastBuckets <= 0 \/ n <= most THEN tr
    ELSE IF n >= most + mNumOfPastBuckets
         THEN [resetStorage(tr) EXCEPT !.mMostRecentBucketNum = n]
    ELSE [mPastBuckets |-> [i \in DOMAIN tr.mPastBuckets |->
             IF i \in ToSet(fresh) THEN NoEntries ELSE tr.mPastBuckets[i]],
          mSumOverPastBuckets |-> FoldLeft(subtractBucketFromSum, tr.mSumOverPastBuckets,
             [j \in 1..Len(fresh) |-> tr.mPastBuckets[fresh[j]]]),
          mMostRecentBucketNum |-> n]

TooOld(tr, n) ==
    mNumOfPastBuckets = 0 \/ n < 0 \/ n <= tr.mMostRecentBucketNum - mNumOfPastBuckets

\* addPastBucket(bucket, n): sets or replaces a whole bucket.
addPastBucket(tr, bucket, n) ==
    LET room == IF n <= tr.mMostRecentBucketNum
                THEN [tr EXCEPT !.mSumOverPastBuckets =
                        subtractBucketFromSum(@, tr.mPastBuckets[index(n)])]
                ELSE advanceMostRecentBucketTo(tr, n) IN
    IF TooOld(tr, n) THEN tr
    ELSE [room EXCEPT !.mPastBuckets[index(n)] = bucket,
                      !.mSumOverPastBuckets = AddMaps(@, bucket)]

\* addPastBucket(key, value, n): sets or replaces one entry of a bucket.
addPastValue(tr, key, value, n) ==
    IF TooOld(tr, n) THEN tr
    ELSE IF n <= tr.mMostRecentBucketNum
    THEN LET old == [NoEntries EXCEPT ![key] = tr.mPastBuckets[index(n)][key]] IN
         [tr EXCEPT !.mPastBuckets[index(n)][key] = value,
                    !.mSumOverPastBuckets =
                        AddMaps(subtractBucketFromSum(@, old), [NoEntries EXCEPT ![key] = value])]
    ELSE addPastBucket(tr, [NoEntries EXCEPT ![key] = value], n)

getPastBucketValue(tr, key, n) ==
    IF \/ n < 0 \/ tr.mMostRecentBucketNum < 0
       \/ n <= tr.mMostRecentBucketNum - mNumOfPastBuckets \/ n > tr.mMostRecentBucketNum
    THEN 0 ELSE tr.mPastBuckets[index(n)][key]

getSumOverPastBuckets(tr, key) == tr.mSumOverPastBuckets[key]

\* detectAnomaly moves the window up to just before the current bucket n ...
AdvanceForCurrent(tr, n) ==
    IF n > tr.mMostRecentBucketNum + 1 THEN advanceMostRecentBucketTo(tr, n - 1) ELSE tr

\* ... and compares.
detectAnomaly(tr, key, n, value) ==
    getSumOverPastBuckets(AdvanceForCurrent(tr, n), key) + value > TriggerIfSumGt
=============================================================================
