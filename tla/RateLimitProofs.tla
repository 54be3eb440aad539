---------------------------- MODULE RateLimitProofs ----------------------------
(***************************************************************************)
(* Theorems about RateLimit, for every set of users, every limit, window   *)
(* and granularity of the clock.                                           *)
(***************************************************************************)
EXTENDS RateLimit, FiniteSetTheorems, TLAPS

-----------------------------------------------------------------------------
(* What the buckets stand for.                                               *)

\* Time passes: calls are recorded in order and none lies ahead.
InOrder ==
    /\ \A i \in DOMAIN calls : calls[i].at <= now
    /\ \A i, j \in DOMAIN calls : i <= j => calls[i].at <= calls[j].at

\* A bucket holds allowed calls of its user, no more than Limit of them, and has all those
\* of the last window.
Remembered ==
    /\ \A u \in Users : \A i \in buckets[u] : calls[i].allowed /\ calls[i].user = u
    /\ \A u \in Users : Cardinality(buckets[u]) <= Limit
    /\ \A i \in DOMAIN calls :
          calls[i].allowed /\ calls[i].at >= now - Window => i \in buckets[calls[i].user]

\* The wait a refused user was told is over when some action that stood in the way has
\* left the window.
Hinted ==
    \A i \in DOMAIN calls : ~calls[i].allowed =>
        \E k \in InWindow(i) : calls[k].at + Window <= calls[i].at + calls[i].retry * Second

\* ... and no second of it could be left out: until then all of them stand in the way.
Awaited ==
    \A i \in DOMAIN calls : ~calls[i].allowed =>
        \A k \in InWindow(i) :
            calls[i].at + calls[i].retry * Second <= calls[k].at + Window + Second

IInv == TypeOK /\ InOrder /\ Remembered /\ NeverOverLimit /\ RefusalIsDeserved /\ Hinted
          /\ Awaited

-----------------------------------------------------------------------------
(* Building blocks.                                                          *)

LEMMA RetryCovers ==
    ASSUME NEW t \in Nat
    PROVE  /\ RetryAfter(t) \in Nat
           /\ RetryAfter(t) * Second >= t /\ RetryAfter(t) * Second <= t + Second
<1>1. CASE t < Second
  BY <1>1, RateLimitConstants DEF RetryAfter
<1>2. CASE t >= Second
  <2> DEFINE r == (t + Second - 1) \div Second
  <2>1. /\ r \in Nat
        /\ Second * r + ((t + Second - 1) % Second) = t + Second - 1
        /\ (t + Second - 1) % Second < Second
    BY <1>2, RateLimitConstants
  <2>2. Second * r = r * Second
    BY <2>1, RateLimitConstants
  <2>3. r * Second >= t /\ r * Second <= t + Second
    <3> DEFINE p == r * Second
               m == (t + Second - 1) % Second
    <3>1. p \in Nat /\ m \in Nat /\ p + m = t + Second - 1 /\ m < Second
      BY <2>1, <2>2, <1>2, RateLimitConstants
    <3> HIDE DEF p, m
    <3>2. p >= t /\ p <= t + Second
      BY <3>1, RateLimitConstants
    <3>3. QED
      BY <3>2 DEF p
  <2>4. QED
    BY <2>1, <2>3, <1>2, RateLimitConstants DEF RetryAfter
<1>3. QED
  BY <1>1, <1>2, RateLimitConstants

LEMMA Typed ==
    ASSUME IInv
    PROVE  /\ now \in Nat /\ Window \in Nat /\ Second \in Nat /\ Limit \in Nat
           /\ Len(calls) \in Nat /\ DOMAIN calls = 1..Len(calls)
           /\ \A i \in DOMAIN calls : calls[i] \in CallRecords
           /\ \A i \in DOMAIN calls :
                 /\ calls[i].user \in Users /\ calls[i].at \in Nat
                 /\ calls[i].allowed \in BOOLEAN /\ calls[i].retry \in Nat
           /\ buckets \in [Users -> SUBSET (DOMAIN calls)]
<1>1. TypeOK
  BY DEF IInv
<1>2. \A i \in DOMAIN calls : calls[i] \in CallRecords
  BY <1>1 DEF TypeOK
<1>3. \A i \in DOMAIN calls :
         /\ calls[i].user \in Users /\ calls[i].at \in Nat
         /\ calls[i].allowed \in BOOLEAN /\ calls[i].retry \in Nat
  BY <1>2 DEF CallRecords
<1>4. QED
  BY <1>1, <1>2, <1>3, RateLimitConstants DEF TypeOK

\* Sets of calls are finite.
LEMMA CallsAreFinite ==
    ASSUME TypeOK, NEW S \in SUBSET (DOMAIN calls)
    PROVE  IsFiniteSet(S) /\ Cardinality(S) \in Nat
<1>1. Len(calls) \in Nat /\ DOMAIN calls = 1..Len(calls)
  BY DEF TypeOK
<1>2. IsFiniteSet(DOMAIN calls)
  BY <1>1, FS_Interval
<1>3. QED
  BY <1>2, FS_Subset, FS_CardinalityType

LEMMA KeptFacts ==
    ASSUME IInv, NEW u \in Users
    PROVE  /\ Kept(u) \subseteq buckets[u] /\ Kept(u) \subseteq 1..Len(calls)
           /\ IsFiniteSet(Kept(u))
           /\ Cardinality(Kept(u)) \in Nat /\ Cardinality(Kept(u)) <= Limit
<1>1. Kept(u) \subseteq buckets[u] /\ buckets[u] \subseteq DOMAIN calls
  BY DEF IInv, TypeOK, Kept
<1>2. IsFiniteSet(buckets[u]) /\ Cardinality(buckets[u]) \in Nat
  BY <1>1, CallsAreFinite DEF IInv
<1>3. Cardinality(Kept(u)) <= Cardinality(buckets[u])
  BY <1>1, <1>2, FS_Subset
<1>4. IsFiniteSet(Kept(u)) /\ Cardinality(Kept(u)) \in Nat
  BY <1>1, CallsAreFinite DEF IInv
<1>5. DOMAIN calls = 1..Len(calls)
  BY DEF IInv, TypeOK
<1>6. QED
  BY <1>1, <1>2, <1>3, <1>4, <1>5, RateLimitConstants DEF IInv, Remembered

\* What a new record leaves alone, and the window it sees: the timestamps just kept.
LEMMA NewCall ==
    ASSUME IInv, NEW u \in Users, NEW allowed \in BOOLEAN, NEW retry \in Nat,
           Record(u, allowed, retry), UNCHANGED now, NEW n, n = Len(calls) + 1
    PROVE  /\ n \in Nat \ {0}
           /\ calls' \in Seq(CallRecords)
           /\ DOMAIN calls = 1..(n - 1) /\ DOMAIN calls' = 1..n
           /\ \A i \in 1..(n - 1) : calls'[i] = calls[i] /\ InWindow(i)' = InWindow(i)
           /\ calls'[n] = [user |-> u, at |-> now, allowed |-> allowed, retry |-> retry]
           /\ InWindow(n)' = Kept(u)
<1> DEFINE c == [user |-> u, at |-> now, allowed |-> allowed, retry |-> retry]
<1>1. /\ calls \in Seq(CallRecords) /\ c \in CallRecords /\ Len(calls) \in Nat
      /\ calls' = Append(calls, c)
  BY Typed DEF IInv, TypeOK, CallRecords, Record
<1>2. /\ n \in Nat \ {0} /\ calls' \in Seq(CallRecords)
      /\ DOMAIN calls = 1..(n - 1) /\ DOMAIN calls' = 1..n
      /\ \A i \in 1..(n - 1) : calls'[i] = calls[i]
      /\ calls'[n] = c
  BY <1>1
<1>3. ASSUME NEW i \in 1..(n - 1) PROVE InWindow(i)' = InWindow(i)
  <2>1. i \in Nat /\ \A j \in 1..(i - 1) : j \in 1..(n - 1)
    BY <1>2
  <2>2. QED
    BY <2>1, <1>2 DEF InWindow
<1>4. InWindow(n)' = Kept(u)
  <2>1. InWindow(n)' = {j \in 1..(n - 1) : /\ calls[j].allowed /\ calls[j].user = u
                                           /\ calls[j].at >= now - Window}
    <3>1. calls'[n].user = u /\ calls'[n].at = now
      BY <1>2
    <3>2. QED
      BY <1>2, <3>1 DEF InWindow
  <2>2. Remembered
    BY DEF IInv
  <2>3. ASSUME NEW j \in 1..(n - 1), calls[j].allowed, calls[j].user = u,
               calls[j].at >= now - Window
        PROVE  j \in Kept(u)
    BY <2>2, <2>3, <1>2 DEF Remembered, Kept
  <2>4. ASSUME NEW j \in Kept(u)
        PROVE  /\ j \in 1..(n - 1) /\ calls[j].allowed /\ calls[j].user = u
               /\ calls[j].at >= now - Window
    <3>1. j \in buckets[u] /\ calls[j].at >= now - Window
      BY <2>4 DEF Kept
    <3>2. j \in DOMAIN calls
      BY <3>1, Typed
    <3>3. QED
      BY <3>1, <3>2, <2>2, <1>2 DEF Remembered
  <2>5. QED
    BY <2>1, <2>3, <2>4
<1>5. QED
  BY <1>2, <1>3, <1>4

\* A new record keeps the history in order.
LEMMA OrderStays ==
    ASSUME IInv, NEW u \in Users, NEW allowed \in BOOLEAN, NEW retry \in Nat,
           Record(u, allowed, retry), UNCHANGED now
    PROVE  InOrder'
<1>0. PICK n : n = Len(calls) + 1
  OBVIOUS
<1>1. /\ n \in Nat \ {0} /\ DOMAIN calls = 1..(n - 1) /\ DOMAIN calls' = 1..n
      /\ \A i \in 1..(n - 1) : calls'[i] = calls[i]
      /\ calls'[n] = [user |-> u, at |-> now, allowed |-> allowed, retry |-> retry]
  BY <1>0, NewCall
<1>2. now \in Nat /\ now' = now
  BY Typed
<1>3. \A i \in 1..n : calls'[i].at <= now
  BY <1>1, <1>2 DEF IInv, InOrder
<1>4. ASSUME NEW i \in 1..n, NEW j \in 1..n, i <= j
      PROVE  calls'[i].at <= calls'[j].at
  <2>1. CASE j = n
    BY <2>1, <1>1, <1>3
  <2>2. CASE j # n
    <3>1. i \in 1..(n - 1) /\ j \in 1..(n - 1)
      BY <2>2, <1>1, <1>4
    <3>2. QED
      BY <3>1, <1>1, <1>4 DEF IInv, InOrder
  <2>3. QED
    BY <2>1, <2>2
<1>5. QED
  BY <1>1, <1>2, <1>3, <1>4 DEF InOrder

-----------------------------------------------------------------------------
(* The steps.                                                                *)

LEMMA AllowStep ==
    ASSUME IInv, NEW u \in Users, Allow(u)
    PROVE  IInv'
<1>0. PICK n : n = Len(calls) + 1
  OBVIOUS
<1>1. Record(u, TRUE, 0) /\ UNCHANGED now /\ Cardinality(Kept(u)) < Limit
      /\ buckets' = [buckets EXCEPT ![u] = Kept(u) \cup {n}]
  BY <1>0 DEF Allow
<1>2. /\ n \in Nat \ {0} /\ calls' \in Seq(CallRecords)
      /\ DOMAIN calls = 1..(n - 1) /\ DOMAIN calls' = 1..n
      /\ \A i \in 1..(n - 1) : calls'[i] = calls[i] /\ InWindow(i)' = InWindow(i)
      /\ calls'[n] = [user |-> u, at |-> now, allowed |-> TRUE, retry |-> 0]
      /\ InWindow(n)' = Kept(u)
  BY <1>0, <1>1, NewCall
<1>3. now \in Nat /\ now' = now /\ buckets \in [Users -> SUBSET (1..(n - 1))]
  BY <1>1, <1>2, Typed
<1>4. Kept(u) \subseteq 1..(n - 1) /\ IsFiniteSet(Kept(u)) /\ Cardinality(Kept(u)) \in Nat
  BY <1>0, <1>2, KeptFacts
<1>5. /\ buckets'[u] = Kept(u) \cup {n}
      /\ \A v \in Users : v # u => buckets'[v] = buckets[v]
      /\ \A v \in Users : buckets'[v] \subseteq 1..n
      /\ buckets' \in [Users -> SUBSET (1..n)]
  <2>1. Kept(u) \cup {n} \subseteq 1..n /\ \A v \in Users : buckets[v] \subseteq 1..n
    BY <1>2, <1>3, <1>4
  <2>2. QED
    BY <2>1, <1>1, <1>3
<1>6. TypeOK'
  BY <1>2, <1>3, <1>5 DEF IInv, TypeOK
<1>7. InOrder'
  BY <1>1, OrderStays
<1>8. Remembered'
  <2>1. ASSUME NEW v \in Users, NEW i \in buckets'[v]
        PROVE  calls'[i].allowed /\ calls'[i].user = v
    <3>1. CASE i = n /\ v = u
      BY <3>1, <1>2
    <3>2. CASE ~(i = n /\ v = u)
      <4>1. i \in buckets[v] /\ i \in 1..(n - 1)
        BY <3>2, <2>1, <1>2, <1>3, <1>5 DEF Kept
      <4>2. QED
        BY <4>1, <1>2 DEF IInv, Remembered
    <3>3. QED
      BY <3>1, <3>2
  <2>2. ASSUME NEW v \in Users PROVE Cardinality(buckets'[v]) <= Limit
    <3>1. CASE v = u
      <4>1. n \notin Kept(u)
        BY <1>2, <1>4
      <4>2. Cardinality(Kept(u) \cup {n}) = Cardinality(Kept(u)) + 1
        BY <1>4, <4>1, FS_AddElement
      <4>3. QED
        BY <3>1, <4>2, <1>1, <1>4, <1>5, RateLimitConstants
    <3>2. CASE v # u
      BY <3>2, <1>5 DEF IInv, Remembered
    <3>3. QED
      BY <3>1, <3>2
  <2>3. ASSUME NEW i \in 1..n, calls'[i].allowed, calls'[i].at >= now - Window
        PROVE  i \in buckets'[calls'[i].user]
    <3>1. CASE i = n
      BY <3>1, <1>2, <1>5
    <3>2. CASE i # n
      <4>1. i \in 1..(n - 1) /\ calls'[i] = calls[i]
        BY <3>2, <1>2
      <4>2. i \in buckets[calls[i].user] /\ calls[i].user \in Users
        <5>1. Remembered /\ i \in DOMAIN calls
          BY <4>1, <1>2 DEF IInv
        <5>2. QED
          BY <5>1, <4>1, <2>3, Typed DEF Remembered
      <4>3. calls[i].user = u => i \in Kept(u)
        BY <4>1, <4>2, <2>3 DEF Kept
      <4>4. QED
        BY <4>1, <4>2, <4>3, <1>5
    <3>3. QED
      BY <3>1, <3>2
  <2>4. QED
    BY <2>1, <2>2, <2>3, <1>2, <1>3 DEF Remembered
<1>9. NeverOverLimit'
  <2>1. ASSUME NEW i \in 1..n, calls'[i].allowed
        PROVE  Cardinality(InWindow(i)') < Limit
    <3>1. CASE i = n
      <4>1. InWindow(i)' = Kept(u)
        BY <3>1, <1>2
      <4>2. QED
        BY <4>1, <1>1
    <3>2. CASE i # n
      <4>1. i \in 1..(n - 1)
        BY <3>2, <1>2
      <4>2. QED
        BY <4>1, <2>1, <1>2 DEF IInv, NeverOverLimit
    <3>3. QED
      BY <3>1, <3>2
  <2>2. QED
    BY <2>1, <1>2 DEF NeverOverLimit
<1>10. RefusalIsDeserved' /\ Hinted' /\ Awaited'
  <2>1. ASSUME NEW i \in 1..n, ~calls'[i].allowed
        PROVE  /\ i \in 1..(n - 1)
               /\ calls'[i] = calls[i] /\ InWindow(i)' = InWindow(i)
    BY <2>1, <1>2
  <2>2. \A i \in 1..(n - 1) : \A k \in InWindow(i) : k \in 1..(n - 1)
    BY <1>2 DEF InWindow
  <2>3. RefusalIsDeserved'
    BY <2>1, <1>2 DEF IInv, RefusalIsDeserved
  <2>4. Hinted'
    BY <2>1, <2>2, <1>2 DEF IInv, Hinted
  <2>5. Awaited'
    BY <2>1, <2>2, <1>2 DEF IInv, Awaited
  <2>6. QED
    BY <2>3, <2>4, <2>5
<1>11. QED
  BY <1>6, <1>7, <1>8, <1>9, <1>10 DEF IInv

LEMMA RefuseStep ==
    ASSUME IInv, NEW u \in Users, Refuse(u)
    PROVE  IInv'
<1>0. PICK n : n = Len(calls) + 1
  OBVIOUS
<1>1. PICK first \in Kept(u) :
           /\ \A k \in Kept(u) : first <= k
           /\ Record(u, FALSE, RetryAfter(calls[first].at + Window - now))
  BY DEF Refuse
<1> DEFINE w == calls[first].at + Window - now
           r == RetryAfter(w)
<1>2. /\ UNCHANGED now /\ Cardinality(Kept(u)) >= Limit
      /\ buckets' = [buckets EXCEPT ![u] = Kept(u)]
  BY DEF Refuse
<1>3. /\ now \in Nat /\ DOMAIN calls = 1..Len(calls) /\ first \in DOMAIN calls
      /\ calls[first].at \in Nat /\ calls[first].at >= now - Window
  <2>1. first \in buckets[u] /\ calls[first].at >= now - Window
    BY DEF Kept
  <2>2. QED
    BY <2>1, Typed
<1>4. w \in Nat
  BY <1>3, RateLimitConstants
<1> HIDE DEF w
<1>5. r \in Nat /\ r * Second >= w /\ r * Second <= w + Second
  BY <1>4, RetryCovers
<1> HIDE DEF r
<1>6. Record(u, FALSE, r)
  BY <1>1 DEF r, w
<1>7. /\ n \in Nat \ {0} /\ calls' \in Seq(CallRecords)
      /\ DOMAIN calls = 1..(n - 1) /\ DOMAIN calls' = 1..n
      /\ \A i \in 1..(n - 1) : calls'[i] = calls[i] /\ InWindow(i)' = InWindow(i)
      /\ calls'[n] = [user |-> u, at |-> now, allowed |-> FALSE, retry |-> r]
      /\ InWindow(n)' = Kept(u)
  BY <1>0, <1>2, <1>5, <1>6, NewCall
<1>8. now' = now /\ buckets \in [Users -> SUBSET (1..(n - 1))]
  BY <1>2, <1>7, Typed
<1>9. /\ Kept(u) \subseteq 1..(n - 1) /\ Kept(u) \subseteq buckets[u]
      /\ Cardinality(Kept(u)) = Limit
  BY <1>0, <1>2, <1>7, KeptFacts, RateLimitConstants
<1>10. /\ buckets'[u] = Kept(u)
       /\ \A v \in Users : v # u => buckets'[v] = buckets[v]
       /\ buckets' \in [Users -> SUBSET (1..n)]
  <2>1. Kept(u) \subseteq 1..n /\ \A v \in Users : buckets[v] \subseteq 1..n
    BY <1>7, <1>8, <1>9
  <2>2. QED
    BY <2>1, <1>2, <1>8
<1>11. TypeOK'
  BY <1>7, <1>8, <1>10 DEF IInv, TypeOK
<1>12. InOrder'
  BY <1>2, <1>5, <1>6, OrderStays
<1>13. Remembered'
  <2>1. ASSUME NEW v \in Users, NEW i \in buckets'[v]
        PROVE  calls'[i].allowed /\ calls'[i].user = v
    <3>1. i \in buckets[v] /\ i \in 1..(n - 1)
      BY <1>8, <1>9, <1>10, <2>1
    <3>2. QED
      BY <3>1, <1>7 DEF IInv, Remembered
  <2>2. ASSUME NEW v \in Users PROVE Cardinality(buckets'[v]) <= Limit
    BY <1>9, <1>10, RateLimitConstants DEF IInv, Remembered
  <2>3. ASSUME NEW i \in 1..n, calls'[i].allowed, calls'[i].at >= now - Window
        PROVE  i \in buckets'[calls'[i].user]
    <3>1. i \in 1..(n - 1) /\ calls'[i] = calls[i]
      BY <2>3, <1>7
    <3>2. i \in buckets[calls[i].user] /\ calls[i].user \in Users
      <4>1. Remembered /\ i \in DOMAIN calls
        BY <3>1, <1>7 DEF IInv
      <4>2. QED
        BY <4>1, <3>1, <2>3, Typed DEF Remembered
    <3>3. calls[i].user = u => i \in Kept(u)
      BY <3>1, <3>2, <2>3 DEF Kept
    <3>4. QED
      BY <3>1, <3>2, <3>3, <1>10
  <2>4. QED
    BY <2>1, <2>2, <2>3, <1>7, <1>8 DEF Remembered
<1>14. NeverOverLimit'
  <2>1. ASSUME NEW i \in 1..n, calls'[i].allowed
        PROVE  Cardinality(InWindow(i)') < Limit
    <3>1. i \in 1..(n - 1)
      BY <2>1, <1>7
    <3>2. QED
      BY <3>1, <2>1, <1>7 DEF IInv, NeverOverLimit
  <2>2. QED
    BY <2>1, <1>7 DEF NeverOverLimit
<1>15. RefusalIsDeserved'
  <2>1. ASSUME NEW i \in 1..n, ~calls'[i].allowed
        PROVE  Cardinality(InWindow(i)') = Limit
    <3>1. CASE i = n
      <4>1. InWindow(i)' = Kept(u)
        BY <3>1, <1>7
      <4>2. QED
        BY <4>1, <1>9
    <3>2. CASE i # n
      <4>1. i \in 1..(n - 1)
        BY <3>2, <1>7
      <4>2. QED
        BY <4>1, <2>1, <1>7 DEF IInv, RefusalIsDeserved
    <3>3. QED
      BY <3>1, <3>2
  <2>2. QED
    BY <2>1, <1>7 DEF RefusalIsDeserved
<1>16. Hinted'
  <2>1. ASSUME NEW i \in 1..n, ~calls'[i].allowed
        PROVE  \E k \in InWindow(i)' :
                  calls'[k].at + Window <= calls'[i].at + calls'[i].retry * Second
    <3>1. CASE i = n
      <4>1. first \in InWindow(i)' /\ calls'[first] = calls[first]
        BY <3>1, <1>7, <1>9
      <4> DEFINE p == r * Second
      <4>2. p \in Nat /\ p >= calls[first].at + Window - now
        BY <1>5, RateLimitConstants DEF w
      <4> HIDE DEF p
      <4>3. calls[first].at + Window <= now + p
        BY <4>2, <1>3, RateLimitConstants
      <4>4. calls'[i].at = now /\ calls'[i].retry = r
        BY <3>1, <1>7
      <4>5. QED
        BY <4>1, <4>3, <4>4 DEF p
    <3>2. CASE i # n
      <4>1. i \in 1..(n - 1)
        BY <3>2, <1>7
      <4>2. PICK k \in InWindow(i) :
                 calls[k].at + Window <= calls[i].at + calls[i].retry * Second
        BY <4>1, <2>1, <1>7 DEF IInv, Hinted
      <4>3. k \in 1..(n - 1)
        BY <4>1, <4>2, <1>7 DEF InWindow
      <4>4. QED
        BY <4>1, <4>2, <4>3, <1>7
    <3>3. QED
      BY <3>1, <3>2
  <2>2. QED
    BY <2>1, <1>7 DEF Hinted
<1>17. Awaited'
  <2>1. ASSUME NEW i \in 1..n, ~calls'[i].allowed, NEW k \in InWindow(i)'
        PROVE  calls'[i].at + calls'[i].retry * Second <= calls'[k].at + Window + Second
    <3>1. CASE i = n
      <4>1. k \in Kept(u) /\ k \in 1..(n - 1) /\ calls'[k] = calls[k]
        BY <3>1, <2>1, <1>7, <1>9
      <4>2. first <= k
        BY <1>1, <4>1
      <4>3. calls[first].at <= calls[k].at /\ calls[k].at \in Nat
        BY <1>3, <1>7, <4>1, <4>2, Typed DEF IInv, InOrder
      <4> DEFINE p == r * Second
      <4>4. p \in Nat /\ p <= calls[first].at + Window - now + Second
        BY <1>5, RateLimitConstants DEF w
      <4> HIDE DEF p
      <4>5. now + p <= calls[k].at + Window + Second
        <5>1. \A a, b, c, d, e, f \in Nat :
                 a <= b /\ c <= a + e - d + f => d + c <= b + e + f
          OBVIOUS
        <5>2. QED
          BY <4>3, <4>4, <1>3, <5>1, RateLimitConstants
      <4>6. calls'[i].at = now /\ calls'[i].retry = r
        BY <3>1, <1>7
      <4>7. QED
        BY <4>1, <4>5, <4>6 DEF p
    <3>2. CASE i # n
      <4>1. i \in 1..(n - 1) /\ k \in InWindow(i)
        BY <3>2, <2>1, <1>7
      <4>2. k \in 1..(n - 1)
        BY <4>1, <1>7 DEF InWindow
      <4>3. QED
        BY <4>1, <4>2, <2>1, <1>7 DEF IInv, Awaited
    <3>3. QED
      BY <3>1, <3>2
  <2>2. QED
    BY <2>1, <1>7 DEF Awaited
<1>18. QED
  BY <1>11, <1>12, <1>13, <1>14, <1>15, <1>16, <1>17 DEF IInv

-----------------------------------------------------------------------------
(* The invariant.                                                            *)

\* The empty state, at the start and after a restart.
LEMMA EmptyInv ==
    ASSUME now \in 0..MaxTime, calls = <<>>, buckets = [u \in Users |-> {}]
    PROVE  IInv
<1>1. DOMAIN calls = {} /\ calls \in Seq(CallRecords)
  OBVIOUS
<1>2. \A u \in Users : buckets[u] = {} /\ Cardinality(buckets[u]) = 0
  BY FS_EmptySet
<1>3. TypeOK
  BY <1>1 DEF TypeOK
<1>4. Remembered
  BY <1>1, <1>2, RateLimitConstants DEF Remembered
<1>5. InOrder /\ NeverOverLimit /\ RefusalIsDeserved /\ Hinted /\ Awaited
  BY <1>1 DEF InOrder, NeverOverLimit, RefusalIsDeserved, Hinted, Awaited
<1>6. QED
  BY <1>3, <1>4, <1>5 DEF IInv

\* When time passes the buckets still have what is left in the window.
LEMMA TickStep ==
    ASSUME IInv, Tick
    PROVE  IInv'
<1>1. /\ now \in Nat /\ now' = now + 1 /\ calls' = calls /\ buckets' = buckets
      /\ now' \in 0..MaxTime
      /\ \A i \in DOMAIN calls : calls[i].at \in Nat
  <2>1. now \in 0..MaxTime
    BY DEF IInv, TypeOK
  <2>2. QED
    BY <2>1, Typed, RateLimitConstants DEF Tick
<1>2. TypeOK'
  BY <1>1 DEF IInv, TypeOK
<1>3. InOrder'
  BY <1>1 DEF IInv, InOrder
<1>4. Remembered'
  <2>1. Remembered
    BY DEF IInv
  <2>2. ASSUME NEW i \in DOMAIN calls', calls'[i].allowed, calls'[i].at >= now' - Window
        PROVE  i \in buckets'[calls'[i].user]
    <3>0. i \in DOMAIN calls /\ calls[i].allowed /\ calls[i].at \in Nat
      BY <2>2, <1>1
    <3>1. calls[i].at >= now - Window
      <4>1. calls[i].at >= now' - Window
        BY <2>2, <1>1
      <4>2. now' = now + 1 /\ now \in Nat /\ Window \in Nat
        BY <1>1, Typed
      <4>3. QED
        BY <3>0, <4>1, <4>2
    <3>2. i \in buckets[calls[i].user]
      BY <3>0, <3>1, <2>1 DEF Remembered
    <3>3. QED
      BY <3>2, <1>1
  <2>3. QED
    BY <2>1, <2>2, <1>1 DEF Remembered
<1>5. NeverOverLimit' /\ RefusalIsDeserved' /\ Hinted' /\ Awaited'
  BY <1>1 DEF IInv, NeverOverLimit, RefusalIsDeserved, Hinted, Awaited, InWindow
<1>6. QED
  BY <1>2, <1>3, <1>4, <1>5 DEF IInv

\* The buckets are the window: the inductive invariant holds at every step.
THEOREM Invariance == Spec => []IInv
<1>1. Init => IInv
  BY EmptyInv, RateLimitConstants DEF Init
<1>2. IInv /\ [Next]_vars => IInv'
  <2> SUFFICES ASSUME IInv, [Next]_vars PROVE IInv'
    OBVIOUS
  <2>1. ASSUME NEW u \in Users, Allow(u) PROVE IInv'
    BY <2>1, AllowStep
  <2>2. ASSUME NEW u \in Users, Refuse(u) PROVE IInv'
    BY <2>2, RefuseStep
  <2>3. CASE Tick
    BY <2>3, TickStep
  <2>4. CASE Restart
    <3>1. now' \in 0..MaxTime /\ calls' = <<>> /\ buckets' = [u \in Users |-> {}]
      BY <2>4 DEF Restart, IInv, TypeOK
    <3>2. (now \in 0..MaxTime /\ calls = <<>> /\ buckets = [u \in Users |-> {}] => IInv)'
      BY EmptyInv, PTL
    <3>3. QED
      BY <3>1, <3>2
  <2>5. CASE UNCHANGED vars
    BY <2>5 DEF vars, IInv, TypeOK, InOrder, Remembered, NeverOverLimit,
                RefusalIsDeserved, Hinted, Awaited, InWindow
  <2>6. QED
    BY <2>1, <2>2, <2>3, <2>4, <2>5 DEF Next
<1>3. QED
  BY <1>1, <1>2, PTL DEF Spec

\* Types are kept.
THEOREM TypeCorrect == Spec => []TypeOK
BY Invariance, PTL DEF IInv

\* No user is allowed more than Limit actions in any closed window.
THEOREM LimitHolds == Spec => []NeverOverLimit
BY Invariance, PTL DEF IInv

\* A user is refused only for Limit allowed actions of their own.
THEOREM RefusalsAreDeserved == Spec => []RefusalIsDeserved
BY Invariance, PTL DEF IInv

\* A refused user who waits longer than told is allowed.
THEOREM RetriesAreHonoured == Spec => []RetryIsHonoured
<1>1. IInv => RetryIsHonoured
  <2> SUFFICES ASSUME IInv, NEW i \in DOMAIN calls, NEW j \in DOMAIN calls,
                      i < j, calls[i].user = calls[j].user, ~calls[i].allowed,
                      calls[j].at > calls[i].at + calls[i].retry * Second,
                      \A k \in i..(j - 1) : calls[k].user = calls[i].user => ~calls[k].allowed,
                      ~calls[j].allowed
               PROVE  FALSE
    BY DEF RetryIsHonoured
  <2>1. /\ Len(calls) \in Nat /\ DOMAIN calls = 1..Len(calls)
        /\ \A k \in DOMAIN calls : calls[k] \in CallRecords
    BY DEF IInv, TypeOK
  <2>2. PICK k \in InWindow(i) :
             calls[k].at + Window <= calls[i].at + calls[i].retry * Second
    BY DEF IInv, Hinted
  <2>3. k \in 1..(i - 1) /\ k \in DOMAIN calls
    BY <2>1, <2>2 DEF InWindow
  <2>4. k \notin InWindow(j)
    <3> DEFINE p == calls[i].retry * Second
    <3>1. p \in Nat /\ calls[k].at \in Nat /\ calls[i].at \in Nat /\ calls[j].at \in Nat
      BY <2>1, <2>3, RateLimitConstants DEF CallRecords
    <3>2. calls[k].at + Window <= calls[i].at + p /\ calls[j].at > calls[i].at + p
      BY <2>2
    <3> HIDE DEF p
    <3>3. ~(calls[k].at >= calls[j].at - Window)
      BY <3>1, <3>2, RateLimitConstants
    <3>4. QED
      BY <3>3 DEF InWindow
  <2>5. InWindow(j) \subseteq InWindow(i) \ {k}
    <3>1. ASSUME NEW x \in InWindow(j) PROVE x \in InWindow(i)
      <4>1. /\ x \in 1..(j - 1) /\ x \in DOMAIN calls /\ calls[x].allowed
            /\ calls[x].user = calls[j].user /\ calls[x].at >= calls[j].at - Window
        BY <2>1, <3>1 DEF InWindow
      <4>2. x \in 1..(i - 1)
        BY <4>1, <2>1
      <4>3. calls[i].at <= calls[j].at
        BY <2>1 DEF IInv, InOrder
      <4>4. calls[x].at >= calls[i].at - Window
        <5>1. calls[x].at \in Nat /\ calls[i].at \in Nat /\ calls[j].at \in Nat
          BY <4>1, <2>1 DEF CallRecords
        <5>2. QED
          BY <4>1, <4>3, <5>1, RateLimitConstants
      <4>5. QED
        BY <4>1, <4>2, <4>4 DEF InWindow
    <3>2. QED
      BY <3>1, <2>4
  <2>6. InWindow(i) \subseteq DOMAIN calls /\ IsFiniteSet(InWindow(i))
    <3>1. InWindow(i) \subseteq DOMAIN calls
      BY <2>1 DEF InWindow
    <3>2. QED
      BY <3>1, CallsAreFinite DEF IInv
  <2>7. /\ Cardinality(InWindow(i)) = Limit /\ Cardinality(InWindow(j)) = Limit
    BY DEF IInv, RefusalIsDeserved
  <2>8. /\ IsFiniteSet(InWindow(i) \ {k})
        /\ Cardinality(InWindow(i) \ {k}) = Limit - 1
    BY <2>2, <2>6, <2>7, FS_RemoveElement
  <2>9. Cardinality(InWindow(j)) <= Limit - 1
    BY <2>5, <2>8, FS_Subset
  <2>10. QED
    BY <2>7, <2>9, RateLimitConstants
<1>2. QED
  BY <1>1, Invariance, PTL

\* A user who comes back a second early is refused again.
THEOREM RetriesAreNeeded == Spec => []RetryIsNeeded
<1>1. IInv => RetryIsNeeded
  <2> SUFFICES ASSUME IInv, NEW i \in DOMAIN calls, NEW j \in DOMAIN calls,
                      i < j, calls[i].user = calls[j].user, ~calls[i].allowed,
                      calls[j].at + Second <= calls[i].at + calls[i].retry * Second,
                      calls[j].allowed
               PROVE  FALSE
    BY DEF RetryIsNeeded
  <2>1. Len(calls) \in Nat /\ DOMAIN calls = 1..Len(calls)
    BY Typed
  <2>2. ASSUME NEW k \in InWindow(i) PROVE k \in InWindow(j)
    <3>1. /\ k \in 1..(i - 1) /\ calls[k].allowed /\ calls[k].user = calls[i].user
          /\ k \in 1..(j - 1) /\ k \in DOMAIN calls
      BY <2>1, <2>2 DEF InWindow
    <3> DEFINE p == calls[i].retry * Second
    <3>2. /\ calls[k].at \in Nat /\ calls[i].at \in Nat /\ calls[j].at \in Nat
          /\ calls[i].retry \in Nat /\ Window \in Nat /\ Second \in Nat
      BY <3>1, Typed
    <3>p. p \in Nat
      <4>1. \A a, b \in Nat : a * b \in Nat
        OBVIOUS
      <4>2. QED
        BY <3>2, <4>1
    <3>3. calls[i].at + p <= calls[k].at + Window + Second
      BY <2>2 DEF IInv, Awaited
    <3>4. calls[j].at + Second <= calls[i].at + p
      OBVIOUS
    <3> HIDE DEF p
    <3>5. calls[k].at >= calls[j].at - Window
      <4>1. \A a, b, c, d, e, f \in Nat :
               a + b <= c + d + e /\ f + e <= a + b => c >= f - d
        OBVIOUS
      <4>2. QED
        BY <3>2, <3>p, <3>3, <3>4, <4>1
    <3>6. QED
      BY <3>1, <3>5 DEF InWindow
  <2>3. InWindow(j) \subseteq DOMAIN calls /\ InWindow(i) \subseteq DOMAIN calls
    BY <2>1 DEF InWindow
  <2>4. /\ IsFiniteSet(InWindow(j))
        /\ Cardinality(InWindow(i)) \in Nat /\ Cardinality(InWindow(j)) \in Nat
    BY <2>3, CallsAreFinite DEF IInv
  <2>5. Cardinality(InWindow(i)) <= Cardinality(InWindow(j))
    BY <2>2, <2>4, FS_Subset
  <2>6. Cardinality(InWindow(i)) = Limit /\ Cardinality(InWindow(j)) < Limit
    BY DEF IInv, RefusalIsDeserved, NeverOverLimit
  <2>7. QED
    BY <2>4, <2>5, <2>6, RateLimitConstants
<1>2. QED
  BY <1>1, Invariance, PTL

\* A refused user who waits longer than told is allowed, and one who comes back a second or
\* more too early is refused, for every limit, window and granularity of the clock (Math.max(1, Math.ceil(...))).
THEOREM RetriesAreExact == Spec => []RetryIsExact
BY RetriesAreHonoured, RetriesAreNeeded, PTL DEF RetryIsExact
================================================================================
