------------------------- MODULE RateLimiterProofs -------------------------
(***************************************************************************)
(* The request limits, for every limit, window, delay and finite number of *)
(* requests: no list lets too many through, and none refuses too early.    *)
(***************************************************************************)
EXTENDS RateLimiter, FiniteSetTheorems, TLAPS

\* A set of entries of a list is no larger than the list.
LEMMA FewInList ==
    ASSUME NEW s \in Seq(Requests), NEW S,
           \A r \in S : \E i \in 1..Len(s) : s[i] = r
    PROVE  IsFiniteSet(S) /\ Cardinality(S) <= Len(s)
<1> DEFINE T == {s[i] : i \in 1..Len(s)}
           f == [i \in 1..Len(s) |-> s[i]]
<1>1. Len(s) \in Nat
  OBVIOUS
<1>2. f \in Surjection(1..Len(s), T)
  BY DEF Surjection
<1>3. IsFiniteSet(1..Len(s)) /\ Cardinality(1..Len(s)) = Len(s)
  BY <1>1, FS_Interval
<1>4. IsFiniteSet(T) /\ Cardinality(T) <= Len(s)
  BY <1>2, <1>3, FS_Surjection
<1>5. S \in SUBSET T
  OBVIOUS
<1>6. IsFiniteSet(S) /\ Cardinality(S) <= Cardinality(T)
  BY <1>4, <1>5, FS_Subset
<1>7. Cardinality(S) \in Nat /\ Cardinality(T) \in Nat
  BY <1>4, <1>6, FS_CardinalityType
<1> QED
  BY <1>1, <1>4, <1>6, <1>7

\* A set of requests that holds every entry of a list without repetitions is no
\* smaller than the list.
LEMMA ManyInList ==
    ASSUME NEW s \in Seq(Requests), NEW S \in SUBSET Requests,
           \A i \in 1..Len(s) : s[i] \in S,
           \A i, j \in 1..Len(s) : i < j => s[i] # s[j]
    PROVE  Len(s) <= Cardinality(S)
<1> DEFINE f == [i \in 1..Len(s) |-> s[i]]
<1>1. IsFiniteSet(S)
  BY RateLimiterAssumption, FS_Subset
<1>2. f \in [1..Len(s) -> S]
  OBVIOUS
<1>3. ASSUME NEW i \in 1..Len(s), NEW j \in 1..Len(s), f[i] = f[j] PROVE i = j
  BY <1>3
<1>4. f \in Injection(1..Len(s), S)
  BY <1>2, <1>3 DEF Injection, IsInjective
<1>5. Cardinality(1..Len(s)) <= Cardinality(S)
  BY <1>1, <1>4, FS_Injection
<1>6. Cardinality(1..Len(s)) = Len(s)
  <2> HIDE DEF f
  <2>1. Len(s) \in Nat
    OBVIOUS
  <2>2. Cardinality(1..Len(s)) = IF 1 > Len(s) THEN 0 ELSE Len(s) - 1 + 1
    BY <2>1, FS_Interval
  <2> QED
    BY <2>1, <2>2
<1> QED
  BY <1>5, <1>6

\* What is left of a list without its first n entries.
LEMMA Rest ==
    ASSUME NEW s \in Seq(Requests), NEW n \in 0..Len(s)
    PROVE  LET t == SubSeq(s, n + 1, Len(s)) IN
           /\ t \in Seq(Requests)
           /\ Len(t) = Len(s) - n
           /\ \A i \in 1..Len(t) : n + i \in 1..Len(s) /\ t[i] = s[n + i]
<1>1. CASE n = Len(s)
  <2>1. SubSeq(s, n + 1, Len(s)) = <<>>
    BY <1>1
  <2> QED
    BY <2>1, <1>1
<1>2. CASE n < Len(s)
  BY <1>2
<1> QED
  BY <1>1, <1>2

\* A request that has been refused stays justified while the step of another
\* request only adds to what was admitted.
LEMMA RefusalsStay ==
    ASSUME RefusedOnlyWhenFull, NEW r \in Requests, pc[r] = "refused",
           Limit[bucket[r]] \in Nat,
           pc'[r] = "refused", bucket'[r] = bucket[r], client'[r] = client[r],
           at'[r] = at[r], in'[r] = in[r],
           \A q \in Requests : pc[q] = "admitted" =>
               /\ pc'[q] = "admitted" /\ bucket'[q] = bucket[q]
               /\ client'[q] = client[q] /\ in'[q] = in[q]
    PROVE  Cardinality({q \in AdmittedSince(bucket[r], client[r], at[r] - Window)' :
                          in'[q] <= in'[r]}) >= Limit[bucket'[r]]
<1> DEFINE S == {q \in AdmittedSince(bucket[r], client[r], at[r] - Window) : in[q] <= in[r]}
           T == {q \in AdmittedSince(bucket[r], client[r], at[r] - Window)' : in'[q] <= in'[r]}
<1>1. S \in SUBSET T /\ T \in SUBSET Requests
  BY DEF AdmittedSince
<1>2. IsFiniteSet(T)
  BY <1>1, RateLimiterAssumption, FS_Subset
<1>3. IsFiniteSet(S) /\ Cardinality(S) <= Cardinality(T)
  BY <1>1, <1>2, FS_Subset
<1>4. Cardinality(S) \in Nat /\ Cardinality(T) \in Nat
  BY <1>2, <1>3, FS_CardinalityType
<1>5. Cardinality(S) >= Limit[bucket[r]]
  BY DEF RefusedOnlyWhenFull
<1> QED
  BY <1>3, <1>4, <1>5

LEMMA InitIInv == Init => IInv
<1> SUFFICES ASSUME Init PROVE IInv
  OBVIOUS
<1> USE RateLimiterAssumption DEF Init
<1>1. TypeOK
  BY DEF TypeOK
<1>2. WithinLimit /\ InOrder
  BY DEF WithinLimit, InOrder
<1>3. Stamped /\ Remembered /\ RefusedOnlyWhenFull
  BY DEF Stamped, Remembered, RefusedOnlyWhenFull
<1> QED
  BY <1>1, <1>2, <1>3 DEF IInv

LEMMA ArriveKeeps ==
    ASSUME IInv, NEW r \in Requests, NEW route \in Routes, NEW c \in Clients,
           Arrive(r, route, c)
    PROVE  IInv'
<1> USE RateLimiterAssumption DEF IInv
<1>1. BucketName(route) \in Buckets
  <2>1. route.area \in {"auth", "sync", "other"}
    OBVIOUS
  <2> QED
    BY <2>1 DEF BucketName, Buckets
<1>2. TypeOK'
  BY <1>1 DEF TypeOK, Arrive
<1>3. WithinLimit'
  BY DEF WithinLimit, Arrive
<1>4. Stamped'
  BY DEF Stamped, Arrive, TypeOK
<1>5. Remembered'
  BY DEF Remembered, Arrive, TypeOK
<1>6. InOrder'
  <2> SUFFICES ASSUME NEW b \in Buckets, NEW d \in Clients,
                      NEW i \in 1..Len(hits[b][d]), NEW j \in 1..Len(hits[b][d])
               PROVE  /\ pc'[hits[b][d][i]] = "admitted"
                      /\ bucket'[hits[b][d][i]] = b /\ client'[hits[b][d][i]] = d
                      /\ i < j => /\ hits[b][d][i] # hits[b][d][j]
                                  /\ in'[hits[b][d][i]] <= in'[hits[b][d][j]]
    BY DEF InOrder, Arrive
  <2> DEFINE x == hits[b][d][i]
             y == hits[b][d][j]
  <2>1. x \in Requests /\ y \in Requests
    BY DEF TypeOK
  <2>2. /\ pc[x] = "admitted" /\ pc[y] = "admitted" /\ bucket[x] = b /\ client[x] = d
        /\ i < j => x # y /\ in[x] <= in[y]
    BY DEF InOrder
  <2> HIDE DEF x, y
  <2>3. /\ x # r /\ y # r /\ in' = in
        /\ \A q \in Requests : q # r =>
              pc'[q] = pc[q] /\ bucket'[q] = bucket[q] /\ client'[q] = client[q]
    BY <2>2 DEF Arrive, TypeOK
  <2>4. /\ pc'[x] = "admitted" /\ bucket'[x] = b /\ client'[x] = d
        /\ i < j => x # y /\ in'[x] <= in'[y]
    BY <2>1, <2>2, <2>3
  <2> QED
    BY <2>4 DEF x, y
<1>7. RefusedOnlyWhenFull'
  <2> SUFFICES ASSUME NEW q \in Requests, pc'[q] = "refused"
               PROVE  Cardinality({x \in AdmittedSince(bucket[q], client[q], at[q] - Window)' :
                                     in'[x] <= in'[q]}) >= Limit[bucket'[q]]
    BY DEF RefusedOnlyWhenFull, AdmittedSince
  <2>1. q # r /\ pc[q] = "refused" /\ bucket[q] \in Buckets
    BY DEF Arrive, TypeOK
  <2> QED
    BY <2>1, RefusalsStay DEF Arrive, TypeOK
<1> QED
  BY <1>2, <1>3, <1>4, <1>5, <1>6, <1>7

LEMMA TickKeeps == IInv /\ Tick => IInv'
<1> SUFFICES ASSUME IInv, Tick PROVE IInv'
  OBVIOUS
<1> USE RateLimiterAssumption DEF IInv
<1>1. clock \in Nat /\ clock' = clock + 1
  BY DEF Tick, TypeOK
<1>2. TypeOK'
  BY <1>1 DEF TypeOK, Tick
<1>3. WithinLimit' /\ InOrder'
  BY DEF WithinLimit, InOrder, Tick
<1>4. Stamped'
  BY <1>1 DEF Stamped, Tick, TypeOK
<1>5. Remembered'
  <2> SUFFICES ASSUME NEW q \in Requests, pc[q] = "admitted"
               PROVE  \/ \E i \in 1..Len(hits[bucket[q]][client[q]]) :
                            hits[bucket[q]][client[q]][i] = q
                      \/ at[q] <= clock' - Window
    BY DEF Remembered, Tick
  <2>1. at[q] \in Nat /\ Window \in Nat
    BY DEF TypeOK
  <2> QED
    BY <2>1, <1>1 DEF Remembered
<1>6. RefusedOnlyWhenFull'
  BY DEF RefusedOnlyWhenFull, AdmittedSince, Tick
<1> QED
  BY <1>2, <1>3, <1>4, <1>5, <1>6

\* Under the mutex: the hits that are dropped are old, the ones that stay are the
\* end of the list, and the request is appended or finds its limit used up.
LEMMA AllowKeeps == ASSUME IInv, NEW r \in Requests, Allow(r) PROVE IInv'
<1> USE RateLimiterAssumption DEF IInv
<1>0. PICK b \in Buckets, c \in Clients, h \in Seq(Requests) :
        b = bucket[r] /\ c = client[r] /\ h = hits[b][c]
  BY DEF Allow, TypeOK
<1>1. /\ Len(h) \in Nat /\ Limit[b] \in Nat /\ Window \in Nat
      /\ pc[r] = "waiting" /\ clock \in Nat /\ at[r] \in Nat
      /\ at[r] <= clock /\ clock <= at[r] + MaxDelay
      /\ in' = [in EXCEPT ![r] = clock]
      /\ UNCHANGED <<clock, bucket, client, at>>
  BY <1>0 DEF Allow, TypeOK, Stamped
<1>pick. PICK n \in 0..Len(h) : LET kept == SubSeq(h, n + 1, Len(h)) IN
        /\ Stale(h, at[r], n)
        /\ \/ /\ Full(kept, b)
              /\ pc' = [pc EXCEPT ![r] = "refused"]
              /\ hits' = [hits EXCEPT ![b][c] = kept]
           \/ /\ ~Full(kept, b)
              /\ pc' = [pc EXCEPT ![r] = "admitted"]
              /\ hits' = [hits EXCEPT ![b][c] = Append(kept, r)]
  BY <1>0 DEF Allow
<1> DEFINE old == SubSeq(h, n + 1, Len(h))
<1>2. /\ Stale(h, at[r], n)
      /\ \/ /\ Full(old, b)
            /\ pc' = [pc EXCEPT ![r] = "refused"]
            /\ hits' = [hits EXCEPT ![b][c] = old]
         \/ /\ ~Full(old, b)
            /\ pc' = [pc EXCEPT ![r] = "admitted"]
            /\ hits' = [hits EXCEPT ![b][c] = Append(old, r)]
  BY <1>pick
<1>3. /\ old \in Seq(Requests) /\ Len(old) = Len(h) - n /\ Len(old) \in Nat
      /\ \A i \in 1..Len(old) : n + i \in 1..Len(h) /\ old[i] = h[n + i]
  <2>1. /\ old \in Seq(Requests) /\ Len(old) = Len(h) - n
        /\ \A i \in 1..Len(old) : n + i \in 1..Len(h) /\ old[i] = h[n + i]
    BY Rest
  <2> HIDE DEF old
  <2> QED
    BY <2>1
<1> HIDE DEF old
<1>4. /\ \A i \in 1..Len(h) : /\ h[i] \in Requests /\ h[i] # r
                              /\ pc[h[i]] = "admitted" /\ bucket[h[i]] = b /\ client[h[i]] = c
                              /\ in[h[i]] \in Nat /\ at[h[i]] \in Nat
                              /\ at[h[i]] <= in[h[i]] /\ in[h[i]] <= clock
      /\ \A i, j \in 1..Len(h) : i < j => h[i] # h[j] /\ in[h[i]] <= in[h[j]]
  <2>1. \A i \in 1..Len(h) : h[i] \in Requests
    OBVIOUS
  <2>2. \A i, j \in 1..Len(h) :
          /\ pc[h[i]] = "admitted" /\ bucket[h[i]] = b /\ client[h[i]] = c
          /\ i < j => h[i] # h[j] /\ in[h[i]] <= in[h[j]]
    <3>1. \A i, j \in 1..Len(hits[b][c]) :
            /\ pc[hits[b][c][i]] = "admitted"
            /\ bucket[hits[b][c][i]] = b /\ client[hits[b][c][i]] = c
            /\ i < j => /\ hits[b][c][i] # hits[b][c][j]
                        /\ in[hits[b][c][i]] <= in[hits[b][c][j]]
      BY Zenon DEF InOrder
    <3>2. h = hits[b][c]
      BY <1>0
    <3> QED
      BY ONLY <3>1, <3>2
  <2>3. \A q \in Requests : pc[q] = "admitted" =>
          /\ q # r /\ in[q] \in Nat /\ at[q] \in Nat
          /\ at[q] <= in[q] /\ in[q] <= clock
    BY <1>1 DEF TypeOK, Stamped
  <2> QED
    BY <2>1, <2>2, <2>3
<1>5. /\ \A i \in 1..n : at[h[i]] <= at[r] - Window
      /\ n < Len(h) => at[h[n + 1]] > at[r] - Window
  BY <1>2 DEF Stale
<1>6. PICK new \in Seq(Requests) :
        /\ hits' = [hits EXCEPT ![b][c] = new]
        /\ \/ Full(old, b) /\ pc' = [pc EXCEPT ![r] = "refused"] /\ new = old
           \/ ~Full(old, b) /\ pc' = [pc EXCEPT ![r] = "admitted"] /\ new = Append(old, r)
  <2>1. Append(old, r) \in Seq(Requests)
    BY <1>3
  <2> QED
    BY <2>1, <1>2, <1>3
<1>7. /\ \A q \in Requests : q # r => pc'[q] = pc[q] /\ in'[q] = in[q]
      /\ in'[r] = clock /\ in' \in [Requests -> 0..MaxTime]
      /\ pc'[r] \in {"admitted", "refused"}
      /\ pc' \in [Requests -> {"new", "waiting", "admitted", "refused"}]
  BY <1>1, <1>6 DEF TypeOK
<1>hits. /\ \A d \in Buckets, e \in Clients : <<d, e>> # <<b, c>> => hits'[d][e] = hits[d][e]
         /\ hits' \in [Buckets -> [Clients -> Seq(Requests)]]
         /\ hits'[b][c] = new
  BY <1>6 DEF TypeOK
\* The new list: entries of the old one, shifted, and perhaps the request itself.
<1>8. /\ Len(new) \in Nat /\ Len(new) <= Limit[b]
      /\ \A i \in 1..Len(new) :
            \/ i \in 1..Len(old) /\ n + i \in 1..Len(h) /\ new[i] = h[n + i]
            \/ i = Len(old) + 1 /\ new[i] = r /\ pc'[r] = "admitted"
      /\ Len(old) <= Len(new)
      /\ pc'[r] = "admitted" => Len(new) = Len(old) + 1 /\ new[Len(old) + 1] = r
      /\ \A i \in 1..Len(old) : new[i] = h[n + i]
  <2>0. \/ Full(old, b) /\ pc'[r] = "refused" /\ new = old
        \/ ~Full(old, b) /\ pc'[r] = "admitted" /\ new = Append(old, r)
    BY <1>6 DEF TypeOK
  <2>1. CASE Full(old, b) /\ pc'[r] = "refused" /\ new = old
    <3>1. Len(h) <= Limit[b]
      BY <1>0 DEF WithinLimit
    <3> QED
      BY <1>1, <1>3, <2>1, <3>1
  <2>2. CASE ~Full(old, b) /\ pc'[r] = "admitted" /\ new = Append(old, r)
    <3>1. /\ Len(new) = Len(old) + 1 /\ new[Len(old) + 1] = r
          /\ \A i \in 1..Len(old) : new[i] = old[i]
      BY <1>3, <2>2
    <3>2. Len(old) < Limit[b]
      BY <1>1, <1>3, <2>2 DEF Full
    <3>3. \A i \in 1..Len(new) : i \in 1..Len(old) \/ i = Len(old) + 1
      BY <1>3, <3>1
    <3>4. Len(new) \in Nat /\ Len(new) <= Limit[b] /\ Len(old) <= Len(new)
      BY <1>1, <1>3, <3>1, <3>2
    <3>5. \A i \in 1..Len(old) : new[i] = h[n + i] /\ n + i \in 1..Len(h)
      BY <1>3, <3>1
    <3> QED
      BY <2>2, <3>1, <3>3, <3>4, <3>5
  <2> QED
    BY <2>0, <2>1, <2>2
<1>9. TypeOK'
  BY <1>1, <1>7, <1>hits DEF TypeOK
<1>10. WithinLimit'
  <2> SUFFICES ASSUME NEW d \in Buckets, NEW e \in Clients
               PROVE  Len(hits'[d][e]) <= Limit[d]
    BY DEF WithinLimit
  <2>1. CASE <<d, e>> = <<b, c>>
    BY <2>1, <1>hits, <1>8
  <2>2. CASE <<d, e>> # <<b, c>>
    BY <2>2, <1>hits DEF WithinLimit
  <2> QED
    BY <2>1, <2>2
<1>11. Stamped'
  <2> SUFFICES ASSUME NEW q \in Requests
               PROVE  /\ pc'[q] = "waiting" => at[q] <= clock /\ clock <= at[q] + MaxDelay
                      /\ pc'[q] \in {"admitted", "refused"} =>
                           /\ at[q] <= in'[q] /\ in'[q] <= clock
                           /\ in'[q] <= at[q] + MaxDelay
    BY <1>1 DEF Stamped
  <2>1. CASE q = r
    BY <2>1, <1>1, <1>6, <1>7
  <2>2. CASE q # r
    BY <2>2, <1>7 DEF Stamped
  <2> QED
    BY <2>1, <2>2
<1>12. Remembered'
  <2> SUFFICES ASSUME NEW q \in Requests, pc'[q] = "admitted"
               PROVE  \/ \E i \in 1..Len(hits'[bucket[q]][client[q]]) :
                            hits'[bucket[q]][client[q]][i] = q
                      \/ at[q] <= clock - Window
    BY <1>1 DEF Remembered
  <2>1. CASE q = r
    <3>1. Len(old) + 1 \in 1..Len(new) /\ new[Len(old) + 1] = r
      BY <2>1, <1>3, <1>8
    <3> QED
      BY <2>1, <3>1, <1>0, <1>hits
  <2>2. CASE q # r
    <3>1. /\ pc[q] = "admitted" /\ at[q] \in Nat
          /\ bucket[q] \in Buckets /\ client[q] \in Clients
      BY <2>2, <1>7 DEF TypeOK
    <3>2. CASE <<bucket[q], client[q]>> # <<b, c>>
      BY <3>1, <3>2, <1>hits DEF Remembered
    <3>3. CASE <<bucket[q], client[q]>> = <<b, c>>
      <4>1. CASE at[q] <= clock - Window
        BY <4>1
      <4>2. CASE ~(at[q] <= clock - Window)
        <5>0. bucket[q] = b /\ client[q] = c /\ h = hits[b][c]
          BY <3>3, <1>0
        <5>remembered. \/ \E i \in 1..Len(hits[bucket[q]][client[q]]) :
                             hits[bucket[q]][client[q]][i] = q
                       \/ at[q] <= clock - Window
          BY <3>1 DEF Remembered
        <5>1. PICK k \in 1..Len(h) : h[k] = q
          BY ONLY <5>0, <5>remembered, <4>2
        <5>2. ~(k <= n)
          <6>1. k <= n => at[q] <= at[r] - Window
            BY ONLY <1>5, <5>1
          <6> QED
            BY <6>1, <4>2, <1>1, <3>1
        <5>3. k - n \in 1..Len(old) /\ new[k - n] = h[n + (k - n)]
          BY <5>1, <5>2, <1>1, <1>3, <1>8
        <5>4. k - n \in 1..Len(new) /\ new[k - n] = q
          BY <5>1, <5>3, <1>3, <1>8
        <5> QED
          BY <5>4, <3>3, <1>hits
      <4> QED
        BY <4>1, <4>2
    <3> QED
      BY <3>2, <3>3
  <2> QED
    BY <2>1, <2>2
<1>13. InOrder'
  <2> SUFFICES ASSUME NEW d \in Buckets, NEW e \in Clients,
                      NEW i \in 1..Len(hits'[d][e]), NEW j \in 1..Len(hits'[d][e])
               PROVE  LET l == hits'[d][e] IN
                      /\ pc'[l[i]] = "admitted"
                      /\ bucket[l[i]] = d /\ client[l[i]] = e
                      /\ i < j => l[i] # l[j] /\ in'[l[i]] <= in'[l[j]]
    BY <1>1 DEF InOrder
  <2>1. CASE <<d, e>> = <<b, c>>
    <3>1. i \in 1..Len(new) /\ j \in 1..Len(new) /\ new = hits'[d][e]
      BY <2>1, <1>hits
    <3>2. pc'[new[i]] = "admitted" /\ bucket[new[i]] = b /\ client[new[i]] = c
      <4>1. CASE i \in 1..Len(old) /\ n + i \in 1..Len(h) /\ new[i] = h[n + i]
        <5>1. /\ h[n + i] \in Requests /\ h[n + i] # r /\ pc[h[n + i]] = "admitted"
              /\ bucket[h[n + i]] = b /\ client[h[n + i]] = c
          BY ONLY <4>1, <1>4
        <5> QED
          BY ONLY <4>1, <5>1, <1>7
      <4>2. CASE new[i] = r /\ pc'[r] = "admitted"
        BY <4>2, <1>0
      <4> QED
        BY <4>1, <4>2, <3>1, <1>8
    <3>3. ASSUME i < j PROVE new[i] # new[j] /\ in'[new[i]] <= in'[new[j]]
      <4>1. i \in 1..Len(old) /\ n + i \in 1..Len(h) /\ new[i] = h[n + i]
        BY <3>1, <3>3, <1>3, <1>8
      <4>2. CASE j \in 1..Len(old) /\ n + j \in 1..Len(h) /\ new[j] = h[n + j]
        <5>1. n + i < n + j
          BY <3>1, <3>3, <1>8
        <5>2. h[n + i] # h[n + j] /\ in[h[n + i]] <= in[h[n + j]]
          BY <4>1, <4>2, <5>1, <1>4
        <5> QED
          BY <4>1, <4>2, <5>2, <1>4, <1>7
      <4>3. CASE new[j] = r
        BY <4>1, <4>3, <1>1, <1>4, <1>7
      <4> QED
        BY <4>2, <4>3, <3>1, <1>8
    <3> QED
      BY <3>1, <3>2, <3>3, <2>1
  <2>2. CASE <<d, e>> # <<b, c>>
    <3>1. hits'[d][e] = hits[d][e] /\ hits[d][e] \in Seq(Requests)
      BY <2>2, <1>hits DEF TypeOK
    <3>2. /\ hits[d][e][i] \in Requests /\ hits[d][e][j] \in Requests
          /\ pc[hits[d][e][i]] = "admitted" /\ pc[hits[d][e][j]] = "admitted"
      BY <3>1 DEF InOrder
    <3>3. hits[d][e][i] # r /\ hits[d][e][j] # r
      BY <3>2, <1>1
    <3>4. /\ bucket[hits[d][e][i]] = d /\ client[hits[d][e][i]] = e
          /\ i < j => /\ hits[d][e][i] # hits[d][e][j]
                      /\ in[hits[d][e][i]] <= in[hits[d][e][j]]
      BY <3>1 DEF InOrder
    <3> QED
      BY <3>1, <3>2, <3>3, <3>4, <1>7
  <2> QED
    BY <2>1, <2>2
<1>14. RefusedOnlyWhenFull'
  <2> SUFFICES ASSUME NEW q \in Requests, pc'[q] = "refused"
               PROVE  Cardinality({x \in AdmittedSince(bucket[q], client[q], at[q] - Window)' :
                                     in'[x] <= in'[q]}) >= Limit[bucket'[q]]
    BY <1>1 DEF RefusedOnlyWhenFull, AdmittedSince
  <2>1. CASE q # r
    <3>1. pc[q] = "refused" /\ Limit[bucket[q]] \in Nat
      BY <2>1, <1>7 DEF TypeOK
    <3>2. \A x \in Requests : pc[x] = "admitted" => x # r
      BY <1>1
    <3> QED
      BY <2>1, <3>1, <3>2, <1>1, <1>7, RefusalsStay
  <2>2. CASE q = r
    <3> DEFINE T == {x \in AdmittedSince(b, c, at[r] - Window)' : in'[x] <= in'[r]}
    <3>1. new = old /\ Full(old, b)
      BY <2>2, <1>6 DEF TypeOK
    <3>2. T \in SUBSET Requests
      BY DEF AdmittedSince
    <3>3. ASSUME NEW i \in 1..Len(old) PROVE old[i] \in T
      <4>1. n + i \in 1..Len(h) /\ old[i] = h[n + i] /\ n + 1 \in 1..Len(h) /\ n < Len(h)
        BY <1>1, <1>3
      <4>2. in[h[n + 1]] <= in[h[n + i]]
        <5>1. n + 1 < n + i \/ n + 1 = n + i
          BY <1>1
        <5> QED
          BY <5>1, <4>1, <1>4
      <4>3. /\ at[h[n + 1]] \in Nat /\ in[h[n + 1]] \in Nat
            /\ at[h[n + 1]] <= in[h[n + 1]] /\ at[h[n + 1]] > at[r] - Window
        BY <4>1, <1>4, <1>5
      <4>4. /\ h[n + i] \in Requests /\ h[n + i] # r
            /\ pc[h[n + i]] = "admitted" /\ bucket[h[n + i]] = b /\ client[h[n + i]] = c
            /\ in[h[n + i]] \in Nat /\ in[h[n + i]] <= clock
        BY <4>1, <1>4
      <4>5. in[h[n + i]] > at[r] - Window
        <5>1. at[r] \in Int /\ Window \in Int /\ at[r] - Window \in Int
          BY <1>1
        <5> DEFINE low == at[r] - Window
        <5>2. low \in Int /\ at[h[n + 1]] > low
          BY <5>1, <4>3
        <5> HIDE DEF low
        <5>3. in[h[n + i]] > low
          BY <5>2, <4>2, <4>3, <4>4
        <5> QED
          BY <5>3 DEF low
      <4>6. /\ pc'[h[n + i]] = "admitted" /\ in'[h[n + i]] = in[h[n + i]]
            /\ in'[h[n + i]] <= in'[r]
        BY <4>4, <1>7
      <4> QED
        BY <4>1, <4>4, <4>5, <4>6, <1>1 DEF AdmittedSince
    <3>4. \A i, j \in 1..Len(old) : i < j => old[i] # old[j]
      <4> SUFFICES ASSUME NEW i \in 1..Len(old), NEW j \in 1..Len(old), i < j
                   PROVE  old[i] # old[j]
        OBVIOUS
      <4>1. /\ n + i < n + j /\ n + i \in 1..Len(h) /\ n + j \in 1..Len(h)
            /\ old[i] = h[n + i] /\ old[j] = h[n + j]
        BY <1>1, <1>3
      <4>2. h[n + i] # h[n + j]
        BY <4>1, <1>4
      <4> QED
        BY <4>1, <4>2
    <3> HIDE DEF T
    <3>5. Len(old) <= Cardinality(T)
      BY <3>2, <3>3, <3>4, <1>3, ManyInList
    <3>6. Cardinality(T) \in Nat
      BY <3>2, FS_Subset, FS_CardinalityType
    <3>7. Cardinality(T) >= Limit[b]
      BY <3>1, <3>5, <3>6, <1>1, <1>3 DEF Full
    <3> QED
      BY <3>7, <2>2, <1>0, <1>1 DEF T, AdmittedSince
  <2> QED
    BY <2>1, <2>2
<1> QED
  BY <1>9, <1>10, <1>11, <1>12, <1>13, <1>14

\* The inductive invariant holds in every reachable state.
THEOREM LimiterInvariant == Spec => []IInv
<1>1. IInv /\ [Next]_vars => IInv'
  <2> SUFFICES ASSUME IInv, [Next]_vars PROVE IInv'
    OBVIOUS
  <2>1. CASE Next
    BY <2>1, ArriveKeeps, AllowKeeps, TickKeeps DEF Next
  <2>2. CASE UNCHANGED vars
    BY <2>2 DEF vars, IInv, TypeOK, WithinLimit, Stamped, Remembered, InOrder,
                RefusedOnlyWhenFull, AdmittedSince
  <2> QED
    BY <2>1, <2>2
<1> QED
  BY <1>1, InitIInv, PTL DEF Spec

\* No request is refused before its client has used up its limit in the bucket.
THEOREM RefusalsJustified == Spec => []RefusedOnlyWhenFull
<1>1. IInv => RefusedOnlyWhenFull
  BY DEF IInv
<1> QED
  BY <1>1, LimiterInvariant, PTL

\* In every window, shortened by the longest delay between clock and mutex, a
\* client makes at most as many requests of a bucket as its limit.
THEOREM LimitKept == Spec => []AtMostLimit
<1>1. IInv => AtMostLimit
  <2> USE RateLimiterAssumption DEF IInv
  <2> SUFFICES ASSUME IInv, NEW b \in Buckets, NEW c \in Clients
               PROVE  Cardinality(AdmittedSince(b, c, clock - (Window - MaxDelay))) <= Limit[b]
    BY DEF AtMostLimit
  <2> DEFINE S == AdmittedSince(b, c, clock - (Window - MaxDelay))
  <2>1. ASSUME NEW r \in S PROVE \E i \in 1..Len(hits[b][c]) : hits[b][c][i] = r
    <3>1. /\ r \in Requests /\ pc[r] = "admitted" /\ bucket[r] = b /\ client[r] = c
          /\ in[r] > clock - (Window - MaxDelay)
      BY <2>1 DEF AdmittedSince
    <3>2. in[r] <= at[r] + MaxDelay /\ at[r] \in Nat /\ in[r] \in Nat /\ clock \in Nat
      BY <3>1 DEF Stamped, TypeOK
    <3>3. ~(at[r] <= clock - Window)
      BY <3>1, <3>2
    <3> QED
      BY <3>1, <3>3 DEF Remembered
  <2>2. hits[b][c] \in Seq(Requests) /\ Len(hits[b][c]) <= Limit[b] /\ Limit[b] \in Nat
    BY DEF TypeOK, WithinLimit
  <2> HIDE DEF S
  <2>3. IsFiniteSet(S) /\ Cardinality(S) <= Len(hits[b][c])
    BY <2>1, <2>2, FewInList
  <2>4. Cardinality(S) \in Nat /\ Len(hits[b][c]) \in Nat
    BY <2>2, <2>3, FS_CardinalityType
  <2> QED
    BY <2>2, <2>3, <2>4 DEF S
<1> QED
  BY <1>1, LimiterInvariant, PTL
=============================================================================
