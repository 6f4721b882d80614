---------------------------- MODULE RateLimiter ----------------------------
(***************************************************************************)
(* The sliding-window request limits of                                    *)
(* src/backend/internal/httpapi/security.go: one list of admitted hits for *)
(* each bucket and client address.  A handler reads the clock before it    *)
(* waits for the bucket's mutex, so hits may be appended out of the order  *)
(* of their time stamps; MaxDelay bounds how long a handler may be held    *)
(* between the two, and is zero when none ever is.                         *)
(***************************************************************************)
EXTENDS Integers, Sequences, FiniteSets

CONSTANTS Requests,  \* requests, each made once
          Clients,   \* client addresses
          Routes,    \* the method and path classes of requests
          Limit,     \* the configured limit of each bucket
          Window,    \* length of the window
          MaxDelay,  \* longest wait between reading the clock and the mutex
          MaxTime,   \* bound on the clock
          None       \* no client and no bucket

Buckets == {"auth", "sync", "export", "mutation"}

ASSUME RateLimiterAssumption ==
    /\ IsFiniteSet(Requests)
    /\ Limit \in [Buckets -> Nat \ {0}]
    /\ Window \in Nat \ {0} /\ MaxDelay \in Nat /\ MaxTime \in Nat
    /\ Routes \subseteq [area : {"auth", "sync", "other"}, export : BOOLEAN,
                         method : {"GET", "HEAD", "OPTIONS", "POST"}]

VARIABLES
    clock,
    pc,      \* "new", "waiting" for the mutex, "admitted" or "refused"
    bucket,  \* the bucket that a request is counted in
    client,
    at,      \* the time stamp that a request's handler read
    in,      \* the time at which it held the mutex
    hits     \* the requests each list holds, in the order they were appended

vars == <<clock, pc, bucket, client, at, in, hits>>

Init ==
    /\ clock = 0
    /\ pc = [r \in Requests |-> "new"]
    /\ bucket = [r \in Requests |-> None]
    /\ client = [r \in Requests |-> None]
    /\ at = [r \in Requests |-> 0]
    /\ in = [r \in Requests |-> 0]
    /\ hits = [b \in Buckets |-> [c \in Clients |-> <<>>]]

\* The limit of an unlimited request is zero.
Limited(route) ==
    \/ route.area # "other"
    \/ route.method = "GET" /\ route.export
    \/ route.method \notin {"GET", "HEAD", "OPTIONS"}

BucketName(route) ==
    CASE route.method = "GET" /\ route.export -> "export"
      [] ~(route.method = "GET" /\ route.export) /\ route.area # "other" -> route.area
      [] OTHER -> "mutation"

\* A limited request of client c comes in and its handler reads the clock.
Arrive(r, route, c) ==
    /\ pc[r] = "new" /\ Limited(route)
    /\ pc' = [pc EXCEPT ![r] = "waiting"]
    /\ bucket' = [bucket EXCEPT ![r] = BucketName(route)]
    /\ client' = [client EXCEPT ![r] = c]
    /\ at' = [at EXCEPT ![r] = clock]
    /\ UNCHANGED <<clock, in, hits>>

\* The first n hits of a list, and no more in a row, are a window old or older.
BadStale(s, now, n) ==
    /\ \A i \in 1..n : at[s[i]] <= now
    /\ n < Len(s) => at[s[n + 1]] > now
Stale(s, now, n) ==
    /\ \A i \in 1..n : at[s[i]] <= now - Window
    /\ n < Len(s) => at[s[n + 1]] > now - Window

BadFull(s, b) == Len(s) > Limit[b]
Full(s, b) == Len(s) >= Limit[b]

\* allow, under the bucket's mutex.
Allow(r) ==
    LET b == bucket[r]  c == client[r] IN
    /\ pc[r] = "waiting"
    /\ in' = [in EXCEPT ![r] = clock]
    /\ \E n \in 0..Len(hits[b][c]) :
        LET old == SubSeq(hits[b][c], n + 1, Len(hits[b][c])) IN
        /\ Stale(hits[b][c], at[r], n)
        /\ \/ /\ Full(old, b)
              /\ pc' = [pc EXCEPT ![r] = "refused"]
              /\ hits' = [hits EXCEPT ![b][c] = old]
           \/ /\ ~Full(old, b)
              /\ pc' = [pc EXCEPT ![r] = "admitted"]
              /\ hits' = [hits EXCEPT ![b][c] = Append(old, r)]
    /\ UNCHANGED <<clock, bucket, client, at>>

Tick ==
    /\ clock < MaxTime
    /\ \A r \in Requests : pc[r] = "waiting" => clock < at[r] + MaxDelay
    /\ clock' = clock + 1
    /\ UNCHANGED <<pc, bucket, client, at, in, hits>>

Next ==
    \/ \E r \in Requests :
          \/ \E route \in Routes, c \in Clients : Arrive(r, route, c)
          \/ Allow(r)
    \/ Tick

Spec == Init /\ [][Next]_vars
-----------------------------------------------------------------------------
(* Properties.                                                             *)

\* A request that came in has one bucket and one client, and the lists hold
\* requests (security.go:53-160).
TypeOK ==
    /\ clock \in 0..MaxTime
    /\ pc \in [Requests -> {"new", "waiting", "admitted", "refused"}]
    /\ bucket \in [Requests -> Buckets \cup {None}]
    /\ client \in [Requests -> Clients \cup {None}]
    /\ at \in [Requests -> 0..MaxTime]
    /\ in \in [Requests -> 0..MaxTime]
    /\ hits \in [Buckets -> [Clients -> Seq(Requests)]]
    /\ \A r \in Requests : pc[r] # "new" => bucket[r] \in Buckets /\ client[r] \in Clients

\* The requests of a bucket and client that were let through after time t.
AdmittedSince(b, c, t) ==
    {r \in Requests : pc[r] = "admitted" /\ bucket[r] = b /\ client[r] = c /\ in[r] > t}

\* However requests overtake each other at the mutex, a bucket lets no client make
\* more requests than its limit in any window shortened by the longest delay, and
\* so in any window when handlers are not held up (docs/security.md).
AtMostLimit ==
    \A b \in Buckets, c \in Clients :
        Cardinality(AdmittedSince(b, c, clock - (Window - MaxDelay))) <= Limit[b]

\* A request is refused only if the limit was used up by requests of the same
\* client in the same bucket, let through less than a window before the time
\* stamp of the refused one: nobody is locked out by old hits, by other clients
\* or by other kinds of request.
RefusedOnlyWhenFull ==
    \A r \in Requests : pc[r] = "refused" =>
        Cardinality({q \in AdmittedSince(bucket[r], client[r], at[r] - Window) :
                        in[q] <= in[r]}) >= Limit[bucket[r]]

\* Why: lists stay within their limit, hold every admitted request that is less
\* than a window old, once, in the order of admission.
WithinLimit == \A b \in Buckets, c \in Clients : Len(hits[b][c]) <= Limit[b]

Stamped ==
    \A r \in Requests :
        /\ pc[r] = "waiting" => at[r] <= clock /\ clock <= at[r] + MaxDelay
        /\ pc[r] \in {"admitted", "refused"} =>
             at[r] <= in[r] /\ in[r] <= clock /\ in[r] <= at[r] + MaxDelay

Remembered ==
    \A r \in Requests : pc[r] = "admitted" =>
        \/ \E i \in 1..Len(hits[bucket[r]][client[r]]) : hits[bucket[r]][client[r]][i] = r
        \/ at[r] <= clock - Window

InOrder ==
    \A b \in Buckets, c \in Clients :
        \A i, j \in 1..Len(hits[b][c]) :
            /\ pc[hits[b][c][i]] = "admitted"
            /\ bucket[hits[b][c][i]] = b /\ client[hits[b][c][i]] = c
            /\ i < j => hits[b][c][i] # hits[b][c][j] /\ in[hits[b][c][i]] <= in[hits[b][c][j]]

\* The invariant the proofs induct on (security.go:86-102).
IInv == TypeOK /\ WithinLimit /\ Stamped /\ Remembered /\ InOrder /\ RefusedOnlyWhenFull
=============================================================================
