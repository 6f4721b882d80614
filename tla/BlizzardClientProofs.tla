------------------------ MODULE BlizzardClientProofs ------------------------
(***************************************************************************)
(* BlizzardClient for any number of callers, attempts and tokens.  What    *)
(* the invariant says of a caller, it says of its pc and its call alone,   *)
(* so an action is a matter of the one call that it changes.               *)
(***************************************************************************)
EXTENDS BlizzardClient, TLAPS

PCs == {"idle", "limit", "lock", "http", "backoff"}

\* What k attempts send at most: themselves and MaxAttempts for each one's token.
Own(k) == k * (MaxAttempts + 1)

\* How much of its allowance the attempt in hand has used.
Used(p, c) ==
    IF c.level = "token" THEN c.attempt + (IF p = "backoff" THEN 1 ELSE 0)
    ELSE CASE p = "http" -> MaxAttempts
           [] p = "backoff" -> MaxAttempts + 1
           [] OTHER -> 0

\* PaidExactly, SentSoFar and LifetimeLeft, of one call.
CallHolds(p, c) ==
    /\ p = "idle" => c = NoCall
    /\ p = "lock" => c.level = "api"
    /\ p # "idle" => c.paid = (IF c.level = "token" THEN 1 ELSE 0)
                               + (IF p \in {"lock", "http"} THEN 1 ELSE 0)
    /\ c.attempt < MaxAttempts /\ c.outer < MaxAttempts
    /\ p = "backoff" => MayRetry(c)
    /\ c.sent <= (IF c.level = "token" THEN Own(c.outer) ELSE Own(c.attempt)) + Used(p, c)
    /\ p = "http" /\ c.level = "api" => c.carries + c.age > Margin

LEMMA OwnGrows ==
    ASSUME NEW k \in Nat, k < MaxAttempts
    PROVE  /\ Own(0) = 0 /\ Own(k) \in Nat
           /\ Own(k + 1) = Own(k) + MaxAttempts + 1
           /\ Own(k) + MaxAttempts + 1 <= Own(MaxAttempts)
<1> USE ClientAssumption
<1>1. Own(0) = 0 /\ Own(k) \in Nat /\ Own(k + 1) = Own(k) + MaxAttempts + 1
  BY DEF Own
<1>2. PICK d \in Nat : MaxAttempts = k + 1 + d
  <2>1. MaxAttempts - (k + 1) \in Nat /\ MaxAttempts = k + 1 + (MaxAttempts - (k + 1))
    OBVIOUS
  <2> QED
    BY <2>1
<1>3. (k + 1 + d) * (MaxAttempts + 1) = (k + 1) * (MaxAttempts + 1) + d * (MaxAttempts + 1)
  OBVIOUS
<1>4. d * (MaxAttempts + 1) \in Nat
  OBVIOUS
<1> QED
  BY <1>1, <1>2, <1>3, <1>4 DEF Own

\* The three conjuncts are about each call on its own.
LEMMA HoldsOfEach ==
    (\A w \in Callers : CallHolds(pc[w], call[w])) <=> PaidExactly /\ SentSoFar /\ LifetimeLeft
  BY ClientAssumption DEF CallHolds, Used, Own, PaidExactly, SentSoFar, LifetimeLeft

LEMMA HoldsOfEachNext ==
    (\A w \in Callers : CallHolds(pc'[w], call'[w]))
      <=> PaidExactly' /\ SentSoFar' /\ LifetimeLeft'
  BY ClientAssumption DEF CallHolds, Used, Own, PaidExactly, SentSoFar, LifetimeLeft

\* What a call has paid and sent follows.
LEMMA HoldsIsEnough ==
    ASSUME NEW p \in PCs, NEW c \in Calls, CallHolds(p, c)
    PROVE  /\ p = "http" => c.paid > 0
           /\ c.sent + 1 <= MaxAttempts * (MaxAttempts + 1)
<1> USE ClientAssumption
<1>1. p = "http" => c.paid > 0
  BY DEF CallHolds, Calls
<1> DEFINE k == IF c.level = "token" THEN c.outer ELSE c.attempt
<1>2. k \in Nat /\ k < MaxAttempts /\ c.sent <= Own(k) + Used(p, c)
  BY DEF CallHolds, Calls
<1>3. Used(p, c) \in Nat /\ Used(p, c) <= MaxAttempts + 1
  BY DEF Used, CallHolds, Calls
<1>4. Own(k) \in Nat /\ Own(k) + MaxAttempts + 1 <= Own(MaxAttempts) /\ Own(MaxAttempts) \in Nat
  BY <1>2, OwnGrows DEF Own
<1>5. CASE p # "backoff" \/ c.level = "token"
  <2>1. Used(p, c) <= MaxAttempts
    BY <1>5 DEF Used, CallHolds, Calls, MayRetry
  <2> QED
    BY <1>1, <1>2, <1>3, <1>4, <2>1 DEF Own, Calls
<1>6. CASE p = "backoff" /\ c.level # "token"
  <2>1. k + 1 < MaxAttempts
    BY <1>6 DEF CallHolds, Calls, MayRetry
  <2>2. Own(k + 1) = Own(k) + MaxAttempts + 1 /\ Own(k + 1) + MaxAttempts + 1 <= Own(MaxAttempts)
    BY <1>2, <2>1, OwnGrows
  <2> QED
    BY <1>1, <1>2, <1>3, <1>4, <2>2 DEF Own, Calls
<1> QED
  BY <1>5, <1>6

LEMMA InitInv == Init => ClientInv
<1> SUFFICES ASSUME Init PROVE ClientInv
  OBVIOUS
<1> USE ClientAssumption DEF Init
<1>1. NoCall \in Calls
  BY DEF NoCall, Calls
<1>2. TypeOK /\ OneFetch
  BY <1>1 DEF TypeOK, OneFetch, NoCall
<1>3. CallHolds("idle", NoCall)
  BY OwnGrows DEF CallHolds, NoCall, Used
<1>4. PaidExactly /\ SentSoFar /\ LifetimeLeft
  BY <1>3, HoldsOfEach
<1>5. EveryAttemptPaid /\ AttemptsBounded
  BY <1>1, <1>3, HoldsIsEnough DEF EveryAttemptPaid, AttemptsBounded, PCs
<1> QED
  BY <1>2, <1>4, <1>5 DEF ClientInv

\* An action that takes one call to where the invariant holds of it, and passes the
\* mutex in step with it.
LEMMA OneCallKeeps ==
    ASSUME ClientInv, NEW w \in Callers, NEW p \in PCs, NEW c \in Calls,
           To(w, p, c), CallHolds(p, c),
           bucket' \in 0..Burst, left' \in 0..Life, holder' \in Callers \cup {NoCaller},
           holder' = w <=> p # "idle" /\ c.level = "token",
           \A v \in Callers \ {w} : holder' = v <=> holder = v
    PROVE  ClientInv'
<1> USE ClientAssumption
<1>1. /\ pc'[w] = p /\ call'[w] = c
      /\ \A v \in Callers \ {w} : pc'[v] = pc[v] /\ call'[v] = call[v]
  BY DEF To, ClientInv, TypeOK
<1>2. TypeOK'
  BY DEF To, ClientInv, TypeOK, PCs
<1>3. \A v \in Callers : CallHolds(pc'[v], call'[v])
  BY <1>1, HoldsOfEach DEF ClientInv
<1>4. OneFetch'
  BY <1>1 DEF OneFetch, ClientInv
<1>5. EveryAttemptPaid' /\ AttemptsBounded'
  BY <1>2, <1>3, HoldsIsEnough DEF TypeOK, EveryAttemptPaid, AttemptsBounded, PCs
<1> QED
  BY <1>2, <1>3, <1>4, <1>5, HoldsOfEachNext DEF ClientInv

\* The call returns, and gives the mutex back if it has it.
LEMMA ReturnKeeps ==
    ASSUME ClientInv, NEW w \in Callers, Return(w)
    PROVE  ClientInv'
<1> USE ClientAssumption
<1>1. NoCall \in Calls /\ CallHolds("idle", NoCall)
  BY OwnGrows DEF CallHolds, NoCall, Calls, Used
<1>2. /\ holder' \in Callers \cup {NoCaller} /\ holder' # w
      /\ \A v \in Callers \ {w} : holder' = v <=> holder = v
  BY DEF Return, Release, ClientInv, TypeOK
<1> QED
  BY <1>1, <1>2, OneCallKeeps DEF Return, ClientInv, TypeOK, PCs

\* What each of the other actions makes of the call, while the mutex stays.
LEMMA StepKeeps ==
    ASSUME ClientInv, NEW w \in Callers,
           \/ \E level \in {"api", "code"} : Call(w, level)
           \/ Cancel(w) \/ TakeToken(w) \/ UseCached(w) \/ BackOff(w) \/ Retry(w)
    PROVE  ClientInv'
<1> USE ClientAssumption
<1>0. /\ pc[w] \in PCs /\ call[w] \in Calls /\ CallHolds(pc[w], call[w])
      /\ holder = w <=> pc[w] # "idle" /\ call[w].level = "token"
  BY HoldsOfEach DEF ClientInv, TypeOK, OneFetch, PCs
<1>1. ASSUME NEW level \in {"api", "code"}, Call(w, level)
      PROVE  ClientInv'
  <2> DEFINE c == [NoCall EXCEPT !.level = level]
  <2>1. c \in Calls /\ CallHolds("limit", c) /\ c.level # "token"
    <3>1. /\ c \in Calls /\ c.level # "token" /\ c.attempt = 0 /\ c.outer = 0
          /\ c.sent = 0 /\ c.paid = 0
      <4>1. NoCall \in Calls
        BY DEF NoCall, Calls
      <4>2. c \in Calls
        BY ONLY <4>1, level \in {"api", "code"} DEF Calls
      <4> QED
        BY <4>2 DEF NoCall
    <3> HIDE DEF c
    <3> QED
      BY <3>1, OwnGrows DEF CallHolds, Used
  <2>2. To(w, "limit", c)
    BY <1>1 DEF Call
  <2> HIDE DEF c
  <2> QED
    BY <1>0, <1>1, <2>1, <2>2, OneCallKeeps DEF Call, ClientInv, TypeOK, PCs
<1>2. CASE Cancel(w)
  <2> DEFINE c == [call[w] EXCEPT !.cancelled = TRUE]
  <2>1. c \in Calls /\ CallHolds(pc[w], c) /\ c.level = call[w].level
    BY <1>0, <1>2 DEF Cancel, CallHolds, Calls, Used, MayRetry
  <2>2. To(w, pc[w], c)
    BY <1>2 DEF Cancel, To, ClientInv, TypeOK
  <2> HIDE DEF c
  <2> QED
    BY <1>0, <1>2, <2>1, <2>2, OneCallKeeps DEF Cancel, ClientInv, TypeOK
<1>3. CASE TakeToken(w)
  <2> DEFINE c == [call[w] EXCEPT !.paid = @ + 1, !.age = 0]
             p == IF call[w].level = "api" THEN "lock" ELSE "http"
  <2>1. c \in Calls /\ CallHolds(p, c) /\ c.level = call[w].level /\ p \in PCs \ {"idle"}
    <3>1. pc[w] = "limit" /\ call[w].paid = IF call[w].level = "token" THEN 1 ELSE 0
      BY <1>0, <1>3 DEF TakeToken, CallHolds
    <3>2. /\ c \in Calls /\ c.level = call[w].level /\ c.attempt = call[w].attempt
          /\ c.outer = call[w].outer /\ c.sent = call[w].sent /\ c.paid = call[w].paid + 1
      <4>1. call[w].paid + 1 \in 0..2 /\ 0 \in 0..HTTPTimeout
        BY <1>0, <3>1 DEF Calls
      <4>2. c \in Calls
        BY ONLY <1>0, <4>1 DEF Calls
      <4> QED
        BY <1>0, <4>1, <4>2 DEF Calls
    <3>3. c.level = "api" => p = "lock"
      BY <3>2
    <3>4. c.level # "api" => p = "http"
      BY <3>2
    <3>5. p \in {"lock", "http"}
      OBVIOUS
    <3>6. /\ call[w].attempt < MaxAttempts /\ call[w].outer < MaxAttempts
          /\ call[w].sent <= (IF call[w].level = "token" THEN Own(call[w].outer)
                             ELSE Own(call[w].attempt))
                            + (IF call[w].level = "token" THEN call[w].attempt ELSE 0)
          /\ Own(call[w].outer) \in Nat /\ Own(call[w].attempt) \in Nat
      BY <1>0, <3>1, OwnGrows DEF CallHolds, Used, Calls
    <3> HIDE DEF c, p
    <3>7. CallHolds(p, c)
      BY <3>1, <3>2, <3>3, <3>4, <3>5, <3>6 DEF CallHolds, Used, Calls
    <3> QED
      BY <3>2, <3>5, <3>7 DEF PCs
  <2>2. To(w, p, c) /\ bucket' \in 0..Burst
    BY <1>3 DEF TakeToken, ClientInv, TypeOK
  <2> HIDE DEF c, p
  <2> QED
    BY <1>0, <1>3, <2>1, <2>2, OneCallKeeps DEF TakeToken, ClientInv, TypeOK
<1>4. CASE UseCached(w)
  <2> DEFINE c == [call[w] EXCEPT !.age = 0, !.carries = left]
  <2>1. c \in Calls /\ CallHolds("http", c) /\ c.level = "api"
    <3>1. pc[w] = "lock" /\ call[w].level = "api" /\ left > Margin /\ left \in 0..Life
      BY <1>0, <1>4 DEF UseCached, Fresh, CallHolds, ClientInv, TypeOK
    <3>2. /\ c \in Calls /\ c.level = "api" /\ c.attempt = call[w].attempt
          /\ c.outer = call[w].outer /\ c.sent = call[w].sent /\ c.paid = call[w].paid
          /\ c.age = 0 /\ c.carries = left
      <4>1. left \in 0..Life /\ 0 \in 0..HTTPTimeout
        BY <3>1 DEF Calls
      <4>2. c \in Calls
        BY ONLY <1>0, <4>1 DEF Calls
      <4> QED
        BY <1>0, <3>1, <4>1, <4>2 DEF Calls
    <3>3. Own(call[w].attempt) \in Nat
      BY <1>0, OwnGrows DEF CallHolds, Calls
    <3> HIDE DEF c
    <3> QED
      BY <1>0, <3>1, <3>2, <3>3 DEF CallHolds, Used, Calls
  <2>2. To(w, "http", c)
    BY <1>4 DEF UseCached
  <2> HIDE DEF c
  <2> QED
    BY <1>0, <1>4, <2>1, <2>2, OneCallKeeps DEF UseCached, ClientInv, TypeOK, PCs
<1>5. CASE BackOff(w)
  <2> DEFINE c == [call[w] EXCEPT !.paid = @ - 1, !.sent = @ + 1]
  <2>1. c \in Calls /\ CallHolds("backoff", c) /\ c.level = call[w].level
    <3>1. MayRetry(call[w]) /\ pc[w] = "http"
      BY <1>5 DEF BackOff
    <3>2. call[w].paid = IF call[w].level = "token" THEN 2 ELSE 1
      BY <1>0, <3>1 DEF CallHolds
    <3>3. /\ c \in Calls /\ c.level = call[w].level /\ c.attempt = call[w].attempt
          /\ c.outer = call[w].outer
          /\ c.sent = call[w].sent + 1 /\ c.paid = call[w].paid - 1
      <4>1. call[w].paid - 1 \in 0..2 /\ call[w].sent + 1 \in Nat
        BY <1>0, <3>2 DEF Calls
      <4>2. c \in Calls
        BY ONLY <1>0, <4>1 DEF Calls
      <4> QED
        BY <1>0, <4>1, <4>2 DEF Calls
    <3>4. Own(call[w].outer) \in Nat /\ Own(call[w].attempt) \in Nat
      BY <1>0, OwnGrows DEF CallHolds, Calls
    <3> HIDE DEF c
    <3> QED
      BY <1>0, <3>1, <3>2, <3>3, <3>4 DEF CallHolds, Calls, Used, MayRetry
  <2>2. To(w, "backoff", c)
    BY <1>5 DEF BackOff
  <2> HIDE DEF c
  <2> QED
    BY <1>0, <1>5, <2>1, <2>2, OneCallKeeps DEF BackOff, ClientInv, TypeOK, PCs
<1>6. CASE Retry(w)
  <2> DEFINE c == [call[w] EXCEPT !.attempt = @ + 1]
  <2>1. c \in Calls /\ CallHolds("limit", c) /\ c.level = call[w].level
    <3>1. pc[w] = "backoff" /\ call[w].attempt + 1 < MaxAttempts
      BY <1>0, <1>6 DEF Retry, CallHolds, MayRetry, Calls
    <3>2. c \in Calls /\ c.level = call[w].level
      BY <1>0, <3>1 DEF Calls
    <3>3. Own(call[w].attempt + 1) = Own(call[w].attempt) + MaxAttempts + 1
          /\ Own(call[w].attempt) \in Nat
      BY <1>0, OwnGrows DEF CallHolds, Calls
    <3> QED
      BY <1>0, <3>1, <3>2, <3>3 DEF CallHolds, Calls, Used
  <2>2. To(w, "limit", c)
    BY <1>6 DEF Retry
  <2> HIDE DEF c
  <2> QED
    BY <1>0, <1>6, <2>1, <2>2, OneCallKeeps DEF Retry, ClientInv, TypeOK, PCs
<1> QED
  BY <1>1, <1>2, <1>3, <1>4, <1>5, <1>6

\* Fetching a token takes the mutex; having it gives the mutex back.
LEMMA FetchKeeps ==
    ASSUME ClientInv, NEW w \in Callers, FetchToken(w) \/ GotToken(w)
    PROVE  ClientInv'
<1> USE ClientAssumption
<1>0. /\ pc[w] \in PCs /\ call[w] \in Calls /\ CallHolds(pc[w], call[w])
      /\ holder = w <=> pc[w] # "idle" /\ call[w].level = "token"
  BY HoldsOfEach DEF ClientInv, TypeOK, OneFetch, PCs
<1>1. CASE FetchToken(w)
  <2> DEFINE c == [call[w] EXCEPT !.level = "token", !.outer = call[w].attempt, !.attempt = 0]
  <2>1. c \in Calls /\ CallHolds("limit", c) /\ c.level = "token"
    <3>1. pc[w] = "lock" /\ call[w].level = "api"
      BY <1>0, <1>1 DEF FetchToken, CallHolds
    <3>2. /\ c \in Calls /\ c.level = "token" /\ c.attempt = 0
          /\ c.outer = call[w].attempt /\ c.sent = call[w].sent /\ c.paid = call[w].paid
      <4>1. call[w].attempt \in 0..MaxAttempts /\ 0 \in 0..MaxAttempts
        BY <1>0 DEF Calls
      <4>2. c \in Calls
        BY ONLY <1>0, <4>1 DEF Calls
      <4> QED
        BY <1>0, <4>1, <4>2 DEF Calls
    <3>3. Own(call[w].attempt) \in Nat
      BY <1>0, OwnGrows DEF CallHolds, Calls
    <3> HIDE DEF c
    <3> QED
      BY <1>0, <3>1, <3>2, <3>3 DEF CallHolds, Used, Calls
  <2>2. To(w, "limit", c) /\ holder = NoCaller /\ holder' = w
    BY <1>1 DEF FetchToken
  <2> HIDE DEF c
  <2> QED
    BY <1>1, <2>1, <2>2, OneCallKeeps DEF FetchToken, ClientInv, TypeOK, PCs
<1>2. CASE GotToken(w)
  <2> DEFINE c == [call[w] EXCEPT !.level = "api", !.attempt = call[w].outer,
                                  !.age = 0, !.carries = Life,
                                  !.paid = @ - 1, !.sent = @ + 1]
  <2>1. c \in Calls /\ CallHolds("http", c) /\ c.level = "api"
    <3>1. pc[w] = "http" /\ call[w].level = "token"
      BY <1>2 DEF GotToken
    <3>2. call[w].paid = 2
      BY <1>0, <3>1 DEF CallHolds
    <3>3. /\ c \in Calls /\ c.level = "api" /\ c.attempt = call[w].outer
          /\ c.outer = call[w].outer /\ c.age = 0 /\ c.carries = Life
          /\ c.sent = call[w].sent + 1 /\ c.paid = 1
      <4>1. /\ call[w].outer \in 0..MaxAttempts /\ 0 \in 0..HTTPTimeout /\ Life \in 0..Life
            /\ call[w].paid - 1 \in 0..2 /\ call[w].paid - 1 = 1 /\ call[w].sent + 1 \in Nat
        BY <1>0, <3>2 DEF Calls
      <4>2. c \in Calls
        BY ONLY <1>0, <4>1 DEF Calls
      <4> QED
        BY <1>0, <4>1, <4>2 DEF Calls
    <3>4. Own(call[w].outer) \in Nat
      BY <1>0, OwnGrows DEF CallHolds, Calls
    <3> HIDE DEF c
    <3> QED
      BY <1>0, <3>1, <3>3, <3>4 DEF CallHolds, Used, Calls
  <2>2. To(w, "http", c) /\ holder = w /\ holder' = NoCaller /\ left' \in 0..Life
    BY <1>0, <1>2 DEF GotToken, Release
  <2> HIDE DEF c
  <2> QED
    BY <1>2, <2>1, <2>2, OneCallKeeps DEF GotToken, ClientInv, TypeOK, PCs
<1> QED
  BY <1>1, <1>2

\* An attempt in flight grows older as the token it carries does.
LEMMA TimeKeeps ==
    ASSUME ClientInv, Elapse \/ Tick \/ UNCHANGED vars
    PROVE  ClientInv'
<1> USE ClientAssumption
<1>0. \A w \in Callers : pc[w] \in PCs /\ call[w] \in Calls /\ CallHolds(pc[w], call[w])
  BY HoldsOfEach DEF ClientInv, TypeOK, PCs
<1>1. CASE Elapse
  <2>1. /\ pc' = pc /\ bucket' = bucket /\ holder' = holder /\ left' \in 0..Life
        /\ call' = [w \in Callers |-> call'[w]]
    <3>1. left' \in 0..Life
      <4>1. left \in 0..Life /\ left' = Less(left)
        BY <1>1 DEF Elapse, ClientInv, TypeOK
      <4> QED
        BY <4>1 DEF Less
    <3>2. call' = [w \in Callers |-> call'[w]]
      BY <1>1 DEF Elapse
    <3> QED
      BY <1>1, <3>1, <3>2 DEF Elapse
  <2>2. ASSUME NEW w \in Callers
        PROVE  /\ call'[w] \in Calls /\ CallHolds(pc[w], call'[w])
               /\ call'[w].level = call[w].level
    <3>1. CASE pc[w] = "http"
      <4> DEFINE c == [call[w] EXCEPT !.age = @ + 1, !.carries = Less(@)]
      <4>1. call[w].age < HTTPTimeout /\ call'[w] = c
        BY <1>1, <3>1 DEF Elapse
      <4>2. c \in Calls /\ CallHolds(pc[w], c) /\ c.level = call[w].level
        <5>1. /\ call[w].level = "api" => call[w].carries > 0
              /\ call[w].age + 1 \in 0..HTTPTimeout /\ Less(call[w].carries) \in 0..Life
              /\ call[w].carries > 0 => Less(call[w].carries) = call[w].carries - 1
          BY <1>0, <3>1, <4>1 DEF CallHolds, Calls, Less
        <5>2. /\ c \in Calls /\ c.level = call[w].level /\ c.attempt = call[w].attempt
              /\ c.outer = call[w].outer /\ c.sent = call[w].sent /\ c.paid = call[w].paid
              /\ c.age = call[w].age + 1 /\ c.carries = Less(call[w].carries)
          BY <1>0, <5>1 DEF Calls
        <5> HIDE DEF c
        <5> QED
          BY <1>0, <3>1, <5>1, <5>2 DEF CallHolds, Calls, Used
      <4> QED
        BY <4>1, <4>2
    <3>2. CASE pc[w] # "http"
      BY <1>0, <1>1, <3>2 DEF Elapse
    <3> QED
      BY <3>1, <3>2
  <2>3. TypeOK'
    BY <2>1, <2>2 DEF TypeOK, ClientInv
  <2>4. OneFetch'
    BY <2>1, <2>2 DEF OneFetch, ClientInv
  <2>5. EveryAttemptPaid' /\ AttemptsBounded'
    BY <1>0, <2>1, <2>2, HoldsIsEnough DEF EveryAttemptPaid, AttemptsBounded
  <2> QED
    BY <2>1, <2>2, <2>3, <2>4, <2>5, HoldsOfEachNext DEF ClientInv
<1>2. CASE Tick \/ UNCHANGED vars
  <2>1. UNCHANGED <<pc, call, holder, left>> /\ bucket' \in 0..Burst
    BY <1>2 DEF Tick, vars, ClientInv, TypeOK
  <2> QED
    BY <2>1 DEF ClientInv, TypeOK, OneFetch, PaidExactly, SentSoFar, LifetimeLeft,
                EveryAttemptPaid, AttemptsBounded
<1> QED
  BY <1>1, <1>2

\* The bucket and the app token's mutex under any interleaving of calls: one fetch
\* at a time and none left behind, a limiter token for every attempt, nested ones
\* included, and a bound on the attempts of a call.
THEOREM ClientInvariance == Spec => []ClientInv
<1>1. ClientInv /\ [Next]_vars => ClientInv'
  <2> SUFFICES ASSUME ClientInv, [Next]_vars PROVE ClientInv'
    OBVIOUS
  <2>1. ASSUME NEW w \in Callers, GiveUp(w) \/ LastAnswer(w) \/ Exhausted(w)
        PROVE  ClientInv'
    BY <2>1, ReturnKeeps DEF GiveUp, LastAnswer, Exhausted
  <2> QED
    BY <2>1, StepKeeps, FetchKeeps, TimeKeeps DEF Next, Lock, Answer
<1> QED
  BY InitInv, <1>1, PTL DEF Spec

\* No api attempt is answered after the app token it was sent with has expired.
THEOREM TokensOutlive == Spec => []TokenOutlivesAttempt
<1>1. ClientInv => TokenOutlivesAttempt
  BY ClientAssumption DEF ClientInv, TypeOK, Calls, LifetimeLeft, TokenOutlivesAttempt
<1> QED
  BY ClientInvariance, <1>1, PTL
=============================================================================
