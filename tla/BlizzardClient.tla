--------------------------- MODULE BlizzardClient ---------------------------
(***************************************************************************)
(* The Blizzard client of src/backend/internal/blizzard under concurrent   *)
(* callers: the token bucket, the bounded retries of request, and the app  *)
(* token that appToken fetches, with a request of its own, while it holds  *)
(* the cache's mutex.  A call is "api" (it carries the app token) or       *)
(* "code" (ExchangeCode, which carries none); an api call that has to      *)
(* fetch the app token is at level "token" meanwhile.                      *)
(*                                                                         *)
(* Time passes in units of the HTTP client's timeout.                      *)
(***************************************************************************)
EXTENDS Integers

CONSTANTS Callers,      \* goroutines that share the client
          NoCaller,     \* nobody, and not in Callers
          MaxAttempts, Burst,
          HTTPTimeout,  \* how long one attempt may take
          Margin,       \* least lifetime of a token that is still handed out
          Life          \* lifetime of a token when it is issued

\* That Blizzard issues tokens which live longer than the margin is assumed: appToken
\* hands out a new token whatever its expires_in.
ASSUME ClientAssumption ==
    /\ NoCaller \notin Callers
    /\ MaxAttempts \in Nat \ {0} /\ Burst \in Nat \ {0}
    /\ HTTPTimeout \in Nat /\ Margin \in Nat /\ Life \in Nat
    /\ HTTPTimeout < Margin /\ Margin < Life

VARIABLES
    pc,       \* "idle", "limit" (Limiter.Wait), "lock", "http", "backoff"
    call,     \* the state of each caller's call
    bucket,   \* tokens in the limiter's channel
    holder,   \* who holds the app token's mutex
    left      \* remaining lifetime of the cached app token, 0 when none

vars == <<pc, call, bucket, holder, left>>

\* level and attempt of the request in hand, attempt of the api request around
\* it, age of the attempt in flight, lifetime left of the token it carries, and
\* two histories: limiter tokens taken and not used, and attempts sent.
NoCall == [level |-> "api", attempt |-> 0, outer |-> 0, age |-> 0, carries |-> 0,
           cancelled |-> FALSE, paid |-> 0, sent |-> 0]

Init ==
    /\ pc = [w \in Callers |-> "idle"]
    /\ call = [w \in Callers |-> NoCall]
    /\ bucket = Burst
    /\ holder = NoCaller
    /\ left = 0

BadFresh(life) == life > 0
Fresh(life) == life > Margin

To(w, p, c) == pc' = [pc EXCEPT ![w] = p] /\ call' = [call EXCEPT ![w] = c]
Release(w) == holder' = IF holder = w THEN NoCaller ELSE holder

\* The call returns, and with it appToken if the request was its own: the
\* deferred Unlock.
BadReturn(w) == To(w, "idle", NoCall) /\ UNCHANGED <<holder, bucket, left>>
Return(w) == To(w, "idle", NoCall) /\ Release(w) /\ UNCHANGED <<bucket, left>>

Call(w, level) ==
    /\ pc[w] = "idle"
    /\ To(w, "limit", [NoCall EXCEPT !.level = level])
    /\ UNCHANGED <<bucket, holder, left>>

Cancel(w) ==
    /\ pc[w] # "idle" /\ ~call[w].cancelled
    /\ call' = [call EXCEPT ![w].cancelled = TRUE]
    /\ UNCHANGED <<pc, bucket, holder, left>>

\* The ticker's send into the channel, dropped when the channel is full.
Tick ==
    /\ bucket < Burst
    /\ bucket' = bucket + 1
    /\ UNCHANGED <<pc, call, holder, left>>

\* Limiter.Wait returns nil: an api request asks for the app token next.
TakeToken(w) ==
    /\ pc[w] = "limit" /\ bucket > 0
    /\ bucket' = bucket - 1
    /\ To(w, IF call[w].level = "api" THEN "lock" ELSE "http",
          [call[w] EXCEPT !.paid = @ + 1, !.age = 0])
    /\ UNCHANGED <<holder, left>>

\* The context is done while the call waits for the limiter or backs off.
GiveUp(w) ==
    /\ pc[w] \in {"limit", "backoff"} /\ call[w].cancelled
    /\ Return(w)

\* appToken finds a token with more than the margin left.
UseCached(w) ==
    /\ pc[w] = "lock" /\ holder = NoCaller /\ Fresh(left)
    /\ To(w, "http", [call[w] EXCEPT !.age = 0, !.carries = left])
    /\ UNCHANGED <<bucket, holder, left>>

\* appToken keeps the mutex and requests one.  Lock does not look at the context.
FetchToken(w) ==
    /\ pc[w] = "lock" /\ holder = NoCaller /\ ~Fresh(left)
    /\ holder' = w
    /\ To(w, "limit", [call[w] EXCEPT !.level = "token", !.outer = call[w].attempt,
                                      !.attempt = 0])
    /\ UNCHANGED <<bucket, left>>

\* The token request succeeds: the token is cached, the mutex released, and the
\* attempt it was fetched for goes out with it.
GotToken(w) ==
    /\ pc[w] = "http" /\ call[w].level = "token"
    /\ left' = Life
    /\ Release(w)
    /\ To(w, "http", [call[w] EXCEPT !.level = "api", !.attempt = call[w].outer,
                                     !.age = 0, !.carries = Life,
                                     !.paid = @ - 1, !.sent = @ + 1])
    /\ UNCHANGED bucket

\* A success, a 404, any other status, or a body that does not parse: the call
\* returns at once.  A token request that ends so fails the call around it.
LastAnswer(w) ==
    /\ pc[w] = "http"
    /\ Return(w)

\* A transport error, 429 or 5xx on the last attempt is returned; before it the
\* call backs off, for as long as Retry-After says.
MayRetry(c) == c.attempt < MaxAttempts - 1

Exhausted(w) ==
    /\ pc[w] = "http" /\ ~MayRetry(call[w])
    /\ Return(w)

BackOff(w) ==
    /\ pc[w] = "http" /\ MayRetry(call[w])
    /\ To(w, "backoff", [call[w] EXCEPT !.paid = @ - 1, !.sent = @ + 1])
    /\ UNCHANGED <<bucket, holder, left>>

\* The backoff waits for the context alone.
BadRetry(w) ==
    /\ pc[w] = "backoff" /\ call[w].cancelled
    /\ To(w, "limit", [call[w] EXCEPT !.attempt = @ + 1])
    /\ UNCHANGED <<bucket, holder, left>>

Retry(w) ==
    /\ pc[w] = "backoff"
    /\ To(w, "limit", [call[w] EXCEPT !.attempt = @ + 1])
    /\ UNCHANGED <<bucket, holder, left>>

\* A unit of time passes.  No attempt outlives the HTTP client's timeout.
Less(n) == IF n > 0 THEN n - 1 ELSE 0
Elapse ==
    /\ \A w \in Callers : pc[w] = "http" => call[w].age < HTTPTimeout
    /\ left' = Less(left)
    /\ call' = [w \in Callers |->
                  IF pc[w] = "http"
                  THEN [call[w] EXCEPT !.age = @ + 1, !.carries = Less(@)]
                  ELSE call[w]]
    /\ UNCHANGED <<pc, bucket, holder>>

Answer(w) == GotToken(w) \/ LastAnswer(w) \/ Exhausted(w) \/ BackOff(w)
Lock(w) == UseCached(w) \/ FetchToken(w)

Next ==
    \/ \E w \in Callers :
          \/ \E level \in {"api", "code"} : Call(w, level)
          \/ Cancel(w) \/ GiveUp(w)
          \/ TakeToken(w)
          \/ Lock(w)
          \/ Answer(w)
          \/ Retry(w)
    \/ Tick
    \/ Elapse

Spec == Init /\ [][Next]_vars

\* Blocked receivers of a channel are served in order, and so are goroutines
\* starving for a mutex; an attempt and a backoff end.
Fairness ==
    /\ WF_vars(Tick)
    /\ \A w \in Callers :
          /\ SF_vars(TakeToken(w))
          /\ SF_vars(Lock(w))
          /\ WF_vars(Answer(w))
          /\ WF_vars(Retry(w))

FairSpec == Spec /\ Fairness
-----------------------------------------------------------------------------
(* Properties.                                                             *)

Calls == [level : {"api", "code", "token"}, attempt : 0..MaxAttempts,
          outer : 0..MaxAttempts, age : 0..HTTPTimeout, carries : 0..Life,
          cancelled : BOOLEAN, paid : 0..2, sent : Nat]

\* The bucket stays within the burst, attempts within their bound.
TypeOK ==
    /\ pc \in [Callers -> {"idle", "limit", "lock", "http", "backoff"}]
    /\ call \in [Callers -> Calls]
    /\ bucket \in 0..Burst
    /\ holder \in Callers \cup {NoCaller}
    /\ left \in 0..Life

\* One goroutine fetches the app token at a time, the one with the mutex, and
\* the mutex is never left behind by a call that returned (oauth.go:31).
OneFetch ==
    \A w \in Callers : holder = w <=> pc[w] # "idle" /\ call[w].level = "token"

\* Every attempt, those of the nested token request and of its retries included,
\* has taken a limiter token of its own (client.go:73).
EveryAttemptPaid == \A w \in Callers : pc[w] = "http" => call[w].paid > 0

\* An api attempt never outlives the token it carries, although the token may
\* have been cached, replaced and fetched by others: the margin of appToken
\* exceeds the HTTP client's timeout (oauth.go:34, client.go:56).
TokenOutlivesAttempt ==
    \A w \in Callers :
        pc[w] = "http" /\ call[w].level = "api" => call[w].carries > 0

\* However many of its attempts had to fetch a token first, a call sends at most
\* MaxAttempts attempts of its own and MaxAttempts for each of their tokens.
AttemptsBounded ==
    \A w \in Callers : call[w].sent + 1 <= MaxAttempts * (MaxAttempts + 1)

\* Every call returns, cancelled or not: the one that waits for the limiter, the
\* one that backs off, and the one that waits, deaf to its context, for another's
\* token request to finish.
CallsReturn == \A w \in Callers : pc[w] # "idle" ~> pc[w] = "idle"

\* How many limiter tokens a call has taken for attempts not sent yet: one for
\* the attempt in hand and one more for the api attempt that waits around a token
\* request.  Nobody asks for the app token with a token request in hand.
PaidExactly ==
    \A w \in Callers : LET c == call[w] IN
        /\ pc[w] = "idle" => c = NoCall
        /\ pc[w] = "lock" => c.level = "api"
        /\ pc[w] # "idle" =>
              c.paid = (IF c.level = "token" THEN 1 ELSE 0)
                         + (IF pc[w] \in {"lock", "http"} THEN 1 ELSE 0)

\* The attempts sent so far fit the attempt that is in hand: those of an earlier
\* attempt are its own and MaxAttempts of its token at most.
SentSoFar ==
    \A w \in Callers : LET c == call[w]
                           before == IF c.level = "token" THEN c.outer ELSE c.attempt
                           per == MaxAttempts + 1 IN
        /\ c.attempt < MaxAttempts /\ c.outer < MaxAttempts
        /\ pc[w] = "backoff" => MayRetry(c)
        /\ c.sent <= before * per
             + (IF c.level = "token"
                THEN c.attempt + (IF pc[w] = "backoff" THEN 1 ELSE 0)
                ELSE CASE pc[w] = "http" -> MaxAttempts
                       [] pc[w] = "backoff" -> per
                       [] OTHER -> 0)

\* An attempt goes out with more than the margin left, and ages as its token does.
LifetimeLeft ==
    \A w \in Callers :
        pc[w] = "http" /\ call[w].level = "api" => call[w].carries + call[w].age > Margin

\* The shared limiter and the shared token stay whole under any interleaving of
\* calls (client.go:73-134, oauth.go:30-58).  PaidExactly, SentSoFar and
\* LifetimeLeft make it inductive.
ClientInv ==
    /\ TypeOK /\ PaidExactly /\ SentSoFar /\ LifetimeLeft
    /\ OneFetch /\ EveryAttemptPaid /\ AttemptsBounded
=============================================================================
