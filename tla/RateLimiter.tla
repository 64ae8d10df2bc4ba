---------------------------- MODULE RateLimiter ----------------------------
(***************************************************************************)
(* The sliding window of rate_limit.rs, which every request of the API is  *)
(* counted in before it is served.  Requests that run at once read the     *)
(* clock first and take the lock of their client's entry afterwards, so    *)
(* that they may be checked in another order than that of their times.     *)
(* The vector of a client is the set of its requests: nothing looks at     *)
(* their order, and their numbers tell requests of one moment apart.       *)
(***************************************************************************)
EXTENDS Integers, FiniteSets

CONSTANTS
  Clients,  \* what requests are counted by: addresses, or "direct"
  Handlers, \* requests that are served at once
  Limit,    \* max_requests
  Window,   \* window
  MaxDelay, \* the longest a handler waits between the clock and the lock
  MaxClock, \* bound: the clock
  MaxCalls  \* bound: requests of a client

ASSUME RateLimiterAssumption ==
  /\ Limit \in Nat /\ Window \in Nat /\ MaxDelay \in Nat
  /\ MaxClock \in Nat /\ MaxCalls \in Nat

VARIABLES
  clock,
  window,   \* requests: those kept for each client, with their times
  handler,  \* the client and the time of the request each handler serves
  \* History variables.
  accepted, \* all the requests each client got through
  unjust,   \* a request was refused though fewer than Limit were accepted
  calls     \* requests of each client

limiterVars == <<clock, window, handler, accepted, unjust, calls>>

Free == [busy |-> FALSE]

LimiterInit ==
  /\ clock = 0 /\ unjust = FALSE
  /\ window = [k \in Clients |-> {}] /\ accepted = window
  /\ handler = [h \in Handlers |-> Free]
  /\ calls = [k \in Clients |-> 0]

\* A handler that has read the clock takes the lock before long.
Tick ==
  /\ clock < MaxClock
  /\ \A h \in Handlers : handler[h].busy => clock - handler[h].time < MaxDelay
  /\ clock' = clock + 1
  /\ UNCHANGED <<window, handler, accepted, unjust, calls>>

\* api_rate_limit, and the first line of check.
Arrive(h, k) ==
  /\ ~handler[h].busy /\ calls[k] < MaxCalls
  /\ handler' = [handler EXCEPT ![h] = [busy |-> TRUE, client |-> k, time |-> clock]]
  /\ calls' = [calls EXCEPT ![k] = @ + 1]
  /\ UNCHANGED <<clock, window, accepted, unjust>>

\* duration_since: zero for a time that is later.
Since(now, time) == IF time > now THEN 0 ELSE now - time

\* What retain leaves of some requests.
Retained(requests, now) == {r \in requests : Since(now, r.time) < Window}

Request(k, now) == [number |-> Cardinality(accepted[k]), time |-> now]

\* Fewer than Limit requests within the window got through before.
Unjust(k, now) == Cardinality(Retained(accepted[k], now)) < Limit

\* Mutant: a request is counted before it is refused.
CheckCounted(h) ==
  LET k == handler[h].client
      now == handler[h].time
      kept == Retained(window[k], now) \union {Request(k, now)}
      ok == Cardinality(kept) =< Limit
  IN /\ handler[h].busy
     /\ window' = [window EXCEPT ![k] = kept]
     /\ accepted' = [accepted EXCEPT ![k] = IF ok THEN @ \union {Request(k, now)} ELSE @]
     /\ unjust' = (unjust \/ (~ok /\ Unjust(k, now)))
     /\ handler' = [handler EXCEPT ![h] = Free]
     /\ UNCHANGED <<clock, calls>>

\* The rest of check, under the lock of the client's entry.
Check(h) ==
  LET k == handler[h].client
      now == handler[h].time
      kept == Retained(window[k], now)
      new == IF Cardinality(kept) < Limit THEN {Request(k, now)} ELSE {}
  IN /\ handler[h].busy
     /\ window' = [window EXCEPT ![k] = kept \union new]
     /\ accepted' = [accepted EXCEPT ![k] = @ \union new]
     /\ unjust' = (unjust \/ (new = {} /\ Unjust(k, now)))
     /\ handler' = [handler EXCEPT ![h] = Free]
     /\ UNCHANGED <<clock, calls>>

LimiterNext ==
  \/ Tick
  \/ \E h \in Handlers : Check(h) \/ \E k \in Clients : Arrive(h, k)

LimiterSpec == LimiterInit /\ [][LimiterNext]_limiterVars

\* Whatever the order in which the handlers get the lock, no more than Limit
\* requests of a client get through in any Window, shortened by the longest
\* wait for the lock; and a request is refused only if Limit of the requests
\* before it, within the window, got through.
LimitHolds ==
  /\ ~unjust
  /\ \A k \in Clients, from \in 0..clock :
       Cardinality({r \in accepted[k] :
                      r.time \in from..(from + Window - MaxDelay - 1)}) =< Limit
=============================================================================
