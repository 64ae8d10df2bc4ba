------------------------- MODULE Algorithms_proofs -------------------------
(***************************************************************************)
(* Proofs about RateLimiter and Listings.                                  *)
(*                                                                         *)
(* RateLimiter: whatever the limit, the window, the longest wait for the   *)
(* lock and the number of handlers, no window holds more than the limit    *)
(* and nobody is refused without cause.  A request that retain dropped is  *)
(* so old that no handler that still waits for the lock has read a time    *)
(* within a shortened window of it: what such a window holds is what the   *)
(* handler counts.                                                         *)
(*                                                                         *)
(* Listings: whatever the entries, the rows, the sizes of the pages and    *)
(* what a reader asks for, the pages read to the end show everything there *)
(* was when the reader began.  What is listed is strictly ordered, so that *)
(* each element stands after as many as precede it; adding one moves the   *)
(* others back or leaves them: what is not shown yet does not fall before  *)
(* the start of the next page.                                             *)
(***************************************************************************)
EXTENDS RateLimiter, Listings, FiniteSetTheorems, SequenceTheorems, TLAPS

-----------------------------------------------------------------------------
(* RateLimiter.                                                            *)

Requests == [number : Nat, time : Nat]
Serving == [busy : {TRUE}, client : Clients, time : Nat]

TypeInv ==
  /\ clock \in Nat /\ unjust \in BOOLEAN
  /\ handler \in [Handlers -> {Free} \union Serving]
  /\ window \in [Clients -> SUBSET Requests]
  /\ accepted \in [Clients -> SUBSET Requests]
  /\ \A k \in Clients : IsFiniteSet(accepted[k])

\* A handler that waits for the lock has read the clock not long ago.
WaitInv ==
  \A h \in Handlers : handler[h].busy =>
    handler[h].time =< clock /\ clock - handler[h].time =< MaxDelay

\* The numbers of the requests tell them apart.
NumberInv ==
  \A k \in Clients : \A r \in accepted[k] : r.number < Cardinality(accepted[k])

\* Of the requests let through those are kept that are not too old.
KeptInv ==
  \A k \in Clients :
    /\ window[k] \subseteq accepted[k]
    /\ \A r \in accepted[k] : r.time =< clock
    /\ \A r \in accepted[k] \ window[k] : clock - r.time >= Window

Within(k, from) ==
  {r \in accepted[k] : r.time \in from..(from + Window - MaxDelay - 1)}

LimitInv ==
  ~unjust /\ \A k \in Clients, from \in Nat : Cardinality(Within(k, from)) =< Limit

Inv == TypeInv /\ WaitInv /\ NumberInv /\ KeptInv /\ LimitInv

-----------------------------------------------------------------------------
\* A request let through is counted as one more, and is not one that was.
LEMMA NewIsCounted ==
  ASSUME TypeInv, NumberInv, NEW k \in Clients, NEW now \in Nat
  PROVE  /\ Request(k, now) \in Requests /\ Request(k, now) \notin accepted[k]
         /\ Request(k, now).time = now
         /\ Request(k, now).number = Cardinality(accepted[k])
         /\ IsFiniteSet(accepted[k] \union {Request(k, now)})
         /\ Cardinality(accepted[k] \union {Request(k, now)}) = Cardinality(accepted[k]) + 1
<1> DEFINE q == Request(k, now)
<1>1. IsFiniteSet(accepted[k]) /\ Cardinality(accepted[k]) \in Nat
  BY FS_CardinalityType DEF TypeInv
<1>2. q \in Requests /\ q.time = now /\ q.number = Cardinality(accepted[k])
  BY <1>1 DEF Request, Requests
<1>3. q \notin accepted[k]
  BY <1>1, <1>2 DEF NumberInv
<1> HIDE DEF q
<1>4. /\ IsFiniteSet(accepted[k] \union {q})
      /\ Cardinality(accepted[k] \union {q}) = Cardinality(accepted[k]) + 1
  BY <1>1, <1>3, FS_AddElement
<1> QED
  BY <1>2, <1>3, <1>4 DEF q

\* check under the lock: what it keeps, whom it lets through.
LEMMA Checks ==
  ASSUME Inv, NEW h \in Handlers, Check(h)
  PROVE  \E k \in Clients, now \in Nat : \E kept, new :
           /\ now =< clock /\ clock - now =< MaxDelay
           /\ kept \subseteq window[k] /\ kept = Retained(window[k], now)
           /\ new = IF Cardinality(kept) < Limit THEN {Request(k, now)} ELSE {}
           /\ window' = [window EXCEPT ![k] = kept \union new]
           /\ accepted' = [accepted EXCEPT ![k] = accepted[k] \union new]
           /\ unjust' = (unjust \/ (new = {} /\ Unjust(k, now)))
           /\ handler' = [handler EXCEPT ![h] = Free]
           /\ clock' = clock
<1> DEFINE k == handler[h].client
           now == handler[h].time
           kept == Retained(window[k], now)
           new == IF Cardinality(kept) < Limit THEN {Request(k, now)} ELSE {}
<1>1. handler[h].busy /\ handler[h] \in Serving
  BY DEF Check, Inv, TypeInv, Free
<1>2. k \in Clients /\ now \in Nat /\ now =< clock /\ clock - now =< MaxDelay
  BY <1>1 DEF Serving, Inv, WaitInv
<1>3. kept \subseteq window[k]
  BY DEF Retained
<1>4. /\ window' = [window EXCEPT ![k] = kept \union new]
      /\ accepted' = [accepted EXCEPT ![k] = accepted[k] \union new]
      /\ unjust' = (unjust \/ (new = {} /\ Unjust(k, now)))
      /\ handler' = [handler EXCEPT ![h] = Free]
      /\ clock' = clock
  BY DEF Check
<1>5. /\ kept = Retained(window[k], now)
      /\ new = IF Cardinality(kept) < Limit THEN {Request(k, now)} ELSE {}
  OBVIOUS
<1> HIDE DEF k, now, kept, new
<1> QED
  BY <1>2, <1>3, <1>4, <1>5

\* What retain drops is older than any window a waiting handler is counted in.
LEMMA DropsOld ==
  ASSUME Inv, NEW k \in Clients, NEW now \in Nat, now =< clock,
         NEW r \in window[k] \ Retained(window[k], now)
  PROVE  clock - r.time >= Window
<1>1. r \in Requests /\ r.time =< clock /\ r.time \in Nat /\ clock \in Nat
  BY DEF Inv, TypeInv, KeptInv, Requests
<1>2. ~(Since(now, r.time) < Window)
  BY DEF Retained
<1> QED
  BY <1>1, <1>2, RateLimiterAssumption DEF Since

\* A shortened window that holds the handler's time is among what it keeps.
LEMMA WithinIsKept ==
  ASSUME Inv, NEW k \in Clients, NEW now \in Nat, now =< clock, clock - now =< MaxDelay,
         NEW from \in Nat, now \in from..(from + Window - MaxDelay - 1)
  PROVE  Within(k, from) \subseteq Retained(window[k], now)
<1> SUFFICES ASSUME NEW r \in Within(k, from) PROVE r \in Retained(window[k], now)
  OBVIOUS
<1>1. r \in accepted[k] /\ r.time \in from..(from + Window - MaxDelay - 1)
  BY DEF Within
<1>2. r.time \in Nat /\ clock \in Nat
  BY <1>1 DEF Inv, TypeInv, Requests
<1>3. now - r.time < Window - MaxDelay /\ Window > 0
  BY <1>1, <1>2, RateLimiterAssumption
<1>4. clock - r.time < Window
  BY <1>2, <1>3, RateLimiterAssumption
<1>5. r \in window[k]
  BY <1>1, <1>2, <1>4, RateLimiterAssumption DEF Inv, KeptInv
<1>6. Since(now, r.time) < Window
  BY <1>2, <1>3, RateLimiterAssumption DEF Since
<1> QED
  BY <1>5, <1>6 DEF Retained

\* Who is refused has Limit requests in the window.
LEMMA RefusedWithCause ==
  ASSUME Inv, NEW k \in Clients, NEW now \in Nat,
         ~(Cardinality(Retained(window[k], now)) < Limit)
  PROVE  ~Unjust(k, now)
<1> DEFINE kept == Retained(window[k], now)
           let == Retained(accepted[k], now)
<1>1. kept \subseteq let /\ let \subseteq accepted[k]
  BY DEF Retained, Inv, KeptInv
<1>2. IsFiniteSet(accepted[k])
  BY DEF Inv, TypeInv
<1> HIDE DEF kept, let
<1>3. /\ IsFiniteSet(let) /\ IsFiniteSet(kept) /\ Cardinality(kept) =< Cardinality(let)
      /\ Cardinality(kept) \in Nat /\ Cardinality(let) \in Nat
  BY <1>1, <1>2, FS_Subset, FS_CardinalityType
<1> QED
  BY <1>3, RateLimiterAssumption DEF Unjust, kept, let

\* Nothing is counted at first.
LEMMA InitInv == LimiterInit => Inv
<1> SUFFICES ASSUME LimiterInit PROVE Inv
  OBVIOUS
<1>1. \A k \in Clients : accepted[k] = {} /\ window[k] = {}
  BY DEF LimiterInit
<1>2. IsFiniteSet({}) /\ Cardinality({}) = 0
  BY FS_EmptySet
<1>3. TypeInv
  BY <1>1, <1>2 DEF LimiterInit, TypeInv
<1>4. WaitInv /\ NumberInv /\ KeptInv
  BY <1>1 DEF LimiterInit, WaitInv, NumberInv, KeptInv, Free
<1>5. \A k \in Clients, from \in Nat : Within(k, from) = {}
  BY <1>1 DEF Within
<1>6. LimitInv
  BY <1>2, <1>5, RateLimiterAssumption DEF LimitInv, LimiterInit
<1> QED
  BY <1>3, <1>4, <1>6 DEF Inv

\* The step that counts: it adds at most one request, of the handler's time.
LEMMA CheckKeepsInv ==
  ASSUME Inv, NEW h \in Handlers, Check(h)
  PROVE  Inv'
<1>0. PICK k \in Clients, now \in Nat : \E kept, new :
           /\ now =< clock /\ clock - now =< MaxDelay
           /\ kept \subseteq window[k] /\ kept = Retained(window[k], now)
           /\ new = IF Cardinality(kept) < Limit THEN {Request(k, now)} ELSE {}
           /\ window' = [window EXCEPT ![k] = kept \union new]
           /\ accepted' = [accepted EXCEPT ![k] = accepted[k] \union new]
           /\ unjust' = (unjust \/ (new = {} /\ Unjust(k, now)))
           /\ handler' = [handler EXCEPT ![h] = Free]
           /\ clock' = clock
  BY Checks
<1>1. PICK kept, new :
           /\ now =< clock /\ clock - now =< MaxDelay
           /\ kept \subseteq window[k] /\ kept = Retained(window[k], now)
           /\ new = IF Cardinality(kept) < Limit THEN {Request(k, now)} ELSE {}
           /\ window' = [window EXCEPT ![k] = kept \union new]
           /\ accepted' = [accepted EXCEPT ![k] = accepted[k] \union new]
           /\ unjust' = (unjust \/ (new = {} /\ Unjust(k, now)))
           /\ handler' = [handler EXCEPT ![h] = Free]
           /\ clock' = clock
  BY <1>0
<1>2. /\ window'[k] = kept \union new /\ accepted'[k] = accepted[k] \union new
      /\ \A c \in Clients \ {k} : window'[c] = window[c] /\ accepted'[c] = accepted[c]
  BY <1>1 DEF Inv, TypeInv
<1>3. /\ new = {} \/ new = {Request(k, now)}
      /\ new \subseteq Requests /\ \A r \in new : r.time = now
      /\ IsFiniteSet(accepted'[k])
      /\ \A r \in accepted'[k] : r.number < Cardinality(accepted'[k])
  <2>1. /\ IsFiniteSet(accepted[k]) /\ Cardinality(accepted[k]) \in Nat
        /\ \A r \in accepted[k] : r.number \in Nat
    BY FS_CardinalityType DEF Inv, TypeInv, Requests
  <2>2. CASE new = {}
    BY <1>2, <2>1, <2>2 DEF Inv, NumberInv
  <2>3. CASE new = {Request(k, now)}
    <3> DEFINE q == Request(k, now)
    <3>1. /\ q \in Requests /\ q.time = now /\ q.number = Cardinality(accepted[k])
          /\ IsFiniteSet(accepted[k] \union {q})
          /\ Cardinality(accepted[k] \union {q}) = Cardinality(accepted[k]) + 1
      BY NewIsCounted DEF Inv
    <3>2. \A r \in accepted[k] : r.number < Cardinality(accepted[k])
      BY DEF Inv, NumberInv
    <3>3. new = {q}
      BY <2>3
    <3> HIDE DEF q
    <3>4. \A r \in accepted[k] \union {q} : r.number < Cardinality(accepted[k]) + 1
      BY <2>1, <3>1, <3>2
    <3> QED
      BY <1>2, <3>1, <3>3, <3>4, <2>3
  <2> QED
    BY <1>1, <2>2, <2>3
<1>4. TypeInv'
  <2>1. window' \in [Clients -> SUBSET Requests] /\ accepted' \in [Clients -> SUBSET Requests]
    BY <1>1, <1>3 DEF Inv, TypeInv
  <2>2. \A c \in Clients : IsFiniteSet(accepted'[c])
    BY <1>2, <1>3 DEF Inv, TypeInv
  <2>3. unjust' \in BOOLEAN /\ handler' \in [Handlers -> {Free} \union Serving]
    BY <1>1 DEF Inv, TypeInv
  <2> QED
    BY <1>1, <2>1, <2>2, <2>3 DEF Inv, TypeInv
<1>5. WaitInv'
  BY <1>1 DEF Inv, WaitInv, TypeInv, Free
<1>6. NumberInv'
  BY <1>2, <1>3 DEF Inv, NumberInv
<1>7. KeptInv'
  <2> SUFFICES ASSUME NEW c \in Clients
               PROVE  /\ window'[c] \subseteq accepted'[c]
                      /\ \A r \in accepted'[c] : r.time =< clock
                      /\ \A r \in accepted'[c] \ window'[c] : clock - r.time >= Window
    BY <1>1 DEF KeptInv
  <2>1. CASE c # k
    BY <1>2, <2>1 DEF Inv, KeptInv
  <2>2. CASE c = k
    BY <1>1, <1>2, <1>3, <2>2, DropsOld DEF Inv, KeptInv
  <2> QED
    BY <2>1, <2>2
<1>8. LimitInv'
  <2>1. ~unjust'
    <3>1. new = {} => ~(Cardinality(kept) < Limit)
      BY <1>1
    <3> QED
      BY <1>1, <3>1, RefusedWithCause DEF Inv, LimitInv
  <2>2. ASSUME NEW c \in Clients, NEW from \in Nat PROVE Cardinality(Within(c, from)') =< Limit
    <3> DEFINE S == Within(c, from)
    <3>1. /\ Cardinality(S) =< Limit /\ IsFiniteSet(S)
          /\ Cardinality(S) \in Nat
      <4>1. S \subseteq accepted[c] /\ IsFiniteSet(accepted[c])
        BY DEF Within, Inv, TypeInv
      <4> QED
        BY <4>1, FS_Subset, FS_CardinalityType DEF Inv, LimitInv
    <3>2. CASE S' = S
      BY <3>1, <3>2
    <3>3. CASE S' # S
      <4>1. c = k /\ new # {} /\ now \in from..(from + Window - MaxDelay - 1)
        BY <1>2, <1>3, <3>3 DEF Within
      <4>2. S' = S \union {Request(k, now)} /\ S \subseteq kept
        BY <1>1, <1>2, <1>3, <4>1, WithinIsKept DEF Within
      <4>3. Cardinality(kept) < Limit
        BY <1>1, <4>1
      <4>4. IsFiniteSet(kept) /\ Cardinality(kept) \in Nat
        <5>1. kept \subseteq accepted[k] /\ IsFiniteSet(accepted[k])
          BY <1>1 DEF Inv, TypeInv, KeptInv
        <5> QED
          BY <5>1, FS_Subset, FS_CardinalityType
      <4> HIDE DEF S
      <4>5. Cardinality(S) =< Cardinality(kept)
        BY <4>2, <4>4, FS_Subset
      <4>6. Cardinality(S \union {Request(k, now)}) \in {Cardinality(S), Cardinality(S) + 1}
        BY <3>1, FS_AddElement, Zenon
      <4>7. Cardinality(S \union {Request(k, now)}) \in Nat
        BY <3>1, FS_AddElement, FS_CardinalityType
      <4> QED
        BY <3>1, <4>2, <4>3, <4>4, <4>5, <4>6, <4>7, RateLimiterAssumption DEF S
    <3> QED
      BY <3>2, <3>3
  <2> QED
    BY <2>1, <2>2 DEF LimitInv
<1> QED
  BY <1>4, <1>5, <1>6, <1>7, <1>8 DEF Inv

\* Every step keeps the invariant.
LEMMA StepKeepsInv == Inv /\ [LimiterNext]_limiterVars => Inv'
<1> SUFFICES ASSUME Inv, [LimiterNext]_limiterVars PROVE Inv'
  OBVIOUS
<1>1. CASE UNCHANGED limiterVars
  BY <1>1 DEF limiterVars, Inv, TypeInv, WaitInv, NumberInv, KeptInv, LimitInv, Within
<1>2. CASE Tick
  <2>1. /\ clock' = clock + 1 /\ UNCHANGED <<window, handler, accepted, unjust>>
        /\ \A h \in Handlers : handler[h].busy => clock - handler[h].time < MaxDelay
    BY <1>2 DEF Tick
  <2>2. TypeInv' /\ NumberInv'
    BY <2>1 DEF Inv, TypeInv, NumberInv
  <2>3. WaitInv'
    <3> SUFFICES ASSUME NEW h \in Handlers, handler[h].busy
                 PROVE  handler[h].time =< clock' /\ clock' - handler[h].time =< MaxDelay
      BY <2>1 DEF WaitInv
    <3>1. handler[h] \in Serving /\ clock \in Nat
      BY DEF Inv, TypeInv, Free
    <3>2. handler[h].time \in Nat
      BY <3>1 DEF Serving
    <3>3. handler[h].time =< clock /\ clock - handler[h].time < MaxDelay
      BY <2>1 DEF Inv, WaitInv
    <3> QED
      BY <2>1, <3>1, <3>2, <3>3, RateLimiterAssumption
  <2>4. KeptInv'
    BY <2>1, RateLimiterAssumption DEF Inv, TypeInv, KeptInv, Requests
  <2>5. LimitInv'
    BY <2>1 DEF Inv, LimitInv, Within
  <2> QED
    BY <2>2, <2>3, <2>4, <2>5 DEF Inv
<1>3. ASSUME NEW h \in Handlers, Check(h) PROVE Inv'
  BY <1>3, CheckKeepsInv
<1>4. ASSUME NEW h \in Handlers, NEW k \in Clients, Arrive(h, k) PROVE Inv'
  <2>1. /\ handler' = [handler EXCEPT ![h] = [busy |-> TRUE, client |-> k, time |-> clock]]
        /\ UNCHANGED <<clock, window, accepted, unjust>>
    BY <1>4 DEF Arrive
  <2>2. TypeInv' /\ NumberInv'
    BY <2>1 DEF Inv, TypeInv, NumberInv, Serving
  <2>3. WaitInv'
    BY <2>1, RateLimiterAssumption DEF Inv, TypeInv, WaitInv
  <2>4. KeptInv' /\ LimitInv'
    BY <2>1 DEF Inv, KeptInv, LimitInv, Within
  <2> QED
    BY <2>2, <2>3, <2>4 DEF Inv
<1> QED
  BY <1>1, <1>2, <1>3, <1>4 DEF LimiterNext

\* No shortened window holds more than Limit requests of a client, and a request
\* is refused only if Limit of those before it, within the window, got through:
\* RateLimiter::check, however many handlers wait for the lock at once.
THEOREM LimitIsKept == LimiterSpec => []LimitHolds
<1>1. Inv => LimitHolds
  <2> SUFFICES ASSUME Inv PROVE LimitHolds
    OBVIOUS
  <2>1. \A from \in 0..clock : from \in Nat
    BY DEF Inv, TypeInv
  <2> QED
    BY <2>1 DEF Inv, LimitInv, LimitHolds, Within
<1> QED
  BY <1>1, InitInv, StepKeepsInv, PTL DEF LimiterSpec

-----------------------------------------------------------------------------
(* Listings.                                                               *)

Before(S, R, x) == {y \in S : <<y, x>> \in R}
Rank(S, R, x) == Cardinality(Before(S, R, x))

\* R is a strict total order of S.
Orders(R, S) ==
  /\ \A x \in S : <<x, x>> \notin R
  /\ \A x, y, z \in S : <<x, y>> \in R /\ <<y, z>> \in R => <<x, z>> \in R
  /\ \A x, y \in S : x = y \/ <<x, y>> \in R \/ <<y, x>> \in R

\* No two elements have as many before them.
LEMMA Ranks ==
  ASSUME NEW S, IsFiniteSet(S), NEW R, Orders(R, S)
  PROVE  /\ Cardinality(S) \in Nat
         /\ \A x \in S : Rank(S, R, x) \in 0..(Cardinality(S) - 1)
         /\ \A x, y \in S : <<x, y>> \in R <=> Rank(S, R, x) < Rank(S, R, y)
<1>1. Cardinality(S) \in Nat
  BY FS_CardinalityType
<1>2. ASSUME NEW x \in S
      PROVE  /\ IsFiniteSet(Before(S, R, x))
             /\ Rank(S, R, x) \in 0..(Cardinality(S) - 1)
  <2>1. Before(S, R, x) \in SUBSET (S \ {x})
    BY DEF Before, Orders
  <2>2. IsFiniteSet(S \ {x}) /\ Cardinality(S \ {x}) = Cardinality(S) - 1
    BY FS_RemoveElement
  <2>3. IsFiniteSet(Before(S, R, x)) /\ Rank(S, R, x) =< Cardinality(S \ {x})
    BY <2>1, <2>2, FS_Subset DEF Rank
  <2>4. Rank(S, R, x) \in Nat
    BY <2>3, FS_CardinalityType DEF Rank
  <2> QED
    BY <1>1, <2>2, <2>3, <2>4
<1>3. ASSUME NEW x \in S, NEW y \in S, <<x, y>> \in R
      PROVE  Rank(S, R, x) < Rank(S, R, y)
  <2>1. Before(S, R, x) \union {x} \in SUBSET Before(S, R, y)
    BY <1>3 DEF Before, Orders
  <2>2. x \notin Before(S, R, x)
    BY DEF Before, Orders
  <2>3. Cardinality(Before(S, R, x) \union {x}) = Rank(S, R, x) + 1
    BY <1>2, <2>2, FS_AddElement DEF Rank
  <2>4. Cardinality(Before(S, R, x) \union {x}) =< Rank(S, R, y)
    BY <1>2, <2>1, FS_Subset DEF Rank
  <2> QED
    BY <1>2, <2>3, <2>4
<1>4. ASSUME NEW x \in S, NEW y \in S, Rank(S, R, x) < Rank(S, R, y)
      PROVE  <<x, y>> \in R
  <2>1. Rank(S, R, x) \in Int /\ Rank(S, R, y) \in Int
    BY <1>1, <1>2
  <2>2. x # y /\ <<y, x>> \notin R
    BY <1>3, <1>4, <2>1
  <2> QED
    BY <2>2 DEF Orders
<1> QED
  BY <1>1, <1>2, <1>3, <1>4

\* The list of S in the order R has each element once, after as many others
\* as precede it.
LEMMA SortedIsList ==
  ASSUME NEW S, IsFiniteSet(S), NEW R, Orders(R, S)
  PROVE  /\ Sorted(S, R) \in [1..Cardinality(S) -> S]
         /\ \A i \in 1..Cardinality(S) : Rank(S, R, Sorted(S, R)[i]) = i - 1
         /\ \A x \in S : Sorted(S, R)[Rank(S, R, x) + 1] = x
<1> DEFINE n == Cardinality(S)
<1>1. /\ n \in Nat
      /\ \A x \in S : Rank(S, R, x) \in 0..(n - 1)
      /\ \A x, y \in S : <<x, y>> \in R <=> Rank(S, R, x) < Rank(S, R, y)
  BY Ranks
<1>2. \A x, y \in S : Rank(S, R, x) = Rank(S, R, y) => x = y
  BY <1>1 DEF Orders
<1>3. \A i \in 1..n : \E x \in S : Rank(S, R, x) = i - 1
  <2> DEFINE f == [x \in S |-> Rank(S, R, x)]
  <2>1. f \in Injection(S, 0..(n - 1))
    BY <1>1, <1>2 DEF Injection, IsInjective
  <2>2. IsFiniteSet(0..(n - 1)) /\ Cardinality(0..(n - 1)) = n
    <3> DEFINE last == n - 1
    <3>1. last \in Int /\ (IF 0 > last THEN 0 ELSE last - 0 + 1) = n
      BY <1>1
    <3> HIDE DEF last
    <3>2. IsFiniteSet(0..last) /\ Cardinality(0..last) = IF 0 > last THEN 0 ELSE last - 0 + 1
      BY <3>1, FS_Interval
    <3> QED
      BY <3>1, <3>2 DEF last
  <2>3. f \in Surjection(S, 0..(n - 1))
    BY <2>1, <2>2, FS_Injection
  <2>4. ASSUME NEW i \in 1..n PROVE \E x \in S : f[x] = i - 1
    <3>1. i - 1 \in 0..(n - 1)
      BY <1>1
    <3> HIDE DEF f
    <3> QED
      BY <2>3, <3>1 DEF Surjection
  <2> QED
    BY <2>4
<1>4. ASSUME NEW i \in 1..n
      PROVE  /\ Sorted(S, R)[i] \in S
             /\ Rank(S, R, Sorted(S, R)[i]) = i - 1
  <2>1. Sorted(S, R)[i] = CHOOSE x \in S : Rank(S, R, x) = i - 1
    BY DEF Sorted, Rank, Before
  <2> QED
    BY <1>3, <2>1
<1>5. Sorted(S, R) \in [1..n -> S]
  BY <1>4 DEF Sorted
<1>6. ASSUME NEW x \in S PROVE Sorted(S, R)[Rank(S, R, x) + 1] = x
  BY <1>1, <1>2, <1>4
<1> QED
  BY <1>4, <1>5, <1>6

Least(a, b) == IF a < b THEN a ELSE b

\* A page is the part of the list from off on, or what there is of it.
LEMMA PageOfList ==
  ASSUME NEW T, NEW s \in Seq(T), NEW off \in Nat, NEW limit \in Nat
  PROVE  /\ Page(s, off, limit) \in Seq(T)
         /\ Len(Page(s, off, limit)) = Least(off + limit, Len(s)) - Least(off, Len(s))
         /\ \A i \in 1..Len(Page(s, off, limit)) :
              off + i \in 1..Len(s) /\ Page(s, off, limit)[i] = s[off + i]
<1> DEFINE last == Least(off + limit, Len(s))
<1>1. Len(s) \in Nat /\ last \in Nat /\ last =< Len(s)
  BY DEF Least
<1>2. \A i \in (off + 1)..last : s[i] \in T
  BY <1>1, LenProperties
<1>3. Page(s, off, limit) = SubSeq(s, off + 1, last)
  BY DEF Page, Least
<1> HIDE DEF last
<1>4. /\ SubSeq(s, off + 1, last) \in Seq(T)
      /\ Len(SubSeq(s, off + 1, last)) = IF off + 1 =< last THEN last - off ELSE 0
      /\ \A i \in 1..(last - off) : SubSeq(s, off + 1, last)[i] = s[off + i]
  <2>1. /\ SubSeq(s, off + 1, last) \in Seq(T)
        /\ Len(SubSeq(s, off + 1, last)) =
             IF off + 1 =< last THEN last - (off + 1) + 1 ELSE 0
        /\ \A i \in 1..(last - (off + 1) + 1) :
             SubSeq(s, off + 1, last)[i] = s[(off + 1) + i - 1]
    BY <1>1, <1>2, SubSeqProperties
  <2> QED
    BY <1>1, <2>1
<1>5. Len(SubSeq(s, off + 1, last)) = last - Least(off, Len(s))
  <2>1. \A len \in Nat : LET l == Least(off + limit, len)
                          IN (IF off + 1 =< l THEN l - off ELSE 0) = l - Least(off, len)
    BY DEF Least
  <2> QED
    BY <1>1, <1>4, <2>1 DEF last
<1>6. \A i \in 1..Len(SubSeq(s, off + 1, last)) : i \in 1..(last - off) /\ off + i \in 1..Len(s)
  BY <1>1, <1>4
<1> QED
  BY <1>3, <1>4, <1>5, <1>6 DEF last

\* Where a page lies in a list of n elements.
LEMMA LeastOf ==
  ASSUME NEW off \in Nat, NEW limit \in Nat, NEW n \in Nat
  PROVE  /\ Least(off, n) \in Nat /\ Least(off + limit, n) \in Nat
         /\ Least(off, n) =< Least(off + limit, n)
         /\ \A k \in Nat : off =< k /\ k < off + limit /\ k < n
                          => k + 1 - off \in 1..(Least(off + limit, n) - Least(off, n))
         /\ Least(off, n) # off => Least(off + limit, n) = Least(off, n)
BY DEF Least

\* With the page from off to next of the list of S after ids, what was not
\* shown comes after next, and a beginning of the list stays one.
Continues(S, R, off, limit, next, ids) ==
  LET all == ids \o Ids(Page(Sorted(S, R), off, limit))
  IN  /\ all \in Seq(Int)
      /\ ToSet(ids) \subseteq ToSet(all)
      /\ \A x \in S : x.id \notin ToSet(all) /\ Rank(S, R, x) >= off
                      => Rank(S, R, x) >= next
      /\ /\ Len(ids) = Least(off, Cardinality(S))
         /\ \A i \in 1..Len(ids) : ids[i] = Sorted(S, R)[i].id
         => /\ Len(all) = Least(next, Cardinality(S))
            /\ \A i \in 1..Len(all) : all[i] = Sorted(S, R)[i].id

\* Every page of a strictly ordered set does.
LEMMA PageShows ==
  ASSUME NEW S, IsFiniteSet(S), NEW R, Orders(R, S), \A x \in S : x.id \in Int,
         NEW off \in Nat, NEW limit \in Nat, NEW next \in Nat,
         Least(next, Cardinality(S)) = Least(off + limit, Cardinality(S)),
         NEW ids \in Seq(Int)
  PROVE  Continues(S, R, off, limit, next, ids)
<1> DEFINE all == ids \o Ids(Page(Sorted(S, R), off, limit))
<1> DEFINE n == Cardinality(S)
           s == Sorted(S, R)
           page == Page(s, off, limit)
           read == Ids(page)
<1>1. /\ n \in Nat /\ s \in Seq(S) /\ Len(s) = n
      /\ s \in [1..n -> S]
      /\ \A i \in 1..n : Rank(S, R, s[i]) = i - 1
      /\ \A x \in S : s[Rank(S, R, x) + 1] = x /\ Rank(S, R, x) \in 0..(n - 1)
  <2>1. /\ n \in Nat /\ s \in [1..n -> S]
        /\ \A i \in 1..n : Rank(S, R, s[i]) = i - 1
        /\ \A x \in S : s[Rank(S, R, x) + 1] = x /\ Rank(S, R, x) \in 0..(n - 1)
    BY SortedIsList, Ranks
  <2> HIDE DEF n, s
  <2>2. s \in Seq(S) /\ Len(s) = n
    BY <2>1
  <2> QED
    BY <2>1, <2>2
<1> HIDE DEF n, s
<1>2. /\ page \in Seq(S) /\ Len(page) = Least(off + limit, n) - Least(off, n)
      /\ \A i \in 1..Len(page) : off + i \in 1..n /\ page[i] = s[off + i]
  <2>1. n \in Nat /\ s \in Seq(S) /\ Len(s) = n
    BY <1>1
  <2> QED
    BY <2>1, PageOfList
<1>3. /\ read \in Seq(Int) /\ Len(read) = Len(page)
      /\ \A i \in 1..Len(read) : off + i \in 1..n /\ read[i] = s[off + i].id
  <2>1. DOMAIN page = 1..Len(page) /\ Len(page) \in Nat
    BY <1>2, LenProperties
  <2>2. read = [i \in 1..Len(page) |-> page[i].id]
    BY <2>1 DEF Ids
  <2>3. \A i \in 1..Len(page) : page[i].id \in Int
    BY <1>1, <1>2
  <2> QED
    <3> DEFINE m == Len(page)
    <3>1. m \in Nat /\ read = [i \in 1..m |-> page[i].id] /\ \A i \in 1..m : page[i].id \in Int
      BY <2>1, <2>2, <2>3
    <3> HIDE DEF m, read
    <3>2. read \in [1..m -> Int]
      BY <3>1
    <3>3. read \in Seq(Int) /\ Len(read) = m
      BY <3>1, <3>2
    <3>4. \A i \in 1..m : read[i] = page[i].id
      BY <3>1
    <3> QED
      BY <1>2, <3>3, <3>4 DEF m
<1> HIDE DEF read
<1>4. /\ all \in Seq(Int) /\ Len(all) = Len(ids) + Len(read)
      /\ \A i \in 1..(Len(ids) + Len(read)) :
           all[i] = IF i =< Len(ids) THEN ids[i] ELSE read[i - Len(ids)]
      /\ Len(ids) \in Nat /\ Len(read) \in Nat
  <2>1. all = ids \o read
    BY DEF read, s
  <2> HIDE DEF all
  <2> QED
    <3>1. /\ ids \o read \in Seq(Int) /\ Len(ids \o read) = Len(ids) + Len(read)
          /\ \A i \in 1..(Len(ids) + Len(read)) :
               (ids \o read)[i] = IF i =< Len(ids) THEN ids[i] ELSE read[i - Len(ids)]
      BY <1>3, ConcatProperties
    <3>2. Len(ids) \in Nat /\ Len(read) \in Nat
      BY <1>3, LenProperties
    <3> QED
      BY <2>1, <3>1, <3>2, Zenon
<1> HIDE DEF all
<1>5. ToSet(all) = {all[i] : i \in 1..Len(all)} /\ ToSet(ids) = {ids[i] : i \in 1..Len(ids)}
  BY <1>4, LenProperties DEF ToSet
<1>6. ToSet(ids) \subseteq ToSet(all)
  <2>1. ASSUME NEW i \in 1..Len(ids) PROVE i \in 1..Len(all) /\ all[i] = ids[i]
    <3>1. i \in 1..(Len(ids) + Len(read)) /\ i =< Len(ids)
      BY <1>4
    <3> QED
      BY <1>4, <3>1
  <2> QED
    BY <1>5, <2>1
<1>7. ASSUME NEW x \in S, x.id \notin ToSet(all), Rank(S, R, x) >= off
      PROVE  Rank(S, R, x) >= next
  <2> DEFINE k == Rank(S, R, x)
  <2>1. k \in 0..(n - 1) /\ s[k + 1] = x
    BY <1>1
  <2>2. SUFFICES ASSUME k < next PROVE FALSE
    BY <2>1
  <2>3. k < off + limit
    BY <1>1, <2>1, <2>2 DEF Least, n
  <2>4. k + 1 - off \in 1..Len(read)
    <3>1. k \in Nat /\ k < n /\ off =< k
      BY <1>1, <1>7, <2>1
    <3> HIDE DEF k
    <3>2. k + 1 - off \in 1..(Least(off + limit, n) - Least(off, n))
      BY <1>1, <2>3, <3>1, LeastOf
    <3> QED
      BY <1>2, <1>3, <3>2
  <2>5. read[k + 1 - off] = x.id
    <3>1. k \in Int /\ off + (k + 1 - off) = k + 1
      BY <1>1, <2>1
    <3>2. read[k + 1 - off] = s[off + (k + 1 - off)].id
      BY <1>3, <2>4
    <3> QED
      BY <2>1, <3>1, <3>2
  <2>6. all[Len(ids) + (k + 1 - off)] = x.id /\ Len(ids) + (k + 1 - off) \in 1..Len(all)
    <3> DEFINE j == k + 1 - off
    <3>1. j \in 1..Len(read) /\ read[j] = x.id
      BY <2>4, <2>5
    <3> HIDE DEF j
    <3>2. /\ Len(ids) + j \in 1..Len(all) /\ ~(Len(ids) + j =< Len(ids))
          /\ (Len(ids) + j) - Len(ids) = j
      BY <1>4, <3>1
    <3>3. all[Len(ids) + j] = read[j]
      BY <1>4, <3>2
    <3> QED
      BY <3>1, <3>2, <3>3 DEF j
  <2> QED
    BY <1>5, <1>7, <2>6
<1>8. ASSUME Len(ids) = Least(off, n), \A i \in 1..Len(ids) : ids[i] = s[i].id
      PROVE  /\ Len(all) = Least(next, n)
             /\ \A i \in 1..Len(all) : all[i] = s[i].id
  <2>1. Len(all) = Least(next, n)
    <3>1. Len(all) = Least(off, n) + (Least(off + limit, n) - Least(off, n))
      BY <1>2, <1>3, <1>4, <1>8
    <3>2. Least(off, n) \in Nat /\ Least(off + limit, n) \in Nat
      BY <1>1, LeastOf
    <3> QED
      BY <3>1, <3>2 DEF n
  <2>2. ASSUME NEW i \in 1..Len(all), i > Len(ids) PROVE all[i] = s[i].id
    <3>1. i - Len(ids) \in 1..Len(read)
      BY <1>4, <2>2
    <3>2. Len(ids) = off
      BY <1>1, <1>3, <1>8, <3>1 DEF Least
    <3>3. i \in Int /\ ~(i =< Len(ids))
      BY <1>4, <2>2
    <3>4. all[i] = read[i - Len(ids)]
      BY <1>4, <3>3
    <3>5. off + (i - Len(ids)) = i
      BY <3>2, <3>3
    <3>6. read[i - Len(ids)] = s[off + (i - Len(ids))].id
      BY <1>3, <3>1
    <3> QED
      BY <3>4, <3>5, <3>6
  <2>3. ASSUME NEW i \in 1..Len(all), i =< Len(ids) PROVE all[i] = s[i].id
    BY <1>4, <1>8, <2>3
  <2>4. \A i \in 1..Len(all) : i =< Len(ids) \/ i > Len(ids)
    BY <1>4
  <2> QED
    BY <2>1, <2>2, <2>3, <2>4
<1> QED
  BY <1>4, <1>6, <1>7, <1>8 DEF Continues, all, n, s

-----------------------------------------------------------------------------
\* Values of one kind are compared in an order, up to equality.
LEMMA CompareIsOrder ==
  ASSUME NEW V, OneKind(V), NEW x \in V, NEW y \in V, NEW z \in V
  PROVE  /\ Compare(x, y) \in Int /\ Compare(y, x) = -Compare(x, y)
         /\ Compare(x, y) =< 0 /\ Compare(y, z) =< 0 => Compare(x, z) =< 0
         /\ Compare(x, y) =< 0 /\ Compare(y, z) =< 0
            /\ (Compare(x, y) < 0 \/ Compare(y, z) < 0) => Compare(x, z) < 0
<1>1. PICK kind \in {v[1] : v \in V} \union {"null"} : \A v \in V \ {Null} :
        /\ v[1] = kind
        /\ kind \in {"text", "number"} => v[2] \in Int
        /\ kind = "bool" => v[2] \in BOOLEAN
  BY DEF OneKind
<1>2. Null[1] = "null"
  BY DEF Null
<1>3. CASE kind \in {"text", "number"}
  <2>1. \A v, w \in V : Compare(v, w) =
          IF v = Null THEN IF w = Null THEN 0 ELSE 1
          ELSE IF w = Null THEN -1 ELSE v[2] - w[2]
    BY <1>1, <1>2, <1>3 DEF Compare
  <2>2. \A v \in V : v # Null => v[2] \in Int
    BY <1>1, <1>3
  <2> QED
    BY <2>1, <2>2
<1>4. CASE kind = "bool"
  <2> DEFINE Rated(v) == IF v = Null THEN 2 ELSE IF v[2] = TRUE THEN 1 ELSE 0
  <2>1. \A v \in V : v # Null => v[1] = "bool" /\ (v[2] = TRUE \/ v[2] = FALSE)
    BY <1>1, <1>4
  <2>2. ASSUME NEW v \in V, NEW w \in V
        PROVE  Compare(v, w) = IF Rated(v) = Rated(w) THEN 0
                               ELSE IF Rated(v) < Rated(w) THEN -1 ELSE 1
    <3>1. CASE v = Null \/ w = Null
      BY <1>2, <2>1, <3>1 DEF Compare
    <3>2. CASE v # Null /\ w # Null
      <4>1. Compare(v, w) = IF v[2] # w[2] THEN IF w[2] THEN -1 ELSE 1 ELSE 0
        BY <2>1, <3>2 DEF Compare
      <4>2. (v[2] = TRUE \/ v[2] = FALSE) /\ (w[2] = TRUE \/ w[2] = FALSE)
        BY <2>1, <3>2
      <4>3. CASE v[2] = TRUE /\ w[2] = TRUE
        BY <3>2, <4>1, <4>3
      <4>4. CASE v[2] = TRUE /\ w[2] = FALSE
        BY <3>2, <4>1, <4>4
      <4>5. CASE v[2] = FALSE /\ w[2] = TRUE
        BY <3>2, <4>1, <4>5
      <4>6. CASE v[2] = FALSE /\ w[2] = FALSE
        BY <3>2, <4>1, <4>6
      <4> QED
        BY <4>2, <4>3, <4>4, <4>5, <4>6
    <3> QED
      BY <3>1, <3>2
  <2>3. \A v \in V : Rated(v) \in Int
    OBVIOUS
  <2> HIDE DEF Rated
  <2> QED
    BY <2>2, <2>3
<1>5. CASE kind \notin {"text", "number", "bool"}
  <2>1. \A v, w \in V : Compare(v, w) =
          IF v = Null THEN IF w = Null THEN 0 ELSE 1
          ELSE IF w = Null THEN -1 ELSE 0
    BY <1>1, <1>2, <1>5 DEF Compare
  <2> QED
    BY <2>1
<1> QED
  BY <1>3, <1>4, <1>5

EntryOrder(S, q) == {p \in S \X S : Precedes(p[1], p[2], q.sort, q.order)}

\* Entries that differ are listed one before the other.
LEMMA EntriesAreOrdered ==
  ASSUME NEW q \in Queries, q.listing # "audit", NEW S \in SUBSET Library
  PROVE  Orders(EntryOrder(S, q), S)
<1> DEFINE V == {Get(e.data, q.sort) : e \in Library}
           c(a, b) == Directed(Compare(Get(a.data, q.sort), Get(b.data, q.sort)), q.order)
           d(a, b) == Directed(a.id - b.id, q.order)
<1>1. \A a, b \in S : <<a, b>> \in EntryOrder(S, q) <=> Precedes(a, b, q.sort, q.order)
  BY DEF EntryOrder
<1>2. \A a, b \in S : /\ a.id \in Int /\ b.id \in Int
                      /\ a.id = b.id => a = b
  BY ListingsAssumption
<1>3. CASE q.sort = Field("_id")
  <2>1. \A a, b \in S : Precedes(a, b, q.sort, q.order) <=>
          IF q.order = "desc" THEN b.id < a.id ELSE a.id < b.id
    BY <1>2, <1>3 DEF Precedes, Directed
  <2> QED
    BY <1>1, <1>2, <2>1 DEF Orders
<1>4. CASE q.sort # Field("_id")
  <2>1. OneKind(V)
    BY <1>4, ListingsAssumption
  <2>2. \A a \in S : Get(a.data, q.sort) \in V
    OBVIOUS
  <2> HIDE DEF V
  <2>3. ASSUME NEW x \in S, NEW y \in S, NEW z \in S
        PROVE  /\ c(x, y) \in Int /\ c(y, x) = -c(x, y)
               /\ c(x, y) =< 0 /\ c(y, z) =< 0 => c(x, z) =< 0
               /\ c(x, y) =< 0 /\ c(y, z) =< 0
                  /\ (c(x, y) < 0 \/ c(y, z) < 0) => c(x, z) < 0
    <3> DEFINE u == Get(x.data, q.sort)
               v == Get(y.data, q.sort)
               w == Get(z.data, q.sort)
    <3>1. u \in V /\ v \in V /\ w \in V
      BY <2>2
    <3> HIDE DEF u, v, w
    <3>2. /\ Compare(u, v) \in Int /\ Compare(v, u) = -Compare(u, v)
          /\ Compare(u, v) =< 0 /\ Compare(v, w) =< 0 => Compare(u, w) =< 0
          /\ Compare(u, v) =< 0 /\ Compare(v, w) =< 0
             /\ (Compare(u, v) < 0 \/ Compare(v, w) < 0) => Compare(u, w) < 0
      BY <2>1, <3>1, CompareIsOrder
    <3>3. /\ Compare(v, w) \in Int /\ Compare(w, v) = -Compare(v, w)
          /\ Compare(u, w) \in Int /\ Compare(w, u) = -Compare(u, w)
          /\ Compare(w, v) =< 0 /\ Compare(v, u) =< 0 => Compare(w, u) =< 0
          /\ Compare(w, v) =< 0 /\ Compare(v, u) =< 0
             /\ (Compare(w, v) < 0 \/ Compare(v, u) < 0) => Compare(w, u) < 0
      BY <2>1, <3>1, CompareIsOrder
    <3> QED
      BY <3>2, <3>3 DEF Directed, u, v, w
  <2>4. \A a, b \in S : Precedes(a, b, q.sort, q.order) <=>
          c(a, b) < 0 \/ (c(a, b) = 0 /\ a.id < b.id)
    BY <1>4 DEF Precedes
  <2> HIDE DEF c
  <2>5. \A a \in S : ~Precedes(a, a, q.sort, q.order)
    BY <1>2, <2>3, <2>4
  <2>6. \A a, b \in S : \/ a = b \/ Precedes(a, b, q.sort, q.order)
                        \/ Precedes(b, a, q.sort, q.order)
    BY <1>2, <2>3, <2>4
  <2>7. ASSUME NEW x \in S, NEW y \in S, NEW z \in S,
               Precedes(x, y, q.sort, q.order), Precedes(y, z, q.sort, q.order)
        PROVE  Precedes(x, z, q.sort, q.order)
    <3>1. /\ c(x, y) \in Int /\ c(y, z) \in Int /\ c(x, z) \in Int /\ c(z, x) = -c(x, z)
          /\ c(y, x) = -c(x, y) /\ c(z, y) = -c(y, z)
      BY <2>3
    <3>2. /\ c(x, y) =< 0 /\ c(y, z) =< 0
          /\ c(x, y) < 0 \/ (c(x, y) = 0 /\ x.id < y.id)
          /\ c(y, z) < 0 \/ (c(y, z) = 0 /\ y.id < z.id)
      BY <2>4, <2>7, <3>1
    <3>3. CASE c(x, y) < 0 \/ c(y, z) < 0
      BY <2>3, <2>4, <3>2, <3>3
    <3>4. CASE c(x, y) = 0 /\ c(y, z) = 0
      <4>1. c(x, z) =< 0 /\ c(z, x) =< 0
        BY <2>3, <3>1, <3>4
      <4>2. c(x, z) = 0 /\ x.id < z.id
        BY <1>2, <3>1, <3>2, <3>4, <4>1
      <4> QED
        BY <2>4, <4>2
    <3> QED
      BY <3>1, <3>2, <3>3, <3>4
  <2> QED
    BY <1>1, <2>5, <2>6, <2>7 DEF Orders
<1> QED
  BY <1>3, <1>4

RowOrder(S) == {p \in S \X S : Newer(p[1], p[2])}
Logged == {Log[i] : i \in DOMAIN Log}

\* The rows of the log are rows.
LEMMA RowsAreTyped == \A i \in DOMAIN Log : Log[i] \in Row
<1>1. Log \in Seq(Row)
  BY ListingsAssumption
<1> QED
  BY <1>1, LenProperties

\* Rows are listed by their times, and by their ids where these are equal.
LEMMA RowsAreOrdered ==
  ASSUME NEW S \in SUBSET Logged
  PROVE  Orders(RowOrder(S), S)
<1>1. \A a \in S : a.id \in Int /\ a.day \in Nat /\ a.time \in 0..9
  BY RowsAreTyped DEF Logged, Row
<1>2. \A a, b \in S : a.id = b.id => a = b
  BY ListingsAssumption DEF Logged
<1>3. \A a, b \in S : <<a, b>> \in RowOrder(S) <=>
        \/ 10 * a.day + a.time > 10 * b.day + b.time
        \/ (10 * a.day + a.time = 10 * b.day + b.time /\ a.id > b.id)
  BY DEF RowOrder, Newer
<1> DEFINE Time(a) == 10 * a.day + a.time
<1>4. \A a \in S : Time(a) \in Int
  BY <1>1
<1>5. \A a, b \in S : <<a, b>> \in RowOrder(S) <=>
        Time(a) > Time(b) \/ (Time(a) = Time(b) /\ a.id > b.id)
  BY <1>3
<1> HIDE DEF Time
<1>6. \A a \in S : <<a, a>> \notin RowOrder(S)
  BY <1>1, <1>4, <1>5
<1>7. \A a, b, c \in S : <<a, b>> \in RowOrder(S) /\ <<b, c>> \in RowOrder(S)
                           => <<a, c>> \in RowOrder(S)
  BY <1>1, <1>4, <1>5
<1>8. \A a, b \in S : a = b \/ <<a, b>> \in RowOrder(S) \/ <<b, a>> \in RowOrder(S)
  <2> SUFFICES ASSUME NEW a \in S, NEW b \in S
               PROVE  a = b \/ <<a, b>> \in RowOrder(S) \/ <<b, a>> \in RowOrder(S)
    OBVIOUS
  <2>1. \/ Time(a) > Time(b) \/ Time(b) > Time(a)
        \/ (Time(a) = Time(b) /\ (a.id > b.id \/ b.id > a.id \/ a.id = b.id))
    BY <1>1, <1>4
  <2> QED
    BY <1>2, <1>5, <2>1
<1> QED
  BY <1>6, <1>7, <1>8 DEF Orders

-----------------------------------------------------------------------------
\* The filters pick what was asked for.
LEMMA MatchingIsAsked ==
  ASSUME entries \subseteq Library, query \in Queries, query.listing # "audit"
  PROVE  Matching(entries, query) = Asked(query)
<1>1. \A e \in Library : LET s == Get(e.data, Field("_status"))
                         IN  s[1] = "text" => s = Text(s[2])
  BY ListingsAssumption
<1>2. \A e \in Library : GetEntryStatus(e.data) = "draft" <=> Live(e, "draft")
  BY <1>1 DEF GetEntryStatus, Live, Text
<1>3. \A e \in Library : \A status :
        status \notin {"all", "draft"} =>
          (GetEntryStatus(e.data) = "published" <=> Live(e, status))
  BY <1>1 DEF GetEntryStatus, Live, Text
<1>4. FilterByStatus(entries, query.status) = {e \in entries : Live(e, query.status)}
  <2>1. CASE query.status = "all"
    BY <2>1 DEF FilterByStatus, Live
  <2>2. CASE query.status = "draft"
    BY <1>2, <2>2 DEF FilterByStatus
  <2>3. CASE query.status \notin {"all", "draft"}
    BY <1>3, <2>3 DEF FilterByStatus
  <2> QED
    BY <2>1, <2>2, <2>3
<1> QED
  BY <1>4 DEF Matching, FilterByFields, FilterEntries, Asked

\* A date as the prefix of a time is less than any time of its day.
LEMMA DayBegins ==
  ASSUME NEW day \in Nat, NEW time \in 0..9, NEW other \in Nat
  PROVE  /\ 10 * day + time >= 10 * other <=> day >= other
         /\ 10 * day + time < 10 * (other + 1) <=> day =< other
OBVIOUS

\* The conditions of the statement select what was asked for.
LEMMA LogFilteredIsAsked ==
  ASSUME rows \in 0..Len(Log), query \in Queries, query.listing = "audit"
  PROVE  Selected(rows, query) = Asked(query)
<1>1. \A i \in 1..rows :
        /\ Log[i].day \in Nat /\ Log[i].time \in 0..9
        /\ Log[i].app = None \/ Log[i].app # "global"
  <2>1. 1..rows \subseteq DOMAIN Log
    BY ListingsAssumption, LenProperties
  <2> QED
    BY <2>1, RowsAreTyped DEF Row
<1>2. {query.from, query.to} \subseteq Nat \union {None} /\ None \notin Nat
  BY ListingsAssumption
<1>3. ASSUME NEW i \in 1..rows
      PROVE  AuditWhere(Log[i], query) <=>
               /\ query.action \in {None, Log[i].action}
               /\ query.actor \in {None, Log[i].actor}
               /\ query.app \in {None, IF Log[i].app = None THEN "global" ELSE Log[i].app}
               /\ query.from = None \/ Log[i].day >= query.from
               /\ query.to = None \/ Log[i].day =< query.to
  <2>1. (query.from # None => 10 * Log[i].day + Log[i].time >= 10 * query.from)
        <=> (query.from = None \/ Log[i].day >= query.from)
    <3>1. CASE query.from = None
      BY <3>1
    <3>2. CASE query.from # None
      <4>1. query.from \in Nat
        BY <1>2, <3>2
      <4>2. Log[i].day \in Nat /\ Log[i].time \in 0..9
        BY <1>1
      <4> QED
        BY <3>2, <4>1, <4>2, DayBegins
    <3> QED
      BY <3>1, <3>2
  <2>2. (query.to # None => 10 * Log[i].day + Log[i].time < 10 * (query.to + 1))
        <=> (query.to = None \/ Log[i].day =< query.to)
    <3>1. CASE query.to = None
      BY <3>1
    <3>2. CASE query.to # None
      <4>1. query.to \in Nat
        BY <1>2, <3>2
      <4>2. Log[i].day \in Nat /\ Log[i].time \in 0..9
        BY <1>1
      <4> QED
        BY <3>2, <4>1, <4>2, DayBegins
    <3> QED
      BY <3>1, <3>2
  <2>3. (query.app # None =>
           Log[i].app = (IF query.app = "global" THEN None ELSE query.app))
        <=> query.app \in {None, IF Log[i].app = None THEN "global" ELSE Log[i].app}
    BY <1>1
  <2> QED
    BY <2>1, <2>2, <2>3 DEF AuditWhere
<1> QED
  BY <1>3 DEF Selected, Asked

-----------------------------------------------------------------------------
\* One row more than a page is fetched: the page is not changed by it, and
\* without it there is no further page.
LEMMA PageOfPage ==
  ASSUME NEW T, NEW s \in Seq(T), NEW off \in Nat, NEW limit \in Nat
  PROVE  LET fetched == Page(s, off, limit + 1)
         IN  /\ Page(fetched, 0, limit) = Page(s, off, limit)
             /\ ~(Len(fetched) > limit) => off + limit >= Len(s)
<1> DEFINE fetched == Page(s, off, limit + 1)
           n == Len(s)
           m == Len(fetched)
<1>1. /\ fetched \in Seq(T) /\ m = Least(off + (limit + 1), n) - Least(off, n)
      /\ \A i \in 1..m : off + i \in 1..n /\ fetched[i] = s[off + i]
  BY PageOfList
<1>2. /\ Page(s, off, limit) \in Seq(T)
      /\ Len(Page(s, off, limit)) = Least(off + limit, n) - Least(off, n)
      /\ \A i \in 1..Len(Page(s, off, limit)) : Page(s, off, limit)[i] = s[off + i]
  BY PageOfList
<1>3. n \in Nat /\ m \in Nat
  BY <1>1, LenProperties
<1> HIDE DEF fetched, n, m
<1>4. fetched \in Seq(T) /\ m = Len(fetched)
  BY <1>1 DEF m
<1>5. /\ Page(fetched, 0, limit) \in Seq(T)
      /\ Len(Page(fetched, 0, limit)) = Least(0 + limit, m) - Least(0, m)
      /\ \A i \in 1..Len(Page(fetched, 0, limit)) :
           0 + i \in 1..m /\ Page(fetched, 0, limit)[i] = fetched[0 + i]
  BY <1>4, PageOfList
<1>6. \A i \in 1..m : 0 + i = i
  BY <1>3
<1>7. /\ Least(0 + limit, m) - Least(0, m) = Least(off + limit, n) - Least(off, n)
      /\ ~(m > limit) => off + limit >= n
  BY <1>1, <1>3 DEF Least
<1>8. \A i \in 1..Len(Page(fetched, 0, limit)) : i \in 1..m
  BY <1>5, <1>6, <1>3
<1>9. \A i \in 1..Len(Page(fetched, 0, limit)) :
        Page(fetched, 0, limit)[i] = Page(s, off, limit)[i]
  <2> SUFFICES ASSUME NEW i \in 1..Len(Page(fetched, 0, limit))
               PROVE  Page(fetched, 0, limit)[i] = Page(s, off, limit)[i]
    OBVIOUS
  <2>1. i \in 1..m /\ 0 + i = i
    BY <1>6, <1>8
  <2>2. Page(fetched, 0, limit)[i] = fetched[i]
    BY <1>5, <2>1
  <2>3. Page(s, off, limit)[i] = s[off + i]
    BY <1>2, <1>5, <1>7
  <2> QED
    BY <1>1, <2>1, <2>2, <2>3
<1>10. Page(fetched, 0, limit) = Page(s, off, limit)
  BY <1>2, <1>5, <1>7, <1>9, SeqEqual
<1> QED
  BY <1>7, <1>10 DEF m, n, fetched

\* The last page is the first whose end is not before the last element.
LEMMA LastPage ==
  ASSUME NEW n \in Nat, NEW size \in Nat \ {0}, NEW page \in Nat
  PROVE  /\ page * size \in Nat /\ (page + 1) * size = page * size + size
         /\ ~(page < (n + size - 1) \div size) => page * size >= n
<1>1. page * size \in Nat /\ (page + 1) * size = page * size + size
  OBVIOUS
<1>2. ASSUME page >= (n + size - 1) \div size PROVE page * size >= n
  <2> DEFINE t == (n + size - 1) \div size
  <2>1. t \in Int /\ n + size - 1 < (t + 1) * size
    OBVIOUS
  <2> HIDE DEF t
  <2>2. (t + 1) * size =< (page + 1) * size
    BY <1>2, <2>1 DEF t
  <2> QED
    BY <1>1, <2>1, <2>2
<1>3. (n + size - 1) \div size \in Int
  OBVIOUS
<1> QED
  BY <1>1, <1>2, <1>3

-----------------------------------------------------------------------------
\* What is listed, in which order, and how far the reader has come.
Order == IF query.listing = "audit" THEN RowOrder(Asked(query))
                                    ELSE EntryOrder(Asked(query), query)
Listed == Sorted(Asked(query), Order)

Start == IF query.listing = "api" THEN position
         ELSE position * (IF query.listing = "ui" THEN PageSize ELSE AuditPage)

ListTypeInv ==
  /\ entries \subseteq Library /\ rows \in 0..Len(Log) /\ query \in Queries
  /\ position \in Nat /\ wrong = FALSE
  /\ shown \in Seq(Int) /\ growth \in Nat

\* What there was when the reader began is still to come, if it was not shown.
SeenInv ==
  /\ before \subseteq AskedIds
  /\ \A x \in Asked(query) :
       x.id \in before /\ x.id \notin ToSet(shown) => Rank(Asked(query), Order, x) >= Start

\* If nothing was added, what was shown is the beginning of the list.
StillInv ==
  growth = 0 =>
    /\ before = AskedIds
    /\ Len(shown) = Least(Start, Cardinality(Asked(query)))
    /\ \A i \in 1..Len(shown) : shown[i] = Listed[i].id

\* The reader is told that there is no more when there is no more.
EndInv == ~more => Start >= Cardinality(Asked(query))

ListInv == ListTypeInv /\ SeenInv /\ StillInv /\ EndInv

\* What is listed is finite and strictly ordered, and ids tell it apart.
LEMMA AskedIsOrdered ==
  ASSUME ListTypeInv
  PROVE  /\ IsFiniteSet(Asked(query)) /\ Orders(Order, Asked(query))
         /\ \A x, y \in Asked(query) : x.id \in Int /\ (x.id = y.id => x = y)
         /\ Cardinality(Asked(query)) \in Nat
         /\ Start \in Nat
<1>1. CASE query.listing = "audit"
  <2> DEFINE f == [i \in 1..rows |-> Log[i]]
             S == {Log[i] : i \in 1..rows}
  <2>1. f \in Surjection(1..rows, S)
    BY DEF Surjection
  <2>2. rows \in Nat /\ IsFiniteSet(1..rows)
    BY FS_Interval DEF ListTypeInv
  <2>3. IsFiniteSet(S)
    BY <2>1, <2>2, FS_Surjection
  <2>4. Asked(query) \subseteq S
    BY <1>1 DEF Asked
  <2>5. S \subseteq Logged
    <3>1. 1..rows \subseteq DOMAIN Log
      BY ListingsAssumption, LenProperties DEF ListTypeInv
    <3> QED
      BY <3>1 DEF Logged
  <2>6. \A x \in Logged : x.id \in Int
    BY RowsAreTyped DEF Logged, Row
  <2>7. \A x, y \in Logged : x.id = y.id => x = y
    BY ListingsAssumption DEF Logged
  <2> HIDE DEF S, f
  <2>8. IsFiniteSet(Asked(query)) /\ Asked(query) \in SUBSET Logged
    BY <2>3, <2>4, <2>5, FS_Subset
  <2> QED
    BY <1>1, <2>6, <2>7, <2>8, RowsAreOrdered, FS_CardinalityType, ListingsAssumption
    DEF Order, Start, ListTypeInv
<1>2. CASE query.listing # "audit"
  <2>1. Asked(query) \in SUBSET Library
    BY <1>2 DEF Asked, ListTypeInv
  <2>2. IsFiniteSet(Asked(query))
    BY <2>1, FS_Subset, ListingsAssumption
  <2>3. \A x, y \in Library : x.id \in Int /\ (x.id = y.id => x = y)
    BY ListingsAssumption
  <2>4. Orders(Order, Asked(query))
    BY <1>2, <2>1, EntriesAreOrdered DEF Order, ListTypeInv
  <2>5. Start \in Nat
    BY ListingsAssumption DEF Start, ListTypeInv
  <2> QED
    BY <2>1, <2>2, <2>3, <2>4, <2>5, FS_CardinalityType
<1> QED
  BY <1>1, <1>2

\* The list as a sequence.
LEMMA ListedIsList ==
  ASSUME ListTypeInv
  PROVE  /\ Listed \in Seq(Asked(query)) /\ Len(Listed) = Cardinality(Asked(query))
         /\ DOMAIN Listed = 1..Cardinality(Asked(query))
<1> DEFINE n == Cardinality(Asked(query))
<1>1. n \in Nat /\ Listed \in [1..n -> Asked(query)]
  BY AskedIsOrdered, SortedIsList DEF Listed
<1> HIDE DEF n
<1>2. Listed \in Seq(Asked(query)) /\ Len(Listed) = n /\ DOMAIN Listed = 1..n
  BY <1>1
<1> QED
  BY <1>2 DEF n

\* A page read starts where the last one ended, and more is promised if the
\* list goes on after it.
Reads(limit) ==
  /\ shown' = shown \o Ids(Page(Listed, Start, limit))
  /\ position' \in Nat /\ wrong' = FALSE
  /\ Least(Start', Cardinality(Asked(query))) = Least(Start + limit, Cardinality(Asked(query)))
  /\ Start' \in Nat
  /\ ~more' => Start' >= Cardinality(Asked(query))
  /\ UNCHANGED <<entries, rows, query, before, growth>>

\* list_entries of the API reads a page; without a limit, the whole list.
LEMMA ApiReads ==
  ASSUME ListTypeInv, ListApi
  PROVE  \E limit \in Nat : Reads(limit)
<1> DEFINE whole == query.limit = None
           limit == IF whole THEN Cardinality(entries)
                    ELSE IF query.limit = 0 THEN DefaultLimit
                    ELSE IF query.limit > MaxApiLimit THEN MaxApiLimit ELSE query.limit
           n == Cardinality(Asked(query))
           page == Page(Listed, position, limit)
<1>1. query.listing = "api" /\ Start = position
  BY DEF ListApi, Start
<1>2. Matching(entries, query) = Asked(query)
  BY <1>1, MatchingIsAsked DEF ListTypeInv
<1>3. /\ IsFiniteSet(entries) /\ Cardinality(entries) \in Nat
      /\ n =< Cardinality(entries) /\ n \in Nat
  <2>1. IsFiniteSet(entries)
    BY ListingsAssumption, FS_Subset DEF ListTypeInv
  <2>2. Asked(query) \in SUBSET entries
    BY <1>1 DEF Asked
  <2> QED
    BY <2>1, <2>2, FS_Subset, FS_CardinalityType
<1>4. limit \in Nat
  <2>1. query.limit \in Nat \union {None}
    BY <1>1, ListingsAssumption DEF ListTypeInv
  <2> QED
    BY <1>3, <2>1, ListingsAssumption
<1>5. SortEntries(Asked(query), query.sort, query.order) = Listed
  BY <1>1 DEF SortEntries, Listed, Order, EntryOrder
<1>6. QueryEntries(entries, query, position, limit) = [entries |-> page, total |-> n]
  BY <1>2, <1>5 DEF QueryEntries
<1> HIDE DEF limit, n, page
<1>7. /\ shown' = shown \o Ids(page)
      /\ more' = (~whole /\ position + Len(page) < n)
      /\ position' = position + Len(page)
      /\ wrong' = (wrong \/ ~(n = n))
      /\ UNCHANGED <<entries, rows, query, before, growth>>
  <2>1. PICK result, next :
          /\ result = QueryEntries(entries, query, position, limit)
          /\ next = position + Len(result.entries)
          /\ shown' = shown \o Ids(result.entries)
          /\ more' = (~whole /\ next < result.total)
          /\ position' = next
          /\ wrong' = (wrong \/ ~(result.total = Cardinality(Asked(query))))
          /\ UNCHANGED <<entries, rows, query, before, growth>>
    BY DEF ListApi, Receive, limit
  <2>2. result.entries = page /\ result.total = n
    BY <1>6, <2>1
  <2> QED
    BY <2>1, <2>2 DEF n
<1>8. Len(page) \in Nat /\ Len(page) = Least(position + limit, n) - Least(position, n)
  <2>1. Listed \in Seq(Asked(query)) /\ Len(Listed) = n
    BY ListedIsList DEF n
  <2>2. page \in Seq(Asked(query)) /\ Len(page) = Least(position + limit, n) - Least(position, n)
    BY <1>4, <2>1, PageOfList DEF page, ListTypeInv
  <2> QED
    BY <2>2, LenProperties
<1>9. position \in Nat /\ wrong = FALSE
  BY DEF ListTypeInv
<1>10. /\ Least(position + Len(page), n) = Least(position + limit, n)
       /\ whole => position + Len(page) >= n
  <2>1. whole => limit = Cardinality(entries)
    BY DEF limit
  <2> HIDE DEF whole
  <2> DEFINE m == Len(page)
  <2>2. m \in Nat /\ m = Least(position + limit, n) - Least(position, n)
    BY <1>8
  <2> HIDE DEF m
  <2>3. /\ Least(position + m, n) = Least(position + limit, n)
        /\ whole => position + m >= n
    BY <1>3, <1>4, <1>9, <2>1, <2>2 DEF Least
  <2> QED
    BY <2>3 DEF m
<1>11. Start' = position + Len(page)
  BY <1>1, <1>7 DEF Start
<1>12. position + Len(page) \in Nat
  BY <1>8, <1>9
<1>13. ~more' => Start' >= n
  <2> DEFINE next == position + Len(page)
             goesOn == next < n
  <2>1. ~goesOn => next >= n
    BY <1>3, <1>12
  <2>2. more' = (~whole /\ goesOn) /\ (whole => next >= n) /\ Start' = next
    BY <1>7, <1>10, <1>11
  <2> HIDE DEF next, goesOn, whole
  <2> QED
    BY <2>1, <2>2
<1>14. Reads(limit)
  BY <1>1, <1>7, <1>9, <1>10, <1>11, <1>12, <1>13 DEF Reads, n, page
<1> QED
  BY <1>4, <1>14

\* list_entries of the admin UI reads a page.
LEMMA UiReads ==
  ASSUME ListTypeInv, ListUi
  PROVE  Reads(PageSize)
<1> DEFINE count == Cardinality(Asked(query))
           got == Page(Listed, position * PageSize, PageSize)
<1>1. query.listing = "ui" /\ Start = position * PageSize
  BY DEF ListUi, Start
<1>2. Matching(entries, query) = Asked(query)
  BY <1>1, MatchingIsAsked DEF ListTypeInv
<1>3. SortEntries(Asked(query), query.sort, query.order) = Listed
  BY <1>1 DEF SortEntries, Listed, Order, EntryOrder
<1>4. position \in Nat /\ wrong = FALSE /\ PageSize \in Nat \ {0} /\ count \in Nat
  BY ListingsAssumption, AskedIsOrdered DEF ListTypeInv
<1>5. QueryEntries(entries, query, position * PageSize, PageSize)
        = [entries |-> got, total |-> count]
  BY <1>2, <1>3 DEF QueryEntries
<1> HIDE DEF count, got
<1>6. /\ shown' = shown \o Ids(got)
      /\ more' = (position + 1 < (count + PageSize - 1) \div PageSize)
      /\ position' = position + 1
      /\ wrong' = (wrong \/ ~TRUE)
      /\ UNCHANGED <<entries, rows, query, before, growth>>
  <2>1. PICK page, result :
          /\ page = position + 1
          /\ result = QueryEntries(entries, query, (page - 1) * PageSize, PageSize)
          /\ shown' = shown \o Ids(result.entries)
          /\ more' = (page < (result.total + PageSize - 1) \div PageSize)
          /\ position' = page
          /\ wrong' = (wrong \/ ~TRUE)
          /\ UNCHANGED <<entries, rows, query, before, growth>>
    BY DEF ListUi, Receive
  <2>2. page - 1 = position
    BY <1>4, <2>1
  <2>3. result.entries = got /\ result.total = count
    BY <1>5, <2>1, <2>2
  <2> QED
    BY <2>1, <2>3
<1>7. Start' = (position + 1) * PageSize
  BY <1>1, <1>6 DEF Start
<1>8. position + 1 \in Nat
  BY <1>4
<1>9. /\ (position + 1) * PageSize = position * PageSize + PageSize
      /\ position * PageSize + PageSize \in Nat
  BY <1>4, LastPage
<1>10. ~more' => (position + 1) * PageSize >= count
  BY <1>4, <1>6, <1>8, LastPage
<1>11. shown' = shown \o Ids(Page(Listed, Start, PageSize))
  BY <1>1, <1>6 DEF got
<1>12. wrong' = FALSE
  BY <1>4, <1>6
<1>13. Start' \in Nat /\ Start' = Start + PageSize
  BY <1>1, <1>7, <1>9
<1> QED
  BY <1>6, <1>7, <1>8, <1>10, <1>11, <1>12, <1>13 DEF Reads, count

\* audit_log_page reads a page.
LEMMA AuditReads ==
  ASSUME ListTypeInv, AuditLogPage
  PROVE  Reads(AuditPage)
<1> DEFINE count == Cardinality(Asked(query))
           found == Page(Listed, position * AuditPage, AuditPage + 1)
           got == Page(Listed, position * AuditPage, AuditPage)
<1>1. query.listing = "audit" /\ Start = position * AuditPage
  BY DEF AuditLogPage, Start
<1>2. Selected(rows, query) = Asked(query)
  BY <1>1, LogFilteredIsAsked DEF ListTypeInv
<1>3. SortRows(Asked(query)) = Listed
  BY <1>1 DEF SortRows, Listed, Order, RowOrder
<1>4. position \in Nat /\ wrong = FALSE /\ AuditPage \in Nat \ {0} /\ count \in Nat
  BY ListingsAssumption, AskedIsOrdered DEF ListTypeInv
<1>5. ASSUME NEW page, page - 1 = position
      PROVE  ListAuditLog(rows, query, page)
               = [entries |-> Page(found, 0, AuditPage), hasNext |-> Len(found) > AuditPage]
  BY <1>2, <1>3, <1>5 DEF ListAuditLog
<1>6. /\ position * AuditPage \in Nat
      /\ (position + 1) * AuditPage = position * AuditPage + AuditPage
      /\ position * AuditPage + AuditPage \in Nat
  BY <1>4, LastPage
<1>7. /\ Page(found, 0, AuditPage) = got
      /\ Len(found) \in Nat
      /\ ~(Len(found) > AuditPage) => position * AuditPage + AuditPage >= count
  <2>1. Listed \in Seq(Asked(query)) /\ Len(Listed) = count
    BY ListedIsList
  <2>2. found \in Seq(Asked(query))
    BY <1>4, <1>6, <2>1, PageOfList
  <2>3. Len(found) \in Nat
    BY <2>2, LenProperties
  <2> QED
    BY <1>4, <1>6, <2>1, <2>3, PageOfPage
<1> HIDE DEF count, got, found
<1>8. /\ shown' = shown \o Ids(got)
      /\ more' = (Len(found) > AuditPage)
      /\ position' = position + 1
      /\ wrong' = (wrong \/ ~TRUE)
      /\ UNCHANGED <<entries, rows, query, before, growth>>
  <2>1. PICK page, result :
          /\ page = position + 1
          /\ result = ListAuditLog(rows, query, page)
          /\ shown' = shown \o Ids(result.entries)
          /\ more' = result.hasNext
          /\ position' = page
          /\ wrong' = (wrong \/ ~TRUE)
          /\ UNCHANGED <<entries, rows, query, before, growth>>
    BY DEF AuditLogPage, Receive
  <2>2. page - 1 = position
    BY <1>4, <2>1
  <2>3. result.entries = got /\ result.hasNext = (Len(found) > AuditPage)
    BY <1>5, <1>7, <2>1, <2>2
  <2> QED
    BY <2>1, <2>3
<1>9. Start' = (position + 1) * AuditPage
  BY <1>1, <1>8 DEF Start
<1>10. position + 1 \in Nat
  BY <1>4
<1>11. shown' = shown \o Ids(Page(Listed, Start, AuditPage))
  BY <1>1, <1>8 DEF got
<1>12. wrong' = FALSE
  BY <1>4, <1>8
<1>13. Start' \in Nat /\ Start' = Start + AuditPage /\ (~more' => Start' >= count)
  BY <1>1, <1>6, <1>7, <1>8, <1>9
<1> QED
  BY <1>8, <1>10, <1>11, <1>12, <1>13 DEF Reads, count
-----------------------------------------------------------------------------
\* A page read keeps the invariant.
LEMMA ReadsPreserves ==
  ASSUME ListInv, NEW limit \in Nat, Reads(limit)
  PROVE  ListInv'
<1> DEFINE S == Asked(query)
           n == Cardinality(S)
<1>1. /\ IsFiniteSet(S) /\ Orders(Order, S) /\ n \in Nat /\ Start \in Nat
      /\ \A x \in S : x.id \in Int
  BY AskedIsOrdered DEF ListInv
<1>2. /\ Asked(query)' = S /\ Order' = Order /\ Listed' = Listed /\ AskedIds' = AskedIds
      /\ before' = before /\ growth' = growth
  <2>1. entries' = entries /\ rows' = rows /\ query' = query
    BY DEF Reads
  <2>2. Asked(query)' = S
    BY <2>1 DEF Asked
  <2>3. Order' = Order
    BY <2>1, <2>2 DEF Order, EntryOrder, RowOrder
  <2>4. Listed' = Listed
    BY <2>2, <2>3 DEF Listed, Sorted
  <2> QED
    BY <2>2, <2>3, <2>4 DEF Reads, AskedIds
<1>3. /\ shown' \in Seq(Int) /\ ToSet(shown) \subseteq ToSet(shown')
      /\ \A x \in S : x.id \notin ToSet(shown') /\ Rank(S, Order, x) >= Start
                        => Rank(S, Order, x) >= Start'
      /\ /\ Len(shown) = Least(Start, n)
         /\ \A i \in 1..Len(shown) : shown[i] = Listed[i].id
         => /\ Len(shown') = Least(Start', n)
            /\ \A i \in 1..Len(shown') : shown'[i] = Listed[i].id
  <2>1. /\ shown' = shown \o Ids(Page(Sorted(S, Order), Start, limit))
        /\ Least(Start', n) = Least(Start + limit, n) /\ Start' \in Nat
        /\ shown \in Seq(Int)
    BY DEF Reads, Listed, ListInv, ListTypeInv
  <2>2. Listed = Sorted(S, Order)
    BY DEF Listed
  <2> HIDE DEF S
  <2>3. ASSUME NEW next \in Nat, Least(next, n) = Least(Start + limit, n)
        PROVE  Continues(S, Order, Start, limit, next, shown)
    BY <1>1, <2>1, <2>3, PageShows
  <2>4. Continues(S, Order, Start, limit, Start', shown)
    BY <2>1, <2>3
  <2> QED
    BY <2>1, <2>2, <2>4 DEF Continues
<1> HIDE DEF S, n
<1>4. ListTypeInv'
  BY <1>3 DEF Reads, ListInv, ListTypeInv
<1>5. SeenInv'
  <2>1. /\ before \subseteq AskedIds
        /\ \A x \in S : x.id \in before /\ x.id \notin ToSet(shown)
                          => Rank(S, Order, x) >= Start
    BY DEF ListInv, SeenInv, S
  <2>2. SeenInv' = (/\ before' \subseteq AskedIds'
                    /\ \A x \in Asked(query)' :
                         x.id \in before' /\ x.id \notin ToSet(shown')
                           => Rank(Asked(query)', Order', x) >= Start')
    BY DEF SeenInv, Rank, Before
  <2>3. \A x \in S : x.id \in before /\ x.id \notin ToSet(shown')
                       => Rank(S, Order, x) >= Start'
    BY <1>3, <2>1
  <2> QED
    BY <1>2, <2>1, <2>2, <2>3
<1>6. StillInv'
  <2>1. growth = 0 =>
          /\ before = AskedIds /\ Len(shown) = Least(Start, n)
          /\ \A i \in 1..Len(shown) : shown[i] = Listed[i].id
    BY DEF ListInv, StillInv, n, S
  <2>2. StillInv' = (growth' = 0 =>
          /\ before' = AskedIds'
          /\ Len(shown') = Least(Start', Cardinality(Asked(query)'))
          /\ \A i \in 1..Len(shown') : shown'[i] = Listed'[i].id)
    BY DEF StillInv, Least
  <2>3. Cardinality(S) = n
    BY DEF n
  <2> QED
    BY <1>2, <1>3, <2>1, <2>2, <2>3
<1>7. EndInv'
  <2>1. ~more' => Start' >= n
    BY DEF Reads, n, S
  <2>2. EndInv' = (~more' => Start' >= Cardinality(Asked(query)'))
    BY DEF EndInv
  <2> QED
    BY <1>2, <2>1, <2>2 DEF n
<1> QED
  BY <1>4, <1>5, <1>6, <1>7 DEF ListInv

\* What is added moves the rest back in the list, never forward.
LEMMA GrowPreserves ==
  ASSUME ListInv, Grow
  PROVE  ListInv'
<1> DEFINE S == Asked(query)
           T == Asked(query)'
<1>1. /\ ListTypeInv' /\ Start' = Start /\ shown' = shown /\ before' = before /\ more
      /\ more' = more /\ query' = query /\ growth' > 0
      /\ entries \subseteq entries' /\ rows =< rows' /\ rows \in Int /\ rows' \in Int
  BY ListingsAssumption, LenProperties DEF Grow, ListInv, ListTypeInv, Start
<1>2. S \subseteq T
  <2>1. T = IF query.listing = "audit"
            THEN {r \in {Log[i] : i \in 1..rows'} :
                    /\ query.action \in {None, r.action} /\ query.actor \in {None, r.actor}
                    /\ query.app \in {None, IF r.app = None THEN "global" ELSE r.app}
                    /\ query.from = None \/ r.day >= query.from
                    /\ query.to = None \/ r.day =< query.to}
            ELSE {e \in entries' :
                    /\ Live(e, query.status)
                    /\ \A f \in query.filters : Get(e.data, f.field) \in f.values
                    /\ query.q = None \/ Mentions(e.data, query.q)}
    BY <1>1 DEF Asked
  <2>2. 1..rows \subseteq 1..rows'
    BY <1>1
  <2>3. CASE query.listing = "audit"
    BY <2>1, <2>2, <2>3 DEF Asked
  <2>4. CASE query.listing # "audit"
    BY <1>1, <2>1, <2>4 DEF Asked
  <2> QED
    BY <2>3, <2>4
<1>3. /\ IsFiniteSet(T) /\ \A x, y \in T : x.id = y.id => x = y
      /\ Start \in Int
  <2>1. (/\ IsFiniteSet(Asked(query))
         /\ \A x, y \in Asked(query) : x.id \in Int /\ (x.id = y.id => x = y))'
    BY <1>1, AskedIsOrdered, PTL
  <2>2. Start \in Nat
    BY AskedIsOrdered DEF ListInv
  <2> QED
    BY <2>1, <2>2
<1>4. \A x \in S : /\ Rank(S, Order, x) =< Rank(T, Order', x)
                   /\ Rank(S, Order, x) \in Int /\ Rank(T, Order', x) \in Int
  <2> SUFFICES ASSUME NEW x \in S
               PROVE  /\ Rank(S, Order, x) =< Rank(T, Order', x)
                      /\ Rank(S, Order, x) \in Int /\ Rank(T, Order', x) \in Int
    OBVIOUS
  <2>1. Order' = IF query.listing = "audit" THEN RowOrder(T) ELSE EntryOrder(T, query)
    BY <1>1 DEF Order, RowOrder, EntryOrder
  <2>2. Order = IF query.listing = "audit" THEN RowOrder(S) ELSE EntryOrder(S, query)
    BY DEF Order
  <2> HIDE DEF S, T
  <2>3. Before(S, Order, x) \subseteq Before(T, Order', x)
    <3>1. CASE query.listing = "audit"
      BY <1>2, <2>1, <2>2, <3>1 DEF Before, RowOrder
    <3>2. CASE query.listing # "audit"
      BY <1>2, <2>1, <2>2, <3>2 DEF Before, EntryOrder
    <3> QED
      BY <3>1, <3>2
  <2>4. Before(T, Order', x) \subseteq T
    BY DEF Before
  <2>5. IsFiniteSet(Before(T, Order', x))
    BY <1>3, <2>4, FS_Subset
  <2> QED
    BY <2>3, <2>5, FS_Subset, FS_CardinalityType DEF Rank
<1>5. SeenInv'
  <2>1. /\ before \subseteq {x.id : x \in S}
        /\ \A x \in S : x.id \in before /\ x.id \notin ToSet(shown)
                          => Rank(S, Order, x) >= Start
    BY DEF ListInv, SeenInv, AskedIds
  <2>2. SeenInv' = (/\ before' \subseteq {x.id : x \in T}
                    /\ \A x \in T :
                         x.id \in before' /\ x.id \notin ToSet(shown')
                           => Rank(T, Order', x) >= Start')
    BY DEF SeenInv, AskedIds, Rank, Before
  <2> HIDE DEF S, T
  <2>3. ASSUME NEW x \in T, x.id \in before, x.id \notin ToSet(shown)
        PROVE  Rank(T, Order', x) >= Start
    <3>1. PICK y \in S : y.id = x.id
      BY <2>1, <2>3
    <3>2. x \in S
      BY <1>2, <1>3, <2>3, <3>1
    <3> QED
      BY <1>3, <1>4, <2>1, <2>3, <3>2
  <2>4. {x.id : x \in S} \subseteq {x.id : x \in T}
    BY <1>2
  <2> QED
    BY <1>1, <2>1, <2>2, <2>3, <2>4
<1>6. StillInv' /\ EndInv'
  <2>1. growth' # 0
    BY <1>1 DEF ListTypeInv
  <2> QED
    BY <1>1, <2>1 DEF StillInv, EndInv
<1> QED
  BY <1>1, <1>5, <1>6 DEF ListInv

\* A reader who was told that there is no more has seen what there was.
LEMMA PagesAreSeen ==
  ASSUME ListInv
  PROVE  PagesComplete
<1> DEFINE S == Asked(query)
           n == Cardinality(S)
<1>1. /\ IsFiniteSet(S) /\ Orders(Order, S) /\ n \in Nat /\ Start \in Nat
      /\ \A x, y \in S : x.id = y.id => x = y
  BY AskedIsOrdered DEF ListInv
<1>2. ~wrong
  BY DEF ListInv, ListTypeInv
<1>3. /\ before \subseteq {x.id : x \in S}
      /\ \A x \in S : x.id \in before /\ x.id \notin ToSet(shown) => Rank(S, Order, x) >= Start
      /\ growth = 0 =>
           /\ before = {x.id : x \in S}
           /\ Len(shown) = Least(Start, n)
           /\ \A i \in 1..Len(shown) : shown[i] = Listed[i].id
      /\ shown \in Seq(Int)
  BY DEF ListInv, SeenInv, StillInv, AskedIds, ListTypeInv
<1>4. Cardinality({x.id : x \in S}) = n
  <2> DEFINE f == [x \in S |-> x.id]
             U == {x.id : x \in S}
  <2>1. f \in Injection(S, U) /\ f \in Surjection(S, U)
    BY <1>1 DEF Injection, IsInjective, Surjection
  <2> HIDE DEF f, U
  <2> QED
    BY <1>1, <2>1, FS_Surjection DEF U
<1>5. /\ \A x \in S : Rank(S, Order, x) \in 0..(n - 1)
      /\ \A x, y \in S : <<x, y>> \in Order <=> Rank(S, Order, x) < Rank(S, Order, y)
      /\ \A i \in 1..n : Listed[i] \in S /\ Rank(S, Order, Listed[i]) = i - 1
  <2> HIDE DEF S
  <2>1. Listed = Sorted(S, Order)
    BY DEF Listed, S
  <2>2. /\ \A x \in S : Rank(S, Order, x) \in 0..(n - 1)
        /\ \A x, y \in S : <<x, y>> \in Order <=> Rank(S, Order, x) < Rank(S, Order, y)
    BY <1>1, Ranks
  <2>3. /\ Sorted(S, Order) \in [1..n -> S]
        /\ \A i \in 1..n : Rank(S, Order, Sorted(S, Order)[i]) = i - 1
    BY <1>1, SortedIsList
  <2> HIDE DEF n
  <2> QED
    BY <2>1, <2>2, <2>3
<1> HIDE DEF n
<1>6. ASSUME ~more
      PROVE  /\ Start >= n
             /\ before \subseteq ToSet(shown)
  <2>1. Start >= n
    BY <1>6 DEF ListInv, EndInv, n
  <2> QED
    BY <1>1, <1>3, <1>5, <2>1
<1>7. ASSUME ~more, growth = 0
      PROVE  Len(shown) = Cardinality(before) /\ Len(shown) = n
  <2>1. Start \in Nat /\ n \in Nat /\ Start >= n
    BY <1>1, <1>6, <1>7
  <2>2. Least(Start, n) = n
    BY <2>1 DEF Least
  <2> QED
    BY <1>3, <1>4, <1>7, <2>2
<1>8. ASSUME ~more, growth = 0, query.listing # "audit",
             NEW i \in DOMAIN shown, NEW j \in DOMAIN shown, i < j
      PROVE  \E a, b \in entries : /\ a.id = shown[i] /\ b.id = shown[j]
                                   /\ ~Precedes(b, a, query.sort, query.order)
  <2> DEFINE a == Listed[i]
             b == Listed[j]
  <2>1. i \in 1..n /\ j \in 1..n
    BY <1>3, <1>7, <1>8, LenProperties
  <2>2. a \in S /\ b \in S /\ Rank(S, Order, a) = i - 1 /\ Rank(S, Order, b) = j - 1
    BY <1>5, <2>1
  <2>3. a.id = shown[i] /\ b.id = shown[j]
    BY <1>3, <1>7, <1>8, <2>1
  <2> HIDE DEF a, b
  <2>4. <<b, a>> \notin Order
    BY <1>5, <1>8, <2>1, <2>2
  <2>5. a \in entries /\ b \in entries
    BY <1>8, <2>2 DEF Asked
  <2>6. ~Precedes(b, a, query.sort, query.order)
    BY <1>8, <2>2, <2>4 DEF Order, EntryOrder
  <2> QED
    BY <2>3, <2>5, <2>6
<1> QED
  BY <1>2, <1>6, <1>7, <1>8 DEF PagesComplete

\* The invariant of the reading.
LEMMA ListInvariant == ListSpec => []ListInv
<1>1. ASSUME ListInit PROVE ListInv
  <2>1. ListTypeInv
    BY <1>1, EmptySeq DEF ListInit, ListTypeInv
  <2>2. Start = 0 /\ shown = <<>> /\ before = AskedIds
    BY <1>1, ListingsAssumption DEF ListInit, Start
  <2>3. /\ IsFiniteSet(Asked(query)) /\ Orders(Order, Asked(query))
        /\ Cardinality(Asked(query)) \in Nat
    BY <2>1, AskedIsOrdered
  <2>4. \A x \in Asked(query) : Rank(Asked(query), Order, x) >= 0
    BY <2>3, Ranks
  <2>5. Len(shown) = 0 /\ Least(Start, Cardinality(Asked(query))) = 0
    BY <2>2, <2>3 DEF Least
  <2> QED
    BY <1>1, <2>1, <2>2, <2>3, <2>4, <2>5 DEF ListInv, SeenInv, StillInv, EndInv, ListInit
<1>2. ASSUME ListInv, [ListNext]_listVars PROVE ListInv'
  <2>1. CASE ListApi
    BY <1>2, <2>1, ApiReads, ReadsPreserves DEF ListInv
  <2>2. CASE ListUi
    <3>1. PageSize \in Nat
      BY ListingsAssumption
    <3> QED
      BY <1>2, <2>2, <3>1, UiReads, ReadsPreserves DEF ListInv
  <2>3. CASE AuditLogPage
    <3>1. AuditPage \in Nat
      BY ListingsAssumption
    <3> QED
      BY <1>2, <2>3, <3>1, AuditReads, ReadsPreserves DEF ListInv
  <2>4. CASE Grow
    BY <1>2, <2>4, GrowPreserves
  <2>5. CASE UNCHANGED listVars
    <3>1. /\ entries' = entries /\ rows' = rows /\ query' = query /\ position' = position
          /\ more' = more /\ shown' = shown /\ before' = before /\ growth' = growth
          /\ wrong' = wrong
      BY <2>5 DEF listVars
    <3>2. Asked(query)' = Asked(query) /\ Start' = Start
      BY <3>1 DEF Asked, Start
    <3>3. Order' = Order /\ AskedIds' = AskedIds
      BY <3>1, <3>2 DEF Order, EntryOrder, RowOrder, AskedIds
    <3>4. Listed' = Listed
      BY <3>2, <3>3 DEF Listed, Sorted
    <3>5. ListTypeInv'
      BY <1>2, <3>1 DEF ListInv, ListTypeInv
    <3>6. SeenInv'
      BY <1>2, <3>1, <3>2, <3>3 DEF ListInv, SeenInv, Rank, Before
    <3>7. StillInv'
      BY <1>2, <3>1, <3>2, <3>3, <3>4 DEF ListInv, StillInv, Least
    <3>8. EndInv'
      BY <1>2, <3>1, <3>2 DEF ListInv, EndInv
    <3> QED
      BY <3>5, <3>6, <3>7, <3>8 DEF ListInv
  <2> QED
    BY <1>2, <2>1, <2>2, <2>3, <2>4, <2>5 DEF ListNext
<1> QED
  BY <1>1, <1>2, PTL DEF ListSpec

\* Whatever is created or logged meanwhile, a reader who follows the pages of
\* the API, the admin UI or the audit log to the end has seen all there was when
\* it began; if nothing was added, each thing once and the entries in the order
\* asked for: query_entries, list_entries and audit_log_page.
THEOREM PagesAreComplete == ListSpec => []PagesComplete
<1>1. ListInv => PagesComplete
  BY PagesAreSeen
<1> QED
  BY <1>1, ListInvariant, PTL
=============================================================================
