-------------------------- MODULE RateLimiterProofs --------------------------
(***************************************************************************)
(* Proofs about RateLimiter, for any clients and requests, any limit and   *)
(* window, and any delay between the clock and the mutex.                  *)
(***************************************************************************)
EXTENDS RateLimiter, TLAPS

(* A request waiting for the mutex read the clock at most MaxDelay ago. *)
Recent(q) == q # Nil => q.stamp <= now /\ now <= q.stamp + MaxDelay

(* The n hits h of a client whose current window has counted c of them and *)
(* ends at w:                                                              *)
Prompt(h, n, w) ==       \* none is late by more than a delay
  \A i \in 1..n : h[i] <= now /\ h[i] <= w + MaxDelay

Earlier(h, n, c, w) ==   \* the previous windows' came a window earlier
  \A i \in 1..n : i + c <= n => h[i] + Window < w + MaxDelay

Older(h, n, c, w) ==     \* those of the windows before, two windows earlier
  \A i \in 1..n : i + c + Limit <= n => h[i] + Window + Window + 1 < w + MaxDelay

Counted(h, n, c, w) ==   \* the current window's, not before it began
  \A i \in 1..n : n < i + c => w <= h[i] + Window

Windows(h, n, c, w) ==
  /\ c <= n /\ w <= now + Window
  /\ Prompt(h, n, w) /\ Earlier(h, n, c, w) /\ Older(h, n, c, w) /\ Counted(h, n, c, w)

(* BurstBound, for one client. *)
Spread(h, n) ==
  \A i, j \in 1..n : j = i + 2 * Limit => h[i] + Window + 1 < h[j] + MaxDelay

Accounted(k) ==
  IF entries[k] = Nil
    THEN hits[k] = <<>>
    ELSE Windows(hits[k], Len(hits[k]), entries[k].count, entries[k].ends)

Inv ==
  /\ TypeOK
  /\ \A r \in Req : Recent(req[r])
  /\ \A k \in Client : Accounted(k) /\ Spread(hits[k], Len(hits[k]))

LEMMA NilIsNothing == Nil \notin Entry /\ Nil \notin Request
BY LimiterAssumption DEF LimiterAssumption, Entry, Request

LEMMA Constants == Limit \in Nat /\ Limit > 0 /\ Window \in Nat /\ MaxDelay \in Nat
BY LimiterAssumption DEF LimiterAssumption

-----------------------------------------------------------------------------
(* What a further hit does to the hits of one client. *)

(* A hit in a window that is not full. *)
LEMMA CountedHit ==
  ASSUME NEW h, NEW n \in Nat, NEW c \in Nat, NEW w \in Nat, now \in Nat,
         \A i \in 1..n : h[i] \in Nat,
         Windows(h, n, c, w), Spread(h, n),
         now <= w + MaxDelay, c < Limit,
         NEW g, \A i \in 1..n : g[i] = h[i], g[n + 1] = now
  PROVE  Windows(g, n + 1, c + 1, w) /\ Spread(g, n + 1)
<1>0. \A i \in 1..(n + 1) : i \in 1..n \/ i = n + 1
  OBVIOUS
<1>1. Prompt(g, n + 1, w)
  BY <1>0 DEF Windows, Prompt
<1>2. Earlier(g, n + 1, c + 1, w)
  BY DEF Windows, Earlier
<1>3. Older(g, n + 1, c + 1, w)
  BY Constants DEF Windows, Older
<1>4. Counted(g, n + 1, c + 1, w)
  BY <1>0, Constants DEF Windows, Counted
<1>5. Spread(g, n + 1)
  <2> SUFFICES ASSUME NEW i \in 1..(n + 1), NEW j \in 1..(n + 1), j = i + 2 * Limit
               PROVE  g[i] + Window + 1 < g[j] + MaxDelay
    BY DEF Spread
  <2>1. i \in 1..n
    BY Constants
  <2>2. CASE j \in 1..n
    BY <2>1, <2>2 DEF Spread
  <2>3. CASE j = n + 1
    <3>1. i + c + Limit <= n
      BY <2>3, Constants
    <3>2. h[i] + Window + Window + 1 < w + MaxDelay /\ w <= now + Window
      BY <2>1, <3>1 DEF Windows, Older
    <3>3. h[i] \in Nat /\ g[i] = h[i] /\ g[j] = now
      BY <2>1, <2>3
    <3> QED
      BY <3>2, <3>3, Constants
  <2> QED
    BY <1>0, <2>2, <2>3
<1> QED
  BY <1>1, <1>2, <1>3, <1>4, <1>5 DEF Windows

(* A hit that opens a window, at the time t that its request read. *)
LEMMA OpeningHit ==
  ASSUME NEW h, NEW n \in Nat, NEW c \in Nat, NEW w \in Nat, now \in Nat,
         \A i \in 1..n : h[i] \in Nat,
         Windows(h, n, c, w), Spread(h, n), c <= Limit,
         NEW t \in Nat, t <= now, now <= t + MaxDelay, w < t,
         NEW g, \A i \in 1..n : g[i] = h[i], g[n + 1] = now
  PROVE  Windows(g, n + 1, 1, t + Window) /\ Spread(g, n + 1)
<1>0. \A i \in 1..(n + 1) : i \in 1..n \/ i = n + 1
  OBVIOUS
<1>1. Prompt(g, n + 1, t + Window)
  BY <1>0, Constants DEF Windows, Prompt
<1>2. Earlier(g, n + 1, 1, t + Window)
  <2> SUFFICES ASSUME NEW i \in 1..n PROVE g[i] + Window < (t + Window) + MaxDelay
    BY DEF Earlier
  <2>1. h[i] \in Nat /\ g[i] = h[i] /\ h[i] <= w + MaxDelay
    BY DEF Windows, Prompt
  <2> QED
    BY <2>1, Constants
<1>3. \A i \in 1..n : i + Limit <= n => h[i] + Window + 1 < t + MaxDelay
  <2> SUFFICES ASSUME NEW i \in 1..n, i + Limit <= n
               PROVE  h[i] + Window + 1 < t + MaxDelay
    OBVIOUS
  <2>1. i + c <= n
    BY Constants
  <2>2. h[i] \in Nat /\ h[i] + Window < w + MaxDelay
    BY <2>1 DEF Windows, Earlier
  <2> QED
    BY <2>2, Constants
<1>4. Older(g, n + 1, 1, t + Window)
  <2> SUFFICES ASSUME NEW i \in 1..n, i + Limit <= n
               PROVE  g[i] + Window + Window + 1 < (t + Window) + MaxDelay
    BY Constants DEF Older
  <2>1. h[i] \in Nat /\ g[i] = h[i] /\ h[i] + Window + 1 < t + MaxDelay
    BY <1>3
  <2> QED
    BY <2>1, Constants
<1>5. Counted(g, n + 1, 1, t + Window)
  BY Constants DEF Counted
<1>6. Spread(g, n + 1)
  <2> SUFFICES ASSUME NEW i \in 1..(n + 1), NEW j \in 1..(n + 1), j = i + 2 * Limit
               PROVE  g[i] + Window + 1 < g[j] + MaxDelay
    BY DEF Spread
  <2>1. i \in 1..n
    BY Constants
  <2>2. CASE j \in 1..n
    BY <2>1, <2>2 DEF Spread
  <2>3. CASE j = n + 1
    <3>1. i + Limit <= n
      BY <2>3, Constants
    <3>2. h[i] \in Nat /\ g[i] = h[i] /\ g[j] = now /\ h[i] + Window + 1 < t + MaxDelay
      BY <1>3, <2>1, <2>3, <3>1
    <3> QED
      BY <3>2, Constants
  <2> QED
    BY <1>0, <2>2, <2>3
<1> QED
  BY <1>1, <1>2, <1>4, <1>5, <1>6, Constants DEF Windows

(* A client's first hit. *)
LEMMA FirstHit ==
  ASSUME now \in Nat, NEW t \in Nat, t <= now, now <= t + MaxDelay,
         NEW g, g[1] = now
  PROVE  Windows(g, 1, 1, t + Window) /\ Spread(g, 1)
<1>1. \A i \in 1..1 : i = 1
  OBVIOUS
<1>2. Windows(g, 1, 1, t + Window)
  BY <1>1, Constants DEF Windows, Prompt, Earlier, Older, Counted
<1>3. Spread(g, 1)
  BY <1>1, Constants DEF Spread
<1> QED
  BY <1>2, <1>3

LEMMA HitAppended ==
  ASSUME NEW h \in Seq(Nat), NEW x \in Nat
  PROVE  LET g == Append(h, x)
         IN /\ g \in Seq(Nat) /\ Len(g) = Len(h) + 1 /\ g[Len(h) + 1] = x
            /\ Len(h) \in Nat
            /\ \A i \in 1..Len(h) : g[i] = h[i] /\ h[i] \in Nat
OBVIOUS

-----------------------------------------------------------------------------
(* The invariant. *)

LEMMA InitInv == Init => Inv
<1> SUFFICES ASSUME Init PROVE Inv
  OBVIOUS
<1>1. TypeOK
  BY DEF Init, TypeOK
<1>2. \A r \in Req : Recent(req[r])
  BY DEF Init, Recent
<1>3. ASSUME NEW k \in Client PROVE Accounted(k) /\ Spread(hits[k], Len(hits[k]))
  <2>1. entries[k] = Nil /\ hits[k] = <<>> /\ Len(hits[k]) = 0
    BY DEF Init
  <2> QED
    BY <2>1 DEF Accounted, Spread
<1> QED
  BY <1>1, <1>2, <1>3 DEF Inv

LEMMA TickInv == Inv /\ Tick => Inv'
<1> SUFFICES ASSUME Inv, Tick PROVE Inv'
  OBVIOUS
<1>1. TypeOK'
  BY DEF Inv, TypeOK, Tick
<1>2. ASSUME NEW r \in Req PROVE Recent(req[r])'
  <2>1. CASE req[r] = Nil
    BY <2>1 DEF Tick, Recent
  <2>2. CASE req[r] # Nil
    <3>1. req[r].stamp \in Nat
      BY <2>2 DEF Inv, TypeOK, Request
    <3> QED
      BY <2>2, <3>1, Constants DEF Inv, TypeOK, Tick, Recent
  <2> QED
    BY <2>1, <2>2
<1>3. ASSUME NEW k \in Client PROVE (Accounted(k) /\ Spread(hits[k], Len(hits[k])))'
  <2> DEFINE h == hits[k]
             e == entries[k]
  <2>1. now \in Nat /\ now' = now + 1 /\ h' = h /\ e' = e
    BY DEF Inv, TypeOK, Tick
  <2>2. Spread(h, Len(h))' /\ (e = Nil => h = <<>>)
    BY <2>1 DEF Inv, Spread, Accounted
  <2>3. CASE e # Nil
    <3>1. Windows(h, Len(h), e.count, e.ends)
      BY <2>3 DEF Inv, Accounted
    <3>2. h \in Seq(Nat) /\ e.ends \in Nat
      BY <2>3 DEF Inv, TypeOK, Entry
    <3>3. \A i \in 1..Len(h) : h[i] \in Nat
      BY <3>2
    <3> HIDE DEF h, e
    <3>4. Prompt(h, Len(h), e.ends)'
      BY <2>1, <3>1, <3>3 DEF Windows, Prompt
    <3>5. (e.ends <= now + Window)'
      BY <2>1, <3>1, <3>2, Constants DEF Windows
    <3>6. Windows(h, Len(h), e.count, e.ends)'
      BY <2>1, <3>1, <3>4, <3>5 DEF Windows, Earlier, Older, Counted
    <3> QED
      BY <2>1, <2>2, <2>3, <3>6 DEF Accounted, h, e
  <2> QED
    BY <2>1, <2>2, <2>3 DEF Accounted
<1> QED
  BY <1>1, <1>2, <1>3 DEF Inv

(* A step that admits nothing leaves every client's account as it is. *)
LEMMA AccountsKept ==
  ASSUME Inv, UNCHANGED <<now, entries, hits>>, NEW k \in Client
  PROVE  (Accounted(k) /\ Spread(hits[k], Len(hits[k])))'
BY DEF Inv, Accounted, Spread, Windows, Prompt, Earlier, Older, Counted

LEMMA ArriveInv == ASSUME NEW r \in Req, Inv, Arrive(r) PROVE Inv'
<1>1. PICK k \in Client : req' = [req EXCEPT ![r] = [key |-> k, stamp |-> now]]
  BY DEF Arrive
<1>2. TypeOK'
  BY <1>1 DEF Inv, TypeOK, Arrive, Request
<1>3. \A q \in Req : Recent(req[q])'
  BY <1>1, Constants DEF Inv, TypeOK, Arrive, Recent
<1> QED
  BY <1>2, <1>3, AccountsKept DEF Inv, Arrive

LEMMA TurnAwayInv == ASSUME NEW r \in Req, Inv, TurnAway(r) PROVE Inv'
<1>1. TypeOK'
  BY DEF Inv, TypeOK, TurnAway
<1>2. \A q \in Req : Recent(req[q])'
  BY DEF Inv, TypeOK, TurnAway, Recent
<1> QED
  BY <1>1, <1>2, AccountsKept DEF Inv, TurnAway

(* What is known of a request at the mutex. *)
LEMMA AtMutex ==
  ASSUME Inv, NEW r \in Req, req[r] # Nil
  PROVE  /\ req[r] \in Request /\ req[r].key \in Client /\ req[r].stamp \in Nat
         /\ now \in Nat /\ req[r].stamp <= now /\ now <= req[r].stamp + MaxDelay
         /\ hits[req[r].key] \in Seq(Nat)
BY DEF Inv, TypeOK, Request, Recent

(* A hit that leaves its client accounted for leaves everyone so. *)
LEMMA AdmitInv ==
  ASSUME Inv, NEW r \in Req, req[r] # Nil, NEW f \in Entry, Admit(r, f), now' = now,
         LET g == Append(hits[req[r].key], now)
         IN Windows(g, Len(g), f.count, f.ends) /\ Spread(g, Len(g))
  PROVE  Inv'
<1> DEFINE k == req[r].key
           g == Append(hits[k], now)
<1>1. k \in Client /\ now \in Nat /\ g \in Seq(Nat)
  BY AtMutex, HitAppended
<1>2. /\ entries' = [entries EXCEPT ![k] = f] /\ hits' = [hits EXCEPT ![k] = g]
      /\ req' = [req EXCEPT ![r] = Nil]
  BY DEF Admit
<1>3. Windows(g, Len(g), f.count, f.ends) /\ Spread(g, Len(g))
  OBVIOUS
<1> HIDE DEF k, g
<1>4. TypeOK'
  BY <1>1, <1>2 DEF Inv, TypeOK
<1>5. \A q \in Req : Recent(req[q])'
  BY <1>2 DEF Inv, TypeOK, Recent
<1>6. ASSUME NEW c \in Client PROVE (Accounted(c) /\ Spread(hits[c], Len(hits[c])))'
  <2>1. CASE c = k
    <3>1. entries'[c] = f /\ hits'[c] = g /\ f # Nil
      BY <1>1, <1>2, <2>1, NilIsNothing DEF Inv, TypeOK
    <3> QED
      BY <1>3, <3>1 DEF Accounted, Spread, Windows, Prompt, Earlier, Older, Counted
  <2>2. CASE c # k
    <3>1. entries'[c] = entries[c] /\ hits'[c] = hits[c]
      BY <1>1, <1>2, <2>2 DEF Inv, TypeOK
    <3> QED
      BY <3>1 DEF Inv, Accounted, Spread, Windows, Prompt, Earlier, Older, Counted
  <2> QED
    BY <2>1, <2>2
<1> QED
  BY <1>4, <1>5, <1>6 DEF Inv

LEMMA OpenWindowInv == ASSUME NEW r \in Req, Inv, OpenWindow(r) PROVE Inv'
<1> DEFINE k == req[r].key
           t == req[r].stamp
           e == entries[k]
           h == hits[k]
           g == Append(h, now)
           f == [count |-> 1, ends |-> t + Window]
<1>1. /\ req[r] # Nil /\ ~Within(e, t) /\ Admit(r, f) /\ now' = now
  BY DEF OpenWindow
<1>2. /\ k \in Client /\ t \in Nat /\ now \in Nat /\ t <= now /\ now <= t + MaxDelay
      /\ h \in Seq(Nat)
  BY <1>1, AtMutex
<1>3. f \in Entry /\ f.count = 1 /\ f.ends = t + Window
  BY <1>2, Constants DEF Entry
<1>4. /\ Len(g) = Len(h) + 1 /\ g[Len(h) + 1] = now /\ Len(h) \in Nat
      /\ \A i \in 1..Len(h) : g[i] = h[i]
      /\ \A i \in 1..Len(h) : h[i] \in Nat
  BY <1>2, HitAppended
<1>5. Accounted(k) /\ Spread(h, Len(h))
  BY <1>2 DEF Inv
<1> HIDE DEF k, t, e, h, g, f
<1>6. Windows(g, Len(g), f.count, f.ends) /\ Spread(g, Len(g))
  <2>1. CASE e = Nil
    <3>1. Len(h) = 0 /\ Len(g) = 1 /\ g[1] = now
      BY <1>4, <1>5, <2>1 DEF Accounted, e, h
    <3> QED
      BY <1>2, <1>3, <3>1, FirstHit
  <2>2. CASE e # Nil
    <3>1. e.count \in Nat /\ e.count <= Limit /\ e.ends \in Nat
      BY <1>2, <2>2, Constants DEF Inv, TypeOK, Entry, e
    <3>2. Windows(h, Len(h), e.count, e.ends)
      BY <1>5, <2>2 DEF Accounted, e, h
    <3>3. e.ends < t
      BY <1>1, <1>2, <2>2, <3>1 DEF Within
    <3>4. Windows(g, Len(h) + 1, 1, t + Window) /\ Spread(g, Len(h) + 1)
      BY <1>2, <1>4, <1>5, <3>1, <3>2, <3>3, OpeningHit
    <3> QED
      BY <1>3, <1>4, <3>4
  <2> QED
    BY <2>1, <2>2
<1> QED
  BY <1>1, <1>3, <1>6, AdmitInv DEF g, h, k

LEMMA CountInInv == ASSUME NEW r \in Req, Inv, CountIn(r) PROVE Inv'
<1> DEFINE k == req[r].key
           t == req[r].stamp
           e == entries[k]
           h == hits[k]
           g == Append(h, now)
           f == [e EXCEPT !.count = @ + 1]
<1>1. /\ req[r] # Nil /\ Within(e, t) /\ ~Full(e) /\ Admit(r, f) /\ now' = now
  BY DEF CountIn
<1>2. /\ k \in Client /\ t \in Nat /\ now \in Nat /\ t <= now /\ now <= t + MaxDelay
      /\ h \in Seq(Nat)
  BY <1>1, AtMutex
<1>3. e \in Entry
  BY <1>1, <1>2 DEF Inv, TypeOK, Within
<1>4. /\ e.count \in Nat /\ e.ends \in Nat /\ e.count < Limit /\ t <= e.ends
      /\ f \in Entry /\ f.count = e.count + 1 /\ f.ends = e.ends
  BY <1>1, <1>3, Constants DEF Entry, Within, Full
<1>5. /\ Len(g) = Len(h) + 1 /\ g[Len(h) + 1] = now /\ Len(h) \in Nat
      /\ \A i \in 1..Len(h) : g[i] = h[i]
      /\ \A i \in 1..Len(h) : h[i] \in Nat
  BY <1>2, HitAppended
<1>6. Windows(h, Len(h), e.count, e.ends) /\ Spread(h, Len(h))
  BY <1>1, <1>2 DEF Inv, Accounted, Within
<1> HIDE DEF k, t, e, h, g, f
<1>7. now <= e.ends + MaxDelay
  BY <1>2, <1>4, Constants
<1>8. Windows(g, Len(h) + 1, e.count + 1, e.ends) /\ Spread(g, Len(h) + 1)
  BY <1>2, <1>4, <1>5, <1>6, <1>7, CountedHit
<1> QED
  BY <1>1, <1>4, <1>5, <1>8, AdmitInv DEF g, h, k

LEMMA StepInv == Inv /\ [Next]_vars => Inv'
<1> SUFFICES ASSUME Inv, [Next]_vars PROVE Inv'
  OBVIOUS
<1>1. CASE Tick
  BY <1>1, TickInv
<1>2. CASE UNCHANGED vars
  BY <1>2, AccountsKept DEF vars, Inv, TypeOK, Recent
<1>3. ASSUME NEW r \in Req, Arrive(r) \/ OpenWindow(r) \/ CountIn(r) \/ TurnAway(r)
      PROVE  Inv'
  BY <1>3, ArriveInv, OpenWindowInv, CountInInv, TurnAwayInv
<1> QED
  BY <1>1, <1>2, <1>3 DEF Next

-----------------------------------------------------------------------------
(* Inv holds in every reachable state, whatever the constants are: the     *)
(* entry that allow keeps of a client accounts for the client's hits.      *)
THEOREM Invariance == Spec => []Inv
BY InitInv, StepInv, PTL DEF Spec

(* No counter of the limiter exceeds its limit. *)
THEOREM TypeCorrect == Spec => []TypeOK
<1>1. Inv => TypeOK
  BY DEF Inv
<1> QED
  BY <1>1, Invariance, PTL

(* In the length of a window, less the delay of a request, at most twice   *)
(* the limit of a client's requests get through.                           *)
THEOREM BurstsAreBounded == Spec => []BurstBound
<1>1. Inv => BurstBound
  BY DEF Inv, BurstBound, Spread
<1> QED
  BY <1>1, Invariance, PTL

(* A client that gets a 429 has had a limit of requests served no longer   *)
(* than a window and a delay ago: RefusedOnlyAtLimit, for one step.        *)
LEMMA Refusal ==
  ASSUME Inv, NEW r \in Req, TurnAway(r)
  PROVE  \E t \in 0..now : now <= t + Window + MaxDelay /\ Served(req[r].key, t)
<1> DEFINE k == req[r].key
           s == req[r].stamp
           e == entries[k]
           h == hits[k]
           n == Len(h)
           i == n + 1 - Limit
<1>1. req[r] # Nil /\ Within(e, s) /\ Full(e)
  BY DEF TurnAway
<1>2. k \in Client /\ s \in Nat /\ now \in Nat /\ now <= s + MaxDelay /\ h \in Seq(Nat)
  BY <1>1, AtMutex
<1>3. e \in Entry /\ e # Nil
  BY <1>1, <1>2 DEF Inv, TypeOK, Within
<1>4. e.count = Limit /\ e.ends \in Nat /\ s <= e.ends
  BY <1>1, <1>3, Constants DEF Entry, Within, Full
<1>5. Windows(h, n, e.count, e.ends)
  BY <1>2, <1>3 DEF Inv, Accounted
<1>6. n \in Nat /\ \A j \in 1..n : h[j] \in Nat
  BY <1>2
<1> HIDE DEF k, s, e, h, n
<1>7. i \in 1..n /\ n + 1 = i + Limit /\ n < i + e.count
  BY <1>4, <1>5, <1>6, Constants DEF Windows
<1> HIDE DEF i
<1>8. h[i] \in Nat /\ h[i] <= now /\ e.ends <= h[i] + Window
  BY <1>5, <1>6, <1>7 DEF Windows, Prompt, Counted
<1>9. h[i] \in 0..now /\ now <= h[i] + Window + MaxDelay
  BY <1>2, <1>4, <1>8, Constants
<1>10. Served(k, h[i])
  BY <1>7, <1>8 DEF Served, n, h
<1> QED
  BY <1>9, <1>10 DEF k

(* Only TurnAway refuses: other steps leave a request or add a hit. *)
LEMMA OnlyTurnAway ==
  ASSUME Inv, [Next]_vars, NEW r \in Req, TurnedAway(r)
  PROVE  TurnAway(r)
<1>1. ASSUME NEW q \in Req, NEW f, Admit(q, f), req[q] # Nil PROVE FALSE
  <2>1. hits[req[q].key] \in Seq(Nat) /\ now \in Nat /\ req[q].key \in Client
    BY <1>1, AtMutex
  <2>2. Len(hits'[req[q].key]) = Len(hits[req[q].key]) + 1 /\ Len(hits[req[q].key]) \in Nat
    BY <1>1, <2>1, HitAppended DEF Admit, Inv, TypeOK
  <2> QED
    BY <2>2 DEF TurnedAway
<1>2. ASSUME NEW q \in Req, Arrive(q) PROVE FALSE
  <2>1. PICK k \in Client : req' = [req EXCEPT ![q] = [key |-> k, stamp |-> now]]
    BY <1>2 DEF Arrive
  <2>2. q # r
    BY <1>2 DEF Arrive, TurnedAway
  <2> QED
    BY <2>1, <2>2 DEF TurnedAway, Inv, TypeOK
<1>3. ASSUME NEW q \in Req, TurnAway(q) PROVE q = r
  BY <1>3 DEF TurnAway, TurnedAway, Inv, TypeOK
<1>4. ~Tick /\ ~UNCHANGED vars
  BY DEF Tick, vars, TurnedAway
<1> QED
  BY <1>1, <1>2, <1>3, <1>4 DEF Next, OpenWindow, CountIn

(* Nobody is turned away below the rate. *)
THEOREM RefusalsAreDeserved == Spec => RefusedOnlyAtLimit
<1>1. Inv /\ [Next]_vars =>
        [\A r \in Req : TurnedAway(r) =>
           \E t \in 0..now : now <= t + Window + MaxDelay /\ Served(req[r].key, t)]_vars
  BY Refusal, OnlyTurnAway
<1> QED
  BY <1>1, Invariance, PTL DEF Spec, RefusedOnlyAtLimit
=============================================================================
