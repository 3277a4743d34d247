----------------------------- MODULE RateLimiter -----------------------------
(***************************************************************************)
(* The rate limiter in front of every route                                *)
(* (internal/middleware/security.go): fixed windows, one per client        *)
(* address, in a map under a mutex.                                        *)
(*                                                                         *)
(* A request reads the clock before it waits for the mutex, so requests    *)
(* are judged by times that are past, and not in the order of these times. *)
(* Everything is in memory: what is said here is said of one process.      *)
(***************************************************************************)
EXTENDS Naturals, Sequences

CONSTANTS Client,    \* the addresses c.ClientIP() returns
          Req,       \* goroutines serving requests
          Limit,     \* requests a window admits, 300 in main
          Window,    \* its length, a minute in main
          MaxDelay,  \* no request waits longer between the clock and the mutex
          MaxTime,   \* bound: the clock stops here
          Nil

ASSUME LimiterAssumption ==
  /\ Limit \in Nat \ {0}
  /\ Window \in Nat /\ MaxDelay \in Nat /\ MaxTime \in Nat
  /\ Nil \notin [count : 1..Limit, ends : Nat] \cup [key : Client, stamp : Nat]

VARIABLES now,      \* the monotonic clock
          entries,  \* rateLimiter.entries
          req,      \* requests between their clock reading and the mutex
          hits      \* auxiliary: when requests of each client were admitted

vars == <<now, entries, req, hits>>

Entry   == [count : 1..Limit, ends : Nat]
Request == [key : Client, stamp : Nat]

Init ==
  /\ now = 0
  /\ entries = [k \in Client |-> Nil]
  /\ req = [r \in Req |-> Nil]
  /\ hits = [k \in Client |-> <<>>]

Tick ==
  /\ now < MaxTime
  /\ \A r \in Req : req[r] # Nil => now < req[r].stamp + MaxDelay
  /\ now' = now + 1
  /\ UNCHANGED <<entries, req, hits>>

(* RateLimit's handler: the address and time.Now(), then the mutex. *)
Arrive(r) ==
  /\ req[r] = Nil
  /\ \E k \in Client : req' = [req EXCEPT ![r] = [key |-> k, stamp |-> now]]
  /\ UNCHANGED <<now, entries, hits>>

-----------------------------------------------------------------------------
(* allow. *)

(* Mutation of Within: the window's last instant is not its own. *)
WithinOpen(e, t) == e # Nil /\ t < e.ends

Within(e, t) == e # Nil /\ t <= e.ends

(* Mutations of Full: one request too many; one too few. *)
FullTooLate(e) == e.count > Limit
FullTooSoon(e) == e.count + 1 >= Limit

Full(e) == e.count >= Limit

Admit(r, entry) ==
  /\ entries' = [entries EXCEPT ![req[r].key] = entry]
  /\ hits' = [hits EXCEPT ![req[r].key] = Append(@, now)]
  /\ req' = [req EXCEPT ![r] = Nil]

(* A window begins, at the time the request read. *)
OpenWindow(r) ==
  /\ req[r] # Nil /\ ~Within(entries[req[r].key], req[r].stamp)
  /\ Admit(r, [count |-> 1, ends |-> req[r].stamp + Window])
  /\ UNCHANGED now

CountIn(r) ==
  /\ req[r] # Nil
  /\ LET e == entries[req[r].key]
     IN /\ Within(e, req[r].stamp) /\ ~Full(e)
        /\ Admit(r, [e EXCEPT !.count = @ + 1])
  /\ UNCHANGED now

(* 429. *)
TurnAway(r) ==
  /\ req[r] # Nil
  /\ LET e == entries[req[r].key] IN Within(e, req[r].stamp) /\ Full(e)
  /\ req' = [req EXCEPT ![r] = Nil]
  /\ UNCHANGED <<now, entries, hits>>

Next == Tick \/ \E r \in Req : Arrive(r) \/ OpenWindow(r) \/ CountIn(r) \/ TurnAway(r)

Spec == Init /\ [][Next]_vars

-----------------------------------------------------------------------------
(* What the limiter promises. *)

(* The counters stay within the limit. *)
TypeOK ==
  /\ now \in Nat
  /\ entries \in [Client -> Entry \cup {Nil}]
  /\ req \in [Req -> Request \cup {Nil}]
  /\ hits \in [Client -> Seq(Nat)]

(* Fixed windows let at most two limits through in the length of one, less *)
(* what a request may be late: of 2 * Limit + 1 requests of a client that  *)
(* are admitted in a row, the last comes more than Window + 1 - MaxDelay   *)
(* ticks after the first (a window has Window + 1 ticks, its end belongs   *)
(* to it), whatever the order in which they got the mutex.                 *)
BurstBound ==
  \A k \in Client : \A i, j \in 1..Len(hits[k]) :
    j = i + 2 * Limit => hits[k][i] + Window + 1 < hits[k][j] + MaxDelay

(* Nobody is turned away below the rate: a client that gets a 429 has had  *)
(* Limit requests admitted since Window + MaxDelay ago, other clients'     *)
(* requests and late ones notwithstanding.                                 *)
TurnedAway(r) == req[r] # Nil /\ req'[r] = Nil /\ hits' = hits

Served(k, since) == \E i \in 1..Len(hits[k]) :
                      /\ Len(hits[k]) + 1 = i + Limit
                      /\ since <= hits[k][i]

RefusedOnlyAtLimit ==
  [][\A r \in Req : TurnedAway(r) =>
       \E t \in 0..now : now <= t + Window + MaxDelay /\ Served(req[r].key, t)]_vars
=============================================================================
