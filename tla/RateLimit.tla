----------------------------- MODULE RateLimit -----------------------------
(***************************************************************************)
(* The request limit of one endpoint and key: a row of rate_limits, set    *)
(* and deleted by the ocg command, and checked by the gateway for every    *)
(* HTTP request and by `ocg ratelimit check`.  CheckRateLimit reads the    *)
(* row with one SQL statement and then resets its window or counts the     *)
(* request with another; each statement is one step.                       *)
(***************************************************************************)
EXTENDS Integers, FiniteSets

CONSTANTS
  Checkers,    \* goroutines and processes in CheckRateLimit
  QuotaLimits, \* the values of max_requests that are set, 0 for unlimited
  Hour,        \* a window older than this has expired
  MaxClock,    \* bound: the clock
  MaxSets,     \* bound: calls of SetRateLimit and DeleteRateLimit
  NoRow        \* the table has no row for this endpoint and key

QuotaRow == [max : Nat, requests : Nat, start : Nat]

ASSUME RateLimitConstantsOK ==
  /\ IsFiniteSet(Checkers)
  /\ QuotaLimits \subseteq Nat /\ Hour \in Nat /\ MaxClock \in Nat /\ MaxSets \in Nat
  /\ NoRow \notin QuotaRow

VARIABLES
  quota,   \* the row of rate_limits, or NoRow
  clock,
  checker, \* the statement each caller is at
  sets,    \* bound: calls of the command so far
  \* observations, not in the code:
  ceiling, \* the largest limit in force since the window was last reset
  granted, \* requests allowed under a limit since then
  resets   \* resets since the window was last found expired by the request that reset it

quotaVars == <<quota, clock, checker, sets, ceiling, granted, resets>>

QuotaTypeOK ==
  /\ quota \in QuotaRow \cup {NoRow}
  /\ clock \in 0..MaxClock /\ sets \in 0..MaxSets
  /\ checker \in [Checkers -> {"idle", "reset", "count"}]
  /\ ceiling \in Nat /\ granted \in Nat
  /\ resets \in Nat

QuotaInit ==
  /\ quota = NoRow /\ clock = 0 /\ sets = 0
  /\ checker = [c \in Checkers |-> "idle"]
  /\ ceiling = 0 /\ granted = 0 /\ resets = 0

Larger(m, n) == IF m >= n THEN m ELSE n

Goes(c, from, to) == checker[c] = from /\ checker' = [checker EXCEPT ![c] = to]

-----------------------------------------------------------------------------
(* SetRateLimit: an existing row keeps its count and its window.           *)
SetRateLimit(max) ==
  /\ sets < MaxSets /\ sets' = sets + 1
  /\ IF quota = NoRow
     THEN /\ quota' = [max |-> max, requests |-> 0, start |-> clock]
          /\ ceiling' = max /\ granted' = 0 /\ resets' = 0
     ELSE /\ quota' = [quota EXCEPT !.max = max]
          /\ ceiling' = Larger(ceiling, max) /\ UNCHANGED <<granted, resets>>
  /\ UNCHANGED <<clock, checker>>

DeleteRateLimit ==
  /\ sets < MaxSets /\ sets' = sets + 1
  /\ quota' = NoRow
  /\ ceiling' = 0 /\ granted' = 0 /\ resets' = 0
  /\ UNCHANGED <<clock, checker>>

Expired(row) == clock - row.start > Hour

(* Mutant: a window is reset when it is an hour old, not older.            *)
ReadLimitEarly(c) ==
  /\ IF quota = NoRow \/ quota.max = 0
     THEN Goes(c, "idle", "idle")
     ELSE Goes(c, "idle", IF clock - quota.start >= Hour THEN "reset" ELSE "count")
  /\ UNCHANGED <<quota, clock, sets, ceiling, granted, resets>>

(* GetRateLimit, and what CheckRateLimit does with the row it returns.     *)
ReadLimit(c) ==
  /\ IF quota = NoRow \/ quota.max = 0
     THEN Goes(c, "idle", "idle")
     ELSE Goes(c, "idle", IF Expired(quota) THEN "reset" ELSE "count")
  /\ UNCHANGED <<quota, clock, sets, ceiling, granted, resets>>

(* The UPDATE that begins a new window, whatever the row says by now; the  *)
(* request that issued it is allowed.                                      *)
ResetWindow(c) ==
  /\ Goes(c, "reset", "idle")
  /\ IF quota = NoRow
     THEN UNCHANGED <<quota, ceiling, granted, resets>>
     ELSE /\ quota' = [quota EXCEPT !.requests = 0, !.start = clock]
          /\ ceiling' = quota.max /\ granted' = 1
          /\ resets' = IF Expired(quota) THEN 1 ELSE resets + 1
  /\ UNCHANGED <<clock, sets>>

(* Mutant: the limit is compared as it was before the request is counted.  *)
CountRequestLate(c) ==
  /\ Goes(c, "count", "idle")
  /\ IF quota # NoRow /\ quota.requests <= quota.max
     THEN quota' = [quota EXCEPT !.requests = @ + 1] /\ granted' = granted + 1
     ELSE UNCHANGED <<quota, granted>>
  /\ UNCHANGED <<clock, sets, ceiling, resets>>

(* The UPDATE that counts the request if its own WHERE finds room.  No row *)
(* changed, the one deleted meanwhile included, means refused.             *)
CountRequest(c) ==
  /\ Goes(c, "count", "idle")
  /\ IF quota # NoRow /\ quota.requests < quota.max
     THEN quota' = [quota EXCEPT !.requests = @ + 1] /\ granted' = granted + 1
     ELSE UNCHANGED <<quota, granted>>
  /\ UNCHANGED <<clock, sets, ceiling, resets>>

(* A statement fails: the caller answers 503.                              *)
CheckFails(c) ==
  /\ \E at \in {"reset", "count"} : Goes(c, at, "idle")
  /\ UNCHANGED <<quota, clock, sets, ceiling, granted, resets>>

TickClock ==
  /\ clock < MaxClock /\ clock' = clock + 1
  /\ UNCHANGED <<quota, checker, sets, ceiling, granted, resets>>

QuotaNext ==
  \/ \E max \in QuotaLimits : SetRateLimit(max)
  \/ DeleteRateLimit \/ TickClock
  \/ \E c \in Checkers : ReadLimit(c) \/ ResetWindow(c) \/ CountRequest(c) \/ CheckFails(c)

QuotaSpec == QuotaInit /\ [][QuotaNext]_quotaVars

-----------------------------------------------------------------------------
(* What "req/hour" amounts to: since the window was last reset no more     *)
(* requests were allowed than the largest limit in force, and one for the  *)
(* request that reset it, which is not counted.  Callers that race with a  *)
(* change of the limit, a deletion or a reset do not get past it.          *)
QuotaKept == granted <= ceiling + 1

(* Callers that found the same window expired each begin it anew and wipe  *)
(* what was counted in between, but each does so once: in the hour after a *)
(* window expired it is reset at most as often as there are callers.       *)
ResetsBounded ==
  quota # NoRow /\ ~Expired(quota) => resets <= Cardinality(Checkers)
=============================================================================
