------------------------------- MODULE RateGate -------------------------------
(***************************************************************************)
(* How much one person may ask (apps/server/src/chat/ratelimit.ts): a      *)
(* request counts the turn_log rows of the last minute and of the last day *)
(* before it starts, and its own row is inserted when it ends (logTurn,    *)
(* noteCommand, noteModelCall).                                            *)
(***************************************************************************)
EXTENDS Integers, FiniteSets

CONSTANTS
  Calls,        (* requests of the person in progress at one time             *)
  Minute, PerMinute,   (* 60 s and PER_MINUTE                           (10)  *)
  Day, PerDay,         (* 24 h and PER_DAY                             (200)  *)
  MaxTime,      (* bound: the clock                                           *)
  MaxLost       (* bound: requests that end without a row                     *)

ASSUME RateAssumption ==
  /\ IsFiniteSet(Calls)
  /\ {Minute, PerMinute, Day, PerDay} \subseteq Nat \ {0}
  /\ MaxTime \in Nat /\ MaxLost \in Nat

VARIABLES
  now,
  rows,         (* turn_log rows of the person, each with its created_at      *)
  inProgress,   (* the requests in progress                                   *)
  started,      (* history: requests let in, with the time they started       *)
  lost          (* history: requests that ended without a row                 *)

rateVars == <<now, rows, inProgress, started, lost>>

(* What is counted are stamps <<time, n>>, the n-th of its time.             *)
At(stamps, t)  == {s \in stamps : s[1] = t}
Add(stamps, t) == stamps \cup {<<t, Cardinality(At(stamps, t))>>}

(* How many lie in the window that ends at t.                                *)
Within(stamps, t, window) ==
  Cardinality({s \in stamps : t - window < s[1] /\ s[1] <= t})

(* checkRate.  Mutant: no look at the day.                                   *)
Allowed_MinuteOnly == Within(rows, now, Minute) < PerMinute

Allowed ==
  /\ Within(rows, now, Minute) < PerMinute
  /\ Within(rows, now, Day) < PerDay

Start(c) ==
  /\ c \notin inProgress
  /\ Allowed
  /\ inProgress' = inProgress \cup {c}
  /\ started' = Add(started, now)
  /\ UNCHANGED <<now, rows, lost>>

(* The row of a turn is written after its answer, of a command after its     *)
(* work.                                                                     *)
Logged(c) ==
  /\ c \in inProgress
  /\ inProgress' = inProgress \ {c}
  /\ rows' = Add(rows, now)
  /\ UNCHANGED <<now, started, lost>>

(* A turn that fails leaves no row, nor does one whose insert fails or that  *)
(* a restart cuts off: the error is logged and swallowed.                    *)
NotLogged(c) ==
  /\ c \in inProgress
  /\ lost < MaxLost
  /\ inProgress' = inProgress \ {c}
  /\ lost' = lost + 1
  /\ UNCHANGED <<now, rows, started>>

ClockTicks ==
  /\ now < MaxTime
  /\ now' = now + 1
  /\ UNCHANGED <<rows, inProgress, started, lost>>

RateInit ==
  /\ now = 0 /\ lost = 0 /\ inProgress = {}
  /\ rows = {} /\ started = {}

-----------------------------------------------------------------------------
(***************************************************************************)
(* What the check does promise: however its requests overlap or fail, a    *)
(* person starts no more in a minute, or in a day, than the cap, one for   *)
(* every other request that can be in progress, and one for every request  *)
(* that left no row.                                                       *)
(***************************************************************************)
Slack == Cardinality(Calls) - 1 + lost
Overshoot ==
  /\ Within(started, now, Minute) <= PerMinute + Slack
  /\ Within(started, now, Day) <= PerDay + Slack

(* What it is said to promise (docs/ARCHITECTURE.md: "caps each person at 10 *)
(* turns per minute and 200 per day").  Two requests at once pass the check  *)
(* on the same count, and a failed turn is never counted.                    *)
MinuteCap == Within(started, now, Minute) <= PerMinute
=============================================================================
