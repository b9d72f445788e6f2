----------------------------- MODULE RateLimiter -----------------------------
(***************************************************************************)
(* The in-process pacing of requests to the memory relayer                 *)
(* (packages/memory/src/limiter.ts): one RateLimiter per delegate key,     *)
(* shared by every client of that key, and runLimited, the retry loop      *)
(* every caller goes through.                                              *)
(*                                                                         *)
(* A caller is one call of runLimited.  JavaScript runs acquire, pump and  *)
(* the finally block of run without interruption, so each is one action;   *)
(* what interleaves is the order in which calls arrive, requests come back *)
(* and timers fire.  Time is a sequence of ticks.  Only ages matter (pump  *)
(* compares now - t with windowMs), so a stamp is its age, saturating at   *)
(* Window, and a timer is the ticks left until it is due.                  *)
(***************************************************************************)
EXTENDS Naturals, Sequences, FiniteSets, Functions

CONSTANTS
  Callers,      (* the calls of runLimited that share the delegate key       *)
  Capacity,     (* requests allowed per window                (50)           *)
  Window,       (* ticks in windowMs                          (60 s)         *)
  Grace,        (* ticks in the 50 ms a timer adds to the wait               *)
  Concurrency,  (* requests in flight at once                 (2)            *)
  Tries,        (* submissions before runLimited rethrows     (4)            *)
  MaxTimers     (* bound: no new call while this many timers are pending     *)

ASSUME LimiterAssumption ==
  /\ IsFiniteSet(Callers)
  /\ Capacity \in Nat \ {0}
  /\ Window \in Nat \ {0}
  /\ Grace \in Nat \ {0}
  /\ Concurrency \in Nat \ {0}
  /\ Tries \in Nat \ {0}
  /\ MaxTimers \in Nat

VARIABLES
  queue,     (* callers whose acquire has not resolved, in order of arrival  *)
  running,   (* callers inside fn()                                          *)
  backoff,   (* callers waiting out a retryable error, holding no slot       *)
  tries,     (* submissions made by each caller's current call               *)
  active,    (* the limiter's own count of requests in flight                *)
  stamps,    (* ages of the admissions it remembers, oldest first            *)
  timers,    (* ticks left on each pending setTimeout(pump), oldest first    *)
  recent     (* history: ages of the admissions of the last window, which is *)
             (* what the relayer counts                                      *)

vars == <<queue, running, backoff, tries, active, stamps, timers, recent>>

-----------------------------------------------------------------------------
(* An age saturates at Window: pump only asks whether it is below it.        *)
Older(age) == IF age < Window THEN age + 1 ELSE age
Aged(s)    == [i \in 1..Len(s) |-> Older(s[i])]

(* Admissions are stamped in time order, so those pump filters out because   *)
(* now - t >= windowMs are a prefix.                                         *)
Expired(s) == {i \in 1..Len(s) : s[i] >= Window}
Live(s)    == SubSeq(s, Cardinality(Expired(s)) + 1, Len(s))

Longer(a, b) == IF a >= b THEN a ELSE b

(* Math.max(50, windowMs - (now - oldest) + 50)                              *)
Delay(oldest) == Longer(Grace, Window - oldest + Grace)

(***************************************************************************)
(* pump(): lets at most one queued caller through.  `q`, `r`, `n` and `t`  *)
(* are the queue, the callers in flight, the counter and the timers as     *)
(* pump finds them, after the statement that called it.                    *)
(***************************************************************************)
PumpIdle(q, r, n, t) ==
  /\ q = <<>> \/ n >= Concurrency
  /\ queue' = q /\ running' = r /\ active' = n /\ timers' = t
  /\ UNCHANGED <<stamps, recent>>

PumpArms(q, r, n, t) ==
  /\ q # <<>> /\ n < Concurrency
  /\ stamps' = Live(stamps)
  /\ Len(Live(stamps)) >= Capacity
  /\ timers' = Append(t, Delay(Live(stamps)[1]))
  /\ queue' = q /\ running' = r /\ active' = n
  /\ UNCHANGED recent

(* Mutants: off by one at the limit; the newest caller is let through first. *)
PumpAdmits_AtLimit(q, r, n, t) ==
  /\ q # <<>> /\ n < Concurrency
  /\ Len(Live(stamps)) <= Capacity
  /\ stamps' = Append(Live(stamps), 0)
  /\ recent' = Append(recent, 0)
  /\ queue' = Tail(q) /\ running' = r \cup {Head(q)}
  /\ active' = n + 1 /\ timers' = t

PumpAdmits_Newest(q, r, n, t) ==
  /\ q # <<>> /\ n < Concurrency
  /\ Len(Live(stamps)) < Capacity
  /\ stamps' = Append(Live(stamps), 0)
  /\ recent' = Append(recent, 0)
  /\ queue' = SubSeq(q, 1, Len(q) - 1) /\ running' = r \cup {q[Len(q)]}
  /\ active' = n + 1 /\ timers' = t

PumpAdmits(q, r, n, t) ==
  /\ q # <<>> /\ n < Concurrency
  /\ Len(Live(stamps)) < Capacity
  /\ stamps' = Append(Live(stamps), 0)
  /\ recent' = Append(recent, 0)
  /\ queue' = Tail(q) /\ running' = r \cup {Head(q)}
  /\ active' = n + 1 /\ timers' = t

Pump(q, r, n, t) ==
  \/ PumpIdle(q, r, n, t)
  \/ PumpArms(q, r, n, t)
  \/ PumpAdmits(q, r, n, t)

-----------------------------------------------------------------------------
Queued == Range(queue)
Idle   == Callers \ (Queued \cup running \cup backoff)

(* limiter.run(fn): acquire pushes the caller and pumps.  While the window   *)
(* stays full each call, and each request that ends, arms one more timer,    *)
(* and a timer that finds it full arms its successor: nothing in the code    *)
(* bounds them, so calls are only made below MaxTimers.                      *)
Call(c) ==
  /\ c \in Idle
  /\ Len(timers) < MaxTimers
  /\ tries' = [tries EXCEPT ![c] = 1]
  /\ Pump(Append(queue, c), running, active, timers)
  /\ UNCHANGED backoff

(* Mutants: the slot of a request that ends is not given back; or it is, but *)
(* nobody in the queue is told.                                              *)
Finish_KeepsSlot(c) ==
  /\ c \in running
  /\ tries' = [tries EXCEPT ![c] = 0]
  /\ Pump(queue, running \ {c}, active, timers)
  /\ UNCHANGED backoff

Finish_NoPump(c) ==
  /\ c \in running
  /\ tries' = [tries EXCEPT ![c] = 0]
  /\ running' = running \ {c} /\ active' = active - 1
  /\ UNCHANGED <<queue, backoff, stamps, timers, recent>>

(* fn() resolves, or rejects with an error that is not worth waiting out, or *)
(* with any error on the last try: run's finally frees the slot, runLimited  *)
(* returns or rethrows.                                                      *)
Finish(c) ==
  /\ c \in running
  /\ tries' = [tries EXCEPT ![c] = 0]
  /\ Pump(queue, running \ {c}, active - 1, timers)
  /\ UNCHANGED backoff

(* fn() rejects with a 429, a 502, 503, 504 or an unavailable upstream, and  *)
(* tries are left: the finally block frees the slot before the wait starts.  *)
FailRetryable(c) ==
  /\ c \in running
  /\ tries[c] < Tries
  /\ backoff' = backoff \cup {c}
  /\ Pump(queue, running \ {c}, active - 1, timers)
  /\ UNCHANGED tries

(* Mutant: the next try is queued while the wait of the last one goes on.    *)
Retry_Twice(c) ==
  /\ c \in backoff
  /\ tries' = [tries EXCEPT ![c] = @ + 1]
  /\ Pump(Append(queue, c), running, active, timers)
  /\ UNCHANGED backoff

(* The wait is over: the next try acquires again, at the end of the queue.   *)
Retry(c) ==
  /\ c \in backoff
  /\ backoff' = backoff \ {c}
  /\ tries' = [tries EXCEPT ![c] = @ + 1]
  /\ Pump(Append(queue, c), running, active, timers)

(* Mutant: the timer comes due and does nothing.                             *)
TimerFires_Silently ==
  /\ timers # <<>> /\ Head(timers) = 0
  /\ timers' = Tail(timers)
  /\ UNCHANGED <<queue, running, backoff, tries, active, stamps, recent>>

(* A due setTimeout runs pump.  Timers are armed in the order they fall due. *)
TimerFires ==
  /\ timers # <<>> /\ Head(timers) = 0
  /\ Pump(queue, running, active, Tail(timers))
  /\ UNCHANGED <<backoff, tries>>

(* Time passes.  A due timer may run after anything else that happens in its *)
(* tick, but is not a whole tick late.                                       *)
Tick ==
  /\ \A i \in 1..Len(timers) : timers[i] > 0
  /\ stamps' = Aged(stamps)
  /\ recent' = Live(Aged(recent))
  /\ timers' = [i \in 1..Len(timers) |-> timers[i] - 1]
  /\ UNCHANGED <<queue, running, backoff, tries, active>>

Init ==
  /\ queue = <<>> /\ running = {} /\ backoff = {}
  /\ tries = [c \in Callers |-> 0]
  /\ active = 0 /\ stamps = <<>> /\ timers = <<>> /\ recent = <<>>

Next ==
  \/ \E c \in Callers : Call(c) \/ Finish(c) \/ FailRetryable(c) \/ Retry(c)
  \/ TimerFires
  \/ Tick

Spec == Init /\ [][Next]_vars

(***************************************************************************)
(* The clock runs, a due timer is eventually run, a backoff ends and every *)
(* request the relayer was sent comes back one way or the other (the SDK   *)
(* call resolves or rejects; waitForRememberJob carries its own timeout).  *)
(* Nothing obliges anyone to call.                                         *)
(***************************************************************************)
Comeback(c) == Finish(c) \/ FailRetryable(c)

Fairness ==
  /\ WF_vars(Tick) /\ WF_vars(TimerFires)
  /\ \A c \in Callers : WF_vars(Comeback(c)) /\ WF_vars(Retry(c))

FairSpec == Spec /\ Fairness

-----------------------------------------------------------------------------
Ages   == 0..Window
Delays == 0..(Window + Grace)

TypeOK ==
  /\ queue \in Seq(Callers)
  /\ running \in SUBSET Callers
  /\ backoff \in SUBSET Callers
  /\ tries \in [Callers -> 0..Tries]
  /\ active \in Nat
  /\ stamps \in Seq(Ages)
  /\ timers \in Seq(Delays)
  /\ recent \in Seq(Ages)

(***************************************************************************)
(* The counter pump trusts is the truth: a slot is neither leaked by a     *)
(* call that throws nor freed twice, and never more than Concurrency       *)
(* requests of one key are in flight.                                      *)
(***************************************************************************)
SlotsAccounted ==
  /\ active = Cardinality(running)
  /\ active <= Concurrency

(***************************************************************************)
(* The relayer's view of the budget: over any Window ticks at most         *)
(* Capacity requests leave, although pump forgets stamps only when it      *)
(* happens to run.                                                         *)
(***************************************************************************)
WindowBudget == Len(recent) <= Capacity

(***************************************************************************)
(* No lost wakeup.  pump admits one caller or arms one timer, and returns  *)
(* at once when no slot is free, so nothing in the code says a free slot   *)
(* is always going to be offered to a queued caller.  It is: for every     *)
(* caller a free slot could take, a timer that will run pump is pending.   *)
(***************************************************************************)
Fewer(a, b) == IF a <= b THEN a ELSE b

WakeupPending == Fewer(Concurrency - active, Len(queue)) <= Len(timers)

(***************************************************************************)
(* A caller waits, runs, backs off or is idle, and never two of these: it  *)
(* is queued once, so one resolve cannot start fn() twice.                 *)
(***************************************************************************)
OnePlace ==
  /\ \A i, j \in 1..Len(queue) : queue[i] = queue[j] => i = j
  /\ Queued \cap running = {}
  /\ Queued \cap backoff = {}
  /\ running \cap backoff = {}

(* Every call of runLimited returns or throws, whatever the relayer does.    *)
EveryCallReturns == \A c \in Callers : c \notin Idle ~> c \in Idle

(***************************************************************************)
(* What the callers are promised, whatever the stamps and the timers do:   *)
(* the limiter is a fair FIFO semaphore.  Callers are let through one      *)
(* after the other in the order they arrived, and none is passed over for  *)
(* ever.                                                                   *)
(***************************************************************************)
Slots == INSTANCE FifoSlots WITH
  Slots   <- Concurrency,
  waiting <- queue,
  serving <- running

ServesInOrder == Slots!FairSpec

=============================================================================
