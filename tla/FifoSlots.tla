------------------------------ MODULE FifoSlots ------------------------------
(***************************************************************************)
(* What RateLimiter promises its callers (packages/memory/src/limiter.ts), *)
(* with no stamps, timers or clock: at most Slots callers are served at    *)
(* once, in the order they arrived, and a free slot is eventually given to *)
(* the head of the line.  A caller may be let in by its own arrival, by    *)
(* another's departure, or by neither.                                     *)
(***************************************************************************)
EXTENDS Naturals, Sequences, FiniteSets, Functions

CONSTANTS Callers, Slots

VARIABLES waiting, serving

vars == <<waiting, serving>>

Waiting == Range(waiting)

Hold(w, s) == waiting' = w /\ serving' = s

Grant(w, s) ==
  /\ w # <<>>
  /\ Cardinality(s) < Slots
  /\ waiting' = Tail(w)
  /\ serving' = s \cup {Head(w)}

Arrive(c) ==
  /\ c \notin Waiting \cup serving
  /\ \/ Hold(Append(waiting, c), serving)
     \/ Grant(Append(waiting, c), serving)

Leave(c) ==
  /\ c \in serving
  /\ \/ Hold(waiting, serving \ {c})
     \/ Grant(waiting, serving \ {c})

Serve == Grant(waiting, serving)

Init == waiting = <<>> /\ serving = {}

Next == Serve \/ \E c \in Callers : Arrive(c) \/ Leave(c)

Spec == Init /\ [][Next]_vars

(* A caller at the head of the line is let in, in whichever of the ways.     *)
GrantsHead ==
  /\ waiting # <<>>
  /\ \/ Grant(waiting, serving)
     \/ \E c \in Callers :
          \/ c \notin Waiting \cup serving /\ Grant(Append(waiting, c), serving)
          \/ c \in serving /\ Grant(waiting, serving \ {c})

Fairness == WF_vars(GrantsHead) /\ \A c \in Callers : WF_vars(Leave(c))

FairSpec == Spec /\ Fairness
=============================================================================
