--------------------------- MODULE ChannelTurnProofs ----------------------------
(***************************************************************************)
(* ChannelTurn proved for any processes, messages, handlers at work, faults*)
(* and silences.  What is said of handlers that come one at a time rests   *)
(* on there being one of them (Alone): it alone moves the switch and the   *)
(* transcript.  NoFork rests on a count: a thread that is open can only    *)
(* make way for another when a silence has not been used up by it yet.     *)
(***************************************************************************)
EXTENDS ChannelTurn, SequenceTheorems, TLAPS

Works(p, m) == ~At(p, m, {"idle", "handled"})
Has(p, m)   == At(p, m, {"close", "command", "place", "read", "model", "store"})

(* What a handler that comes alone knows is still so.                        *)
CallOK(p, m) ==
  /\ Has(p, m) => call[p][m].thread \in DOMAIN threads
  /\ At(p, m, {"read", "model"}) => IsTurn(m)
  /\ ~overlapped /\ Works(p, m) => call[p][m].asked = m
  /\ ~overlapped /\ Works(p, m) /\ IsTurn(m) => call[p][m].on = enabled
  /\ ~overlapped /\ At(p, m, {"read", "model", "store"}) =>
       Lines(p, m) # << >> /\ Last(Lines(p, m)) = Line("user", m, m)

CallsOK == \A p \in Process, m \in Message : CallOK(p, m)

Alone ==
  ~overlapped => \A p, q \in Process, m, n \in Message :
    Works(p, m) /\ Works(q, n) => p = q /\ m = n

OneOpen == \A t, u \in Open : t = u

(* The open thread, if there is one, was passed by a silence: it is stale or *)
(* about to be closed.                                                       *)
Targeted(t) == \E p \in Process, m \in Message : At(p, m, {"close"}) /\ call[p][m].thread = t
Owed  == Len(threads) > 0 /\ \A t \in Open : threads[t].stale \/ Targeted(t)
Count == Len(threads) <= silences + 1 /\ (Owed => Len(threads) <= silences)

IInv == TypeOK /\ CallsOK /\ Alone /\ OneOpen /\ Count /\ RepliesFit

-----------------------------------------------------------------------------
(* The types.                                                                *)
LineSet == [role : {"user", "assistant"}, msg : Message, asked : Message]
Thread  == [open : BOOLEAN, stale : BOOLEAN, lines : Seq(LineSet)]
Working1 == [pc : Pcs, on : BOOLEAN, thread : Nat, asked : Message, again : BOOLEAN, wrote : BOOLEAN]
Calls   == {Idle, [pc |-> "handled"]} \cup Working1

LEMMA Typed ==
  ASSUME TypeOK
  PROVE  /\ call \in [Process -> [Message -> Calls]] /\ threads \in Seq(Thread)
         /\ \A p \in Process, m \in Message : Works(p, m) => call[p][m] \in Working1
<1>1. call \in [Process -> [Message -> Calls]] /\ threads \in Seq(Thread)
  BY DEF TypeOK, Calls, Working1, Thread, LineSet
<1>2. ASSUME NEW p \in Process, NEW m \in Message, Works(p, m)
      PROVE  call[p][m] \in Working1
  <2>1. call[p][m] \in Calls
    BY <1>1
  <2>2. Idle.pc = "idle" /\ [pc |-> "handled"].pc = "handled"
    BY DEF Idle
  <2>. QED BY <1>2, <2>1, <2>2 DEF Works, At, Calls
<1>. QED BY <1>1, <1>2

LEMMA Replaced ==
  ASSUME NEW S, NEW s \in Seq(S), NEW i \in DOMAIN s, NEW e \in S
  PROVE  [s EXCEPT ![i] = e] \in Seq(S) /\ Len([s EXCEPT ![i] = e]) = Len(s)
<1>1. i \in 1..Len(s)
  OBVIOUS
<1>. QED BY <1>1, ExceptSeq

LEMMA LinesTyped ==
  ASSUME TypeOK, NEW t \in DOMAIN threads
  PROVE  threads[t] \in Thread /\ threads[t].lines \in Seq(LineSet) /\ t \in Nat
<1>1. threads \in Seq(Thread)
  BY Typed
<1>2. threads[t] \in Thread
  BY <1>1
<1>. QED BY <1>1, <1>2 DEF Thread

(* What a step of one handler does to the calls.                             *)
LEMMA StepCalls ==
  ASSUME TypeOK, NEW p \in Process, NEW m \in Message, NEW from, NEW to, Step(p, m, from, to)
  PROVE  /\ call[p][m].pc = from /\ call'[p][m] = to
         /\ \A q \in Process, n \in Message : q # p \/ n # m => call'[q][n] = call[q][n]
         /\ UNCHANGED <<scenario, proc, pending, replies, dropped, overlapped>>
BY Typed DEF Step, At, history

LEMMA StepTypes ==
  ASSUME TypeOK, NEW p \in Process, NEW m \in Message, NEW from, NEW to \in Calls,
         Step(p, m, from, to), threads' \in Seq(Thread), enabled' \in BOOLEAN, Fault \/ NoFault
  PROVE  TypeOK'
<1>1. call' \in [Process -> [Message -> Calls]]
  BY Typed DEF Step
<1>2. faults' \in Nat /\ UNCHANGED <<sent, silences>>
  BY DEF Fault, NoFault, counts, TypeOK
<1>. QED BY <1>1, <1>2, StepCalls DEF TypeOK, Calls, Working1, Thread, LineSet

(* Of handlers that come one at a time there are no others to care about.    *)
LEMMA OthersStay ==
  ASSUME TypeOK, CallsOK, Alone, NEW p \in Process, NEW m \in Message, NEW from, NEW to,
         Works(p, m), Step(p, m, from, to), DOMAIN threads \subseteq DOMAIN threads', CallOK(p, m)'
  PROVE  CallsOK' /\ Alone'
<1>1. overlapped' = overlapped /\ scenario' = scenario
  BY StepCalls
<1>2. \A q \in Process, n \in Message : q # p \/ n # m => call'[q][n] = call[q][n]
  BY StepCalls
<1>3. ASSUME NEW q \in Process, NEW n \in Message, q # p \/ n # m
      PROVE  CallOK(q, n)'
  <2>1. call'[q][n] = call[q][n] /\ CallOK(q, n)
    BY <1>2, <1>3 DEF CallsOK
  <2>2. ~overlapped => ~Works(q, n)
    BY <1>3 DEF Alone
  <2>3. /\ Has(q, n)' <=> Has(q, n)
        /\ Works(q, n)' <=> Works(q, n)
        /\ IsTurn(n)' <=> IsTurn(n)
        /\ At(q, n, {"read", "model"})' <=> At(q, n, {"read", "model"})
        /\ At(q, n, {"read", "model", "store"})' => Works(q, n)
    BY <1>1, <2>1 DEF Has, Works, At, IsTurn
  <2>. QED BY <1>1, <2>1, <2>2, <2>3 DEF CallOK
<1>4. Alone'
  BY <1>1, <1>2 DEF Alone, Works, At
<1>. QED BY <1>3, <1>4 DEF CallsOK

-----------------------------------------------------------------------------
(* The threads.                                                              *)
LinesFit(lines) ==
  \A k \in DOMAIN lines : lines[k].role = "assistant" =>
    /\ k > 1 /\ lines[k - 1].role = "user"
    /\ lines[k].msg = lines[k - 1].msg /\ lines[k].asked = lines[k].msg

LEMMA Fit == RepliesFit <=> (~overlapped => \A t \in DOMAIN threads : LinesFit(threads[t].lines))
BY DEF RepliesFit, LinesFit

Settled == OneOpen /\ Count /\ RepliesFit

LEMMA ThreadsStay ==
  ASSUME Settled, threads' = threads, silences' = silences, overlapped' = overlapped,
         \A t \in Open : Targeted(t)' => Targeted(t) \/ threads[t].stale
  PROVE  Settled'
<1>1. Open' = Open
  BY DEF Open
<1>2. Owed' => Owed
  BY <1>1 DEF Owed
<1>3. RepliesFit'
  BY DEF Settled, RepliesFit
<1>. QED BY <1>1, <1>2, <1>3 DEF Settled, OneOpen, Count

(* Nobody new is about to close anything.                                    *)
LEMMA NoNewTarget ==
  ASSUME \A q \in Process, n \in Message :
           call'[q][n] = call[q][n] \/ call'[q][n].pc # "close"
  PROVE  \A t : Targeted(t)' => Targeted(t)
BY DEF Targeted, At

LEMMA Written ==
  ASSUME TypeOK, OneOpen, Count, NEW i \in DOMAIN threads, NEW lines \in Seq(LineSet),
         threads' = [threads EXCEPT ![i].lines = lines, ![i].stale = FALSE], silences' = silences,
         \A t : Targeted(t)' => Targeted(t)
  PROVE  /\ OneOpen' /\ Count' /\ threads' \in Seq(Thread) /\ DOMAIN threads' = DOMAIN threads
         /\ threads'[i].lines = lines
         /\ \A t \in DOMAIN threads : t # i => threads'[t].lines = threads[t].lines
<1>1. threads \in Seq(Thread) /\ threads[i] \in Thread
  BY Typed, LinesTyped
<1>. DEFINE new == [[threads[i] EXCEPT !.lines = lines] EXCEPT !.stale = FALSE]
<1>2. threads' = [threads EXCEPT ![i] = new]
  BY <1>1
<1>3. new \in Thread /\ new.open = threads[i].open /\ new.lines = lines /\ new.stale = FALSE
  BY <1>1 DEF Thread
<1>. HIDE DEF new
<1>4. /\ threads' \in Seq(Thread) /\ DOMAIN threads' = DOMAIN threads /\ Len(threads') = Len(threads)
      /\ \A t \in DOMAIN threads : threads'[t] = IF t = i THEN new ELSE threads[t]
  <2>1. DOMAIN threads = 1..Len(threads)
    BY <1>1
  <2>3. /\ [threads EXCEPT ![i] = new] \in Seq(Thread)
        /\ Len([threads EXCEPT ![i] = new]) = Len(threads)
    BY <1>1, <1>3, Replaced
  <2>. QED BY <1>2, <2>1, <2>3
<1>5. Open' = Open
  BY <1>3, <1>4 DEF Open
<1>6. \A t \in Open : threads'[t].stale => threads[t].stale
  BY <1>3, <1>4 DEF Open
<1>7. Owed' => Owed
  BY <1>4, <1>5, <1>6 DEF Owed
<1>. QED BY <1>3, <1>4, <1>5, <1>7 DEF OneOpen, Count

-----------------------------------------------------------------------------
(* A handler that goes on without touching threads or the switch.            *)
LEMMA QuietStep ==
  ASSUME IInv, NEW p \in Process, NEW m \in Message, NEW from, NEW to \in Calls,
         Works(p, m), Step(p, m, from, to), Quiet, Fault \/ NoFault, CallOK(p, m)',
         to.pc = "close" => threads[to.thread].stale
  PROVE  IInv'
<1>1. threads' = threads /\ enabled' = enabled /\ overlapped' = overlapped /\ silences' = silences
  BY StepCalls DEF Quiet, Fault, NoFault, counts, IInv
<1>2. TypeOK'
  BY <1>1, StepTypes, Typed DEF IInv, TypeOK
<1>3. CallsOK' /\ Alone'
  BY <1>1, OthersStay DEF IInv
<1>4. \A t \in Open : Targeted(t)' => Targeted(t) \/ threads[t].stale
  <2>1. call'[p][m] = to /\ \A q \in Process, n \in Message : q # p \/ n # m => call'[q][n] = call[q][n]
    BY StepCalls DEF IInv
  <2>. QED BY <2>1 DEF Targeted, At
<1>5. Settled'
  BY <1>1, <1>4, ThreadsStay DEF Settled, IInv
<1>. QED BY <1>2, <1>3, <1>5 DEF Settled, IInv

Later(from, to) ==
  /\ to \in Pcs \ {"close"}
  /\ to \in {"command", "place", "read", "model", "store"} =>
       from \in {"close", "command", "place", "read", "model", "store"}
  /\ to \in {"read", "model"} => from \in {"read", "model"}
  /\ to = "store" => from \in {"read", "model", "store"}

LEMMA Onward ==
  ASSUME IInv, NEW p \in Process, NEW m \in Message, NEW from, NEW pc, Works(p, m),
         NEW again \in BOOLEAN, NEW wrote \in BOOLEAN,
         Step(p, m, from, [call[p][m] EXCEPT !.pc = pc, !.again = again, !.wrote = wrote]),
         Later(from, pc), Quiet, Fault \/ NoFault
  PROVE  IInv'
<1>. DEFINE to == [call[p][m] EXCEPT !.pc = pc, !.again = again, !.wrote = wrote]
<1>1. call[p][m] \in Working1
  BY Typed DEF IInv
<1>2. /\ to \in Calls /\ to.pc = pc /\ to.on = call[p][m].on /\ to.thread = call[p][m].thread
      /\ to.asked = call[p][m].asked
  BY <1>1 DEF Calls, Working1, Later
<1>3. Step(p, m, from, to)
  OBVIOUS
<1>. HIDE DEF to
<1>4. /\ call[p][m].pc = from /\ call'[p][m] = to /\ scenario' = scenario /\ overlapped' = overlapped
      /\ threads' = threads /\ enabled' = enabled
  BY <1>3, StepCalls DEF IInv, Quiet
<1>5. CallOK(p, m)
  BY DEF IInv, CallsOK
<1>6. CallOK(p, m)'
  <2>1. Has(p, m)' => Has(p, m)
    BY <1>2, <1>4 DEF Later, Has, At
  <2>2. At(p, m, {"read", "model"})' => At(p, m, {"read", "model"})
    BY <1>2, <1>4 DEF Later, At
  <2>3. At(p, m, {"read", "model", "store"})' => At(p, m, {"read", "model", "store"})
    BY <1>2, <1>4 DEF Later, At
  <2>4. Lines(p, m)' = Lines(p, m) /\ (IsTurn(m)' <=> IsTurn(m))
    BY <1>2, <1>4 DEF Lines, IsTurn
  <2>. QED BY <1>2, <1>4, <1>5, <2>1, <2>2, <2>3, <2>4 DEF CallOK
<1>7. to.pc # "close"
  BY <1>2 DEF Later
<1>. QED BY <1>2, <1>3, <1>6, <1>7, QuietStep

LEMMA Onwards ==
  ASSUME IInv, NEW p \in Process, NEW m \in Message, NEW from, NEW pc, Works(p, m),
         Go(p, m, from, pc), Later(from, pc), Quiet, Fault \/ NoFault
  PROVE  IInv'
<1>1. call[p][m] \in Working1
  BY Typed DEF IInv
<1>2. [call[p][m] EXCEPT !.pc = pc]
        = [call[p][m] EXCEPT !.pc = pc, !.again = call[p][m].again, !.wrote = call[p][m].wrote]
  BY <1>1 DEF Working1
<1>3. call[p][m].again \in BOOLEAN /\ call[p][m].wrote \in BOOLEAN
  BY <1>1 DEF Working1
<1>4. Step(p, m, from, [call[p][m] EXCEPT !.pc = pc, !.again = call[p][m].again,
                                          !.wrote = call[p][m].wrote])
  BY <1>2 DEF Go
<1>. QED BY <1>3, <1>4, Onward

(* A handler has found its thread.                                           *)
LEMMA Finds ==
  ASSUME IInv, NEW p \in Process, NEW m \in Message, NEW from, NEW t \in DOMAIN threads,
         NEW pc \in {"command", "close"}, Works(p, m), from \in Pcs,
         Step(p, m, from, [call[p][m] EXCEPT !.pc = pc, !.thread = t]),
         pc = "close" => threads[t].stale, Quiet, NoFault
  PROVE  IInv'
<1>. DEFINE to == [call[p][m] EXCEPT !.pc = pc, !.thread = t]
<1>1. call[p][m] \in Working1 /\ t \in Nat
  BY Typed, LinesTyped DEF IInv
<1>2. /\ to \in Calls /\ to.pc = pc /\ to.on = call[p][m].on /\ to.thread = t
      /\ to.asked = call[p][m].asked
  BY <1>1 DEF Calls, Working1, Pcs
<1>3. Step(p, m, from, to)
  OBVIOUS
<1>. HIDE DEF to
<1>4. /\ call'[p][m] = to /\ scenario' = scenario /\ overlapped' = overlapped
      /\ threads' = threads /\ enabled' = enabled
  BY <1>3, StepCalls DEF IInv, Quiet
<1>5. CallOK(p, m)
  BY DEF IInv, CallsOK
<1>6. CallOK(p, m)'
  <2>1. ~At(p, m, {"read", "model"})' /\ ~At(p, m, {"read", "model", "store"})'
    BY <1>2, <1>4 DEF At
  <2>2. IsTurn(m)' <=> IsTurn(m)
    BY <1>4 DEF IsTurn
  <2>. QED BY <1>2, <1>4, <1>5, <2>1, <2>2 DEF CallOK
<1>. QED BY <1>2, <1>3, <1>6, QuietStep

LEMMA QuietSteps ==
  ASSUME IInv, NEW p \in Process, NEW m \in Message,
         \/ Refuse(p, m) \/ FindOpen(p, m) \/ FindAgain(p, m) \/ Remember(p, m)
         \/ ModelAnswers(p, m) \/ ModelFails(p, m)
  PROVE  IInv'
<1>1. CASE Refuse(p, m)
  <2>1. Works(p, m) /\ Later(call[p][m].pc, "say")
    BY <1>1 DEF Refuse, Works, At, Later, Pcs
  <2>. QED BY <1>1, <2>1, Onwards DEF Refuse
<1>2. CASE FindOpen(p, m)
  <2>1. call[p][m].pc = "gate" /\ Works(p, m) /\ "gate" \in Pcs /\ Quiet /\ NoFault
    BY <1>2 DEF FindOpen, InThread, Go, Step, At, Works, Pcs
  <2>2. ASSUME NEW t \in Open, InThread(p, m, "gate", t) PROVE IInv'
    BY <2>1, <2>2, Finds DEF InThread, Open
  <2>3. ASSUME NEW t \in Open, threads[t].stale,
               Step(p, m, "gate", [call[p][m] EXCEPT !.pc = "close", !.thread = t])
        PROVE  IInv'
    BY <2>1, <2>3, Finds DEF Open
  <2>4. ASSUME Go(p, m, "gate", "insert") PROVE IInv'
    <3>1. Later("gate", "insert")
      BY DEF Later, Pcs
    <3>. QED BY <2>1, <2>4, <3>1, Onwards
  <2>. QED BY <1>2, <2>2, <2>3, <2>4 DEF FindOpen
<1>3. CASE FindAgain(p, m)
  <2>1. call[p][m].pc = "again" /\ Works(p, m) /\ "again" \in Pcs /\ Quiet /\ NoFault
    BY <1>3 DEF FindAgain, InThread, Go, Step, At, Works, Pcs
  <2>2. ASSUME NEW t \in Open, InThread(p, m, "again", t) PROVE IInv'
    BY <2>1, <2>2, Finds DEF InThread, Open
  <2>3. ASSUME Go(p, m, "again", "say") PROVE IInv'
    <3>1. Later("again", "say")
      BY DEF Later, Pcs
    <3>. QED BY <2>1, <2>3, <3>1, Onwards
  <2>. QED BY <1>3, <2>2, <2>3 DEF FindAgain
<1>4. CASE Remember(p, m)
  <2>1. /\ call[p][m].pc = "model" /\ Works(p, m) /\ Later("model", "model")
        /\ call[p][m] \in Working1
    <3>1. At(p, m, {"model"})
      BY <1>4 DEF Remember
    <3>2. Works(p, m)
      BY <3>1 DEF At, Works
    <3>. QED BY <3>1, <3>2, Typed DEF At, Later, Pcs, IInv
  <2>2. [call[p][m] EXCEPT !.wrote = TRUE]
          = [call[p][m] EXCEPT !.pc = "model", !.again = call[p][m].again, !.wrote = TRUE]
    BY <2>1 DEF Working1
  <2>3. call[p][m].again \in BOOLEAN
    BY <2>1 DEF Working1
  <2>4. /\ Quiet /\ NoFault
        /\ Step(p, m, "model", [call[p][m] EXCEPT !.pc = "model", !.again = call[p][m].again,
                                                 !.wrote = TRUE])
    BY <1>4, <2>2 DEF Remember
  <2>. QED BY <2>1, <2>3, <2>4, Onward
<1>5. CASE ModelAnswers(p, m)
  <2>1. Works(p, m) /\ Later("model", "store")
    BY <1>5 DEF ModelAnswers, Go, Step, At, Works, Later, Pcs
  <2>. QED BY <1>5, <2>1, Onwards DEF ModelAnswers
<1>6. CASE ModelFails(p, m)
  <2>1. /\ call[p][m].pc = "model" /\ Works(p, m) /\ Later("model", "model") /\ Later("model", "say")
        /\ call[p][m] \in Working1 /\ Quiet /\ Fault
    <3>1. At(p, m, {"model"}) /\ Quiet /\ Fault
      BY <1>6 DEF ModelFails
    <3>2. Works(p, m)
      BY <3>1 DEF At, Works
    <3>. QED BY <3>1, <3>2, Typed DEF At, Later, Pcs, IInv
  <2>2. [call[p][m] EXCEPT !.again = TRUE, !.wrote = FALSE]
          = [call[p][m] EXCEPT !.pc = "model", !.again = TRUE, !.wrote = FALSE]
    BY <2>1 DEF Working1
  <2>3. CASE Step(p, m, "model", [call[p][m] EXCEPT !.again = TRUE, !.wrote = FALSE])
    BY <2>1, <2>2, <2>3, Onward
  <2>4. CASE Go(p, m, "model", "say")
    BY <2>1, <2>4, Onwards
  <2>. QED BY <1>6, <2>3, <2>4 DEF ModelFails
<1>. QED BY <1>1, <1>2, <1>3, <1>4, <1>5, <1>6

-----------------------------------------------------------------------------
(* A handler that moves the switch or the threads.                           *)
LEMMA CloseStep ==
  ASSUME IInv, NEW p \in Process, NEW m \in Message, Close(p, m)
  PROVE  IInv'
<1>. DEFINE to == [call[p][m] EXCEPT !.pc = "insert"]
<1>0. PICK i : i = call[p][m].thread
  OBVIOUS
<1>1. At(p, m, {"close"}) /\ Works(p, m) /\ Has(p, m) /\ CallOK(p, m)
  BY DEF Close, At, Works, Has, IInv, CallsOK
<1>2. i \in DOMAIN threads /\ call[p][m] \in Working1
  BY <1>0, <1>1, Typed DEF CallOK, IInv
<1>3. Step(p, m, "close", to) /\ threads' = [threads EXCEPT ![i].open = FALSE]
      /\ enabled' = enabled /\ NoFault
  BY <1>0 DEF Close, Go
<1>4. /\ to \in Calls /\ to.pc = "insert" /\ to.on = call[p][m].on /\ to.asked = call[p][m].asked
  BY <1>2 DEF Calls, Working1, Pcs
<1>. HIDE DEF to
<1>5. /\ call'[p][m] = to /\ scenario' = scenario /\ overlapped' = overlapped /\ silences' = silences
      /\ \A q \in Process, n \in Message : q # p \/ n # m => call'[q][n] = call[q][n]
  BY <1>3, StepCalls DEF IInv, NoFault, counts
<1>. DEFINE new == [threads[i] EXCEPT !.open = FALSE]
<1>6. threads \in Seq(Thread) /\ threads[i] \in Thread /\ DOMAIN threads = 1..Len(threads)
  BY <1>2, Typed, LinesTyped DEF IInv
<1>7. /\ new \in Thread /\ new.open = FALSE /\ new.lines = threads[i].lines
      /\ new.stale = threads[i].stale /\ threads' = [threads EXCEPT ![i] = new]
  BY <1>3, <1>6 DEF Thread
<1>. HIDE DEF new
<1>8. /\ threads' \in Seq(Thread) /\ Len(threads') = Len(threads) /\ DOMAIN threads' = DOMAIN threads
      /\ \A t \in DOMAIN threads : threads'[t] = IF t = i THEN new ELSE threads[t]
  <2>1. /\ [threads EXCEPT ![i] = new] \in Seq(Thread)
        /\ Len([threads EXCEPT ![i] = new]) = Len(threads)
    BY <1>2, <1>6, <1>7, Replaced
  <2>. QED BY <1>6, <1>7, <2>1
<1>9. Open' = Open \ {i}
  BY <1>7, <1>8 DEF Open
<1>10. TypeOK'
  BY <1>3, <1>4, <1>8, StepTypes DEF IInv, TypeOK
<1>11. CallOK(p, m)'
  <2>1. ~Has(p, m)' /\ ~At(p, m, {"read", "model"})' /\ ~At(p, m, {"read", "model", "store"})'
    BY <1>4, <1>5 DEF Has, At
  <2>2. IsTurn(m)' <=> IsTurn(m)
    BY <1>5 DEF IsTurn
  <2>. QED BY <1>1, <1>3, <1>4, <1>5, <2>1, <2>2 DEF CallOK
<1>12. CallsOK' /\ Alone'
  BY <1>1, <1>3, <1>8, <1>11, OthersStay DEF IInv
<1>13. \A t : Targeted(t)' => Targeted(t)
  BY <1>4, <1>5, NoNewTarget
<1>14. Count'
  <2>1. CASE i \in Open
    <3>1. Owed
      <4>1. Targeted(i)
        BY <1>0, <1>1 DEF Targeted
      <4>2. \A t \in Open : t = i
        BY <2>1 DEF IInv, OneOpen
      <4>3. Len(threads) > 0
        BY <1>2, <1>6
      <4>. QED BY <4>1, <4>2, <4>3 DEF Owed
    <3>. QED BY <1>5, <1>8, <3>1 DEF IInv, Count
  <2>2. CASE i \notin Open
    <3>1. Open' = Open /\ \A t \in Open : threads'[t] = threads[t]
      BY <1>8, <1>9, <2>2 DEF Open
    <3>2. Owed' => Owed
      BY <1>8, <1>13, <3>1 DEF Owed
    <3>. QED BY <1>5, <1>8, <3>2 DEF IInv, Count
  <2>. QED BY <2>1, <2>2
<1>15. \A t \in DOMAIN threads' : threads'[t].lines = threads[t].lines
  BY <1>7, <1>8
<1>16. RepliesFit' /\ OneOpen'
  <2>1. (overlapped' <=> overlapped) /\ \A t \in DOMAIN threads' : LinesFit(threads'[t].lines) <=> LinesFit(threads[t].lines)
    BY <1>5, <1>15
  <2>2. RepliesFit'
    BY <1>5, <1>8, <1>15 DEF IInv, RepliesFit
  <2>. QED BY <1>9, <2>2 DEF IInv, OneOpen
<1>. QED BY <1>10, <1>12, <1>14, <1>16 DEF IInv

LEMMA InsertStep ==
  ASSUME IInv, NEW p \in Process, NEW m \in Message, Insert(p, m)
  PROVE  IInv'
<1>1. call[p][m].pc = "insert" /\ Works(p, m) /\ NoFault /\ enabled' = enabled
  BY DEF Insert, InThread, Go, Step, At, Works
<1>2. CASE Go(p, m, "insert", "again") /\ UNCHANGED threads
  <2>1. Later("insert", "again") /\ Quiet
    BY <1>1, <1>2 DEF Later, Pcs, Quiet
  <2>. QED BY <1>1, <1>2, <2>1, Onwards
<1>3. ASSUME Open = {}, threads' = Append(threads, [open |-> TRUE, stale |-> FALSE, lines |-> << >>]),
             InThread(p, m, "insert", Len(threads'))
      PROVE  IInv'
  <2>. DEFINE new == [open |-> TRUE, stale |-> FALSE, lines |-> << >>]
  <2>0. PICK i : i = Len(threads) + 1
    OBVIOUS
  <2>. DEFINE to == [call[p][m] EXCEPT !.pc = "command", !.thread = i]
  <2>1. threads \in Seq(Thread) /\ DOMAIN threads = 1..Len(threads) /\ Len(threads) \in Nat
        /\ call[p][m] \in Working1 /\ CallOK(p, m)
    BY <1>1, Typed DEF IInv, CallsOK
  <2>2. new \in Thread /\ threads' = Append(threads, new)
    BY <1>3 DEF Thread
  <2>. HIDE DEF new
  <2>3. /\ threads' \in Seq(Thread) /\ Len(threads') = i
        /\ \A t \in DOMAIN threads : threads'[t] = threads[t]
        /\ threads'[i] = new
    BY <2>0, <2>1, <2>2, AppendProperties
  <2>4. DOMAIN threads' = DOMAIN threads \cup {i} /\ i \notin DOMAIN threads
    BY <2>0, <2>1, <2>3
  <2>5. Step(p, m, "insert", to)
    BY <1>3, <2>3 DEF InThread
  <2>6. to \in Calls /\ to.pc = "command" /\ to.thread = i /\ to.on = call[p][m].on
        /\ to.asked = call[p][m].asked
    <3>1. i \in Nat /\ call[p][m] \in Working1
      BY <2>0, <2>1
    <3>. QED BY <3>1 DEF Calls, Working1, Pcs
  <2>. HIDE DEF to
  <2>7. /\ call'[p][m] = to /\ scenario' = scenario /\ overlapped' = overlapped /\ silences' = silences
        /\ \A q \in Process, n \in Message : q # p \/ n # m => call'[q][n] = call[q][n]
    BY <1>1, <2>5, StepCalls DEF IInv, NoFault, counts
  <2>8. TypeOK'
    BY <1>1, <2>3, <2>5, <2>6, StepTypes DEF IInv, TypeOK
  <2>9. CallOK(p, m)'
    <3>1. ~At(p, m, {"read", "model"})' /\ ~At(p, m, {"read", "model", "store"})'
      BY <2>6, <2>7 DEF At
    <3>2. IsTurn(m)' <=> IsTurn(m)
      BY <2>7 DEF IsTurn
    <3>. QED BY <1>1, <2>1, <2>4, <2>6, <2>7, <3>1, <3>2 DEF CallOK
  <2>10. CallsOK' /\ Alone'
    BY <1>1, <2>4, <2>5, <2>9, OthersStay DEF IInv
  <2>11. new.open = TRUE /\ new.stale = FALSE /\ new.lines = << >>
    BY DEF new
  <2>12. Open' = {i}
    BY <1>3, <2>3, <2>4, <2>11 DEF Open
  <2>13. ~Targeted(i)'
    <3>1. ASSUME NEW q \in Process, NEW n \in Message, call'[q][n].pc = "close"
          PROVE  call'[q][n].thread # i
      <4>1. call'[q][n] = call[q][n]
        BY <2>6, <2>7, <3>1
      <4>2. Has(q, n) /\ CallOK(q, n)
        BY <3>1, <4>1 DEF Has, At, IInv, CallsOK
      <4>. QED BY <2>4, <4>1, <4>2 DEF CallOK
    <3>. QED BY <3>1 DEF Targeted, At
  <2>14. ~Owed'
    <3>1. Owed' => threads'[i].stale \/ Targeted(i)'
      BY <2>12 DEF Owed
    <3>. QED BY <2>3, <2>11, <2>13, <3>1
  <2>15. Count'
    <3>1. CASE Len(threads) = 0
      BY <2>0, <2>3, <2>7, <2>14, <3>1 DEF Count, IInv, TypeOK
    <3>2. CASE Len(threads) # 0
      <4>1. Owed
        BY <1>3, <2>1, <3>2 DEF Owed
      <4>. QED BY <2>0, <2>1, <2>3, <2>7, <2>14, <4>1 DEF Count, IInv, TypeOK
    <3>. QED BY <3>1, <3>2
  <2>16. RepliesFit'
    <3>1. LinesFit(new.lines)
      BY <2>11 DEF LinesFit
    <3>2. ~overlapped => \A t \in DOMAIN threads' : LinesFit(threads'[t].lines)
      BY <2>3, <2>4, <3>1, Fit DEF IInv
    <3>. QED BY <2>7, <3>2 DEF RepliesFit, LinesFit
  <2>. QED BY <2>8, <2>10, <2>12, <2>15, <2>16 DEF IInv, OneOpen
<1>. QED BY <1>2, <1>3 DEF Insert

LEMMA CommandStep ==
  ASSUME IInv, NEW p \in Process, NEW m \in Message, Command(p, m)
  PROVE  IInv'
<1>. DEFINE to == [call[p][m] EXCEPT !.pc = "place"]
<1>1. /\ call[p][m].pc = "command" /\ Step(p, m, "command", to) /\ NoFault /\ threads' = threads
      /\ enabled' = IF IsTurn(m) THEN enabled ELSE scenario.kind[m] = "on"
  BY DEF Command, Go, Step, At
<1>2. Works(p, m) /\ Has(p, m) /\ CallOK(p, m)
  BY <1>1 DEF Works, Has, At, IInv, CallsOK
<1>3. call[p][m] \in Working1
  BY <1>2, Typed DEF IInv
<1>4. to \in Calls /\ to.pc = "place" /\ to.on = call[p][m].on /\ to.asked = call[p][m].asked
      /\ to.thread = call[p][m].thread
  BY <1>3 DEF Calls, Working1, Pcs
<1>. HIDE DEF to
<1>5. /\ call'[p][m] = to /\ scenario' = scenario /\ overlapped' = overlapped /\ silences' = silences
      /\ \A q \in Process, n \in Message : q # p \/ n # m => call'[q][n] = call[q][n]
  BY <1>1, StepCalls DEF IInv, NoFault, counts
<1>6. enabled' \in BOOLEAN
  BY <1>1 DEF IInv, TypeOK
<1>7. TypeOK'
  BY <1>1, <1>4, <1>6, StepTypes, Typed DEF IInv
<1>8. CallOK(p, m)'
  <2>1. ~At(p, m, {"read", "model"})' /\ ~At(p, m, {"read", "model", "store"})'
    BY <1>4, <1>5 DEF At
  <2>2. IsTurn(m)' <=> IsTurn(m)
    BY <1>5 DEF IsTurn
  <2>3. IsTurn(m) => enabled' = enabled
    BY <1>1
  <2>. QED BY <1>1, <1>2, <1>4, <1>5, <2>1, <2>2, <2>3 DEF CallOK
<1>9. CallsOK' /\ Alone'
  BY <1>1, <1>2, <1>8, OthersStay DEF IInv
<1>10. \A t : Targeted(t)' => Targeted(t)
  BY <1>4, <1>5, NoNewTarget
<1>11. Settled'
  BY <1>1, <1>5, <1>10, ThreadsStay DEF IInv, Settled
<1>. QED BY <1>7, <1>9, <1>11 DEF IInv, Settled

-----------------------------------------------------------------------------
(* A handler that writes a line to its thread, or reads them.                *)
LEMMA Appended ==
  ASSUME NEW lines \in Seq(LineSet), NEW l \in LineSet
  PROVE  /\ Append(lines, l) \in Seq(LineSet) /\ Append(lines, l) # << >>
         /\ Last(Append(lines, l)) = l
         /\ LinesFit(lines) /\ l.role = "user" => LinesFit(Append(lines, l))
         /\ LinesFit(lines) /\ lines # << >> /\ Last(lines).role = "user"
              /\ l.msg = Last(lines).msg /\ l.asked = l.msg => LinesFit(Append(lines, l))
<1>. DEFINE new == Append(lines, l)
<1>1. /\ new \in Seq(LineSet) /\ new # << >> /\ Len(new) = Len(lines) + 1
      /\ \A k \in 1..Len(lines) : new[k] = lines[k]
      /\ new[Len(lines) + 1] = l
  BY AppendProperties
<1>2. DOMAIN new = 1..(Len(lines) + 1) /\ DOMAIN lines = 1..Len(lines) /\ Len(lines) \in Nat
  BY <1>1
<1>. HIDE DEF new
<1>3. Last(new) = l
  BY <1>1 DEF Last
<1>4. ASSUME LinesFit(lines), l.role = "user" PROVE LinesFit(new)
  BY <1>1, <1>2, <1>4 DEF LinesFit
<1>5. ASSUME LinesFit(lines), lines # << >>, Last(lines).role = "user",
             l.msg = Last(lines).msg, l.asked = l.msg
      PROVE  LinesFit(new)
  <2>1. Len(lines) > 0 /\ Last(lines) = lines[Len(lines)]
    BY <1>5 DEF Last
  <2>2. SUFFICES ASSUME NEW k \in DOMAIN new, new[k].role = "assistant"
                 PROVE  /\ k > 1 /\ new[k - 1].role = "user"
                        /\ new[k].msg = new[k - 1].msg /\ new[k].asked = new[k].msg
    BY DEF LinesFit
  <2>3. CASE k = Len(lines) + 1
    <3>1. k - 1 = Len(lines) /\ new[k - 1] = lines[Len(lines)] /\ new[k] = l /\ k > 1
      BY <1>1, <1>2, <2>1, <2>3
    <3>. QED BY <1>5, <2>1, <3>1
  <2>4. CASE k # Len(lines) + 1
    <3>1. k \in DOMAIN lines /\ new[k] = lines[k]
      BY <1>1, <1>2, <2>2, <2>4
    <3>2. k > 1 /\ lines[k - 1].role = "user" /\ lines[k].msg = lines[k - 1].msg /\ lines[k].asked = lines[k].msg
      BY <1>5, <2>2, <3>1 DEF LinesFit
    <3>3. new[k - 1] = lines[k - 1]
      BY <1>1, <1>2, <3>1, <3>2
    <3>. QED BY <3>1, <3>2, <3>3
  <2>. QED BY <2>3, <2>4
<1>. QED BY <1>1, <1>3, <1>4, <1>5 DEF new

LEMMA Writes ==
  ASSUME IInv, NEW p \in Process, NEW m \in Message, NEW from \in {"place", "store"},
         NEW pc \in {"read", "store", "say"}, Go(p, m, from, pc), NEW l \in LineSet,
         Write(p, m, Append(Lines(p, m), l)), NoFault, UNCHANGED enabled,
         pc = "read" => IsTurn(m),
         pc \in {"read", "store"} => l = Line("user", m, m),
         ~overlapped /\ LinesFit(Lines(p, m)) => LinesFit(Append(Lines(p, m), l))
  PROVE  IInv'
<1>. DEFINE to == [call[p][m] EXCEPT !.pc = pc]
<1>0. PICK i : i = call[p][m].thread
  OBVIOUS
<1>1. call[p][m].pc = from /\ Step(p, m, from, to)
  BY DEF Go, Step, At
<1>2. Works(p, m) /\ Has(p, m) /\ CallOK(p, m)
  BY <1>1 DEF Works, Has, At, IInv, CallsOK
<1>3. call[p][m] \in Working1 /\ i \in DOMAIN threads
  BY <1>0, <1>2, Typed DEF IInv, CallOK
<1>4. to \in Calls /\ to.pc = pc /\ to.on = call[p][m].on /\ to.asked = call[p][m].asked
      /\ to.thread = i
  BY <1>0, <1>3 DEF Calls, Working1, Pcs
<1>. HIDE DEF to
<1>5. /\ call'[p][m] = to /\ scenario' = scenario /\ overlapped' = overlapped /\ silences' = silences
      /\ \A q \in Process, n \in Message : q # p \/ n # m => call'[q][n] = call[q][n]
  BY <1>1, StepCalls DEF IInv, NoFault, counts
<1>6. \A t : Targeted(t)' => Targeted(t)
  BY <1>4, <1>5, NoNewTarget
<1>. DEFINE new == Append(threads[i].lines, l)
<1>7. threads[i].lines \in Seq(LineSet)
  BY <1>3, LinesTyped DEF IInv
<1>8. new \in Seq(LineSet) /\ new # << >> /\ Last(new) = l
  BY <1>7, Appended
<1>. HIDE DEF new
<1>9. threads' = [threads EXCEPT ![i].lines = new, ![i].stale = FALSE]
  BY <1>0 DEF Write, Lines, new
<1>10. /\ OneOpen' /\ Count' /\ threads' \in Seq(Thread) /\ DOMAIN threads' = DOMAIN threads
       /\ threads'[i].lines = new
       /\ \A t \in DOMAIN threads : t # i => threads'[t].lines = threads[t].lines
  BY <1>3, <1>5, <1>6, <1>8, <1>9, Written DEF IInv
<1>11. TypeOK'
  BY <1>1, <1>4, <1>10, StepTypes DEF IInv, TypeOK
<1>12. CallOK(p, m)'
  <2>1. Lines(p, m)' = new
    BY <1>4, <1>5, <1>10 DEF Lines
  <2>2. IsTurn(m)' <=> IsTurn(m)
    BY <1>5 DEF IsTurn
  <2>3. At(p, m, {"read", "model"})' => IsTurn(m)'
    BY <1>4, <1>5, <2>2 DEF At
  <2>4. At(p, m, {"read", "model", "store"})' => Lines(p, m)' # << >> /\ Last(Lines(p, m)') = Line("user", m, m)
    BY <1>4, <1>5, <1>8, <2>1 DEF At
  <2>5. Line("user", m, m)' = Line("user", m, m)
    BY DEF Line
  <2>. QED BY <1>2, <1>3, <1>4, <1>5, <1>10, <2>2, <2>3, <2>4, <2>5 DEF CallOK
<1>13. CallsOK' /\ Alone'
  BY <1>1, <1>2, <1>10, <1>12, OthersStay DEF IInv
<1>14. RepliesFit'
  <2>1. Lines(p, m) = threads[i].lines
    BY <1>0 DEF Lines
  <2>2. ASSUME ~overlapped, NEW t \in DOMAIN threads PROVE LinesFit(threads'[t].lines)
    <3>1. LinesFit(threads[t].lines)
      BY <2>2, Fit DEF IInv
    <3>2. CASE t = i
      BY <1>10, <2>1, <2>2, <3>1, <3>2 DEF new
    <3>3. CASE t # i
      BY <1>10, <3>1, <3>3
    <3>. QED BY <3>2, <3>3
  <2>. QED BY <1>5, <1>10, <2>2 DEF RepliesFit, LinesFit
<1>. QED BY <1>10, <1>11, <1>13, <1>14 DEF IInv

LEMMA LinesAre ==
  ASSUME IInv, NEW p \in Process, NEW m \in Message, Has(p, m)
  PROVE  Lines(p, m) \in Seq(LineSet)
<1>1. call[p][m].thread \in DOMAIN threads
  BY DEF IInv, CallsOK, CallOK
<1>. QED BY <1>1, LinesTyped DEF IInv, Lines

LEMMA AppendUserStep ==
  ASSUME IInv, NEW p \in Process, NEW m \in Message, AppendUser(p, m)
  PROVE  IInv'
<1>. DEFINE pc == IF IsTurn(m) THEN "read" ELSE "store"
<1>1. /\ At(p, m, {"place"}) /\ Write(p, m, Append(Lines(p, m), Line("user", m, m)))
      /\ Go(p, m, "place", pc) /\ NoFault /\ UNCHANGED enabled
  BY DEF AppendUser
<1>2. Has(p, m)
  BY <1>1 DEF Has, At
<1>3. Line("user", m, m) \in LineSet /\ Line("user", m, m).role = "user"
  BY DEF Line, LineSet
<1>4. LinesFit(Lines(p, m)) => LinesFit(Append(Lines(p, m), Line("user", m, m)))
  BY <1>2, <1>3, LinesAre, Appended
<1>5. pc \in {"read", "store", "say"} /\ (pc = "read" => IsTurn(m))
  OBVIOUS
<1>. HIDE DEF pc
<1>. QED BY <1>1, <1>3, <1>4, <1>5, Writes

LEMMA ReadLinesStep ==
  ASSUME IInv, NEW p \in Process, NEW m \in Message, ReadLines(p, m)
  PROVE  IInv'
<1>1. /\ call[p][m].pc = "read" /\ NoFault /\ Quiet
      /\ Works(p, m) /\ Has(p, m) /\ CallOK(p, m)
  BY DEF ReadLines, At, Works, Has, IInv, CallsOK
<1>2. PICK k \in Question(Lines(p, m)) :
        Step(p, m, "read", [call[p][m] EXCEPT !.pc = "model", !.asked = Lines(p, m)[k].msg])
  BY DEF ReadLines
<1>. DEFINE to == [call[p][m] EXCEPT !.pc = "model", !.asked = Lines(p, m)[k].msg]
<1>3. Lines(p, m) \in Seq(LineSet) /\ k \in DOMAIN Lines(p, m)
  BY <1>1, <1>2, LinesAre DEF Question, Turns
<1>4. Lines(p, m)[k] \in LineSet
  BY <1>3
<1>5. Lines(p, m)[k].msg \in Message /\ call[p][m] \in Working1
  BY <1>1, <1>4, Typed DEF LineSet, IInv
<1>6. /\ to \in Calls /\ to.pc = "model" /\ to.on = call[p][m].on /\ to.thread = call[p][m].thread
      /\ to.asked = Lines(p, m)[k].msg
  BY <1>5 DEF Calls, Working1, Pcs
<1>7. ASSUME ~overlapped PROVE Lines(p, m)[k].msg = m
  <2>. DEFINE lines == Lines(p, m)
  <2>1. lines # << >> /\ Last(lines) = Line("user", m, m) /\ IsTurn(m)
    BY <1>1, <1>7 DEF CallOK, At
  <2>2. lines \in Seq(LineSet) /\ k \in Question(lines)
    BY <1>2, <1>3
  <2>. HIDE DEF lines
  <2>3. Len(lines) \in DOMAIN lines /\ lines[Len(lines)] = Line("user", m, m) /\ k \in 1..Len(lines)
    BY <2>1, <2>2 DEF Last, Question, Turns
  <2>4. Len(lines) \in Turns(lines)
    BY <2>1, <2>3 DEF Turns, Line
  <2>5. k = Len(lines)
    BY <2>2, <2>3, <2>4 DEF Question
  <2>. QED BY <2>3, <2>5 DEF lines, Line
<1>8. Step(p, m, "read", to)
  BY <1>2
<1>. HIDE DEF to
<1>9. /\ call'[p][m] = to /\ scenario' = scenario /\ overlapped' = overlapped
      /\ threads' = threads /\ enabled' = enabled
  BY <1>1, <1>8, StepCalls DEF IInv, Quiet
<1>10. CallOK(p, m)'
  <2>1. Lines(p, m)' = Lines(p, m) /\ (IsTurn(m)' <=> IsTurn(m))
    BY <1>6, <1>9 DEF Lines, IsTurn
  <2>2. At(p, m, {"read", "model"}) /\ At(p, m, {"read", "model", "store"})
    BY <1>1 DEF At
  <2>3. Line("user", m, m)' = Line("user", m, m)
    BY DEF Line
  <2>. QED BY <1>1, <1>6, <1>7, <1>9, <2>1, <2>2, <2>3 DEF CallOK
<1>11. to.pc # "close"
  BY <1>6
<1>. QED BY <1>1, <1>6, <1>8, <1>10, <1>11, QuietStep

LEMMA AppendAssistantStep ==
  ASSUME IInv, NEW p \in Process, NEW m \in Message, AppendAssistant(p, m)
  PROVE  IInv'
<1>1. At(p, m, {"store"}) /\ Go(p, m, "store", "say") /\ UNCHANGED enabled
  BY DEF AppendAssistant
<1>2. Works(p, m) /\ Has(p, m) /\ CallOK(p, m) /\ Later("store", "say")
  BY <1>1 DEF Works, Has, At, IInv, CallsOK, Later, Pcs
<1>3. CASE UNCHANGED threads /\ (Fault \/ NoFault)
  <2>1. Quiet
    BY <1>1, <1>3 DEF Quiet
  <2>. QED BY <1>1, <1>2, <1>3, <2>1, Onwards
<1>4. ASSUME NoFault, Write(p, m, Append(Lines(p, m), Line("assistant", m, call[p][m].asked)))
      PROVE  IInv'
  <2>. DEFINE l == Line("assistant", m, call[p][m].asked)
  <2>1. call[p][m] \in Working1
    BY <1>2, Typed DEF IInv
  <2>2. l \in LineSet /\ l.msg = m /\ l.asked = call[p][m].asked
    BY <2>1 DEF Working1, Line, LineSet
  <2>. HIDE DEF l
  <2>3. ASSUME ~overlapped, LinesFit(Lines(p, m)) PROVE LinesFit(Append(Lines(p, m), l))
    <3>1. /\ Lines(p, m) # << >> /\ Last(Lines(p, m)) = Line("user", m, m)
          /\ call[p][m].asked = m
      BY <1>1, <1>2, <2>3 DEF CallOK, At
    <3>2. Last(Lines(p, m)).role = "user" /\ Last(Lines(p, m)).msg = m
      BY <3>1 DEF Line
    <3>. QED BY <1>2, <2>2, <2>3, <3>1, <3>2, LinesAre, Appended
  <2>4. Write(p, m, Append(Lines(p, m), l))
    BY <1>4 DEF l
  <2>. QED BY <1>1, <1>4, <2>2, <2>3, <2>4, Writes
<1>. QED BY <1>3, <1>4 DEF AppendAssistant

-----------------------------------------------------------------------------
(* Calls that end, and everything that is not a handler's step.              *)
LEMMA CallsEnd ==
  ASSUME IInv, TypeOK',
         \A q \in Process, n \in Message : call'[q][n] = call[q][n] \/ ~Works(q, n)',
         UNCHANGED <<scenario, threads, enabled, overlapped, silences>>
  PROVE  IInv'
<1>1. ASSUME NEW q \in Process, NEW n \in Message
      PROVE  CallOK(q, n)' /\ (Works(q, n)' => Works(q, n))
  <2>1. CASE call'[q][n] = call[q][n]
    <3>1. CallOK(q, n)
      BY DEF IInv, CallsOK
    <3>. QED BY <2>1, <3>1 DEF CallOK, Has, Works, At, Lines, IsTurn, Line
  <2>2. CASE ~Works(q, n)'
    BY <2>2 DEF CallOK, Has, Works, At
  <2>. QED BY <2>1, <2>2
<1>2. CallsOK' /\ Alone'
  BY <1>1 DEF CallsOK, Alone, IInv
<1>3. \A t : Targeted(t)' => Targeted(t)
  BY NoNewTarget DEF Works, At
<1>4. Settled'
  BY <1>3, ThreadsStay DEF IInv, Settled
<1>. QED BY <1>2, <1>4 DEF IInv, Settled

LEMMA ProcessSteps ==
  ASSUME IInv, NEW p \in Process, Start(p) \/ Conflict(p) \/ Wake(p) \/ Stop(p) \/ Crash(p)
  PROVE  IInv'
<1>1. PICK mode \in {"off", "listening", "asleep", "mute", "stopped"} : Become(p, mode)
  BY DEF Start, Conflict, Wake, Stop, Crash
<1>2. /\ proc' = [proc EXCEPT ![p] = mode]
      /\ call' = [call EXCEPT ![p] = [m \in Message |-> Idle]]
      /\ UNCHANGED <<scenario, threads, enabled, replies, overlapped>>
  BY <1>1 DEF Become
<1>3. pending' \in SUBSET (Process \X Message) /\ dropped' \in SUBSET Message
  BY DEF Start, Conflict, Wake, Stop, Crash, Forsaken, IInv, TypeOK
<1>4. faults' \in Nat /\ UNCHANGED <<sent, silences>>
  BY DEF Start, Conflict, Wake, Stop, Crash, Fault, NoFault, counts, IInv, TypeOK
<1>5. call \in [Process -> [Message -> Calls]]
  BY Typed DEF IInv
<1>6. call' \in [Process -> [Message -> Calls]]
  BY <1>2, <1>5 DEF Calls
<1>7. TypeOK'
  BY <1>2, <1>3, <1>4, <1>6 DEF IInv, TypeOK, Calls, Working1
<1>8. \A q \in Process, n \in Message : call'[q][n] = call[q][n] \/ ~Works(q, n)'
  BY <1>2, <1>5 DEF Works, At, Idle
<1>. QED BY <1>2, <1>4, <1>7, <1>8, CallsEnd

LEMMA EndSteps ==
  ASSUME IInv, NEW p \in Process, NEW m \in Message, Confirm(p, m) \/ Reply(p, m)
  PROVE  IInv'
<1>1. PICK c \in {Idle, [pc |-> "handled"]} : call' = [call EXCEPT ![p][m] = c]
  BY DEF Confirm, Reply
<1>2. /\ pending' \in SUBSET (Process \X Message) /\ replies' \in SUBSET Message
      /\ dropped' \in SUBSET Message
      /\ UNCHANGED <<scenario, proc, threads, enabled, overlapped>>
  BY DEF Confirm, Reply, IInv, TypeOK, history
<1>3. faults' \in Nat /\ UNCHANGED <<sent, silences>>
  BY DEF Confirm, Reply, Fault, NoFault, counts, IInv, TypeOK
<1>4. call \in [Process -> [Message -> Calls]]
  BY Typed DEF IInv
<1>5. call' \in [Process -> [Message -> Calls]]
  BY <1>1, <1>4 DEF Calls
<1>6. TypeOK'
  BY <1>2, <1>3, <1>5 DEF IInv, TypeOK, Calls, Working1
<1>7. \A q \in Process, n \in Message : call'[q][n] = call[q][n] \/ ~Works(q, n)'
  BY <1>1, <1>4 DEF Works, At, Idle
<1>. QED BY <1>2, <1>3, <1>6, <1>7, CallsEnd

LEMMA ReceiveStep ==
  ASSUME IInv, NEW p \in Process, NEW m \in Message, Receive(p, m)
  PROVE  IInv'
<1>. DEFINE c == [pc |-> "gate", on |-> enabled, thread |-> 0, asked |-> m, again |-> FALSE,
                  wrote |-> FALSE]
<1>1. /\ call' = [call EXCEPT ![p][m] = c] /\ At(p, m, {"idle"})
      /\ pending' \in SUBSET (Process \X Message)
      /\ overlapped' = (overlapped \/ Working # {})
      /\ UNCHANGED <<scenario, proc, threads, enabled, replies, counts, dropped>>
  BY DEF Receive, IInv, TypeOK
<1>2. call \in [Process -> [Message -> Calls]] /\ enabled \in BOOLEAN
  BY Typed DEF IInv, TypeOK
<1>3. c \in Calls /\ c.pc = "gate" /\ c.on = enabled /\ c.asked = m
  BY <1>2 DEF Calls, Working1, Pcs
<1>. HIDE DEF c
<1>4. /\ call'[p][m] = c /\ call' \in [Process -> [Message -> Calls]]
      /\ \A q \in Process, n \in Message : q # p \/ n # m => call'[q][n] = call[q][n]
  BY <1>1, <1>2, <1>3
<1>5. overlapped' \in BOOLEAN /\ UNCHANGED <<sent, faults, silences>>
  BY <1>1 DEF counts, IInv, TypeOK
<1>6. TypeOK'
  BY <1>1, <1>4, <1>5 DEF IInv, TypeOK, Calls, Working1
<1>7. ~overlapped' => ~overlapped /\ \A q \in Process, n \in Message : ~Works(q, n)
  <2>1. ASSUME NEW q \in Process, NEW n \in Message, Works(q, n) PROVE <<q, n>> \in Working
    BY <2>1 DEF Works, Working, Busy, At
  <2>. QED BY <1>1, <2>1
<1>8. ASSUME NEW q \in Process, NEW n \in Message PROVE CallOK(q, n)'
  <2>1. CASE q = p /\ n = m
    <3>1. ~Has(q, n)' /\ ~At(q, n, {"read", "model"})' /\ ~At(q, n, {"read", "model", "store"})'
      BY <1>3, <1>4, <2>1 DEF Has, At
    <3>. QED BY <1>1, <1>3, <1>4, <2>1, <3>1 DEF CallOK
  <2>2. CASE q # p \/ n # m
    <3>1. call'[q][n] = call[q][n] /\ CallOK(q, n)
      BY <1>4, <2>2 DEF IInv, CallsOK
    <3>2. /\ Has(q, n)' <=> Has(q, n)
          /\ Works(q, n)' <=> Works(q, n)
          /\ IsTurn(n)' <=> IsTurn(n)
          /\ At(q, n, {"read", "model"})' <=> At(q, n, {"read", "model"})
          /\ At(q, n, {"read", "model", "store"})' => Works(q, n)
      BY <1>1, <3>1 DEF Has, Works, At, IsTurn
    <3>. QED BY <1>1, <1>7, <3>1, <3>2 DEF CallOK
  <2>. QED BY <2>1, <2>2
<1>9. Alone'
  <2>1. ASSUME ~overlapped', NEW q \in Process, NEW n \in Message, Works(q, n)' PROVE q = p /\ n = m
    BY <1>4, <1>7, <2>1 DEF Works, At
  <2>. QED BY <2>1 DEF Alone
<1>10. \A t : Targeted(t)' => Targeted(t)
  BY <1>3, <1>4, NoNewTarget
<1>11. Open' = Open
  BY <1>1 DEF Open
<1>12. Owed' => Owed
  BY <1>1, <1>10, <1>11 DEF Owed
<1>13. RepliesFit'
  BY <1>1, <1>7 DEF IInv, RepliesFit
<1>. QED BY <1>1, <1>5, <1>6, <1>8, <1>9, <1>11, <1>12, <1>13 DEF IInv, CallsOK, OneOpen, Count

LEMMA SilenceStep ==
  ASSUME IInv, Silence
  PROVE  IInv'
<1>1. /\ silences' = silences + 1
      /\ threads' = [t \in DOMAIN threads |-> [threads[t] EXCEPT !.stale = TRUE]]
      /\ UNCHANGED <<scenario, proc, pending, call, enabled, replies, sent, faults, history>>
  BY DEF Silence
<1>2. threads \in Seq(Thread) /\ silences \in Nat /\ DOMAIN threads = 1..Len(threads) /\ Len(threads) \in Nat
  BY Typed DEF IInv, TypeOK
<1>3. ASSUME NEW t \in DOMAIN threads
      PROVE  threads'[t] \in Thread /\ threads'[t].open = threads[t].open /\ threads'[t].lines = threads[t].lines
  <2>1. threads[t] \in Thread
    BY LinesTyped DEF IInv
  <2>. QED BY <1>1, <2>1 DEF Thread
<1>4. DOMAIN threads' = DOMAIN threads /\ threads' \in Seq(Thread) /\ Len(threads') = Len(threads)
  <2>1. threads' \in [1..Len(threads) -> Thread]
    BY <1>1, <1>2, <1>3
  <2>. QED BY <1>2, <2>1
<1>5. TypeOK'
  <2>1. silences' \in Nat
    BY <1>1, <1>2
  <2>2. threads' \in Seq([open : BOOLEAN, stale : BOOLEAN,
                          lines : Seq([role : {"user", "assistant"}, msg : Message, asked : Message])])
    BY <1>4 DEF Thread, LineSet
  <2>3. UNCHANGED <<scenario, proc, pending, call, enabled, replies, sent, faults, dropped, overlapped>>
    BY <1>1 DEF history
  <2>. HIDE DEF Silence
  <2>. QED BY <2>1, <2>2, <2>3 DEF IInv, TypeOK, Idle
<1>6. Open' = Open
  BY <1>3, <1>4 DEF Open
<1>7. ASSUME NEW q \in Process, NEW n \in Message PROVE CallOK(q, n)'
  <2>1. CallOK(q, n)
    BY DEF IInv, CallsOK
  <2>2. At(q, n, {"read", "model", "store"}) => Lines(q, n)' = Lines(q, n)
    BY <1>1, <1>3, <2>1 DEF CallOK, Has, At, Lines
  <2>3. /\ Has(q, n)' <=> Has(q, n)
        /\ Works(q, n)' <=> Works(q, n)
        /\ IsTurn(n)' <=> IsTurn(n)
        /\ At(q, n, {"read", "model"})' <=> At(q, n, {"read", "model"})
        /\ At(q, n, {"read", "model", "store"})' <=> At(q, n, {"read", "model", "store"})
        /\ Line("user", n, n)' = Line("user", n, n)
    BY <1>1 DEF Has, Works, At, IsTurn, Line
  <2>. QED BY <1>1, <1>4, <2>1, <2>2, <2>3 DEF CallOK, history
<1>8. Alone'
  BY <1>1 DEF IInv, Alone, Works, At, history
<1>9. RepliesFit'
  <2>1. ~overlapped => \A t \in DOMAIN threads : LinesFit(threads'[t].lines)
    BY <1>3, Fit DEF IInv
  <2>. QED BY <1>1, <1>4, <2>1 DEF RepliesFit, LinesFit, history
<1>10. Count'
  BY <1>1, <1>2, <1>4 DEF IInv, Count
<1>. QED BY <1>5, <1>6, <1>7, <1>8, <1>9, <1>10 DEF IInv, CallsOK, OneOpen

LEMMA SendStep ==
  ASSUME IInv, Send
  PROVE  IInv'
<1>1. /\ sent' \in 0..MaxMessages /\ pending' \in SUBSET (Process \X Message)
      /\ UNCHANGED <<scenario, proc, call, threads, enabled, replies, faults, silences, history>>
  <2>1. sent < MaxMessages /\ sent' = sent + 1 /\ sent \in 0..MaxMessages /\ MaxMessages \in Nat
    BY ChannelAssumption DEF Send, IInv, TypeOK
  <2>2. sent + 1 \in Message /\ sent' \in 0..MaxMessages
    BY <2>1 DEF Message
  <2>. QED BY <2>2 DEF Send, IInv, TypeOK
<1>2. TypeOK'
  BY <1>1 DEF IInv, TypeOK, history
<1>. QED BY <1>1, <1>2, CallsEnd DEF history

LEMMA Initially == Init => IInv
<1>. SUFFICES ASSUME Init PROVE IInv
  OBVIOUS
<1>1. TypeOK
  <2>1. threads \in Seq([open : BOOLEAN, stale : BOOLEAN,
                         lines : Seq([role : {"user", "assistant"}, msg : Message, asked : Message])])
    BY DEF Init
  <2>2. call \in [Process -> [Message -> {Idle, [pc |-> "handled"]} \cup
          [pc : Pcs, on : BOOLEAN, thread : Nat, asked : Message, again : BOOLEAN, wrote : BOOLEAN]]]
    BY DEF Init
  <2>3. sent \in 0..MaxMessages /\ faults \in Nat /\ silences \in Nat
    BY ChannelAssumption DEF Init
  <2>4. /\ scenario \in Scenarios /\ pending \in SUBSET (Process \X Message)
        /\ proc \in [Process -> {"off", "listening", "asleep", "mute", "stopped"}]
        /\ enabled \in BOOLEAN /\ overlapped \in BOOLEAN
        /\ replies \in SUBSET Message /\ dropped \in SUBSET Message
    BY DEF Init
  <2>. QED BY <2>1, <2>2, <2>3, <2>4 DEF TypeOK
<1>2. \A p \in Process, m \in Message : call[p][m].pc = "idle"
  BY DEF Init, Idle
<1>3. Len(threads) = 0 /\ DOMAIN threads = {} /\ silences = 0
  BY DEF Init
<1>4. CallsOK /\ Alone
  BY <1>2 DEF CallsOK, CallOK, Has, Works, At, Alone
<1>5. OneOpen /\ Count /\ RepliesFit
  BY <1>3 DEF OneOpen, Open, Count, Owed, RepliesFit
<1>. QED BY <1>1, <1>4, <1>5 DEF IInv

LEMMA Steps == IInv /\ [Next]_vars => IInv'
<1>. SUFFICES ASSUME IInv, [Next]_vars PROVE IInv'
  OBVIOUS
<1>1. CASE UNCHANGED vars
  <2>1. TypeOK'
    BY <1>1 DEF IInv, TypeOK, vars, counts, history
  <2>. QED BY <1>1, <2>1, CallsEnd DEF vars, counts, history
<1>2. CASE Next
  BY <1>2, SendStep, SilenceStep, ProcessSteps, ReceiveStep, EndSteps, QuietSteps, CloseStep,
     InsertStep, CommandStep, AppendUserStep, ReadLinesStep, AppendAssistantStep DEF Next, Handler
<1>. QED BY <1>1, <1>2

LEMMA Invariant == Spec => []IInv
BY Initially, Steps, PTL DEF Spec

-----------------------------------------------------------------------------
(* chat/history.ts, openChannelThread: a silence starts one thread at most,  *)
(* whatever overlaps.                                                        *)
THEOREM OneThreadPerSilence == Spec => []NoFork
<1>1. IInv => NoFork
  BY DEF IInv, Count, NoFork, TypeOK
<1>. QED BY <1>1, Invariant, PTL

(* chat/turn.ts, handleIncoming: handlers that come one at a time leave each *)
(* reply under the message it was made for.                                  *)
THEOREM RepliesStayFit == Spec => []RepliesFit
<1>1. IInv => RepliesFit
  BY DEF IInv
<1>. QED BY <1>1, Invariant, PTL

(* The tool is called where the model runs, by a handler that has it.        *)
LEMMA Elsewhere ==
  ASSUME TypeOK, NEW p \in Process, NEW m \in Message, NEW q \in Process, NEW n \in Message,
         Remembering(p, m), NEW from, NEW to, Step(q, n, from, to)
  PROVE  q = p /\ n = m /\ from = "model" /\ to.pc = "model" /\ to.wrote
<1>1. /\ call[q][n].pc = from /\ call'[q][n] = to
      /\ q # p \/ n # m => call'[p][m] = call[p][m]
  BY StepCalls
<1>. QED BY <1>1 DEF Remembering, At

LEMMA WentOn ==
  ASSUME TypeOK, NEW p \in Process, NEW m \in Message, NEW q \in Process, NEW n \in Message,
         Remembering(p, m), NEW from, NEW pc, Go(q, n, from, pc)
  PROVE  from = "model" /\ pc = "model"
<1>. DEFINE to == [call[q][n] EXCEPT !.pc = pc]
<1>1. Step(q, n, from, to)
  BY DEF Go
<1>2. call[p][m] \in Working1
  BY Typed DEF Remembering, Works, At
<1>3. q = p /\ n = m => to.pc = pc
  BY <1>2 DEF Working1
<1>. HIDE DEF to
<1>. QED BY <1>1, <1>3, Elsewhere

LEMMA HasTheTool ==
  ASSUME TypeOK, NEW p \in Process, NEW m \in Message, Remembering(p, m),
         NEW q \in Process, NEW n \in Message, Handler(q, n)
  PROVE  call[p][m].on
<1>1. CASE Refuse(q, n) \/ Close(q, n) \/ Command(q, n) \/ AppendUser(q, n)
           \/ ModelAnswers(q, n) \/ AppendAssistant(q, n)
  BY <1>1, WentOn DEF Refuse, Close, Command, AppendUser, ModelAnswers, AppendAssistant
<1>2. CASE FindOpen(q, n) \/ Insert(q, n) \/ FindAgain(q, n) \/ ReadLines(q, n)
  <2>1. ASSUME NEW from, NEW pc, Go(q, n, from, pc), from # "model" PROVE FALSE
    BY <2>1, WentOn
  <2>2. ASSUME NEW from, NEW to, Step(q, n, from, to), from # "model" PROVE FALSE
    BY <2>2, Elsewhere
  <2>3. CASE FindOpen(q, n)
    BY <2>1, <2>2, <2>3 DEF FindOpen, InThread
  <2>4. CASE Insert(q, n)
    BY <2>1, <2>2, <2>4 DEF Insert, InThread
  <2>5. CASE FindAgain(q, n)
    BY <2>1, <2>2, <2>5 DEF FindAgain, InThread
  <2>6. CASE ReadLines(q, n)
    BY <2>2, <2>6 DEF ReadLines
  <2>. QED BY <1>2, <2>3, <2>4, <2>5, <2>6
<1>3. CASE Remember(q, n)
  BY <1>3, Elsewhere DEF Remember
<1>4. CASE ModelFails(q, n)
  <2>1. CASE Go(q, n, "model", "say")
    BY <2>1, WentOn
  <2>2. CASE Step(q, n, "model", [call[q][n] EXCEPT !.again = TRUE, !.wrote = FALSE])
    <3>. DEFINE to == [call[q][n] EXCEPT !.again = TRUE, !.wrote = FALSE]
    <3>1. call[p][m] \in Working1
      BY Typed DEF Remembering, Works, At
    <3>2. q = p /\ n = m => ~to.wrote
      BY <3>1 DEF Working1
    <3>3. Step(q, n, "model", to)
      BY <2>2
    <3>. HIDE DEF to
    <3>. QED BY <3>2, <3>3, Elsewhere
  <2>. QED BY <1>4, <2>1, <2>2 DEF ModelFails
<1>5. CASE Reply(q, n)
  <2>1. At(q, n, {"say"}) /\ (q # p \/ n # m => call'[p][m] = call[p][m])
    BY <1>5, Typed DEF Reply
  <2>. QED BY <2>1 DEF Remembering, At
<1>. QED BY <1>1, <1>2, <1>3, <1>4, <1>5 DEF Handler

LEMMA OnlyWithTheTool ==
  ASSUME TypeOK, [Next]_vars, NEW p \in Process, NEW m \in Message, Remembering(p, m)
  PROVE  call[p][m].on
<1>1. call'[p][m] # call[p][m] /\ call'[p][m].pc = "model"
  BY DEF Remembering
<1>2. ASSUME NEW q \in Process, NEW mode, Become(q, mode) PROVE FALSE
  <2>1. call' = [call EXCEPT ![q] = [n \in Message |-> Idle]] /\ call \in [Process -> [Message -> Calls]]
    BY <1>2, Typed DEF Become
  <2>2. call'[p][m] = call[p][m] \/ call'[p][m] = Idle
    BY <2>1
  <2>. QED BY <1>1, <2>2 DEF Idle
<1>3. ASSUME NEW q \in Process, NEW n \in Message, Receive(q, n) \/ Confirm(q, n) PROVE FALSE
  <2>1. \/ call' = [call EXCEPT ![q][n] = Idle]
        \/ call' = [call EXCEPT ![q][n] = [pc |-> "gate", on |-> enabled, thread |-> 0, asked |-> n,
                                          again |-> FALSE, wrote |-> FALSE]]
    BY <1>3 DEF Receive, Confirm
  <2>2. call'[p][m] = call[p][m] \/ call'[p][m].pc \in {"idle", "gate"}
    BY <2>1, Typed DEF Idle
  <2>. QED BY <1>1, <2>2
<1>4. ASSUME Send \/ Silence \/ UNCHANGED vars PROVE FALSE
  BY <1>1, <1>4 DEF Send, Silence, vars
<1>5. ASSUME NEW q \in Process, Start(q) \/ Conflict(q) \/ Wake(q) \/ Stop(q) \/ Crash(q) PROVE FALSE
  BY <1>2, <1>5 DEF Start, Conflict, Wake, Stop, Crash
<1>. QED BY <1>3, <1>4, <1>5, HasTheTool DEF Next

(* chat/turn.ts and core's tools: no handler that comes alone remembers      *)
(* after /memory off.                                                        *)
THEOREM OffStaysObeyed == Spec => OffIsObeyed
<1>. DEFINE Obeyed == \A p \in Process, m \in Message : Remembering(p, m) /\ ~overlapped => enabled
<1>1. ASSUME IInv, [Next]_vars PROVE Obeyed
  <2>. SUFFICES ASSUME NEW p \in Process, NEW m \in Message, Remembering(p, m), ~overlapped
                PROVE  enabled
    OBVIOUS
  <2>1. /\ call[p][m].pc = "model" /\ ~call[p][m].wrote
        /\ call'[p][m].pc = "model" /\ call'[p][m].wrote
    BY DEF Remembering, At
  <2>2. CallOK(p, m) /\ Works(p, m) /\ IsTurn(m)
    BY <1>1, <2>1 DEF IInv, CallsOK, CallOK, Works, At
  <2>3. call[p][m].on = enabled
    BY <2>2 DEF CallOK
  <2>4. call[p][m].on
    BY <1>1, OnlyWithTheTool DEF IInv
  <2>. QED BY <2>3, <2>4
<1>. QED BY <1>1, Invariant, PTL DEF Spec, OffIsObeyed
=============================================================================
