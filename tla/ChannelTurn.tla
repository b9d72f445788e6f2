----------------------------- MODULE ChannelTurn ------------------------------
(***************************************************************************)
(* One person on one chat platform: apps/server/src/channels, the          *)
(* handleIncoming of chat/turn.ts, openChannelThread of chat/history.ts    *)
(* and completeTurn of packages/core/src/agent.ts.  A deploy runs two      *)
(* processes side by side.  Telegram hands an update to whichever process  *)
(* asks, and again until it is confirmed, and a process handles one at a   *)
(* time; Discord and Slack push an event, once, to a connected process,    *)
(* which handles any number at once.  A step is what the code does between *)
(* two awaits.                                                             *)
(***************************************************************************)
EXTENDS Naturals, FiniteSets, Sequences, SequencesExt

CONSTANTS
  Process, Old, (* the server's processes, and the one that a deploy stops    *)
  MaxMessages,  (* the person's messages are 1..MaxMessages, as they are sent  *)
  MaxCalls,     (* bound: handlers at work at once                            *)
  Scenarios     (* the platform ("poll": Telegram, "push": Discord, Slack);   *)
                (* what the messages say (a "turn", or the commands "on" and  *)
                (* "off"); bounds on the faults and the long silences         *)

Message == 1..MaxMessages

ASSUME ChannelAssumption ==
  /\ {MaxMessages, MaxCalls} \subseteq Nat
  /\ Old \in Process
  /\ Scenarios \subseteq [platform : {"poll", "push"}, kind : [Message -> {"turn", "on", "off"}],
                         faults : Nat, silences : Nat]

VARIABLES
  scenario,     (* fixed at the start                                         *)
  proc,         (* the adapter of each process                                *)
  pending,      (* what the platform has yet to hand out, or to see confirmed *)
  call,         (* the handler of each message in each process                *)
  threads,      (* the conversations of this thread key, oldest first         *)
  enabled,      (* people.memory_enabled                                      *)
  replies,      (* messages the person has seen a reply to                    *)
  sent, faults, silences,
  dropped,      (* history: messages whose handler a shutdown cut off, or     *)
                (* whose reply the platform would not take                    *)
  overlapped    (* history: two handlers were at work at once                 *)

Polls   == scenario.platform = "poll"
counts  == <<sent, faults, silences>>
history == <<dropped, overlapped>>
vars == <<scenario, proc, pending, call, threads, enabled, replies, counts, history>>

Idle == [pc |-> "idle"]
At(p, m, pcs) == call[p][m].pc \in pcs
Busy    == {b \in Process \X Message : ~At(b[1], b[2], {"idle"})}
Working == {b \in Busy : ~At(b[1], b[2], {"handled"})}
Running(p) == proc[p] \in {"listening", "asleep", "mute"}
Open    == {t \in DOMAIN threads : threads[t].open}
Line(role, m, asked) == [role |-> role, msg |-> m, asked |-> asked]
IsTurn(m) == scenario.kind[m] = "turn"

Fault   == faults < scenario.faults /\ faults' = faults + 1 /\ UNCHANGED <<sent, silences>>
NoFault == UNCHANGED counts

-----------------------------------------------------------------------------
(* The process and the platform.                                             *)
Become(p, mode) ==
  /\ proc' = [proc EXCEPT ![p] = mode]
  /\ call' = [call EXCEPT ![p] = [m \in Message |-> Idle]]
  /\ UNCHANGED <<scenario, threads, enabled, replies, overlapped>>

(* start of the adapter: setMyCommands, and only if that succeeds keepPolling. *)
Start(p) ==
  /\ proc[p] = "off"
  /\ \/ Become(p, "listening") /\ NoFault
     \/ Become(p, "mute") /\ Fault
  /\ UNCHANGED <<pending, dropped>>

(* keepPolling: getUpdates answers 409 while another process polls, the loop *)
(* sleeps and starts again.  An update handled and not confirmed will come   *)
(* again.                                                                    *)
Conflict(p) ==
  /\ Polls /\ proc[p] = "listening"
  /\ \E q \in Process \ {p} : proc[q] = "listening"
  /\ \A m \in Message : At(p, m, {"idle", "handled"})
  /\ Become(p, "asleep") /\ Fault
  /\ UNCHANGED <<pending, dropped>>

(* Mutant: the loop ends with the error.                                     *)
Wake_Never(p) == proc[p] = "asleep" /\ UNCHANGED vars

Wake(p) ==
  /\ proc[p] = "asleep"
  /\ Become(p, "listening") /\ NoFault
  /\ UNCHANGED <<pending, dropped>>

(* shutdown: bot.stop() confirms the update in hand and process.exit does    *)
(* not wait for its handler; a push platform drops the connection.           *)
Forsaken(p) == {m \in Message : <<p, m>> \in Working}

Stop(p) ==
  /\ p = Old /\ Running(p)
  /\ \E q \in Process \ {p} : Running(q)
  /\ Become(p, "stopped") /\ NoFault
  /\ pending' = {e \in pending : e[1] # p /\ (Polls => <<p, e[2]>> \notin Busy)}
  /\ dropped' = dropped \cup Forsaken(p)

(* The process dies, and is started again.  What was pushed to it is gone.   *)
Crash(p) ==
  /\ Running(p)
  /\ Become(p, "off") /\ Fault
  /\ pending' = IF Polls THEN pending ELSE {e \in pending : e[1] # p}
  /\ UNCHANGED dropped

(* The person writes: an update for whoever asks, or an event to those       *)
(* connected.                                                                *)
Send ==
  /\ sent < MaxMessages
  /\ sent' = sent + 1
  /\ pending' = pending \cup
       ({p \in Process : IF Polls THEN proc[p] # "stopped" ELSE proc[p] = "listening"}
          \X {sent + 1})
  /\ UNCHANGED <<scenario, proc, call, threads, enabled, replies, faults, silences, history>>

(* More than six hours pass since anything was said in the open thread.      *)
Silence ==
  /\ silences < scenario.silences
  /\ \E t \in Open : ~threads[t].stale
  /\ silences' = silences + 1
  /\ threads' = [t \in DOMAIN threads |-> [threads[t] EXCEPT !.stale = TRUE]]
  /\ UNCHANGED <<scenario, proc, pending, call, enabled, replies, sent, faults, history>>

(* The handler starts: resolvePerson reads the memory switch once, for the   *)
(* whole message.                                                            *)
Receive(p, m) ==
  /\ proc[p] = "listening" /\ <<p, m>> \in pending /\ At(p, m, {"idle"})
  /\ Cardinality(Working) < MaxCalls
  /\ Polls => /\ \A n \in Message : At(p, n, {"idle"})
                          /\ \A e \in pending : m <= e[2]
  /\ call' = [call EXCEPT ![p][m] =
       [pc |-> "gate", on |-> enabled, thread |-> 0, asked |-> m, again |-> FALSE, wrote |-> FALSE]]
  /\ pending' = IF Polls THEN pending ELSE pending \ {<<p, m>>}
  /\ overlapped' = (overlapped \/ Working # {})
  /\ UNCHANGED <<scenario, proc, threads, enabled, replies, counts, dropped>>

(* The next getUpdates confirms what was handled.                            *)
Confirm(p, m) ==
  /\ At(p, m, {"handled"}) /\ proc[p] = "listening"
  /\ pending' = {e \in pending : e[2] # m}
  /\ call' = [call EXCEPT ![p][m] = Idle]
  /\ UNCHANGED <<scenario, proc, threads, enabled, replies, counts, history>>

-----------------------------------------------------------------------------
(* handleIncoming.                                                           *)
Step(p, m, from, to) ==
  /\ At(p, m, {from})
  /\ call' = [call EXCEPT ![p][m] = to]
  /\ UNCHANGED <<scenario, proc, pending, replies, history>>
Go(p, m, from, pc) == Step(p, m, from, [call[p][m] EXCEPT !.pc = pc])
InThread(p, m, from, t) == Step(p, m, from, [call[p][m] EXCEPT !.pc = "command", !.thread = t])
Quiet == UNCHANGED <<threads, enabled>>

(* Too long, over the rate, or the database refuses: a reply and no more.    *)
Refuse(p, m) ==
  /\ At(p, m, {"gate", "close", "insert", "again", "command", "place", "read"})
  /\ Go(p, m, call[p][m].pc, "say")
  /\ Fault /\ Quiet

(* openChannelThread: find the open thread; close it when it is stale.       *)
FindOpen(p, m) ==
  /\ \/ \E t \in Open : ~threads[t].stale /\ InThread(p, m, "gate", t)
     \/ \E t \in Open : threads[t].stale
          /\ Step(p, m, "gate", [call[p][m] EXCEPT !.pc = "close", !.thread = t])
     \/ Open = {} /\ Go(p, m, "gate", "insert")
  /\ NoFault /\ Quiet

(* Mutant: whichever thread is open by now is closed.                        *)
Close_Open(p, m) ==
  /\ threads' = [t \in DOMAIN threads |-> [threads[t] EXCEPT !.open = FALSE]]
  /\ Go(p, m, "close", "insert")
  /\ NoFault /\ UNCHANGED enabled

Close(p, m) ==
  /\ At(p, m, {"close"})
  /\ threads' = [threads EXCEPT ![call[p][m].thread].open = FALSE]
  /\ Go(p, m, "close", "insert")
  /\ NoFault /\ UNCHANGED enabled

(* One open row per key: an insert that loses looks again.                   *)
Insert(p, m) ==
  /\ \/ /\ Open = {}
        /\ threads' = Append(threads, [open |-> TRUE, stale |-> FALSE, lines |-> <<>>])
        /\ InThread(p, m, "insert", Len(threads'))
     \/ Open # {} /\ Go(p, m, "insert", "again") /\ UNCHANGED threads
  /\ NoFault /\ UNCHANGED enabled

FindAgain(p, m) ==
  /\ \/ \E t \in Open : InThread(p, m, "again", t)
     \/ Open = {} /\ Go(p, m, "again", "say")
  /\ NoFault /\ Quiet

(* handleCommand: a command does its work before its words are stored.       *)
Command(p, m) ==
  /\ Go(p, m, "command", "place")
  /\ enabled' = IF IsTurn(m) THEN enabled ELSE scenario.kind[m] = "on"
  /\ NoFault /\ UNCHANGED threads

Lines(p, m) == threads[call[p][m].thread].lines
Write(p, m, lines) ==
  threads' = [threads EXCEPT ![call[p][m].thread].lines = lines, ![call[p][m].thread].stale = FALSE]

(* appendUser, without a client id: every delivery is a line of its own.     *)
AppendUser(p, m) ==
  /\ At(p, m, {"place"})
  /\ Write(p, m, Append(Lines(p, m), Line("user", m, m)))
  /\ Go(p, m, "place", IF IsTurn(m) THEN "read" ELSE "store")
  /\ NoFault /\ UNCHANGED enabled

(* modelMessages: the newest turn is the question the model is asked.        *)
(* Mutant: the oldest is.                                                    *)
Turns(lines) == {k \in DOMAIN lines : lines[k].role = "user" /\ IsTurn(lines[k].msg)}
Question_Oldest(lines) == {k \in Turns(lines) : \A j \in Turns(lines) : k <= j}
Question(lines) == {k \in Turns(lines) : \A j \in Turns(lines) : j <= k}

ReadLines(p, m) ==
  /\ At(p, m, {"read"})
  /\ \E k \in Question(Lines(p, m)) :
       Step(p, m, "read", [call[p][m] EXCEPT !.pc = "model", !.asked = Lines(p, m)[k].msg])
  /\ NoFault /\ Quiet

(* The model calls the remember tool, which it has only when the switch was  *)
(* on.  Mutant: it always has it.                                            *)
Remember_Always(p, m) ==
  /\ At(p, m, {"model"}) /\ ~call[p][m].wrote
  /\ Step(p, m, "model", [call[p][m] EXCEPT !.wrote = TRUE])
  /\ NoFault /\ Quiet

Remember(p, m) ==
  /\ At(p, m, {"model"}) /\ call[p][m].on /\ ~call[p][m].wrote
  /\ Step(p, m, "model", [call[p][m] EXCEPT !.wrote = TRUE])
  /\ NoFault /\ Quiet

ModelAnswers(p, m) == Go(p, m, "model", "store") /\ NoFault /\ Quiet

(* completeTurn: when the first model fails the second runs the turn again,  *)
(* tools included; when that fails, or there is none, an apology is all.     *)
ModelFails(p, m) ==
  /\ At(p, m, {"model"})
  /\ \/ /\ ~call[p][m].again
        /\ Step(p, m, "model", [call[p][m] EXCEPT !.again = TRUE, !.wrote = FALSE])
     \/ Go(p, m, "model", "say")
  /\ Fault /\ Quiet

(* appendAssistant: not after another answer.  A refused insert is logged    *)
(* and swallowed.                                                            *)
AppendAssistant(p, m) ==
  /\ At(p, m, {"store"})
  /\ Go(p, m, "store", "say")
  /\ \/ /\ NoFault
        /\ IF Last(Lines(p, m)).role = "assistant"
             THEN UNCHANGED threads
             ELSE Write(p, m, Append(Lines(p, m), Line("assistant", m, call[p][m].asked)))
     \/ Fault /\ UNCHANGED threads
  /\ UNCHANGED enabled

(* The adapter sends the reply, or, when sending it fails, an apology, or    *)
(* that fails too.                                                           *)
Reply(p, m) ==
  /\ At(p, m, {"say"})
  /\ \/ replies' = replies \cup {m} /\ NoFault /\ UNCHANGED dropped
     \/ dropped' = dropped \cup {m} /\ Fault /\ UNCHANGED replies
  /\ call' = [call EXCEPT ![p][m] = IF Polls THEN [pc |-> "handled"] ELSE Idle]
  /\ UNCHANGED <<scenario, proc, pending, threads, enabled, overlapped>>

Handler(p, m) ==
  \/ Refuse(p, m) \/ FindOpen(p, m) \/ Close(p, m) \/ Insert(p, m) \/ FindAgain(p, m)
  \/ Command(p, m) \/ AppendUser(p, m) \/ ReadLines(p, m) \/ Remember(p, m)
  \/ ModelAnswers(p, m) \/ ModelFails(p, m) \/ AppendAssistant(p, m) \/ Reply(p, m)

-----------------------------------------------------------------------------
Init ==
  /\ scenario \in Scenarios
  /\ proc = [p \in Process |-> "off"] /\ pending = {}
  /\ call = [p \in Process |-> [m \in Message |-> Idle]]
  /\ threads = <<>> /\ enabled = TRUE
  /\ replies = {}
  /\ sent = 0 /\ faults = 0 /\ silences = 0
  /\ dropped = {} /\ overlapped = FALSE

Next ==
  \/ Send \/ Silence
  \/ \E p \in Process : Start(p) \/ Conflict(p) \/ Wake(p) \/ Stop(p) \/ Crash(p)
  \/ \E p \in Process, m \in Message : Receive(p, m) \/ Confirm(p, m) \/ Handler(p, m)

(* A process that is down is started, a sleep ends, what the platform holds  *)
(* is asked for, and every await of a handler returns or throws.             *)
Fairness == \A p \in Process :
  /\ WF_vars(Start(p)) /\ WF_vars(Wake(p))
  /\ WF_vars(\E m \in Message : Receive(p, m))
  /\ \A m \in Message : WF_vars(Handler(p, m)) /\ WF_vars(Confirm(p, m))

Spec == Init /\ [][Next]_vars /\ Fairness

-----------------------------------------------------------------------------
Pcs == {"gate", "close", "insert", "again", "command", "place", "read", "model", "store", "say"}

TypeOK ==
  /\ scenario \in Scenarios
  /\ proc \in [Process -> {"off", "listening", "asleep", "mute", "stopped"}]
  /\ pending \in SUBSET (Process \X Message)
  /\ call \in [Process -> [Message -> {Idle, [pc |-> "handled"]} \cup
        [pc : Pcs, on : BOOLEAN, thread : Nat, asked : Message, again : BOOLEAN, wrote : BOOLEAN]]]
  /\ threads \in Seq([open : BOOLEAN, stale : BOOLEAN,
                      lines : Seq([role : {"user", "assistant"}, msg : Message, asked : Message])])
  /\ enabled \in BOOLEAN
  /\ replies \in SUBSET Message /\ dropped \in SUBSET Message
  /\ sent \in 0..MaxMessages /\ faults \in Nat /\ silences \in Nat
  /\ overlapped \in BOOLEAN

(***************************************************************************)
(* openChannelThread: however deliveries overlap, and whichever thread     *)
(* each of them has found, a silence starts at most one new thread.        *)
(***************************************************************************)
NoFork == Len(threads) <= 1 + silences

(***************************************************************************)
(* The transcript the next turn is shown: as long as handlers came one at  *)
(* a time, every stored reply stands right after the message it replies    *)
(* to, and was made for it, through crashes, redeliveries and failures.    *)
(***************************************************************************)
RepliesFit ==
  ~overlapped => \A t \in DOMAIN threads : LET lines == threads[t].lines IN
    \A k \in DOMAIN lines : lines[k].role = "assistant" =>
      /\ k > 1 /\ lines[k - 1].role = "user"
      /\ lines[k].msg = lines[k - 1].msg /\ lines[k].asked = lines[k].msg

(***************************************************************************)
(* A message sent on Telegram is replied to, unless the deploy shut the    *)
(* process down in the middle of it, the platform would take no reply, or  *)
(* no process got as far as polling.                                       *)
(***************************************************************************)
Unserved == \A p \in Process : proc[p] \in {"mute", "stopped"}
EveryMessageReplied == Polls =>
  \A m \in Message : sent >= m ~> m \in replies \cup dropped \/ Unserved

(***************************************************************************)
(* /memory off is obeyed by every message handled after it, when handlers  *)
(* come one at a time.                                                     *)
(***************************************************************************)
Remembering(p, m) ==
  /\ At(p, m, {"model"}) /\ ~call[p][m].wrote
  /\ call'[p][m].pc = "model" /\ call'[p][m].wrote
OffIsObeyed ==
  [][\A p \in Process, m \in Message : Remembering(p, m) /\ ~overlapped => enabled]_vars

(* What it says (chat/commands.ts: "Memory off. I will not read or write     *)
(* memory until you run /memory on.").  A turn already under way has read    *)
(* the switch before.                                                        *)
OffMeansOff == [][\A p \in Process, m \in Message : Remembering(p, m) => enabled]_vars
=============================================================================
