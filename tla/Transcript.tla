------------------------------ MODULE Transcript ------------------------------
(***************************************************************************)
(* One web conversation (apps/server/src/chat/history.ts and the           *)
(* POST /api/chat handler of routes/chat.ts).  Several requests for it may *)
(* be in progress: two tabs, a request delivered twice, or a retry sent    *)
(* while the server is still at work on the one that was stopped.          *)
(* appendUser and appendAssistant lock the conversation's row, so each is  *)
(* one step; everything else a request reads comes from an earlier step.   *)
(* The log is in the order of seq, and a line of it names the question it  *)
(* is, or the question it answers.                                         *)
(***************************************************************************)
EXTENDS Naturals, FiniteSets, Sequences, SequencesExt

CONSTANTS
  Questions,    (* client ids of user messages                                *)
  Calls,        (* requests in progress at one time                           *)
  MaxVersion,   (* bound: times a question's text is edited                   *)
  MaxDeletes    (* bound: times the conversation is deleted                   *)

ASSUME TranscriptAssumption == MaxVersion \in Nat /\ MaxDeletes \in Nat

VARIABLES
  exists,       (* the conversations row                                      *)
  log,          (* its messages, oldest first                                 *)
  call,         (* the requests in progress                                   *)
  deletes,      (* history: deletions so far                                  *)
  replayed,     (* history: pairs of the question asked and the question of   *)
                (* the stored answer that was replayed for it                 *)
  inTurn        (* history: no two requests were ever in progress at once     *)

vars == <<exists, log, call, deletes, replayed, inTurn>>

Asked == [q : Questions, version : 0..MaxVersion]

NoCall == [pc |-> "idle"]
Request(pc, asked, regenerate) ==
  [pc |-> pc, asked |-> asked, regenerate |-> regenerate]

Line(role, about, chat) == [role |-> role, about |-> about, chat |-> chat]

At(q)       == {k \in DOMAIN log : log[k].role = "user" /\ log[k].about.q = q}
AnswersPast(k) == {n \in DOMAIN log : n > k /\ log[n].role = "assistant"}
Return(c)   == call' = [call EXCEPT ![c] = NoCall]

-----------------------------------------------------------------------------
(* claimWebConversation: the row is made when it is not there, which it is   *)
(* not for a first message, and not after a delete either.  Only a           *)
(* regenerate brings a text other than the one first sent.                   *)
Claim(c, asked, regenerate) ==
  /\ call[c] = NoCall
  /\ regenerate \/ asked.version = 0
  /\ exists' = TRUE
  /\ call' = [call EXCEPT ![c] = Request(IF regenerate THEN "place" ELSE "look", asked, regenerate)]
  /\ inTurn' = (inTurn /\ \A d \in Calls : call[d] = NoCall)
  /\ UNCHANGED <<log, deletes, replayed>>

(* The first answer after the stored question, if any, is the reply.         *)
Replay(c) ==
  \E k \in At(call[c].asked.q) : \E n \in AnswersPast(k) :
    /\ \A m \in AnswersPast(k) : n <= m
    /\ replayed' = replayed \cup {<<call[c].asked.q, log[n].about.q>>}
    /\ Return(c)
    /\ UNCHANGED <<exists, log, deletes, inTurn>>

Answered(q) == \E k \in At(q) : AnswersPast(k) # {}

(* storedAnswer, outside the transaction.                                    *)
StoredAnswer(c) ==
  /\ call[c].pc = "look"
  /\ \/ Replay(c)
     \/ /\ ~Answered(call[c].asked.q)
        /\ call' = [call EXCEPT ![c].pc = "place"]
        /\ UNCHANGED <<exists, log, deletes, replayed, inTurn>>

(* appendUser.                                                               *)
Placed(c, newLog) ==
  /\ exists
  /\ log' = newLog
  /\ call' = [call EXCEPT ![c].pc = "read"]
  /\ UNCHANGED <<exists, deletes, replayed, inTurn>>

Missing(c) ==
  /\ ~exists
  /\ Return(c)
  /\ UNCHANGED <<exists, log, deletes, replayed, inTurn>>

(* Mutant: the client id is not looked up.                                   *)
NewLine_Always(c) == Placed(c, Append(log, Line("user", call[c].asked, deletes)))

NewLine(c) ==
  /\ At(call[c].asked.q) = {}
  /\ Placed(c, Append(log, Line("user", call[c].asked, deletes)))

(* A regenerate rewrites the stored line and deletes every line after it.    *)
(* Mutant: the lines after it stay.                                          *)
Rewrite_KeepsRest(c) ==
  /\ call[c].regenerate
  /\ \E k \in At(call[c].asked.q) :
       Placed(c, [log EXCEPT ![k].about = call[c].asked])

Rewrite(c) ==
  /\ call[c].regenerate
  /\ \E k \in At(call[c].asked.q) :
       Placed(c, Append(SubSeq(log, 1, k - 1), Line("user", call[c].asked, log[k].chat)))

(* Anything else finds the line answered, or still to be answered.           *)
Again(c) ==
  /\ ~call[c].regenerate
  /\ exists
  /\ \/ Replay(c)
     \/ /\ At(call[c].asked.q) # {} /\ ~Answered(call[c].asked.q)
        /\ Placed(c, log)

AppendUser(c) ==
  /\ call[c].pc = "place"
  /\ Missing(c) \/ NewLine(c) \/ Rewrite(c) \/ Again(c)

(* modelMessages: the newest line read is the question being answered.  When *)
(* the conversation was deleted in the meantime the model has nothing to     *)
(* answer, and the stream ends with an error and an empty answer.            *)
ReadLines(c) ==
  /\ call[c].pc = "read"
  /\ call' = [call EXCEPT ![c] =
       [pc |-> "answer", chat |-> deletes,
        about |-> IF log = <<>> THEN call[c].asked ELSE Last(log).about]]
  /\ UNCHANGED <<exists, log, deletes, replayed, inTurn>>

(* onFinish and appendAssistant, when the stream ends: with the whole        *)
(* answer, or with what there is of it when it fails or the page stops it.   *)
Speak(c, dropped) ==
  /\ call[c].pc = "answer"
  /\ log' = IF dropped THEN log
            ELSE Append(log, Line("assistant", call[c].about, call[c].chat))
  /\ Return(c)
  /\ UNCHANGED <<exists, deletes, replayed, inTurn>>

JustAnswered == log # <<>> /\ Last(log).role = "assistant"

(* Mutant: the newest line is not looked at.                                 *)
AppendAssistant_Doubled(c) == Speak(c, ~exists)

AppendAssistant(c) == Speak(c, ~exists \/ JustAnswered)

(* The request ends before it streams: aborted, an error in between, a restart. *)
Abandon(c) ==
  /\ call[c] # NoCall
  /\ Return(c)
  /\ UNCHANGED <<exists, log, deletes, replayed, inTurn>>

(* deleteWebConversation; the messages cascade.  Mutant: they stay.          *)
Delete_RowOnly ==
  /\ exists
  /\ deletes < MaxDeletes
  /\ exists' = FALSE
  /\ deletes' = deletes + 1
  /\ UNCHANGED <<log, call, replayed, inTurn>>

Delete ==
  /\ exists
  /\ deletes < MaxDeletes
  /\ exists' = FALSE
  /\ log' = <<>>
  /\ deletes' = deletes + 1
  /\ UNCHANGED <<call, replayed, inTurn>>

-----------------------------------------------------------------------------
Init ==
  /\ exists = FALSE /\ log = <<>>
  /\ call = [c \in Calls |-> NoCall]
  /\ deletes = 0 /\ replayed = {} /\ inTurn = TRUE

Next ==
  \/ Delete
  \/ \E c \in Calls :
       \/ \E asked \in Asked, regenerate \in BOOLEAN : Claim(c, asked, regenerate)
       \/ StoredAnswer(c) \/ AppendUser(c) \/ ReadLines(c) \/ AppendAssistant(c)
       \/ Abandon(c)

Spec == Init /\ [][Next]_vars

-----------------------------------------------------------------------------
Lines    == [role : {"user", "assistant"}, about : Asked, chat : 0..MaxDeletes]
Requests == [pc : {"look", "place", "read"}, asked : Asked, regenerate : BOOLEAN]
Answers  == [pc : {"answer"}, about : Asked, chat : 0..MaxDeletes]

TypeOK ==
  /\ exists \in BOOLEAN
  /\ log \in Seq(Lines)
  /\ ~exists => log = <<>>
  /\ call \in [Calls -> {NoCall} \cup Requests \cup Answers]
  /\ deletes \in 0..MaxDeletes
  /\ replayed \in SUBSET (Questions \X Questions)
  /\ inTurn \in BOOLEAN

(* A question is in the transcript once and no two answers stand in a row,   *)
(* however requests for it are repeated or overlap (appendUser's lookup of   *)
(* the client id under the row lock; appendAssistant's look at the newest    *)
(* line).                                                                    *)
QuestionOnce == \A q \in Questions : Cardinality(At(q)) <= 1
NoTwoAnswers ==
  \A n \in 1..(Len(log) - 1) : ~(log[n].role = "assistant" /\ log[n + 1].role = "assistant")

(***************************************************************************)
(* An answer stands right after its own question and answers the text the  *)
(* question has now (docs/CHAT-UPGRADE.md: "The replaced answer is the one *)
(* the transcript keeps").                                                 *)
(***************************************************************************)
AnswerFitsQuestion ==
  \A n \in DOMAIN log : log[n].role = "assistant" =>
    /\ n > 1
    /\ log[n - 1].role = "user"
    /\ log[n - 1].about = log[n].about

(* Nothing said before a delete is in the conversation after it              *)
(* (docs/ARCHITECTURE.md: "Deleting a chat removes it from Postgres").       *)
DeletedWordsGone == \A n \in DOMAIN log : log[n].chat = deletes

(***************************************************************************)
(* Both hold as long as no two requests for the conversation were ever in  *)
(* progress at once, wherever each of them stopped and whatever was asked  *)
(* again, edited or deleted in between.  Neither holds without: an answer  *)
(* that comes back late is stored by looking at the newest line only.      *)
(***************************************************************************)
AnswersFitInTurn == inTurn => AnswerFitsQuestion
DeletesHoldInTurn == inTurn => DeletedWordsGone

(* What a repeated request gets replayed is the answer to its own question   *)
(* (routes/reply.ts: "A stored answer replayed as a stream, so a retry does  *)
(* not call the model again").  It is not, when a question that was never    *)
(* answered is asked again after a later one was.                            *)
RetryGetsItsAnswer == \A pair \in replayed : pair[1] = pair[2]
=============================================================================
