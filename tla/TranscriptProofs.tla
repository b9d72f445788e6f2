---------------------------- MODULE TranscriptProofs ----------------------------
(***************************************************************************)
(* Transcript proved for any questions, any number of requests in progress *)
(* at once, and any number of edits and deletes.  What holds of the log    *)
(* whoever overlaps is Once and Spaced.  What holds in turn needs to know  *)
(* that at most one request is in progress, and that from ReadLines on the *)
(* question it answers is still the newest line, unless the conversation   *)
(* was deleted, and then nothing makes it again.  The second part is of    *)
(* the page that shows the transcript (WebChat).                           *)
(***************************************************************************)
EXTENDS Transcript, WebChat, FiniteSetTheorems, SequenceTheorems, TLAPS

Once(l) ==
  \A k, n \in 1..Len(l) :
    l[k].role = "user" /\ l[n].role = "user" /\ l[k].about.q = l[n].about.q => k = n

Spaced(l) ==
  \A n \in 1..(Len(l) - 1) : ~(l[n].role = "assistant" /\ l[n + 1].role = "assistant")

Fit(l) ==
  \A n \in 1..Len(l) : l[n].role = "assistant" =>
    n > 1 /\ l[n - 1].role = "user" /\ l[n - 1].about = l[n].about

Said(l, d) == \A n \in 1..Len(l) : l[n].chat = d

(* The newest line of l is a question.                                       *)
Asks(l) == l # <<>> /\ l[Len(l)].role = "user"

AloneInTurn == \A c, d \in Calls : call[c] # NoCall /\ call[d] # NoCall => c = d

ReadsQuestion == \A c \in Calls : call[c].pc = "read" /\ exists => Asks(log)

AnswersNewest ==
  \A c \in Calls : call[c].pc = "answer" /\ exists =>
    /\ Asks(log)
    /\ log[Len(log)].about = call[c].about
    /\ call[c].chat = deletes

TurnInv == AloneInTurn /\ Fit(log) /\ Said(log, deletes) /\ ReadsQuestion /\ AnswersNewest

IInv == TypeOK /\ Once(log) /\ Spaced(log) /\ (inTurn => TurnInv)

-----------------------------------------------------------------------------
(* A line more at the end.                                                   *)
LEMMA AppendLine ==
  ASSUME NEW l \in Seq(Lines), NEW x \in Lines
  PROVE  /\ Append(l, x) \in Seq(Lines)
         /\ Len(Append(l, x)) = Len(l) + 1
         /\ \A i \in 1..Len(l) : Append(l, x)[i] = l[i]
         /\ Append(l, x)[Len(l) + 1] = x
BY AppendProperties

LEMMA AppendOnce ==
  ASSUME NEW l \in Seq(Lines), NEW x \in Lines, Once(l),
         x.role = "user" =>
           \A k \in 1..Len(l) : ~(l[k].role = "user" /\ l[k].about.q = x.about.q)
  PROVE  Once(Append(l, x))
<1>. DEFINE m == Append(l, x)
<1>1. /\ Len(m) = Len(l) + 1 /\ Len(l) \in Nat
      /\ \A i \in 1..Len(l) : m[i] = l[i]
      /\ m[Len(l) + 1] = x
  BY AppendLine
<1>. HIDE DEF m
<1>2. ASSUME NEW k \in 1..Len(m), NEW n \in 1..Len(m),
             m[k].role = "user", m[n].role = "user", m[k].about.q = m[n].about.q
      PROVE  k = n
  <2>1. CASE k \in 1..Len(l) /\ n \in 1..Len(l)
    BY <1>1, <1>2, <2>1 DEF Once
  <2>2. CASE k = Len(l) + 1 \/ n = Len(l) + 1
    BY <1>1, <1>2, <2>2
  <2>. QED BY <1>1, <2>1, <2>2
<1>. QED BY <1>2 DEF Once, m

LEMMA AppendSpaced ==
  ASSUME NEW l \in Seq(Lines), NEW x \in Lines, Spaced(l),
         x.role = "assistant" => l = <<>> \/ l[Len(l)].role # "assistant"
  PROVE  Spaced(Append(l, x))
<1>. DEFINE m == Append(l, x)
<1>1. /\ Len(m) = Len(l) + 1 /\ Len(l) \in Nat /\ (l = <<>> => Len(l) = 0)
      /\ \A i \in 1..Len(l) : m[i] = l[i]
      /\ m[Len(l) + 1] = x
  BY AppendLine
<1>. HIDE DEF m
<1>. QED BY <1>1 DEF Spaced, m

LEMMA AppendFit ==
  ASSUME NEW l \in Seq(Lines), NEW x \in Lines, Fit(l),
         x.role = "assistant" => Asks(l) /\ l[Len(l)].about = x.about
  PROVE  Fit(Append(l, x))
<1>. DEFINE m == Append(l, x)
<1>1. /\ Len(m) = Len(l) + 1 /\ Len(l) \in Nat /\ (l # <<>> => Len(l) > 0)
      /\ \A i \in 1..Len(l) : m[i] = l[i]
      /\ m[Len(l) + 1] = x
  BY AppendLine
<1>. HIDE DEF m
<1>2. ASSUME NEW n \in 1..Len(m), m[n].role = "assistant"
      PROVE  n > 1 /\ m[n - 1].role = "user" /\ m[n - 1].about = m[n].about
  <2>1. CASE n \in 1..Len(l)
    <3>1. n > 1 /\ l[n - 1].role = "user" /\ l[n - 1].about = l[n].about
      BY <1>1, <1>2, <2>1 DEF Fit
    <3>. QED BY <1>1, <2>1, <3>1
  <2>2. CASE n = Len(l) + 1
    BY <1>1, <1>2, <2>2 DEF Asks
  <2>. QED BY <1>1, <2>1, <2>2
<1>. QED BY <1>2 DEF Fit, m

LEMMA AppendSaid ==
  ASSUME NEW l \in Seq(Lines), NEW x \in Lines, NEW d, Said(l, d), x.chat = d
  PROVE  Said(Append(l, x), d)
BY AppendLine DEF Said

(* What is true of the log is true of what stands before a line of it.       *)
LEMMA Prefix ==
  ASSUME NEW l \in Seq(Lines), NEW k \in 1..Len(l)
  PROVE  /\ SubSeq(l, 1, k - 1) \in Seq(Lines)
         /\ Len(SubSeq(l, 1, k - 1)) = k - 1
         /\ \A i \in 1..(k - 1) : SubSeq(l, 1, k - 1)[i] = l[i]
<1>1. \A i \in 1..(k - 1) : l[i] \in Lines
  BY ElementOfSeq
<1>. QED BY <1>1, SubSeqProperties

LEMMA PrefixKeeps ==
  ASSUME NEW l \in Seq(Lines), NEW k \in 1..Len(l)
  PROVE  /\ Once(l) => Once(SubSeq(l, 1, k - 1))
         /\ Spaced(l) => Spaced(SubSeq(l, 1, k - 1))
         /\ Fit(l) => Fit(SubSeq(l, 1, k - 1))
         /\ \A d : Said(l, d) => Said(SubSeq(l, 1, k - 1), d)
<1>. DEFINE m == SubSeq(l, 1, k - 1)
<1>1. /\ Len(m) = k - 1 /\ \A i \in 1..(k - 1) : m[i] = l[i]
      /\ Len(l) \in Nat
  BY Prefix
<1>. HIDE DEF m
<1>2. Once(l) => Once(m) BY <1>1 DEF Once
<1>3. Spaced(l) => Spaced(m) BY <1>1 DEF Spaced
<1>4. Fit(l) => Fit(m) BY <1>1 DEF Fit
<1>5. \A d : Said(l, d) => Said(m, d) BY <1>1 DEF Said
<1>. QED BY <1>2, <1>3, <1>4, <1>5 DEF m

-----------------------------------------------------------------------------
(* The fields a request has, by how far it has come.                         *)
LEMMA CallFields ==
  ASSUME NEW c \in Calls, TypeOK
  PROVE  /\ call[c] = NoCall <=> call[c].pc = "idle"
         /\ call[c].pc \in {"look", "place", "read"} =>
              call[c] \in Requests /\ call[c].asked \in Asked
         /\ call[c].pc = "answer" =>
              call[c].about \in Asked /\ call[c].chat \in 0..MaxDeletes
<1>1. call[c] \in {NoCall} \cup Requests \cup Answers
  BY DEF TypeOK
<1>2. CASE call[c] = NoCall
  BY <1>2 DEF NoCall
<1>3. CASE call[c] \in Requests
  BY <1>3 DEF Requests, NoCall
<1>4. CASE call[c] \in Answers
  BY <1>4 DEF Answers, NoCall
<1>. QED BY <1>1, <1>2, <1>3, <1>4

(* A request moves on: the others are where they were, and in turn there are *)
(* none.                                                                     *)
LEMMA Moves ==
  ASSUME TypeOK, NEW c \in Calls, NEW r \in {NoCall} \cup Requests \cup Answers,
         call' = [call EXCEPT ![c] = r]
  PROVE  /\ call' \in [Calls -> {NoCall} \cup Requests \cup Answers]
         /\ call'[c] = r
         /\ \A d \in Calls : d # c => call'[d] = call[d]
         /\ call[c] # NoCall /\ AloneInTurn =>
              AloneInTurn' /\ \A d \in Calls : call'[d] # NoCall => d = c
BY DEF TypeOK, AloneInTurn

(* A request that returns leaves nothing to be said of it.                   *)
LEMMA Returns ==
  ASSUME TypeOK, NEW c \in Calls, call[c] # NoCall, Return(c)
  PROVE  /\ call' \in [Calls -> {NoCall} \cup Requests \cup Answers]
         /\ AloneInTurn => AloneInTurn' /\ ReadsQuestion' /\ AnswersNewest'
<1>1. /\ call' \in [Calls -> {NoCall} \cup Requests \cup Answers]
      /\ call'[c] = NoCall
      /\ AloneInTurn => AloneInTurn' /\ \A d \in Calls : call'[d] # NoCall => d = c
  BY Moves DEF Return
<1>2. AloneInTurn => \A d \in Calls : call'[d].pc = "idle"
  BY <1>1 DEF NoCall
<1>. QED BY <1>1, <1>2 DEF ReadsQuestion, AnswersNewest

(* A request on its way to the model, whose question is the newest line.     *)
LEMMA Reads ==
  ASSUME TypeOK, NEW c \in Calls, call[c] # NoCall, NEW r \in Requests,
         call' = [call EXCEPT ![c] = r],
         r.pc = "read" /\ AloneInTurn => Asks(log')
  PROVE  /\ call' \in [Calls -> {NoCall} \cup Requests \cup Answers]
         /\ AloneInTurn => AloneInTurn' /\ ReadsQuestion' /\ AnswersNewest'
<1>1. /\ call' \in [Calls -> {NoCall} \cup Requests \cup Answers]
      /\ call'[c] = r
      /\ AloneInTurn => AloneInTurn' /\ \A d \in Calls : call'[d] # NoCall => d = c
  BY Moves
<1>2. r.pc # "answer"
  BY DEF Requests
<1>3. AloneInTurn => \A d \in Calls : call'[d].pc \in {"read", "answer"} => d = c
  BY <1>1 DEF NoCall
<1>. QED BY <1>1, <1>2, <1>3 DEF ReadsQuestion, AnswersNewest

-----------------------------------------------------------------------------
(* Nothing is there, and nobody asks.                                        *)
LEMMA IInvInit == Init => IInv
<1>. SUFFICES ASSUME Init PROVE IInv
  OBVIOUS
<1>1. log \in Seq(Lines) /\ Len(log) = 0 /\ log = <<>>
  BY DEF Init
<1>2. deletes \in 0..MaxDeletes
  BY TranscriptAssumption DEF Init
<1>3. TypeOK
  BY <1>1, <1>2 DEF Init, TypeOK
<1>4. \A c \in Calls : call[c] = NoCall /\ call[c].pc = "idle"
  BY DEF Init, NoCall
<1>5. TurnInv
  BY <1>1, <1>4 DEF TurnInv, AloneInTurn, Fit, Said, ReadsQuestion, AnswersNewest
<1>6. Once(log) /\ Spaced(log)
  BY <1>1 DEF Once, Spaced
<1>. QED BY <1>3, <1>5, <1>6 DEF IInv

(* A claim is the only step that can bring a second request in.              *)
LEMMA ClaimKeeps ==
  ASSUME IInv, NEW c \in Calls, NEW text \in Asked, NEW regenerate \in BOOLEAN,
         Claim(c, text, regenerate)
  PROVE  IInv'
<1>. DEFINE r == Request(IF regenerate THEN "place" ELSE "look", text, regenerate)
<1>1. r \in Requests /\ r.pc \notin {"read", "answer"}
  BY DEF Request, Requests
<1>2. call' = [call EXCEPT ![c] = r]
  BY DEF Claim
<1>. HIDE DEF r
<1>3. /\ call' \in [Calls -> {NoCall} \cup Requests \cup Answers]
      /\ call'[c] = r
      /\ \A d \in Calls : d # c => call'[d] = call[d]
  BY <1>1, <1>2, Moves DEF IInv
<1>4. TypeOK'
  BY <1>3 DEF IInv, TypeOK, Claim
<1>5. ASSUME inTurn' PROVE TurnInv'
  <2>1. inTurn /\ \A d \in Calls : call[d] = NoCall
    BY <1>5 DEF Claim
  <2>2. \A d \in Calls : d # c => call'[d] = NoCall /\ call'[d].pc = "idle"
    BY <1>3, <2>1 DEF NoCall
  <2>3. Fit(log) /\ Said(log, deletes)
    BY <2>1 DEF IInv, TurnInv
  <2>4. Fit(log)' /\ Said(log, deletes)'
    BY <2>3 DEF Claim
  <2>5. AloneInTurn' /\ ReadsQuestion' /\ AnswersNewest'
    BY <1>1, <1>3, <2>2 DEF AloneInTurn, ReadsQuestion, AnswersNewest
  <2>. QED BY <2>4, <2>5 DEF TurnInv
<1>. QED BY <1>4, <1>5 DEF IInv, Claim

(* A stored answer is replayed, and the request is over.                     *)
LEMMA ReplayKeeps ==
  ASSUME IInv, NEW c \in Calls, call[c].pc \in {"look", "place"}, Replay(c)
  PROVE  IInv'
<1>1. call[c] # NoCall /\ call[c].asked \in Asked
  BY CallFields DEF IInv
<1>2. PICK k \in At(call[c].asked.q) : \E n \in AnswersPast(k) :
        /\ replayed' = replayed \cup {<<call[c].asked.q, log[n].about.q>>}
        /\ Return(c)
        /\ UNCHANGED <<exists, log, deletes, inTurn>>
  BY DEF Replay
<1>3. PICK n \in AnswersPast(k) :
        /\ replayed' = replayed \cup {<<call[c].asked.q, log[n].about.q>>}
        /\ Return(c)
        /\ UNCHANGED <<exists, log, deletes, inTurn>>
  BY <1>2
<1>4. log \in Seq(Lines) /\ DOMAIN log = 1..Len(log) /\ n \in 1..Len(log)
  BY DEF IInv, TypeOK, AnswersPast
<1>6. log[n] \in Lines
  BY <1>4, ElementOfSeq
<1>7. replayed' \in SUBSET (Questions \X Questions)
  BY <1>1, <1>3, <1>6 DEF IInv, TypeOK, Lines, Asked
<1>8. /\ call' \in [Calls -> {NoCall} \cup Requests \cup Answers]
      /\ AloneInTurn => AloneInTurn' /\ ReadsQuestion' /\ AnswersNewest'
  BY <1>1, <1>3, Returns DEF IInv
<1>9. TypeOK'
  BY <1>3, <1>7, <1>8 DEF IInv, TypeOK
<1>. QED BY <1>3, <1>8, <1>9 DEF IInv, TurnInv, Once, Spaced, Fit, Said

(* storedAnswer replays, or lets the request go on.                          *)
LEMMA StoredAnswerKeeps ==
  ASSUME IInv, NEW c \in Calls, StoredAnswer(c)
  PROVE  IInv'
<1>1. CASE Replay(c)
  BY <1>1, ReplayKeeps DEF StoredAnswer
<1>2. CASE /\ call' = [call EXCEPT ![c].pc = "place"]
           /\ UNCHANGED <<exists, log, deletes, replayed, inTurn>>
  <2>. DEFINE r == [call[c] EXCEPT !.pc = "place"]
  <2>1. call[c].pc = "look" /\ call[c] # NoCall /\ call[c] \in Requests
    BY CallFields DEF StoredAnswer, IInv
  <2>2. r \in Requests /\ r.pc = "place"
    BY <2>1 DEF Requests
  <2>3. call' = [call EXCEPT ![c] = r]
    BY <1>2
  <2>. HIDE DEF r
  <2>4. /\ call' \in [Calls -> {NoCall} \cup Requests \cup Answers]
        /\ AloneInTurn => AloneInTurn' /\ ReadsQuestion' /\ AnswersNewest'
    BY <2>1, <2>2, <2>3, Reads DEF IInv
  <2>5. TypeOK'
    BY <1>2, <2>4 DEF IInv, TypeOK
  <2>. QED BY <1>2, <2>4, <2>5 DEF IInv, TurnInv, Once, Spaced, Fit, Said
<1>. QED BY <1>1, <1>2 DEF StoredAnswer

(* What appendUser leaves: a log as sound as it was, with a question newest. *)
LEMMA PlacedKeeps ==
  ASSUME IInv, NEW c \in Calls, call[c].pc = "place",
         NEW l \in Seq(Lines), Placed(c, l),
         Once(l), Spaced(l), inTurn => Fit(l) /\ Said(l, deletes) /\ Asks(l)
  PROVE  IInv'
<1>. DEFINE r == [call[c] EXCEPT !.pc = "read"]
<1>1. call[c] # NoCall /\ call[c] \in Requests
  BY CallFields DEF IInv
<1>2. r \in Requests /\ r.pc = "read"
  BY <1>1 DEF Requests
<1>3. call' = [call EXCEPT ![c] = r]
  BY DEF Placed
<1>. HIDE DEF r
<1>4. log' = l /\ exists /\ UNCHANGED <<exists, deletes, replayed, inTurn>>
  BY DEF Placed
<1>5. call' \in [Calls -> {NoCall} \cup Requests \cup Answers]
  BY <1>1, <1>2, <1>3, Moves DEF IInv
<1>6. TypeOK'
  BY <1>4, <1>5 DEF IInv, TypeOK
<1>7. ASSUME inTurn' PROVE TurnInv'
  <2>1. inTurn /\ AloneInTurn
    BY <1>4, <1>7 DEF IInv, TurnInv
  <2>2. Asks(log')
    BY <1>4, <2>1
  <2>3. AloneInTurn' /\ ReadsQuestion' /\ AnswersNewest'
    BY <1>1, <1>2, <1>3, <2>1, <2>2, Reads DEF IInv
  <2>4. Fit(log') /\ Said(log', deletes')
    BY <1>4, <2>1
  <2>. QED BY <2>3, <2>4 DEF TurnInv, Fit, Said
<1>8. Once(log') /\ Spaced(log')
  BY <1>4
<1>. QED BY <1>6, <1>7, <1>8 DEF IInv, Once, Spaced

LEMMA NewLineKeeps ==
  ASSUME IInv, NEW c \in Calls, call[c].pc = "place", NewLine(c)
  PROVE  IInv'
<1>. DEFINE x == Line("user", call[c].asked, deletes)
<1>1. log \in Seq(Lines) /\ DOMAIN log = 1..Len(log) /\ Len(log) \in Nat
  BY DEF IInv, TypeOK
<1>2. x \in Lines /\ x.role = "user" /\ x.about = call[c].asked /\ x.chat = deletes
  BY CallFields DEF IInv, TypeOK, Lines, Line
<1>3. Placed(c, Append(log, x))
  BY DEF NewLine
<1>4. \A k \in 1..Len(log) : ~(log[k].role = "user" /\ log[k].about.q = x.about.q)
  BY <1>1, <1>2 DEF NewLine, At
<1>. HIDE DEF x
<1>. DEFINE l == Append(log, x)
<1>5. l \in Seq(Lines) /\ Len(l) = Len(log) + 1 /\ l[Len(l)] = x
  BY <1>1, <1>2, AppendLine
<1>6. Once(l)
  BY <1>1, <1>2, <1>4, AppendOnce DEF IInv
<1>7. Spaced(l)
  BY <1>1, <1>2, AppendSpaced DEF IInv
<1>8. inTurn => Fit(l)
  BY <1>1, <1>2, AppendFit DEF IInv, TurnInv
<1>9. inTurn => Said(l, deletes)
  BY <1>1, <1>2, AppendSaid DEF IInv, TurnInv
<1>10. Placed(c, l)
  BY <1>3
<1>. HIDE DEF l
<1>11. Asks(l)
  BY <1>1, <1>2, <1>5 DEF Asks
<1>. QED BY <1>5, <1>6, <1>7, <1>8, <1>9, <1>10, <1>11, PlacedKeeps

LEMMA RewriteKeeps ==
  ASSUME IInv, NEW c \in Calls, call[c].pc = "place", Rewrite(c)
  PROVE  IInv'
<1>1. log \in Seq(Lines) /\ DOMAIN log = 1..Len(log) /\ Len(log) \in Nat
  BY DEF IInv, TypeOK
<1>2. PICK k \in At(call[c].asked.q) :
        Placed(c, Append(SubSeq(log, 1, k - 1), Line("user", call[c].asked, log[k].chat)))
  BY DEF Rewrite
<1>3. k \in 1..Len(log) /\ log[k] \in Lines /\ log[k].role = "user"
      /\ log[k].about.q = call[c].asked.q
  BY <1>1, ElementOfSeq DEF At
<1>. DEFINE x == Line("user", call[c].asked, log[k].chat)
            p == SubSeq(log, 1, k - 1)
<1>4. x \in Lines /\ x.role = "user" /\ x.about = call[c].asked /\ x.chat = log[k].chat
  BY <1>3, CallFields DEF IInv, Lines, Line
<1>5. /\ p \in Seq(Lines) /\ Len(p) = k - 1 /\ \A i \in 1..(k - 1) : p[i] = log[i]
      /\ Once(p) /\ Spaced(p)
      /\ inTurn => Fit(p) /\ Said(p, deletes)
  BY <1>1, <1>3, Prefix, PrefixKeeps DEF IInv, TurnInv
<1>6. inTurn => x.chat = deletes
  BY <1>3, <1>4 DEF IInv, TurnInv, Said
<1>. DEFINE l == Append(p, x)
<1>7. Placed(c, l)
  BY <1>2
<1>. HIDE DEF x, p
<1>8. \A i \in 1..Len(p) : ~(p[i].role = "user" /\ p[i].about.q = x.about.q)
  <2>. SUFFICES ASSUME NEW i \in 1..Len(p), p[i].role = "user", p[i].about.q = x.about.q
                PROVE  FALSE
    OBVIOUS
  <2>1. i \in 1..Len(log) /\ i < k /\ p[i] = log[i]
    BY <1>1, <1>3, <1>5
  <2>2. i = k
    BY <1>3, <1>4, <2>1 DEF IInv, Once
  <2>. QED BY <1>3, <2>1, <2>2
<1>9. l \in Seq(Lines) /\ Len(l) = Len(p) + 1 /\ l[Len(l)] = x /\ Len(p) \in Nat
  BY <1>4, <1>5, AppendLine
<1>10. Once(l)
  BY <1>4, <1>5, <1>8, AppendOnce
<1>11. Spaced(l)
  BY <1>4, <1>5, AppendSpaced
<1>12. inTurn => Fit(l)
  BY <1>4, <1>5, AppendFit
<1>13. inTurn => Said(l, deletes)
  BY <1>4, <1>5, <1>6, AppendSaid
<1>. HIDE DEF l
<1>14. Asks(l)
  BY <1>4, <1>9 DEF Asks
<1>. QED BY <1>7, <1>9, <1>10, <1>11, <1>12, <1>13, <1>14, PlacedKeeps

(* A line nothing answers, and nothing after it does, is followed by         *)
(* questions only.                                                           *)
LEMMA AgainKeeps ==
  ASSUME IInv, NEW c \in Calls, call[c].pc = "place", Again(c)
  PROVE  IInv'
<1>1. CASE Replay(c)
  BY <1>1, ReplayKeeps
<1>2. CASE /\ At(call[c].asked.q) # {} /\ ~Answered(call[c].asked.q)
           /\ Placed(c, log)
  <2>1. log \in Seq(Lines) /\ DOMAIN log = 1..Len(log) /\ Len(log) \in Nat
    BY DEF IInv, TypeOK
  <2>2. PICK k \in At(call[c].asked.q) : AnswersPast(k) = {}
    BY <1>2 DEF Answered
  <2>3. k \in 1..Len(log) /\ log[k].role = "user"
    BY <2>1 DEF At
  <2>4. Len(log) \in 1..Len(log) /\ log[Len(log)] \in Lines
    BY <2>1, <2>3, ElementOfSeq
  <2>5. ~(Len(log) > k /\ log[Len(log)].role = "assistant")
    BY <2>1, <2>2, <2>4 DEF AnswersPast
  <2>6. log[Len(log)].role = "user"
    BY <2>1, <2>3, <2>4, <2>5 DEF Lines
  <2>7. Asks(log)
    BY <2>1, <2>4, <2>6 DEF Asks
  <2>8. Once(log) /\ Spaced(log) /\ (inTurn => Fit(log) /\ Said(log, deletes))
    BY DEF IInv, TurnInv
  <2>. QED BY <1>2, <2>1, <2>7, <2>8, PlacedKeeps
<1>. QED BY <1>1, <1>2 DEF Again

(* A request that ends and leaves the log alone.                             *)
LEMMA LeavesKeeps ==
  ASSUME IInv, NEW c \in Calls, call[c] # NoCall, Return(c),
         UNCHANGED <<exists, log, deletes, replayed, inTurn>>
  PROVE  IInv'
<1>1. /\ call' \in [Calls -> {NoCall} \cup Requests \cup Answers]
      /\ AloneInTurn => AloneInTurn' /\ ReadsQuestion' /\ AnswersNewest'
  BY Returns DEF IInv
<1>2. TypeOK'
  BY <1>1 DEF IInv, TypeOK
<1>. QED BY <1>1, <1>2 DEF IInv, TurnInv, Once, Spaced, Fit, Said

LEMMA AppendUserKeeps ==
  ASSUME IInv, NEW c \in Calls, AppendUser(c)
  PROVE  IInv'
<1>1. call[c].pc = "place" /\ call[c] # NoCall
  BY CallFields DEF IInv, AppendUser
<1>2. CASE Missing(c)
  BY <1>1, <1>2, LeavesKeeps DEF Missing
<1>3. CASE NewLine(c)
  BY <1>1, <1>3, NewLineKeeps
<1>4. CASE Rewrite(c)
  BY <1>1, <1>4, RewriteKeeps
<1>5. CASE Again(c)
  BY <1>1, <1>5, AgainKeeps
<1>. QED BY <1>2, <1>3, <1>4, <1>5 DEF AppendUser

(* In turn the newest line is the request's own question still.              *)
LEMMA ReadLinesKeeps ==
  ASSUME IInv, NEW c \in Calls, ReadLines(c)
  PROVE  IInv'
<1>. DEFINE r == [pc |-> "answer", chat |-> deletes,
                  about |-> IF log = <<>> THEN call[c].asked ELSE Last(log).about]
<1>1. log \in Seq(Lines) /\ deletes \in 0..MaxDeletes /\ call[c] # NoCall
      /\ call[c].asked \in Asked
  BY CallFields DEF IInv, TypeOK, ReadLines
<1>2. log # <<>> => Last(log) = log[Len(log)] /\ log[Len(log)] \in Lines
  <2>1. log # <<>> => Len(log) \in 1..Len(log)
    BY <1>1
  <2>. QED BY <1>1, <2>1, ElementOfSeq DEF Last
<1>3. r.about \in Asked
  BY <1>1, <1>2 DEF Lines
<1>4. r \in Answers /\ r.pc = "answer" /\ r.chat = deletes
      /\ (log # <<>> => r.about = log[Len(log)].about)
  BY <1>1, <1>2, <1>3 DEF Answers
<1>5. call' = [call EXCEPT ![c] = r]
  BY DEF ReadLines
<1>. HIDE DEF r
<1>6. /\ call' \in [Calls -> {NoCall} \cup Requests \cup Answers]
      /\ call'[c] = r
      /\ AloneInTurn => AloneInTurn' /\ \A d \in Calls : call'[d] # NoCall => d = c
  BY <1>1, <1>4, <1>5, Moves DEF IInv
<1>7. TypeOK'
  BY <1>6 DEF IInv, TypeOK, ReadLines
<1>8. ASSUME inTurn' PROVE TurnInv'
  <2>1. TurnInv /\ UNCHANGED <<exists, log, deletes>>
    BY <1>8 DEF IInv, ReadLines
  <2>2. \A d \in Calls : call'[d].pc \in {"read", "answer"} => d = c
    BY <1>6, <2>1 DEF TurnInv, NoCall
  <2>3. ReadsQuestion'
    BY <1>4, <1>6, <2>2 DEF ReadsQuestion
  <2>4. exists => Asks(log)
    BY <2>1 DEF TurnInv, ReadsQuestion, ReadLines
  <2>5. AnswersNewest'
    BY <1>4, <1>6, <2>1, <2>2, <2>4 DEF AnswersNewest, Asks
  <2>. QED BY <1>6, <2>1, <2>3, <2>5 DEF TurnInv, Fit, Said
<1>. QED BY <1>7, <1>8 DEF IInv, Once, Spaced, ReadLines

(* An answer is dropped, or stored under the question it answers.            *)
LEMMA AppendAssistantKeeps ==
  ASSUME IInv, NEW c \in Calls, AppendAssistant(c)
  PROVE  IInv'
<1>1. call[c].pc = "answer" /\ call[c] # NoCall /\ Return(c)
      /\ call[c].about \in Asked /\ call[c].chat \in 0..MaxDeletes
  BY CallFields DEF IInv, AppendAssistant, Speak
<1>2. CASE ~exists \/ JustAnswered
  BY <1>1, <1>2, LeavesKeeps DEF AppendAssistant, Speak
<1>3. CASE exists /\ ~JustAnswered
  <2>. DEFINE x == Line("assistant", call[c].about, call[c].chat)
  <2>1. log' = Append(log, x) /\ UNCHANGED <<exists, deletes, replayed, inTurn>>
    BY <1>3 DEF AppendAssistant, Speak
  <2>2. x \in Lines /\ x.role = "assistant" /\ x.about = call[c].about /\ x.chat = call[c].chat
    BY <1>1 DEF Lines, Line
  <2>. HIDE DEF x
  <2>3. log \in Seq(Lines)
    BY DEF IInv, TypeOK
  <2>4. log = <<>> \/ log[Len(log)].role # "assistant"
    BY <1>3, <2>3 DEF JustAnswered, Last
  <2>. DEFINE l == Append(log, x)
  <2>5. l \in Seq(Lines)
    BY <2>2, <2>3, AppendLine
  <2>6. Once(l)
    BY <2>2, <2>3, AppendOnce DEF IInv
  <2>7. Spaced(l)
    BY <2>2, <2>3, <2>4, AppendSpaced DEF IInv
  <2>8. inTurn => Asks(log) /\ log[Len(log)].about = x.about /\ x.chat = deletes
    BY <1>1, <1>3, <2>2 DEF IInv, TurnInv, AnswersNewest
  <2>9. inTurn => Fit(l)
    BY <2>2, <2>3, <2>8, AppendFit DEF IInv, TurnInv
  <2>10. inTurn => Said(l, deletes)
    BY <2>2, <2>3, <2>8, AppendSaid DEF IInv, TurnInv
  <2>11. log' = l
    BY <2>1
  <2>. HIDE DEF l
  <2>12. /\ call' \in [Calls -> {NoCall} \cup Requests \cup Answers]
         /\ AloneInTurn => AloneInTurn' /\ ReadsQuestion' /\ AnswersNewest'
    BY <1>1, Returns DEF IInv
  <2>13. TypeOK'
    BY <1>3, <2>1, <2>5, <2>11, <2>12 DEF IInv, TypeOK
  <2>14. Once(log') /\ Spaced(log') /\ (inTurn' => Fit(log') /\ Said(log', deletes'))
    BY <2>1, <2>6, <2>7, <2>9, <2>10, <2>11
  <2>. QED BY <2>1, <2>12, <2>13, <2>14 DEF IInv, TurnInv, Once, Spaced, Fit, Said
<1>. QED BY <1>2, <1>3

(* A delete leaves nothing for an answer to be stored in.                    *)
LEMMA DeleteKeeps ==
  ASSUME IInv, Delete
  PROVE  IInv'
<1>1. log' = <<>> /\ ~exists' /\ UNCHANGED <<call, replayed, inTurn>>
  BY DEF Delete
<1>2. log' \in Seq(Lines) /\ Len(log') = 0 /\ exists' = FALSE
  BY <1>1 DEF Delete
<1>3. deletes' \in 0..MaxDeletes
  BY TranscriptAssumption DEF Delete, IInv, TypeOK
<1>4. TypeOK'
  BY <1>1, <1>2, <1>3 DEF IInv, TypeOK
<1>5. Once(log)' /\ Spaced(log)' /\ Fit(log)' /\ Said(log, deletes)'
  BY <1>2 DEF Once, Spaced, Fit, Said
<1>6. ReadsQuestion' /\ AnswersNewest'
  BY <1>1 DEF ReadsQuestion, AnswersNewest
<1>7. AloneInTurn => AloneInTurn'
  BY <1>1 DEF AloneInTurn
<1>. QED BY <1>1, <1>4, <1>5, <1>6, <1>7 DEF IInv, TurnInv

-----------------------------------------------------------------------------
LEMMA IInvNext == IInv /\ [Next]_vars => IInv'
<1>. SUFFICES ASSUME IInv, [Next]_vars PROVE IInv'
  OBVIOUS
<1>1. CASE Delete
  BY <1>1, DeleteKeeps
<1>2. ASSUME NEW c \in Calls,
             NEW text \in Asked, NEW regenerate \in BOOLEAN, Claim(c, text, regenerate)
      PROVE  IInv'
  BY <1>2, ClaimKeeps
<1>3. ASSUME NEW c \in Calls, StoredAnswer(c) PROVE IInv'
  BY <1>3, StoredAnswerKeeps
<1>4. ASSUME NEW c \in Calls, AppendUser(c) PROVE IInv'
  BY <1>4, AppendUserKeeps
<1>5. ASSUME NEW c \in Calls, ReadLines(c) PROVE IInv'
  BY <1>5, ReadLinesKeeps
<1>6. ASSUME NEW c \in Calls, AppendAssistant(c) PROVE IInv'
  BY <1>6, AppendAssistantKeeps
<1>7. ASSUME NEW c \in Calls, Abandon(c) PROVE IInv'
  BY <1>7, LeavesKeeps DEF Abandon
<1>8. CASE UNCHANGED vars
  BY <1>8 DEF IInv, vars, TypeOK, TurnInv, AloneInTurn, ReadsQuestion, AnswersNewest,
              Once, Spaced, Fit, Said, Asks
<1>. QED BY <1>1, <1>2, <1>3, <1>4, <1>5, <1>6, <1>7, <1>8 DEF Next

(* The inductive invariant holds in every state the conversation reaches     *)
(* (history.ts with the handler of routes/chat.ts).                          *)
THEOREM TranscriptInvariant == Spec => []IInv
BY IInvInit, IInvNext, PTL DEF Spec

(* The conversation's state keeps its types, and a deleted conversation has  *)
(* no messages (the cascade of deleteWebConversation).                       *)
THEOREM TranscriptTypes == Spec => []TypeOK
<1>1. IInv => TypeOK
  BY DEF IInv
<1>. QED BY <1>1, TranscriptInvariant, PTL

(* However many requests overlap, repeat or regenerate, a question is in the *)
(* transcript once (appendUser's lookup of the client id).                   *)
THEOREM QuestionsStayOnce == Spec => []QuestionOnce
<1>1. IInv => QuestionOnce
  <2>. SUFFICES ASSUME IInv, NEW q \in Questions PROVE Cardinality(At(q)) <= 1
    BY DEF QuestionOnce
  <2>1. \A k, n \in At(q) : k = n
    BY DEF IInv, TypeOK, Once, At
  <2>2. At(q) = {} \/ \E k \in At(q) : At(q) = {k}
    BY <2>1
  <2>. QED BY <2>2, FS_EmptySet, FS_Singleton
<1>. QED BY <1>1, TranscriptInvariant, PTL

(* However many requests overlap, no two answers stand in a row              *)
(* (appendAssistant's look at the newest line).                              *)
THEOREM AnswersStaySpaced == Spec => []NoTwoAnswers
<1>1. IInv => NoTwoAnswers
  BY DEF IInv, NoTwoAnswers, Spaced
<1>. QED BY <1>1, TranscriptInvariant, PTL

(* As long as requests for a conversation come one at a time, every answer   *)
(* stands after its own question as it reads now, whatever was stopped,      *)
(* asked again, edited or deleted (appendUser and appendAssistant together). *)
THEOREM AnswersAlwaysFit == Spec => []AnswersFitInTurn
<1>1. IInv => AnswersFitInTurn
  BY DEF IInv, TurnInv, Fit, TypeOK, AnswersFitInTurn, AnswerFitsQuestion
<1>. QED BY <1>1, TranscriptInvariant, PTL

(* As long as requests come one at a time, nothing said before a delete is   *)
(* in the conversation after it (deleteWebConversation, and appendAssistant, *)
(* which does not make the row again).                                       *)
THEOREM DeletesAlwaysHold == Spec => []DeletesHoldInTurn
<1>1. IInv => DeletesHoldInTurn
  BY DEF IInv, TurnInv, Said, TypeOK, DeletesHoldInTurn, DeletedWordsGone
<1>. QED BY <1>1, TranscriptInvariant, PTL

-----------------------------------------------------------------------------
(***************************************************************************)
(* The chat page of one tab (WebChat), proved for any conversations and    *)
(* any clicks.  The server and the page are typed apart (ServerShapes,     *)
(* PageShapes); counting names (Counted) makes what is new distinct.  From *)
(* there, one by one: the transcript awaited is that of the chat that is   *)
(* open (LoadsFit), one answer at a time is on its way (OneAnswer), and    *)
(* with those the lines' home (HomeInv), the follow-ups (FollowInv), the   *)
(* deletes and the list (RemovalsApart, ListInv) and, stage by stage of a  *)
(* request, the page itself (InStep, ChatPageInv).                         *)
(***************************************************************************)
Positive == Nat \ {0}
Written == [role : {"user", "assistant"}, n : Positive, chat : Positive]
IsUser(line) == line.role = "user"
Stages == {"sent", "claimed", "placed", "stored", "refused"}

(* The questions of a conversation are all different.                        *)
Distinct(lines) ==
  \A j, k \in DOMAIN lines :
    IsUser(lines[j]) /\ IsUser(lines[k]) /\ lines[j].n = lines[k].n => j = k

ChatRequests == [chat : Positive, ask : Written, again : BOOLEAN, stage : Stages, live : BOOLEAN]
Removals == [id : Positive, active : Nat, done : BOOLEAN]
Transcripts == [no : Nat, id : Positive, read : BOOLEAN, got : Seq(Written)]
Listing(l) == /\ l = [no |-> l.no, id |-> l.id, read |-> l.read, got |-> l.got]
              /\ l.no \in Nat /\ l.read \in BOOLEAN /\ (l.read => l.got \subseteq Positive)

ServerShapes ==
  /\ DOMAIN stored \subseteq Positive
  /\ \A c \in DOMAIN stored : stored[c] \in Seq(Written)
  /\ work \subseteq ChatRequests /\ \A w \in work : IsUser(w.ask)
  /\ removals \subseteq Removals
PageShapes ==
  /\ chats \in Nat /\ asked \in Nat
  /\ shown \in Seq(Written)
  /\ open \in Nat /\ active = open /\ items \subseteq Positive
  /\ loads \subseteq Transcripts /\ asks \subseteq Transcripts /\ \A l \in lists : Listing(l)
  /\ {loadNo, followNo, listNo} \subseteq Nat /\ loadId \in Nat
ChatShapes == ServerShapes /\ PageShapes

(* How many conversations and questions there have been bounds their names.  *)
NumberedTo(n, lines) == \A k \in DOMAIN lines : lines[k].n <= n
Counted ==
  /\ DOMAIN stored \subseteq 1..chats /\ items \subseteq 1..chats /\ open <= chats
  /\ \A c \in DOMAIN stored : NumberedTo(asked, stored[c]) /\ Distinct(stored[c])
  /\ \A w \in work : w.chat <= chats /\ w.ask.n <= asked
  /\ NumberedTo(asked, shown) /\ \A l \in loads : NumberedTo(asked, l.got)
  /\ \A l \in lists : l.read => l.got \subseteq 1..chats

(* The transcript a page waits for is that of the chat that is open.         *)
LoadsFit ==
  /\ loadId \in {0, open}
  /\ \A l \in loads : l.no <= loadNo /\ (l.no = loadNo => l.id = loadId)
  /\ \A l \in lists : l.no <= listNo
  /\ \A a \in asks : a.no <= followNo

(* Whatever is not lost is listened to, and one at a time.                   *)
OneAnswer ==
  "lost" \notin odd => (\A w \in work : w.live) /\ \A v, w \in work : v = w

AtHome(lines, c) == \A k \in DOMAIN lines : lines[k].chat = c
HomeInv ==
  "early" \notin odd =>
    /\ \A c \in DOMAIN stored : AtHome(stored[c], c)
    /\ \A w \in work : w.ask.chat = w.chat
    /\ \A l \in loads : l.read => AtHome(l.got, l.id)
    /\ Loading \/ \A k \in DOMAIN shown : IsUser(shown[k]) => shown[k].chat = open

FollowInv ==
  "lost" \notin odd =>
    /\ work # {} => follow = None /\ \A a \in asks : a.no # followNo
    /\ follow.id \in DOMAIN stored => follow.from = stored[follow.id]
    /\ \A a \in asks : a.no = followNo /\ a.read /\ a.id \in DOMAIN stored => a.got = stored[a.id]

(* The chats on their way out; no request is for one of them.                *)
Leaving == {d.id : d \in removals}
RemovalsApart ==
  odd \cap {"lost", "under delete"} = {} =>
    /\ \A w \in work : w.chat \notin Leaving
    /\ \A d \in removals : /\ d.done => d.id \notin DOMAIN stored
                           /\ d.id = open => d.active = d.id

ListInv ==
  odd \cap {"lost", "under delete", "list read before"} = {} /\ work = {} =>
    /\ \A l \in lists : l.no = listNo /\ l.read => l.got = Listed
    /\ (\E l \in lists : l.no = listNo) \/ items \ Leaving = Listed \ Leaving

(* What the page shows of a conversation's lines while one question is on its *)
(* way, is stored and has its answer stored.                                 *)
Posed(q, lines, page) ==
  \/ /\ page = Append(lines, q)
     /\ \A k \in DOMAIN lines : IsUser(lines[k]) => lines[k].n # q.n
  \/ \E k \in DOMAIN lines : lines[k] = q /\ page = SubSeq(lines, 1, k)
AskedFor(a, lines, page) == Ends(lines, "user") /\ page \in {lines, Append(lines, a)}
AnsweredFor(a, lines, page) ==
  /\ lines # <<>> /\ Last(lines) = a
  /\ \/ page = lines
     \/ lines = Append(page, a) /\ Ends(page, "user")

InStep(w) ==
  /\ w.chat = open /\ w.stage # "refused"
  /\ w.stage \in {"sent", "claimed"} => Posed(w.ask, LinesOf(open), shown)
  /\ w.stage = "claimed" => open \in DOMAIN stored
  /\ w.stage = "placed" => AskedFor(Answer(w), LinesOf(open), shown)
  /\ w.stage = "stored" => AnsweredFor(Answer(w), LinesOf(open), shown)

ChatPageInv ==
  odd \subseteq {"list read before"} =>
    /\ \A w \in work : InStep(w)
    /\ Loading => work = {}
    /\ open \in Leaving \/ \A l \in loads : l.no = loadNo /\ l.read => l.got = LinesOf(open)
    /\ work = {} => open \in Leaving \/ Loading \/ shown = LinesOf(open)

-----------------------------------------------------------------------------
(* What the model's operators do.                                            *)

LEMMA AppendOne ==
  ASSUME NEW S, NEW s \in Seq(S), NEW e \in S
  PROVE  /\ Append(s, e) \in Seq(S) /\ Append(s, e) # <<>> /\ Last(Append(s, e)) = e
         /\ Len(Append(s, e)) = Len(s) + 1 /\ DOMAIN Append(s, e) = 1..(Len(s) + 1)
         /\ DOMAIN s = 1..Len(s) /\ Len(s) \in Nat
         /\ \A k \in DOMAIN s : Append(s, e)[k] = s[k]
         /\ Append(s, e)[Len(s) + 1] = e
<1>1. Append(s, e) \in Seq(S) /\ Len(Append(s, e)) = Len(s) + 1
      /\ (\A k \in 1..Len(s) : Append(s, e)[k] = s[k]) /\ Append(s, e)[Len(s) + 1] = e
  BY AppendProperties
<1>2. Len(s) \in Nat /\ DOMAIN s = 1..Len(s)  BY LenProperties
<1>3. DOMAIN Append(s, e) = 1..(Len(s) + 1)  BY <1>1, LenProperties
<1>4. Append(s, e) # <<>>  BY <1>1, <1>2, <1>3, EmptySeq
<1> QED  BY <1>1, <1>2, <1>3, <1>4 DEF Last

LEMMA CutOne ==
  ASSUME NEW S, NEW s \in Seq(S), NEW k \in DOMAIN s
  PROVE  /\ SubSeq(s, 1, k) \in Seq(S) /\ SubSeq(s, 1, k) # <<>> /\ Last(SubSeq(s, 1, k)) = s[k]
         /\ DOMAIN SubSeq(s, 1, k) = 1..k /\ k \in 1..Len(s) /\ s[k] \in S
         /\ \A j \in 1..k : j \in DOMAIN s /\ SubSeq(s, 1, k)[j] = s[j]
<1>1. Len(s) \in Nat /\ DOMAIN s = 1..Len(s)  BY LenProperties
<1>2. k \in Nat /\ 1 <= k /\ k <= Len(s)  BY <1>1
<1>3. SubSeq(s, 1, k) \in Seq(S) /\ Len(SubSeq(s, 1, k)) = k
      /\ \A j \in 1..k : SubSeq(s, 1, k)[j] = s[j]
  BY <1>1, <1>2
<1>4. DOMAIN SubSeq(s, 1, k) = 1..k  BY <1>3, LenProperties
<1>5. SubSeq(s, 1, k) # <<>>  BY <1>2, <1>3
<1>6. Last(SubSeq(s, 1, k)) = s[k]  BY <1>2, <1>3 DEF Last
<1>7. \A j \in 1..k : j \in DOMAIN s  BY <1>1, <1>2
<1>8. s[k] \in S  BY <1>1, <1>2, ElementOfSeq
<1> QED  BY <1>1, <1>2, <1>3, <1>4, <1>5, <1>6, <1>7, <1>8

LEMMA PutOne ==
  ASSUME NEW c \in Positive, NEW lines \in Seq(Written)
  PROVE  /\ DOMAIN Put(c, lines) = DOMAIN stored \cup {c} /\ Put(c, lines)[c] = lines
         /\ \A d \in DOMAIN stored : d # c => Put(c, lines)[d] = stored[d]
BY DEF Put

LEMMA LinesOfOne ==
  ASSUME ServerShapes, NEW c
  PROVE  /\ LinesOf(c) \in Seq(Written)
         /\ c \in DOMAIN stored => LinesOf(c) = stored[c]
         /\ c \notin DOMAIN stored => LinesOf(c) = <<>>
BY EmptySeq DEF ServerShapes, LinesOf

LEMMA AnswerOne ==
  ASSUME NEW w \in ChatRequests
  PROVE  /\ Answer(w) \in Written /\ ~IsUser(Answer(w)) /\ Answer(w).chat = w.chat
         /\ Answer(w).n = w.ask.n /\ Answer(w).role = "assistant"
BY DEF ChatRequests, Written, Answer, ChatLine, IsUser

(* The server's steps for a request: one stage on, and the conversation's    *)
(* lines are lines it had, the question or the answer.                       *)
LEMMA Reached ==
  ASSUME ServerShapes, NEW w \in work, NEW stage \in Stages, NEW new, Reach(w, stage, new)
  PROVE  /\ \E v \in ChatRequests : /\ v.chat = w.chat /\ v.ask = w.ask /\ v.live = w.live
                                /\ v.stage = stage
                                /\ work' = (work \ {w}) \cup {v}
         /\ stored' = new
<1> DEFINE v == [w EXCEPT !.stage = stage]
<1>1. w \in ChatRequests  BY DEF ServerShapes
<1>2. v \in ChatRequests /\ v.chat = w.chat /\ v.ask = w.ask /\ v.live = w.live /\ v.stage = stage
  BY <1>1 DEF ChatRequests
<1>3. work' = (work \ {w}) \cup {v} /\ stored' = new  BY DEF Reach
<1> HIDE DEF v
<1> QED  BY <1>2, <1>3

ServerStep(w) == Claims(w) \/ Place(w) \/ Store(w) \/ Refuse(w) \/ Gone(w)

Fits(lines, w) ==
  \A k \in DOMAIN lines : \/ k \in DOMAIN LinesOf(w.chat) /\ lines[k] = LinesOf(w.chat)[k]
                          \/ lines[k] = w.ask \/ lines[k] = Answer(w)

LEMMA ServerWork ==
  ASSUME ServerShapes, NEW w \in work, ServerStep(w)
  PROVE  /\ \E v \in ChatRequests : /\ v.chat = w.chat /\ v.ask = w.ask /\ v.live = w.live
                                /\ work' = (work \ {w}) \cup {v}
         /\ UNCHANGED <<removals, thread, load, list, ups, chats, asked>>
<1>1. CASE Claims(w)
  <2>1. Reach(w, "claimed", Put(w.chat, LinesOf(w.chat)))  BY <1>1 DEF Claims
  <2> QED  BY <1>1, <2>1, Reached DEF Claims, Reach, Served, counts, Stages
<1>2. CASE Place(w)
  <2>1. \E new : Reach(w, "placed", new)  BY <1>2 DEF Place
  <2> QED  BY <1>2, <2>1, Reached DEF Place, Reach, Served, counts, Stages
<1>3. CASE Store(w)
  <2>1. \E new : Reach(w, "stored", new)  BY <1>3 DEF Store
  <2> QED  BY <1>3, <2>1, Reached DEF Store, Reach, Served, counts, Stages
<1>4. CASE Refuse(w)
  <2>1. Reach(w, "refused", stored)  BY <1>4 DEF Refuse
  <2> QED  BY <1>4, <2>1, Reached DEF Refuse, Reach, Fault, Click, Stages
<1>5. CASE Gone(w)
  <2>1. Reach(w, "refused", stored)  BY <1>5 DEF Gone
  <2> QED  BY <1>5, <2>1, Reached DEF Gone, Reach, Served, counts, Stages
<1> QED  BY <1>1, <1>2, <1>3, <1>4, <1>5 DEF ServerStep

LEMMA ServerStores ==
  ASSUME ServerShapes, NEW w \in work, ServerStep(w)
  PROVE  \/ stored' = stored
         \/ \E lines \in Seq(Written) :
              /\ stored' = Put(w.chat, lines) /\ Fits(lines, w)
              /\ Distinct(LinesOf(w.chat)) => Distinct(lines)
<1>0. w \in ChatRequests /\ w.ask \in Written /\ IsUser(w.ask)  BY DEF ServerShapes, ChatRequests
<1>1. LinesOf(w.chat) \in Seq(Written)  BY LinesOfOne
<1>2. CASE Claims(w)
  <2>1. stored' = Put(w.chat, LinesOf(w.chat))  BY <1>2 DEF Claims, Reach
  <2> QED  BY <1>1, <2>1 DEF Fits
<1>3. CASE Place(w)
  <2> DEFINE lines == stored[w.chat]
             known == {k \in DOMAIN lines : lines[k].role = "user" /\ lines[k].n = w.ask.n}
  <2>1. w.chat \in DOMAIN stored /\ lines = LinesOf(w.chat)  BY <1>3, LinesOfOne DEF Place
  <2>2. \/ known = {} /\ stored' = Put(w.chat, Append(lines, w.ask))
        \/ \E k \in known : stored' = Put(w.chat, SubSeq(lines, 1, k))
    BY <1>3 DEF Place, Reach
  <2> HIDE DEF lines
  <2>3. CASE known = {} /\ stored' = Put(w.chat, Append(lines, w.ask))
    <3>1. /\ Append(lines, w.ask) \in Seq(Written)
          /\ DOMAIN Append(lines, w.ask) = 1..(Len(lines) + 1)
          /\ Len(lines) \in Nat /\ DOMAIN lines = 1..Len(lines)
          /\ \A k \in DOMAIN lines : Append(lines, w.ask)[k] = lines[k]
          /\ Append(lines, w.ask)[Len(lines) + 1] = w.ask
      BY <1>0, <1>1, <2>1, AppendOne
    <3>2. \A k \in DOMAIN Append(lines, w.ask) :
            k \in DOMAIN lines \/ k = Len(lines) + 1
      BY <3>1
    <3>3. Fits(Append(lines, w.ask), w)  BY <3>1, <3>2, <2>1 DEF Fits
    <3>4. \A k \in DOMAIN lines : ~(IsUser(lines[k]) /\ lines[k].n = w.ask.n)
      BY <2>3 DEF IsUser
    <3>5. Distinct(lines) => Distinct(Append(lines, w.ask))
      BY <3>1, <3>2, <3>4 DEF Distinct
    <3> QED  BY <2>3, <3>1, <3>3, <3>5, <2>1
  <2>4. CASE \E k \in known : stored' = Put(w.chat, SubSeq(lines, 1, k))
    <3>1. PICK k \in known : stored' = Put(w.chat, SubSeq(lines, 1, k))  BY <2>4
    <3>2. k \in DOMAIN lines  OBVIOUS
    <3>3. /\ SubSeq(lines, 1, k) \in Seq(Written) /\ DOMAIN SubSeq(lines, 1, k) = 1..k
          /\ \A j \in 1..k : j \in DOMAIN lines /\ SubSeq(lines, 1, k)[j] = lines[j]
      BY <1>1, <2>1, <3>2, CutOne
    <3>4. Fits(SubSeq(lines, 1, k), w)  BY <3>3, <2>1 DEF Fits
    <3>5. Distinct(lines) => Distinct(SubSeq(lines, 1, k))  BY <3>3 DEF Distinct
    <3> QED  BY <3>1, <3>3, <3>4, <3>5, <2>1
  <2> QED  BY <2>2, <2>3, <2>4
<1>4. CASE Store(w)
  <2> DEFINE lines == LinesOf(w.chat)  all == Append(lines, Answer(w))
  <2>1. stored' = stored \/ stored' = Put(w.chat, all)  BY <1>4 DEF Store, Reach
  <2>2. /\ all \in Seq(Written) /\ DOMAIN all = 1..(Len(lines) + 1)
        /\ Len(lines) \in Nat /\ DOMAIN lines = 1..Len(lines)
        /\ \A k \in DOMAIN lines : all[k] = lines[k]
        /\ all[Len(lines) + 1] = Answer(w)
    BY <1>0, <1>1, AnswerOne, AppendOne
  <2> HIDE DEF all
  <2>3. \A k \in DOMAIN all : k \in DOMAIN lines \/ k = Len(lines) + 1  BY <2>2
  <2>4. Fits(all, w)  BY <2>2, <2>3 DEF Fits
  <2>5. ~IsUser(all[Len(lines) + 1])  BY <1>0, <2>2, AnswerOne
  <2>6. Distinct(lines) => Distinct(all)  BY <2>2, <2>3, <2>5 DEF Distinct
  <2> QED  BY <2>1, <2>2, <2>4, <2>6
<1>5. CASE Refuse(w) \/ Gone(w)  BY <1>5 DEF Refuse, Gone, Reach
<1> QED  BY <1>2, <1>3, <1>4, <1>5 DEF ServerStep

(* Send, retry and edit: the question and the request it goes out with.      *)
Goes(q, again) == [chat |-> Target, ask |-> q, again |-> again, stage |-> "sent", live |-> TRUE]

LEMMA Posts ==
  ASSUME ChatShapes, Send \/ Resend
  PROVE  \E q \in Written, again \in BOOLEAN :
           /\ IsUser(q) /\ Target \in Positive /\ Goes(q, again) \in ChatRequests
           /\ Goes(q, again).chat = Target /\ Goes(q, again).ask = q
           /\ Goes(q, again).stage = "sent" /\ Goes(q, again).live = TRUE
           /\ work' = work \cup {Goes(q, again)} /\ ~Busy
           /\ shown' \in Seq(Written) /\ open' = Target /\ active' = Target
           /\ chats' \in Nat /\ chats' = (IF open = 0 THEN Target ELSE chats)
           /\ odd' = odd \cup {x \in {"early"} : Loading}
                         \cup {x \in {"under delete"} : \E d \in removals : d.id = Target}
           /\ FollowAgain(TRUE) /\ UNCHANGED <<stored, removals, load, list>>
           /\ \/ /\ shown' = Append(shown, q) /\ q = ChatLine("user", asked + 1, Target)
                 /\ asked' = asked + 1 /\ ~(Loading /\ shown = <<>>)
              \/ /\ asked' = asked
                 /\ \E k \in DOMAIN shown : q = shown[k] /\ shown' = SubSeq(shown, 1, k)
<1>1. Target \in Positive  BY DEF ChatShapes, PageShapes, Target, Positive
<1>2. \A q \in Written, again \in BOOLEAN :
        /\ Goes(q, again) \in ChatRequests /\ Goes(q, again).chat = Target /\ Goes(q, again).ask = q
        /\ Goes(q, again).stage = "sent" /\ Goes(q, again).live = TRUE
  <2>1. SUFFICES ASSUME NEW q \in Written, NEW again \in BOOLEAN
                 PROVE  Goes(q, again) \in ChatRequests
    BY DEF Goes
  <2> QED  BY <1>1, <2>1 DEF Goes, ChatRequests, Stages
<1>3. \A lines, again : Post(lines, again) =>
        /\ ~Busy /\ shown' = lines /\ open' = Target /\ active' = Target
        /\ chats' \in Nat /\ chats' = (IF open = 0 THEN Target ELSE chats)
        /\ work' = work \cup {Goes(Last(lines), again)}
        /\ odd' = odd \cup {x \in {"early"} : Loading}
                      \cup {x \in {"under delete"} : \E d \in removals : d.id = Target}
        /\ FollowAgain(TRUE) /\ UNCHANGED <<stored, removals, load, list>>
  <2>1. SUFFICES ASSUME NEW lines, NEW again, Post(lines, again)
                 PROVE  active' = Target /\ chats' \in Nat
    BY DEF Post, Goes
  <2> QED  BY <1>1, <2>1 DEF Post, Target, ChatShapes, PageShapes, Positive
<1>4. CASE Send
  <2> DEFINE q == ChatLine("user", asked + 1, Target)
  <2>1. q \in Written /\ IsUser(q)
    <3>1. asked + 1 \in Positive  BY DEF ChatShapes, PageShapes, Positive
    <3> QED  BY <1>1, <3>1 DEF Written, ChatLine, IsUser
  <2>2. Post(Append(shown, q), FALSE) /\ asked' = asked + 1 /\ ~(Loading /\ shown = <<>>)
    BY <1>4 DEF Send
  <2>3. shown \in Seq(Written)  BY DEF ChatShapes, PageShapes
  <2>4. Append(shown, q) \in Seq(Written) /\ Last(Append(shown, q)) = q  BY <2>1, <2>3, AppendOne
  <2>5. q = ChatLine("user", asked + 1, Target)  OBVIOUS
  <2> HIDE DEF q
  <2>6. shown' = Append(shown, q) /\ work' = work \cup {Goes(q, FALSE)}  BY <1>3, <2>2, <2>4
  <2>7. ~Busy /\ open' = Target /\ active' = Target
        /\ chats' \in Nat /\ chats' = (IF open = 0 THEN Target ELSE chats)
        /\ odd' = odd \cup {x \in {"early"} : Loading}
                      \cup {x \in {"under delete"} : \E d \in removals : d.id = Target}
        /\ FollowAgain(TRUE) /\ UNCHANGED <<stored, removals, load, list>>
    BY <1>3, <2>2
  <2>8. Goes(q, FALSE) \in ChatRequests /\ Goes(q, FALSE).chat = Target /\ Goes(q, FALSE).ask = q
        /\ Goes(q, FALSE).stage = "sent" /\ Goes(q, FALSE).live = TRUE
    BY <1>2, <2>1
  <2> FALSE \in BOOLEAN /\ q \in Written  BY <2>1
  <2> WITNESS q \in Written, FALSE \in BOOLEAN
  <2> QED  BY <1>1, <2>1, <2>2, <2>4, <2>5, <2>6, <2>7, <2>8
<1>5. CASE Resend
  <2>1. PICK k \in DOMAIN shown : shown[k].role = "user" /\ Post(SubSeq(shown, 1, k), TRUE)
    BY <1>5 DEF Resend
  <2>2. shown \in Seq(Written)  BY DEF ChatShapes, PageShapes
  <2>3. SubSeq(shown, 1, k) \in Seq(Written) /\ Last(SubSeq(shown, 1, k)) = shown[k]
        /\ shown[k] \in Written
    BY <2>2, CutOne
  <2>4. asked' = asked  BY <1>5 DEF Resend
  <2>5. IsUser(shown[k])  BY <2>1 DEF IsUser
  <2>6. shown' = SubSeq(shown, 1, k) /\ work' = work \cup {Goes(shown[k], TRUE)}
    BY <1>3, <2>1, <2>3
  <2>7. ~Busy /\ open' = Target /\ active' = Target
        /\ chats' \in Nat /\ chats' = (IF open = 0 THEN Target ELSE chats)
        /\ odd' = odd \cup {x \in {"early"} : Loading}
                      \cup {x \in {"under delete"} : \E d \in removals : d.id = Target}
        /\ FollowAgain(TRUE) /\ UNCHANGED <<stored, removals, load, list>>
    BY <1>3, <2>1
  <2>8. Goes(shown[k], TRUE) \in ChatRequests /\ Goes(shown[k], TRUE).chat = Target
        /\ Goes(shown[k], TRUE).ask = shown[k] /\ Goes(shown[k], TRUE).stage = "sent"
        /\ Goes(shown[k], TRUE).live = TRUE
    BY <1>2, <2>3
  <2> DEFINE q == shown[k]
  <2> TRUE \in BOOLEAN /\ q \in Written  BY <2>3
  <2> WITNESS q \in Written, TRUE \in BOOLEAN
  <2> QED  BY <1>1, <2>3, <2>4, <2>5, <2>6, <2>7, <2>8
<1> QED  BY <1>4, <1>5

(* Stop and a reload: the requests stay what they are, and are not heard.    *)
LEMMA Hushed ==
  ASSUME ServerShapes, work' = {[w EXCEPT !.live = FALSE] : w \in work}
  PROVE  \A v \in work' : /\ v \in ChatRequests /\ v.live = FALSE
                          /\ \E w \in work : v.chat = w.chat /\ v.ask = w.ask /\ v.stage = w.stage
<1>1. SUFFICES ASSUME NEW w \in work
               PROVE  LET v == [w EXCEPT !.live = FALSE] IN
                      v \in ChatRequests /\ v.live = FALSE /\ v.chat = w.chat /\ v.ask = w.ask
                      /\ v.stage = w.stage
  OBVIOUS
<1>2. w \in ChatRequests  BY DEF ServerShapes
<1> QED  BY <1>2 DEF ChatRequests

(* A list that was read is what it was, with what was read.                  *)
LEMMA Brought ==
  ASSUME ServerShapes, NEW l \in lists, Listing(l), ReadList(l)
  PROVE  \E m : /\ lists' = (lists \ {l}) \cup {m} /\ Listing(m)
                /\ m.no = l.no /\ m.read = TRUE /\ m.got = Listed
<1> DEFINE m == [l EXCEPT !.read = TRUE, !.got = Listed]
<1>1. l \in [no : {l.no}, id : {l.id}, read : {l.read}, got : {l.got}] /\ l.no \in Nat
  BY DEF Listing
<1>2. m.no = l.no /\ m.read = TRUE /\ m.got = Listed
      /\ m \in [no : {l.no}, id : {l.id}, read : {TRUE}, got : {Listed}]
  BY <1>1
<1>3. lists' = (lists \ {l}) \cup {m}  BY DEF ReadList, Brings
<1> HIDE DEF m
<1>4. Listed \subseteq Positive  BY DEF Listed, ServerShapes
<1>5. Listing(m)  BY <1>1, <1>2, <1>4 DEF Listing
<1> QED  BY <1>2, <1>3, <1>5

LEMMA FetchOne ==
  ASSUME NEW no \in Nat, NEW id \in Nat
  PROVE  /\ Fetch(no, id).no = no /\ Fetch(no, id).id = id /\ Fetch(no, id).read = FALSE
         /\ Fetch(no, id).got = <<>> /\ Listing(Fetch(no, id))
         /\ id \in Positive => Fetch(no, id) \in Transcripts
<1>1. /\ Fetch(no, id).no = no /\ Fetch(no, id).id = id /\ Fetch(no, id).read = FALSE
      /\ Fetch(no, id).got = <<>>
  BY DEF Fetch
<1>2. Listing(Fetch(no, id))  BY <1>1 DEF Fetch, Listing
<1>3. <<>> \in Seq(Written)  OBVIOUS
<1>4. id \in Positive => Fetch(no, id) \in Transcripts  BY <1>3 DEF Fetch, Transcripts
<1> QED  BY <1>1, <1>2, <1>4

(* The effects: what they add is numbered with their own new version.        *)
LEMMA LoadsAgain ==
  ASSUME PageShapes, NEW id \in Nat, LoadAgain(id)
  PROVE  /\ loadNo' \in Nat /\ loads' \subseteq Transcripts /\ loadId' = id
         /\ loads \subseteq loads'
         /\ \/ id = loadId /\ loads' = loads /\ loadNo' = loadNo
            \/ /\ id # loadId /\ loadNo' = loadNo + 1
               /\ \A l \in loads' \ loads : l.no = loadNo' /\ l.id = id /\ l.read = FALSE
                                            /\ l.got = <<>>
               /\ id # 0 => \E l \in loads' : l.no = loadNo'
<1>1. loads \subseteq Transcripts /\ loadNo \in Nat  BY DEF PageShapes
<1>2. CASE id = loadId  BY <1>1, <1>2 DEF LoadAgain, load
<1>3. CASE id # loadId
  <2>1. loadId' = id /\ loadNo' = loadNo + 1
        /\ loads' = loads \cup {Fetch(loadNo + 1, c) : c \in {id} \ {0}}
    BY <1>3 DEF LoadAgain
  <2>2. id # 0 => id \in Positive  BY DEF Positive
  <2>3. loadNo + 1 \in Nat  BY <1>1
  <2>4. \A l \in loads' : l \in loads \/ (l = Fetch(loadNo + 1, id) /\ id # 0)  BY <2>1
  <2>5. id # 0 => Fetch(loadNo + 1, id) \in loads'  BY <2>1
  <2> DEFINE f == Fetch(loadNo + 1, id)
  <2>6. f.no = loadNo + 1 /\ f.id = id /\ f.read = FALSE /\ f.got = <<>>
        /\ (id \in Positive => f \in Transcripts)
    <3> DEFINE no == loadNo + 1
    <3>1. no \in Nat  BY <2>3
    <3> HIDE DEF no
    <3>2. /\ Fetch(no, id).no = no /\ Fetch(no, id).id = id /\ Fetch(no, id).read = FALSE
          /\ Fetch(no, id).got = <<>> /\ (id \in Positive => Fetch(no, id) \in Transcripts)
      BY <3>1, FetchOne
    <3> QED  BY <3>2 DEF no
  <2> HIDE DEF f
  <2>7. (\A l \in loads' : l \in loads \/ (l = f /\ id # 0)) /\ (id # 0 => f \in loads')
    BY <2>4, <2>5 DEF f
  <2> QED  BY <1>1, <1>3, <2>1, <2>2, <2>3, <2>6, <2>7
<1> QED  BY <1>2, <1>3

LEMMA EndsAgain ==
  ASSUME PageShapes, Ended
  PROVE  /\ followNo' = followNo + 1 /\ asks' \subseteq Transcripts /\ asks \subseteq asks'
         /\ \A a \in asks' \ asks : a.no = followNo' /\ a.id = open /\ a.read = FALSE
         /\ listNo' = listNo + 1 /\ lists \subseteq lists' /\ \E l \in lists' : l.no = listNo'
         /\ \A l \in lists' \ lists : Listing(l) /\ l.no = listNo' /\ l.read = FALSE
         /\ followNo' \in Nat /\ listNo' \in Nat /\ items' = items /\ follow' = follow
<1>1. followNo + 1 \in Nat /\ listNo + 1 \in Nat /\ asks \subseteq Transcripts /\ open \in Nat
  BY DEF PageShapes
<1>2. \A a \in asks' : a \in asks \/ (a = Fetch(followNo + 1, open) /\ open \in Positive)
  BY <1>1 DEF Ended, Positive
<1>3. lists' = lists \cup {Fetch(listNo + 1, 0)}  BY DEF Ended
<1>4. /\ followNo' = followNo + 1 /\ listNo' = listNo + 1 /\ items' = items /\ follow' = follow
      /\ asks \subseteq asks'
  BY DEF Ended
<1> DEFINE a0 == Fetch(followNo + 1, open)  l0 == Fetch(listNo + 1, 0)
<1>5. a0.no = followNo + 1 /\ a0.id = open /\ a0.read = FALSE
      /\ (open \in Positive => a0 \in Transcripts)
  BY <1>1, FetchOne
<1>6. l0.no = listNo + 1 /\ l0.read = FALSE /\ Listing(l0)  BY <1>1, FetchOne
<1>7. (\A a \in asks' : a \in asks \/ (a = a0 /\ open \in Positive)) /\ lists' = lists \cup {l0}
  BY <1>2, <1>3
<1> HIDE DEF a0, l0
<1> QED  BY <1>1, <1>4, <1>5, <1>6, <1>7

-----------------------------------------------------------------------------
(* The shapes.                                                               *)

LEMMA ServerShapesKept ==
  ASSUME ChatShapes, [ChatNext]_chatVars
  PROVE  ServerShapes'
<1> USE DEF ChatShapes
<1>0. ServerShapes  OBVIOUS
<1>1. CASE Send \/ Resend  BY <1>1, Posts DEF ServerShapes
<1>2. CASE Stop \/ Reload
  <2>1. work' = {[w EXCEPT !.live = FALSE] : w \in work} /\ stored' = stored
        /\ removals' \subseteq removals
    BY <1>2 DEF Stop, Reload
  <2> QED  BY <2>1, Hushed DEF ServerShapes
<1>3. CASE \E c \in 1..MaxChats : DeleteChat(c)
  <2>1. PICK c : /\ c \in items
                 /\ removals' = removals \cup {[id |-> c, active |-> active, done |-> FALSE]}
                 /\ UNCHANGED <<stored, work>>
    BY <1>3 DEF DeleteChat
  <2>2. c \in Positive /\ active \in Nat  BY <2>1 DEF PageShapes
  <2>3. [id |-> c, active |-> active, done |-> FALSE] \in Removals  BY <2>2 DEF Removals
  <2> QED  BY <2>1, <2>3 DEF ServerShapes
<1>4. CASE \E w \in work : ServerStep(w)
  <2>1. PICK w \in work : ServerStep(w)  BY <1>4
  <2>2. w \in ChatRequests /\ w.chat \in Positive /\ IsUser(w.ask)
    BY DEF ServerShapes, ChatRequests
  <2>3. /\ work' \subseteq ChatRequests /\ \A v \in work' : IsUser(v.ask)
        /\ removals' \subseteq Removals
    BY <2>1, <2>2, ServerWork DEF ServerShapes
  <2>4. DOMAIN stored' \subseteq Positive /\ \A c \in DOMAIN stored' : stored'[c] \in Seq(Written)
    <3>1. CASE stored' = stored  BY <3>1 DEF ServerShapes
    <3>2. CASE \E lines \in Seq(Written) : stored' = Put(w.chat, lines)
      <4>1. PICK lines \in Seq(Written) : stored' = Put(w.chat, lines)  BY <3>2
      <4>2. DOMAIN stored' = DOMAIN stored \cup {w.chat} /\ stored'[w.chat] = lines
            /\ \A d \in DOMAIN stored : d # w.chat => stored'[d] = stored[d]
        BY <2>2, <4>1, PutOne
      <4> QED  BY <2>2, <4>2 DEF ServerShapes
    <3> QED  BY <2>1, <3>1, <3>2, ServerStores
  <2> QED  BY <2>3, <2>4 DEF ServerShapes
<1>5. CASE \E w \in work : Forsaken(w) \/ End(w)  BY <1>5 DEF Forsaken, End, ServerShapes
<1>6. CASE \E d \in removals : DeleteRow(d)
  <2>1. PICK d \in removals : DeleteRow(d)  BY <1>6
  <2> DEFINE e == [d EXCEPT !.done = TRUE]
  <2>2. e \in Removals  BY DEF ServerShapes, Removals
  <2>3. removals' = (removals \ {d}) \cup {e} /\ work' = work
        /\ stored' = [c \in DOMAIN stored \ {d.id} |-> stored[c]]
    BY <2>1 DEF DeleteRow
  <2> HIDE DEF e
  <2> QED  BY <2>2, <2>3 DEF ServerShapes
<1>7. CASE \E d \in removals : Deleted(d)  BY <1>7 DEF Deleted, ServerShapes
<1>8. CASE UNCHANGED <<stored, work, removals>>  BY <1>8 DEF ServerShapes
<1>9. ChatNext => \/ Send \/ Resend \/ Stop \/ Reload
                  \/ \E c \in 1..MaxChats : DeleteChat(c)
                  \/ \E w \in work : ServerStep(w) \/ Forsaken(w) \/ End(w)
                  \/ \E d \in removals : DeleteRow(d) \/ Deleted(d)
                  \/ UNCHANGED <<stored, work, removals>>
  BY DEF ChatNext, ServerStep, NewChat, FetchFails, OpenChat, Chunk, LinesRead, Loaded, ReadList,
         GotList, ReadTurns, Suggested
<1>10. UNCHANGED chatVars => UNCHANGED <<stored, work, removals>>  BY DEF chatVars
<1> QED  BY <1>1, <1>2, <1>3, <1>4, <1>5, <1>6, <1>7, <1>8, <1>9, <1>10

LEMMA PageShapesKept ==
  ASSUME ChatShapes, [ChatNext]_chatVars
  PROVE  PageShapes'
<1> USE DEF ChatShapes
<1>0. ServerShapes /\ PageShapes  OBVIOUS
<1>1. CASE Send \/ Resend
  <2>1. /\ shown' \in Seq(Written) /\ open' = Target /\ active' = Target /\ chats' \in Nat
        /\ Target \in Positive /\ FollowAgain(TRUE) /\ UNCHANGED <<load, list>>
        /\ asked' \in {asked, asked + 1}
    BY <1>1, Posts
  <2> QED  BY <2>1 DEF PageShapes, FollowAgain, load, list, Positive
<1>2. CASE Stop
  <2>1. Ended /\ UNCHANGED <<thread, load, chats, asked>>  BY <1>2 DEF Stop, Click
  <2>2. \A l \in lists' : Listing(l)  BY <1>0, <2>1, EndsAgain DEF PageShapes
  <2> QED  BY <2>1, <2>2, EndsAgain DEF PageShapes, thread, load
<1>3. CASE Reload
  <2>1. active \in Nat /\ loadNo + 1 \in Nat /\ listNo + 1 \in Nat /\ followNo + 1 \in Nat
    BY DEF PageShapes
  <2>2. loads' \subseteq Transcripts
    <3>1. \A l \in loads' : l = Fetch(loadNo + 1, active) /\ active \in Positive
      BY <1>3, <2>1 DEF Reload, Positive
    <3>2. active \in Positive => Fetch(loadNo + 1, active) \in Transcripts  BY <2>1, FetchOne
    <3> QED  BY <3>1, <3>2
  <2>3. \A l \in lists' : Listing(l)
    <3>1. lists' = {Fetch(listNo + 1, 0)}  BY <1>3 DEF Reload
    <3>2. Listing(Fetch(listNo + 1, 0))  BY <2>1, FetchOne
    <3> QED  BY <3>1, <3>2
  <2>4. shown' \in Seq(Written) /\ asks' = {} /\ items' = {} /\ chats' = chats /\ asked' = asked
        /\ open' = active /\ active' = active /\ loadId' = active /\ loadNo' = loadNo + 1
        /\ listNo' = listNo + 1 /\ followNo' = followNo + 1
    BY <1>3, EmptySeq DEF Reload, Click
  <2> QED  BY <2>1, <2>2, <2>3, <2>4 DEF PageShapes
<1>4. CASE FetchFails
  <2>1. shown' \in {shown, <<>>} /\ loads' \subseteq loads /\ lists' \subseteq lists
        /\ asks' \subseteq asks
        /\ UNCHANGED <<open, active, loadId, loadNo, items, listNo, followNo, chats, asked>>
    BY <1>4 DEF FetchFails, Fault, Click
  <2> QED  BY <2>1, EmptySeq DEF PageShapes
<1>5. CASE \E c \in 1..MaxChats : OpenChat(c)
  <2>1. PICK c : c \in items /\ active' = c /\ open' = c /\ LoadAgain(c)
                 /\ (UNCHANGED ups \/ FollowAgain(FALSE)) /\ UNCHANGED <<shown, list, chats, asked>>
    BY <1>5 DEF OpenChat, Click
  <2>2. c \in Nat  BY <2>1 DEF PageShapes, Positive
  <2>3. loadNo' \in Nat /\ loads' \subseteq Transcripts /\ loadId' = c
    BY <1>0, <2>1, <2>2, LoadsAgain
  <2>4. followNo' \in Nat /\ asks' = asks  BY <2>1 DEF FollowAgain, ups, PageShapes
  <2> QED  BY <2>1, <2>2, <2>3, <2>4 DEF PageShapes, list
<1>6. CASE NewChat \/ \E d \in removals : Deleted(d) /\ Fresh
  <2>1. Fresh /\ items' \subseteq items /\ UNCHANGED <<listNo, lists, chats, asked>>
    BY <1>6 DEF NewChat, Deleted, list, counts, Click
  <2>2. loadNo' \in Nat /\ loads' \subseteq Transcripts /\ loadId' = 0
    BY <1>0, <2>1, LoadsAgain DEF Fresh
  <2>3. followNo' \in Nat /\ asks' = asks  BY <2>1 DEF Fresh, FollowAgain, PageShapes
  <2>4. open' = 0 /\ active' = 0 /\ shown' \in Seq(Written)  BY <2>1, EmptySeq DEF Fresh
  <2> QED  BY <2>1, <2>2, <2>3, <2>4 DEF PageShapes
<1>7. CASE \E d \in removals : Deleted(d) /\ ~Fresh
  BY <1>7 DEF Deleted, PageShapes, thread, load, ups, counts
<1>8. CASE \E w \in work : Chunk(w)
  <2>1. PICK w \in work : Chunk(w)  BY <1>8
  <2>2. Answer(w) \in Written  BY AnswerOne DEF ServerShapes
  <2>3. shown' \in Seq(Written)  BY <2>1, <2>2, AppendOne DEF Chunk, PageShapes
  <2> QED  BY <2>1, <2>3 DEF Chunk, PageShapes, load, list, ups, counts
<1>9. CASE \E w \in work : End(w)
  <2>1. Ended /\ UNCHANGED <<thread, load, counts>>  BY <1>9 DEF End
  <2>2. \A l \in lists' : Listing(l)  BY <1>0, <2>1, EndsAgain DEF PageShapes
  <2> QED  BY <2>1, <2>2, EndsAgain DEF PageShapes, thread, load, counts
<1>10. CASE \E l \in loads : LinesRead(l)
  <2>1. PICK l \in loads : LinesRead(l)  BY <1>10
  <2> DEFINE m == [l EXCEPT !.read = TRUE, !.got = LinesOf(l.id)]
  <2>2. l \in Transcripts /\ LinesOf(l.id) \in Seq(Written)  BY LinesOfOne DEF PageShapes
  <2>3. m \in Transcripts  BY <2>2 DEF Transcripts
  <2>4. loads' = (loads \ {l}) \cup {m}  BY <2>1 DEF LinesRead, Brings
  <2> HIDE DEF m
  <2> QED  BY <2>1, <2>3, <2>4 DEF LinesRead, PageShapes, thread, list, ups, counts
<1>11. CASE \E a \in asks : ReadTurns(a)
  <2>1. PICK a \in asks : ReadTurns(a)  BY <1>11
  <2> DEFINE b == [a EXCEPT !.read = TRUE, !.got = LinesOf(a.id)]
  <2>2. a \in Transcripts /\ LinesOf(a.id) \in Seq(Written)  BY LinesOfOne DEF PageShapes
  <2>3. b \in Transcripts  BY <2>2 DEF Transcripts
  <2>4. asks' = (asks \ {a}) \cup {b}  BY <2>1 DEF ReadTurns, Brings
  <2> HIDE DEF b
  <2> QED  BY <2>1, <2>3, <2>4 DEF ReadTurns, PageShapes, thread, load, list, counts
<1>12. CASE \E l \in lists : ReadList(l)
  <2>1. PICK l \in lists : ReadList(l)  BY <1>12
  <2>2. PICK m : lists' = (lists \ {l}) \cup {m} /\ Listing(m)
    BY <2>1, Brought DEF PageShapes
  <2> QED  BY <2>1, <2>2 DEF ReadList, PageShapes, thread, load, ups, counts
<1>13. CASE \E l \in loads : Loaded(l)
  <2>1. PICK l \in loads : l \in Transcripts /\ Loaded(l)  BY <1>13 DEF PageShapes
  <2>2. l.got \in Seq(Written)  BY <2>1 DEF Transcripts
  <2> QED  BY <2>1, <2>2 DEF Loaded, PageShapes, list, ups, counts
<1>14. CASE \E l \in lists : GotList(l)
  BY <1>14 DEF GotList, PageShapes, Listing, thread, load, ups, counts
<1>15. CASE \E a \in asks : Suggested(a)
  BY <1>15 DEF Suggested, PageShapes, thread, load, list, counts
<1>16. CASE \E w \in work : ServerStep(w)
  BY <1>0, <1>16, ServerWork DEF PageShapes, thread, load, list, ups
<1>17. CASE UNCHANGED <<thread, load, list, ups, chats, asked>>
  BY <1>17 DEF PageShapes, thread, load, list, ups
<1>18. ChatNext =>
         \/ Send \/ Resend \/ Stop \/ NewChat \/ Reload \/ FetchFails
         \/ \E c \in 1..MaxChats : OpenChat(c)
         \/ \E w \in work : ServerStep(w) \/ Chunk(w) \/ End(w)
         \/ \E d \in removals : Deleted(d)
         \/ \E l \in loads : LinesRead(l) \/ Loaded(l)
         \/ \E l \in lists : ReadList(l) \/ GotList(l)
         \/ \E a \in asks : ReadTurns(a) \/ Suggested(a)
         \/ UNCHANGED <<thread, load, list, ups, chats, asked>>
  BY DEF ChatNext, ServerStep, DeleteChat, Forsaken, DeleteRow, Click, counts
<1>19. UNCHANGED chatVars => UNCHANGED <<thread, load, list, ups, chats, asked>>
  BY DEF chatVars, counts
<1> QED  BY <1>1, <1>2, <1>3, <1>4, <1>5, <1>6, <1>7, <1>8, <1>9, <1>10, <1>11, <1>12, <1>13,
            <1>14, <1>15, <1>16, <1>17, <1>18, <1>19

(* What was odd stays odd.                                                   *)
LEMMA OddGrows ==
  ASSUME ChatShapes, [ChatNext]_chatVars
  PROVE  odd \subseteq odd'
<1>1. CASE Send \/ Resend  BY <1>1, Posts
<1>2. CASE Stop \/ Reload \/ FetchFails  BY <1>2 DEF Stop, Reload, FetchFails, Fault, Note
<1>3. CASE NewChat  BY <1>3 DEF NewChat, Fresh, Note
<1>4. CASE \E c \in 1..MaxChats : OpenChat(c) \/ DeleteChat(c)
  BY <1>4 DEF OpenChat, DeleteChat, Note
<1>5. CASE \E w \in work : \/ Claims(w) \/ Place(w) \/ Store(w) \/ Refuse(w) \/ Gone(w)
                           \/ Forsaken(w) \/ Chunk(w) \/ End(w)
  BY <1>5 DEF Claims, Place, Store, Refuse, Gone, Forsaken, Chunk, End, Served, Fault, Note
<1>6. CASE \E d \in removals : DeleteRow(d) \/ Deleted(d)
  BY <1>6 DEF DeleteRow, Deleted, Fresh, Note
<1>7. CASE \/ \E l \in loads : LinesRead(l) \/ Loaded(l)
           \/ \E l \in lists : ReadList(l) \/ GotList(l)
           \/ \E a \in asks : ReadTurns(a) \/ Suggested(a)
  BY <1>7 DEF LinesRead, Loaded, ReadList, GotList, ReadTurns, Suggested
<1>8. CASE UNCHANGED chatVars  BY <1>8 DEF chatVars
<1> QED  BY <1>1, <1>2, <1>3, <1>4, <1>5, <1>6, <1>7, <1>8 DEF ChatNext

LEMMA OneAnswerKept ==
  ASSUME ChatShapes, OneAnswer, [ChatNext]_chatVars
  PROVE  OneAnswer'
<1>0. SUFFICES ASSUME "lost" \notin odd'
               PROVE  (\A w \in work' : w.live) /\ \A v, w \in work' : v = w
  BY DEF OneAnswer
<1>a. ServerShapes /\ (\A w \in work : w.live) /\ \A v, w \in work : v = w
  BY <1>0, OddGrows DEF OneAnswer, ChatShapes
<1>1. CASE Send \/ Resend
  <2>1. PICK q \in Written, again \in BOOLEAN :
          ~Busy /\ work' = work \cup {Goes(q, again)} /\ Goes(q, again).live = TRUE
    BY <1>1, Posts
  <2>2. work = {}  BY <1>a, <2>1 DEF Busy
  <2> QED  BY <2>1, <2>2
<1>2. CASE Stop \/ FetchFails  BY <1>0, <1>2 DEF Stop, FetchFails, Fault, Note
<1>3. CASE Reload
  <2>1. work = {}  BY <1>0, <1>a, <1>3 DEF Reload, Note, Busy
  <2> QED  BY <1>3, <2>1 DEF Reload
<1>4. CASE \E w \in work : ServerStep(w)
  <2>1. PICK w \in work, v \in ChatRequests : v.live = w.live /\ work' = (work \ {w}) \cup {v}
    BY <1>a, <1>4, ServerWork
  <2> QED  BY <1>a, <2>1
<1>5. CASE \E w \in work : Forsaken(w) \/ End(w)  BY <1>5, <1>a DEF Forsaken, End
<1>6. CASE UNCHANGED work  BY <1>6, <1>a
<1>7. ChatNext => \/ Send \/ Resend \/ Stop \/ FetchFails \/ Reload
                  \/ \E w \in work : ServerStep(w) \/ Forsaken(w) \/ End(w)
                  \/ UNCHANGED work
  BY DEF ChatNext, ServerStep, NewChat, OpenChat, DeleteChat, Chunk, LinesRead, Loaded, ReadList,
         GotList, ReadTurns, Suggested, DeleteRow, Deleted
<1>8. UNCHANGED chatVars => UNCHANGED work  BY DEF chatVars
<1> QED  BY <1>1, <1>2, <1>3, <1>4, <1>5, <1>6, <1>7, <1>8

LEMMA LoadsFitKept ==
  ASSUME ChatShapes, LoadsFit, [ChatNext]_chatVars
  PROVE  LoadsFit'
<1>0. /\ ServerShapes /\ PageShapes
      /\ {loadNo, listNo, followNo} \subseteq Nat /\ open \in Nat /\ active = open
      /\ \A l \in loads : l.no \in Nat
      /\ \A l \in lists : l.no \in Nat
      /\ \A a \in asks : a.no \in Nat
  BY DEF ChatShapes, PageShapes, Transcripts, Listing
<1>1. CASE Send \/ Resend
  <2>1. /\ open' = Target /\ FollowAgain(TRUE) /\ UNCHANGED <<load, list>>
    BY <1>1, Posts
  <2>2. open # 0 => Target = open  BY DEF Target
  <2>3. loadId' \in {0, open'} /\ UNCHANGED <<loads, loadId, loadNo, lists, listNo, asks>>
        /\ followNo' = followNo + 1
    BY <2>1, <2>2 DEF LoadsFit, load, list, FollowAgain
  <2> QED  BY <1>0, <2>3 DEF LoadsFit
<1>2. CASE Stop \/ \E w \in work : End(w)
  <2>1. Ended /\ UNCHANGED <<thread, load>>  BY <1>2 DEF Stop, End
  <2>0. /\ followNo' = followNo + 1 /\ \A a \in asks' \ asks : a.no = followNo'
        /\ listNo' = listNo + 1 /\ \A l \in lists' \ lists : l.no = listNo'
    BY <1>0, <2>1, EndsAgain
  <2>2. \A a \in asks' : a.no <= followNo'  BY <1>0, <2>0 DEF LoadsFit
  <2>3. \A l \in lists' : l.no <= listNo'  BY <1>0, <2>0 DEF LoadsFit
  <2> QED  BY <2>1, <2>2, <2>3 DEF LoadsFit, thread, load
<1>3. CASE Reload
  <2>1. loadNo + 1 \in Nat /\ listNo + 1 \in Nat  BY <1>0
  <2>2. /\ loadId' = open' /\ loadNo' = loadNo + 1 /\ listNo' = listNo + 1 /\ asks' = {}
        /\ \A l \in loads' : l = Fetch(loadNo + 1, loadId')
        /\ \A l \in lists' : l = Fetch(listNo + 1, 0)
    BY <1>3 DEF Reload
  <2>3. /\ \A l \in loads' : l.no = loadNo' /\ l.id = loadId'
        /\ \A l \in lists' : l.no = listNo'
    BY <2>2 DEF Fetch
  <2> QED  BY <2>1, <2>2, <2>3 DEF LoadsFit
<1>4. CASE \/ \E c \in 1..MaxChats : OpenChat(c)
           \/ NewChat
           \/ \E d \in removals : Deleted(d) /\ Fresh
  <2>1. PICK id \in Nat : /\ open' = id /\ LoadAgain(id) /\ (UNCHANGED ups \/ FollowAgain(FALSE))
                          /\ UNCHANGED <<listNo, lists>>
    <3>1. CASE \E c \in 1..MaxChats : OpenChat(c)
      BY <3>1 DEF OpenChat, list, ChatShapes, PageShapes, Positive
    <3>2. CASE NewChat \/ \E d \in removals : Deleted(d) /\ Fresh
      <4>1. 0 \in Nat /\ open' = 0 /\ LoadAgain(0) /\ FollowAgain(FALSE)
            /\ UNCHANGED <<listNo, lists>>
        BY <3>2 DEF NewChat, Deleted, Fresh, list
      <4> QED  BY <4>1
    <3> QED  BY <1>4, <3>1, <3>2
  <2>2. /\ loadId' = id /\ loadNo' \in Nat
        /\ \/ id = loadId /\ loads' = loads /\ loadNo' = loadNo
           \/ /\ loadNo' = loadNo + 1
              /\ \A l \in loads' \ loads : l.no = loadNo' /\ l.id = id
    BY <1>0, <2>1, LoadsAgain
  <2>3. \A l \in loads' : l.no <= loadNo' /\ (l.no = loadNo' => l.id = loadId')
    BY <1>0, <2>2 DEF LoadsFit
  <2>4. asks' = asks /\ followNo' \in {followNo, followNo + 1}
    BY <2>1 DEF FollowAgain, ups
  <2> QED  BY <1>0, <2>1, <2>2, <2>3, <2>4 DEF LoadsFit
<1>5. CASE \E d \in removals : Deleted(d) /\ ~Fresh
  BY <1>5 DEF Deleted, LoadsFit, thread, load, ups
<1>6. CASE \E l \in loads : LinesRead(l)
  <2>1. PICK l \in loads : LinesRead(l)  BY <1>6
  <2> DEFINE m == [l EXCEPT !.read = TRUE, !.got = LinesOf(l.id)]
  <2>2. m.no = l.no /\ m.id = l.id  BY DEF ChatShapes, PageShapes, Transcripts
  <2>3. loads' = (loads \ {l}) \cup {m} /\ UNCHANGED <<thread, loadId, loadNo, list, ups>>
    BY <2>1 DEF LinesRead, Brings
  <2> HIDE DEF m
  <2> QED  BY <2>2, <2>3 DEF LoadsFit, thread, list, ups
<1>7. CASE \E a \in asks : ReadTurns(a)
  <2>1. PICK a \in asks : ReadTurns(a)  BY <1>7
  <2> DEFINE b == [a EXCEPT !.read = TRUE, !.got = LinesOf(a.id)]
  <2>2. b.no = a.no  BY DEF ChatShapes, PageShapes, Transcripts
  <2>3. asks' = (asks \ {a}) \cup {b} /\ UNCHANGED <<thread, load, list, follow, followNo>>
    BY <2>1 DEF ReadTurns, Brings
  <2> HIDE DEF b
  <2> QED  BY <2>2, <2>3 DEF LoadsFit, thread, load, list
<1>8. CASE \E l \in lists : ReadList(l)
  <2>1. PICK l \in lists : ReadList(l)  BY <1>8
  <2>2. PICK m : lists' = (lists \ {l}) \cup {m} /\ m.no = l.no
    BY <1>0, <2>1, Brought DEF PageShapes
  <2> QED  BY <2>1, <2>2 DEF ReadList, LoadsFit, thread, load, ups
<1>9. CASE /\ loads' \subseteq loads /\ lists' \subseteq lists /\ asks' \subseteq asks
           /\ UNCHANGED <<open, loadId, loadNo, listNo, followNo>>
  BY <1>9 DEF LoadsFit
<1>10. ChatNext =>
         \/ Send \/ Resend \/ Stop \/ NewChat \/ Reload
         \/ \E c \in 1..MaxChats : OpenChat(c)
         \/ \E w \in work : End(w)
         \/ \E d \in removals : Deleted(d)
         \/ \E l \in loads : LinesRead(l)
         \/ \E l \in lists : ReadList(l)
         \/ \E a \in asks : ReadTurns(a)
         \/ /\ loads' \subseteq loads /\ lists' \subseteq lists /\ asks' \subseteq asks
            /\ UNCHANGED <<open, loadId, loadNo, listNo, followNo>>
  <2>1. FetchFails \/ (\E c \in 1..MaxChats : DeleteChat(c)) \/ (\E d \in removals : DeleteRow(d))
        \/ (\E w \in work : ServerStep(w) \/ Forsaken(w) \/ Chunk(w))
        \/ (\E l \in loads : Loaded(l)) \/ (\E l \in lists : GotList(l))
        \/ (\E a \in asks : Suggested(a))
        => /\ loads' \subseteq loads /\ lists' \subseteq lists /\ asks' \subseteq asks
           /\ UNCHANGED <<open, loadId, loadNo, listNo, followNo>>
    BY <1>0, ServerWork DEF FetchFails, DeleteChat, DeleteRow, Forsaken, Chunk, Loaded, GotList,
       Suggested, thread, load, list, ups
  <2> QED  BY <2>1 DEF ChatNext, ServerStep
<1>11. UNCHANGED chatVars => UNCHANGED <<thread, load, list, ups>>  BY DEF chatVars
<1>12. CASE UNCHANGED <<thread, load, list, ups>>  BY <1>12 DEF LoadsFit, thread, load, list, ups
<1> QED  BY <1>1, <1>2, <1>3, <1>4, <1>5, <1>6, <1>7, <1>8, <1>9, <1>10, <1>11, <1>12

LEMMA FollowKept ==
  ASSUME ChatShapes, LoadsFit, OneAnswer, FollowInv, [ChatNext]_chatVars
  PROVE  FollowInv'
<1>0. SUFFICES ASSUME "lost" \notin odd'
               PROVE  /\ work' # {} => follow' = None /\ \A a \in asks' : a.no # followNo'
                      /\ follow'.id \in DOMAIN stored' => follow'.from = stored'[follow'.id]
                      /\ \A a \in asks' : a.no = followNo' /\ a.read /\ a.id \in DOMAIN stored' =>
                           a.got = stored'[a.id]
  BY DEF FollowInv
<1>a. /\ ServerShapes /\ PageShapes /\ followNo \in Nat
      /\ \A a \in asks : a \in Transcripts /\ a.no \in Nat /\ a.no <= followNo
      /\ None.id = 0 /\ 0 \notin DOMAIN stored
  BY DEF ChatShapes, PageShapes, ServerShapes, LoadsFit, None, Positive, Transcripts
<1>b. "lost" \notin odd /\ (\A w \in work : w.live) /\ \A v, w \in work : v = w
  BY <1>0, OddGrows DEF OneAnswer
<1>c. /\ work # {} => follow = None /\ \A a \in asks : a.no # followNo
      /\ follow.id \in DOMAIN stored => follow.from = stored[follow.id]
      /\ \A a \in asks : a.no = followNo /\ a.read /\ a.id \in DOMAIN stored => a.got = stored[a.id]
  BY <1>b DEF FollowInv
<1>1. CASE Send \/ Resend
  <2>1. FollowAgain(TRUE) /\ stored' = stored  BY <1>1, Posts
  <2>2. follow' = None /\ asks' = asks /\ followNo' = followNo + 1  BY <2>1 DEF FollowAgain
  <2> QED  BY <1>a, <2>1, <2>2
<1>2. CASE Stop \/ FetchFails  BY <1>0, <1>2 DEF Stop, FetchFails, Fault, Note
<1>3. CASE Reload  BY <1>3, <1>a DEF Reload
<1>4. CASE \/ \E c \in 1..MaxChats : OpenChat(c)
           \/ NewChat
           \/ \E d \in removals : Deleted(d) /\ Fresh
  <2>1. (UNCHANGED ups \/ FollowAgain(FALSE)) /\ UNCHANGED <<stored, work>>
    BY <1>4 DEF OpenChat, NewChat, Deleted, Fresh
  <2>2. /\ follow' = follow /\ asks' = asks /\ UNCHANGED <<stored, work>>
        /\ followNo' \in {followNo, followNo + 1}
    BY <2>1 DEF ups, FollowAgain
  <2>3. followNo' = followNo \/ \A a \in asks : a.no # followNo'  BY <1>a, <2>2
  <2> QED  BY <1>c, <2>2, <2>3
<1>5. CASE \E w \in work : ServerStep(w)
  <2>1. UNCHANGED ups /\ work # {}  BY <1>a, <1>5, ServerWork
  <2>2. DOMAIN stored' \subseteq Positive  BY ServerShapesKept DEF ServerShapes
  <2> QED  BY <1>a, <1>c, <2>1, <2>2 DEF ups, Positive
<1>6. CASE \E w \in work : Forsaken(w)  BY <1>6, <1>b DEF Forsaken
<1>7. CASE \E w \in work : End(w)
  <2>1. PICK w \in work : End(w)  BY <1>7
  <2>2. work' = {} /\ Ended /\ stored' = stored  BY <1>b, <2>1 DEF End
  <2>3. follow = None  BY <1>c, <2>1
  <2>4. /\ followNo' = followNo + 1 /\ follow' = follow
        /\ \A a \in asks' \ asks : a.read = FALSE
    BY <1>a, <2>2, EndsAgain
  <2> QED  BY <1>a, <2>2, <2>3, <2>4
<1>8. CASE \E d \in removals : DeleteRow(d)
  <2>1. PICK d : stored' = [c \in DOMAIN stored \ {d.id} |-> stored[c]] /\ UNCHANGED <<work, ups>>
    BY <1>8 DEF DeleteRow
  <2>2. \A c \in DOMAIN stored' : c \in DOMAIN stored /\ stored'[c] = stored[c]
    BY <2>1
  <2> QED  BY <1>c, <2>1, <2>2 DEF ups
<1>9. CASE \E a \in asks : ReadTurns(a)
  <2>1. PICK a \in asks : ReadTurns(a)  BY <1>9
  <2> DEFINE b == [a EXCEPT !.read = TRUE, !.got = LinesOf(a.id)]
  <2>2. b.no = a.no /\ b.id = a.id /\ b.got = LinesOf(a.id)  BY <1>a DEF Transcripts
  <2>4. a.id \in DOMAIN stored => LinesOf(a.id) = stored[a.id]  BY <1>a, LinesOfOne
  <2>3. asks' = (asks \ {a}) \cup {b} /\ UNCHANGED <<stored, work, follow, followNo>>
    BY <2>1 DEF ReadTurns, Brings
  <2> HIDE DEF b
  <2> QED  BY <1>c, <2>2, <2>3, <2>4
<1>10. CASE \E a \in asks : Suggested(a)
  <2>1. PICK a \in asks : Suggested(a)  BY <1>10
  <2>2. /\ asks' = asks \ {a} /\ a.read /\ UNCHANGED <<stored, work, followNo>>
        /\ follow' = IF a.no = followNo THEN [id |-> a.id, from |-> a.got] ELSE follow
    BY <2>1 DEF Suggested
  <2>3. CASE a.no = followNo
    <3>1. follow'.id = a.id /\ follow'.from = a.got /\ work = {}  BY <1>c, <2>2, <2>3
    <3> QED  BY <1>c, <2>2, <2>3, <3>1
  <2> QED  BY <1>c, <2>2, <2>3
<1>11. CASE UNCHANGED <<stored, work, ups>>  BY <1>c, <1>11 DEF ups
<1>12. ChatNext =>
         \/ Send \/ Resend \/ Stop \/ FetchFails \/ Reload \/ NewChat
         \/ \E c \in 1..MaxChats : OpenChat(c)
         \/ \E w \in work : ServerStep(w) \/ Forsaken(w) \/ End(w)
         \/ \E d \in removals : DeleteRow(d) \/ (Deleted(d) /\ Fresh)
         \/ \E a \in asks : ReadTurns(a) \/ Suggested(a)
         \/ UNCHANGED <<stored, work, ups>>
  <2>1. (\E d \in removals : Deleted(d))
        => (\E d \in removals : Deleted(d) /\ Fresh) \/ UNCHANGED <<stored, work, ups>>
    BY DEF Deleted
  <2>2. \/ \E c \in 1..MaxChats : DeleteChat(c)
        \/ \E w \in work : Chunk(w)
        \/ \E l \in loads : LinesRead(l) \/ Loaded(l)
        \/ \E l \in lists : ReadList(l) \/ GotList(l)
        => UNCHANGED <<stored, work, ups>>
    BY DEF DeleteChat, Chunk, LinesRead, Loaded, ReadList, GotList
  <2> QED  BY <2>1, <2>2 DEF ChatNext, ServerStep
<1>13. UNCHANGED chatVars => UNCHANGED <<stored, work, ups>>  BY DEF chatVars
<1> QED  BY <1>1, <1>2, <1>3, <1>4, <1>5, <1>6, <1>7, <1>8, <1>9, <1>10, <1>11, <1>12, <1>13

Mine(lines, c) == \A k \in DOMAIN lines : IsUser(lines[k]) => lines[k].chat = c

LEMMA HomeKept ==
  ASSUME ChatShapes, LoadsFit, HomeInv, [ChatNext]_chatVars
  PROVE  HomeInv'
<1>0. SUFFICES ASSUME "early" \notin odd'
               PROVE  /\ \A c \in DOMAIN stored' : AtHome(stored'[c], c)
                      /\ \A w \in work' : w.ask.chat = w.chat
                      /\ \A l \in loads' : l.read => AtHome(l.got, l.id)
                      /\ Loading' \/ Mine(shown', open')
  BY DEF HomeInv, Mine
<1>a. /\ ServerShapes /\ PageShapes /\ loadNo \in Nat /\ open \in Nat /\ active = open
      /\ (\A l \in loads : l \in Transcripts /\ l.id \in Positive) /\ shown \in Seq(Written)
      /\ items \subseteq Positive
  BY DEF ChatShapes, PageShapes, Transcripts
<1>b. /\ \A c \in DOMAIN stored : AtHome(stored[c], c)
      /\ \A w \in work : w.ask.chat = w.chat
      /\ \A l \in loads : l.read => AtHome(l.got, l.id)
      /\ Loading \/ Mine(shown, open)
  BY <1>0, OddGrows DEF HomeInv, Mine
<1>c. \A c : Mine(<<>>, c)  BY EmptySeq DEF Mine
<1>1. CASE Send \/ Resend
  <2>1. PICK q \in Written, again \in BOOLEAN :
           /\ IsUser(q) /\ Target \in Positive /\ Goes(q, again) \in ChatRequests
           /\ Goes(q, again).chat = Target /\ Goes(q, again).ask = q
           /\ work' = work \cup {Goes(q, again)}
           /\ open' = Target
           /\ odd' = odd \cup {x \in {"early"} : Loading}
                         \cup {x \in {"under delete"} : \E d \in removals : d.id = Target}
           /\ UNCHANGED <<stored, removals, load, list>>
           /\ \/ /\ shown' = Append(shown, q) /\ q = ChatLine("user", asked + 1, Target)
              \/ \E k \in DOMAIN shown : q = shown[k] /\ shown' = SubSeq(shown, 1, k)
    BY <1>1, Posts
  <2>2. ~Loading /\ Mine(shown, open)  BY <1>0, <1>b, <2>1
  <2>3. \A k \in DOMAIN shown : shown[k] \in Written /\ shown[k].chat \in Positive
    <3>1. \A k \in DOMAIN shown : shown[k] \in Written  BY <1>a, CutOne
    <3> QED  BY <3>1 DEF Written
  <2>4. Mine(shown, Target)
    <3>1. CASE open = 0  BY <2>2, <2>3, <3>1 DEF Mine, Positive
    <3>2. CASE open # 0  BY <2>2, <3>2 DEF Target
    <3> QED  BY <3>1, <3>2
  <2>5. q.chat = Target /\ Mine(shown', Target)
    <3>1. CASE shown' = Append(shown, q) /\ q = ChatLine("user", asked + 1, Target)
      <4>1. q.chat = Target  BY <3>1 DEF ChatLine
      <4>2. Mine(Append(shown, q), Target)  BY <1>a, <2>4, <4>1, AppendOne DEF Mine
      <4> QED  BY <3>1, <4>1, <4>2
    <3>2. CASE \E k \in DOMAIN shown : q = shown[k] /\ shown' = SubSeq(shown, 1, k)
      <4>1. PICK k \in DOMAIN shown : q = shown[k] /\ shown' = SubSeq(shown, 1, k)  BY <3>2
      <4>2. Mine(SubSeq(shown, 1, k), Target)  BY <1>a, <2>4, CutOne DEF Mine
      <4> QED  BY <2>1, <2>4, <4>1, <4>2 DEF Mine
    <3> QED  BY <2>1, <3>1, <3>2
  <2> QED  BY <1>b, <2>1, <2>5 DEF load
<1>2. CASE Stop
  <2>1. work' = {[w EXCEPT !.live = FALSE] : w \in work} /\ UNCHANGED <<stored, thread, load>>
    BY <1>2 DEF Stop
  <2>2. \A v \in work' : \E w \in work : v.chat = w.chat /\ v.ask = w.ask  BY <1>a, <2>1, Hushed
  <2> QED  BY <1>b, <2>1, <2>2 DEF thread, load, Loading
<1>3. CASE Reload
  <2>1. work' = {[w EXCEPT !.live = FALSE] : w \in work} /\ stored' = stored /\ shown' = <<>>
        /\ \A l \in loads' : l = Fetch(loadNo + 1, active)
    BY <1>3 DEF Reload
  <2>2. \A v \in work' : \E w \in work : v.chat = w.chat /\ v.ask = w.ask  BY <1>a, <2>1, Hushed
  <2>3. \A l \in loads' : l.read = FALSE  BY <2>1 DEF Fetch
  <2> QED  BY <1>b, <1>c, <2>1, <2>2, <2>3
<1>4. CASE \E c \in 1..MaxChats : OpenChat(c)
  <2>1. PICK c : c \in items /\ open' = c /\ LoadAgain(c) /\ UNCHANGED <<stored, work, shown>>
    BY <1>4 DEF OpenChat
  <2>2. c \in Nat /\ c # 0  BY <1>a, <2>1 DEF Positive
  <2>3. \/ c = loadId /\ loads' = loads /\ loadNo' = loadNo
        \/ /\ \A l \in loads' \ loads : l.read = FALSE
           /\ \E l \in loads' : l.no = loadNo'
    BY <1>a, <2>1, <2>2, LoadsAgain
  <2>4. c = loadId => c = open  BY <2>2 DEF LoadsFit
  <2>5. Loading' \/ Mine(shown', open')  BY <1>b, <2>1, <2>3, <2>4 DEF Loading
  <2> QED  BY <1>b, <2>1, <2>3, <2>5
<1>5. CASE NewChat \/ \E d \in removals : Deleted(d) /\ Fresh
  <2>1. Fresh /\ UNCHANGED <<stored, work>>  BY <1>5 DEF NewChat, Deleted
  <2>2. shown' = <<>> /\ \A l \in loads' \ loads : l.read = FALSE
    BY <1>a, <2>1, LoadsAgain DEF Fresh
  <2> QED  BY <1>b, <1>c, <2>1, <2>2
<1>6. CASE \E w \in work : ServerStep(w)
  <2>1. PICK w \in work : ServerStep(w)  BY <1>6
  <2>2. w \in ChatRequests /\ w.chat \in Positive /\ w.ask.chat = w.chat /\ Answer(w).chat = w.chat
    BY <1>a, <1>b, AnswerOne DEF ServerShapes, ChatRequests
  <2>3. \A v \in work' : v.ask.chat = v.chat  BY <1>a, <1>b, <2>1, ServerWork
  <2>4. UNCHANGED <<thread, load>>  BY <1>a, <2>1, ServerWork
  <2>5. \A c \in DOMAIN stored' : AtHome(stored'[c], c)
    <3>1. CASE stored' = stored  BY <1>b, <3>1
    <3>2. CASE \E lines \in Seq(Written) : stored' = Put(w.chat, lines) /\ Fits(lines, w)
      <4>1. PICK lines \in Seq(Written) : stored' = Put(w.chat, lines) /\ Fits(lines, w)  BY <3>2
      <4>2. DOMAIN stored' = DOMAIN stored \cup {w.chat} /\ stored'[w.chat] = lines
            /\ \A d \in DOMAIN stored : d # w.chat => stored'[d] = stored[d]
        BY <2>2, <4>1, PutOne
      <4>3. AtHome(LinesOf(w.chat), w.chat)  BY <1>b, EmptySeq DEF LinesOf, AtHome
      <4>4. AtHome(lines, w.chat)  BY <2>2, <4>1, <4>3 DEF Fits, AtHome
      <4> QED  BY <1>b, <4>2, <4>4
    <3> QED  BY <1>a, <2>1, <3>1, <3>2, ServerStores
  <2> QED  BY <1>b, <2>3, <2>4, <2>5 DEF thread, load, Loading
<1>7. CASE \E d \in removals : DeleteRow(d)
  <2>1. PICK d : stored' = [c \in DOMAIN stored \ {d.id} |-> stored[c]]
                 /\ UNCHANGED <<work, thread, load>>
    BY <1>7 DEF DeleteRow
  <2> QED  BY <1>b, <2>1 DEF thread, load, Loading
<1>8. CASE \E l \in loads : LinesRead(l)
  <2>1. PICK l \in loads : LinesRead(l)  BY <1>8
  <2> DEFINE m == [l EXCEPT !.read = TRUE, !.got = LinesOf(l.id)]
  <2>2. m.no = l.no /\ m.id = l.id /\ m.got = LinesOf(l.id)  BY <1>a DEF Transcripts
  <2>3. loads' = (loads \ {l}) \cup {m} /\ UNCHANGED <<stored, work, thread, loadNo>>
    BY <2>1 DEF LinesRead, Brings
  <2>4. AtHome(LinesOf(l.id), l.id)  BY <1>b, EmptySeq DEF LinesOf, AtHome
  <2> HIDE DEF m
  <2> QED  BY <1>b, <2>2, <2>3, <2>4 DEF thread, Loading
<1>9. CASE \E w \in work : Chunk(w)
  <2>1. PICK w \in work : Chunk(w)  BY <1>9
  <2>2. Answer(w) \in Written /\ ~IsUser(Answer(w))  BY <1>a, AnswerOne DEF ServerShapes
  <2>3. shown' = Append(shown, Answer(w)) /\ UNCHANGED <<stored, work, open, load>>
    BY <2>1 DEF Chunk
  <2>4. Mine(shown, open) => Mine(Append(shown, Answer(w)), open)
    BY <1>a, <2>2, AppendOne DEF Mine
  <2> QED  BY <1>b, <2>3, <2>4 DEF load, Loading
<1>10. CASE \E l \in loads : Loaded(l)
  <2>1. PICK l \in loads : /\ l.read /\ loads' = loads \ {l}
                           /\ UNCHANGED <<stored, work, open, loadNo>>
                           /\ shown' = IF l.no = loadNo THEN l.got ELSE shown
    BY <1>10 DEF Loaded
  <2>2. CASE l.no = loadNo
    <3>1. l.id = open  BY <1>a, <2>2 DEF LoadsFit, Positive
    <3>2. Mine(shown', open')  BY <1>b, <2>1, <2>2, <3>1 DEF AtHome, Mine
    <3> QED  BY <1>b, <2>1, <3>2
  <2>3. CASE l.no # loadNo  BY <1>b, <2>1, <2>3 DEF Loading
  <2> QED  BY <2>2, <2>3
<1>11. CASE FetchFails
  <2>1. /\ loads' \subseteq loads /\ UNCHANGED <<stored, work, open, loadNo>>
        /\ \/ shown' = <<>>
           \/ shown' = shown /\ \A l \in loads \ loads' : l.no # loadNo
    BY <1>11 DEF FetchFails
  <2> QED  BY <1>b, <1>c, <2>1 DEF Loading
<1>12. CASE work' \subseteq work /\ UNCHANGED <<stored, thread, load>>
  BY <1>b, <1>12 DEF thread, load, Loading
<1>13. ChatNext =>
         \/ Send \/ Resend \/ Stop \/ Reload \/ NewChat \/ FetchFails
         \/ \E c \in 1..MaxChats : OpenChat(c)
         \/ \E w \in work : ServerStep(w) \/ Chunk(w)
         \/ \E d \in removals : DeleteRow(d) \/ (Deleted(d) /\ Fresh)
         \/ \E l \in loads : LinesRead(l) \/ Loaded(l)
         \/ work' \subseteq work /\ UNCHANGED <<stored, thread, load>>
  <2>1. (\E d \in removals : Deleted(d)) =>
          \/ \E d \in removals : Deleted(d) /\ Fresh
          \/ work' \subseteq work /\ UNCHANGED <<stored, thread, load>>
    BY DEF Deleted
  <2>2. \/ \E c \in 1..MaxChats : DeleteChat(c)
        \/ \E w \in work : Forsaken(w) \/ End(w)
        \/ \E l \in lists : ReadList(l) \/ GotList(l)
        \/ \E a \in asks : ReadTurns(a) \/ Suggested(a)
        => work' \subseteq work /\ UNCHANGED <<stored, thread, load>>
    BY DEF DeleteChat, Forsaken, End, ReadList, GotList, ReadTurns, Suggested
  <2> QED  BY <2>1, <2>2 DEF ChatNext, ServerStep
<1>14. UNCHANGED chatVars => work' \subseteq work /\ UNCHANGED <<stored, thread, load>>
  BY DEF chatVars
<1> QED  BY <1>1, <1>2, <1>3, <1>4, <1>5, <1>6, <1>7, <1>8, <1>9, <1>10, <1>11, <1>12, <1>13, <1>14

LEMMA RemovalsApartKept ==
  ASSUME ChatShapes, RemovalsApart, [ChatNext]_chatVars
  PROVE  RemovalsApart'
<1>0. SUFFICES ASSUME "lost" \notin odd', "under delete" \notin odd'
               PROVE  /\ \A w \in work', d \in removals' : w.chat # d.id
                      /\ \A d \in removals' : /\ d.done => d.id \notin DOMAIN stored'
                                              /\ d.id = open' => d.active = d.id
  BY DEF RemovalsApart, Leaving
<1>a. /\ ServerShapes /\ active = open
      /\ \A d \in removals : d \in Removals /\ d.id # 0
  BY DEF ChatShapes, PageShapes, ServerShapes, Removals, Positive
<1>b. /\ \A w \in work, d \in removals : w.chat # d.id
      /\ \A d \in removals : /\ d.done => d.id \notin DOMAIN stored
                             /\ d.id = open => d.active = d.id
  BY <1>0, OddGrows DEF RemovalsApart, Leaving
<1>1. CASE Send \/ Resend
  <2>1. PICK q \in Written, again \in BOOLEAN :
          /\ Goes(q, again).chat = Target /\ work' = work \cup {Goes(q, again)} /\ open' = Target
          /\ odd' = odd \cup {x \in {"early"} : Loading}
                        \cup {x \in {"under delete"} : \E d \in removals : d.id = Target}
          /\ UNCHANGED <<stored, removals>>
    BY <1>1, Posts
  <2>2. \A d \in removals : d.id # Target  BY <1>0, <2>1
  <2> QED  BY <1>b, <2>1, <2>2
<1>2. CASE Stop \/ FetchFails  BY <1>0, <1>2 DEF Stop, FetchFails, Fault, Note
<1>3. CASE Reload  BY <1>3 DEF Reload
<1>4. CASE \E c \in 1..MaxChats : OpenChat(c)
  <2>1. PICK c : open' = c /\ UNCHANGED <<stored, work, removals>> /\ \A d \in removals : d.id # c
    BY <1>0, <1>4 DEF OpenChat
  <2> QED  BY <1>b, <2>1
<1>5. CASE NewChat  BY <1>a, <1>b, <1>5 DEF NewChat, Fresh
<1>6. CASE \E d \in removals : Deleted(d)
  <2>1. removals' \subseteq removals /\ UNCHANGED <<stored, work>> /\ open' \in {0, open}
    BY <1>6 DEF Deleted, Fresh, thread
  <2> QED  BY <1>a, <1>b, <2>1
<1>7. CASE \E c \in 1..MaxChats : DeleteChat(c)
  <2>1. PICK c : /\ removals' = removals \cup {[id |-> c, active |-> active, done |-> FALSE]}
                 /\ Note("under delete", \E w \in work : w.chat = c)
                 /\ UNCHANGED <<stored, work, thread>>
    BY <1>7 DEF DeleteChat
  <2>2. \A w \in work : w.chat # c  BY <1>0, <2>1 DEF Note
  <2> DEFINE e == [id |-> c, active |-> active, done |-> FALSE]
  <2>3. e.id = c /\ e.active = active /\ e.done = FALSE  OBVIOUS
  <2>4. removals' = removals \cup {e} /\ UNCHANGED <<stored, work, open>>  BY <2>1 DEF thread
  <2> HIDE DEF e
  <2> QED  BY <1>a, <1>b, <2>2, <2>3, <2>4
<1>8. CASE \E w \in work : ServerStep(w)
  <2>1. PICK w \in work : ServerStep(w)  BY <1>8
  <2>2. w.chat \in Positive  BY <1>a DEF ServerShapes, ChatRequests
  <2>3. UNCHANGED <<removals, thread>> /\ \A v \in work' : v \in work \/ v.chat = w.chat
    BY <1>a, <2>1, ServerWork
  <2>4. DOMAIN stored' \subseteq DOMAIN stored \cup {w.chat}
    <3>1. CASE \E lines \in Seq(Written) : stored' = Put(w.chat, lines)
      <4>1. PICK lines \in Seq(Written) : stored' = Put(w.chat, lines)  BY <3>1
      <4>2. DOMAIN stored' = DOMAIN stored \cup {w.chat}  BY <2>2, <4>1, PutOne
      <4> QED  BY <4>2
    <3> QED  BY <1>a, <2>1, <3>1, ServerStores
  <2> QED  BY <1>b, <2>1, <2>3, <2>4 DEF thread
<1>9. CASE \E d \in removals : DeleteRow(d)
  <2>1. PICK d \in removals : DeleteRow(d)  BY <1>9
  <2> DEFINE e == [d EXCEPT !.done = TRUE]
  <2>2. e.id = d.id /\ e.active = d.active  BY <1>a DEF Removals
  <2>3. removals' = (removals \ {d}) \cup {e} /\ UNCHANGED <<work, thread>>
        /\ stored' = [c \in DOMAIN stored \ {d.id} |-> stored[c]]
    BY <2>1 DEF DeleteRow
  <2> HIDE DEF e
  <2> QED  BY <1>b, <2>2, <2>3 DEF thread
<1>10. CASE work' \subseteq work /\ UNCHANGED <<stored, removals, open>>  BY <1>b, <1>10
<1>11. ChatNext =>
         \/ Send \/ Resend \/ Stop \/ FetchFails \/ Reload \/ NewChat
         \/ \E c \in 1..MaxChats : OpenChat(c) \/ DeleteChat(c)
         \/ \E w \in work : ServerStep(w)
         \/ \E d \in removals : DeleteRow(d) \/ Deleted(d)
         \/ work' \subseteq work /\ UNCHANGED <<stored, removals, open>>
  <2>1. \/ \E w \in work : Forsaken(w) \/ Chunk(w) \/ End(w)
        \/ \E l \in loads : LinesRead(l) \/ Loaded(l)
        \/ \E l \in lists : ReadList(l) \/ GotList(l)
        \/ \E a \in asks : ReadTurns(a) \/ Suggested(a)
        => work' \subseteq work /\ UNCHANGED <<stored, removals, open>>
    BY DEF Forsaken, Chunk, End, LinesRead, Loaded, ReadList, GotList, ReadTurns, Suggested, thread
  <2> QED  BY <2>1 DEF ChatNext, ServerStep
<1>12. UNCHANGED chatVars => work' \subseteq work /\ UNCHANGED <<stored, removals, open>>
  BY DEF chatVars, thread
<1> QED  BY <1>1, <1>2, <1>3, <1>4, <1>5, <1>6, <1>7, <1>8, <1>9, <1>10, <1>11, <1>12

LEMMA ListKept ==
  ASSUME ChatShapes, LoadsFit, OneAnswer, RemovalsApart, ListInv, [ChatNext]_chatVars
  PROVE  ListInv'
<1>0. SUFFICES ASSUME odd' \cap {"lost", "under delete", "list read before"} = {}, work' = {}
               PROVE  /\ \A l \in lists' : l.no = listNo' /\ l.read => l.got = Listed'
                      /\ \/ \E l \in lists' : l.no = listNo'
                         \/ \A c : c \in items' \ Leaving' <=> c \in Listed' \ Leaving'
  BY DEF ListInv
<1>a. /\ ServerShapes /\ PageShapes
      /\ listNo \in Nat
      /\ \A l \in lists : Listing(l) /\ l.no \in Nat /\ l.no <= listNo
  BY DEF ChatShapes, PageShapes, LoadsFit, Listing
<1>b. /\ odd \cap {"lost", "under delete", "list read before"} = {}
      /\ (\A w \in work : w.live) /\ \A v, w \in work : v = w
      /\ \A d \in removals : d.done => d.id \notin DOMAIN stored
  <2>1. odd \cap {"lost", "under delete", "list read before"} = {}  BY <1>0, OddGrows
  <2> QED  BY <2>1 DEF OneAnswer, RemovalsApart
<1>c. work = {} => /\ \A l \in lists : l.no = listNo /\ l.read => l.got = Listed
                   /\ \/ \E l \in lists : l.no = listNo
                      \/ \A c : c \in items \ Leaving <=> c \in Listed \ Leaving
  BY <1>b DEF ListInv
<1>1. CASE Send \/ Resend  BY <1>0, <1>1, Posts
<1>2. CASE Stop \/ FetchFails  BY <1>0, <1>2 DEF Stop, FetchFails, Fault, Note
<1>3. CASE Reload
  <2>1. lists' = {Fetch(listNo + 1, 0)} /\ listNo' = listNo + 1  BY <1>3 DEF Reload
  <2> QED  BY <2>1 DEF Fetch
<1>4. CASE \E w \in work : ServerStep(w)  BY <1>0, <1>a, <1>4, ServerWork
<1>5. CASE \E w \in work : Forsaken(w)  BY <1>b, <1>5 DEF Forsaken
<1>6. CASE \E w \in work : End(w)
  <2>1. Ended  BY <1>6 DEF End
  <2>2. /\ listNo' = listNo + 1 /\ (\E l \in lists' : l.no = listNo')
        /\ \A l \in lists' \ lists : l.read = FALSE
    BY <1>a, <2>1, EndsAgain
  <2> QED  BY <1>a, <2>2
<1>7. CASE \E c \in 1..MaxChats : DeleteChat(c)
  <2>1. PICK c : /\ removals' = removals \cup {[id |-> c, active |-> active, done |-> FALSE]}
                 /\ UNCHANGED <<stored, work, list>>
    BY <1>7 DEF DeleteChat
  <2> DEFINE e == [id |-> c, active |-> active, done |-> FALSE]
  <2>3. e.id = c /\ removals' = removals \cup {e}  BY <2>1
  <2> HIDE DEF e
  <2>2. Leaving' = Leaving \cup {c}  BY <2>3 DEF Leaving
  <2> QED  BY <1>0, <1>c, <2>1, <2>2 DEF list, Listed
<1>8. CASE \E d \in removals : DeleteRow(d)
  <2>1. PICK d \in removals : DeleteRow(d)  BY <1>8
  <2> DEFINE e == [d EXCEPT !.done = TRUE]
  <2>2. e.id = d.id  BY <1>a DEF ServerShapes, Removals
  <2>3. removals' = (removals \ {d}) \cup {e} /\ UNCHANGED <<work, list>>
        /\ stored' = [c \in DOMAIN stored \ {d.id} |-> stored[c]]
    BY <2>1 DEF DeleteRow
  <2> HIDE DEF e
  <2>4. Leaving' = Leaving /\ d.id \in Leaving  BY <2>2, <2>3 DEF Leaving
  <2>5. \A c : c \in Listed' <=> c \in Listed /\ c # d.id  BY <2>3 DEF Listed
  <2>6. ~ \E l \in lists : l.no = listNo /\ l.read  BY <1>0, <2>1 DEF DeleteRow, Note
  <2> QED  BY <1>0, <1>c, <2>3, <2>4, <2>5, <2>6 DEF list
<1>9. CASE \E d \in removals : Deleted(d)
  <2>1. PICK d \in removals : /\ d.done /\ removals' = removals \ {d} /\ items' = items \ {d.id}
                              /\ UNCHANGED <<stored, work, listNo, lists>>
    BY <1>9 DEF Deleted
  <2>2. d.id \notin Listed /\ Listed' = Listed  BY <1>b, <2>1 DEF Listed
  <2>3. \A c : (c \in Leaving' => c \in Leaving) /\ (c \in Leaving /\ c # d.id => c \in Leaving')
    BY <2>1 DEF Leaving
  <2>4. \A c : c \in items' <=> c \in items /\ c # d.id  BY <2>1
  <2>5. d.id \in Leaving  BY <2>1 DEF Leaving
  <2> QED  BY <1>0, <1>c, <2>1, <2>2, <2>3, <2>4, <2>5
<1>10. CASE \E l \in lists : ReadList(l)
  <2>1. PICK l \in lists : ReadList(l)  BY <1>10
  <2>2. PICK m : lists' = (lists \ {l}) \cup {m} /\ m.no = l.no /\ m.read = TRUE /\ m.got = Listed
    BY <1>a, <2>1, Brought
  <2>3. UNCHANGED <<stored, work, removals, items, listNo>>  BY <2>1 DEF ReadList
  <2>4. Listed' = Listed /\ Leaving' = Leaving  BY <2>3 DEF Listed, Leaving
  <2> QED  BY <1>0, <1>c, <2>2, <2>3, <2>4
<1>11. CASE \E l \in lists : GotList(l)
  <2>1. PICK l \in lists : /\ l.read /\ lists' = lists \ {l}
                           /\ items' = IF l.no = listNo THEN l.got ELSE items
                           /\ UNCHANGED <<stored, work, removals, listNo>>
    BY <1>11 DEF GotList
  <2>2. Listed' = Listed /\ Leaving' = Leaving  BY <2>1 DEF Listed, Leaving
  <2> QED  BY <1>0, <1>c, <2>1, <2>2
<1>12. CASE UNCHANGED <<stored, work, removals, list>>
  BY <1>0, <1>c, <1>12 DEF list, Listed, Leaving
<1>13. ChatNext =>
         \/ Send \/ Resend \/ Stop \/ FetchFails \/ Reload
         \/ \E c \in 1..MaxChats : DeleteChat(c)
         \/ \E w \in work : ServerStep(w) \/ Forsaken(w) \/ End(w)
         \/ \E d \in removals : DeleteRow(d) \/ Deleted(d)
         \/ \E l \in lists : ReadList(l) \/ GotList(l)
         \/ UNCHANGED <<stored, work, removals, list>>
  <2>1. \/ NewChat
        \/ \E c \in 1..MaxChats : OpenChat(c)
        \/ \E w \in work : Chunk(w)
        \/ \E l \in loads : LinesRead(l) \/ Loaded(l)
        \/ \E a \in asks : ReadTurns(a) \/ Suggested(a)
        => UNCHANGED <<stored, work, removals, list>>
    BY DEF NewChat, OpenChat, Chunk, LinesRead, Loaded, ReadTurns, Suggested
  <2> QED  BY <2>1 DEF ChatNext, ServerStep
<1>14. UNCHANGED chatVars => UNCHANGED <<stored, work, removals, list>>  BY DEF chatVars
<1> QED  BY <1>1, <1>2, <1>3, <1>4, <1>5, <1>6, <1>7, <1>8, <1>9, <1>10, <1>11, <1>12, <1>13, <1>14

-----------------------------------------------------------------------------
(* The page follows the transcript, step by step.                            *)

LEMMA PlacedFits ==
  ASSUME NEW q \in Written, IsUser(q), NEW lines \in Seq(Written), NEW page, NEW new,
         Distinct(lines), Posed(q, lines, page),
         \/ /\ \A k \in DOMAIN lines : ~(IsUser(lines[k]) /\ lines[k].n = q.n)
            /\ new = Append(lines, q)
         \/ \E k \in DOMAIN lines : /\ IsUser(lines[k]) /\ lines[k].n = q.n
                                    /\ new = SubSeq(lines, 1, k)
  PROVE  page = new /\ Ends(new, "user")
<1>1. CASE \A k \in DOMAIN lines : ~(IsUser(lines[k]) /\ lines[k].n = q.n)
  <2>1. new = Append(lines, q)  BY <1>1
  <2>2. page = Append(lines, q)  BY <1>1 DEF Posed
  <2>3. Append(lines, q) # <<>> /\ Last(Append(lines, q)) = q  BY AppendOne
  <2> QED  BY <2>1, <2>2, <2>3 DEF Ends, IsUser
<1>2. CASE ~ \A k \in DOMAIN lines : ~(IsUser(lines[k]) /\ lines[k].n = q.n)
  <2>1. PICK k \in DOMAIN lines : IsUser(lines[k]) /\ lines[k].n = q.n /\ new = SubSeq(lines, 1, k)
    BY <1>2
  <2>2. PICK j \in DOMAIN lines : lines[j] = q /\ page = SubSeq(lines, 1, j)  BY <1>2 DEF Posed
  <2>3. j = k  BY <2>1, <2>2 DEF Distinct
  <2>4. SubSeq(lines, 1, k) # <<>> /\ Last(SubSeq(lines, 1, k)) = lines[k]  BY CutOne
  <2> QED  BY <2>1, <2>2, <2>3, <2>4 DEF Ends, IsUser
<1> QED  BY <1>1, <1>2

LEMMA StoredFits ==
  ASSUME NEW a \in Written, NEW lines \in Seq(Written), NEW page, AskedFor(a, lines, page)
  PROVE  AnsweredFor(a, Append(lines, a), page)
<1>1. Append(lines, a) # <<>> /\ Last(Append(lines, a)) = a  BY AppendOne
<1> QED  BY <1>1 DEF AskedFor, AnsweredFor

(* A chunk, whether the answer is stored by then or not.                     *)
LEMMA ChunkFits ==
  ASSUME NEW a \in Written, NEW lines \in Seq(Written), NEW page \in Seq(Written),
         ~(page # <<>> /\ Last(page) = a)
  PROVE  /\ AskedFor(a, lines, page) => AskedFor(a, lines, Append(page, a))
         /\ AnsweredFor(a, lines, page) => AnsweredFor(a, lines, Append(page, a))
<1>1. Append(lines, a) # <<>> /\ Last(Append(lines, a)) = a  BY AppendOne
<1>2. AskedFor(a, lines, page) => page = lines  BY <1>1 DEF AskedFor
<1>3. AnsweredFor(a, lines, page) => lines = Append(page, a)  BY DEF AnsweredFor
<1> QED  BY <1>2, <1>3 DEF AskedFor, AnsweredFor

LEMMA EndFits ==
  ASSUME NEW a \in Written, a.role = "assistant", NEW lines, NEW page,
         AnsweredFor(a, lines, page), page # <<>> /\ Last(page) = a
  PROVE  page = lines
BY DEF AnsweredFor, Ends

LEMMA MoreNumbered ==
  ASSUME NEW m \in Nat, NEW n \in Nat, m <= n, NEW lines \in Seq(Written), NumberedTo(m, lines)
  PROVE  NumberedTo(n, lines)
<1>1. \A k \in DOMAIN lines : lines[k] \in Written  BY CutOne
<1>2. \A k \in DOMAIN lines : lines[k].n \in Nat  BY <1>1 DEF Written, Positive
<1> QED  BY <1>2 DEF NumberedTo

LEMMA CountedKept ==
  ASSUME ChatShapes, Counted, [ChatNext]_chatVars
  PROVE  Counted'
<1>a. /\ ServerShapes /\ PageShapes /\ chats \in Nat /\ asked \in Nat /\ open \in Nat
      /\ active = open /\ shown \in Seq(Written)
      /\ \A c \in DOMAIN stored : stored[c] \in Seq(Written)
      /\ \A w \in work : w \in ChatRequests /\ w.chat \in Positive /\ w.ask.n \in Nat
      /\ \A l \in loads : l \in Transcripts /\ l.got \in Seq(Written)
      /\ \A l \in lists : Listing(l)
  BY DEF ChatShapes, PageShapes, ServerShapes, ChatRequests, Transcripts, Written, Positive
<1>b. /\ DOMAIN stored \subseteq 1..chats /\ items \subseteq 1..chats /\ open <= chats
      /\ \A c \in DOMAIN stored : NumberedTo(asked, stored[c]) /\ Distinct(stored[c])
      /\ \A w \in work : w.chat <= chats /\ w.ask.n <= asked
      /\ NumberedTo(asked, shown) /\ \A l \in loads : NumberedTo(asked, l.got)
      /\ \A l \in lists : l.read => l.got \subseteq 1..chats
  BY DEF Counted
<1>c. \A n \in Nat : NumberedTo(n, <<>>)  BY EmptySeq DEF NumberedTo
<1>1. CASE Send \/ Resend
  <2>1. PICK q \in Written, again \in BOOLEAN :
           /\ Target \in Positive /\ Goes(q, again).chat = Target /\ Goes(q, again).ask = q
           /\ work' = work \cup {Goes(q, again)} /\ open' = Target
           /\ chats' \in Nat /\ chats' = (IF open = 0 THEN Target ELSE chats)
           /\ UNCHANGED <<stored, load, list>>
           /\ \/ /\ shown' = Append(shown, q) /\ q = ChatLine("user", asked + 1, Target)
                 /\ asked' = asked + 1
              \/ /\ asked' = asked
                 /\ \E k \in DOMAIN shown : q = shown[k] /\ shown' = SubSeq(shown, 1, k)
    BY <1>1, Posts
  <2>2. chats <= chats' /\ Target <= chats'  BY <1>a, <1>b, <2>1 DEF Target
  <2>3. asked' \in Nat /\ asked <= asked'  BY <1>a, <2>1
  <2>4. NumberedTo(asked', shown)  BY <1>a, <1>b, <2>3, MoreNumbered
  <2>5. q.n <= asked' /\ NumberedTo(asked', shown')
    <3>1. CASE /\ shown' = Append(shown, q) /\ q = ChatLine("user", asked + 1, Target)
               /\ asked' = asked + 1
      <4>1. q.n = asked'  BY <3>1 DEF ChatLine
      <4>2. NumberedTo(asked', Append(shown, q))
        <5>1. \A k \in DOMAIN Append(shown, q) :
                \/ k \in DOMAIN shown /\ Append(shown, q)[k] = shown[k]
                \/ Append(shown, q)[k] = q
          BY <1>a, AppendOne
        <5> QED  BY <2>3, <2>4, <4>1, <5>1 DEF NumberedTo
      <4> QED  BY <2>3, <3>1, <4>1, <4>2
    <3>2. CASE \E k \in DOMAIN shown : q = shown[k] /\ shown' = SubSeq(shown, 1, k)
      <4>1. PICK k \in DOMAIN shown : q = shown[k] /\ shown' = SubSeq(shown, 1, k)  BY <3>2
      <4>2. NumberedTo(asked', SubSeq(shown, 1, k))
        <5>1. /\ DOMAIN SubSeq(shown, 1, k) = 1..k
              /\ \A j \in 1..k : j \in DOMAIN shown /\ SubSeq(shown, 1, k)[j] = shown[j]
          BY <1>a, CutOne
        <5> QED  BY <2>4, <5>1 DEF NumberedTo
      <4> QED  BY <2>4, <4>1, <4>2 DEF NumberedTo
    <3> QED  BY <2>1, <3>1, <3>2
  <2>6. /\ \A c \in DOMAIN stored : NumberedTo(asked', stored[c]) /\ Distinct(stored[c])
        /\ \A l \in loads : NumberedTo(asked', l.got)
    BY <1>a, <1>b, <2>3, MoreNumbered
  <2>7. \A w \in work : w.chat <= chats' /\ w.ask.n <= asked'
    BY <1>a, <1>b, <2>1, <2>2, <2>3 DEF Positive
  <2>8. 1..chats \subseteq 1..chats'  BY <1>a, <2>1, <2>2
  <2> QED  BY <1>a, <1>b, <2>1, <2>2, <2>5, <2>6, <2>7, <2>8 DEF Counted, load, list
<1>2. CASE Stop \/ Reload
  <2>1. /\ work' = {[w EXCEPT !.live = FALSE] : w \in work} /\ UNCHANGED <<stored, chats, asked>>
        /\ shown' \in {shown, <<>>} /\ items' \in {items, {}} /\ open' = open
    BY <1>a, <1>2, EndsAgain DEF Stop, Reload, thread, Click
  <2>2. \A v \in work' : \E w \in work : v.chat = w.chat /\ v.ask = w.ask  BY <1>a, <2>1, Hushed
  <2>3. \A l \in lists' : l \in lists \/ ~l.read
    <3>1. CASE Stop  BY <1>a, <3>1, EndsAgain DEF Stop
    <3>2. CASE Reload  BY <3>2 DEF Reload, Fetch
    <3> QED  BY <1>2, <3>1, <3>2
  <2>4. \A l \in loads' : l \in loads \/ l.got = <<>>
    <3>1. CASE Stop  BY <3>1 DEF Stop, load
    <3>2. CASE Reload
      <4>1. \A l \in loads' : l = Fetch(loadNo + 1, active)  BY <3>2 DEF Reload
      <4> QED  BY <4>1 DEF Fetch
    <3> QED  BY <1>2, <3>1, <3>2
  <2> QED  BY <1>a, <1>b, <1>c, <2>1, <2>2, <2>3, <2>4 DEF Counted
<1>3. CASE \E c \in 1..MaxChats : OpenChat(c)
  <2>1. PICK c : /\ c \in items /\ open' = c /\ LoadAgain(c)
                 /\ UNCHANGED <<stored, work, shown, list, chats, asked>>
    BY <1>3 DEF OpenChat, Click
  <2>2. c \in Nat /\ c <= chats  BY <1>a, <1>b, <2>1
  <2>3. \A l \in loads' : l \in loads \/ l.got = <<>>  BY <1>a, <2>1, <2>2, LoadsAgain
  <2> QED  BY <1>a, <1>b, <1>c, <2>1, <2>2, <2>3 DEF Counted, list
<1>4. CASE NewChat \/ \E d \in removals : Deleted(d) /\ Fresh
  <2>1. Fresh /\ items' \subseteq items /\ UNCHANGED <<stored, work, listNo, lists, chats, asked>>
    BY <1>4 DEF NewChat, Deleted, list, counts, Click
  <2>2. open' = 0 /\ shown' = <<>> /\ \A l \in loads' : l \in loads \/ l.got = <<>>
    BY <1>a, <2>1, LoadsAgain DEF Fresh
  <2> QED  BY <1>a, <1>b, <1>c, <2>1, <2>2 DEF Counted
<1>5. CASE \E w \in work : ServerStep(w)
  <2>1. PICK w \in work : ServerStep(w)  BY <1>5
  <2>2. /\ w \in ChatRequests /\ w.chat \in Positive /\ w.chat <= chats
        /\ w.ask \in Written /\ w.ask.n <= asked /\ Answer(w).n <= asked
    BY <1>a, <1>b, AnswerOne DEF ChatRequests
  <2>3. /\ UNCHANGED <<thread, load, list, chats, asked>>
        /\ \A v \in work' : v \in work \/ (v.chat = w.chat /\ v.ask = w.ask)
    BY <1>a, <2>1, ServerWork
  <2>4. /\ DOMAIN stored' \subseteq 1..chats
        /\ \A c \in DOMAIN stored' : NumberedTo(asked, stored'[c]) /\ Distinct(stored'[c])
    <3>1. CASE stored' = stored  BY <1>b, <3>1
    <3>2. CASE \E lines \in Seq(Written) : /\ stored' = Put(w.chat, lines) /\ Fits(lines, w)
                                           /\ Distinct(LinesOf(w.chat)) => Distinct(lines)
      <4>1. PICK lines \in Seq(Written) : /\ stored' = Put(w.chat, lines) /\ Fits(lines, w)
                                          /\ Distinct(LinesOf(w.chat)) => Distinct(lines)
        BY <3>2
      <4>2. DOMAIN stored' = DOMAIN stored \cup {w.chat} /\ stored'[w.chat] = lines
            /\ \A d \in DOMAIN stored : d # w.chat => stored'[d] = stored[d]
        BY <2>2, <4>1, PutOne
      <4>3. NumberedTo(asked, LinesOf(w.chat)) /\ Distinct(LinesOf(w.chat))
        BY <1>b, EmptySeq DEF LinesOf, NumberedTo, Distinct
      <4>4. NumberedTo(asked, lines)  BY <2>2, <4>1, <4>3 DEF Fits, NumberedTo
      <4>5. w.chat \in 1..chats  BY <1>a, <2>2 DEF Positive
      <4> QED  BY <1>b, <4>1, <4>2, <4>3, <4>4, <4>5
    <3> QED  BY <1>a, <2>1, <3>1, <3>2, ServerStores
  <2> QED  BY <1>b, <2>2, <2>3, <2>4 DEF Counted, thread, load, list
<1>6. CASE \E w \in work : Forsaken(w) \/ End(w)
  <2>1. work' \subseteq work /\ UNCHANGED <<stored, thread, load, chats, asked>>
    BY <1>6 DEF Forsaken, End, counts
  <2>2. items' = items /\ \A l \in lists' : l \in lists \/ ~l.read
    BY <1>a, <1>6, EndsAgain DEF Forsaken, End, list
  <2> QED  BY <1>b, <2>1, <2>2 DEF Counted, thread, load
<1>7. CASE \E w \in work : Chunk(w)
  <2>1. PICK w \in work : Chunk(w)  BY <1>7
  <2>2. Answer(w) \in Written /\ Answer(w).n <= asked  BY <1>a, <1>b, AnswerOne
  <2>3. shown' = Append(shown, Answer(w))
        /\ UNCHANGED <<stored, work, open, load, list, chats, asked>>
    BY <2>1 DEF Chunk, counts
  <2>4. \A k \in DOMAIN Append(shown, Answer(w)) :
          \/ k \in DOMAIN shown /\ Append(shown, Answer(w))[k] = shown[k]
          \/ Append(shown, Answer(w))[k] = Answer(w)
    BY <1>a, <2>2, AppendOne
  <2>5. NumberedTo(asked, Append(shown, Answer(w)))  BY <1>b, <2>2, <2>4 DEF NumberedTo
  <2> QED  BY <1>b, <2>3, <2>5 DEF Counted, load, list
<1>8. CASE \E d \in removals : DeleteRow(d)
  <2>1. PICK d : /\ stored' = [c \in DOMAIN stored \ {d.id} |-> stored[c]]
                 /\ UNCHANGED <<work, thread, load, list, chats, asked>>
    BY <1>8 DEF DeleteRow, counts
  <2> QED  BY <1>b, <2>1 DEF Counted, thread, load, list
<1>9. CASE \E l \in loads : LinesRead(l)
  <2>1. PICK l \in loads : LinesRead(l)  BY <1>9
  <2> DEFINE m == [l EXCEPT !.read = TRUE, !.got = LinesOf(l.id)]
  <2>2. m.got = LinesOf(l.id)  BY <1>a DEF Transcripts
  <2>3. loads' = (loads \ {l}) \cup {m} /\ UNCHANGED <<stored, work, thread, list, chats, asked>>
    BY <2>1 DEF LinesRead, Brings, counts
  <2>4. NumberedTo(asked, LinesOf(l.id))  BY <1>a, <1>b, <1>c DEF LinesOf
  <2> HIDE DEF m
  <2> QED  BY <1>b, <2>2, <2>3, <2>4 DEF Counted, thread, list
<1>10. CASE \E l \in loads : Loaded(l)
  BY <1>b, <1>10 DEF Loaded, Counted, list, counts
<1>11. CASE \E l \in lists : ReadList(l)
  <2>1. PICK l \in lists : ReadList(l)  BY <1>11
  <2>2. PICK m : lists' = (lists \ {l}) \cup {m} /\ m.got = Listed  BY <1>a, <2>1, Brought
  <2>3. Listed \subseteq 1..chats  BY <1>b DEF Listed
  <2> QED  BY <1>b, <2>1, <2>2, <2>3 DEF ReadList, Counted, thread, load, counts
<1>12. CASE \E l \in lists : GotList(l)
  BY <1>b, <1>12 DEF GotList, Counted, thread, load, counts
<1>13. CASE FetchFails
  <2>1. /\ loads' \subseteq loads /\ lists' \subseteq lists /\ shown' \in {shown, <<>>}
        /\ UNCHANGED <<stored, work, open, items, chats, asked>>
    BY <1>13 DEF FetchFails, Fault, Click
  <2> QED  BY <1>a, <1>b, <1>c, <2>1 DEF Counted
<1>14. CASE items' \subseteq items /\ UNCHANGED <<stored, work, thread, loads, lists, chats, asked>>
  BY <1>b, <1>14 DEF Counted, thread
<1>15. ChatNext =>
         \/ Send \/ Resend \/ Stop \/ Reload \/ NewChat \/ FetchFails
         \/ \E c \in 1..MaxChats : OpenChat(c)
         \/ \E w \in work : ServerStep(w) \/ Forsaken(w) \/ Chunk(w) \/ End(w)
         \/ \E d \in removals : DeleteRow(d) \/ (Deleted(d) /\ Fresh)
         \/ \E l \in loads : LinesRead(l) \/ Loaded(l)
         \/ \E l \in lists : ReadList(l) \/ GotList(l)
         \/ items' \subseteq items /\ UNCHANGED <<stored, work, thread, loads, lists, chats, asked>>
  <2>1. (\E d \in removals : Deleted(d)) =>
          \/ \E d \in removals : Deleted(d) /\ Fresh
          \/ /\ items' \subseteq items
             /\ UNCHANGED <<stored, work, thread, loads, lists, chats, asked>>
    BY DEF Deleted, load, counts
  <2>2. \/ \E c \in 1..MaxChats : DeleteChat(c)
        \/ \E a \in asks : ReadTurns(a) \/ Suggested(a)
        => items' \subseteq items /\ UNCHANGED <<stored, work, thread, loads, lists, chats, asked>>
    BY DEF DeleteChat, ReadTurns, Suggested, load, list, counts, Click
  <2> QED  BY <2>1, <2>2 DEF ChatNext, ServerStep
<1>16. UNCHANGED chatVars =>
         items' \subseteq items /\ UNCHANGED <<stored, work, thread, loads, lists, chats, asked>>
  BY DEF chatVars, load, list, counts
<1> QED  BY <1>1, <1>2, <1>3, <1>4, <1>5, <1>6, <1>7, <1>8, <1>9, <1>10, <1>11, <1>12, <1>13,
            <1>14, <1>15, <1>16

(* A step that leaves the page and its conversation's lines alone leaves the *)
(* requests in step.                                                         *)
LEMMA InStepStays ==
  ASSUME NEW w, InStep(w), LinesOf(open)' = LinesOf(open), shown' = shown, open' = open,
         open \in DOMAIN stored => open' \in DOMAIN stored'
  PROVE  InStep(w)'
BY DEF InStep, Answer, ChatLine

LEMMA ServerInStep ==
  ASSUME ChatShapes, Counted, NEW w \in work, \A v \in work : v = w, InStep(w),
         ServerStep(w), "lost" \notin odd'
  PROVE  \A v \in work' : InStep(v)'
<1>a. /\ ServerShapes /\ w \in ChatRequests /\ w.ask \in Written /\ IsUser(w.ask)
      /\ w.chat \in Positive /\ w.chat = open
      /\ LinesOf(open) \in Seq(Written) /\ Distinct(LinesOf(open))
      /\ Answer(w) \in Written
  <2>1. Distinct(LinesOf(open))  BY EmptySeq DEF Counted, LinesOf, Distinct
  <2> QED  BY <2>1, AnswerOne, LinesOfOne DEF ChatShapes, ServerShapes, ChatRequests, InStep
<1>b. shown' = shown /\ open' = open  BY <1>a, ServerWork DEF thread
<1>c. \A lines \in Seq(Written) : stored' = Put(open, lines) =>
        LinesOf(open)' = lines /\ open' \in DOMAIN stored'
  <2> SUFFICES ASSUME NEW lines \in Seq(Written), stored' = Put(open, lines)
               PROVE  LinesOf(open)' = lines /\ open' \in DOMAIN stored'
    OBVIOUS
  <2>1. DOMAIN stored' = DOMAIN stored \cup {w.chat} /\ stored'[w.chat] = lines
    BY <1>a, PutOne
  <2> QED  BY <1>a, <1>b, <2>1 DEF LinesOf
<1>d. \A new : \A stage \in Stages : Reach(w, stage, new) =>
        stored' = new /\ \A v \in work' : /\ v.chat = w.chat /\ v.ask = w.ask /\ v.stage = stage
                                          /\ Answer(v) = Answer(w)
  <2> SUFFICES ASSUME NEW stage \in Stages, NEW new, Reach(w, stage, new)
               PROVE  /\ stored' = new
                      /\ \A v \in work' : v.chat = w.chat /\ v.ask = w.ask /\ v.stage = stage
    BY DEF Answer
  <2> QED  BY <1>a, Reached
<1>1. CASE Claims(w)
  <2>1. w.stage = "sent" /\ Reach(w, "claimed", Put(w.chat, LinesOf(w.chat)))  BY <1>1 DEF Claims
  <2>2. stored' = Put(open, LinesOf(open)) /\ \A v \in work' : /\ v.chat = w.chat /\ v.ask = w.ask
                                                             /\ v.stage = "claimed"
    BY <1>a, <1>d, <2>1 DEF Stages
  <2>3. LinesOf(open)' = LinesOf(open) /\ open' \in DOMAIN stored'  BY <1>a, <1>c, <2>2
  <2>4. Posed(w.ask, LinesOf(open), shown)  BY <2>1 DEF InStep
  <2> QED  BY <1>a, <1>b, <2>2, <2>3, <2>4 DEF InStep
<1>2. CASE Place(w)
  <2> DEFINE lines == LinesOf(open)
  <2>1. w.stage = "claimed" /\ Posed(w.ask, lines, shown)  BY <1>2 DEF Place, InStep
  <2>2. w.chat \in DOMAIN stored /\ stored[w.chat] = lines  BY <1>2, <1>a DEF Place, LinesOf
  <2>3. PICK new : /\ Reach(w, "placed", Put(open, new)) /\ new \in Seq(Written)
                   /\ \/ /\ \A k \in DOMAIN lines : ~(IsUser(lines[k]) /\ lines[k].n = w.ask.n)
                         /\ new = Append(lines, w.ask)
                      \/ \E k \in DOMAIN lines : IsUser(lines[k]) /\ lines[k].n = w.ask.n
                                                 /\ new = SubSeq(lines, 1, k)
    <3> HIDE DEF lines
    <3> DEFINE known == {k \in DOMAIN lines : lines[k].role = "user" /\ lines[k].n = w.ask.n}
    <3>1. \/ known = {} /\ Reach(w, "placed", Put(open, Append(lines, w.ask)))
          \/ \E k \in known : Reach(w, "placed", Put(open, SubSeq(lines, 1, k)))
      BY <1>2, <1>a, <2>2 DEF Place
    <3>2. CASE known = {} /\ Reach(w, "placed", Put(open, Append(lines, w.ask)))
      <4>1. \A k \in DOMAIN lines : ~(IsUser(lines[k]) /\ lines[k].n = w.ask.n)  BY <3>2 DEF IsUser
      <4>2. Append(lines, w.ask) \in Seq(Written)  BY <1>a, AppendOne DEF lines
      <4> QED  BY <3>2, <4>1, <4>2
    <3>3. CASE \E k \in known : Reach(w, "placed", Put(open, SubSeq(lines, 1, k)))
      <4>1. PICK k \in known : Reach(w, "placed", Put(open, SubSeq(lines, 1, k)))  BY <3>3
      <4>2. k \in DOMAIN lines /\ IsUser(lines[k]) /\ lines[k].n = w.ask.n  BY DEF IsUser
      <4>3. SubSeq(lines, 1, k) \in Seq(Written)  BY <1>a, <4>2, CutOne DEF lines
      <4> QED  BY <4>1, <4>2, <4>3
    <3> QED  BY <3>1, <3>2, <3>3
  <2>4. shown = new /\ Ends(new, "user")  BY <1>a, <2>1, <2>3, PlacedFits
  <2>5. stored' = Put(open, new) /\ \A v \in work' : /\ v.chat = w.chat /\ v.ask = w.ask
                                                   /\ v.stage = "placed"
    BY <1>d, <2>3 DEF Stages
  <2>6. LinesOf(open)' = new  BY <1>c, <2>3, <2>5
  <2> QED  BY <1>a, <1>b, <2>4, <2>5, <2>6 DEF InStep, AskedFor
<1>3. CASE Store(w)
  <2> DEFINE all == Append(LinesOf(open), Answer(w))
  <2>1. w.stage = "placed" /\ AskedFor(Answer(w), LinesOf(open), shown)  BY <1>3 DEF Store, InStep
  <2>2. Reach(w, "stored", Put(open, all))
    <3>1. Ends(LinesOf(w.chat), "user")  BY <1>a, <2>1 DEF AskedFor
    <3> QED  BY <1>3, <1>a, <3>1 DEF Store
  <2>3. all \in Seq(Written)  BY <1>a, AppendOne
  <2>4. AnsweredFor(Answer(w), all, shown)  BY <1>a, <2>1, StoredFits
  <2>5. stored' = Put(open, all) /\ \A v \in work' : /\ v.chat = w.chat /\ Answer(v) = Answer(w)
                                                   /\ v.stage = "stored"
    BY <1>d, <2>2 DEF Stages
  <2>6. LinesOf(open)' = all  BY <1>c, <2>3, <2>5
  <2> HIDE DEF all
  <2>7. SUFFICES ASSUME NEW v \in work' PROVE InStep(v)'  OBVIOUS
  <2>8. Answer(v)' = Answer(w)  BY <2>5 DEF Answer, ChatLine
  <2> QED  BY <1>a, <1>b, <2>4, <2>5, <2>6, <2>8 DEF InStep
<1>4. CASE Refuse(w)  BY <1>4 DEF Refuse, Fault, Note
<1>5. CASE Gone(w)  BY <1>5, <1>a DEF Gone, InStep
<1> QED  BY <1>1, <1>2, <1>3, <1>4, <1>5 DEF ServerStep

LEMMA ChatPageKept ==
  ASSUME ChatShapes, Counted, LoadsFit, OneAnswer, RemovalsApart, ChatPageInv, [ChatNext]_chatVars
  PROVE  ChatPageInv'
<1>0. SUFFICES ASSUME odd' \subseteq {"list read before"}
               PROVE  /\ \A w \in work' : InStep(w)'
                      /\ Loading' => work' = {}
                      /\ \/ open' \in Leaving'
                         \/ \A l \in loads' : l.no = loadNo' /\ l.read => l.got = LinesOf(open)'
                      /\ work' = {} => open' \in Leaving' \/ Loading' \/ shown' = LinesOf(open)'
  BY DEF ChatPageInv
<1>a. /\ odd \subseteq {"list read before"}
      /\ "lost" \notin odd' /\ "early" \notin odd'
      /\ "switched" \notin odd' /\ "under delete" \notin odd'
  BY <1>0, OddGrows
<1>b. /\ ServerShapes /\ PageShapes /\ chats \in Nat /\ asked \in Nat /\ open \in Nat
      /\ loadNo \in Nat /\ active = open /\ shown \in Seq(Written)
      /\ DOMAIN stored \subseteq Positive /\ LinesOf(open) \in Seq(Written)
      /\ \A w \in work : w \in ChatRequests /\ Answer(w) \in Written /\ Answer(w).role = "assistant"
      /\ \A l \in loads : l \in Transcripts /\ l.no \in Nat /\ l.id \in Positive
      /\ \A d \in removals : d \in Removals /\ d.id \in Positive
  BY LinesOfOne, AnswerOne DEF ChatShapes, PageShapes, ServerShapes, Transcripts, Removals
<1>c. /\ (\A w \in work : w.live) /\ \A v, w \in work : v = w
      /\ \A w \in work : w.chat \notin Leaving
      /\ \A d \in removals : d.id = open => d.active = d.id
      /\ loadId \in {0, open}
      /\ \A l \in loads : l.no <= loadNo /\ (l.no = loadNo => l.id = open)
  <2>1. \A l \in loads : l.no = loadNo => l.id = open  BY <1>b DEF LoadsFit, Positive
  <2> QED  BY <1>a, <2>1 DEF OneAnswer, RemovalsApart, LoadsFit
<1>d. /\ \A w \in work : InStep(w)
      /\ Loading => work = {}
      /\ open \in Leaving \/ \A l \in loads : l.no = loadNo /\ l.read => l.got = LinesOf(open)
      /\ work = {} => open \in Leaving \/ Loading \/ shown = LinesOf(open)
  BY <1>a DEF ChatPageInv
<1>e. 0 \notin Leaving /\ LinesOf(0) = <<>>  BY <1>b DEF Leaving, LinesOf, Positive
<1>1. CASE Send \/ Resend
  <2>1. PICK q \in Written, again \in BOOLEAN :
           /\ Target \in Positive /\ Goes(q, again).chat = Target /\ Goes(q, again).ask = q
           /\ Goes(q, again).stage = "sent"
           /\ work' = work \cup {Goes(q, again)} /\ ~Busy /\ open' = Target
           /\ odd' = odd \cup {x \in {"early"} : Loading}
                         \cup {x \in {"under delete"} : \E d \in removals : d.id = Target}
           /\ UNCHANGED <<stored, removals, load>>
           /\ \/ shown' = Append(shown, q) /\ q = ChatLine("user", asked + 1, Target)
              \/ \E k \in DOMAIN shown : q = shown[k] /\ shown' = SubSeq(shown, 1, k)
    BY <1>1, Posts
  <2>2. work = {} /\ ~Loading  BY <1>a, <1>c, <2>1 DEF Busy
  <2>3. Target \notin Leaving  BY <1>a, <2>1 DEF Leaving
  <2>4. open \notin Leaving  BY <1>e, <2>3 DEF Target
  <2>5. shown = LinesOf(open)  BY <1>d, <2>2, <2>4
  <2>6. LinesOf(Target) = LinesOf(open)
    <3>1. CASE open = 0
      <4>1. Target = chats + 1 /\ chats + 1 \notin DOMAIN stored  BY <1>b, <3>1 DEF Target, Counted
      <4> QED  BY <1>e, <3>1, <4>1 DEF LinesOf
    <3> QED  BY <3>1 DEF Target
  <2>7. LinesOf(open)' = LinesOf(Target)  BY <2>1 DEF LinesOf
  <2>8. Posed(q, LinesOf(open), shown')
    <3>1. CASE shown' = Append(shown, q) /\ q = ChatLine("user", asked + 1, Target)
      <4>1. NumberedTo(asked, shown)  BY DEF Counted
      <4>2. q.n = asked + 1  BY <3>1 DEF ChatLine
      <4>3. \A k \in DOMAIN shown : shown[k].n # q.n  BY <1>b, <4>1, <4>2 DEF NumberedTo
      <4> QED  BY <2>5, <3>1, <4>3 DEF Posed
    <3>2. CASE \E k \in DOMAIN shown : q = shown[k] /\ shown' = SubSeq(shown, 1, k)
      BY <2>5, <3>2 DEF Posed
    <3> QED  BY <2>1, <3>1, <3>2
  <2>9. ASSUME NEW v \in work' PROVE InStep(v)'
    <3>1. v.chat = Target /\ v.ask = q /\ v.stage = "sent"  BY <2>1, <2>2
    <3> QED  BY <2>1, <2>6, <2>7, <2>8, <3>1 DEF InStep
  <2>10. work' # {} /\ \A l \in loads' : l.no # loadNo'  BY <2>1, <2>2 DEF Loading, load
  <2> QED  BY <2>1, <2>9, <2>10 DEF Loading
<1>2. CASE Stop \/ FetchFails  BY <1>a, <1>2 DEF Stop, FetchFails, Fault, Note
<1>3. CASE Reload
  <2>1. work = {}  BY <1>a, <1>c, <1>3 DEF Reload, Note, Busy
  <2>2. /\ work' = {} /\ open' = open /\ shown' = <<>> /\ loadNo' = loadNo + 1 /\ stored' = stored
        /\ loads' = {Fetch(loadNo + 1, c) : c \in {open} \ {0}}
    BY <1>b, <1>3, <2>1 DEF Reload
  <2>3. \A l \in loads' : l.read = FALSE  BY <2>2 DEF Fetch
  <2>4. open # 0 => Loading'
    <3>1. Fetch(loadNo + 1, open).no = loadNo + 1  BY DEF Fetch
    <3> QED  BY <2>2, <3>1 DEF Loading
  <2>5. open = 0 => shown' = LinesOf(open)'  BY <1>b, <2>2 DEF LinesOf, Positive
  <2> QED  BY <2>2, <2>3, <2>4, <2>5
<1>4. CASE \E c \in 1..MaxChats : OpenChat(c)
  <2>1. PICK c : /\ c \in items /\ open' = c /\ LoadAgain(c)
                 /\ odd' = odd \cup {x \in {"switched"} : Busy /\ c # loadId}
                               \cup {x \in {"under delete"} : \E d \in removals : d.id = c}
                 /\ UNCHANGED <<stored, work, removals, shown>>
    BY <1>4 DEF OpenChat
  <2>2. c \in Nat /\ c # 0  BY <1>b, <2>1 DEF PageShapes, Positive
  <2>3. \/ c = loadId /\ loads' = loads /\ loadNo' = loadNo
        \/ /\ c # loadId /\ loadNo' = loadNo + 1
           /\ \A l \in loads' \ loads : l.read = FALSE
           /\ \E l \in loads' : l.no = loadNo'
    BY <1>b, <2>1, <2>2, LoadsAgain
  <2>4. CASE c = loadId
    <3>1. c = open /\ UNCHANGED <<stored, work, removals, thread, loads, loadNo>>
      BY <1>b, <1>c, <2>1, <2>2, <2>3, <2>4, <1>4 DEF thread, PageShapes, OpenChat
    <3>2. UNCHANGED <<stored, work, removals, shown, open, loads, loadNo>>  BY <3>1 DEF thread
    <3>3. LinesOf(open)' = LinesOf(open) /\ Leaving' = Leaving /\ Loading' = Loading
      BY <3>2 DEF LinesOf, Leaving, Loading
    <3>4. \A w \in work : InStep(w)'  BY <1>d, <3>2, <3>3, InStepStays
    <3> QED  BY <1>d, <3>2, <3>3, <3>4
  <2>5. CASE c # loadId
    <3>1. work' = {}  BY <1>a, <1>c, <2>1, <2>5 DEF Busy
    <3>2. Loading' /\ \A l \in loads' : l.no = loadNo' => l.read = FALSE
      BY <1>b, <1>c, <2>3, <2>5 DEF Loading
    <3> QED  BY <3>1, <3>2
  <2> QED  BY <2>4, <2>5
<1>5. CASE NewChat \/ \E d \in removals : Deleted(d) /\ Fresh
  <2>1. Fresh /\ UNCHANGED <<stored, work>>  BY <1>5 DEF NewChat, Deleted
  <2>2. work' = {}  BY <1>a, <1>c, <2>1 DEF Fresh, Note, Busy
  <2>3. open' = 0 /\ shown' = <<>>  BY <2>1 DEF Fresh
  <2>4. LinesOf(open)' = <<>>  BY <1>b, <2>1, <2>3 DEF LinesOf, Positive
  <2>5. \A l \in loads' : l.no = loadNo' => l.read = FALSE
    <3>1. \/ loadId = 0 /\ loads' = loads /\ loadNo' = loadNo
          \/ loadNo' = loadNo + 1 /\ \A l \in loads' \ loads : l.read = FALSE
      BY <1>b, <2>1, LoadsAgain DEF Fresh
    <3>2. loadId = 0 => \A l \in loads : l.no # loadNo  BY <1>b DEF LoadsFit, Positive
    <3> QED  BY <1>b, <1>c, <3>1, <3>2
  <2> QED  BY <2>2, <2>3, <2>4, <2>5
<1>6. CASE \E d \in removals : Deleted(d) /\ ~Fresh
  <2>1. PICK d \in removals : /\ d.id # d.active /\ removals' = removals \ {d}
                              /\ UNCHANGED <<stored, work, thread, load>>
    BY <1>6 DEF Deleted
  <2>2. UNCHANGED <<stored, work, shown, open, loads, loadNo>>  BY <2>1 DEF thread, load
  <2>3. LinesOf(open)' = LinesOf(open) /\ Loading' = Loading  BY <2>2 DEF LinesOf, Loading
  <2>4. open \in Leaving => open \in Leaving'  BY <1>c, <2>1 DEF Leaving
  <2>5. \A w \in work : InStep(w)'  BY <1>d, <2>2, <2>3, InStepStays
  <2> QED  BY <1>d, <2>2, <2>3, <2>4, <2>5
<1>7. CASE \E c \in 1..MaxChats : DeleteChat(c)
  <2>1. removals \subseteq removals' /\ UNCHANGED <<stored, work, shown, open, loads, loadNo>>
    BY <1>7 DEF DeleteChat, thread, load
  <2>2. LinesOf(open)' = LinesOf(open) /\ Loading' = Loading  BY <2>1 DEF LinesOf, Loading
  <2>3. open \in Leaving => open \in Leaving'  BY <2>1 DEF Leaving
  <2>4. \A w \in work : InStep(w)'  BY <1>d, <2>1, <2>2, InStepStays
  <2> QED  BY <1>d, <2>1, <2>2, <2>3, <2>4
<1>8. CASE \E w \in work : ServerStep(w)
  <2>1. PICK w \in work : ServerStep(w)  BY <1>8
  <2>2. \A v \in work' : InStep(v)'  BY <1>a, <1>c, <1>d, <2>1, ServerInStep
  <2>3. ~Loading /\ UNCHANGED <<thread, load>>  BY <1>b, <1>d, <2>1, ServerWork
  <2>4. \A l \in loads' : l.no # loadNo'  BY <2>3 DEF Loading, load
  <2>5. ~Loading'  BY <2>4 DEF Loading
  <2>6. work' # {}  BY <1>b, <2>1, ServerWork
  <2> QED  BY <2>2, <2>4, <2>5, <2>6
<1>9. CASE \E w \in work : Forsaken(w)  BY <1>9, <1>c DEF Forsaken
<1>10. CASE \E w \in work : Chunk(w)
  <2>1. PICK w \in work : Chunk(w)  BY <1>10
  <2>2. /\ shown' = Append(shown, Answer(w))
        /\ UNCHANGED <<stored, work, open, removals, loads, loadNo>>
        /\ w.stage \in {"placed", "stored", "refused"} /\ ~(shown # <<>> /\ Last(shown) = Answer(w))
    BY <2>1 DEF Chunk, load, Shows
  <2>3. LinesOf(open)' = LinesOf(open)  BY <2>2 DEF LinesOf
  <2>4. /\ w.stage = "placed" => AskedFor(Answer(w), LinesOf(open), Append(shown, Answer(w)))
        /\ w.stage = "stored" => AnsweredFor(Answer(w), LinesOf(open), Append(shown, Answer(w)))
    BY <1>b, <1>d, <2>2, ChunkFits DEF InStep
  <2>5. Answer(w)' = Answer(w)  BY DEF Answer, ChatLine
  <2>6. w.chat = open /\ w.stage # "refused"  BY <1>d DEF InStep
  <2>7. InStep(w)'  BY <2>2, <2>3, <2>4, <2>5, <2>6 DEF InStep
  <2>8. work' = {w} /\ ~Loading  BY <1>c, <1>d, <2>2
  <2>9. \A l \in loads' : l.no # loadNo'  BY <2>2, <2>8 DEF Loading
  <2> QED  BY <2>7, <2>8, <2>9 DEF Loading
<1>11. CASE \E w \in work : End(w)
  <2>1. PICK w \in work : End(w)  BY <1>11
  <2>2. /\ work' = work \ {w} /\ UNCHANGED <<stored, removals, thread, load>>
        /\ w.stage \in {"stored", "refused"} /\ shown # <<>> /\ Last(shown) = Answer(w)
    BY <2>1 DEF End, Shows
  <2>3. InStep(w) /\ ~Loading /\ work' = {}  BY <1>c, <1>d, <2>2
  <2>4. AnsweredFor(Answer(w), LinesOf(open), shown)  BY <2>2, <2>3 DEF InStep
  <2>5. shown = LinesOf(open)  BY <1>b, <2>2, <2>4, EndFits
  <2>6. shown' = LinesOf(open)'  BY <2>2, <2>5 DEF thread, LinesOf
  <2>7. \A l \in loads' : l.no # loadNo'  BY <2>2, <2>3 DEF Loading, load
  <2> QED  BY <2>3, <2>6, <2>7
<1>12. CASE \E d \in removals : DeleteRow(d)
  <2>1. PICK d \in removals : DeleteRow(d)  BY <1>12
  <2> DEFINE e == [d EXCEPT !.done = TRUE]
  <2>2. e.id = d.id  BY <1>b DEF Removals
  <2>3. removals' = (removals \ {d}) \cup {e} /\ UNCHANGED <<work, thread, load>>
        /\ stored' = [c \in DOMAIN stored \ {d.id} |-> stored[c]]
    BY <2>1 DEF DeleteRow
  <2> HIDE DEF e
  <2>4. Leaving' = Leaving /\ d.id \in Leaving  BY <2>2, <2>3 DEF Leaving
  <2>5. UNCHANGED <<work, shown, open, loads, loadNo>>  BY <2>3 DEF thread, load
  <2>6. Loading' = Loading  BY <2>5 DEF Loading
  <2>7. CASE d.id = open
    <3>1. work = {}  BY <1>c, <1>d, <2>4, <2>7 DEF InStep
    <3> QED  BY <2>4, <2>5, <2>7, <3>1
  <2>8. CASE d.id # open
    <3>1. LinesOf(open)' = LinesOf(open) /\ (open \in DOMAIN stored => open' \in DOMAIN stored')
      BY <2>3, <2>5, <2>8 DEF LinesOf
    <3>2. \A w \in work : InStep(w)'  BY <1>d, <2>5, <3>1, InStepStays
    <3> QED  BY <1>d, <2>4, <2>5, <2>6, <3>1, <3>2
  <2> QED  BY <2>7, <2>8
<1>13. CASE \E l \in loads : LinesRead(l)
  <2>1. PICK l \in loads : LinesRead(l)  BY <1>13
  <2> DEFINE m == [l EXCEPT !.read = TRUE, !.got = LinesOf(l.id)]
  <2>2. m.no = l.no /\ m.id = l.id /\ m.got = LinesOf(l.id)  BY <1>b DEF Transcripts
  <2>3. loads' = (loads \ {l}) \cup {m} /\ UNCHANGED <<stored, work, removals, shown, open, loadNo>>
    BY <2>1 DEF LinesRead, Brings, thread
  <2> HIDE DEF m
  <2>4. LinesOf(open)' = LinesOf(open) /\ Leaving' = Leaving  BY <2>3 DEF LinesOf, Leaving
  <2>5. Loading' = Loading  BY <2>2, <2>3 DEF Loading
  <2>6. m.no = loadNo => m.got = LinesOf(open)  BY <1>c, <2>2
  <2>7. \A w \in work : InStep(w)'  BY <1>d, <2>3, <2>4, InStepStays
  <2> QED  BY <1>d, <2>3, <2>4, <2>5, <2>6, <2>7
<1>14. CASE \E l \in loads : Loaded(l)
  <2>1. PICK l \in loads : /\ l.read /\ loads' = loads \ {l}
                           /\ UNCHANGED <<stored, work, removals, open, loadNo>>
                           /\ shown' = IF l.no = loadNo THEN l.got ELSE shown
    BY <1>14 DEF Loaded
  <2>2. LinesOf(open)' = LinesOf(open) /\ Leaving' = Leaving  BY <2>1 DEF LinesOf, Leaving
  <2>3. CASE l.no = loadNo
    <3>1. work = {}  BY <1>d, <2>3 DEF Loading
    <3> QED  BY <1>d, <2>1, <2>2, <2>3, <3>1
  <2>4. CASE l.no # loadNo
    <3>1. Loading' = Loading /\ shown' = shown  BY <2>1, <2>4 DEF Loading
    <3>2. \A w \in work : InStep(w)'  BY <1>d, <2>1, <2>2, <3>1, InStepStays
    <3> QED  BY <1>d, <2>1, <2>2, <3>1, <3>2
  <2> QED  BY <2>3, <2>4
<1>15. CASE UNCHANGED <<stored, work, removals, thread, load>>
  <2>1. UNCHANGED <<stored, work, removals, shown, open, loads, loadNo>>  BY <1>15 DEF thread, load
  <2>2. LinesOf(open)' = LinesOf(open) /\ Leaving' = Leaving /\ Loading' = Loading
    BY <2>1 DEF LinesOf, Leaving, Loading
  <2>3. \A w \in work : InStep(w)'  BY <1>d, <2>1, <2>2, InStepStays
  <2> QED  BY <1>d, <2>1, <2>2, <2>3
<1>16. ChatNext =>
         \/ Send \/ Resend \/ Stop \/ FetchFails \/ Reload \/ NewChat
         \/ \E c \in 1..MaxChats : OpenChat(c) \/ DeleteChat(c)
         \/ \E w \in work : ServerStep(w) \/ Forsaken(w) \/ Chunk(w) \/ End(w)
         \/ \E d \in removals : DeleteRow(d) \/ Deleted(d)
         \/ \E l \in loads : LinesRead(l) \/ Loaded(l)
         \/ UNCHANGED <<stored, work, removals, thread, load>>
  <2>1. \/ \E l \in lists : ReadList(l) \/ GotList(l)
        \/ \E a \in asks : ReadTurns(a) \/ Suggested(a)
        => UNCHANGED <<stored, work, removals, thread, load>>
    BY DEF ReadList, GotList, ReadTurns, Suggested
  <2> QED  BY <2>1 DEF ChatNext, ServerStep
<1>17. UNCHANGED chatVars => UNCHANGED <<stored, work, removals, thread, load>>  BY DEF chatVars
<1> QED  BY <1>1, <1>2, <1>3, <1>4, <1>5, <1>6, <1>7, <1>8, <1>9, <1>10, <1>11, <1>12, <1>13,
            <1>14, <1>15, <1>16, <1>17

-----------------------------------------------------------------------------
ChatInv == /\ ChatShapes /\ Counted /\ LoadsFit /\ OneAnswer /\ HomeInv
           /\ FollowInv /\ RemovalsApart /\ ListInv /\ ChatPageInv

LEMMA ChatInvInit == ChatInit => ChatInv
<1> SUFFICES ASSUME ChatInit PROVE ChatInv  OBVIOUS
<1>0. Past \in Nat  BY WebChatAssumption
<1>1. /\ work = {} /\ removals = {} /\ active \in Nat /\ active <= Past /\ open = active
      /\ shown = <<>> /\ loadId = active /\ loadNo = 1 /\ items = {} /\ listNo = 1
      /\ follow = None /\ followNo = 0 /\ asks = {} /\ chats = Past /\ asked = Past /\ odd = {}
      /\ lists = {Fetch(1, 0)} /\ loads = {Fetch(1, c) : c \in {active} \ {0}}
  BY <1>0 DEF ChatInit
<1> DEFINE one(c) == ChatLine("user", c, c)  two(c) == ChatLine("assistant", c, c)
<1>2. DOMAIN stored = 1..Past /\ \A c \in 1..Past : stored[c] = <<one(c), two(c)>>  BY DEF ChatInit
<1>3. \A c \in 1..Past : /\ one(c) \in Written /\ two(c) \in Written
                         /\ one(c).chat = c /\ two(c).chat = c /\ one(c).n = c /\ two(c).n = c
                         /\ IsUser(one(c)) /\ ~IsUser(two(c))
  BY <1>0 DEF Written, Positive, ChatLine, IsUser
<1> HIDE DEF one, two
<1>4. \A c \in 1..Past : stored[c] \in Seq(Written) /\ DOMAIN stored[c] = {1, 2}
                         /\ stored[c][1] = one(c) /\ stored[c][2] = two(c)
  <2>1. \A a, b \in Written : /\ <<a, b>> \in Seq(Written) /\ DOMAIN <<a, b>> = {1, 2}
                              /\ <<a, b>>[1] = a /\ <<a, b>>[2] = b
    OBVIOUS
  <2> SUFFICES ASSUME NEW c \in 1..Past
               PROVE  /\ stored[c] \in Seq(Written) /\ DOMAIN stored[c] = {1, 2}
                      /\ stored[c][1] = one(c) /\ stored[c][2] = two(c)
    OBVIOUS
  <2>2. stored[c] = <<one(c), two(c)>> /\ one(c) \in Written /\ two(c) \in Written  BY <1>2, <1>3
  <2> QED  BY <2>1, <2>2
<1>5. \A l \in loads : /\ l = Fetch(1, active) /\ active \in Positive
                       /\ l.no = 1 /\ l.id = active /\ l.read = FALSE /\ l.got = <<>>
  BY <1>1 DEF Positive, Fetch
<1>6. \A l \in lists : Listing(l) /\ l.no = 1 /\ l.read = FALSE
  <2>1. 0 \in Nat /\ 1 \in Nat  OBVIOUS
  <2>2. Listing(Fetch(1, 0)) /\ Fetch(1, 0).no = 1 /\ Fetch(1, 0).read = FALSE  BY <2>1, FetchOne
  <2> QED  BY <1>1, <2>2
<1>7. ServerShapes  BY <1>0, <1>1, <1>2, <1>4 DEF ServerShapes, Positive
<1>8. loads \subseteq Transcripts
  <2>1. 1 \in Nat /\ active \in Nat  BY <1>1
  <2>2. active \in Positive => Fetch(1, active) \in Transcripts  BY <2>1, FetchOne
  <2> QED  BY <1>5, <2>2
<1>9. PageShapes  BY <1>0, <1>1, <1>6, <1>8, EmptySeq DEF PageShapes
<1>10. Counted
  <2>1. \A c \in DOMAIN stored : NumberedTo(asked, stored[c]) /\ Distinct(stored[c])
    <3> SUFFICES ASSUME NEW c \in 1..Past
                 PROVE  NumberedTo(Past, stored[c]) /\ Distinct(stored[c])
      BY <1>1, <1>2
    <3>1. \A k \in DOMAIN stored[c] : \/ (k = 1 /\ stored[c][k] = one(c))
                                      \/ (k = 2 /\ stored[c][k] = two(c))
      BY <1>4
    <3>2. \A k \in DOMAIN stored[c] : stored[c][k].n <= Past  BY <1>0, <1>3, <3>1
    <3>3. Distinct(stored[c])  BY <1>3, <3>1 DEF Distinct
    <3> QED  BY <3>2, <3>3 DEF NumberedTo
  <2>2. NumberedTo(asked, <<>>)  BY EmptySeq DEF NumberedTo
  <2> QED  BY <1>0, <1>1, <1>2, <1>5, <1>6, <2>1, <2>2 DEF Counted
<1>11. LoadsFit  BY <1>1, <1>5, <1>6 DEF LoadsFit
<1>12. OneAnswer /\ FollowInv /\ RemovalsApart
  BY <1>1, <1>7 DEF OneAnswer, FollowInv, RemovalsApart, None, ServerShapes, Positive
<1>13. HomeInv
  <2>1. \A c \in DOMAIN stored : AtHome(stored[c], c)  BY <1>2, <1>3, <1>4 DEF AtHome
  <2>2. \A k \in DOMAIN shown : FALSE  BY <1>1, EmptySeq
  <2> QED  BY <1>1, <1>5, <2>1, <2>2 DEF HomeInv
<1>14. ListInv  BY <1>1, <1>6 DEF ListInv
<1>15. ChatPageInv
  <2>1. open # 0 => Loading
    <3>1. Fetch(1, active).no = 1  BY DEF Fetch
    <3> QED  BY <1>1, <3>1 DEF Loading
  <2>2. open = 0 => LinesOf(open) = <<>>  BY <1>7 DEF LinesOf, ServerShapes, Positive
  <2> QED  BY <1>1, <1>5, <2>1, <2>2 DEF ChatPageInv
<1> QED  BY <1>7, <1>9, <1>10, <1>11, <1>12, <1>13, <1>14, <1>15 DEF ChatInv, ChatShapes

LEMMA ChatInvNext == ChatInv /\ [ChatNext]_chatVars => ChatInv'
<1> SUFFICES ASSUME ChatInv, [ChatNext]_chatVars PROVE ChatInv'  OBVIOUS
<1> USE DEF ChatInv
<1>1. ServerShapes' /\ PageShapes'  BY ServerShapesKept, PageShapesKept
<1>2. ChatShapes'  BY <1>1 DEF ChatShapes
<1>3. Counted' /\ LoadsFit' /\ OneAnswer'  BY CountedKept, LoadsFitKept, OneAnswerKept
<1>4. HomeInv' /\ FollowInv'  BY HomeKept, FollowKept
<1>5. RemovalsApart' /\ ListInv'  BY RemovalsApartKept, ListKept
<1>6. ChatPageInv'  BY ChatPageKept
<1> QED  BY <1>2, <1>3, <1>4, <1>5, <1>6

(* What is true of the server's conversations, the requests under way and    *)
(* the page, one step of the tab or of the server after another.             *)
THEOREM ChatInvariant == ChatSpec => []ChatInv
BY ChatInvInit, ChatInvNext, PTL DEF ChatSpec

(* However chats are opened, left, asked in and deleted, a question is       *)
(* stored in no conversation but the one it was asked in, unless something   *)
(* was sent while another chat was loading.                                  *)
THEOREM QuestionsAlwaysStayHome == ChatSpec => []QuestionsStayHome
<1>1. ChatInv => QuestionsStayHome  BY DEF ChatInv, HomeInv, AtHome, QuestionsStayHome
<1> QED  BY <1>1, ChatInvariant, PTL

(* Follow-ups on the page were made from the transcript as it stands, unless *)
(* a request was stopped or failed.                                          *)
THEOREM FollowUpsAlwaysFit == ChatSpec => []FollowUpsFit
<1>1. ChatInv => FollowUpsFit  BY DEF ChatInv, FollowInv, FollowUpsFit, LinesOf
<1> QED  BY <1>1, ChatInvariant, PTL

(* With nothing under way the sidebar lists the conversations there are, but *)
(* for the three cases ListIsCurrent names.                                  *)
THEOREM ListAlwaysCurrent == ChatSpec => []ListIsCurrent
<1>1. ChatInv => ListIsCurrent
  <2> SUFFICES ASSUME ChatInv, Quiet, ~ \E l \in lists : l.no = listNo,
                      odd \cap {"lost", "under delete", "list read before"} = {}
               PROVE  items = Listed
    BY DEF ListIsCurrent
  <2>1. work = {} /\ Leaving = {}  BY DEF Quiet, Leaving
  <2> QED  BY <2>1 DEF ChatInv, ListInv
<1> QED  BY <1>1, ChatInvariant, PTL

(* With nothing under way the page shows the transcript of the chat that is  *)
(* open, but for the cases PageIsTranscript names.                           *)
THEOREM PageAlwaysTranscript == ChatSpec => []PageIsTranscript
<1>1. ChatInv => PageIsTranscript
  <2> SUFFICES ASSUME ChatInv, Quiet, odd \subseteq {"list read before"}
               PROVE  shown = LinesOf(open)
    BY DEF PageIsTranscript
  <2>1. work = {} /\ ~Loading /\ open \notin Leaving  BY DEF Quiet, Leaving
  <2> QED  BY <2>1 DEF ChatInv, ChatPageInv
<1> QED  BY <1>1, ChatInvariant, PTL
=============================================================================
