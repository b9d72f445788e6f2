------------------------------- MODULE Recall -------------------------------
(***************************************************************************)
(* What hippo reads back: the places a port looks in and the memories it   *)
(* must not use, a recall over those places one after another, what a turn *)
(* puts before the model, and what is shown under an answer later          *)
(* (apps/server/src/identity/persons.ts, packages/memory/src/port.ts,      *)
(* policy.ts, packages/core/src/agent.ts, apps/server/src/chat/            *)
(* resolve-citations.ts).                                                  *)
(*                                                                         *)
(* The person may hide a memory, show it again or leave the team, and a    *)
(* write may land, between any two of these steps.  The relayer may fail,  *)
(* or find memories and drop some or all of them.                          *)
(***************************************************************************)
EXTENDS Naturals, FiniteSets, SequencesExt

CONSTANTS
  Memory,
  Kind,         \* a memory's type
  Rank,         \* how far a memory is from the question, 1 the closest
  Written,      \* when it was written, as a place in that order
  Near,         \* those the question is close enough to
  Pending,      \* those that may not have landed yet
  Limit,        \* the size asked for, of the question and of the corrections
  TagLimit,     \* the size asked for at the start of a session
  Keep,         \* how many of these the model is given
  Attempts,     \* RECALL_ATTEMPTS
  MaxFaults,    \* answers that fail, or drop what they found
  MaxChanges    \* changes of the person's, and writes that land

MEMORY_TYPES == {"profile", "decision", "gotcha", "commitment", "correction", "style"}

\* No memory is further than this from the question.
Farthest == 100

ASSUME RecallAssumption ==
  /\ IsFiniteSet(Memory) /\ Kind \in [Memory -> MEMORY_TYPES]
  /\ Rank \in [Memory -> 1..Farthest] /\ Written \in [Memory -> Nat]
  /\ Near \union Pending \subseteq Memory
  /\ {Limit, TagLimit, Keep, Attempts} \subseteq Nat \ {0}
  /\ {MaxFaults, MaxChanges} \subseteq Nat

VARIABLES
  place,    \* where each memory is: the person's account, their namespace at
            \* hippo, their team's
  landed,   \* the memories the relayer has
  hidden,   \* the memories whose row says so
  owned,    \* whether the person owns an account
  member,   \* whether they are in the team
  req,      \* the request in progress
  given,    \* what the last turn put before the model, in order
  under,    \* what is shown under an answer
  since,    \* memories hidden since before the request in progress began
  there,    \* memories landed before it began
  missing,  \* the memories that the answers to a query of it left out
  faults, changes

vars == <<place, landed, hidden, owned, member, req, given, under,
          since, there, missing, faults, changes>>
person == <<place, landed, hidden, owned, member, changes>>

Correction(m) == Kind[m] = "correction"

-----------------------------------------------------------------------------
(* The relayer                                                             *)

\* How far a memory is from what is asked: the question, the three tags at the
\* start of a session, the corrections' tag, a citation's type.
Distance(q, m) ==
  CASE q = "question"    -> 2 * Rank[m]
    [] q = "tags"        -> 2 * Rank[m] + 1
    [] q = "corrections" -> IF Correction(m) THEN Rank[m] ELSE Rank[m] + Farthest
    [] q \in MEMORY_TYPES -> Rank[m]

Matches(q) ==
  CASE q = "question" -> Near
    [] q = "tags"     -> {m \in Memory: Kind[m] = "profile"}
    [] OTHER          -> Memory

Size(q) ==
  CASE q \in {"question", "corrections"} -> Limit
    [] q = "tags" -> TagLimit
    [] OTHER -> Cardinality(Memory)

Closest(q, S, k) ==
  {m \in S: Cardinality({n \in S: Distance(q, n) < Distance(q, m)}) < k}

At(p) == {m \in landed: place[m] = p}

\* What the relayer finds in a place.  It may then fail to download or decrypt
\* some of it (dropped_count).
Finds(q, p) == Closest(q, At(p) \intersect Matches(q), Size(q))

\* History, of the two queries that the properties are about.
NothingMissing == [q \in {"question", "corrections"} |-> {}]
LeftOut(S) ==
  missing' = [q \in {"question", "corrections"} |->
                IF q = req.jobs[1] THEN missing[q] \union S ELSE missing[q]]

-----------------------------------------------------------------------------
(* The port                                                                *)

\* portFor: the account a person owns is read first, with what they said to
\* hippo before, and their team's memory always last.
PlacesNow ==
  (IF owned THEN <<"own", "guest">> ELSE <<"guest">>)
    \o (IF member THEN <<"team">> ELSE << >>)

\* Mutant: only the first place's answer is looked through for hidden ones.
Visible_First(S) == IF req.i = 1 THEN S \ req.hid ELSE S

\* recall: a place's answer without what is hidden, in what was found so far.
Visible(S) == S \ req.hid

\* Mutant: cut to what the first place gave when that was less.
Merged_FirstSize(q, S) ==
  IF Len(req.places) > 1
  THEN Closest(q, S, Cardinality({m \in S: place[m] = req.places[1]}))
  ELSE S

\* Two places or more are cut to the size asked for.
Merged(q, S) == IF Len(req.places) > 1 THEN Closest(q, S, Size(q)) ELSE S

\* The end of one recall; S is what it returns.
Returns(S) ==
  req' = [req EXCEPT !.seen = @ \union {<<req.jobs[1], m>>: m \in S}, !.jobs = Tail(@),
                     !.i = 1, !.attempt = 1, !.found = {}]

\* On to the next place, or to the end.
Goes(S) ==
  IF req.i < Len(req.places)
  THEN req' = [req EXCEPT !.i = @ + 1, !.attempt = 1, !.found = S]
  ELSE Returns(Merged(req.jobs[1], S))

Recalling == req.at = "recall" /\ req.jobs # << >>
Found     == Finds(req.jobs[1], req.places[req.i])
Faulty    == faults < MaxFaults /\ faults' = faults + 1

\* Anything in the answer makes it the place's answer, whatever was dropped
\* from it; so does an empty one from which nothing was.
Answers ==
  /\ Recalling
  /\ \E lost \in SUBSET Found:
       /\ IF lost = {} THEN UNCHANGED faults ELSE lost # Found /\ Faulty
       /\ Goes(req.found \union Visible(Found \ lost))
       /\ LeftOut(lost)
  /\ UNCHANGED <<person, given, under, since, there>>

\* Everything found was dropped: ask again, and believe it the last time.
Drops ==
  /\ Recalling /\ Found # {} /\ Faulty
  /\ IF req.attempt < Attempts
     THEN req' = [req EXCEPT !.attempt = @ + 1] /\ UNCHANGED missing
     ELSE Goes(req.found) /\ LeftOut(Found)
  /\ UNCHANGED <<person, given, under, since, there>>

\* The first place fails: so does the recall.  Another one is gone without.
Fails ==
  /\ Recalling /\ Faulty
  /\ \/ req.i > 1 /\ Goes(req.found) /\ LeftOut(Found)
     \/ /\ req.i = 1
        /\ IF req.kind = "turn" THEN Returns({}) ELSE req' = [req EXCEPT !.jobs = << >>]
        /\ LeftOut(UNION {Finds(req.jobs[1], req.places[i]): i \in DOMAIN req.places})
  /\ UNCHANGED <<person, given, under, since, there>>

-----------------------------------------------------------------------------
(* A turn                                                                  *)

Idle == [at |-> "idle"]
Starts ==
  /\ req = Idle /\ since' = hidden /\ there' = landed /\ missing' = NothingMissing
  /\ UNCHANGED <<person, given, under, faults>>

Ask(kind, at, jobs, cites) ==
  [at |-> at, kind |-> kind, hid |-> {}, places |-> << >>, jobs |-> jobs, i |-> 1,
   attempt |-> 1, found |-> {}, seen |-> {}, cites |-> cites]

Turn ==
  \E tags \in {<< >>, <<"tags">>}:
    Starts /\ req' = Ask("turn", "hidden", <<"question">> \o tags, {})

ReadHidden ==
  /\ req.at = "hidden"
  /\ req' = [req EXCEPT !.at = "places", !.hid = hidden]
  /\ UNCHANGED <<person, given, under, since, there, missing, faults>>

ReadPlaces ==
  /\ req.at = "places"
  /\ req' = [req EXCEPT !.at = "recall", !.places = PlacesNow]
  /\ UNCHANGED <<person, given, under, since, there, missing, faults>>

\* gatherContext: each memory as it was first seen, the closest of them.
Seen(q) == {s[2]: s \in {t \in req.seen: t[1] = q}}
Far(m) == IF m \in Seen("question") THEN Distance("question", m) ELSE Distance("tags", m)
Gathered == Seen("question") \union Seen("tags")
Relevant == {m \in Gathered: Cardinality({n \in Gathered: Far(n) < Far(m)}) < Keep}

\* A row of the person's own says that they have corrected something.
HasCorrections == \E m \in Memory: Correction(m) /\ place[m] # "team"

Facts(S) == {m \in S: ~Correction(m)}

\* recallCorrections, when something to correct came back.
NeedsCorrections ==
  /\ req.at = "recall" /\ req.kind = "turn" /\ req.jobs = << >>
  /\ HasCorrections /\ Facts(Relevant) # {}
  /\ req' = [req EXCEPT !.at = "recall", !.kind = "corrected", !.jobs = <<"corrections">>]
  /\ UNCHANGED <<person, given, under, since, there, missing, faults>>

\* Mutant: the closest first.
NewestFirst_Closest(S) ==
  {s \in SetToSeqs(S): \A i, j \in DOMAIN s: i < j => Rank[s[i]] <= Rank[s[j]]}

\* orderNewestFirst.
NewestFirst(S) ==
  {s \in SetToSeqs(S): \A i, j \in DOMAIN s: i < j => Written[s[i]] >= Written[s[j]]}

Gives ==
  /\ req.at = "recall" /\ req.jobs = << >>
  /\ \/ req.kind = "turn" /\ ~(HasCorrections /\ Facts(Relevant) # {})
     \/ req.kind = "corrected"
  /\ given' \in NewestFirst(Relevant \union (Seen("corrections") \ Facts(Memory)))
  /\ req' = [Ask("turn", "given", << >>, {}) EXCEPT !.places = req.places, !.hid = req.hid]
  /\ UNCHANGED <<person, under, since, there, missing, faults>>

\* The answer is stored with what it cites; or what it used is on the page.
Answered ==
  /\ req.at \in {"given", "shown"}
  /\ req' = Idle /\ under' = {} /\ since' = {} /\ there' = {} /\ missing' = NothingMissing
  /\ UNCHANGED <<person, given, faults>>

-----------------------------------------------------------------------------
(* Under an answer                                                         *)

\* The cites of the last answer, twice without what is hidden by then.
Resolve == given # << >> /\ Starts /\ req' = Ask("cites", "drop", << >>, Range(given))

DropHidden ==
  /\ req.at = "drop"
  /\ req' = [req EXCEPT !.at = "again", !.cites = @ \ hidden]
  /\ UNCHANGED <<person, given, under, since, there, missing, faults>>

\* None left, or the person's rate is spent: nothing is looked for.
DropAgain ==
  /\ req.at = "again"
  /\ LET left == req.cites \ hidden
     IN \/ req' = [req EXCEPT !.at = "recall", !.cites = {}]
        \/ /\ left # {}
           /\ req' = [req EXCEPT !.at = "hidden", !.cites = left,
                                 !.jobs = SetToSeq({Kind[m]: m \in left})]
  /\ UNCHANGED <<person, given, under, since, there, missing, faults>>

\* Only a fact that was found again is shown.
Shows ==
  /\ req.at = "recall" /\ req.kind = "cites" /\ req.jobs = << >>
  /\ under' = req.cites \intersect {s[2]: s \in req.seen}
  /\ req' = Ask("cites", "shown", << >>, {})
  /\ UNCHANGED <<person, given, since, there, missing, faults>>

-----------------------------------------------------------------------------
(* Meanwhile                                                               *)

Changes == changes < MaxChanges /\ changes' = changes + 1

Hide(m) ==
  /\ Changes /\ m \in landed \ hidden /\ place[m] # "team"
  /\ hidden' = hidden \union {m}
  /\ UNCHANGED <<place, landed, owned, member, req, given, under, since, there, missing, faults>>

Unhide(m) ==
  /\ Changes /\ m \in hidden
  /\ hidden' = hidden \ {m} /\ since' = since \ {m}
  /\ UNCHANGED <<place, landed, owned, member, req, given, under, there, missing, faults>>

Land(m) ==
  /\ Changes /\ m \notin landed
  /\ landed' = landed \union {m}
  /\ UNCHANGED <<place, hidden, owned, member, req, given, under, since, there, missing, faults>>

Leave ==
  /\ Changes /\ member
  /\ member' = FALSE
  /\ UNCHANGED <<place, landed, hidden, owned, req, given, under, since, there, missing, faults>>

-----------------------------------------------------------------------------
Init ==
  /\ place \in [Memory -> {"own", "guest", "team"}]
  /\ landed \in {Memory, Memory \ Pending}
  /\ hidden = {} /\ owned \in BOOLEAN /\ member = TRUE
  /\ (\E m \in Memory: place[m] = "own") => owned
  /\ req = Idle /\ given = << >> /\ under = {}
  /\ since = {} /\ there = {} /\ missing = NothingMissing
  /\ faults = 0 /\ changes = 0

Next ==
  \/ Turn \/ ReadHidden \/ ReadPlaces \/ Answers \/ Drops \/ Fails
  \/ NeedsCorrections \/ Gives \/ Answered
  \/ Resolve \/ DropHidden \/ DropAgain \/ Shows
  \/ \E m \in Memory: Hide(m) \/ Unhide(m) \/ Land(m)
  \/ Leave

Spec == Init /\ [][Next]_vars

-----------------------------------------------------------------------------
(* Properties                                                              *)

\* A memory hidden before a turn began, and still hidden, is not given to the
\* model; one hidden before its page asked what an answer used is not shown
\* under it.  Every place, every query and both of the port's users have to
\* keep to a set that was read once, at the beginning.
HiddenStaysOut ==
  /\ req.at = "given" => Range(given) \intersect since = {}
  /\ under \intersect since = {}

\* A recall returns the closest of everything its places hold, as if it had
\* asked one place for all: of the memories closest to the question of a turn,
\* none that was there when it began is left out, but what the relayer's
\* answers left out and what was hidden; and nothing else is returned, when
\* nothing was left out, nothing is hidden and nothing has landed since.
In(S) == {m \in S: \E i \in DOMAIN req.places: place[m] = req.places[i]}
Held  == In(there)
Best  == Closest("question", In(landed) \intersect Near, Limit)
           \ (missing["question"] \union req.hid)

NothingCloserLeftOut ==
  (req.at = "recall" /\ req.kind # "cites" /\ req.jobs = << >>) =>
    /\ Best \intersect there \subseteq Seen("question")
    /\ (missing["question"] = {} /\ req.hid = {} /\ landed = there)
         => Seen("question") \subseteq Best

\* A correction stands before the fact it may correct: whenever a turn gives
\* the model a fact, it gives every correction that was there to be found, the
\* newer first, except those that an answer left out.  It holds while the
\* corrections, with those that are hidden, fit in one recall.
Few == Cardinality({m \in landed: Correction(m)}) <= Limit

CorrectionLeads ==
  (req.at = "given" /\ HasCorrections /\ Few) =>
    \A f \in Facts(Range(given)), c \in Held \ (req.hid \union missing["corrections"]):
      Correction(c) =>
        \E i, j \in DOMAIN given:
          given[i] = c /\ given[j] = f /\ (Written[c] > Written[f] => i < j)

=============================================================================
