------------------------------ MODULE RecallProofs ------------------------------
(***************************************************************************)
(* Recall proved for any memories, places, sizes, faults and changes.      *)
(* What was hidden before a request began and still is (since) is hidden   *)
(* now, so it is in the set that the request reads once; from then on      *)
(* nothing it found, saw or gave is in since, which only shrinks.  Of the  *)
(* closest memories and of the corrections, whatever the places asked so   *)
(* far hold is among what was found.  The last part is of Teams, where a   *)
(* turn finds the places it recalls from besides its own.                  *)
(***************************************************************************)
EXTENDS Recall, Teams, FiniteSetTheorems, SequenceTheorems, WellFoundedInduction, TLAPS

SeenAll == {s[2]: s \in req.seen}

(* The fields of a request in progress.                                      *)
Shape ==
  req # Idle =>
    req = [at |-> req.at, kind |-> req.kind, hid |-> req.hid, places |-> req.places,
           jobs |-> req.jobs, i |-> req.i, attempt |-> req.attempt, found |-> req.found,
           seen |-> req.seen, cites |-> req.cites]

(* Nothing was found before the places are known.                            *)
Fresh ==
  /\ req.at \in {"hidden", "places", "drop", "again"} => req.seen = {} /\ req.found = {}
  /\ req.at \in {"drop", "again"} => req.kind = "cites" /\ req.jobs = << >>

(* A request that looks for something keeps to the set it read.              *)
Reads ==
  /\ req.at = "places" => since \subseteq req.hid
  /\ req.at = "recall" /\ (req.jobs # << >> \/ req.kind = "turn") => since \subseteq req.hid

Out ==
  /\ req.at = "recall" => req.found \intersect since = {} /\ SeenAll \intersect since = {}
  /\ req.at = "given" => Range(given) \intersect since = {}
  /\ req.at = "shown" => under \intersect since = {}
  /\ req.at # "shown" => under = {}

IInv ==
  /\ Shape /\ since \subseteq hidden /\ Fresh /\ Reads /\ Out
  /\ req # Idle => req.at \in {"hidden", "places", "recall", "given", "drop", "again", "shown"}

(* What a turn looks for, one job after another, and where it is with it.    *)
TurnShape ==
  /\ req.at \in {"hidden", "places"} /\ req.kind # "cites" =>
       /\ req.kind = "turn" /\ req.jobs \in {<<"question">>, <<"question", "tags">>} /\ req.i = 1
  /\ req.at = "recall" /\ req.kind # "cites" =>
       /\ \/ req.kind = "turn"
             /\ req.jobs \in {<<"question">>, <<"question", "tags">>, <<"tags">>, << >>}
          \/ req.kind = "corrected" /\ req.jobs \in {<<"corrections">>, << >>}
       /\ req.places \in Seq({"own", "guest", "team"}) /\ req.i \in 1..Len(req.places)
       /\ req.i = 1 => req.found = {}
       /\ req.jobs = << >> => req.i = 1
       /\ req.jobs # << >> /\ req.jobs[1] = "question" => req.seen = {}
       /\ req.found \subseteq landed /\ SeenAll \subseteq landed

(* What was there in the places before the n-th.                             *)
Before(n) == {m \in there: \E j \in 1..(n - 1): place[m] = req.places[j]}

(* Of the closest memories that were there, the places so far have given     *)
(* all but what was left out.                                                *)
Complete == missing["question"] = {} /\ req.hid = {} /\ landed = there
ClosestFound ==
  req.at = "recall" /\ req.kind # "cites" =>
    IF req.jobs # << >> /\ req.jobs[1] = "question"
    THEN /\ Best \intersect Before(req.i) \subseteq req.found
         /\ req.found \subseteq In(landed) \intersect Near
    ELSE /\ Best \intersect there \subseteq Seen("question")
         /\ Complete => Seen("question") \subseteq Best

(* And of the corrections.                                                   *)
Corrections(S) == {c \in S \ (req.hid \union missing["corrections"]): Correction(c)}
CorrectionsFound ==
  req.at = "recall" /\ req.kind = "corrected" /\ Few =>
    IF req.jobs # << >> THEN Corrections(Before(req.i)) \subseteq req.found
    ELSE Corrections(Held) \subseteq Seen("corrections")

QInv ==
  /\ landed \subseteq Memory /\ there \subseteq landed
  /\ missing \in [{"question", "corrections"} -> SUBSET Memory]
  /\ TurnShape /\ ClosestFound /\ CorrectionsFound /\ CorrectionLeads

-----------------------------------------------------------------------------
(* Cutting to the closest, merging and ordering add nothing.                 *)
LEMMA MergedAddsNothing ==
  ASSUME NEW q, NEW S
  PROVE  Merged(q, S) \subseteq S
BY DEF Merged, Closest

LEMMA OrderAddsNothing ==
  ASSUME NEW S, NEW s \in NewestFirst(S)
  PROVE  Range(s) \subseteq S
BY DEF NewestFirst, SetToSeqs, Range

-----------------------------------------------------------------------------
(* The end of one place, or of the recall: S is what is kept.                *)
LEMMA GoesKeeps ==
  ASSUME IInv, Recalling, NEW S, S \intersect since = {}, Goes(S),
         UNCHANGED <<hidden, given, under, since>>
  PROVE  IInv'
<1>1. req # Idle /\ req.at = "recall"
  BY DEF Recalling, Idle
<1>2. CASE req.i < Len(req.places)
  <2>1. req' = [req EXCEPT !.i = @ + 1, !.attempt = 1, !.found = S]
    BY <1>2 DEF Goes
  <2>. QED BY <1>1, <2>1 DEF IInv, Shape, Fresh, Reads, Out, SeenAll, Idle, Recalling
<1>3. CASE ~(req.i < Len(req.places))
  <2>. DEFINE M == Merged(req.jobs[1], S)
  <2>1. M \intersect since = {}
    BY MergedAddsNothing
  <2>2. Returns(M)
    BY <1>3 DEF Goes
  <2>. HIDE DEF M
  <2>3. req' = [req EXCEPT !.seen = @ \union {<<req.jobs[1], m>>: m \in M}, !.jobs = Tail(@),
                           !.i = 1, !.attempt = 1, !.found = {}]
    BY <2>2 DEF Returns
  <2>4. req'.seen = req.seen \union {<<req.jobs[1], m>>: m \in M}
    BY <1>1, <2>3 DEF IInv, Shape
  <2>5. \A m \in M: <<req.jobs[1], m>>[2] = m
    OBVIOUS
  <2>6. SeenAll' = SeenAll \union M
    <3>1. \A s: s \in req'.seen <=> s \in req.seen \/ \E m \in M: s = <<req.jobs[1], m>>
      BY <2>4
    <3>2. ASSUME NEW x PROVE x \in SeenAll' <=> x \in SeenAll \/ x \in M
      <4>1. x \in SeenAll' <=> \E s \in req'.seen: x = s[2]
        BY DEF SeenAll
      <4>2. x \in SeenAll <=> \E s \in req.seen: x = s[2]
        BY DEF SeenAll
      <4>3. x \in M => \E s \in req'.seen: x = s[2]
        BY <2>5, <3>1, Zenon
      <4>4. ASSUME NEW s \in req'.seen, x = s[2] PROVE (\E t \in req.seen: x = t[2]) \/ x \in M
        BY <2>5, <3>1, <4>4, Zenon
      <4>. QED BY <3>1, <4>1, <4>2, <4>3, <4>4
    <3>. QED BY <3>2
  <2>. QED BY <1>1, <2>1, <2>3, <2>6 DEF IInv, Shape, Fresh, Reads, Out, Idle, Recalling
<1>. QED BY <1>2, <1>3

LEMMA AnswersKeeps == IInv /\ Answers => IInv'
<1>. SUFFICES ASSUME IInv, Answers PROVE IInv'
  OBVIOUS
<1>1. PICK lost \in SUBSET Found: Goes(req.found \union Visible(Found \ lost))
  BY DEF Answers
<1>2. Recalling /\ UNCHANGED <<hidden, given, under, since>>
  BY DEF Answers, person
<1>3. (req.found \union Visible(Found \ lost)) \intersect since = {}
  BY <1>2 DEF IInv, Reads, Out, Visible, Recalling
<1>. QED BY <1>1, <1>2, <1>3, GoesKeeps

LEMMA DropsKeeps == IInv /\ Drops => IInv'
<1>. SUFFICES ASSUME IInv, Drops PROVE IInv'
  OBVIOUS
<1>1. Recalling /\ req # Idle /\ UNCHANGED <<hidden, given, under, since>>
  BY DEF Drops, person, Recalling, Idle
<1>2. CASE req.attempt < Attempts
  <2>1. req' = [req EXCEPT !.attempt = @ + 1]
    BY <1>2 DEF Drops
  <2>. QED BY <1>1, <2>1 DEF IInv, Shape, Fresh, Reads, Out, SeenAll, Idle, Recalling
<1>3. CASE ~(req.attempt < Attempts)
  <2>1. Goes(req.found) /\ req.found \intersect since = {}
    BY <1>1, <1>3 DEF Drops, IInv, Out, Recalling
  <2>. QED BY <1>1, <2>1, GoesKeeps
<1>. QED BY <1>2, <1>3

LEMMA FailsKeeps == IInv /\ Fails => IInv'
<1>. SUFFICES ASSUME IInv, Fails PROVE IInv'
  OBVIOUS
<1>1. /\ Recalling /\ req # Idle /\ UNCHANGED <<hidden, given, under, since>>
      /\ \/ req.i > 1 /\ Goes(req.found)
         \/ req.kind = "turn" /\ Returns({})
         \/ req.kind # "turn" /\ req' = [req EXCEPT !.jobs = << >>]
  BY DEF Fails, person, Recalling, Idle
<1>2. CASE Goes(req.found)
  <2>1. req.found \intersect since = {}
    BY <1>1 DEF IInv, Out, Recalling
  <2>. QED BY <1>1, <1>2, <2>1, GoesKeeps
<1>3. CASE req.kind = "turn" /\ Returns({})
  <2>1. req' = [req EXCEPT !.seen = @ \union {<<req.jobs[1], m>>: m \in {}}, !.jobs = Tail(@),
                           !.i = 1, !.attempt = 1, !.found = {}]
    BY <1>3 DEF Returns
  <2>2. req'.seen = req.seen
    BY <1>1, <2>1 DEF IInv, Shape
  <2>. QED BY <1>1, <1>3, <2>1, <2>2 DEF IInv, Shape, Fresh, Reads, Out, SeenAll, Idle, Recalling
<1>4. CASE req.kind # "turn" /\ req' = [req EXCEPT !.jobs = << >>]
  BY <1>1, <1>4 DEF IInv, Shape, Fresh, Reads, Out, SeenAll, Idle, Recalling
<1>. QED BY <1>1, <1>2, <1>3, <1>4

-----------------------------------------------------------------------------
(* The other steps of a request.                                             *)
LEMMA AskIsFresh ==
  ASSUME NEW k, NEW a, NEW j, NEW c, a \in {"hidden", "drop"}, a = "drop" => k = "cites" /\ j = << >>, req = Idle, IInv,
         Starts, req' = Ask(k, a, j, c)
  PROVE  IInv'
BY DEF IInv, Shape, Fresh, Reads, Out, SeenAll, Idle, Starts, Ask, person

LEMMA StepsKeep ==
  IInv /\ (Turn \/ Resolve \/ ReadHidden \/ ReadPlaces \/ DropHidden \/ DropAgain) => IInv'
<1>. SUFFICES ASSUME IInv PROVE Turn \/ Resolve \/ ReadHidden \/ ReadPlaces
                                  \/ DropHidden \/ DropAgain => IInv'
  OBVIOUS
<1>1. CASE Turn
  <2>1. PICK tags \in {<< >>, <<"tags">>}:
          Starts /\ req' = Ask("turn", "hidden", <<"question">> \o tags, {})
    BY <1>1 DEF Turn
  <2>2. req = Idle
    BY <2>1 DEF Starts
  <2>. QED BY <2>1, <2>2, AskIsFresh
<1>2. CASE Resolve
  <2>1. Starts /\ req' = Ask("cites", "drop", << >>, Range(given))
    BY <1>2 DEF Resolve
  <2>2. req = Idle
    BY <2>1 DEF Starts
  <2>. QED BY <2>1, <2>2, AskIsFresh
<1>. DEFINE Kept == UNCHANGED <<hidden, given, under, since>>
<1>3. CASE ReadHidden
  <2>1. req # Idle /\ req.at = "hidden" /\ Kept /\ req' = [req EXCEPT !.at = "places", !.hid = hidden]
    BY <1>3 DEF ReadHidden, person, Idle
  <2>2. /\ req'.at = "places" /\ req'.hid = hidden /\ req'.seen = req.seen /\ req'.found = req.found
        /\ Shape' /\ req' # Idle
    BY <2>1 DEF IInv, Shape, Idle
  <2>. QED BY <2>1, <2>2 DEF IInv, Fresh, Reads, Out, SeenAll
<1>4. CASE ReadPlaces
  <2>1. req # Idle /\ req.at = "places" /\ Kept /\ req' = [req EXCEPT !.at = "recall", !.places = PlacesNow]
    BY <1>4 DEF ReadPlaces, person, Idle
  <2>2. /\ req'.at = "recall" /\ req'.hid = req.hid /\ req'.seen = req.seen /\ req'.found = req.found
        /\ Shape' /\ req' # Idle
    BY <2>1 DEF IInv, Shape, Idle
  <2>. QED BY <2>1, <2>2 DEF IInv, Fresh, Reads, Out, SeenAll
<1>5. CASE DropHidden
  <2>1. req # Idle /\ req.at = "drop" /\ Kept /\ req' = [req EXCEPT !.at = "again", !.cites = @ \ hidden]
    BY <1>5 DEF DropHidden, person, Idle
  <2>2. /\ req'.at = "again" /\ req'.seen = req.seen /\ req'.found = req.found
        /\ Shape' /\ req' # Idle
    BY <2>1 DEF IInv, Shape, Idle
  <2>. QED BY <2>1, <2>2 DEF IInv, Fresh, Reads, Out, SeenAll
<1>6. CASE DropAgain /\ req'.at # "hidden"
  <2>1. req # Idle /\ req.at = "again" /\ Kept
    BY <1>6 DEF DropAgain, person, Idle
  <2>2. \/ req' = [req EXCEPT !.at = "recall", !.cites = {}]
        \/ \E c, j: req' = [req EXCEPT !.at = "hidden", !.cites = c, !.jobs = j]
    BY <1>6 DEF DropAgain
  <2>3. req' = [req EXCEPT !.at = "recall", !.cites = {}]
    BY <1>6, <2>1, <2>2 DEF IInv, Shape
  <2>4. /\ req'.at = "recall" /\ req'.seen = req.seen /\ req'.found = req.found
        /\ req'.jobs = req.jobs /\ req'.kind = req.kind
        /\ Shape' /\ req' # Idle
    BY <2>1, <2>3 DEF IInv, Shape, Idle
  <2>. QED BY <2>1, <2>4 DEF IInv, Fresh, Reads, Out, SeenAll
<1>7. CASE DropAgain /\ req'.at = "hidden"
  <2>1. req # Idle /\ req.at = "again" /\ Kept
    BY <1>7 DEF DropAgain, person, Idle
  <2>2. PICK c, j: req' = [req EXCEPT !.at = "hidden", !.cites = c, !.jobs = j]
    <3>1. \/ req' = [req EXCEPT !.at = "recall", !.cites = {}]
          \/ \E c, j: req' = [req EXCEPT !.at = "hidden", !.cites = c, !.jobs = j]
      BY <1>7 DEF DropAgain
    <3>. QED BY <1>7, <2>1, <3>1 DEF IInv, Shape
  <2>3. /\ req'.at = "hidden" /\ req'.seen = req.seen /\ req'.found = req.found
        /\ Shape' /\ req' # Idle
    BY <2>1, <2>2 DEF IInv, Shape, Idle
  <2>. QED BY <2>1, <2>3 DEF IInv, Fresh, Reads, Out, SeenAll
<1>. QED BY <1>1, <1>2, <1>3, <1>4, <1>5, <1>6, <1>7

LEMMA NeedsCorrectionsKeeps == IInv /\ NeedsCorrections => IInv'
<1>. SUFFICES ASSUME IInv, NeedsCorrections PROVE IInv'
  OBVIOUS
<1>1. /\ req # Idle /\ req.at = "recall" /\ req.kind = "turn"
      /\ UNCHANGED <<hidden, given, under, since>>
      /\ req' = [req EXCEPT !.at = "recall", !.kind = "corrected", !.jobs = <<"corrections">>]
  BY DEF NeedsCorrections, person, Idle
<1>2. /\ req'.at = "recall" /\ req'.hid = req.hid /\ req'.seen = req.seen
      /\ req'.found = req.found /\ Shape' /\ req' # Idle
  BY <1>1 DEF IInv, Shape, Idle
<1>. QED BY <1>1, <1>2 DEF IInv, Fresh, Reads, Out, SeenAll

LEMMA GivesKeeps == IInv /\ Gives => IInv'
<1>. SUFFICES ASSUME IInv, Gives PROVE IInv'
  OBVIOUS
<1>. DEFINE S == Relevant \union (Seen("corrections") \ Facts(Memory))
<1>1. /\ req.at = "recall" /\ given' \in NewestFirst(S)
      /\ req' = [Ask("turn", "given", << >>, {}) EXCEPT !.places = req.places, !.hid = req.hid]
      /\ UNCHANGED <<hidden, under, since>>
  BY DEF Gives, person
<1>2. S \subseteq SeenAll
  <2>1. \A q: Seen(q) \subseteq SeenAll
    BY DEF Seen, SeenAll
  <2>. QED BY <2>1 DEF Relevant, Gathered
<1>3. Range(given') \intersect since = {}
  <2>. HIDE DEF S
  <2>1. Range(given') \subseteq S
    BY <1>1, OrderAddsNothing
  <2>. QED BY <1>1, <1>2, <2>1 DEF IInv, Out
<1>4. /\ req'.at = "given" /\ Shape' /\ req' # Idle
  BY <1>1 DEF Ask, Shape, Idle
<1>. QED BY <1>1, <1>3, <1>4 DEF IInv, Fresh, Reads, Out

LEMMA AnsweredKeeps == IInv /\ Answered => IInv'
BY DEF IInv, Shape, Fresh, Reads, Out, Idle, Answered, person

LEMMA ShowsKeeps == IInv /\ Shows => IInv'
<1>. SUFFICES ASSUME IInv, Shows PROVE IInv'
  OBVIOUS
<1>1. /\ req.at = "recall" /\ under' = req.cites \intersect SeenAll
      /\ req' = Ask("cites", "shown", << >>, {}) /\ UNCHANGED <<hidden, given, since>>
  BY DEF Shows, person, SeenAll
<1>2. req'.at = "shown" /\ Shape' /\ req' # Idle
  BY <1>1 DEF Ask, Shape, Idle
<1>. QED BY <1>1, <1>2 DEF IInv, Fresh, Reads, Out

LEMMA MeanwhileKeeps ==
  ASSUME IInv, UNCHANGED <<req, given, under>>, since' \subseteq since, since' \subseteq hidden'
  PROVE  IInv'
BY DEF IInv, Shape, Fresh, Reads, Out, SeenAll

LEMMA IInvInit == Init => IInv
BY DEF Init, IInv, Shape, Fresh, Reads, Out, SeenAll, Idle

LEMMA IInvNext == IInv /\ [Next]_vars => IInv'
<1>. SUFFICES ASSUME IInv, [Next]_vars PROVE IInv'
  OBVIOUS
<1>1. CASE Turn \/ Resolve \/ ReadHidden \/ ReadPlaces \/ DropHidden \/ DropAgain
  BY <1>1, StepsKeep
<1>2. CASE Answers \/ Drops \/ Fails
  BY <1>2, AnswersKeeps, DropsKeeps, FailsKeeps
<1>3. CASE NeedsCorrections \/ Gives \/ Answered \/ Shows
  BY <1>3, NeedsCorrectionsKeeps, GivesKeeps, AnsweredKeeps, ShowsKeeps
<1>4. ASSUME NEW m \in Memory, Hide(m) \/ Unhide(m) \/ Land(m) PROVE IInv'
  <2>1. UNCHANGED <<req, given, under>> /\ since' \subseteq since /\ since' \subseteq hidden'
    BY <1>4 DEF IInv, Hide, Unhide, Land
  <2>. QED BY <2>1, MeanwhileKeeps
<1>5. CASE Leave \/ UNCHANGED vars
  <2>1. UNCHANGED <<req, given, under>> /\ since' \subseteq since /\ since' \subseteq hidden'
    BY <1>5 DEF IInv, Leave, vars
  <2>. QED BY <2>1, MeanwhileKeeps
<1>. QED BY <1>1, <1>2, <1>3, <1>4, <1>5 DEF Next

(* A memory hidden before a turn, or a look under its answer, began, and     *)
(* still hidden, is neither given to the model nor shown: hiddenBlobs is     *)
(* read before the places, and every answer of every place passes visible    *)
(* (portFor, recall, gatherContext, resolveStoredCitations).                 *)
THEOREM HiddenAlwaysOut == Spec => []HiddenStaysOut
<1>1. IInv => HiddenStaysOut
  BY DEF IInv, Out, HiddenStaysOut
<1>. QED BY <1>1, IInvInit, IInvNext, PTL DEF Spec
-----------------------------------------------------------------------------
(* How far a memory is from what a turn asks is a number.                    *)
LEMMA DistanceType ==
  ASSUME NEW m \in Memory
  PROVE  /\ Distance("question", m) \in Nat
         /\ Distance("corrections", m) \in Nat
         /\ Correction(m) => Distance("corrections", m) <= Farthest
         /\ ~Correction(m) => Distance("corrections", m) > Farthest
<1>1. Rank[m] \in 1..Farthest /\ Farthest = 100
  BY RecallAssumption DEF Farthest
<1>2. /\ Distance("question", m) = 2 * Rank[m]
      /\ Distance("corrections", m) = IF Correction(m) THEN Rank[m] ELSE Rank[m] + Farthest
  BY DEF Distance, MEMORY_TYPES
<1>. QED BY <1>1, <1>2

Ahead(q, m, S) == {n \in S: Distance(q, n) < Distance(q, m)}

LEMMA AheadIsFinite ==
  ASSUME NEW q, NEW m, NEW S \in SUBSET Memory, NEW T \in SUBSET S
  PROVE  /\ IsFiniteSet(S) /\ Cardinality(S) \in Nat
         /\ Cardinality(Ahead(q, m, S)) \in Nat /\ Cardinality(Ahead(q, m, T)) \in Nat
         /\ Cardinality(Ahead(q, m, T)) <= Cardinality(Ahead(q, m, S))
<1>1. IsFiniteSet(S) /\ Cardinality(S) \in Nat
  BY RecallAssumption, FS_Subset, FS_CardinalityType
<1>2. Ahead(q, m, S) \subseteq S /\ Ahead(q, m, T) \subseteq Ahead(q, m, S)
  BY DEF Ahead
<1>3. IsFiniteSet(Ahead(q, m, S))
  BY <1>1, <1>2, FS_Subset
<1>4. /\ IsFiniteSet(Ahead(q, m, T))
      /\ Cardinality(Ahead(q, m, T)) <= Cardinality(Ahead(q, m, S))
  BY <1>2, <1>3, FS_Subset
<1>. QED BY <1>1, <1>3, <1>4, FS_CardinalityType

(* The closest of a set are among the closest of each part they are in.      *)
LEMMA ClosestOfPart ==
  ASSUME NEW q, NEW k \in Nat, NEW S \in SUBSET Memory, NEW T \in SUBSET S
  PROVE  Closest(q, S, k) \intersect T \subseteq Closest(q, T, k)
<1>. SUFFICES ASSUME NEW m \in T, m \in Closest(q, S, k) PROVE m \in Closest(q, T, k)
  OBVIOUS
<1>1. Cardinality(Ahead(q, m, S)) < k
  BY DEF Closest, Ahead
<1>2. Cardinality(Ahead(q, m, T)) < k
  BY <1>1, AheadIsFinite
<1>. QED BY <1>2 DEF Closest, Ahead

(* Of some memories one is the closest.                                      *)
LEMMA OneIsClosest ==
  ASSUME NEW q, NEW Y \in SUBSET Memory, Y # {}, \A m \in Y: Distance(q, m) \in Nat
  PROVE  \E m \in Y: \A n \in Y: ~(Distance(q, n) < Distance(q, m))
<1>. DEFINE D == {Distance(q, m): m \in Y}
<1>1. D \subseteq Nat /\ D # {}
  OBVIOUS
<1>2. PICK x \in D: \A y \in D: ~(<<y, x>> \in OpToRel(<, Nat))
  <2>. HIDE DEF D
  <2>. QED BY <1>1, NatLessThanWellFounded, WFMin, Zenon
<1>3. \A y \in D: ~(y < x)
  <2>1. ASSUME NEW y \in D, y < x PROVE <<y, x>> \in OpToRel(<, Nat)
    <3>1. y \in Nat /\ x \in Nat
      BY <1>1
    <3>2. <<y, x>> \in Nat \X Nat /\ <<y, x>>[1] = y /\ <<y, x>>[2] = x
      BY <3>1
    <3>. QED BY <2>1, <3>2, Zenon DEF OpToRel
  <2>. QED BY <1>2, <2>1, Zenon
<1>. QED BY <1>2, <1>3

(* Cutting to the closest in two steps is cutting once, when the first step  *)
(* leaves out none of the closest.                                           *)
LEMMA ClosestOfClosest ==
  ASSUME NEW q, NEW k \in Nat, NEW S \in SUBSET Memory, NEW F \in SUBSET S,
         Closest(q, S, k) \subseteq F, \A m \in S: Distance(q, m) \in Nat
  PROVE  Closest(q, F, k) = Closest(q, S, k)
<1>1. Closest(q, S, k) \subseteq Closest(q, F, k)
  BY ClosestOfPart
<1>2. ASSUME NEW m \in Closest(q, F, k), m \notin Closest(q, S, k) PROVE FALSE
  <2>. DEFINE Y == {n \in S \ Closest(q, S, k): ~(Distance(q, m) < Distance(q, n))}
  <2>1. m \in F /\ m \in S /\ Cardinality(Ahead(q, m, F)) < k
    BY DEF Closest, Ahead
  <2>2. m \in Y
    BY <1>2, <2>1
  <2>3. PICK n \in Y: \A o \in Y: ~(Distance(q, o) < Distance(q, n))
    <3>1. Y \in SUBSET Memory /\ Y # {} /\ \A o \in Y: Distance(q, o) \in Nat
      BY <2>2
    <3>. HIDE DEF Y
    <3>. QED BY <3>1, OneIsClosest
  <2>4. /\ n \in S /\ n \notin Closest(q, S, k) /\ ~(Distance(q, m) < Distance(q, n))
        /\ Distance(q, n) \in Nat /\ Distance(q, m) \in Nat
    BY <2>1
  <2>5. Ahead(q, n, S) \subseteq Ahead(q, m, F)
    <3>. SUFFICES ASSUME NEW o \in S, Distance(q, o) < Distance(q, n)
                  PROVE o \in F /\ Distance(q, o) < Distance(q, m)
      BY DEF Ahead
    <3>1. Distance(q, o) \in Nat
      OBVIOUS
    <3>2. Distance(q, o) < Distance(q, m) /\ ~(Distance(q, m) < Distance(q, o))
      BY <2>4, <3>1
    <3>3. o \in Closest(q, S, k)
      BY <2>3, <3>2
    <3>. QED BY <3>2, <3>3
  <2>6. ~(Cardinality(Ahead(q, n, S)) < k)
    BY <2>4 DEF Closest, Ahead
  <2>7. Ahead(q, m, F) \subseteq F /\ F \in SUBSET Memory
    BY DEF Ahead
  <2>8. /\ IsFiniteSet(Ahead(q, m, F)) /\ Cardinality(Ahead(q, n, S)) \in Nat
        /\ Cardinality(Ahead(q, m, F)) \in Nat
    BY <2>7, AheadIsFinite, FS_Subset
  <2>9. Cardinality(Ahead(q, n, S)) <= Cardinality(Ahead(q, m, F))
    BY <2>5, <2>8, FS_Subset
  <2>. QED BY <2>1, <2>6, <2>8, <2>9
<1>. QED BY <1>1, <1>2

(* When they are few, the corrections all fit in one answer.                 *)
LEMMA CorrectionsFit ==
  ASSUME landed \subseteq Memory, Few, NEW S \in SUBSET landed, NEW c \in S, Correction(c)
  PROVE  c \in Closest("corrections", S, Limit)
<1>. DEFINE C == {m \in landed: Correction(m)}
            A == Ahead("corrections", c, S)
<1>1. C \in SUBSET Memory /\ IsFiniteSet(C) /\ Cardinality(C) \in Nat /\ Cardinality(C) <= Limit
  BY AheadIsFinite DEF Few
<1>2. A \subseteq C /\ c \in C /\ c \notin A
  <2>1. ASSUME NEW n \in A PROVE Correction(n) /\ n \in landed /\ n # c
    <3>1. n \in Memory /\ c \in Memory /\ Distance("corrections", n) < Distance("corrections", c)
      BY DEF Ahead
    <3>. QED BY <3>1, DistanceType DEF Ahead, Farthest
  <2>. QED BY <2>1
<1>3. Cardinality(A) <= Cardinality(C) /\ Cardinality(A) # Cardinality(C) /\ IsFiniteSet(A)
  <2>. HIDE DEF A, C
  <2>. QED BY <1>1, <1>2, FS_Subset
<1>4. Cardinality(A) \in Nat /\ Limit \in Nat
  BY <1>3, FS_CardinalityType, RecallAssumption
<1>5. Cardinality(A) < Limit
  BY <1>1, <1>3, <1>4
<1>. QED BY <1>5 DEF Closest, Ahead

(* Ordering leaves nothing out.                                              *)
LEMMA OrderLeavesNothingOut ==
  ASSUME NEW S, IsFiniteSet(S), NEW s \in NewestFirst(S), NEW m \in S
  PROVE  \E i \in DOMAIN s: s[i] = m
<1>. DEFINE D == 1..Cardinality(S)
<1>1. s \in [D -> S] /\ \A i, j \in D: i # j => s[i] # s[j]
  BY DEF NewestFirst, SetToSeqs
<1>2. s \in Injection(D, S)
  BY <1>1 DEF Injection, IsInjective
<1>3. Cardinality(S) \in Nat /\ Cardinality(D) = Cardinality(S)
  BY FS_CardinalityType, FS_Interval
<1>4. s \in Surjection(D, S)
  BY <1>2, <1>3, FS_Injection
<1>. QED BY <1>1, <1>4 DEF Surjection

-----------------------------------------------------------------------------
(* What a recall returns is added to what was seen, under its job.           *)
LEMMA ReturnsAdds ==
  ASSUME IInv, Recalling, NEW M, Returns(M)
  PROVE  /\ req'.at = req.at /\ req'.kind = req.kind /\ req'.hid = req.hid
         /\ req'.places = req.places /\ req'.jobs = Tail(req.jobs) /\ req'.i = 1
         /\ req'.found = {}
         /\ \A q: Seen(q)' = Seen(q) \union (IF q = req.jobs[1] THEN M ELSE {})
         /\ SeenAll' = SeenAll \union M
<1>1. req # Idle
  BY DEF Recalling, Idle
<1>2. /\ req'.at = req.at /\ req'.kind = req.kind /\ req'.hid = req.hid
      /\ req'.places = req.places /\ req'.jobs = Tail(req.jobs) /\ req'.i = 1
      /\ req'.found = {}
      /\ req'.seen = req.seen \union {<<req.jobs[1], m>>: m \in M}
  BY <1>1 DEF Returns, IInv, Shape
<1>3. \A m \in M: <<req.jobs[1], m>>[1] = req.jobs[1] /\ <<req.jobs[1], m>>[2] = m
  OBVIOUS
<1>4. \A s: s \in req'.seen <=> s \in req.seen \/ \E m \in M: s = <<req.jobs[1], m>>
  BY <1>2
<1>5. ASSUME NEW x PROVE x \in SeenAll' <=> x \in SeenAll \/ x \in M
  <2>1. x \in SeenAll' <=> \E s \in req'.seen: x = s[2]
    BY DEF SeenAll
  <2>2. x \in SeenAll <=> \E s \in req.seen: x = s[2]
    BY DEF SeenAll
  <2>3. x \in M => \E s \in req'.seen: x = s[2]
    BY <1>3, <1>4, Zenon
  <2>4. ASSUME NEW s \in req'.seen, x = s[2] PROVE (\E t \in req.seen: x = t[2]) \/ x \in M
    <3>1. CASE s \in req.seen
      BY <2>4, <3>1
    <3>2. CASE \E m \in M: s = <<req.jobs[1], m>>
      <4>1. PICK m \in M: s = <<req.jobs[1], m>>
        BY <3>2
      <4>. QED BY <2>4, <4>1
    <3>. QED BY <1>4, <3>1, <3>2
  <2>. QED BY <1>4, <2>1, <2>2, <2>3, <2>4
<1>6. ASSUME NEW q, NEW x
      PROVE  x \in Seen(q)' <=> x \in Seen(q) \/ (q = req.jobs[1] /\ x \in M)
  <2>1. x \in Seen(q)' <=> \E s \in req'.seen: s[1] = q /\ x = s[2]
    BY DEF Seen
  <2>2. x \in Seen(q) <=> \E s \in req.seen: s[1] = q /\ x = s[2]
    BY DEF Seen
  <2>3. q = req.jobs[1] /\ x \in M => \E s \in req'.seen: s[1] = q /\ x = s[2]
    BY <1>3, <1>4, Zenon
  <2>4. ASSUME NEW s \in req'.seen, s[1] = q, x = s[2]
        PROVE  (\E t \in req.seen: t[1] = q /\ x = t[2]) \/ (q = req.jobs[1] /\ x \in M)
    <3>1. CASE s \in req.seen
      BY <2>4, <3>1
    <3>2. CASE \E m \in M: s = <<req.jobs[1], m>>
      <4>1. PICK m \in M: s = <<req.jobs[1], m>>
        BY <3>2
      <4>. QED BY <2>4, <4>1
    <3>. QED BY <1>4, <3>1, <3>2
  <2>. QED BY <1>4, <2>1, <2>2, <2>3, <2>4
<1>7. \A q: Seen(q)' = Seen(q) \union (IF q = req.jobs[1] THEN M ELSE {})
  <2>. SUFFICES ASSUME NEW q PROVE Seen(q)' = Seen(q) \union (IF q = req.jobs[1] THEN M ELSE {})
    OBVIOUS
  <2>. QED BY <1>6
<1>8. SeenAll' = SeenAll \union M
  BY <1>5
<1>. QED BY <1>2, <1>7, <1>8

(* What a turn may be looking for.                                           *)
LEMMA TurnJobs ==
  ASSUME TurnShape, Recalling, req.kind # "cites"
  PROVE  /\ \/ req.kind = "turn" /\ req.jobs[1] \in {"question", "tags"}
            \/ req.kind = "corrected" /\ req.jobs = <<"corrections">>
         /\ req.jobs[1] = "question" => Tail(req.jobs) \in {<<"tags">>, << >>}
         /\ req.jobs[1] # "question" => Tail(req.jobs) = << >>
<1>1. \/ /\ req.kind = "turn"
         /\ req.jobs \in {<<"question">>, <<"question", "tags">>, <<"tags">>}
      \/ req.kind = "corrected" /\ req.jobs = <<"corrections">>
  BY DEF TurnShape, Recalling
<1>2. /\ <<"question">>[1] = "question" /\ <<"question", "tags">>[1] = "question"
      /\ <<"tags">>[1] = "tags" /\ <<"corrections">>[1] = "corrections"
      /\ Tail(<<"question">>) = << >> /\ Tail(<<"question", "tags">>) = <<"tags">>
      /\ Tail(<<"tags">>) = << >> /\ Tail(<<"corrections">>) = << >>
  OBVIOUS
<1>. QED BY <1>1, <1>2

(* The places up to the n-th, and the n-th.                                  *)
LEMMA OnePlaceMore ==
  ASSUME NEW n \in Nat, n > 0
  PROVE  Before(n + 1) = Before(n) \union {m \in there: place[m] = req.places[n]}
<1>1. 1..((n + 1) - 1) = (1..(n - 1)) \union {n}
  OBVIOUS
<1>. QED BY <1>1 DEF Before

LEMMA AllPlaces ==
  ASSUME req.places \in Seq({"own", "guest", "team"})
  PROVE  Before(Len(req.places) + 1) = Held
<1>1. (Len(req.places) + 1) - 1 = Len(req.places)
  OBVIOUS
<1>. QED BY <1>1 DEF Before, Held, In

-----------------------------------------------------------------------------
(* What is the closest of all is the closest of its place.                   *)
LEMMA BestIsFound ==
  ASSUME landed \subseteq Memory, NEW m \in Closest("question", In(landed) \intersect Near, Limit),
         NEW p, place[m] = p, \E i \in DOMAIN req.places: req.places[i] = p
  PROVE  m \in Finds("question", p)
<1>. DEFINE U == In(landed) \intersect Near
            T == At(p) \intersect Near
<1>1. m \in U /\ U \in SUBSET Memory
  BY DEF Closest, In
<1>2. T \in SUBSET U /\ m \in T
  BY <1>1 DEF At, In
<1>3. m \in Closest("question", T, Limit)
  <2>. HIDE DEF U, T
  <2>. QED BY <1>1, <1>2, ClosestOfPart, RecallAssumption DEF U
<1>. QED BY <1>3 DEF Finds, Matches, Size

LEMMA CorrectionIsFound ==
  ASSUME landed \subseteq Memory, Few, NEW c \in landed, Correction(c)
  PROVE  c \in Finds("corrections", place[c])
<1>1. At(place[c]) \in SUBSET landed /\ c \in At(place[c])
  BY DEF At
<1>2. At(place[c]) \intersect Matches("corrections") = At(place[c])
  BY <1>1 DEF Matches
<1>. QED BY <1>1, <1>2, CorrectionsFit DEF Finds, Size

(* What holds of a query still holds when another leaves something out.      *)
LEMMA LeavesOut ==
  ASSUME QInv, NEW L \in SUBSET Memory, LeftOut(L)
  PROVE  /\ missing' \in [{"question", "corrections"} -> SUBSET Memory]
         /\ \A q \in {"question", "corrections"}:
              missing'[q] = missing[q] \union (IF q = req.jobs[1] THEN L ELSE {})
BY DEF QInv, LeftOut

LEMMA BestLess ==
  ASSUME QInv, UNCHANGED <<landed, there, place, req.places, req.hid>>,
         missing["question"] \subseteq missing'["question"]
  PROVE  /\ Best' = Closest("question", In(landed) \intersect Near, Limit)
                      \ (missing'["question"] \union req.hid)
         /\ Best' \subseteq Best /\ (Complete' => Complete)
<1>1. (In(landed) \intersect Near)' = In(landed) \intersect Near
  BY DEF In
<1>2. Closest("question", In(landed) \intersect Near, Limit)'
        = Closest("question", In(landed) \intersect Near, Limit)
  BY <1>1 DEF Closest, Distance, Correction
<1>. QED BY <1>2 DEF Best, Complete

(* The end of one place, or of the recall, for a turn: A is what the place   *)
(* answered, or nothing where it did not, and L what it left out.            *)
LEMMA GoesFinds ==
  ASSUME IInv, QInv, Recalling, NEW L \in SUBSET Found, Goes(req.found \union Visible(Found \ L)),
         UNCHANGED <<place, landed, there, given>>, LeftOut(L)
  PROVE  QInv'
<1>. DEFINE q == req.jobs[1]
            n == Len(req.places)
            A == Visible(Found \ L)
            S == req.found \union A
            Here == {m \in there: place[m] = req.places[req.i]}
<1>1. req # Idle /\ req.at = "recall" /\ req.jobs # << >>
  BY DEF Recalling, Idle
<1>2. landed \subseteq Memory /\ there \subseteq landed /\ TurnShape
  BY DEF QInv
<1>0. Found \subseteq At(req.places[req.i]) \intersect Matches(q) /\ Found \subseteq landed
  BY DEF Found, Finds, Closest, At
<1>5. /\ missing' \in [{"question", "corrections"} -> SUBSET Memory]
      /\ \A r \in {"question", "corrections"}:
           missing'[r] = missing[r] \union (IF r = q THEN L ELSE {})
  BY <1>0, <1>2, LeavesOut
<1>3. CASE req.kind = "cites"
  <2>1. req'.at = "recall" /\ req'.kind = "cites"
    <3>1. CASE req.i < n
      BY <1>1, <1>3, <3>1 DEF Goes, IInv, Shape
    <3>2. CASE ~(req.i < n)
      BY <1>3, <3>2, <1>1, ReturnsAdds DEF Goes
    <3>. QED BY <3>1, <3>2
  <2>. QED BY <1>2, <1>5, <2>1 DEF QInv, TurnShape, ClosestFound, CorrectionsFound, CorrectionLeads
<1>4. CASE req.kind # "cites"
  <2>1. /\ req.places \in Seq({"own", "guest", "team"}) /\ req.i \in 1..n
        /\ req.found \subseteq landed /\ SeenAll \subseteq landed /\ S \subseteq landed
        /\ A \subseteq Found
        /\ req.i = 1 => req.found = {}
    BY <1>0, <1>1, <1>2, <1>4 DEF TurnShape, Visible
  <2>2. n \in Nat /\ n >= 1 /\ req.i \in Nat /\ req.i >= 1 /\ req.i <= n
    <3>1. n \in Nat
      BY <2>1
    <3>. QED BY <2>1, <3>1
  <2>3. n > 1 \/ n = 1
    <3>. HIDE DEF n
    <3>. QED BY <2>2
  <2>4. /\ \/ req.kind = "turn" /\ q \in {"question", "tags"}
           \/ req.kind = "corrected" /\ req.jobs = <<"corrections">>
        /\ q = "question" => Tail(req.jobs) \in {<<"tags">>, << >>}
        /\ q # "question" => Tail(req.jobs) = << >>
    BY <1>2, <1>4, TurnJobs
  <2>5. Before(req.i + 1) = Before(req.i) \union Here
    BY <2>1, OnePlaceMore
  <2>6. Before(n + 1) = Held
    BY <2>1, AllPlaces DEF Held
  <2>0. req.i \in DOMAIN req.places
    BY <2>1
  <2>. DEFINE B == Closest("question", In(landed) \intersect Near, Limit)
                     \ (missing'["question"] \union req.hid)
  (* What the question has found so far, one place more. *)
  <2>7. ASSUME q = "question"
        PROVE  /\ B \intersect Before(req.i + 1) \subseteq S
               /\ S \subseteq In(landed) \intersect Near
    <3>1. /\ Best \intersect Before(req.i) \subseteq req.found
          /\ req.found \subseteq In(landed) \intersect Near
      BY <1>1, <1>4, <2>7 DEF QInv, ClosestFound
    <3>2. missing'["question"] = missing["question"] \union L
      BY <1>5, <2>7
    <3>3. B \intersect Before(req.i) \subseteq req.found
      BY <3>1, <3>2 DEF Best
    <3>4. ASSUME NEW m \in B, m \in Here PROVE m \in A
      <4>1. place[m] = req.places[req.i] /\ m \in Closest("question", In(landed) \intersect Near, Limit)
        BY <3>4
      <4>2. m \in Finds("question", req.places[req.i])
        BY <1>2, <2>0, <4>1, BestIsFound
      <4>. QED BY <2>7, <3>2, <4>2 DEF Found, Visible
    <3>5. A \subseteq In(landed) \intersect Near
      BY <1>0, <2>0, <2>1, <2>7 DEF In, At, Matches
    <3>. HIDE DEF B, A, Here
    <3>. QED BY <2>5, <3>1, <3>3, <3>4, <3>5
  (* The corrections found so far, one place more. *)
  <2>. DEFINE C(X) == {c \in X \ (req.hid \union missing'["corrections"]): Correction(c)}
  <2>8. ASSUME Few, req.kind = "corrected"
        PROVE  C(Before(req.i + 1)) \subseteq S
    <3>1. Corrections(Before(req.i)) \subseteq req.found
      BY <1>1, <2>8 DEF QInv, CorrectionsFound
    <3>2. q = "corrections" /\ missing'["corrections"] = missing["corrections"] \union L
      BY <1>5, <2>4, <2>8
    <3>3. ASSUME NEW c \in C(Here) PROVE c \in A
      <4>1. c \in landed /\ Correction(c) /\ place[c] = req.places[req.i]
        BY <1>2
      <4>2. c \in Found
        BY <1>2, <2>8, <3>2, <4>1, CorrectionIsFound DEF Found
      <4>. QED BY <3>2, <4>2 DEF Visible
    <3>4. C(Before(req.i)) \subseteq req.found
      BY <3>1, <3>2 DEF Corrections
    <3>. HIDE DEF A, Here
    <3>. QED BY <2>5, <3>3, <3>4
  <2>9. Few' = Few
    BY DEF Few, Correction
  <2>. HIDE DEF A
  <2>10. CASE req.i < n
    <3>1. /\ req'.at = "recall" /\ req'.kind = req.kind /\ req'.hid = req.hid
          /\ req'.places = req.places /\ req'.jobs = req.jobs /\ req'.i = req.i + 1
          /\ req'.found = S /\ req'.seen = req.seen
      BY <1>1, <2>10 DEF Goes, IInv, Shape, A
    <3>2. TurnShape'
      <4>1. req.i + 1 \in 1..n /\ req.i + 1 # 1
        BY <2>2, <2>10
      <4>2. SeenAll' = SeenAll
        BY <3>1 DEF SeenAll
      <4>. QED BY <1>1, <1>2, <1>4, <2>1, <3>1, <4>1, <4>2 DEF TurnShape
    <3>3. (Before(req.i))' = Before(req.i + 1) /\ In(landed)' = In(landed)
      BY <3>1 DEF Before, In
    <3>7. Best' = B /\ Best' \subseteq Best /\ (Complete' => Complete)
      BY <1>5, <3>1, BestLess
    <3>4. ClosestFound'
      <4>. HIDE DEF B
      <4>1. CASE q = "question"
        BY <1>1, <2>7, <3>1, <3>3, <3>7, <4>1 DEF ClosestFound
      <4>2. CASE q # "question"
        <5>1. Seen("question")' = Seen("question") /\ missing'["question"] = missing["question"]
          BY <1>5, <3>1, <4>2 DEF Seen
        <5>2. Best' = Best
          BY <3>7, <5>1 DEF Best, B
        <5>. QED BY <1>1, <1>4, <3>1, <3>7, <4>2, <5>1, <5>2 DEF QInv, ClosestFound
      <4>. QED BY <4>1, <4>2
    <3>5. CorrectionsFound'
      <4>. SUFFICES ASSUME req.kind = "corrected", Few
                    PROVE  Corrections(Before(req.i))' \subseteq S
        BY <1>1, <2>9, <3>1 DEF CorrectionsFound
      <4>. QED BY <2>8, <3>1, <3>3 DEF Corrections, Correction
    <3>. QED BY <1>2, <1>5, <3>1, <3>2, <3>4, <3>5 DEF QInv, CorrectionLeads
  <2>11. CASE ~(req.i < n)
    <3>. DEFINE M == Merged(q, S)
    <3>1. req.i = n /\ Returns(M)
      BY <2>1, <2>11 DEF Goes, A
    <3>2. M \subseteq S
      BY MergedAddsNothing
    <3>. HIDE DEF M
    <3>3. /\ req'.at = req.at /\ req'.kind = req.kind /\ req'.hid = req.hid
          /\ req'.places = req.places /\ req'.jobs = Tail(req.jobs) /\ req'.i = 1
          /\ req'.found = {}
          /\ \A r: Seen(r)' = Seen(r) \union (IF r = q THEN M ELSE {})
          /\ SeenAll' = SeenAll \union M
      BY <3>1, ReturnsAdds
    <3>4. TurnShape'
      <4>1. req'.jobs \in {<<"tags">>, << >>} /\ <<"tags">>[1] = "tags"
        BY <2>4, <3>3
      <4>2. req'.kind = "corrected" => req'.jobs = << >>
        BY <2>4, <3>3
      <4>. QED BY <1>1, <1>2, <1>4, <2>1, <2>4, <3>2, <3>3, <4>1, <4>2 DEF TurnShape
    <3>5. Held' = Held
      BY <3>3 DEF Held, In
    <3>8. Best' = B /\ Best' \subseteq Best /\ (Complete' => Complete)
      BY <1>5, <3>3, BestLess
    <3>6. ClosestFound'
      <4>. SUFFICES /\ B \intersect there \subseteq Seen("question")'
                    /\ Complete' => Seen("question")' \subseteq B
        <5>1. ~(req'.jobs # << >> /\ req'.jobs[1] = "question")
          <6>1. req'.jobs \in {<<"tags">>, << >>} /\ <<"tags">>[1] = "tags"
            BY <2>4, <3>3
          <6>. QED BY <6>1
        <5>. HIDE DEF B
        <5>. QED BY <1>1, <3>3, <3>8, <5>1 DEF ClosestFound
      <4>1. CASE q = "question"
        <5>1. Seen("question")' = M
          <6>1. Seen("question") = {}
            BY <1>1, <1>2, <1>4, <4>1 DEF TurnShape, Seen
          <6>. QED BY <3>3, <4>1, <6>1
        <5>. DEFINE U == In(landed) \intersect Near
        <5>2. U \in SUBSET Memory /\ \A m \in U: Distance("question", m) \in Nat
          BY <1>2, DistanceType DEF In
        <5>3. S \in SUBSET U /\ B \intersect there \subseteq S
          <6>1. B \subseteq In(landed) /\ In(landed) \intersect there \subseteq Held
            BY <1>2 DEF Closest, In, Held
          <6>2. B \intersect Held \subseteq S /\ S \subseteq U
            BY <2>6, <2>7, <3>1, <4>1
          <6>. HIDE DEF B, S, U
          <6>. QED BY <6>1, <6>2
        <5>4. B \subseteq Closest("question", U, Limit)
          OBVIOUS
        <5>5. Complete' => B = Closest("question", U, Limit) /\ landed = there /\ L = {} /\ req.hid = {}
          <6>1. missing'["question"] = missing["question"] \union L
            BY <1>5, <4>1
          <6>. QED BY <3>3, <6>1 DEF Complete
        <5>6. B \intersect there \subseteq M
          <6>1. CASE n > 1
            <7>1. M = Closest("question", S, Limit)
              BY <4>1, <6>1 DEF M, Merged, Size
            <7>2. Closest("question", U, Limit) \intersect S \subseteq Closest("question", S, Limit)
              <8>. HIDE DEF U, S
              <8>. QED BY <5>2, <5>3, ClosestOfPart, RecallAssumption
            <7>. HIDE DEF U, S, B
            <7>. QED BY <5>3, <5>4, <7>1, <7>2
          <6>2. CASE ~(n > 1)
            BY <5>3, <6>2 DEF M, Merged
          <6>. QED BY <6>1, <6>2
        <5>7. ASSUME Complete' PROVE M \subseteq B
          <6>1. CASE n > 1
            <7>1. M = Closest("question", S, Limit)
              BY <4>1, <6>1 DEF M, Merged, Size
            <7>2. Closest("question", U, Limit) \subseteq S
              <8>1. Closest("question", U, Limit) \subseteq landed
                BY DEF Closest, In
              <8>. HIDE DEF U, S, B
              <8>. QED BY <5>3, <5>5, <5>7, <8>1
            <7>3. Closest("question", S, Limit) = Closest("question", U, Limit)
              <8>. HIDE DEF U, S
              <8>. QED BY <5>2, <5>3, <7>2, ClosestOfClosest, RecallAssumption
            <7>. HIDE DEF U, S, B
            <7>. QED BY <5>5, <5>7, <7>1, <7>3
          <6>2. CASE ~(n > 1)
            <7>1. n = 1 /\ req.i = 1
              BY <2>3, <3>1, <6>2
            <7>2. S \subseteq Closest("question", At(req.places[1]) \intersect Near, Limit)
              BY <2>1, <4>1, <7>1 DEF Found, Finds, Matches, Size
            <7>3. U = At(req.places[1]) \intersect Near
              <8>1. DOMAIN req.places = {1}
                BY <2>1, <7>1
              <8>. QED BY <8>1 DEF At, In
            <7>. HIDE DEF U, S, B
            <7>. QED BY <3>2, <5>5, <5>7, <7>2, <7>3
          <6>. QED BY <6>1, <6>2
        <5>. HIDE DEF B
        <5>. QED BY <5>1, <5>6, <5>7
      <4>2. CASE q # "question"
        <5>1. Seen("question")' = Seen("question") /\ missing'["question"] = missing["question"]
          BY <1>5, <3>3, <4>2
        <5>2. Best' = Best
          BY <3>8, <5>1 DEF Best, B
        <5>3. /\ Best \intersect there \subseteq Seen("question")
              /\ Complete => Seen("question") \subseteq Best
          BY <1>1, <1>4, <4>2 DEF QInv, ClosestFound
        <5>. HIDE DEF B
        <5>. QED BY <3>8, <5>1, <5>2, <5>3
      <4>. QED BY <4>1, <4>2
    <3>7. CorrectionsFound'
      <4>. SUFFICES ASSUME req.kind = "corrected", Few
                    PROVE  C(Held) \subseteq Seen("corrections")'
        <5>1. Corrections(Held)' = C(Held)
          BY <3>3, <3>5 DEF Corrections, Correction
        <5>2. req.kind = "corrected" => req'.jobs = << >>
          BY <2>4, <3>3
        <5>. QED BY <1>1, <2>9, <3>3, <5>1, <5>2 DEF CorrectionsFound
      <4>1. q = "corrections"
        BY <2>4
      <4>2. C(Held) \subseteq S
        BY <2>6, <2>8, <3>1
      <4>3. C(Held) \subseteq M
        <5>1. CASE n > 1
          <6>1. M = Closest("corrections", S, Limit)
            BY <4>1, <5>1 DEF M, Merged, Size
          <6>. QED BY <1>2, <2>1, <4>2, <6>1, CorrectionsFit
        <5>2. CASE ~(n > 1)
          BY <4>2, <5>2 DEF M, Merged
        <5>. QED BY <5>1, <5>2
      <4>. QED BY <3>3, <4>1, <4>3
    <3>. QED BY <1>1, <1>2, <1>5, <3>3, <3>4, <3>6, <3>7 DEF QInv, CorrectionLeads
  <2>. QED BY <2>10, <2>11
<1>. QED BY <1>3, <1>4

-----------------------------------------------------------------------------
LEMMA AnswersFinds == IInv /\ QInv /\ Answers => QInv'
<1>. SUFFICES ASSUME IInv, QInv, Answers PROVE QInv'
  OBVIOUS
<1>1. PICK lost \in SUBSET Found: Goes(req.found \union Visible(Found \ lost)) /\ LeftOut(lost)
  BY DEF Answers
<1>2. Recalling /\ UNCHANGED <<place, landed, there, given>>
  BY DEF Answers, person
<1>. QED BY <1>1, <1>2, GoesFinds

(* A place without an answer is one that left everything out.                *)
LEMMA NothingAnswered ==
  ASSUME IInv, QInv, Recalling, Goes(req.found), LeftOut(Found),
         UNCHANGED <<place, landed, there, given>>
  PROVE  QInv'
<1>1. req.found \union Visible(Found \ Found) = req.found
  BY DEF Visible
<1>2. Goes(req.found \union Visible(Found \ Found))
  BY <1>1
<1>3. PICK L \in SUBSET Found: L = Found
  OBVIOUS
<1>. QED BY <1>2, <1>3, GoesFinds

(* Nothing the invariant is about has changed.                               *)
LEMMA SameQuery ==
  ASSUME QInv, UNCHANGED <<place, landed, there, given, missing, req.at, req.kind, req.hid,
                           req.places, req.jobs, req.i, req.found, req.seen>>
  PROVE  QInv'
<1>1. UNCHANGED <<Few, HasCorrections, Held, In(landed), Before(req.i), SeenAll,
                  Seen("question"), Seen("corrections")>>
  BY DEF Few, HasCorrections, Held, In, Before, SeenAll, Seen, Correction
<1>2. UNCHANGED <<Best, Complete>>
  BY <1>1 DEF Best, Complete, Closest, Distance, Correction
<1>3. UNCHANGED <<Corrections(Held), Corrections(Before(req.i))>>
  BY <1>1 DEF Corrections, Correction
<1>4. TurnShape'
  BY <1>1 DEF QInv, TurnShape
<1>5. ClosestFound'
  BY <1>1, <1>2 DEF QInv, ClosestFound
<1>6. CorrectionsFound'
  BY <1>1, <1>3 DEF QInv, CorrectionsFound
<1>7. CorrectionLeads'
  BY <1>1 DEF QInv, CorrectionLeads, Facts, Range, Correction
<1>. QED BY <1>4, <1>5, <1>6, <1>7 DEF QInv

LEMMA DropsFinds == IInv /\ QInv /\ Drops => QInv'
<1>. SUFFICES ASSUME IInv, QInv, Drops PROVE QInv'
  OBVIOUS
<1>1. Recalling /\ req # Idle /\ UNCHANGED <<place, landed, there, given>>
  BY DEF Drops, person, Recalling, Idle
<1>2. CASE req.attempt < Attempts
  <2>1. req' = [req EXCEPT !.attempt = @ + 1] /\ missing' = missing
    BY <1>2 DEF Drops
  <2>2. /\ req'.at = req.at /\ req'.kind = req.kind /\ req'.hid = req.hid
        /\ req'.places = req.places /\ req'.jobs = req.jobs /\ req'.i = req.i
        /\ req'.found = req.found /\ req'.seen = req.seen
    BY <1>1, <2>1 DEF IInv, Shape
  <2>. QED BY <1>1, <2>1, <2>2, SameQuery
<1>3. CASE ~(req.attempt < Attempts)
  BY <1>1, <1>3, NothingAnswered DEF Drops
<1>. QED BY <1>2, <1>3

LEMMA FailsFinds == IInv /\ QInv /\ Fails => QInv'
<1>. SUFFICES ASSUME IInv, QInv, Fails PROVE QInv'
  OBVIOUS
<1>. DEFINE L == UNION {Finds(req.jobs[1], req.places[i]): i \in DOMAIN req.places}
<1>1. /\ Recalling /\ req # Idle /\ req.at = "recall" /\ req.jobs # << >>
      /\ UNCHANGED <<place, landed, there, given>>
  BY DEF Fails, person, Recalling, Idle
<1>2. CASE Goes(req.found) /\ LeftOut(Found)
  BY <1>1, <1>2, NothingAnswered
<1>3. CASE req.i = 1 /\ req.kind = "turn" /\ Returns({}) /\ LeftOut(L)
  <2>1. /\ req'.at = "recall" /\ req'.kind = "turn" /\ req'.jobs = Tail(req.jobs)
        /\ req'.hid = req.hid /\ req'.places = req.places /\ req'.i = 1 /\ req'.found = {}
        /\ SeenAll' = SeenAll /\ Seen("question")' = Seen("question")
    <3>1. PICK none: none = {}
      OBVIOUS
    <3>2. Returns(none)
      BY <1>3, <3>1
    <3>3. /\ req'.at = req.at /\ req'.kind = req.kind /\ req'.hid = req.hid
          /\ req'.places = req.places /\ req'.jobs = Tail(req.jobs) /\ req'.i = 1
          /\ req'.found = {} /\ SeenAll' = SeenAll \union none
          /\ \A q: Seen(q)' = Seen(q) \union (IF q = req.jobs[1] THEN none ELSE {})
      BY <1>1, <3>2, ReturnsAdds
    <3>. QED BY <1>1, <1>3, <3>1, <3>3
  <2>2. /\ req'.jobs \in {<<"tags">>, << >>} /\ <<"tags">>[1] = "tags"
    BY <1>1, <1>3, <2>1, TurnJobs DEF QInv
  <2>3. TurnShape'
    BY <1>1, <1>3, <2>1, <2>2 DEF QInv, TurnShape
  <2>4. /\ missing' \in [{"question", "corrections"} -> SUBSET Memory]
        /\ missing'["question"] = missing["question"] \union (IF "question" = req.jobs[1] THEN L ELSE {})
    <3>1. L \subseteq Memory
      BY DEF QInv, Finds, Closest, At
    <3>. HIDE DEF L
    <3>. QED BY <1>3, <3>1, LeavesOut
  <2>5. /\ Best' = Closest("question", In(landed) \intersect Near, Limit)
                     \ (missing'["question"] \union req.hid)
        /\ Best' \subseteq Best /\ (Complete' => Complete)
    BY <1>1, <2>1, <2>4, BestLess
  <2>6. ClosestFound'
    <3>1. ~(req'.jobs # << >> /\ req'.jobs[1] = "question")
      BY <2>2
    <3>2. CASE req.jobs[1] = "question"
      <4>1. Seen("question") = {}
        BY <1>1, <1>3, <3>2 DEF QInv, TurnShape, Seen
      <4>2. Best' = {}
        <5>. SUFFICES ASSUME NEW m \in Closest("question", In(landed) \intersect Near, Limit)
                      PROVE  m \in L
          BY <2>4, <2>5, <3>2
        <5>1. PICK i \in DOMAIN req.places: place[m] = req.places[i]
          BY DEF Closest, In
        <5>2. m \in Finds("question", req.places[i])
          BY <5>1, BestIsFound DEF QInv
        <5>. QED BY <3>2, <5>2
      <4>. QED BY <2>1, <3>1, <4>1, <4>2 DEF ClosestFound
    <3>3. CASE req.jobs[1] # "question"
      <4>1. missing'["question"] = missing["question"]
        BY <2>4, <3>3
      <4>2. Best' = Best
        BY <2>5, <4>1 DEF Best
      <4>. QED BY <1>1, <1>3, <2>1, <2>5, <3>1, <3>3, <4>2 DEF QInv, ClosestFound
    <3>. QED BY <3>2, <3>3
  <2>. QED BY <1>1, <2>1, <2>3, <2>4, <2>6 DEF QInv, CorrectionsFound, CorrectionLeads
<1>4. CASE req.i = 1 /\ req.kind # "turn" /\ req' = [req EXCEPT !.jobs = << >>] /\ LeftOut(L)
  <2>1. /\ req'.at = "recall" /\ req'.kind = req.kind /\ req'.jobs = << >>
        /\ req'.places = req.places /\ req'.i = req.i /\ req'.found = req.found
        /\ req'.hid = req.hid /\ req'.seen = req.seen /\ SeenAll' = SeenAll
        /\ Seen("question")' = Seen("question")
    BY <1>1, <1>4 DEF IInv, Shape, SeenAll, Seen
  <2>2. TurnShape'
    BY <1>1, <1>4, <2>1 DEF QInv, TurnShape
  <2>3. /\ missing' \in [{"question", "corrections"} -> SUBSET Memory]
        /\ \A q \in {"question", "corrections"}:
             missing'[q] = missing[q] \union (IF q = req.jobs[1] THEN L ELSE {})
    <3>1. L \subseteq Memory
      BY DEF QInv, Finds, Closest, At
    <3>. HIDE DEF L
    <3>. QED BY <1>4, <3>1, LeavesOut
  <2>4. ASSUME req.kind # "cites" PROVE ClosestFound' /\ CorrectionsFound'
    <3>1. req.kind = "corrected" /\ req.jobs[1] = "corrections"
      <4>1. req.kind = "corrected" /\ req.jobs = <<"corrections">>
        BY <1>1, <1>4, <2>4, TurnJobs DEF QInv
      <4>. QED BY <4>1
    <3>2. missing'["question"] = missing["question"]
      BY <2>3, <3>1
    <3>3. Best' = Best /\ (Complete' => Complete)
      <4>1. /\ Best' = Closest("question", In(landed) \intersect Near, Limit)
                        \ (missing'["question"] \union req.hid)
            /\ (Complete' => Complete)
        BY <1>1, <2>1, <3>2, BestLess
      <4>. QED BY <3>2, <4>1 DEF Best
    <3>4. ClosestFound'
      BY <1>1, <2>1, <2>4, <3>1, <3>3 DEF QInv, ClosestFound
    <3>5. CorrectionsFound'
      <4>. SUFFICES ASSUME Few, NEW c \in Held, Correction(c) PROVE c \in missing'["corrections"]
        <5>1. Few' = Few /\ Held' = Held
          BY <1>1, <2>1 DEF Few, Held, In, Correction
        <5>. QED BY <2>1, <5>1 DEF CorrectionsFound, Corrections, Correction
      <4>1. PICK i \in DOMAIN req.places: place[c] = req.places[i]
        BY DEF Held, In
      <4>2. c \in Finds("corrections", req.places[i])
        BY <4>1, CorrectionIsFound DEF QInv, Held, In
      <4>. QED BY <2>3, <3>1, <4>2
    <3>. QED BY <3>4, <3>5
  <2>. QED BY <1>1, <2>1, <2>2, <2>3, <2>4 DEF QInv, ClosestFound, CorrectionsFound, CorrectionLeads
<1>. QED BY <1>2, <1>3, <1>4 DEF Fails

-----------------------------------------------------------------------------
(* A request under an answer, or none, says nothing about a turn.            *)
LEMMA CitesFind ==
  ASSUME QInv, UNCHANGED landed, there' \in {there, landed, {}},
         missing' \in {missing, NothingMissing},
         req'.at # "given", req'.at \in {"hidden", "places", "recall"} => req'.kind = "cites"
  PROVE  QInv'
BY DEF QInv, TurnShape, ClosestFound, CorrectionsFound, CorrectionLeads, NothingMissing

(* The jobs of a turn that starts a session.                                 *)
LEMMA TwoJobs == <<"question">> \o <<"tags">> = <<"question", "tags">>
<1>. DEFINE s == <<"question">> \o <<"tags">>
            T == {"question", "tags"}
<1>1. s \in Seq(T) /\ Len(s) = 2 /\ s[1] = "question" /\ s[2] = "tags"
  <2>1. <<"question">> \in Seq(T) /\ <<"tags">> \in Seq(T)
    OBVIOUS
  <2>2. /\ s \in Seq(T) /\ Len(s) = 1 + 1
        /\ \A i \in 1..(1 + 1): s[i] = IF i <= 1 THEN <<"question">>[i] ELSE <<"tags">>[i - 1]
    <3>1. Len(<<"question">>) = 1 /\ Len(<<"tags">>) = 1
      OBVIOUS
    <3>. QED BY <2>1, <3>1, ConcatProperties
  <2>. QED BY <2>2
<1>2. <<"question", "tags">> \in Seq(T) /\ Len(<<"question", "tags">>) = 2
  OBVIOUS
<1>. HIDE DEF s
<1>3. \A i \in 1..Len(s): s[i] = <<"question", "tags">>[i]
  BY <1>1
<1>4. s = <<"question", "tags">>
  BY <1>1, <1>2, <1>3, SeqEqual
<1>. QED BY <1>4 DEF s

LEMMA StartsFind ==
  IInv /\ QInv /\ (Turn \/ Resolve \/ DropHidden \/ DropAgain \/ Answered \/ Shows) => QInv'
<1>. SUFFICES ASSUME IInv, QInv PROVE Turn \/ Resolve \/ DropHidden \/ DropAgain
                                        \/ Answered \/ Shows => QInv'
  OBVIOUS
<1>1. CASE Turn
  <2>1. PICK tags \in {<< >>, <<"tags">>}:
          Starts /\ req' = Ask("turn", "hidden", <<"question">> \o tags, {})
    BY <1>1 DEF Turn
  <2>2. <<"question">> \o tags \in {<<"question">>, <<"question", "tags">>}
    <3>1. <<"question">> \o << >> = <<"question">>
      OBVIOUS
    <3>. QED BY <2>1, <3>1, TwoJobs
  <2>3. /\ req'.at = "hidden" /\ req'.kind = "turn" /\ req'.i = 1
        /\ req'.jobs \in {<<"question">>, <<"question", "tags">>}
    BY <2>1, <2>2 DEF Ask
  <2>4. landed' = landed /\ there' = landed /\ missing' = NothingMissing
    BY <2>1 DEF Starts, person
  <2>. QED BY <2>3, <2>4
       DEF QInv, TurnShape, ClosestFound, CorrectionsFound, CorrectionLeads, NothingMissing
<1>2. CASE Resolve
  BY <1>2, CitesFind DEF Resolve, Starts, person, Ask
<1>3. CASE DropHidden
  <2>1. req # Idle /\ req'.at = "again" /\ UNCHANGED <<landed, there, missing>>
    BY <1>3 DEF DropHidden, person, Idle, IInv, Shape
  <2>. QED BY <2>1, CitesFind
<1>4. CASE DropAgain
  <2>1. req # Idle /\ req.kind = "cites" /\ UNCHANGED <<landed, there, missing>>
    BY <1>4 DEF DropAgain, person, Idle, IInv, Fresh
  <2>2. \/ req' = [req EXCEPT !.at = "recall", !.cites = {}]
        \/ \E c, j: req' = [req EXCEPT !.at = "hidden", !.cites = c, !.jobs = j]
    BY <1>4 DEF DropAgain
  <2>3. req'.kind = "cites" /\ req'.at # "given"
    <3>1. CASE req' = [req EXCEPT !.at = "recall", !.cites = {}]
      BY <2>1, <3>1 DEF IInv, Shape
    <3>2. ASSUME NEW c, NEW j, req' = [req EXCEPT !.at = "hidden", !.cites = c, !.jobs = j]
          PROVE  req'.kind = "cites" /\ req'.at # "given"
      BY <2>1, <3>2 DEF IInv, Shape
    <3>. QED BY <2>2, <3>1, <3>2
  <2>. QED BY <2>1, <2>3, CitesFind
<1>5. CASE Answered
  BY <1>5, CitesFind DEF Answered, person, Idle
<1>6. CASE Shows
  BY <1>6, CitesFind DEF Shows, person, Ask
<1>. QED BY <1>1, <1>2, <1>3, <1>4, <1>5, <1>6

LEMMA ReadsFind == IInv /\ QInv /\ (ReadHidden \/ ReadPlaces) => QInv'
<1>. SUFFICES ASSUME IInv, QInv, ReadHidden \/ ReadPlaces PROVE QInv'
  OBVIOUS
<1>1. CASE ReadHidden
  <2>1. /\ req # Idle /\ req.at = "hidden" /\ UNCHANGED <<landed, there, missing>>
        /\ req' = [req EXCEPT !.at = "places", !.hid = hidden]
    BY <1>1 DEF ReadHidden, person, Idle
  <2>2. req'.at = "places" /\ req'.kind = req.kind /\ req'.jobs = req.jobs /\ req'.i = req.i
    BY <2>1 DEF IInv, Shape
  <2>. QED BY <2>1, <2>2 DEF QInv, TurnShape, ClosestFound, CorrectionsFound, CorrectionLeads
<1>2. CASE ReadPlaces
  <2>1. /\ req # Idle /\ req.at = "places" /\ UNCHANGED <<landed, there, missing>>
        /\ req' = [req EXCEPT !.at = "recall", !.places = PlacesNow]
        /\ req.seen = {} /\ req.found = {}
    BY <1>2 DEF ReadPlaces, person, Idle, IInv, Fresh
  <2>2. /\ req'.at = "recall" /\ req'.kind = req.kind /\ req'.jobs = req.jobs /\ req'.i = req.i
        /\ req'.places = PlacesNow /\ req'.seen = {} /\ req'.found = {}
    BY <2>1 DEF IInv, Shape
  <2>. SUFFICES ASSUME req.kind # "cites" PROVE QInv'
    BY <2>1, <2>2 DEF QInv, TurnShape, ClosestFound, CorrectionsFound, CorrectionLeads
  <2>3. /\ req.kind = "turn" /\ req.i = 1
        /\ req.jobs \in {<<"question">>, <<"question", "tags">>}
        /\ req.jobs # << >> /\ req.jobs[1] = "question"
    BY <2>1 DEF QInv, TurnShape
  <2>4. PlacesNow \in Seq({"own", "guest", "team"}) /\ 1 \in 1..Len(PlacesNow)
    <3>. DEFINE P == {"own", "guest", "team"}
                a == IF owned THEN <<"own", "guest">> ELSE <<"guest">>
                b == IF member THEN <<"team">> ELSE << >>
    <3>1. <<"own", "guest">> \in Seq(P) /\ <<"guest">> \in Seq(P) /\ <<"team">> \in Seq(P)
      OBVIOUS
    <3>2. Len(<<"own", "guest">>) = 2 /\ Len(<<"guest">>) = 1
      OBVIOUS
    <3>3. a \in Seq(P) /\ b \in Seq(P)
      <4>1. a \in Seq(P)
        BY <3>1
      <4>2. << >> \in Seq(P)
        OBVIOUS
      <4>3. b \in Seq(P)
        <5>. HIDE DEF P
        <5>. QED BY <3>1, <4>2
      <4>. QED BY <4>1, <4>3
    <3>4. Len(a) \in Nat /\ Len(a) > 0 /\ Len(b) \in Nat
      BY <3>2, <3>3
    <3>5. PlacesNow = a \o b
      BY DEF PlacesNow
    <3>. HIDE DEF a, b, P
    <3>6. PlacesNow \in Seq(P) /\ Len(PlacesNow) = Len(a) + Len(b)
      BY <3>3, <3>5, ConcatProperties
    <3>. QED BY <3>4, <3>6 DEF P
  <2>5. TurnShape'
    BY <2>2, <2>3, <2>4 DEF TurnShape, SeenAll
  <2>6. Before(req.i)' = {}
    BY <2>2, <2>3 DEF Before
  <2>7. ClosestFound'
    BY <2>2, <2>3, <2>6 DEF ClosestFound, Closest
  <2>. QED BY <2>1, <2>2, <2>3, <2>5, <2>7 DEF QInv, CorrectionsFound, CorrectionLeads
<1>. QED BY <1>1, <1>2

LEMMA NeedsCorrectionsFinds == IInv /\ QInv /\ NeedsCorrections => QInv'
<1>. SUFFICES ASSUME IInv, QInv, NeedsCorrections PROVE QInv'
  OBVIOUS
<1>1. /\ req # Idle /\ req.at = "recall" /\ req.kind = "turn" /\ req.jobs = << >>
      /\ UNCHANGED <<place, landed, there, given, missing>>
      /\ req' = [req EXCEPT !.at = "recall", !.kind = "corrected", !.jobs = <<"corrections">>]
  BY DEF NeedsCorrections, person, Idle
<1>2. /\ req'.at = "recall" /\ req'.kind = "corrected" /\ req'.jobs = <<"corrections">>
      /\ req'.places = req.places /\ req'.i = req.i /\ req'.hid = req.hid
      /\ req'.found = req.found /\ req'.seen = req.seen
  BY <1>1 DEF IInv, Shape
<1>3. req.i = 1 /\ req.found = {}
  BY <1>1 DEF QInv, TurnShape
<1>4. <<"corrections">>[1] = "corrections" /\ <<"corrections">> # << >>
  OBVIOUS
<1>5. TurnShape'
  BY <1>1, <1>2, <1>3, <1>4 DEF QInv, TurnShape, SeenAll
<1>6. ClosestFound'
  <2>1. UNCHANGED <<Seen("question"), In(landed)>>
    BY <1>1, <1>2 DEF Seen, In
  <2>2. UNCHANGED <<Best, Complete>>
    BY <1>1, <1>2, <2>1 DEF Best, Complete, Closest, Distance, Correction
  <2>. QED BY <1>1, <1>2, <1>4, <2>1, <2>2 DEF QInv, ClosestFound
<1>7. CorrectionsFound'
  <2>1. Before(req.i)' = {}
    BY <1>2, <1>3 DEF Before
  <2>2. Corrections(Before(req.i))' = {}
    BY <2>1 DEF Corrections
  <2>. QED BY <1>2, <1>4, <2>2 DEF CorrectionsFound
<1>. QED BY <1>1, <1>2, <1>5, <1>6, <1>7 DEF QInv, CorrectionLeads

LEMMA GivesFinds == IInv /\ QInv /\ Gives => QInv'
<1>. SUFFICES ASSUME IInv, QInv, Gives PROVE QInv'
  OBVIOUS
<1>. DEFINE S == Relevant \union (Seen("corrections") \ Facts(Memory))
<1>1. /\ req.at = "recall" /\ req.jobs = << >> /\ given' \in NewestFirst(S)
      /\ \/ req.kind = "turn" /\ ~(HasCorrections /\ Facts(Relevant) # {})
         \/ req.kind = "corrected"
      /\ req' = [Ask("turn", "given", << >>, {}) EXCEPT !.places = req.places, !.hid = req.hid]
      /\ UNCHANGED <<place, landed, there, missing>>
  BY DEF Gives, person
<1>2. req'.at = "given" /\ req'.places = req.places /\ req'.hid = req.hid
  BY <1>1 DEF Ask
<1>3. UNCHANGED <<Held, HasCorrections, Few>>
  BY <1>1, <1>2 DEF Held, In, HasCorrections, Few, Correction
<1>4. S \subseteq SeenAll
  <2>1. \A q: Seen(q) \subseteq SeenAll
    BY DEF Seen, SeenAll
  <2>. QED BY <2>1 DEF Relevant, Gathered
<1>5. S \subseteq Memory /\ IsFiniteSet(S)
  <2>1. S \subseteq Memory
    BY <1>1, <1>4 DEF QInv, TurnShape
  <2>. HIDE DEF S
  <2>. QED BY <2>1, AheadIsFinite
<1>6. CorrectionLeads'
  <2>. DEFINE lost == req.hid \union missing["corrections"]
  <2>. SUFFICES ASSUME HasCorrections, Few,
                       NEW f \in Facts(Range(given')), NEW c \in Held \ lost, Correction(c)
                PROVE  \E i, j \in DOMAIN given':
                         given'[i] = c /\ given'[j] = f /\ (Written[c] > Written[f] => i < j)
    <3>1. /\ (Held \ (req.hid \union missing["corrections"]))' = Held \ lost
          /\ Facts(Range(given))' = Facts(Range(given'))
      BY <1>1, <1>2, <1>3 DEF Facts, Range, Correction
    <3>. HIDE DEF lost
    <3>. QED BY <1>1, <1>3, <3>1 DEF CorrectionLeads, Correction
  <2>1. f \in S /\ ~Correction(f) /\ f \in Memory
    <3>1. f \in Range(given') /\ ~Correction(f)
      BY DEF Facts
    <3>2. Range(given') \subseteq S
      <4>. HIDE DEF S
      <4>. QED BY <1>1, OrderAddsNothing
    <3>. QED BY <1>5, <3>1, <3>2
  <2>2. f \in Facts(Relevant)
    BY <2>1 DEF Facts
  <2>3. req.kind = "corrected"
    BY <1>1, <2>2
  <2>4. c \in Seen("corrections")
    BY <1>1, <2>3 DEF QInv, CorrectionsFound, Corrections
  <2>5. c \in S /\ c \in Memory
    BY <1>5, <2>4 DEF Facts
  <2>6. PICK i \in DOMAIN given': given'[i] = c
    <3>. HIDE DEF S
    <3>. QED BY <1>1, <1>5, <2>5, OrderLeavesNothingOut
  <2>7. PICK j \in DOMAIN given': given'[j] = f
    <3>. HIDE DEF S
    <3>. QED BY <1>1, <1>5, <2>1, OrderLeavesNothingOut
  <2>8. Written[c] > Written[f] => i < j
    <3>. SUFFICES ASSUME Written[c] > Written[f], ~(i < j) PROVE FALSE
      OBVIOUS
    <3>1. Written[c] \in Nat /\ Written[f] \in Nat
      BY <2>1, <2>5, RecallAssumption
    <3>2. i \in Nat /\ j \in Nat
      <4>1. \E n: given' \in [1..n -> S]
        BY <1>1 DEF NewestFirst, SetToSeqs
      <4>. QED BY <4>1
    <3>3. i # j
      BY <2>1, <2>6, <2>7
    <3>4. j < i
      BY <3>2, <3>3
    <3>5. Written[given'[j]] >= Written[given'[i]]
      BY <1>1, <3>4 DEF NewestFirst
    <3>. QED BY <2>6, <2>7, <3>1, <3>5
  <2>. QED BY <2>6, <2>7, <2>8
<1>. QED BY <1>1, <1>2, <1>6 DEF QInv, TurnShape, ClosestFound, CorrectionsFound

LEMMA MeanwhileFinds ==
  ASSUME QInv, UNCHANGED <<place, req, given, there, missing>>,
         landed \subseteq landed', landed' \subseteq Memory
  PROVE  QInv'
<1>1. Few' => Few
  <2>. DEFINE C == {m \in landed: Correction(m)}
              D == {m \in landed': Correction(m)}
  <2>1. C \subseteq D /\ D \in SUBSET Memory
    OBVIOUS
  <2>2. Cardinality(C) <= Cardinality(D) /\ Cardinality(C) \in Nat /\ Cardinality(D) \in Nat
    <3>1. IsFiniteSet(D)
      BY <2>1, AheadIsFinite
    <3>. HIDE DEF C, D
    <3>. QED BY <2>1, <3>1, FS_Subset, FS_CardinalityType
  <2>3. Few' => Cardinality(D) <= Limit
    BY DEF Few, Correction
  <2>. QED BY <2>2, <2>3, RecallAssumption DEF Few
<1>2. landed' = there' => landed = there
  BY DEF QInv
<1>3. /\ UNCHANGED <<Held, Before(req.i), SeenAll, Seen("question"), Seen("corrections"), HasCorrections>>
      /\ In(landed) \subseteq In(landed)' /\ there \intersect In(landed)' \subseteq In(landed)
  BY DEF QInv, Held, In, Before, SeenAll, Seen, HasCorrections, Correction
<1>4. /\ Best' \intersect there \subseteq Best
      /\ landed' = there' => Best \subseteq Best'
  <2>. DEFINE U == In(landed) \intersect Near
              V == In(landed)' \intersect Near
  <2>1. V \in SUBSET Memory /\ U \in SUBSET V
    BY <1>3 DEF In
  <2>2. Closest("question", V, Limit) \intersect U \subseteq Closest("question", U, Limit)
    <3>. HIDE DEF U, V
    <3>. QED BY <2>1, ClosestOfPart, RecallAssumption
  <2>3. Closest("question", V, Limit) \subseteq V /\ there \intersect V \subseteq U
    BY <1>3 DEF Closest
  <2>4. Best' = Closest("question", V, Limit) \ (missing["question"] \union req.hid)
    BY DEF Best, Closest, Distance, Correction
  <2>5. landed' = there' => U = V
    BY <1>2, <1>3 DEF QInv, In
  <2>. HIDE DEF U, V
  <2>. QED BY <2>2, <2>3, <2>4, <2>5 DEF Best, U
<1>5. UNCHANGED <<Corrections(Held), Corrections(Before(req.i))>>
  BY <1>3 DEF Corrections, Correction
<1>6. TurnShape'
  BY <1>3 DEF QInv, TurnShape
<1>7. ClosestFound'
  <2>1. Complete' => Complete /\ Best \subseteq Best'
    BY <1>2, <1>4 DEF Complete
  <2>2. Before(req.i) \subseteq there
    BY DEF Before
  <2>. QED BY <1>3, <1>4, <2>1, <2>2 DEF QInv, ClosestFound
<1>8. CorrectionsFound'
  BY <1>1, <1>3, <1>5 DEF QInv, CorrectionsFound
<1>9. CorrectionLeads'
  BY <1>1, <1>3 DEF QInv, CorrectionLeads, Facts, Range, Correction
<1>. QED BY <1>6, <1>7, <1>8, <1>9 DEF QInv

LEMMA QInvInit == Init => QInv
BY RecallAssumption
   DEF Init, QInv, TurnShape, ClosestFound, CorrectionsFound, CorrectionLeads, Idle, NothingMissing

LEMMA QInvNext == IInv /\ QInv /\ [Next]_vars => QInv'
<1>. SUFFICES ASSUME IInv, QInv, [Next]_vars PROVE QInv'
  OBVIOUS
<1>1. CASE Answers \/ Drops \/ Fails
  BY <1>1, AnswersFinds, DropsFinds, FailsFinds
<1>2. CASE Turn \/ Resolve \/ DropHidden \/ DropAgain \/ Answered \/ Shows
  BY <1>2, StartsFind
<1>3. CASE ReadHidden \/ ReadPlaces \/ NeedsCorrections \/ Gives
  BY <1>3, ReadsFind, NeedsCorrectionsFinds, GivesFinds
<1>4. ASSUME NEW m \in Memory, Hide(m) \/ Unhide(m) \/ Land(m) PROVE QInv'
  <2>1. /\ UNCHANGED <<place, req, given, there, missing>>
        /\ landed \subseteq landed' /\ landed' \subseteq Memory
    BY <1>4 DEF QInv, Hide, Unhide, Land
  <2>. QED BY <2>1, MeanwhileFinds
<1>5. CASE Leave \/ UNCHANGED vars
  <2>1. /\ UNCHANGED <<place, req, given, there, missing>>
        /\ landed \subseteq landed' /\ landed' \subseteq Memory
    BY <1>5 DEF QInv, Leave, vars
  <2>. QED BY <2>1, MeanwhileFinds
<1>. QED BY <1>1, <1>2, <1>3, <1>4, <1>5 DEF Next

(* A recall of a turn returns the closest of all its places hold, but what   *)
(* an answer left out: each place is asked for as many, what the places gave *)
(* is merged and cut once more, and the cut keeps those it must (recall).    *)
THEOREM ClosestAlwaysFound == Spec => []NothingCloserLeftOut
<1>1. QInv => NothingCloserLeftOut
  BY DEF QInv, ClosestFound, Complete, NothingCloserLeftOut
<1>. QED BY <1>1, IInvInit, IInvNext, QInvInit, QInvNext, PTL DEF Spec

(* No turn gives a fact without the corrections that were there and that no  *)
(* answer left out: they are asked for by their own tag, so that as many as  *)
(* fit come first, and stand before what is older (gatherContext,            *)
(* recallCorrections, orderNewestFirst).                                     *)
THEOREM CorrectionsLeadAlways == Spec => []CorrectionLeads
<1>1. QInv => CorrectionLeads
  BY DEF QInv
<1>. QED BY <1>1, IInvInit, IInvNext, QInvInit, QInvNext, PTL DEF Spec

-----------------------------------------------------------------------------
(***************************************************************************)
(* Teams proved for any people, teams, invites, cap and number of calls in *)
(* progress.  Each rule counts rows that a call adds after it has checked  *)
(* them; what is bounded is the rows there are together with the calls     *)
(* that have passed the check and not yet written.  A check that passes    *)
(* finds so few rows that all the calls there can be leave the sum within  *)
(* the bound, and a write turns one such call into at most one row.        *)
(***************************************************************************)
\* Past the check of a membership, of the room in a team, of an invite; and
\* past that of a membership which has ended since.
Enters(p) == {c \in Calls : call[c].pc \in {"found", "enrol", "room", "join"} /\ call[c].person = p}
Heads(t)  == {c \in Calls : call[c].pc \in {"enrol", "join"} /\ call[c].team = t}
Holds(i)  == {c \in Calls : call[c].pc \in {"free", "room", "join"} /\ call[c].invite = i}
Stale(p)  == {c \in Calls : /\ call[c].pc = "remember" /\ call[c].person = p
                            /\ p \notin members[call[c].team]}

\* A call in progress has a person, a team that was founded and an invite that
\* was made.
Knows(c) ==
  /\ call[c].pc # "idle" => call[c].person \in People
  /\ call[c].pc \in {"enrol", "invite", "free", "room", "join", "remember"} => call[c].team \in founded
  /\ call[c].pc \in {"free", "room", "join"} =>
       call[c].invite \in Invites /\ invite[call[c].invite] # None

UnusedIsFresh == \A i \in Invites \ used : joins[i] = {}

FewTeams   == \A p \in People : Cardinality(TeamsOf(p)) + Cardinality(Enters(p)) <= 1 + Others
FewMembers == \A t \in Teams : Cardinality(members[t]) + Cardinality(Heads(t)) <= MaxMembers + Others
FewJoins   == \A i \in Invites : Cardinality(joins[i]) + Cardinality(Holds(i)) <= 1 + Others
FewLate    == \A p \in People : late[p] + Cardinality(Stale(p)) <= Others

TeamsShape == TypeOK /\ (\A c \in Calls : Knows(c)) /\ UnusedIsFresh
TeamsInv  == TeamsShape /\ FewTeams /\ FewMembers /\ FewJoins /\ FewLate

-----------------------------------------------------------------------------
CallSet == [pc : {"idle", "found", "enrol", "invite", "free", "room", "join", "leave", "remember"},
            person : People \cup {None}, team : Teams \cup {None}, invite : Invites \cup {None}]

LEMMA SomeCalls == IsFiniteSet(Calls) /\ Cardinality(Calls) \in Nat \ {0} /\ Others \in Nat
<1>1. IsFiniteSet(Calls) /\ Cardinality(Calls) \in Nat
  BY TeamsAssumption, FS_CardinalityType
<1>2. Cardinality(Calls) # 0
  BY <1>1, TeamsAssumption, FS_EmptySet
<1>. QED BY <1>1, <1>2 DEF Others

(* Rows and calls: neither grows; a call becomes a row; there were no rows.  *)
LEMMA NeitherGrows ==
  ASSUME NEW R, NEW R2, NEW P, NEW P2, IsFiniteSet(R), P \subseteq Calls,
         R2 \subseteq R, P2 \subseteq P, NEW b \in Nat,
         Cardinality(R) + Cardinality(P) <= b
  PROVE  Cardinality(R2) + Cardinality(P2) <= b
<1>1. /\ IsFiniteSet(P) /\ IsFiniteSet(R2) /\ Cardinality(R2) <= Cardinality(R)
  BY SomeCalls, FS_Subset
<1>2. IsFiniteSet(P2) /\ Cardinality(P2) <= Cardinality(P)
  BY <1>1, FS_Subset
<1>3. {Cardinality(R), Cardinality(R2), Cardinality(P), Cardinality(P2)} \subseteq Nat
  BY <1>1, <1>2, FS_CardinalityType
<1>. QED BY <1>1, <1>2, <1>3

LEMMA CallBecomesRow ==
  ASSUME NEW R, NEW R2, NEW P, NEW P2, IsFiniteSet(R), P \subseteq Calls,
         NEW x, R2 \subseteq R \cup {x}, NEW c \in P, P2 \subseteq P \ {c}, NEW b \in Nat,
         Cardinality(R) + Cardinality(P) <= b
  PROVE  Cardinality(R2) + Cardinality(P2) <= b
<1>1. IsFiniteSet(P) /\ IsFiniteSet(R \cup {x}) /\ IsFiniteSet(P \ {c})
  BY SomeCalls, FS_Subset, FS_AddElement
<1>2. /\ IsFiniteSet(R2) /\ Cardinality(R2) <= Cardinality(R \cup {x})
      /\ IsFiniteSet(P2) /\ Cardinality(P2) <= Cardinality(P \ {c})
  BY <1>1, FS_Subset
<1>3. /\ Cardinality(R) \in Nat /\ Cardinality(R2) \in Nat
      /\ Cardinality(P) \in Nat /\ Cardinality(P2) \in Nat
  BY <1>1, <1>2, FS_CardinalityType
<1>4. \/ Cardinality(R \cup {x}) = Cardinality(R)
      \/ Cardinality(R \cup {x}) = Cardinality(R) + 1
  BY FS_AddElement
<1>5. Cardinality(P \ {c}) = Cardinality(P) - 1
  BY <1>1, FS_RemoveElement
<1>. QED BY <1>2, <1>3, <1>4, <1>5

LEMMA NoRows ==
  ASSUME NEW R, R = {}, NEW P, P \subseteq Calls
  PROVE  Cardinality(R) + Cardinality(P) <= 1 + Others
<1>1. Cardinality(R) = 0
  BY FS_EmptySet
<1>2. IsFiniteSet(P) /\ Cardinality(P) <= Cardinality(Calls)
  BY SomeCalls, FS_Subset
<1>3. Cardinality(P) \in Nat
  BY <1>2, FS_CardinalityType
<1>. QED BY <1>1, <1>2, <1>3, SomeCalls DEF Others

LEMMA Finite ==
  ASSUME TypeOK
  PROVE  /\ \A t \in Teams : IsFiniteSet(members[t]) /\ Cardinality(members[t]) \in Nat
         /\ \A i \in Invites : IsFiniteSet(joins[i])
         /\ \A p \in People : IsFiniteSet(TeamsOf(p))
<1>1. \A t \in Teams : IsFiniteSet(members[t])
  BY FS_Subset, TeamsAssumption DEF TypeOK
<1>2. \A i \in Invites : IsFiniteSet(joins[i])
  BY FS_Subset, TeamsAssumption DEF TypeOK
<1>3. \A p \in People : IsFiniteSet(TeamsOf(p))
  BY FS_Subset, TeamsAssumption DEF TeamsOf
<1>. QED BY <1>1, <1>2, <1>3, FS_CardinalityType

LEMMA Sets ==
  /\ \A p : Enters(p) \subseteq Calls /\ Stale(p) \subseteq Calls
  /\ \A t : Heads(t) \subseteq Calls
  /\ \A i : Holds(i) \subseteq Calls
  /\ 1 + Others \in Nat /\ MaxMembers + Others \in Nat
BY SomeCalls, TeamsAssumption DEF Enters, Heads, Holds, Stale

(* One call changes.                                                         *)
LEMMA CallTyped ==
  ASSUME TypeOK, NEW c \in Calls
  PROVE  /\ call[c] \in CallSet /\ call[c].team \in Teams \cup {None}
         /\ call[c].invite \in Invites \cup {None} /\ call \in [Calls -> CallSet]
         /\ founded \subseteq Teams
BY DEF TypeOK, CallSet

LEMMA OneCallMoves ==
  ASSUME TypeOK, NEW c \in Calls, NEW r \in CallSet, call' = [call EXCEPT ![c] = r]
  PROVE  call' \in [Calls -> CallSet] /\ call'[c] = r /\ \A d \in Calls : d # c => call'[d] = call[d]
BY CallTyped

LEMMA CallOver ==
  ASSUME TypeOK, NEW c \in Calls, Return(c)
  PROVE  /\ call' \in [Calls -> CallSet] /\ call'[c].pc = "idle"
         /\ \A d \in Calls : d # c => call'[d] = call[d]
<1>1. NoCall \in CallSet /\ NoCall.pc = "idle"
  BY DEF NoCall, CallSet
<1>. QED BY <1>1, OneCallMoves DEF Return

LEMMA CallSteps ==
  ASSUME TypeOK, NEW c \in Calls, NEW pc \in {"invite", "room", "join"}, Step(c, pc)
  PROVE  /\ call' \in [Calls -> CallSet] /\ call'[c].pc = pc
         /\ call'[c].person = call[c].person /\ call'[c].team = call[c].team
         /\ call'[c].invite = call[c].invite
         /\ \A d \in Calls : d # c => call'[d] = call[d]
<1>. DEFINE r == [call[c] EXCEPT !.pc = pc]
<1>1. /\ r \in CallSet /\ r.pc = pc /\ r.person = call[c].person /\ r.team = call[c].team
      /\ r.invite = call[c].invite /\ call' = [call EXCEPT ![c] = r]
  BY CallTyped DEF CallSet, Step
<1>. HIDE DEF r
<1>. QED BY <1>1, OneCallMoves

(* What keeps each bound.                                                    *)
LEMMA TeamsStay ==
  ASSUME TeamsInv, \A p \in People : TeamsOf(p)' \subseteq TeamsOf(p) /\ Enters(p)' \subseteq Enters(p)
  PROVE  FewTeams'
BY NeitherGrows, Finite, Sets DEF TeamsInv, TeamsShape, FewTeams

LEMMA MembersStay ==
  ASSUME TeamsInv, \A t \in Teams : members'[t] \subseteq members[t] /\ Heads(t)' \subseteq Heads(t)
  PROVE  FewMembers'
BY NeitherGrows, Finite, Sets DEF TeamsInv, TeamsShape, FewMembers

LEMMA JoinsStay ==
  ASSUME TeamsInv, \A i \in Invites : joins'[i] \subseteq joins[i] /\ Holds(i)' \subseteq Holds(i)
  PROVE  FewJoins'
BY NeitherGrows, Finite, Sets DEF TeamsInv, TeamsShape, FewJoins

LEMMA LateStays ==
  ASSUME TeamsInv, late' = late, \A p \in People : Stale(p)' \subseteq Stale(p)
  PROVE  FewLate'
<1>. SUFFICES ASSUME NEW p \in People PROVE late[p] + Cardinality(Stale(p)') <= Others
  BY DEF FewLate, Others
<1>1. IsFiniteSet(Stale(p)) /\ Cardinality(Stale(p)') <= Cardinality(Stale(p)) /\ IsFiniteSet(Stale(p)')
  BY SomeCalls, Sets, FS_Subset
<1>2. Cardinality(Stale(p)) \in Nat /\ Cardinality(Stale(p)') \in Nat /\ late[p] \in Nat
  BY <1>1, FS_CardinalityType DEF TeamsInv, TeamsShape, TypeOK
<1>. QED BY <1>1, <1>2, SomeCalls DEF TeamsInv, FewLate

LEMMA AllStay ==
  ASSUME TeamsInv, UNCHANGED <<members, joins, late>>,
         \A p \in People : Enters(p)' \subseteq Enters(p) /\ Stale(p)' \subseteq Stale(p),
         \A t \in Teams : Heads(t)' \subseteq Heads(t),
         \A i \in Invites : Holds(i)' \subseteq Holds(i)
  PROVE  FewTeams' /\ FewMembers' /\ FewJoins' /\ FewLate'
<1>1. \A p \in People : TeamsOf(p)' = TeamsOf(p)
  BY DEF TeamsOf
<1>. QED BY <1>1, TeamsStay, MembersStay, JoinsStay, LateStays

-----------------------------------------------------------------------------
(* Calls that begin.  A person in no team, or an unused invite, leaves room  *)
(* for every call there can be.                                              *)
LEMMA Begins ==
  ASSUME TeamsInv, NEW c \in Calls, NEW p \in People,
         \/ New(c, p) \/ LeaveStarts(c, p)
         \/ \E t \in Teams : InviteStarts(c, p, t) \/ RememberStarts(c, p, t)
         \/ \E i \in Invites : Join(c, p, i)
  PROVE  TeamsInv'
<1>1. UNCHANGED <<founded, members, invite, used, joins, late>>
  BY DEF New, InviteStarts, Join, LeaveStarts, RememberStarts
<1>2. ASSUME NEW pc \in {"found", "leave", "invite", "remember", "free"}, NEW t \in Teams \cup {None},
             NEW i \in Invites \cup {None}, Begin(c, pc, p, t, i),
             pc \in {"invite", "remember", "free"} => t \in founded,
             pc = "free" => i \in Invites /\ invite[i] # None /\ joins[i] = {},
             pc = "found" => TeamsOf(p) = {},
             pc = "remember" => p \in members[t]
      PROVE  TeamsInv'
  <2>. DEFINE r == [pc |-> pc, person |-> p, team |-> t, invite |-> i]
  <2>1. r \in CallSet /\ call' = [call EXCEPT ![c] = r]
    BY <1>2 DEF CallSet, Begin
  <2>2. /\ call' \in [Calls -> CallSet] /\ call'[c] = r
        /\ \A d \in Calls : d # c => call'[d] = call[d]
    BY <2>1, OneCallMoves DEF TeamsInv, TeamsShape
  <2>3. TeamsShape'
    <3>1. TypeOK'
      BY <1>1, <2>2 DEF TeamsInv, TeamsShape, TypeOK, CallSet
    <3>2. \A d \in Calls : Knows(d)'
      BY <1>1, <1>2, <2>2 DEF TeamsInv, TeamsShape, Knows
    <3>. QED BY <1>1, <3>1, <3>2 DEF TeamsInv, TeamsShape, UnusedIsFresh
  <2>4. /\ \A t2 \in Teams : Heads(t2)' \subseteq Heads(t2)
        /\ \A p2 \in People : Stale(p2)' \subseteq Stale(p2)
    BY <1>1, <1>2, <2>2 DEF Heads, Stale
  <2>5. FewTeams'
    <3>1. \A q \in People : TeamsOf(q)' = TeamsOf(q)
      BY <1>1 DEF TeamsOf
    <3>2. CASE pc = "found"
      <4>1. ASSUME NEW q \in People
            PROVE  Cardinality(TeamsOf(q)') + Cardinality(Enters(q)') <= 1 + Others
        <5>1. CASE q = p
          <6>1. Enters(q)' \subseteq Calls
            BY DEF Enters
          <6>. QED BY <1>2, <3>1, <3>2, <5>1, <6>1, NoRows
        <5>2. CASE q # p
          <6>1. Enters(q)' \subseteq Enters(q)
            BY <2>2, <5>2 DEF Enters
          <6>. QED BY <3>1, <6>1, NeitherGrows, Finite, Sets DEF TeamsInv, TeamsShape, FewTeams
        <5>. QED BY <5>1, <5>2
      <4>. QED BY <4>1 DEF FewTeams, Others
    <3>3. CASE pc # "found"
      <4>1. \A q \in People : Enters(q)' \subseteq Enters(q)
        BY <1>2, <2>2, <3>3 DEF Enters
      <4>. QED BY <3>1, <4>1, TeamsStay
    <3>. QED BY <3>2, <3>3
  <2>6. FewJoins'
    <3>1. ASSUME NEW j \in Invites
          PROVE  Cardinality(joins[j]) + Cardinality(Holds(j)') <= 1 + Others
      <4>1. CASE pc = "free" /\ j = i
        <5>1. Holds(j)' \subseteq Calls
          BY DEF Holds
        <5>. QED BY <1>2, <4>1, <5>1, NoRows
      <4>2. CASE ~(pc = "free" /\ j = i)
        <5>1. Holds(j)' \subseteq Holds(j)
          BY <1>2, <2>2, <4>2 DEF Holds
        <5>. QED BY <5>1, NeitherGrows, Finite, Sets DEF TeamsInv, TeamsShape, FewJoins
      <4>. QED BY <4>1, <4>2
    <3>. QED BY <1>1, <3>1 DEF FewJoins, Others
  <2>. QED BY <1>1, <2>3, <2>4, <2>5, <2>6, MembersStay, LateStays DEF TeamsInv
<1>3. \A t \in Teams : members[t] # {} => t \in founded
  BY DEF TeamsInv, TeamsShape, TypeOK
<1>4. CASE New(c, p) \/ LeaveStarts(c, p)
  BY <1>2, <1>4 DEF New, LeaveStarts
<1>5. ASSUME NEW t \in Teams, InviteStarts(c, p, t) \/ RememberStarts(c, p, t) PROVE TeamsInv'
  <2>1. p \in members[t] /\ t \in founded
    BY <1>3, <1>5 DEF InviteStarts, RememberStarts, TeamsOf
  <2>. QED BY <1>2, <1>5, <2>1 DEF InviteStarts, RememberStarts
<1>6. ASSUME NEW i \in Invites, Join(c, p, i) PROVE TeamsInv'
  <2>1. invite[i] # None /\ i \notin used /\ Begin(c, "free", p, invite[i], i)
    BY <1>6 DEF Join
  <2>2. invite[i] \in founded /\ joins[i] = {} /\ invite[i] \in Teams
    BY <2>1 DEF TeamsInv, TeamsShape, TypeOK, UnusedIsFresh
  <2>. QED BY <1>2, <2>1, <2>2
<1>. QED BY <1>4, <1>5, <1>6

-----------------------------------------------------------------------------
(* The checks of joinTeam, and a call that is cut off.                       *)
LEMMA GivesUp ==
  ASSUME TeamsInv, NEW c \in Calls, Return(c),
         UNCHANGED <<founded, members, invite, used, joins, late>>
  PROVE  TeamsInv'
<1>1. /\ call' \in [Calls -> CallSet] /\ call'[c].pc = "idle"
      /\ \A d \in Calls : d # c => call'[d] = call[d]
  BY CallOver DEF TeamsInv, TeamsShape
<1>2. TeamsShape'
  <2>1. TypeOK'
    BY <1>1 DEF TeamsInv, TeamsShape, TypeOK, CallSet
  <2>2. \A d \in Calls : Knows(d)'
    BY <1>1 DEF TeamsInv, TeamsShape, Knows
  <2>. QED BY <2>1, <2>2 DEF TeamsInv, TeamsShape, UnusedIsFresh
<1>3. /\ \A p \in People : Enters(p)' \subseteq Enters(p) /\ Stale(p)' \subseteq Stale(p)
      /\ \A t \in Teams : Heads(t)' \subseteq Heads(t)
      /\ \A i \in Invites : Holds(i)' \subseteq Holds(i)
  BY <1>1 DEF Enters, Stale, Heads, Holds
<1>. QED BY <1>2, <1>3, AllStay DEF TeamsInv

LEMMA Passes ==
  ASSUME TeamsInv, NEW c \in Calls, NEW pc \in {"room", "join"}, Step(c, pc),
         UNCHANGED <<founded, members, invite, used, joins, late>>,
         pc = "room" => call[c].pc = "free" /\ TeamsOf(call[c].person) = {},
         pc = "join" => call[c].pc = "room" /\ Cardinality(members[call[c].team]) < MaxMembers
  PROVE  TeamsInv'
<1>1. /\ call' \in [Calls -> CallSet] /\ call'[c].pc = pc
      /\ call'[c].person = call[c].person /\ call'[c].team = call[c].team
      /\ call'[c].invite = call[c].invite
      /\ \A d \in Calls : d # c => call'[d] = call[d]
  BY CallSteps DEF TeamsInv, TeamsShape
<1>2. TeamsShape'
  <2>1. TypeOK'
    BY <1>1 DEF TeamsInv, TeamsShape, TypeOK, CallSet
  <2>2. \A d \in Calls : Knows(d)'
    BY <1>1 DEF TeamsInv, TeamsShape, Knows
  <2>. QED BY <2>1, <2>2 DEF TeamsInv, TeamsShape, UnusedIsFresh
<1>3. /\ \A p \in People : TeamsOf(p)' = TeamsOf(p) /\ Stale(p)' \subseteq Stale(p)
      /\ \A i \in Invites : Holds(i)' \subseteq Holds(i)
  BY <1>1 DEF TeamsOf, Stale, Holds
<1>4. FewTeams'
  <2>1. ASSUME NEW q \in People
        PROVE  Cardinality(TeamsOf(q)') + Cardinality(Enters(q)') <= 1 + Others
    <3>1. CASE pc = "room" /\ q = call[c].person
      <4>1. Enters(q)' \subseteq Calls
        BY DEF Enters
      <4>. QED BY <1>3, <3>1, <4>1, NoRows
    <3>2. CASE ~(pc = "room" /\ q = call[c].person)
      <4>1. Enters(q)' \subseteq Enters(q)
        BY <1>1, <3>2 DEF Enters
      <4>. QED BY <1>3, <4>1, NeitherGrows, Finite, Sets DEF TeamsInv, TeamsShape, FewTeams
    <3>. QED BY <3>1, <3>2
  <2>. QED BY <2>1 DEF FewTeams, Others
<1>5. FewMembers'
  <2>1. ASSUME NEW t \in Teams
        PROVE  Cardinality(members[t]) + Cardinality(Heads(t)') <= MaxMembers + Others
    <3>1. CASE pc = "join" /\ t = call[c].team
      <4>1. Heads(t)' \subseteq Calls
        BY DEF Heads
      <4>2. IsFiniteSet(Heads(t)') /\ Cardinality(Heads(t)') <= Cardinality(Calls)
        BY <4>1, SomeCalls, FS_Subset
      <4>3. Cardinality(Heads(t)') \in Nat /\ Cardinality(members[t]) \in Nat
        BY <4>2, FS_CardinalityType, Finite DEF TeamsInv, TeamsShape
      <4>. QED BY <3>1, <4>2, <4>3, SomeCalls, TeamsAssumption DEF Others
    <3>2. CASE ~(pc = "join" /\ t = call[c].team)
      <4>1. Heads(t)' \subseteq Heads(t)
        BY <1>1, <3>2 DEF Heads
      <4>. QED BY <4>1, NeitherGrows, Finite, Sets DEF TeamsInv, TeamsShape, FewMembers
    <3>. QED BY <3>1, <3>2
  <2>. QED BY <2>1 DEF FewMembers, Others
<1>. QED BY <1>2, <1>3, <1>4, <1>5, JoinsStay, LateStays DEF TeamsInv

LEMMA Checks ==
  ASSUME TeamsInv, NEW c \in Calls, CheckFree(c) \/ CheckRoom(c) \/ Abandon(c)
  PROVE  TeamsInv'
<1>1. UNCHANGED <<founded, members, invite, used, joins, late>>
  BY DEF CheckFree, CheckRoom, Abandon
<1>2. CASE CheckFree(c)
  BY <1>1, <1>2, GivesUp, Passes DEF CheckFree
<1>3. CASE CheckRoom(c)
  BY <1>1, <1>3, GivesUp, Passes DEF CheckRoom
<1>. QED BY <1>1, <1>2, <1>3, GivesUp DEF Abandon

-----------------------------------------------------------------------------
(* Calls that write.                                                         *)
LEMMA FoundStep ==
  ASSUME TeamsInv, NEW c \in Calls, NEW t \in Teams, FoundTeam(c, t)
  PROVE  TeamsInv'
<1>. DEFINE r == [[call[c] EXCEPT !.pc = "enrol"] EXCEPT !.team = t]
<1>1. /\ r \in CallSet /\ r.pc = "enrol" /\ r.person = call[c].person /\ r.team = t
      /\ r.invite = call[c].invite /\ call' = [call EXCEPT ![c] = r]
  BY CallTyped DEF CallSet, TeamsInv, TeamsShape, FoundTeam
<1>. HIDE DEF r
<1>2. /\ call' \in [Calls -> CallSet] /\ call'[c] = r
      /\ \A d \in Calls : d # c => call'[d] = call[d]
  BY <1>1, OneCallMoves DEF TeamsInv, TeamsShape
<1>3. /\ t \notin founded /\ founded' = founded \cup {t} /\ call[c].pc = "found"
      /\ UNCHANGED <<members, invite, used, joins, late>>
  BY DEF FoundTeam
<1>4. members[t] = {}
  BY <1>3 DEF TeamsInv, TeamsShape, TypeOK
<1>5. TeamsShape'
  <2>1. TypeOK'
    BY <1>2, <1>3 DEF TeamsInv, TeamsShape, TypeOK, CallSet
  <2>2. \A d \in Calls : Knows(d)'
    BY <1>1, <1>2, <1>3 DEF TeamsInv, TeamsShape, Knows
  <2>. QED BY <1>3, <2>1, <2>2 DEF TeamsInv, TeamsShape, UnusedIsFresh
<1>6. /\ \A p \in People : /\ TeamsOf(p)' = TeamsOf(p) /\ Enters(p)' \subseteq Enters(p)
                           /\ Stale(p)' \subseteq Stale(p)
      /\ \A i \in Invites : Holds(i)' \subseteq Holds(i)
  BY <1>1, <1>2, <1>3 DEF TeamsOf, Enters, Stale, Holds
<1>7. FewMembers'
  <2>1. ASSUME NEW u \in Teams
        PROVE  Cardinality(members[u]) + Cardinality(Heads(u)') <= MaxMembers + Others
    <3>1. CASE u = t
      <4>1. Heads(u)' \subseteq Calls
        BY DEF Heads
      <4>2. Cardinality(members[u]) + Cardinality(Heads(u)') <= 1 + Others
        BY <1>4, <3>1, <4>1, NoRows
      <4>3. IsFiniteSet(Heads(u)')
        BY <4>1, SomeCalls, FS_Subset
      <4>4. Cardinality(Heads(u)') \in Nat /\ Cardinality(members[u]) \in Nat
        BY <4>3, FS_CardinalityType, Finite DEF TeamsInv, TeamsShape
      <4>. QED BY <4>2, <4>4, SomeCalls, TeamsAssumption
    <3>2. CASE u # t
      <4>1. Heads(u)' \subseteq Heads(u)
        BY <1>1, <1>2, <3>2 DEF Heads
      <4>. QED BY <4>1, NeitherGrows, Finite, Sets DEF TeamsInv, TeamsShape, FewMembers
    <3>. QED BY <3>1, <3>2
  <2>. QED BY <1>3, <2>1 DEF FewMembers, Others
<1>. QED BY <1>3, <1>5, <1>6, <1>7, TeamsStay, JoinsStay, LateStays DEF TeamsInv

(* A person is enrolled by a call that had passed the checks, and is one no  *)
(* more.                                                                     *)
LEMMA Enrolled ==
  ASSUME TeamsInv, NEW c \in Calls, call[c].pc \in {"enrol", "join"},
         members' = [members EXCEPT ![call[c].team] = @ \cup {call[c].person}],
         UNCHANGED <<founded, invite, late>>, call' \in [Calls -> CallSet],
         call'[c].pc \in {"idle", "invite"},
         \A d \in Calls : d # c => call'[d] = call[d]
  PROVE  /\ members' \in [Teams -> SUBSET People] /\ (\A u \in Teams \ founded : members'[u] = {})
         /\ FewTeams' /\ FewMembers' /\ FewLate'
<1>. DEFINE p == call[c].person  t == call[c].team
<1>1. p \in People /\ t \in founded /\ t \in Teams
  BY DEF TeamsInv, TeamsShape, Knows, TypeOK
<1>2. /\ members' \in [Teams -> SUBSET People] /\ members'[t] = members[t] \cup {p}
      /\ \A u \in Teams : u # t => members'[u] = members[u]
  BY <1>1 DEF TeamsInv, TeamsShape, TypeOK
<1>3. \A u \in Teams \ founded : members'[u] = {}
  BY <1>1, <1>2 DEF TeamsInv, TeamsShape, TypeOK
<1>4. FewTeams'
  <2>1. ASSUME NEW q \in People
        PROVE  Cardinality(TeamsOf(q)') + Cardinality(Enters(q)') <= 1 + Others
    <3>1. CASE q = p
      <4>1. TeamsOf(q)' \subseteq TeamsOf(q) \cup {t} /\ c \in Enters(q)
        BY <1>1, <1>2, <3>1 DEF TeamsOf, Enters
      <4>2. Enters(q)' \subseteq Enters(q) \ {c}
        BY DEF Enters
      <4>. QED BY <4>1, <4>2, CallBecomesRow, Finite, Sets DEF TeamsInv, TeamsShape, FewTeams
    <3>2. CASE q # p
      <4>1. TeamsOf(q)' \subseteq TeamsOf(q) /\ Enters(q)' \subseteq Enters(q)
        BY <1>1, <1>2, <3>2 DEF TeamsOf, Enters
      <4>. QED BY <4>1, NeitherGrows, Finite, Sets DEF TeamsInv, TeamsShape, FewTeams
    <3>. QED BY <3>1, <3>2
  <2>. QED BY <2>1 DEF FewTeams, Others
<1>5. FewMembers'
  <2>1. ASSUME NEW u \in Teams
        PROVE  Cardinality(members'[u]) + Cardinality(Heads(u)') <= MaxMembers + Others
    <3>1. CASE u = t
      <4>1. c \in Heads(u) /\ Heads(u)' \subseteq Heads(u) \ {c}
        BY <3>1 DEF Heads
      <4>2. IsFiniteSet(members[u]) /\ members'[u] \subseteq members[u] \cup {p}
        BY <1>2, <3>1, Finite DEF TeamsInv, TeamsShape
      <4>. QED BY <4>1, <4>2, CallBecomesRow, Sets DEF TeamsInv, FewMembers
    <3>2. CASE u # t
      <4>1. Heads(u)' \subseteq Heads(u)
        BY DEF Heads
      <4>. QED BY <1>2, <3>2, <4>1, NeitherGrows, Finite, Sets DEF TeamsInv, TeamsShape, FewMembers
    <3>. QED BY <3>1, <3>2
  <2>. QED BY <2>1 DEF FewMembers, Others
<1>6. FewLate'
  <2>1. ASSUME NEW q \in People, NEW d \in Stale(q)' PROVE d \in Stale(q)
    <3>1. d \in Calls /\ d # c /\ call[d].pc = "remember" /\ call[d].person = q
          /\ q \notin members'[call[d].team] /\ call[d].team \in Teams
      BY <2>1 DEF Stale, TeamsInv, TeamsShape, Knows, TypeOK
    <3>2. q \notin members[call[d].team]
      BY <1>2, <3>1
    <3>. QED BY <3>1, <3>2 DEF Stale
  <2>. QED BY <2>1, LateStays
<1>. QED BY <1>2, <1>3, <1>4, <1>5, <1>6

LEMMA EnrolStep ==
  ASSUME TeamsInv, NEW c \in Calls, Enrol(c)
  PROVE  TeamsInv'
<1>1. /\ call[c].pc = "enrol" /\ members' = [members EXCEPT ![call[c].team] = @ \cup {call[c].person}]
      /\ Step(c, "invite") /\ UNCHANGED <<founded, invite, used, joins, late>>
  BY DEF Enrol
<1>2. /\ call' \in [Calls -> CallSet] /\ call'[c].pc = "invite"
      /\ call'[c].person = call[c].person /\ call'[c].team = call[c].team
      /\ \A d \in Calls : d # c => call'[d] = call[d]
  BY <1>1, CallSteps DEF TeamsInv, TeamsShape
<1>3. /\ members' \in [Teams -> SUBSET People] /\ (\A u \in Teams \ founded : members'[u] = {})
      /\ FewTeams' /\ FewMembers' /\ FewLate'
  BY <1>1, <1>2, Enrolled
<1>4. TeamsShape'
  <2>1. TypeOK'
    BY <1>1, <1>2, <1>3 DEF TeamsInv, TeamsShape, TypeOK, CallSet
  <2>2. \A d \in Calls : Knows(d)'
    BY <1>1, <1>2 DEF TeamsInv, TeamsShape, Knows
  <2>. QED BY <1>1, <2>1, <2>2 DEF TeamsInv, TeamsShape, UnusedIsFresh
<1>5. \A i \in Invites : Holds(i)' \subseteq Holds(i)
  BY <1>2 DEF Holds
<1>. QED BY <1>1, <1>3, <1>4, <1>5, JoinsStay DEF TeamsInv

LEMMA JoinedStep ==
  ASSUME TeamsInv, NEW c \in Calls, Joined(c)
  PROVE  TeamsInv'
<1>. DEFINE i == call[c].invite  p == call[c].person
<1>1. /\ call[c].pc = "join" /\ members' = [members EXCEPT ![call[c].team] = @ \cup {p}]
      /\ used' = used \cup {i} /\ joins' = [joins EXCEPT ![i] = @ \cup {p}]
      /\ Return(c) /\ UNCHANGED <<founded, invite, late>>
  BY DEF Joined
<1>2. p \in People /\ i \in Invites /\ invite[i] # None
  BY <1>1 DEF TeamsInv, TeamsShape, Knows
<1>3. /\ call' \in [Calls -> CallSet] /\ call'[c].pc = "idle"
      /\ \A d \in Calls : d # c => call'[d] = call[d]
  BY <1>1, CallOver DEF TeamsInv, TeamsShape
<1>4. /\ members' \in [Teams -> SUBSET People] /\ (\A u \in Teams \ founded : members'[u] = {})
      /\ FewTeams' /\ FewMembers' /\ FewLate'
  BY <1>1, <1>3, Enrolled
<1>5. /\ joins' \in [Invites -> SUBSET People] /\ joins'[i] = joins[i] \cup {p}
      /\ \A j \in Invites : j # i => joins'[j] = joins[j]
  BY <1>1, <1>2 DEF TeamsInv, TeamsShape, TypeOK
<1>6. TeamsShape'
  <2>1. TypeOK'
    BY <1>1, <1>2, <1>3, <1>4, <1>5 DEF TeamsInv, TeamsShape, TypeOK, CallSet
  <2>2. \A d \in Calls : Knows(d)'
    BY <1>1, <1>3 DEF TeamsInv, TeamsShape, Knows
  <2>. QED BY <1>1, <1>5, <2>1, <2>2 DEF TeamsInv, TeamsShape, UnusedIsFresh
<1>7. FewJoins'
  <2>1. ASSUME NEW j \in Invites
        PROVE  Cardinality(joins'[j]) + Cardinality(Holds(j)') <= 1 + Others
    <3>1. CASE j = i
      <4>1. c \in Holds(j) /\ Holds(j)' \subseteq Holds(j) \ {c}
        BY <1>1, <1>3, <3>1 DEF Holds
      <4>2. IsFiniteSet(joins[j]) /\ joins'[j] \subseteq joins[j] \cup {p}
        BY <1>5, <3>1, Finite DEF TeamsInv, TeamsShape
      <4>. QED BY <4>1, <4>2, CallBecomesRow, Sets DEF TeamsInv, FewJoins
    <3>2. CASE j # i
      <4>1. Holds(j)' \subseteq Holds(j)
        BY <1>3 DEF Holds
      <4>. QED BY <1>5, <3>2, <4>1, NeitherGrows, Finite, Sets DEF TeamsInv, TeamsShape, FewJoins
    <3>. QED BY <3>1, <3>2
  <2>. QED BY <2>1 DEF FewJoins, Others
<1>. QED BY <1>4, <1>6, <1>7 DEF TeamsInv

LEMMA InviteMadeStep ==
  ASSUME TeamsInv, NEW c \in Calls, NEW i \in Invites, InviteMade(c, i)
  PROVE  TeamsInv'
<1>1. /\ call[c].pc = "invite" /\ invite[i] = None /\ invite' = [invite EXCEPT ![i] = call[c].team]
      /\ Return(c) /\ UNCHANGED <<founded, members, used, joins, late>>
  BY DEF InviteMade
<1>2. call[c].team \in founded /\ call[c].team # None
  BY <1>1, TeamsAssumption DEF TeamsInv, TeamsShape, Knows, TypeOK
<1>3. /\ call' \in [Calls -> CallSet] /\ call'[c].pc = "idle"
      /\ \A d \in Calls : d # c => call'[d] = call[d]
  BY <1>1, CallOver DEF TeamsInv, TeamsShape
<1>4. /\ invite' \in [Invites -> founded \cup {None}]
      /\ \A j \in Invites : invite[j] # None => invite'[j] # None
  BY <1>1, <1>2 DEF TeamsInv, TeamsShape, TypeOK
<1>5. TeamsShape'
  <2>1. TypeOK'
    BY <1>1, <1>3, <1>4 DEF TeamsInv, TeamsShape, TypeOK, CallSet
  <2>2. \A d \in Calls : Knows(d)'
    BY <1>1, <1>3, <1>4 DEF TeamsInv, TeamsShape, Knows
  <2>. QED BY <1>1, <2>1, <2>2 DEF TeamsInv, TeamsShape, UnusedIsFresh
<1>6. /\ \A p \in People : Enters(p)' \subseteq Enters(p) /\ Stale(p)' \subseteq Stale(p)
      /\ \A t \in Teams : Heads(t)' \subseteq Heads(t)
      /\ \A j \in Invites : Holds(j)' \subseteq Holds(j)
  BY <1>1, <1>3 DEF Enters, Stale, Heads, Holds
<1>. QED BY <1>1, <1>5, <1>6, AllStay DEF TeamsInv

(* The call that leaves is not one that writes: of the calls there can be,   *)
(* at least one is not left behind by it.                                    *)
LEMMA LeftStep ==
  ASSUME TeamsInv, NEW c \in Calls, Left(c)
  PROVE  TeamsInv'
<1>. DEFINE p == call[c].person
<1>1. /\ call[c].pc = "leave" /\ members' = [t \in Teams |-> members[t] \ {p}]
      /\ late' = [late EXCEPT ![p] = 0] /\ Return(c) /\ UNCHANGED <<founded, invite, used, joins>>
  BY DEF Left
<1>2. /\ call' \in [Calls -> CallSet] /\ call'[c].pc = "idle"
      /\ \A d \in Calls : d # c => call'[d] = call[d]
  BY <1>1, CallOver DEF TeamsInv, TeamsShape
<1>3. \A t \in Teams : members'[t] \subseteq members[t]
  BY <1>1
<1>4. p \in People
  BY <1>1 DEF TeamsInv, TeamsShape, Knows
<1>5. late' \in [People -> Nat] /\ late'[p] = 0 /\ \A q \in People : q # p => late'[q] = late[q]
  BY <1>1, <1>4 DEF TeamsInv, TeamsShape, TypeOK
<1>6. TeamsShape'
  <2>1. members' \in [Teams -> SUBSET People] /\ \A t \in Teams \ founded : members'[t] = {}
    BY <1>1 DEF TeamsInv, TeamsShape, TypeOK
  <2>2. TypeOK'
    BY <1>1, <1>2, <1>5, <2>1 DEF TeamsInv, TeamsShape, TypeOK, CallSet
  <2>3. \A d \in Calls : Knows(d)'
    BY <1>1, <1>2 DEF TeamsInv, TeamsShape, Knows
  <2>. QED BY <1>1, <2>2, <2>3 DEF TeamsInv, TeamsShape, UnusedIsFresh
<1>7. /\ \A q \in People : TeamsOf(q)' \subseteq TeamsOf(q) /\ Enters(q)' \subseteq Enters(q)
      /\ \A t \in Teams : Heads(t)' \subseteq Heads(t)
      /\ \A i \in Invites : Holds(i)' \subseteq Holds(i)
  BY <1>2, <1>3 DEF TeamsOf, Enters, Heads, Holds
<1>8. ASSUME NEW q \in People PROVE late'[q] + Cardinality(Stale(q)') <= Others
  <2>1. CASE q = p
    <3>1. Stale(q)' \subseteq Calls \ {c}
      BY <1>2 DEF Stale
    <3>2. IsFiniteSet(Calls \ {c}) /\ Cardinality(Calls \ {c}) = Others
      BY SomeCalls, FS_RemoveElement DEF Others
    <3>3. IsFiniteSet(Stale(q)') /\ Cardinality(Stale(q)') <= Others
      BY <3>1, <3>2, FS_Subset
    <3>4. Cardinality(Stale(q)') \in Nat
      BY <3>3, FS_CardinalityType
    <3>. QED BY <1>5, <2>1, <3>3, <3>4
  <2>2. CASE q # p
    <3>1. ASSUME NEW d \in Stale(q)' PROVE d \in Stale(q)
      <4>1. d \in Calls /\ d # c /\ call[d].pc = "remember" /\ call[d].person = q
            /\ q \notin members'[call[d].team] /\ call[d].team \in Teams
        BY <1>2, <3>1 DEF Stale, TeamsInv, TeamsShape, Knows, TypeOK
      <4>2. q \notin members[call[d].team]
        BY <1>1, <2>2, <4>1
      <4>. QED BY <4>1, <4>2 DEF Stale
    <3>2. /\ IsFiniteSet(Stale(q)) /\ IsFiniteSet(Stale(q)')
          /\ Cardinality(Stale(q)') <= Cardinality(Stale(q))
      BY <3>1, SomeCalls, Sets, FS_Subset
    <3>3. Cardinality(Stale(q)) \in Nat /\ Cardinality(Stale(q)') \in Nat /\ late[q] \in Nat
      BY <3>2, FS_CardinalityType DEF TeamsInv, TeamsShape, TypeOK
    <3>. QED BY <1>5, <2>2, <3>2, <3>3, SomeCalls DEF TeamsInv, FewLate
  <2>. QED BY <2>1, <2>2
<1>9. FewLate'
  BY <1>8 DEF FewLate, Others
<1>. QED BY <1>1, <1>3, <1>6, <1>7, <1>9, TeamsStay, MembersStay, JoinsStay DEF TeamsInv

LEMMA RememberedStep ==
  ASSUME TeamsInv, NEW c \in Calls, Remembered(c)
  PROVE  TeamsInv'
<1>. DEFINE p == call[c].person  t == call[c].team
<1>1. /\ call[c].pc = "remember" /\ Return(c) /\ UNCHANGED <<founded, members, invite, used, joins>>
      /\ late' = IF p \in members[t] THEN late ELSE [late EXCEPT ![p] = @ + 1]
  BY DEF Remembered
<1>2. p \in People
  BY <1>1 DEF TeamsInv, TeamsShape, Knows
<1>3. /\ call' \in [Calls -> CallSet] /\ call'[c].pc = "idle"
      /\ \A d \in Calls : d # c => call'[d] = call[d]
  BY <1>1, CallOver DEF TeamsInv, TeamsShape
<1>4. /\ late' \in [People -> Nat] /\ \A q \in People : q # p => late'[q] = late[q]
      /\ p \notin members[t] => late'[p] = late[p] + 1
  BY <1>1, <1>2 DEF TeamsInv, TeamsShape, TypeOK
<1>5. TeamsShape'
  <2>1. TypeOK'
    BY <1>1, <1>3, <1>4 DEF TeamsInv, TeamsShape, TypeOK, CallSet
  <2>2. \A d \in Calls : Knows(d)'
    BY <1>1, <1>3 DEF TeamsInv, TeamsShape, Knows
  <2>. QED BY <1>1, <2>1, <2>2 DEF TeamsInv, TeamsShape, UnusedIsFresh
<1>6. /\ \A q \in People : /\ TeamsOf(q)' = TeamsOf(q) /\ Enters(q)' \subseteq Enters(q)
                           /\ Stale(q)' \subseteq Stale(q)
      /\ \A u \in Teams : Heads(u)' \subseteq Heads(u)
      /\ \A i \in Invites : Holds(i)' \subseteq Holds(i)
  BY <1>1, <1>3 DEF TeamsOf, Enters, Stale, Heads, Holds
<1>7. CASE p \in members[t]
  <2>1. late' = late
    BY <1>1, <1>7
  <2>. QED BY <1>1, <1>5, <1>6, <2>1, AllStay DEF TeamsInv
<1>8. CASE p \notin members[t]
  <2>1. ASSUME NEW q \in People PROVE late'[q] + Cardinality(Stale(q)') <= Others
    <3>1. /\ IsFiniteSet(Stale(q)) /\ IsFiniteSet(Stale(q)')
          /\ Cardinality(Stale(q)') <= Cardinality(Stale(q))
      BY <1>6, SomeCalls, Sets, FS_Subset
    <3>2. Cardinality(Stale(q)) \in Nat /\ Cardinality(Stale(q)') \in Nat /\ late[q] \in Nat
      BY <3>1, FS_CardinalityType DEF TeamsInv, TeamsShape, TypeOK
    <3>3. late[q] + Cardinality(Stale(q)) <= Others
      BY DEF TeamsInv, FewLate
    <3>4. CASE q # p
      BY <1>4, <3>1, <3>2, <3>3, <3>4, SomeCalls
    <3>5. CASE q = p
      <4>1. c \in Stale(q) /\ Stale(q)' \subseteq Stale(q) \ {c}
        BY <1>1, <1>3, <1>8, <3>5 DEF Stale
      <4>2. IsFiniteSet(Stale(q) \ {c}) /\ Cardinality(Stale(q) \ {c}) = Cardinality(Stale(q)) - 1
        BY <3>1, <4>1, FS_RemoveElement
      <4>3. Cardinality(Stale(q)') <= Cardinality(Stale(q) \ {c})
        BY <4>1, <4>2, FS_Subset
      <4>. QED BY <1>4, <1>8, <3>2, <3>3, <3>5, <4>2, <4>3, SomeCalls
    <3>. QED BY <3>4, <3>5
  <2>2. FewLate'
    BY <2>1 DEF FewLate, Others
  <2>. QED BY <1>1, <1>5, <1>6, <2>2, TeamsStay, MembersStay, JoinsStay DEF TeamsInv
<1>. QED BY <1>7, <1>8

-----------------------------------------------------------------------------
LEMMA Initially == TeamsInit => TeamsInv
<1>. SUFFICES ASSUME TeamsInit PROVE TeamsInv
  OBVIOUS
<1>1. TypeOK
  BY DEF TeamsInit, TypeOK, NoCall
<1>2. \A c \in Calls : call[c].pc = "idle"
  BY DEF TeamsInit, NoCall
<1>3. TeamsShape
  BY <1>1, <1>2 DEF TeamsInit, TeamsShape, Knows, UnusedIsFresh
<1>4. /\ \A p \in People : TeamsOf(p) = {} /\ Enters(p) = {} /\ Stale(p) = {} /\ late[p] = 0
      /\ \A t \in Teams : members[t] = {} /\ Heads(t) = {}
      /\ \A i \in Invites : joins[i] = {} /\ Holds(i) = {}
  BY <1>2 DEF TeamsInit, TeamsOf, Enters, Stale, Heads, Holds
<1>5. \A S : S = {} => Cardinality(S) = 0
  BY FS_EmptySet
<1>6. /\ \A p \in People : Cardinality(TeamsOf(p)) = 0 /\ Cardinality(Enters(p)) = 0
      /\ \A p \in People : Cardinality(Stale(p)) = 0 /\ late[p] = 0
      /\ \A t \in Teams : Cardinality(members[t]) = 0 /\ Cardinality(Heads(t)) = 0
      /\ \A i \in Invites : Cardinality(joins[i]) = 0 /\ Cardinality(Holds(i)) = 0
  BY <1>4, <1>5, Zenon
<1>7. FewTeams /\ FewMembers /\ FewJoins /\ FewLate
  BY <1>6, SomeCalls, TeamsAssumption DEF FewTeams, FewMembers, FewJoins, FewLate
<1>. QED BY <1>3, <1>7 DEF TeamsInv

LEMMA Steps == TeamsInv /\ [TeamsNext]_teamVars => TeamsInv'
<1>. SUFFICES ASSUME TeamsInv, [TeamsNext]_teamVars PROVE TeamsInv'
  OBVIOUS
<1>1. CASE UNCHANGED teamVars
  <2>1. TeamsShape'
    BY <1>1 DEF teamVars, TeamsInv, TeamsShape, TypeOK, Knows, UnusedIsFresh
  <2>2. /\ \A p \in People : Enters(p)' \subseteq Enters(p) /\ Stale(p)' \subseteq Stale(p)
        /\ \A t \in Teams : Heads(t)' \subseteq Heads(t)
        /\ \A i \in Invites : Holds(i)' \subseteq Holds(i)
    BY <1>1 DEF teamVars, Enters, Stale, Heads, Holds
  <2>. QED BY <1>1, <2>1, <2>2, AllStay DEF teamVars, TeamsInv
<1>2. ASSUME NEW c \in Calls, NEW p \in People,
             \/ New(c, p) \/ LeaveStarts(c, p)
             \/ \E t \in Teams : InviteStarts(c, p, t) \/ RememberStarts(c, p, t)
             \/ \E i \in Invites : Join(c, p, i)
      PROVE  TeamsInv'
  BY <1>2, Begins
<1>3. ASSUME NEW c \in Calls,
             \/ CheckFree(c) \/ CheckRoom(c) \/ Abandon(c)
             \/ Enrol(c) \/ Joined(c) \/ Left(c) \/ Remembered(c)
             \/ \E t \in Teams : FoundTeam(c, t)
             \/ \E i \in Invites : InviteMade(c, i)
      PROVE  TeamsInv'
  BY <1>3, Checks, FoundStep, EnrolStep, JoinedStep, InviteMadeStep, LeftStep, RememberedStep
<1>4. CASE TeamsNext
  BY <1>2, <1>3, <1>4 DEF TeamsNext
<1>. QED BY <1>1, <1>4

LEMMA Invariant == TeamsSpec => []TeamsInv
<1>1. TeamsInv /\ [TeamsNext]_teamVars => TeamsInv'
  BY Steps
<1>. QED BY <1>1, Initially, PTL DEF TeamsSpec

(* The rows alone are within the bound.                                      *)
LEMMA RowsAreFew ==
  ASSUME NEW R, NEW P, IsFiniteSet(R), P \subseteq Calls, NEW b \in Nat,
         Cardinality(R) + Cardinality(P) <= b
  PROVE  Cardinality(R) <= b
<1>1. IsFiniteSet(P)
  BY SomeCalls, FS_Subset
<1>2. Cardinality(R) \in Nat /\ Cardinality(P) \in Nat
  BY <1>1, FS_CardinalityType
<1>. QED BY <1>2

-----------------------------------------------------------------------------
(* identity/teams.ts: however many calls overlap, and wherever one is cut    *)
(* off, a person is in no more teams, a team has no more members over its    *)
(* cap, and an invite works no more times over, than calls can be in         *)
(* progress besides one; with one at a time the rules hold as written.       *)
THEOREM RulesBendByOverlap == TeamsSpec => []TeamRules
<1>1. TeamsInv => TeamRules
  <2>. SUFFICES ASSUME TeamsInv PROVE TeamRules
    OBVIOUS
  <2>1. OneTeamEach
    BY RowsAreFew, Finite, Sets DEF TeamsInv, TeamsShape, FewTeams, OneTeamEach
  <2>2. MembersCapped
    BY RowsAreFew, Finite, Sets DEF TeamsInv, TeamsShape, FewMembers, MembersCapped
  <2>3. InviteWorksOnce
    BY RowsAreFew, Finite, Sets DEF TeamsInv, TeamsShape, FewJoins, InviteWorksOnce
  <2>. QED BY <2>1, <2>2, <2>3 DEF TeamRules
<1>. QED BY <1>1, Invariant, PTL

(* memory/team-person.ts: the facts a person adds to a team they are not in, *)
(* since they last left, are fewer than the calls that can be in progress,   *)
(* whatever they joined before or after.                                     *)
THEOREM LeaversStop == TeamsSpec => []LeaversFallSilent
<1>1. TeamsInv => LeaversFallSilent
  <2>. SUFFICES ASSUME TeamsInv, NEW p \in People PROVE late[p] <= Others
    BY DEF LeaversFallSilent
  <2>1. IsFiniteSet(Stale(p))
    BY SomeCalls, Sets, FS_Subset
  <2>2. Cardinality(Stale(p)) \in Nat /\ late[p] \in Nat
    BY <2>1, FS_CardinalityType DEF TeamsInv, TeamsShape, TypeOK
  <2>. QED BY <2>2, SomeCalls DEF TeamsInv, FewLate
<1>. QED BY <1>1, Invariant, PTL
=============================================================================
