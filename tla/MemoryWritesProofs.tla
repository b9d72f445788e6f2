--------------------------- MODULE MemoryWritesProofs ---------------------------
(***************************************************************************)
(* MemoryWrites proved for any writes, attempts, faults and forgets.  Two  *)
(* facts carry it: a submission that is no longer the current one has been *)
(* given up (outlived) or dropped, and a settle loop that is still running *)
(* has a pending row to settle, unless the row was forgotten or the call   *)
(* itself failed.  The last part is of the panel that shows the writes     *)
(* (WebMemory).                                                            *)
(***************************************************************************)
EXTENDS MemoryWrites, WebMemory, TLAPS

Running(w) == settle[w] \in {"wait", "pause", "stored", "failed"}
Live(w, n) == job[w][n] \in {"queued", "landed"}

(* The submissions that the loop of w has behind it.                         *)
Behind(w, n) == n < attempt[w] \/ settle[w] \in {"pause", "failed"}

Tracked(w, n) ==
  \/ call[w] = "record"
  \/ <<w, n>> \in outlived
  \/ w \in forgotten
  \/ row[w].status = "pending"
  \/ row[w].status = "stored" /\ row[w].blob = n

WriteOK(w) ==
  /\ call[w] \in {"idle", "dedupe", "again", "duplicate"} => settle[w] = "none"
  /\ settle[w] = "none" <=> attempt[w] = 0
  /\ settle[w] = "pause" => attempt[w] < Attempts
  /\ settle[w] = "stored" => job[w][attempt[w]] = "landed"
  /\ row[w].status # "none" => call[w] = "told"
  /\ row[w].status \in {"stored", "failed"} => settle[w] = "indexed"
  /\ call[w] = "told" => row[w].status # "none" \/ w \in forgotten
  /\ row[w].status # "none" <=> w \in told

JobOK(w, n) ==
  /\ job[w][n] # "none" => n <= attempt[w]
  /\ <<w, n>> \in index => job[w][n] = "landed"
  /\ Live(w, n) => Tracked(w, n)
  /\ Live(w, n) /\ Running(w) /\ Behind(w, n) => <<w, n>> \in outlived
  /\ Running(w) /\ call[w] = "error" => <<w, n>> \in outlived

RowIsReal(w) ==
  /\ row[w].status = "stored" => row[w].blob # 0 /\ job[w][row[w].blob] = "landed"
  /\ row[w].status # "stored" => row[w].blob = 0 /\ ~row[w].hidden

(* A try whose answer was lost is nobody's, from the start.                  *)
StrayOK(w) == stray[w] > 0 \/ <<w, 0>> \in index => <<w, 0>> \in outlived

Good(w) == WriteOK(w) /\ StrayOK(w) /\ RowIsReal(w) /\ \A n \in 1..Attempts : JobOK(w, n)

IInv == TypeOK /\ \A w \in Writes : Good(w)

-----------------------------------------------------------------------------
(* What a step does to one write, it leaves alone in the others.             *)
Same(u) ==
  /\ call'[u] = call[u] /\ settle'[u] = settle[u] /\ attempt'[u] = attempt[u]
  /\ job'[u] = job[u] /\ stray'[u] = stray[u] /\ row'[u] = row[u]
  /\ u \in told' <=> u \in told
  /\ u \in forgotten => u \in forgotten'
  /\ \A n \in 0..Attempts : /\ <<u, n>> \in outlived => <<u, n>> \in outlived'
                            /\ <<u, n>> \in index' => <<u, n>> \in index

LEMMA SameStaysGood ==
  ASSUME NEW u \in Writes, Good(u), Same(u)
  PROVE  Good(u)'
BY WritesAssumption DEF Good, Same, WriteOK, StrayOK, RowIsReal, JobOK, Tracked, Live, Running, Behind

(* A step that only moves the call and the loop of w.                        *)
LEMMA OneMoves ==
  ASSUME IInv, TypeOK', NEW w \in Writes, \A u \in Writes \ {w} : Same(u), Good(w)'
  PROVE  IInv'
BY SameStaysGood DEF IInv

LEMMA Shape ==
  ASSUME TypeOK, NEW w \in Writes
  PROVE  row[w] = [status |-> row[w].status, blob |-> row[w].blob, hidden |-> row[w].hidden]
BY DEF TypeOK

LEMMA JobsCounted ==
  ASSUME NEW w \in Writes, Good(w), NEW n \in 1..Attempts
  PROVE  job[w][n] # "none" => n <= attempt[w]
<1>1. JobOK(w, n)
  BY DEF Good
<1>. QED BY <1>1 DEF JobOK

LEMMA Initially == Init => IInv
<1>. SUFFICES ASSUME Init PROVE IInv
  OBVIOUS
<1>1. NoRow \in [status : {"none", "pending", "stored", "failed"}, blob : 0..Attempts,
                hidden : BOOLEAN]
  BY WritesAssumption DEF NoRow
<1>2. TypeOK
  <2>1. /\ row \in [Writes -> [status : {"none", "pending", "stored", "failed"}, blob : 0..Attempts,
                            hidden : BOOLEAN]]
        /\ attempt \in [Writes -> 0..Attempts] /\ faults \in 0..Faults /\ forgets \in 0..Forgets
    BY WritesAssumption, <1>1 DEF Init
  <2>2. /\ ignore \in [Writes -> SUBSET Blobs]
        /\ index \in SUBSET (Blobs \cup Strays) /\ outlived \in SUBSET (Blobs \cup Strays)
        /\ job \in [Writes -> [1..Attempts -> {"none", "queued", "landed", "dropped"}]]
        /\ call \in [Writes -> Calls] /\ settle \in [Writes -> Settles]
    BY DEF Init, Calls, Settles
  <2>3. /\ told \in SUBSET Writes /\ forgotten \in SUBSET Writes /\ forgetting \in BOOLEAN
    BY DEF Init
  <2>4. stray \in [Writes -> Nat] /\ unheard \in 0..Faults
    <3>1. stray = [w \in Writes |-> 0] /\ unheard = 0
      BY DEF Init
    <3>. QED BY <3>1, WritesAssumption
  <2>. QED BY <2>1, <2>2, <2>3, <2>4 DEF TypeOK
<1>3. ASSUME NEW w \in Writes PROVE Good(w)
  BY <1>3 DEF Init, NoRow, Good, WriteOK, StrayOK, RowIsReal, JobOK, Live, Running
<1>. QED BY <1>2, <1>3 DEF IInv

-----------------------------------------------------------------------------
LEMMA CallingSteps ==
  ASSUME IInv, NEW w \in Writes, Calling(w)
  PROVE  IInv'
<1>. USE WritesAssumption
<1>0. TypeOK /\ Good(w) /\ HiddenBlobs \in SUBSET Blobs
  BY DEF IInv, HiddenBlobs
<1>1. CASE Remember(w)
  <2>1. TypeOK'
    BY <1>0, <1>1 DEF Remember, TypeOK, Calls, loop, relayer, rows, forgetAll, bounded
  <2>2. Good(w)'
    BY <1>0, <1>1 DEF Remember, loop, relayer, rows, TypeOK, Good, WriteOK, StrayOK, RowIsReal, JobOK,
                      Tracked, Live, Running, Behind
  <2>3. \A u \in Writes \ {w} : Same(u)
    BY <1>0, <1>1 DEF Remember, loop, relayer, rows, TypeOK, Same
  <2>. QED BY <2>1, <2>2, <2>3, OneMoves
<1>2. CASE FindDuplicate(w) \/ AcceptFails(w)
  <2>1. /\ call[w] \in {"dedupe", "again"}
        /\ \E c \in {"duplicate", "error"} : call' = [call EXCEPT ![w] = c]
        /\ UNCHANGED <<ignore, loop, relayer, rows, outlived, forgetAll, bounded>>
    BY <1>2 DEF FindDuplicate, AcceptFails, Submitting
  <2>2. TypeOK'
    BY <1>0, <2>1 DEF TypeOK, Calls, loop, relayer, rows, forgetAll, bounded
  <2>3. Good(w)'
    BY <1>0, <2>1 DEF loop, relayer, rows, TypeOK, Good, WriteOK, StrayOK, RowIsReal, JobOK,
                      Tracked, Live, Running, Behind
  <2>4. \A u \in Writes \ {w} : Same(u)
    BY <1>0, <2>1 DEF loop, relayer, rows, TypeOK, Same
  <2>. QED BY <2>2, <2>3, <2>4, OneMoves
<1>3. CASE Accept(w)
  <2>1. TypeOK'
    BY <1>0, <1>3 DEF Accept, Submitting, Submitted, TypeOK, Calls, Settles, rows, forgetAll, bounded
  <2>2. \A n \in 1..Attempts : job[w][n] = "none"
    <3>1. attempt[w] = 0
      BY <1>0, <1>3 DEF Accept, Submitting, Good, WriteOK
    <3>. QED BY <1>0, <3>1, JobsCounted
  <2>3. Good(w)'
    BY <1>0, <1>3, <2>2 DEF Accept, Submitting, Submitted, rows, TypeOK, Good, WriteOK, StrayOK, RowIsReal, JobOK,
                            Tracked, Live, Running, Behind
  <2>4. \A u \in Writes \ {w} : Same(u)
    BY <1>0, <1>3 DEF Accept, Submitting, Submitted, rows, TypeOK, Same
  <2>. QED BY <2>1, <2>3, <2>4, OneMoves
<1>4. CASE Record(w)
  <2>1. TypeOK'
    BY <1>0, <1>4 DEF Record, Row, TypeOK, Calls, loop, relayer, forgetAll, bounded
  <2>2. Good(w)'
    BY <1>0, <1>4 DEF Record, Row, loop, relayer, TypeOK, Good, WriteOK, StrayOK, RowIsReal, JobOK,
                      Tracked, Live, Running, Behind
  <2>3. \A u \in Writes \ {w} : Same(u)
    BY <1>0, <1>4 DEF Record, loop, relayer, TypeOK, Same
  <2>. QED BY <2>1, <2>2, <2>3, OneMoves
<1>5. CASE RecordFails(w)
  <2>1. TypeOK'
    <3>1. outlived' \in SUBSET (Blobs \cup Strays)
      BY <1>0, <1>5 DEF RecordFails, TypeOK, Blobs
    <3>2. faults' \in 0..Faults /\ unheard' \in 0..Faults
      BY <1>0, <1>5 DEF RecordFails, Fault, MayFail, TypeOK
    <3>. QED BY <1>0, <1>5, <3>1, <3>2 DEF RecordFails, TypeOK, Calls, loop, relayer, rows, forgetAll
  <2>2. Good(w)'
    BY <1>0, <1>5 DEF RecordFails, Fault, loop, relayer, rows, TypeOK, Good, WriteOK, StrayOK, RowIsReal, JobOK,
                      Tracked, Live, Running, Behind
  <2>3. \A u \in Writes \ {w} : Same(u)
    BY <1>0, <1>5 DEF RecordFails, loop, relayer, rows, TypeOK, Same
  <2>. QED BY <2>1, <2>2, <2>3, OneMoves
<1>. QED BY <1>1, <1>2, <1>3, <1>4, <1>5 DEF Calling

(* A try whose answer was lost, and what becomes of it.                      *)
LEMMA StraySteps ==
  ASSUME IInv, NEW w \in Writes, TryLost(w) \/ StrayLands(w)
  PROVE  IInv'
<1>. USE WritesAssumption
<1>0. TypeOK /\ Good(w)
  BY DEF IInv
<1>1. CASE TryLost(w)
  <2>1. TypeOK'
    BY <1>0, <1>1 DEF TryLost, Submitting, MayFail, TypeOK, Calls, Strays, loop, rows, forgetAll, bounded
  <2>2. /\ call'[w] = call[w] \/ (call[w] \in {"dedupe", "again"} /\ call'[w] = "again")
        /\ <<w, 0>> \in outlived' /\ outlived \subseteq outlived'
        /\ UNCHANGED <<ignore, loop, job, index, rows, forgetAll, faults>>
    BY <1>0, <1>1 DEF TryLost, Submitting, TypeOK
  <2>3. WriteOK(w)' /\ RowIsReal(w)' /\ StrayOK(w)'
    BY <1>0, <2>2 DEF loop, rows, Good, WriteOK, RowIsReal, StrayOK
  <2>4. \A n \in 1..Attempts : JobOK(w, n)'
    BY <1>0, <2>2 DEF loop, rows, Good, JobOK, Tracked, Live, Running, Behind
  <2>5. \A u \in Writes \ {w} : Same(u)
    BY <1>0, <1>1 DEF TryLost, loop, rows, TypeOK, Same
  <2>. QED BY <2>1, <2>3, <2>4, <2>5, OneMoves DEF Good
<1>2. CASE StrayLands(w)
  <2>1. TypeOK'
    BY <1>0, <1>2 DEF StrayLands, TypeOK, Strays, client, loop, rows, forgetAll, bounded
  <2>2. Good(w)'
    BY <1>0, <1>2 DEF StrayLands, client, loop, rows, TypeOK, Good, WriteOK, StrayOK, RowIsReal, JobOK,
                      Tracked, Live, Running, Behind
  <2>3. \A u \in Writes \ {w} : Same(u)
    BY <1>0, <1>2 DEF StrayLands, client, loop, rows, TypeOK, Same
  <2>. QED BY <2>1, <2>2, <2>3, OneMoves
<1>. QED BY <1>1, <1>2

-----------------------------------------------------------------------------
LEMMA SettlingSteps ==
  ASSUME IInv, NEW w \in Writes, Settling(w)
  PROVE  IInv'
<1>. USE WritesAssumption
<1>0. TypeOK /\ Good(w)
  BY DEF IInv
<1>1. CASE JobStored(w)
  <2>1. TypeOK'
    BY <1>0, <1>1 DEF JobStored, TypeOK, Settles, relayer, rows, forgetAll, bounded
  <2>2. Good(w)'
    BY <1>0, <1>1 DEF JobStored, relayer, rows, TypeOK, Good, WriteOK, StrayOK, RowIsReal, JobOK,
                      Tracked, Live, Running, Behind
  <2>3. \A u \in Writes \ {w} : Same(u)
    BY <1>0, <1>1 DEF JobStored, relayer, rows, TypeOK, Same
  <2>. QED BY <2>1, <2>2, <2>3, OneMoves
<1>2. CASE JobLost(w)
  <2>0. attempt[w] \in 1..Attempts
    BY <1>0, <1>2 DEF JobLost, TypeOK, Good, WriteOK
  <2>1. /\ settle' = [settle EXCEPT ![w] = IF attempt[w] < Attempts THEN "pause" ELSE "failed"]
        /\ outlived' \in {outlived, outlived \cup {<<w, attempt[w]>>}}
        /\ UNCHANGED <<ignore, call, attempt, relayer, rows, forgetAll, bounded>>
    BY <1>2 DEF JobLost
  <2>2. TypeOK'
    BY <1>0, <2>0, <2>1 DEF TypeOK, Settles, Blobs, relayer, rows, forgetAll, bounded
  <2>3. \A n \in 1..Attempts : /\ <<w, n>> \in outlived => <<w, n>> \in outlived'
                               /\ Live(w, n) /\ n = attempt[w] => <<w, n>> \in outlived'
    BY <1>2 DEF JobLost, Live
  <2>4. \A n \in 1..Attempts : JobOK(w, n)'
    BY <1>0, <1>2, <2>0, <2>1, <2>3 DEF JobLost, relayer, rows, TypeOK, Good, JobOK,
                                        Tracked, Live, Running, Behind
  <2>5. WriteOK(w)' /\ RowIsReal(w)' /\ StrayOK(w)'
    BY <1>0, <1>2, <2>0, <2>1 DEF JobLost, relayer, rows, TypeOK, Good, WriteOK, RowIsReal, StrayOK
  <2>6. \A u \in Writes \ {w} : Same(u)
    BY <1>0, <2>1 DEF relayer, rows, TypeOK, Same
  <2>. QED BY <2>2, <2>4, <2>5, <2>6, OneMoves DEF Good
<1>3. CASE Resubmit(w)
  <2>0. attempt[w] \in 1..Attempts /\ attempt[w] + 1 \in 1..Attempts
    BY <1>0, <1>3 DEF Resubmit, TypeOK, Good, WriteOK
  <2>5. job[w][attempt[w] + 1] = "none"
    <3>1. ~(attempt[w] + 1 <= attempt[w])
      BY <2>0
    <3>. QED BY <1>0, <2>0, <3>1, JobsCounted
  <2>6. /\ attempt'[w] = attempt[w] + 1 /\ settle[w] = "pause" /\ settle'[w] = "wait"
        /\ \A n \in 1..Attempts : job'[w][n] = IF n = attempt[w] + 1 THEN "queued" ELSE job[w][n]
        /\ UNCHANGED <<ignore, call, index, rows, outlived, forgetAll, bounded>>
    BY <1>0, <1>3, <2>0 DEF Resubmit, Submitted, TypeOK
  <2>7. Running(w) /\ ~Live(w, attempt[w] + 1)
    BY <2>5, <2>6 DEF Running, Live
  <2>8. call[w] \in {"record", "error"} \/ (call[w] = "told" /\ (w \in forgotten \/ row[w].status = "pending"))
    BY <1>0, <2>6, <2>7 DEF Good, WriteOK, TypeOK, Calls
  <2>1. TypeOK'
    BY <1>0, <1>3, <2>0 DEF Resubmit, Submitted, TypeOK, Settles, rows, forgetAll, bounded
  <2>2. \A n \in 1..Attempts : JobOK(w, n)'
    <3>. SUFFICES ASSUME NEW n \in 1..Attempts PROVE JobOK(w, n)'
      OBVIOUS
    <3>1. CASE n = attempt[w] + 1
      BY <1>0, <2>0, <2>5, <2>6, <2>7, <2>8, <3>1 DEF rows, Good, JobOK, Tracked, Live, Running, Behind
    <3>2. CASE n # attempt[w] + 1
      <4>1. job[w][n] # "none" => n <= attempt[w]
        BY <1>0 DEF Good, JobOK
      <4>2. Live(w, n) => <<w, n>> \in outlived
        BY <1>0, <2>6, <2>7 DEF Good, JobOK, Behind
      <4>. QED BY <1>0, <2>0, <2>6, <3>2, <4>1, <4>2 DEF rows, Good, JobOK, Tracked, Live, Running, Behind
    <3>. QED BY <3>1, <3>2
  <2>3. WriteOK(w)' /\ RowIsReal(w)' /\ StrayOK(w)'
    BY <1>0, <1>3, <2>0 DEF Resubmit, Submitted, rows, TypeOK, Good, WriteOK, RowIsReal, StrayOK
  <2>4. \A u \in Writes \ {w} : Same(u)
    BY <1>0, <1>3 DEF Resubmit, Submitted, rows, TypeOK, Same
  <2>. QED BY <2>1, <2>2, <2>3, <2>4, OneMoves DEF Good
<1>4. CASE ResubmitFails(w)
  <2>1. TypeOK'
    BY <1>0, <1>4 DEF ResubmitFails, TypeOK, Settles, relayer, rows, forgetAll, bounded
  <2>2. Good(w)'
    BY <1>0, <1>4 DEF ResubmitFails, relayer, rows, TypeOK, Good, WriteOK, StrayOK, RowIsReal, JobOK,
                      Tracked, Live, Running, Behind
  <2>3. \A u \in Writes \ {w} : Same(u)
    BY <1>0, <1>4 DEF ResubmitFails, relayer, rows, TypeOK, Same
  <2>. QED BY <2>1, <2>2, <2>3, OneMoves
<1>5. CASE SettleRow(w)
  <2>0. attempt[w] \in 1..Attempts
    BY <1>0, <1>5 DEF SettleRow, Settled, TypeOK, Good, WriteOK
  <2>1. TypeOK'
    <3>1. settle[w] \in {"stored", "failed"}
      BY <1>5 DEF SettleRow, Settled
    <3>. DEFINE Rows == [status : {"none", "pending", "stored", "failed"}, blob : 0..Attempts,
                         hidden : BOOLEAN]
    <3>2. row \in [Writes -> Rows]
      BY <1>0 DEF TypeOK
    <3>3. row' \in [Writes -> Rows]
      <4>1. PICK st \in {"stored", "failed"}, bl \in 0..Attempts :
                   row' = row \/ row' = [row EXCEPT ![w] = [row[w] EXCEPT !.status = st, !.blob = bl]]
        <5>. DEFINE B == IF settle[w] = "stored" THEN attempt[w] ELSE 0
        <5>1. B \in 0..Attempts
          BY <2>0
        <5>2. \/ row' = row
              \/ row' = [row EXCEPT ![w] = [row[w] EXCEPT !.status = settle[w], !.blob = B]]
          BY <1>5 DEF SettleRow
        <5>. HIDE DEF B
        <5>. QED BY <3>1, <5>1, <5>2
      <4>2. \A r \in Rows : [r EXCEPT !.status = st, !.blob = bl] \in Rows
        OBVIOUS
      <4>3. [row[w] EXCEPT !.status = st, !.blob = bl] \in Rows
        BY <3>2, <4>2
      <4>. HIDE DEF Rows
      <4>. QED BY <3>2, <4>1, <4>3
    <3>. QED BY <1>0, <1>5, <3>3 DEF SettleRow, TypeOK, Settles, relayer, forgetAll, bounded
  <2>2. CASE row[w].status = "none"
    <3>1. row' = row
      BY <1>5, <2>2 DEF SettleRow
    <3>2. Good(w)'
      BY <1>0, <1>5, <2>2, <3>1 DEF SettleRow, Settled, relayer, TypeOK, Good, WriteOK, RowIsReal,
                                    StrayOK, JobOK, Tracked, Live, Running, Behind
    <3>3. \A u \in Writes \ {w} : Same(u)
      BY <1>0, <1>5, <3>1 DEF SettleRow, relayer, TypeOK, Same
    <3>. QED BY <2>1, <3>2, <3>3, OneMoves
  <2>3. CASE row[w].status # "none"
    <3>1. row' = [row EXCEPT ![w].status = settle[w],
                             ![w].blob = IF settle[w] = "stored" THEN attempt[w] ELSE 0]
      BY <1>5, <2>3 DEF SettleRow
    <3>2. /\ row'[w].status = settle[w] /\ row'[w].hidden = row[w].hidden
          /\ row'[w].blob = IF settle[w] = "stored" THEN attempt[w] ELSE 0
      BY <1>0, <3>1, Shape DEF TypeOK
    <3>3. /\ call[w] = "told" /\ settle[w] \in {"stored", "failed"}
          /\ settle' = [settle EXCEPT ![w] = "indexed"]
          /\ UNCHANGED <<ignore, call, attempt, relayer, told, forgotten, outlived, forgetAll, bounded>>
      BY <1>5 DEF SettleRow, Settled
    <3>4. row[w].status \notin {"stored", "failed"}
      BY <1>0, <3>3 DEF Good, WriteOK
    <3>5. ~row[w].hidden
      BY <1>0, <3>4 DEF Good, RowIsReal
    <3>6. RowIsReal(w)' /\ WriteOK(w)' /\ StrayOK(w)'
      BY <1>0, <2>0, <2>3, <3>2, <3>3, <3>5 DEF relayer, TypeOK, Good, WriteOK, RowIsReal, StrayOK
    <3>7. \A n \in 1..Attempts : JobOK(w, n)'
      BY <1>0, <2>0, <3>2, <3>3 DEF relayer, TypeOK, Good, WriteOK, JobOK, Tracked, Live,
                                    Running, Behind
    <3>8. \A u \in Writes \ {w} : Same(u)
      BY <1>0, <3>1, <3>3 DEF relayer, TypeOK, Same
    <3>. QED BY <2>1, <3>6, <3>7, <3>8, OneMoves DEF Good
  <2>. QED BY <2>2, <2>3
<1>6. CASE SettleRowFails(w)
  <2>0. attempt[w] \in 1..Attempts
    BY <1>0, <1>6 DEF SettleRowFails, Settled, TypeOK, Good, WriteOK
  <2>1. TypeOK'
    BY <1>0, <1>6, <2>0 DEF SettleRowFails, Fault, MayFail, TypeOK, Settles, Blobs, Strays, relayer, rows, forgetAll, bounded
  <2>2. Good(w)'
    BY <1>0, <1>6 DEF SettleRowFails, Fault, Settled, relayer, rows, TypeOK, Good, WriteOK, RowIsReal,
                      StrayOK, JobOK, Tracked, Live, Running, Behind
  <2>3. \A u \in Writes \ {w} : Same(u)
    BY <1>0, <1>6 DEF SettleRowFails, relayer, rows, TypeOK, Same
  <2>. QED BY <2>1, <2>2, <2>3, OneMoves
<1>. QED BY <1>1, <1>2, <1>3, <1>4, <1>5, <1>6 DEF Settling

-----------------------------------------------------------------------------
LEMMA RelayerSteps ==
  ASSUME IInv, NEW w \in Writes, NEW n \in 1..Attempts, Land(w, n) \/ Drop(w, n)
  PROVE  IInv'
<1>. USE WritesAssumption
<1>0. TypeOK /\ Good(w)
  BY DEF IInv
<1>1. PICK s \in {"landed", "dropped"} :
        /\ job[w][n] = "queued" /\ job' = [job EXCEPT ![w][n] = s]
        /\ index' = IF s = "landed" THEN index \cup {<<w, n>>} ELSE index
        /\ UNCHANGED <<client, stray, rows, outlived, forgetAll, bounded>>
  BY DEF Land, Drop
<1>2. TypeOK'
  BY <1>0, <1>1 DEF TypeOK, Blobs, client, loop, rows, forgetAll, bounded
<1>3. \A k \in 1..Attempts : job'[w][k] = IF k = n THEN s ELSE job[w][k]
  BY <1>0, <1>1 DEF TypeOK
<1>4. WriteOK(w)' /\ RowIsReal(w)' /\ StrayOK(w)'
  BY <1>0, <1>1, <1>3 DEF client, loop, rows, TypeOK, Good, WriteOK, RowIsReal, StrayOK
<1>5. \A k \in 1..Attempts : JobOK(w, k)'
  BY <1>0, <1>1, <1>3 DEF client, loop, rows, TypeOK, Good, JobOK, Tracked, Live, Running, Behind
<1>6. \A u \in Writes \ {w} : Same(u)
  BY <1>0, <1>1 DEF client, loop, rows, TypeOK, Same
<1>. QED BY <1>2, <1>4, <1>5, <1>6, OneMoves DEF Good

LEMMA HideSteps ==
  ASSUME IInv, NEW w \in Writes, NEW hide \in BOOLEAN, SetHidden(w, hide)
  PROVE  IInv'
<1>0. TypeOK /\ Good(w)
  BY DEF IInv
<1>1. /\ row[w].blob # 0 /\ row' = [row EXCEPT ![w].hidden = hide]
      /\ UNCHANGED <<client, relayer, told, forgotten, outlived, forgetAll, bounded>>
  BY DEF SetHidden
<1>2. /\ row'[w].status = row[w].status /\ row'[w].blob = row[w].blob
      /\ row[w].status = "stored"
  BY <1>0, <1>1, Shape DEF TypeOK, Good, RowIsReal
<1>3. TypeOK'
  BY <1>0, <1>1 DEF TypeOK, Strays, client, loop, relayer, forgetAll, bounded
<1>4. Good(w)'
  BY <1>0, <1>1, <1>2 DEF client, loop, relayer, TypeOK, Good, WriteOK, StrayOK, RowIsReal, JobOK,
                          Tracked, Live, Running, Behind
<1>5. \A u \in Writes \ {w} : Same(u)
  BY <1>0, <1>1 DEF client, loop, relayer, TypeOK, Same
<1>. QED BY <1>3, <1>4, <1>5, OneMoves

(* /memory forget all, in its two halves.                                    *)
LEMMA ForgetSteps ==
  ASSUME IInv, ForgetAtRelayer \/ ForgetRows \/ ForgetRowsFails
  PROVE  IInv'
<1>. USE WritesAssumption
<1>0. TypeOK /\ \A w \in Writes : Good(w)
  BY DEF IInv
<1>1. CASE ForgetAtRelayer
  <2>1. TypeOK'
    BY <1>0, <1>1 DEF ForgetAtRelayer, TypeOK, client, loop, rows, bounded
  <2>2. \A w \in Writes : Same(w)
    BY <1>1 DEF ForgetAtRelayer, client, loop, rows, Same
  <2>. QED BY <1>0, <2>1, <2>2, SameStaysGood DEF IInv
<1>2. CASE ForgetRows
  <2>1. TypeOK'
    <3>1. /\ row' = [w \in Writes |-> NoRow]
          /\ told' = {} /\ forgotten' = forgotten \cup told /\ forgetting' \in BOOLEAN
          /\ UNCHANGED <<client, relayer, outlived, bounded, forgets>>
      BY <1>2 DEF ForgetRows
    <3>2. NoRow \in [status : {"none", "pending", "stored", "failed"}, blob : 0..Attempts,
                    hidden : BOOLEAN]
      BY DEF NoRow
    <3>. QED BY <1>0, <3>1, <3>2 DEF TypeOK, client, loop, relayer, bounded
  <2>2. ASSUME NEW w \in Writes PROVE Good(w)'
    <3>1. row'[w] = NoRow /\ w \notin told' /\ (w \in told => w \in forgotten')
          /\ (w \in forgotten => w \in forgotten')
          /\ UNCHANGED <<client, relayer, outlived, bounded, forgets>>
      BY <1>2, <2>2 DEF ForgetRows
    <3>2. call[w] = "told" => w \in forgotten'
      BY <1>0, <3>1 DEF Good, WriteOK
    <3>3. WriteOK(w)' /\ RowIsReal(w)' /\ StrayOK(w)'
      BY <1>0, <3>1, <3>2 DEF NoRow, client, loop, relayer, Good, WriteOK, RowIsReal, StrayOK
    <3>4. \A n \in 1..Attempts : Tracked(w, n) => Tracked(w, n)'
      BY <1>0, <3>1, <3>2 DEF client, loop, Good, WriteOK, RowIsReal, Tracked
    <3>5. \A n \in 1..Attempts : JobOK(w, n)'
      BY <1>0, <3>1, <3>4 DEF client, loop, relayer, Good, JobOK, Live, Running, Behind
    <3>. QED BY <3>3, <3>5 DEF Good
  <2>. QED BY <2>1, <2>2 DEF IInv
<1>3. CASE ForgetRowsFails
  <2>1. TypeOK'
    <3>1. faults' \in 0..Faults /\ unheard' \in 0..Faults
      BY <1>0, <1>3 DEF ForgetRowsFails, Fault, MayFail, TypeOK
    <3>2. forgetting' \in BOOLEAN /\ UNCHANGED <<client, relayer, rows, outlived, forgets>>
      BY <1>3 DEF ForgetRowsFails
    <3>. QED BY <1>0, <3>1, <3>2 DEF TypeOK, Strays, client, loop, relayer, rows
  <2>2. \A w \in Writes : Same(w)
    BY <1>3 DEF ForgetRowsFails, client, loop, relayer, rows, Same
  <2>. QED BY <1>0, <2>1, <2>2, SameStaysGood DEF IInv
<1>. QED BY <1>1, <1>2, <1>3

LEMMA CrashSteps ==
  ASSUME IInv, Crash
  PROVE  IInv'
<1>. USE WritesAssumption
<1>0. TypeOK /\ \A w \in Writes : Good(w)
  BY DEF IInv
<1>1. TypeOK'
  <2>1. faults' \in 0..Faults /\ unheard' \in 0..Faults
    BY <1>0 DEF Crash, Fault, MayFail, TypeOK
  <2>2. /\ call' \in [Writes -> Calls] /\ settle' \in [Writes -> Settles]
        /\ outlived' \in SUBSET (Blobs \cup Strays) /\ forgetting' \in BOOLEAN
        /\ UNCHANGED <<ignore, attempt, relayer, rows, forgets>>
    BY <1>0 DEF Crash, Asked, TypeOK, Calls, Settles, Blobs
  <2>. QED BY <1>0, <2>1, <2>2 DEF TypeOK, relayer, rows
<1>2. ASSUME NEW w \in Writes PROVE Good(w)'
  <2>1. /\ call'[w] = IF call[w] \in {"dedupe", "again", "record"} THEN "error" ELSE call[w]
        /\ settle'[w] = IF settle[w] \in {"none", "indexed"} THEN settle[w] ELSE "gone"
        /\ UNCHANGED <<attempt, relayer, rows>>
    BY <1>2 DEF Crash, Asked
  <2>2. /\ outlived \subseteq outlived'
        /\ call[w] = "record" => \A n \in 1..Attempts : <<w, n>> \in outlived'
    BY <1>2 DEF Crash, InFlight, Asked, Blobs
  <2>3. WriteOK(w)' /\ RowIsReal(w)' /\ StrayOK(w)'
    BY <1>0, <2>1, <2>2 DEF relayer, rows, Good, WriteOK, RowIsReal, StrayOK
  <2>4. \A n \in 1..Attempts : JobOK(w, n)'
    BY <1>0, <2>1, <2>2 DEF relayer, rows, Good, JobOK, Tracked, Live, Running, Behind
  <2>. QED BY <2>3, <2>4 DEF Good
<1>. QED BY <1>1, <1>2 DEF IInv

LEMMA Steps == IInv /\ [Next]_vars => IInv'
<1>. SUFFICES ASSUME IInv, [Next]_vars PROVE IInv'
  OBVIOUS
<1>1. CASE UNCHANGED vars
  <2>1. \A w \in Writes : Same(w)
    BY <1>1 DEF vars, client, loop, relayer, rows, Same
  <2>2. TypeOK'
    BY <1>1 DEF IInv, TypeOK, vars, client, loop, relayer, rows, forgetAll, bounded
  <2>. QED BY <2>1, <2>2, SameStaysGood DEF IInv
<1>2. CASE Next
  BY <1>2, CallingSteps, StraySteps, SettlingSteps, RelayerSteps, HideSteps, ForgetSteps, CrashSteps DEF Next
<1>. QED BY <1>1, <1>2

LEMMA Invariant == Spec => []IInv
BY Initially, Steps, PTL DEF Spec

-----------------------------------------------------------------------------
(* port.ts and persons.ts: whatever lands late, is lost or is cut off, what  *)
(* the user was told has its row, and what a row says the relayer has done.  *)
THEOREM RowsStayTrue == Spec => []RowsAreTrue
<1>1. IInv => RowsAreTrue
  BY DEF IInv, Good, WriteOK, RowIsReal, RowsAreTrue, ToldIsRecorded, StoredRowIsReal, TypeOK
<1>. QED BY <1>1, Invariant, PTL

(* policy.ts, settle: what recall can find and no row leads to, hippo had    *)
(* stopped waiting for, or it was forgotten.                                 *)
THEOREM StrayBlobsAccounted == Spec => []RecallableIsTracked
<1>1. ASSUME IInv, NEW w \in Writes, NEW n \in 1..Attempts, <<w, n>> \in index
      PROVE  Tracked(w, n)
  BY <1>1 DEF IInv, Good, JobOK, Live
<1>2. ASSUME IInv PROVE RecallableIsTracked
  <2>1. ASSUME NEW b \in index
        PROVE  \/ row[b[1]].status = "stored" /\ row[b[1]].blob = b[2]
               \/ row[b[1]].status = "pending" \/ call[b[1]] = "record"
               \/ b \in outlived \/ b[1] \in forgotten
    <3>1. PICK w \in Writes, n \in 0..Attempts : b = <<w, n>>
      BY <1>2, <2>1, WritesAssumption DEF IInv, TypeOK, Blobs, Strays
    <3>2. CASE n = 0
      BY <1>2, <2>1, <3>1, <3>2 DEF IInv, Good, StrayOK
    <3>3. CASE n # 0
      <4>1. Tracked(w, n) /\ b[1] = w /\ b[2] = n
        BY <1>1, <1>2, <2>1, <3>1, <3>3, WritesAssumption
      <4>. QED BY <4>1, <3>1 DEF Tracked
    <3>. QED BY <3>2, <3>3
  <2>. QED BY <2>1 DEF RecallableIsTracked
<1>. QED BY <1>2, Invariant, PTL

(* persons.ts, indexWrites: a row settles once.                              *)
THEOREM SettledForGood == Spec => RowSettlesOnce
<1>. DEFINE Once == \A w \in Writes :
               row[w].status \in {"stored", "failed"}
                 => \/ row'[w] = NoRow /\ ForgetRows
                    \/ row'[w] = [row[w] EXCEPT !.hidden = row'[w].hidden]
<1>1. ASSUME IInv, [Next]_vars PROVE Once
  <2>. SUFFICES ASSUME NEW w \in Writes, row[w].status \in {"stored", "failed"},
                       ~(row'[w] = NoRow /\ ForgetRows)
                PROVE  row'[w] = [row[w] EXCEPT !.hidden = row'[w].hidden]
    OBVIOUS
  <2>1. row[w] = [status |-> row[w].status, blob |-> row[w].blob, hidden |-> row[w].hidden]
    BY <1>1, Shape DEF IInv
  <2>2. call[w] = "told" /\ settle[w] = "indexed" /\ row \in [Writes -> [status : {"none", "pending",
             "stored", "failed"}, blob : 0..Attempts, hidden : BOOLEAN]]
    BY <1>1 DEF IInv, Good, WriteOK, TypeOK
  <2>3. CASE row'[w] = row[w]
    BY <2>1, <2>3
  <2>4. ASSUME NEW hide \in BOOLEAN, SetHidden(w, hide)
        PROVE  row'[w] = [row[w] EXCEPT !.hidden = row'[w].hidden]
    BY <2>1, <2>2, <2>4 DEF SetHidden
  <2>5. ~ForgetRows
    BY DEF ForgetRows
  <2>6. ASSUME NEW u \in Writes, Record(u) PROVE row'[w] = row[w]
    BY <2>2, <2>6 DEF Record
  <2>7. ASSUME NEW u \in Writes, SettleRow(u) PROVE row'[w] = row[w]
    BY <2>2, <2>7 DEF SettleRow, Settled
  <2>8. ASSUME NEW u \in Writes, u # w, NEW hide \in BOOLEAN, SetHidden(u, hide)
        PROVE  row'[w] = row[w]
    BY <2>2, <2>8 DEF SetHidden
  <2>9. ASSUME row' # row
        PROVE  \/ \E u \in Writes : Record(u) \/ SettleRow(u)
               \/ \E u \in Writes, hide \in BOOLEAN : SetHidden(u, hide)
    BY <1>1, <2>5, <2>9 DEF Next, vars, rows, Calling, Settling, Remember, FindDuplicate, Accept,
      TryLost, StrayLands, AcceptFails, RecordFails, JobStored, JobLost, Resubmit, ResubmitFails, SettleRowFails, Land,
      Drop, ForgetAtRelayer, ForgetRowsFails, Crash
  <2>. QED BY <2>3, <2>4, <2>6, <2>7, <2>8, <2>9
<1>2. IInv /\ [Next]_vars => [Once]_vars
  BY <1>1
<1>. QED BY <1>2, Invariant, PTL DEF Spec, RowSettlesOnce

-----------------------------------------------------------------------------
(***************************************************************************)
(* The page that shows the memories (WebMemory), for any facts and any     *)
(* number of clicks and failures.  PanelInv is the inductive invariant:    *)
(* its two halves speak of the cards and of the switch, which share no     *)
(* more than the failures.                                                 *)
(***************************************************************************)

Statuses == {"none", "pending", "stored", "failed"}
CardType == [status : Statuses, hidden : BOOLEAN]
Cards(c) == \A f \in DOMAIN c : c[f] \in CardType
HideType == [fact : Fact, done : BOOLEAN]
PollType == [hook : Hook, fact : Fact, read : BOOLEAN, got : CardType]
There    == {f \in Fact : rowStatus[f] # "none"}

CardShapes ==
  /\ rowStatus \in [Fact -> Statuses]
  /\ Cards(cards) /\ \A l \in loads : l.read => Cards(l.got)
  /\ polls \subseteq PollType
  /\ hides \subseteq HideType
  /\ lost \in BOOLEAN

(* A list that was read leaves out no fact that is shown, so that nothing    *)
(* goes and comes back as if it were new.                                    *)
ListGrows ==
  /\ DOMAIN cards \subseteq There
  /\ \A l \in loads : l.read => DOMAIN cards \subseteq DOMAIN l.got /\ DOMAIN l.got \subseteq There

(* What was hidden here is hidden in what the thread's hook remembers, and   *)
(* unless that shows it, in the list too.                                    *)
HidesKept ==
  /\ \A f \in concealed : f \in DOMAIN over /\ over[f].hidden = TRUE
  /\ ~lost => /\ \A h \in hides : h.fact \in tool \cup DOMAIN cards
              /\ \A f \in concealed : f \in tool \/ (f \in DOMAIN cards /\ cards[f].hidden)

CardsInv == CardShapes /\ ListGrows /\ HidesKept
cardVars == <<rowStatus, tool, over, cards, loads, polls, hides, lost, concealed>>

(* The fetch that counts was asked for after the last change.                *)
MeType     == [latest : BOOLEAN, read : BOOLEAN, got : {"unknown", "on", "off"}]
ToggleType == [stage : {"none", "sent", "back"}, to : {"on", "off"}]
SwitchShapes ==
  /\ mes \subseteq MeType /\ toggle \in ToggleType
  /\ enabled \in {"on", "off"} /\ lost \in BOOLEAN /\ busy \in BOOLEAN
Quiet == ~lost /\ ~busy /\ ask = "none" /\ toggle.stage = "none"
SwitchKept ==
  /\ ask # "none" /\ ~busy => lost
  /\ scenario.switch /\ Quiet =>
       /\ (\E m \in mes : m.latest) \/ me = enabled
       /\ \A m \in mes : m.latest /\ m.read => m.got = enabled

SwitchInv  == SwitchShapes /\ SwitchKept
switchVars == <<scenario, busy, ask, enabled, toggle, me, mes, lost>>

PanelInv == CardsInv /\ SwitchInv

-----------------------------------------------------------------------------
LEMMA PanelInitially == PanelInit => PanelInv
<1>. SUFFICES ASSUME PanelInit PROVE PanelInv
  OBVIOUS
<1>1. /\ DOMAIN cards = {} /\ \A l \in loads : l.read = FALSE
      /\ polls = {} /\ hides = {} /\ concealed = {} /\ lost = FALSE
      /\ rowStatus = [f \in Fact |-> "none"]
  BY DEF PanelInit, Fetch
<1>2. CardsInv
  BY <1>1 DEF CardsInv, CardShapes, Cards, Statuses, ListGrows, HidesKept
<1>3. SwitchInv
  <2>1. MeFetch = [latest |-> TRUE, read |-> FALSE, got |-> "unknown"]
    BY DEF MeFetch
  <2>2. SwitchShapes
    <3>1. /\ \A m \in mes : m = [latest |-> TRUE, read |-> FALSE, got |-> "unknown"]
          /\ toggle = [stage |-> "none", to |-> "on"] /\ enabled = "on"
          /\ lost = FALSE /\ busy = FALSE
      BY <2>1 DEF PanelInit
    <3>2. [latest |-> TRUE, read |-> FALSE, got |-> "unknown"] \in MeType
      BY DEF MeType
    <3>3. [stage |-> "none", to |-> "on"] \in ToggleType
      BY DEF ToggleType
    <3>. QED BY <3>1, <3>2, <3>3 DEF SwitchShapes
  <2>3. scenario.switch => MeFetch \in mes /\ MeFetch.latest = TRUE
    BY <2>1 DEF PanelInit
  <2>4. \A m \in mes : m.read = FALSE
    BY <2>1 DEF PanelInit
  <2>. QED BY <2>2, <2>3, <2>4 DEF SwitchInv, SwitchKept, PanelInit
<1>. QED BY <1>2, <1>3 DEF PanelInv

-----------------------------------------------------------------------------
(* The cards.  What a step that leaves the cards, or the rows, alone keeps.  *)
LEMMA CardsStay == CardsInv /\ UNCHANGED cardVars => CardsInv'
<1>. SUFFICES ASSUME CardsInv, UNCHANGED cardVars PROVE CardsInv'
  OBVIOUS
<1>. USE DEF CardsInv, cardVars
<1>1. CardShapes'
  BY DEF CardShapes, Cards
<1>2. ListGrows'
  BY DEF ListGrows, There
<1>3. HidesKept'
  BY DEF HidesKept
<1>. QED BY <1>1, <1>2, <1>3

(* The cards stay, and of the requests none is new, or none that was         *)
(* answered.                                                                 *)
LEMMA CardsKeep ==
  ASSUME CardsInv, lost' \in {lost, TRUE}, \A l \in loads' : l.read => l \in loads,
         polls' \subseteq PollType,
         hides' \subseteq HideType,
         ~lost' => \A h \in hides' : h.fact \in tool \cup DOMAIN cards,
         tool \subseteq tool', UNCHANGED <<rowStatus, over, cards, concealed>>
  PROVE  CardsInv'
<1>1. CardShapes'
  BY DEF CardsInv, CardShapes, Cards
<1>2. ListGrows'
  BY DEF CardsInv, ListGrows, There
<1>3. HidesKept'
  BY DEF CardsInv, HidesKept, CardShapes
<1>. QED BY <1>1, <1>2, <1>3 DEF CardsInv

LEMMA LoadFailing == CardsInv /\ LoadFails => CardsInv'
<1>. SUFFICES ASSUME CardsInv, LoadFails PROVE CardsInv'
  OBVIOUS
<1>1. /\ loads' = {} /\ DOMAIN cards' = {} /\ lost' = TRUE /\ polls' \subseteq polls
      /\ UNCHANGED <<rowStatus, tool, over, hides, concealed>>
  BY DEF LoadFails, PanelFault, server, thread
<1>. QED BY <1>1 DEF CardsInv, CardShapes, Cards, ListGrows, HidesKept

LEMMA RowsChange == ASSUME NEW f \in Fact, CardsInv, Write(f) \/ Settle(f) PROVE CardsInv'
<1>1. UNCHANGED <<tool, over, cards, loads, polls, hides, lost, concealed>>
  BY DEF Write, Settle, Served, thread, list, history
<1>2. PICK s \in {"pending", "stored", "failed"} : rowStatus' = [rowStatus EXCEPT ![f] = s]
  BY DEF Write, Settle
<1>3. rowStatus' \in [Fact -> Statuses] /\ There \subseteq There'
  BY <1>2 DEF CardsInv, CardShapes, There, Statuses
<1>4. CardShapes'
  BY <1>1, <1>3 DEF CardsInv, CardShapes, Cards
<1>5. ListGrows'
  BY <1>1, <1>3 DEF CardsInv, ListGrows
<1>6. HidesKept'
  BY <1>1 DEF CardsInv, HidesKept
<1>. QED BY <1>4, <1>5, <1>6 DEF CardsInv

LEMMA ResultsArrive == ASSUME NEW f \in Fact, CardsInv, Remembered(f) PROVE CardsInv'
<1>1. tool' = tool \cup {f} /\ UNCHANGED <<rowStatus, over, cards, loads, polls, hides, lost, concealed>>
  BY DEF Remembered, server, list, history
<1>. QED BY <1>1, CardsKeep DEF CardsInv, CardShapes, HidesKept

LEMMA HidesSent == ASSUME NEW f \in Fact, CardsInv, Hide(f) PROVE CardsInv'
<1>1. /\ hides' = hides \cup {[fact |-> f, done |-> FALSE]}
      /\ UNCHANGED <<rowStatus, tool, over, cards, loads, polls, lost, concealed>>
  BY DEF Hide, Click, server, thread, list
<1>2. DOMAIN Panel = tool \cup DOMAIN cards
  BY Zenon DEF Panel
<1>3. f \in tool \cup DOMAIN cards
  BY <1>2 DEF Hide
<1>4. /\ hides' \subseteq HideType
      /\ \A g \in hides' : g \in hides \/ g.fact = f
  <2>1. [fact |-> f, done |-> FALSE] \in HideType /\ [fact |-> f, done |-> FALSE].fact = f
    BY DEF HideType
  <2>. QED BY <1>1, <2>1 DEF CardsInv, CardShapes
<1>. QED BY <1>1, <1>3, <1>4, CardsKeep DEF CardsInv, CardShapes, HidesKept

LEMMA HidesServed == ASSUME NEW h \in hides, CardsInv, ServerHides(h) PROVE CardsInv'
<1>. DEFINE new == [h EXCEPT !.done = TRUE]
<1>1. h \in HideType
  BY DEF CardsInv, CardShapes
<1>2. new \in HideType /\ new.fact = h.fact
  BY <1>1 DEF HideType
<1>3. /\ hides' = (hides \ {h}) \cup {new}
      /\ UNCHANGED <<rowStatus, tool, over, cards, loads, polls, lost, concealed>>
  BY DEF ServerHides, thread, list, history
<1>. HIDE DEF new
<1>4. hides' \subseteq HideType /\ \A g \in hides' : g \in hides \/ g.fact = h.fact
  BY <1>2, <1>3 DEF CardsInv, CardShapes
<1>. QED BY <1>3, <1>4, CardsKeep DEF CardsInv, CardShapes, HidesKept

(* A hide is confirmed: over remembers it, and the list where it is listed.  *)
LEMMA HidesHeard == ASSUME NEW h \in hides, CardsInv, HideHeard(h) PROVE CardsInv'
<1>. DEFINE f == h.fact
<1>1. /\ hides' \subseteq hides /\ polls' \subseteq polls /\ concealed' = concealed \cup {f}
      /\ UNCHANGED <<rowStatus, tool, loads, lost>>
  BY DEF HideHeard, server
<1>2. DOMAIN over' = DOMAIN over \cup {f} /\ over'[f].hidden = TRUE
      /\ \A g \in DOMAIN over : g # f => over'[g] = over[g]
  BY DEF HideHeard, Extend, Card
<1>3. /\ DOMAIN cards' = DOMAIN cards
      /\ \A g \in DOMAIN cards :
           cards'[g] = IF g = f THEN [cards[g] EXCEPT !.hidden = TRUE] ELSE cards[g]
  BY DEF HideHeard
<1>4. ASSUME NEW c \in CardType
      PROVE  [c EXCEPT !.hidden = TRUE] \in CardType /\ [c EXCEPT !.hidden = TRUE].hidden = TRUE
  BY DEF CardType
<1>5. \A g \in DOMAIN cards :
        cards'[g] \in CardType /\ (g # f => cards'[g] = cards[g]) /\ (g = f => cards'[g].hidden = TRUE)
  BY <1>3, <1>4 DEF CardsInv, CardShapes, Cards
<1>6. CardShapes'
  BY <1>1, <1>3, <1>5 DEF CardsInv, CardShapes, Cards
<1>7. ListGrows'
  BY <1>1, <1>3 DEF CardsInv, ListGrows, There
<1>8. HidesKept'
  BY <1>1, <1>2, <1>3, <1>5 DEF CardsInv, HidesKept
<1>. QED BY <1>6, <1>7, <1>8 DEF CardsInv

LEMMA PageReloads == CardsInv /\ Reload => CardsInv'
<1>. SUFFICES ASSUME CardsInv, Reload PROVE CardsInv'
  OBVIOUS
<1>1. /\ DOMAIN cards' = {} /\ \A l \in loads' : l.read = FALSE
      /\ polls' = {} /\ hides' = {} /\ concealed' = {} /\ lost' \in BOOLEAN /\ rowStatus' = rowStatus
  BY DEF Reload, Fetch, CardsInv, CardShapes
<1>. QED BY <1>1 DEF CardsInv, CardShapes, Cards, ListGrows, HidesKept

LEMMA ListRead == ASSUME NEW l \in loads, CardsInv, ReadList(l) PROVE CardsInv'
<1>. DEFINE got == [f \in There |-> Now(f)]
<1>1. /\ loads' = {[read |-> TRUE, got |-> got]}
      /\ UNCHANGED <<rowStatus, tool, over, cards, polls, hides, lost, concealed>>
  BY DEF ReadList, There, server, thread, history
<1>2. \A f \in Fact : Now(f) \in CardType
  BY DEF Now, Card, CardType, CardsInv, CardShapes
<1>3. DOMAIN got = There /\ Cards(got)
  BY <1>2 DEF Cards, There
<1>. HIDE DEF got
<1>4. CardShapes'
  BY <1>1, <1>3 DEF CardsInv, CardShapes, Cards
<1>5. ListGrows'
  BY <1>1, <1>3 DEF CardsInv, ListGrows, There
<1>6. HidesKept'
  BY <1>1 DEF CardsInv, HidesKept
<1>. QED BY <1>4, <1>5, <1>6 DEF CardsInv

(* The list takes over what was hidden from the one it replaces.             *)
LEMMA ListArrives == ASSUME NEW l \in loads, CardsInv, Loaded(l) PROVE CardsInv'
<1>1. /\ loads' = {} /\ polls' \subseteq polls
      /\ UNCHANGED <<rowStatus, tool, over, hides, lost, concealed>>
  BY DEF Loaded, server, thread, history
<1>2. Cards(l.got) /\ DOMAIN cards \subseteq DOMAIN l.got /\ DOMAIN l.got \subseteq There
  BY DEF Loaded, CardsInv, CardShapes, ListGrows
<1>3. /\ DOMAIN cards' = DOMAIN l.got
      /\ \A f \in DOMAIN l.got :
           cards'[f] = IF f \in DOMAIN cards THEN Merged(cards[f], l.got[f]) ELSE l.got[f]
  BY DEF Loaded
<1>4. ASSUME NEW old \in CardType, NEW new \in CardType
      PROVE  Merged(old, new) \in CardType /\ (old.hidden => Merged(old, new).hidden)
  BY DEF Merged, Card, CardType
<1>5. \A f \in DOMAIN l.got : cards'[f] \in CardType
  BY <1>2, <1>3, <1>4 DEF Cards, CardsInv, CardShapes
<1>6. \A f \in DOMAIN cards : cards[f].hidden => cards'[f].hidden
  BY <1>2, <1>3, <1>4 DEF Cards, CardsInv, CardShapes
<1>7. CardShapes'
  BY <1>1, <1>3, <1>5 DEF CardsInv, CardShapes, Cards
<1>8. ListGrows'
  BY <1>1, <1>2, <1>3 DEF ListGrows, There
<1>9. HidesKept'
  BY <1>1, <1>2, <1>3, <1>6 DEF CardsInv, HidesKept
<1>. QED BY <1>7, <1>8, <1>9 DEF CardsInv

LEMMA PollsGo ==
  ASSUME CardsInv, NEW h \in Hook, NEW f \in Fact,
         Poll(h, f) \/ Age(h, f) \/ (\E p \in polls : ReadStatus(p))
  PROVE  CardsInv'
<1>1. UNCHANGED <<rowStatus, tool, over, cards, loads, hides, lost, concealed>>
  BY DEF Poll, Age, ReadStatus, server, thread, list, history
<1>2. polls \subseteq PollType /\ \A g \in Fact : Now(g) \in CardType
  BY DEF Now, Card, CardType, CardsInv, CardShapes
<1>3. polls' \subseteq PollType
  <2>1. CASE Poll(h, f)
    <3>1. polls' = polls \cup {[hook |-> h, fact |-> f, read |-> FALSE,
                               got |-> [status |-> "none", hidden |-> FALSE]]}
      BY <2>1 DEF Poll, Card
    <3>2. [status |-> "none", hidden |-> FALSE] \in CardType
      BY DEF CardType, Statuses
    <3>3. \A p \in polls' : p \in polls \/ p = [hook |-> h, fact |-> f, read |-> FALSE,
                                              got |-> [status |-> "none", hidden |-> FALSE]]
      BY <3>1
    <3>4. [hook |-> h, fact |-> f, read |-> FALSE,
           got |-> [status |-> "none", hidden |-> FALSE]] \in PollType
      BY <3>2 DEF PollType
    <3>. QED BY <1>2, <3>3, <3>4
  <2>2. CASE Age(h, f)
    BY <1>2, <2>2 DEF Age
  <2>3. ASSUME NEW p \in polls, ReadStatus(p) PROVE polls' \subseteq PollType
    <3>. DEFINE new == [p EXCEPT !.read = TRUE, !.got = Now(p.fact)]
    <3>1. p \in PollType /\ Now(p.fact) \in CardType
      BY <1>2 DEF PollType
    <3>2. new \in PollType
      BY <3>1 DEF PollType
    <3>3. polls' = (polls \ {p}) \cup {new}
      BY <2>3 DEF ReadStatus
    <3>. HIDE DEF new
    <3>. QED BY <1>2, <3>2, <3>3
  <2>. QED BY <2>1, <2>2, <2>3
<1>. QED BY <1>1, <1>3, CardsKeep DEF CardsInv, CardShapes, HidesKept

LEMMA ThreadHears == ASSUME NEW p \in polls, CardsInv, HeardThread(p) PROVE CardsInv'
<1>1. polls' \subseteq polls /\ UNCHANGED <<rowStatus, tool, cards, loads, hides, lost, concealed>>
  BY DEF HeardThread, server, list, history
<1>2. /\ DOMAIN over' = DOMAIN over \cup {p.fact}
      /\ \A g \in DOMAIN over : g # p.fact => over'[g] = over[g]
      /\ p.fact \in DOMAIN over =>
           over'[p.fact].hidden = (p.got.hidden \/ over[p.fact].hidden)
  BY DEF HeardThread, Extend, Card
<1>3. \A f \in concealed : f \in DOMAIN over' /\ over'[f].hidden = TRUE
  BY <1>2 DEF CardsInv, HidesKept
<1>4. CardShapes'
  BY <1>1 DEF CardsInv, CardShapes, Cards
<1>5. ListGrows'
  BY <1>1 DEF CardsInv, ListGrows, There
<1>6. HidesKept'
  BY <1>1, <1>3 DEF CardsInv, HidesKept
<1>. QED BY <1>4, <1>5, <1>6 DEF CardsInv

LEMMA ListHears == ASSUME NEW p \in polls, CardsInv, HeardList(p) PROVE CardsInv'
<1>1. polls' \subseteq polls /\ UNCHANGED <<rowStatus, tool, over, hides, lost, concealed>>
  BY DEF HeardList, server, thread, history
<1>2. /\ DOMAIN cards' = DOMAIN cards
      /\ \A g \in DOMAIN cards : g # p.fact => cards'[g] = cards[g]
      /\ p.fact \in DOMAIN cards =>
           cards'[p.fact] = [status |-> p.got.status, hidden |-> cards[p.fact].hidden \/ p.got.hidden]
  BY DEF HeardList, Card
<1>3. p.got \in CardType
  BY DEF CardsInv, CardShapes, PollType
<1>4. \A g \in DOMAIN cards : cards'[g] \in CardType /\ (cards[g].hidden => cards'[g].hidden)
  BY <1>2, <1>3 DEF CardType, CardsInv, CardShapes, Cards
<1>5. \A l \in loads' : l.read => l \in loads
  BY DEF HeardList, Fetch
<1>6. CardShapes'
  BY <1>1, <1>2, <1>4, <1>5 DEF CardsInv, CardShapes, Cards
<1>7. ListGrows'
  BY <1>1, <1>2, <1>5 DEF CardsInv, ListGrows, There
<1>8. HidesKept'
  BY <1>1, <1>2, <1>4 DEF CardsInv, HidesKept
<1>. QED BY <1>6, <1>7, <1>8 DEF CardsInv

LEMMA RequestsFail == CardsInv /\ Fails => CardsInv'
<1>. SUFFICES ASSUME CardsInv, Fails PROVE CardsInv'
  OBVIOUS
<1>1. /\ polls' \subseteq polls /\ hides' \subseteq hides /\ lost' = TRUE
      /\ UNCHANGED <<rowStatus, tool, over, cards, loads, concealed>>
  BY DEF Fails, PanelFault, server, thread, list
<1>. QED BY <1>1, CardsKeep DEF CardsInv, CardShapes

LEMMA CardsStep == CardsInv /\ [PanelNext]_panelVars => CardsInv'
<1>. SUFFICES ASSUME CardsInv, [PanelNext]_panelVars PROVE CardsInv'
  OBVIOUS
<1>1. CASE \/ Ask \/ Serve \/ Toggle \/ ToggleHeard \/ SetMemory \/ (\E f \in Fact : Unhide(f))
           \/ (\E m \in mes : ReadMe(m) \/ GotMe(m)) \/ UNCHANGED panelVars
  <2>1. UNCHANGED cardVars
    BY <1>1 DEF Ask, Serve, Toggle, ToggleHeard, SetMemory, Unhide, ReadMe, GotMe, Click, panelVars,
                cardVars, server, thread, list, history
  <2>. QED BY <2>1, CardsStay
<1>2. CASE AnswerEnds \/ Stop
  <2>1. /\ loads' = {Fetch} /\ lost' \in {lost, TRUE}
        /\ UNCHANGED <<rowStatus, tool, over, cards, polls, hides, concealed>>
    BY <1>2 DEF AnswerEnds, Stop, Idle, LoadAgain, PanelFault, thread, history
  <2>2. \A l \in loads' : l.read => l \in loads
    BY <2>1 DEF Fetch
  <2>. QED BY <2>1, <2>2, CardsKeep DEF CardsInv, CardShapes, HidesKept
<1>3. CASE Reload \/ LoadFails \/ Fails
  BY <1>3, PageReloads, LoadFailing, RequestsFail
<1>4. CASE \E f \in Fact : Write(f) \/ Settle(f) \/ Remembered(f) \/ Hide(f)
  BY <1>4, RowsChange, ResultsArrive, HidesSent
<1>5. CASE \E h \in hides : ServerHides(h) \/ HideHeard(h)
  BY <1>5, HidesServed, HidesHeard
<1>6. CASE \E h \in Hook, f \in Fact : Poll(h, f) \/ Polling(h, f) \/ Age(h, f)
  BY <1>6, PollsGo, ThreadHears, ListHears DEF Polling
<1>7. CASE Listing
  BY <1>7, ListRead, ListArrives DEF Listing
<1>. QED BY <1>1, <1>2, <1>3, <1>4, <1>5, <1>6, <1>7 DEF PanelNext

-----------------------------------------------------------------------------
(* The switch.                                                               *)
LEMMA SwitchStays == SwitchInv /\ UNCHANGED switchVars => SwitchInv'
<1>. SUFFICES ASSUME SwitchInv, UNCHANGED switchVars PROVE SwitchInv'
  OBVIOUS
<1>. USE DEF SwitchInv, switchVars
<1>1. SwitchShapes'
  BY DEF SwitchShapes
<1>2. SwitchKept'
  BY DEF SwitchKept, Quiet
<1>. QED BY <1>1, <1>2

(* A fetch of its own makes the switch current, whatever is under way.       *)
LEMMA SwitchAsked ==
  ASSUME SwitchInv, LoadMe,
         toggle' \in ToggleType,
         busy' \in BOOLEAN, lost' \in BOOLEAN, ask' # "none" /\ ~busy' => lost',
         UNCHANGED <<scenario, enabled>>
  PROVE  SwitchInv'
<1>1. MeFetch \in MeType /\ MeFetch.latest = TRUE /\ MeFetch.read = FALSE
  BY DEF MeFetch, MeType
<1>2. \A m \in mes : [m EXCEPT !.latest = FALSE] \in MeType /\ [m EXCEPT !.latest = FALSE].latest = FALSE
  <2>. SUFFICES ASSUME NEW m \in mes
                PROVE  /\ [m EXCEPT !.latest = FALSE] \in MeType
                       /\ [m EXCEPT !.latest = FALSE].latest = FALSE
    OBVIOUS
  <2>1. m \in MeType
    BY DEF SwitchInv, SwitchShapes
  <2>. QED BY <2>1 DEF MeType
<1>3. \A m \in mes' : m = MeFetch \/ \E n \in mes : m = [n EXCEPT !.latest = FALSE]
  BY DEF LoadMe
<1>4. scenario.switch => MeFetch \in mes'
  BY DEF LoadMe
<1>5. \A m \in mes' : m \in MeType /\ (m.latest => ~m.read)
  BY <1>1, <1>2, <1>3
<1>. QED BY <1>1, <1>4, <1>5 DEF SwitchInv, SwitchShapes, SwitchKept, Quiet

LEMMA SwitchReloads == SwitchInv /\ Reload => SwitchInv'
<1>. SUFFICES ASSUME SwitchInv, Reload PROVE SwitchInv'
  OBVIOUS
<1>1. /\ lost' = (lost \/ busy \/ toggle.stage = "sent" \/ hides # {})
      /\ busy' = FALSE /\ ask' = (IF ask = "done" THEN "none" ELSE ask)
      /\ \A m \in mes' : m = [latest |-> TRUE, read |-> FALSE, got |-> "unknown"]
      /\ scenario.switch => [latest |-> TRUE, read |-> FALSE, got |-> "unknown"] \in mes'
      /\ toggle' = [stage |-> "none", to |-> "on"] /\ enabled' = enabled /\ scenario' = scenario
  BY DEF Reload, MeFetch, Event
<1>2. lost \in BOOLEAN /\ busy \in BOOLEAN /\ (ask # "none" /\ ~busy => lost)
  BY DEF SwitchInv, SwitchShapes, SwitchKept
<1>3. lost' \in BOOLEAN /\ (ask' # "none" /\ ~busy' => lost')
  BY <1>1, <1>2
<1>4. SwitchShapes'
  <2>1. [latest |-> TRUE, read |-> FALSE, got |-> "unknown"] \in MeType
    BY DEF MeType
  <2>2. [stage |-> "none", to |-> "on"] \in ToggleType
    BY DEF ToggleType
  <2>. QED BY <1>1, <1>3, <2>1, <2>2 DEF SwitchInv, SwitchShapes
<1>5. SwitchKept'
  BY <1>1, <1>3 DEF SwitchKept
<1>. QED BY <1>4, <1>5 DEF SwitchInv

LEMMA SwitchFails == SwitchInv /\ (Fails \/ LoadFails) => SwitchInv'
<1>. SUFFICES ASSUME SwitchInv, Fails \/ LoadFails PROVE SwitchInv'
  OBVIOUS
<1>1. /\ lost' = TRUE /\ mes' \subseteq mes /\ UNCHANGED <<scenario, busy, ask, enabled, me>>
      /\ toggle' = toggle \/ toggle' = [toggle EXCEPT !.stage = "none"]
  BY DEF Fails, LoadFails, PanelFault, Event, server, switch
<1>2. [toggle EXCEPT !.stage = "none"] \in ToggleType
  BY DEF SwitchInv, SwitchShapes, ToggleType
<1>3. toggle' \in ToggleType
  BY <1>1, <1>2 DEF SwitchInv, SwitchShapes
<1>4. SwitchShapes'
  BY <1>1, <1>3 DEF SwitchInv, SwitchShapes
<1>5. SwitchKept'
  BY <1>1 DEF SwitchKept, Quiet
<1>. QED BY <1>4, <1>5 DEF SwitchInv

LEMMA SwitchWaits ==
  ASSUME SwitchInv, Ask \/ Serve \/ Toggle \/ SetMemory
  PROVE  SwitchInv'
<1>1. toggle \in ToggleType
  BY DEF SwitchInv, SwitchShapes
<1>2. UNCHANGED <<scenario, mes, me, lost>>
  BY DEF Ask, Serve, Toggle, SetMemory, Click, Event, switch, history
<1>3. CASE Ask
  <2>1. busy' = TRUE /\ UNCHANGED <<enabled, toggle>>
    BY <1>3 DEF Ask, switch
  <2>. QED BY <1>2, <2>1 DEF SwitchInv, SwitchShapes, SwitchKept, Quiet
<1>4. CASE Serve
  <2>1. /\ ask = "sent" /\ ask' = (IF busy THEN "done" ELSE "none") /\ enabled' \in {enabled, "on", "off"}
        /\ UNCHANGED <<busy, toggle>>
    BY <1>4 DEF Serve, switch
  <2>. QED BY <1>2, <2>1 DEF SwitchInv, SwitchShapes, SwitchKept, Quiet
<1>5. CASE Toggle
  <2>1. toggle' = [stage |-> "sent", to |-> IF me = "on" THEN "off" ELSE "on"]
        /\ UNCHANGED <<ask, busy, enabled>>
    BY <1>5 DEF Toggle, server
  <2>2. toggle' \in ToggleType /\ toggle'.stage = "sent"
    BY <2>1 DEF ToggleType
  <2>. QED BY <1>2, <2>1, <2>2 DEF SwitchInv, SwitchShapes, SwitchKept, Quiet
<1>6. CASE SetMemory
  <2>1. /\ toggle' = [toggle EXCEPT !.stage = "back"] /\ enabled' = toggle.to
        /\ UNCHANGED <<ask, busy>>
    BY <1>6 DEF SetMemory
  <2>2. toggle' \in ToggleType /\ toggle'.stage = "back" /\ toggle.to \in {"on", "off"}
    BY <1>1, <2>1 DEF ToggleType
  <2>. QED BY <1>2, <2>1, <2>2 DEF SwitchInv, SwitchShapes, SwitchKept, Quiet
<1>. QED BY <1>3, <1>4, <1>5, <1>6

LEMMA SwitchRead == ASSUME NEW m \in mes, SwitchInv, ReadMe(m) PROVE SwitchInv'
<1>. DEFINE n == [m EXCEPT !.read = TRUE, !.got = enabled]
<1>1. m \in MeType /\ enabled \in {"on", "off"}
  BY DEF SwitchInv, SwitchShapes
<1>2. mes' = (mes \ {m}) \cup {n}
  BY DEF ReadMe
<1>3. UNCHANGED <<scenario, busy, ask, enabled, me, toggle, lost>>
  BY DEF ReadMe, server, history
<1>4. n \in MeType /\ n.latest = m.latest /\ n.got = enabled
  BY <1>1 DEF MeType
<1>. HIDE DEF n
<1>5. SwitchShapes'
  BY <1>2, <1>3, <1>4 DEF SwitchInv, SwitchShapes
<1>6. SwitchKept'
  BY <1>2, <1>3, <1>4 DEF SwitchInv, SwitchKept, Quiet
<1>. QED BY <1>5, <1>6 DEF SwitchInv

LEMMA SwitchHeard == ASSUME NEW m \in mes, SwitchInv, GotMe(m) PROVE SwitchInv'
<1>1. /\ m.read /\ mes' = mes \ {m} /\ me' = (IF m.latest THEN m.got ELSE me)
      /\ UNCHANGED <<scenario, busy, ask, enabled, toggle, lost>>
  BY DEF GotMe, server, history
<1>2. SwitchShapes'
  BY <1>1 DEF SwitchInv, SwitchShapes
<1>3. SwitchKept'
  BY <1>1 DEF SwitchInv, SwitchKept, Quiet
<1>. QED BY <1>2, <1>3 DEF SwitchInv

LEMMA SwitchStep == SwitchInv /\ [PanelNext]_panelVars => SwitchInv'
<1>. SUFFICES ASSUME SwitchInv, [PanelNext]_panelVars PROVE SwitchInv'
  OBVIOUS
<1>1. CASE \/ \E f \in Fact : Write(f) \/ Settle(f) \/ Remembered(f) \/ Hide(f) \/ Unhide(f)
           \/ \E h \in hides : ServerHides(h) \/ HideHeard(h)
           \/ \E h \in Hook, f \in Fact : Poll(h, f) \/ Age(h, f)
           \/ \E p \in polls : ReadStatus(p) \/ HeardThread(p)
           \/ Listing \/ UNCHANGED panelVars
  <2>1. UNCHANGED switchVars
    BY <1>1 DEF Write, Settle, Served, Remembered, Hide, Unhide, ServerHides, HideHeard, Poll, Age,
                ReadStatus, HeardThread, Listing, ReadList, Loaded, Click, Event, panelVars, switchVars,
                server, thread, list, switch, history
  <2>. QED BY <2>1, SwitchStays
<1>2. ASSUME NEW p \in polls, HeardList(p) PROVE SwitchInv'
  <2>1. UNCHANGED <<scenario, enabled, busy, ask, lost, toggle>> /\ (LoadMe \/ UNCHANGED <<me, mes>>)
    BY <1>2 DEF HeardList, server, history
  <2>2. CASE LoadMe
    BY <2>1, <2>2, SwitchAsked DEF SwitchInv, SwitchShapes, SwitchKept
  <2>3. CASE UNCHANGED <<me, mes>>
    BY <2>1, <2>3, SwitchStays DEF switchVars
  <2>. QED BY <2>1, <2>2, <2>3
<1>3. CASE AnswerEnds \/ Stop
  <2>1. /\ LoadMe /\ UNCHANGED <<scenario, enabled, toggle>> /\ busy' = FALSE
        /\ (ask' = "none" /\ lost' = lost) \/ lost' = TRUE
    BY <1>3 DEF AnswerEnds, Stop, Idle, PanelFault, Event, history
  <2>. QED BY <2>1, SwitchAsked DEF SwitchInv, SwitchShapes
<1>4. CASE ToggleHeard
  <2>1. /\ LoadMe /\ UNCHANGED <<scenario, enabled, busy, ask, lost>>
        /\ toggle' = [toggle EXCEPT !.stage = "none"]
    BY <1>4 DEF ToggleHeard, server, history
  <2>2. toggle' \in ToggleType
    BY <2>1 DEF SwitchInv, SwitchShapes, ToggleType
  <2>. QED BY <2>1, <2>2, SwitchAsked DEF SwitchInv, SwitchShapes, SwitchKept
<1>5. CASE Reload \/ Fails \/ LoadFails \/ Ask \/ Serve \/ Toggle \/ SetMemory
  BY <1>5, SwitchReloads, SwitchFails, SwitchWaits
<1>6. CASE \E m \in mes : ReadMe(m) \/ GotMe(m)
  BY <1>6, SwitchRead, SwitchHeard
<1>. QED BY <1>1, <1>2, <1>3, <1>4, <1>5, <1>6 DEF PanelNext, Polling

LEMMA PanelInvariant == PanelSpec => []PanelInv
<1>1. PanelInv /\ [PanelNext]_panelVars => PanelInv'
  BY CardsStep, SwitchStep DEF PanelInv
<1>. QED BY <1>1, PanelInitially, PTL DEF PanelSpec

(* use-remembered.ts, use-chat-memories.ts and mergeCards: a memory hidden   *)
(* on this page is shown as hidden from then on, over lists, status polls    *)
(* and tool results in any order, unless a request failed.                   *)
THEOREM HiddenAlwaysStays == PanelSpec => []HiddenStays
<1>1. CardsInv => HiddenStays
  <2>. SUFFICES ASSUME CardsInv, ~lost, NEW f \in concealed, f \in DOMAIN Panel PROVE Panel[f].hidden
    BY DEF HiddenStays
  <2>. DEFINE mine == CardsOf("thread")
  <2>1. f \in DOMAIN over /\ over[f].hidden = TRUE
    BY DEF CardsInv, HidesKept
  <2>2. f \in tool => mine[f] = over[f]
    BY <2>1 DEF CardsOf
  <2>. HIDE DEF mine
  <2>3. /\ f \in tool \cup DOMAIN cards
        /\ f \notin DOMAIN cards => Panel[f] = mine[f]
        /\ f \in DOMAIN cards =>
             Panel[f] = [cards[f] EXCEPT !.hidden = @ \/ (f \in tool /\ mine[f].hidden)]
    BY DEF Panel, mine
  <2>4. f \in tool \/ (f \in DOMAIN cards /\ cards[f].hidden)
    BY DEF CardsInv, HidesKept
  <2>5. CASE f \notin DOMAIN cards
    BY <2>1, <2>2, <2>3, <2>5
  <2>6. CASE f \in DOMAIN cards
    <3>. DEFINE said == cards[f].hidden \/ (f \in tool /\ mine[f].hidden)
    <3>1. cards[f] \in CardType
      BY <2>6 DEF CardsInv, CardShapes, Cards
    <3>2. Panel[f].hidden = said
      BY <2>3, <2>6, <3>1 DEF CardType
    <3>. QED BY <2>1, <2>2, <2>4, <3>2
  <2>. QED BY <2>5, <2>6
<1>. QED BY <1>1, PanelInvariant, PTL DEF PanelInv

(* use-me.ts and use-memory-toggle.ts: when nothing is under way the switch  *)
(* shows whether memory is on, unless a request failed or was not waited     *)
(* for.                                                                      *)
THEOREM SwitchAlwaysCurrent == PanelSpec => []SwitchIsCurrent
<1>1. SwitchInv => SwitchIsCurrent
  BY DEF SwitchInv, SwitchKept, Quiet, SwitchIsCurrent
<1>. QED BY <1>1, PanelInvariant, PTL DEF PanelInv
=============================================================================
