---------------------------- MODULE MemoryWrites ----------------------------
(***************************************************************************)
(* One person's memory in one relayer namespace: what hippo told them was  *)
(* saved, what memory_index says, and what recall can find.                *)
(*                                                                         *)
(*   packages/memory/src/port.ts      createMemoryPort: remember, recall   *)
(*   packages/memory/src/policy.ts    rememberWithDedupe and its settle    *)
(*   apps/server/src/identity/persons.ts   indexWrites, setHidden          *)
(*   apps/server/src/chat/commands.ts      forget (/memory forget all)     *)
(*                                                                         *)
(* A write is one call of port.remember.  It has two threads of control:   *)
(* the call itself (`call`), which ends when the user is told, and the     *)
(* settle loop (`settle`), which goes on in the background.  The relayer   *)
(* is external: it accepts a submission as a job and, at any later time,   *)
(* lands it as a blob that recall can find, or drops it.  Blob <<w, n>> is *)
(* what the n-th submission of write w becomes.  A submission is several   *)
(* tries (limiter.ts, runLimited): one that the relayer accepted although  *)
(* its answer was lost is a job that hippo has no id for, and <<w, 0>> is  *)
(* what such tries of w become.                                            *)
(***************************************************************************)
EXTENDS Naturals, FiniteSets

CONSTANTS
  Writes,    (* the calls of port.remember                                   *)
  Attempts,  (* WRITE_ATTEMPTS, submissions of one write             (3)     *)
  Faults,    (* bound: restarts, statements the database refuses, answers of *)
             (* the relayer that are lost                                    *)
  Forgets    (* bound: runs of /memory forget all                            *)

ASSUME WritesAssumption ==
  /\ IsFiniteSet(Writes)
  /\ Attempts \in Nat \ {0}
  /\ Faults \in Nat /\ Forgets \in Nat

VARIABLES
  ignore,    (* hidden blobs as the write's port read them when it was built *)
  call,      (* where the call of remember is                                *)
  settle,    (* where the settle loop is                                     *)
  attempt,   (* submissions the settle loop has counted                      *)
  job,       (* the relayer's state of each submission                       *)
  stray,     (* jobs of each write at the relayer that hippo has no id for   *)
  index,     (* blobs recall can find                                        *)
  row,       (* memory_index, one row per write, keyed by the first job id   *)
  told,      (* history: writes reported saved and not forgotten since       *)
  forgotten, (* history: writes reported saved before a forget all ended     *)
  outlived,  (* history: submissions nobody waits for any more               *)
  forgetting,(* /memory forget all: between the relayer call and the delete  *)
  faults, forgets, unheard

loop      == <<settle, attempt>>
client    == <<ignore, call, loop>>
relayer   == <<job, stray, index>>
rows      == <<row, told, forgotten>>
forgetAll == <<forgetting, forgets>>
bounded   == <<faults, unheard>>
vars      == <<client, relayer, rows, forgetAll, outlived, bounded>>

Blobs  == Writes \X (1..Attempts)
Strays == Writes \X {0}

NoRow       == [status |-> "none", blob |-> 0, hidden |-> FALSE]
Row(s, n)   == [status |-> s, blob |-> n, hidden |-> FALSE]
HiddenBlobs == {b \in Blobs : row[b[1]].blob = b[2] /\ row[b[1]].hidden}

(* What a recall through a port built now would return: it filters by the    *)
(* hidden set, and nothing else in hippo stands between it and the index.    *)
Recallable == index \ HiddenBlobs

Submitted(w, n) == job' = [job EXCEPT ![w][n] = "queued"]

MayFail == faults + unheard < Faults
Fault   == MayFail /\ faults' = faults + 1 /\ unheard' = unheard

-----------------------------------------------------------------------------
(* portFor reads the hidden set; remember then starts its dedupe recall.     *)
Remember(w) ==
  /\ call[w] = "idle"
  /\ ignore' = [ignore EXCEPT ![w] = HiddenBlobs]
  /\ call' = [call EXCEPT ![w] = "dedupe"]
  /\ UNCHANGED <<loop, relayer, rows, outlived, forgetAll, bounded>>

(* The recall finds something near that was not hidden when the port was     *)
(* built: nothing is written, saved: false.                                  *)
FindDuplicate(w) ==
  /\ call[w] = "dedupe"
  /\ index \ ignore[w] # {}
  /\ call' = [call EXCEPT ![w] = "duplicate"]
  /\ UNCHANGED <<ignore, loop, relayer, rows, outlived, forgetAll, bounded>>

(* Nothing near, the three nearest hidden, or the check could not run        *)
(* ("write anyway"): the text is submitted.  In runLimited a try may be      *)
(* accepted although what comes back is an upstream error or nothing: it is  *)
(* tried again (502, 503, 504) or given up, and no one will ever ask for the *)
(* job of this try.                                                          *)
Submitting(w) == call[w] \in {"dedupe", "again"}

TryLost(w) ==
  /\ Submitting(w) \/ settle[w] = "pause"
  /\ MayFail
  /\ unheard' = unheard + 1
  /\ call' = IF Submitting(w) THEN [call EXCEPT ![w] = "again"] ELSE call
  /\ stray' = [stray EXCEPT ![w] = @ + 1]
  /\ outlived' = outlived \cup {<<w, 0>>}
  /\ UNCHANGED <<ignore, loop, job, index, rows, forgetAll, faults>>

(* A try is answered: there is a job id, and the settle loop starts.         *)
Accept(w) ==
  /\ Submitting(w)
  /\ call' = [call EXCEPT ![w] = "record"]
  /\ settle' = [settle EXCEPT ![w] = "wait"]
  /\ attempt' = [attempt EXCEPT ![w] = 1]
  /\ Submitted(w, 1)
  /\ UNCHANGED <<ignore, stray, index, rows, outlived, forgetAll, bounded>>

(* The last try threw, or one that is not worth repeating: remember rejects. *)
(* What an earlier try left at the relayer stays there.                      *)
AcceptFails(w) ==
  /\ Submitting(w)
  /\ call' = [call EXCEPT ![w] = "error"]
  /\ UNCHANGED <<ignore, loop, relayer, rows, outlived, forgetAll, bounded>>

(* onWrite "accepted" inserts the pending row, then remember returns saved.  *)
Record(w) ==
  /\ call[w] = "record"
  /\ row' = [row EXCEPT ![w] = Row("pending", 0)]
  /\ told' = told \cup {w}
  /\ call' = [call EXCEPT ![w] = "told"]
  /\ UNCHANGED <<ignore, loop, relayer, forgotten, outlived, forgetAll, bounded>>

(* The insert threw: remember rejects, but the settle loop is already        *)
(* running and nothing will record what it stores.                           *)
RecordFails(w) ==
  /\ call[w] = "record"
  /\ call' = [call EXCEPT ![w] = "error"]
  /\ outlived' = outlived \cup {<<w, n>> : n \in 1..Attempts}
  /\ Fault
  /\ UNCHANGED <<ignore, loop, relayer, rows, forgetAll>>

-----------------------------------------------------------------------------
(* Mutant: an answer is taken for a stored memory before the job has landed. *)
JobStored_Early(w) ==
  /\ settle[w] = "wait"
  /\ settle' = [settle EXCEPT ![w] = "stored"]
  /\ UNCHANGED <<ignore, call, attempt, relayer, rows, outlived, forgetAll, bounded>>

(* waitForRememberJob resolves with the blob of the current submission.      *)
JobStored(w) ==
  /\ settle[w] = "wait"
  /\ job[w][attempt[w]] = "landed"
  /\ settle' = [settle EXCEPT ![w] = "stored"]
  /\ UNCHANGED <<ignore, call, attempt, relayer, rows, outlived, forgetAll, bounded>>

(* Mutant: the row is called failed at the first attempt that is lost, and   *)
(* the loop goes on.                                                         *)
JobLost_Reports(w) ==
  /\ settle[w] = "wait"
  /\ settle' = [settle EXCEPT ![w] = IF attempt[w] < Attempts THEN "pause" ELSE "failed"]
  /\ outlived' = outlived \cup {<<w, attempt[w]>>}
  /\ row' = IF row[w].status = "none" THEN row ELSE [row EXCEPT ![w].status = "failed"]
  /\ UNCHANGED <<ignore, call, attempt, relayer, told, forgotten, forgetAll, bounded>>

(* It throws: the job was dropped, or hippo lost sight of it (a timeout, a   *)
(* poll that fails, no blob id in the answer) whatever became of it.  The    *)
(* last attempt ends the loop.                                               *)
JobLost(w) ==
  /\ settle[w] = "wait"
  /\ settle' = [settle EXCEPT ![w] = IF attempt[w] < Attempts THEN "pause" ELSE "failed"]
  /\ outlived' = IF job[w][attempt[w]] = "dropped" THEN outlived
                 ELSE outlived \cup {<<w, attempt[w]>>}
  /\ UNCHANGED <<ignore, call, attempt, relayer, rows, forgetAll, bounded>>

(* After the backoff the text is submitted again, and a try is answered.     *)
Resubmit(w) ==
  /\ settle[w] = "pause"
  /\ attempt' = [attempt EXCEPT ![w] = @ + 1]
  /\ settle' = [settle EXCEPT ![w] = "wait"]
  /\ Submitted(w, attempt[w] + 1)
  /\ UNCHANGED <<ignore, call, stray, index, rows, outlived, forgetAll, bounded>>

(* Mutant: the resubmission's error escapes the loop, and nothing follows.   *)
ResubmitFails_Escapes(w) ==
  /\ settle[w] = "pause"
  /\ settle' = [settle EXCEPT ![w] = "gone"]
  /\ UNCHANGED <<ignore, call, attempt, relayer, rows, outlived, forgetAll, bounded>>

(* Every try of the resubmission throws: jobId is null and the loop breaks.  *)
ResubmitFails(w) ==
  /\ settle[w] = "pause"
  /\ settle' = [settle EXCEPT ![w] = "failed"]
  /\ UNCHANGED <<ignore, call, attempt, relayer, rows, outlived, forgetAll, bounded>>

(* track(): once the call has recorded the write, onWrite updates the row    *)
(* with this job id.  A row that is gone by now is simply not matched, and   *)
(* an update that fails is not tried again.                                  *)
Settled(w) == call[w] = "told" /\ settle[w] \in {"stored", "failed"}

(* Mutant: the row names the blob of the first job, whichever one landed.    *)
SettleRow_FirstJob(w) ==
  /\ Settled(w)
  /\ row' = IF row[w].status = "none" THEN row
            ELSE [row EXCEPT ![w].status = settle[w],
                             ![w].blob = IF settle[w] = "stored" THEN 1 ELSE 0]
  /\ settle' = [settle EXCEPT ![w] = "indexed"]
  /\ UNCHANGED <<ignore, call, attempt, relayer, told, forgotten, outlived, forgetAll, bounded>>

SettleRow(w) ==
  /\ Settled(w)
  /\ row' = IF row[w].status = "none" THEN row
            ELSE [row EXCEPT ![w].status = settle[w],
                             ![w].blob = IF settle[w] = "stored" THEN attempt[w] ELSE 0]
  /\ settle' = [settle EXCEPT ![w] = "indexed"]
  /\ UNCHANGED <<ignore, call, attempt, relayer, told, forgotten, outlived, forgetAll, bounded>>

SettleRowFails(w) ==
  /\ Settled(w)
  /\ settle' = [settle EXCEPT ![w] = "indexed"]
  /\ outlived' = outlived \cup {<<w, attempt[w]>>}
  /\ Fault
  /\ UNCHANGED <<ignore, call, attempt, relayer, rows, forgetAll>>

-----------------------------------------------------------------------------
(* External: the relayer mints and indexes the blob, or loses the job (one   *)
(* lost when nobody waits for it is no different from one that never lands). *)
Land(w, n) ==
  /\ job[w][n] = "queued"
  /\ job' = [job EXCEPT ![w][n] = "landed"]
  /\ index' = index \cup {<<w, n>>}
  /\ UNCHANGED <<client, stray, rows, outlived, forgetAll, bounded>>

Drop(w, n) ==
  /\ job[w][n] = "queued"
  /\ settle[w] = "wait" /\ attempt[w] = n
  /\ job' = [job EXCEPT ![w][n] = "dropped"]
  /\ UNCHANGED <<client, stray, index, rows, outlived, forgetAll, bounded>>

(* A job that hippo has no id for lands (or never does: nobody can tell).    *)
StrayLands(w) ==
  /\ stray[w] > 0
  /\ stray' = [stray EXCEPT ![w] = @ - 1]
  /\ index' = index \cup {<<w, 0>>}
  /\ UNCHANGED <<client, job, rows, outlived, forgetAll, bounded>>

-----------------------------------------------------------------------------
(* /memory forget <blob> and /memory unhide <blob>: setHidden finds the one  *)
(* row of the person's whose blob id matches; a row without one never does.  *)
SetHidden(w, hide) ==
  /\ row[w].blob # 0
  /\ row[w].hidden # hide
  /\ row' = [row EXCEPT ![w].hidden = hide]
  /\ UNCHANGED <<client, relayer, told, forgotten, outlived, forgetAll, bounded>>

(* /memory forget all: the relayer forgets the namespace first ...           *)
ForgetAtRelayer ==
  /\ ~forgetting
  /\ forgets < Forgets
  /\ index' = {}
  /\ forgetting' = TRUE
  /\ forgets' = forgets + 1
  /\ UNCHANGED <<client, job, stray, rows, outlived, bounded>>

(* ... and then the person's rows are deleted, or the delete fails.          *)
ForgetRows ==
  /\ forgetting
  /\ row' = [w \in Writes |-> NoRow]
  /\ told' = {}
  /\ forgotten' = forgotten \cup told
  /\ forgetting' = FALSE
  /\ UNCHANGED <<client, relayer, outlived, bounded, forgets>>

ForgetRowsFails ==
  /\ forgetting
  /\ forgetting' = FALSE
  /\ Fault
  /\ UNCHANGED <<client, relayer, rows, outlived, forgets>>

(* A restart or a deploy: calls and settle loops are gone, nothing resumes.  *)
Asked(w)    == call[w] \in {"dedupe", "again", "record"}
InFlight(w) == Asked(w) \/ settle[w] \in {"wait", "pause", "stored", "failed"}

Crash ==
  /\ Fault
  /\ call' = [w \in Writes |-> IF Asked(w) THEN "error" ELSE call[w]]
  /\ settle' = [w \in Writes |-> IF settle[w] \in {"none", "indexed"} THEN settle[w] ELSE "gone"]
  /\ outlived' = outlived \cup {b \in Blobs : InFlight(b[1])}
  /\ forgetting' = FALSE
  /\ UNCHANGED <<ignore, attempt, relayer, rows, forgets>>

-----------------------------------------------------------------------------
Init ==
  /\ ignore = [w \in Writes |-> {}]
  /\ call = [w \in Writes |-> "idle"]
  /\ settle = [w \in Writes |-> "none"]
  /\ attempt = [w \in Writes |-> 0]
  /\ job = [w \in Writes |-> [n \in 1..Attempts |-> "none"]]
  /\ stray = [w \in Writes |-> 0]
  /\ index = {} /\ row = [w \in Writes |-> NoRow]
  /\ told = {} /\ forgotten = {} /\ outlived = {} /\ forgetting = FALSE
  /\ faults = 0 /\ forgets = 0 /\ unheard = 0

Calling(w) ==
  \/ Remember(w)
  \/ FindDuplicate(w)
  \/ Accept(w)
  \/ AcceptFails(w)
  \/ Record(w)
  \/ RecordFails(w)

Settling(w) ==
  \/ JobStored(w) \/ JobLost(w)
  \/ Resubmit(w) \/ ResubmitFails(w)
  \/ SettleRow(w) \/ SettleRowFails(w)

Next ==
  \/ \E w \in Writes : Calling(w) \/ Settling(w) \/ TryLost(w) \/ StrayLands(w)
  \/ \E w \in Writes, n \in 1..Attempts : Land(w, n) \/ Drop(w, n)
  \/ \E w \in Writes, hide \in BOOLEAN : SetHidden(w, hide)
  \/ ForgetAtRelayer
  \/ ForgetRows
  \/ ForgetRowsFails
  \/ Crash

Spec == Init /\ [][Next]_vars

(* Every wait of a settle loop ends (waitForRememberJob has a timeout), and  *)
(* its pauses are timers.  The relayer owes nothing: no fairness on Land.    *)
FairSpec == Spec /\ \A w \in Writes : WF_vars(Settling(w))

-----------------------------------------------------------------------------
Calls   == {"idle", "dedupe", "again", "record", "told", "duplicate", "error"}
Settles == {"none", "wait", "pause", "stored", "failed", "indexed", "gone"}

TypeOK ==
  /\ ignore \in [Writes -> SUBSET Blobs]
  /\ call \in [Writes -> Calls]
  /\ settle \in [Writes -> Settles]
  /\ attempt \in [Writes -> 0..Attempts]
  /\ job \in [Writes -> [1..Attempts -> {"none", "queued", "landed", "dropped"}]]
  /\ stray \in [Writes -> Nat]
  /\ index \in SUBSET (Blobs \cup Strays)
  /\ row \in [Writes -> [status : {"none", "pending", "stored", "failed"},
                         blob : 0..Attempts, hidden : BOOLEAN]]
  /\ told \in SUBSET Writes /\ forgotten \in SUBSET Writes
  /\ outlived \in SUBSET (Blobs \cup Strays)
  /\ forgetting \in BOOLEAN
  /\ faults \in 0..Faults /\ forgets \in 0..Forgets /\ unheard \in 0..Faults

(* A memory the user was told about is never without its record, across      *)
(* restarts at any point: port.ts records the accepted job before it returns. *)
ToldIsRecorded == \A w \in told : row[w].status # "none"

(* A row never claims more than the relayer did: a stored row names a blob   *)
(* that one of this write's own submissions became, and only a stored row    *)
(* names one, so only what is stored can be hidden.                          *)
StoredRowIsReal ==
  \A w \in Writes :
    /\ row[w].status = "stored" => row[w].blob # 0 /\ job[w][row[w].blob] = "landed"
    /\ row[w].status # "stored" => row[w].blob = 0 /\ ~row[w].hidden

(***************************************************************************)
(* Both ways, whatever lands late, is lost, submitted again or cut off by  *)
(* a restart: what the user was told has its row, and what a row says the  *)
(* relayer has done.                                                       *)
(***************************************************************************)
RowsAreTrue == ToldIsRecorded /\ StoredRowIsReal

(***************************************************************************)
(* The index of rows and the index of blobs drift apart only where hippo   *)
(* stopped watching: whatever recall can find is named by a row, or its    *)
(* row is still pending, unless nobody was waiting for that job any more   *)
(* (a timeout, a restart, a failed insert, a try whose answer was lost) or *)
(* the row was forgotten.                                                  *)
(***************************************************************************)
RecallableIsTracked ==
  \A b \in index :
    \/ row[b[1]].status = "stored" /\ row[b[1]].blob = b[2]
    \/ row[b[1]].status = "pending"
    \/ call[b[1]] = "record"
    \/ b \in outlived
    \/ b[1] \in forgotten

(***************************************************************************)
(* A row settles once.  Only /memory forget all takes it back, and what a  *)
(* stored row names never changes, so a memory hidden by its blob id stays *)
(* the one the person meant.                                               *)
(***************************************************************************)
RowSettlesOnce ==
  [][\A w \in Writes :
       row[w].status \in {"stored", "failed"}
         => \/ row'[w] = NoRow /\ ForgetRows
            \/ row'[w] = [row[w] EXCEPT !.hidden = row'[w].hidden]]_vars

(***************************************************************************)
(* As long as the server stays up and the database takes its statements,   *)
(* every write the user was told about settles, although the call that     *)
(* started it returned long ago and the relayer may never answer.          *)
(***************************************************************************)
ToldSettles ==
  \A w \in Writes : w \in told ~> row[w].status # "pending" \/ faults > 0

-----------------------------------------------------------------------------
(***************************************************************************)
(* What the program says of itself and does not hold.                      *)
(***************************************************************************)
(* copy.ts, privacy: "/memory forget all makes every one unrecallable."  A   *)
(* memory reported saved before a forget all is not recalled after it.       *)
ForgottenStaysForgotten == \A b \in Recallable : b[1] \notin forgotten

(* copy.ts, privacy: "/memory forget <blob> stops me using one memory".  A   *)
(* memory whose row is hidden is not recalled, in any copy of it.            *)
HiddenIsNotRecalled == \A b \in Recallable : ~row[b[1]].hidden

(* copy.ts, privacy: "/memory shows everything I hold."  What /memory shows  *)
(* as a write with no blob (its row failed) is not recalled.                 *)
FailedIsNotHeld == \A b \in Recallable : row[b[1]].status # "failed"

(* policy.ts: "A dropped job is resubmitted this many times before the write *)
(* is called lost."                                                          *)
LostOnlyAfterAllAttempts ==
  \A w \in Writes : settle[w] = "failed" => attempt[w] = Attempts

(* port.ts: "`stored` or `failed` follows for the same job id."              *)
AcceptedIsFollowedUp ==
  \A w \in Writes : call[w] = "told" ~> row[w].status \in {"stored", "failed", "none"}
=============================================================================
