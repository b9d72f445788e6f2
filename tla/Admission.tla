------------------------------- MODULE Admission ------------------------------
(***************************************************************************)
(* Who gets through to the model: RateGate's count of one person, behind   *)
(* the count of an address (apps/server/src/iplimit.ts, and its use in     *)
(* index.ts) that every metered web request passes first, whoever it says  *)
(* it is.  checkAddress has no await: it is one step.  Its hits are kept   *)
(* in the process, pruned when they are used and swept once a minute.      *)
(***************************************************************************)
EXTENDS RateGate

CONSTANTS
  Address,      (* the addresses that requests come from                      *)
  Hour, IpMinute, IpHour, (* 60 min, PER_MINUTE (30) and PER_HOUR (200)       *)
  MaxRestarts   (* bound                                                      *)

ASSUME AddressAssumption ==
  /\ IsFiniteSet(Address)
  /\ {Hour, IpMinute, IpHour} \subseteq Nat \ {0} /\ Minute <= Hour
  /\ MaxRestarts \in Nat

VARIABLES
  hits,         (* buckets: by address, its hits                              *)
  lastSweep,
  passed,       (* history: requests let through, by address                  *)
  restarts      (* history: restarts                                          *)

ipVars == <<hits, lastSweep, passed, restarts>>
admissionVars == <<rateVars, ipVars>>

LongAgo == -1 - Minute

Kept(stamps) == {s \in stamps : now - s[1] < Hour}

(* Mutant: the sweep keeps what the minute needs.                            *)
Swept_Minute ==
  IF now - lastSweep > Minute
    THEN [a \in Address |-> {s \in hits[a] : now - s[1] < Minute}]
  ELSE hits

Swept ==
  IF now - lastSweep > Minute THEN [a \in Address |-> Kept(hits[a])]
  ELSE hits

(* checkAddress: a refused request is not counted.                           *)
Gate(a) ==
  LET mine == Kept(Swept[a]) IN
  /\ lastSweep' = IF now - lastSweep > Minute THEN now ELSE lastSweep
  /\ UNCHANGED restarts
  /\ \/ /\ Within(mine, now, Minute) < IpMinute /\ Within(mine, now, Hour) < IpHour
        /\ hits' = [Swept EXCEPT ![a] = Add(mine, now)]
        /\ passed' = [passed EXCEPT ![a] = Add(@, now)]
     \/ /\ Within(mine, now, Minute) >= IpMinute \/ Within(mine, now, Hour) >= IpHour
        /\ hits' = [Swept EXCEPT ![a] = mine]
        /\ UNCHANGED passed

(* A web request of the person, of another person or of one just invented.   *)
WebStart(c, a) == Gate(a) /\ passed' # passed /\ Start(c)
WebOther(a)    == Gate(a) /\ UNCHANGED rateVars

(* The chat platforms come in behind the address gate.                       *)
ChannelStart(c) == Start(c) /\ UNCHANGED ipVars
Ends(c) == (Logged(c) \/ NotLogged(c)) /\ UNCHANGED ipVars
Passes  == ClockTicks /\ UNCHANGED ipVars

(* The process restarts: the hits are forgotten, and the requests in         *)
(* progress leave no row.                                                    *)
Restart ==
  /\ Cardinality(restarts) < MaxRestarts /\ lost + Cardinality(inProgress) <= MaxLost
  /\ hits' = [a \in Address |-> {}] /\ lastSweep' = LongAgo
  /\ restarts' = Add(restarts, now)
  /\ inProgress' = {} /\ lost' = lost + Cardinality(inProgress)
  /\ UNCHANGED <<now, rows, started, passed>>

AdmissionInit ==
  /\ RateInit
  /\ hits = [a \in Address |-> {}] /\ lastSweep = LongAgo
  /\ passed = [a \in Address |-> {}] /\ restarts = {}

AdmissionNext ==
  \/ \E c \in Calls, a \in Address : WebStart(c, a)
  \/ \E a \in Address : WebOther(a)
  \/ \E c \in Calls : ChannelStart(c) \/ Ends(c)
  \/ Passes \/ Restart

AdmissionSpec == AdmissionInit /\ [][AdmissionNext]_admissionVars

-----------------------------------------------------------------------------
(***************************************************************************)
(* Whoever its requests say they are, however they are spread over time    *)
(* and whatever the sweep drops, an address gets no more through in any    *)
(* minute, or hour, than its cap, and the cap again for every restart in   *)
(* that time, which forgets what it had.                                   *)
(***************************************************************************)
AddressCap == \A a \in Address :
  /\ Within(passed[a], now, Minute) <= IpMinute * (1 + Within(restarts, now, Minute))
  /\ Within(passed[a], now, Hour) <= IpHour * (1 + Within(restarts, now, Hour))

(* What it says: "a ceiling the caller cannot choose for itself"; a restart  *)
(* lifts it.                                                                 *)
HourCap == \A a \in Address : Within(passed[a], now, Hour) <= IpHour
=============================================================================
