-------------------------------- MODULE Teams --------------------------------
(***************************************************************************)
(* Shared memory (apps/server/src/identity/teams.ts and                    *)
(* memory/team-person.ts): founding a team, inviting, joining, leaving,    *)
(* and adding a fact.  A call reads, decides and then writes, with other   *)
(* calls in between: Calls are the calls that may be in progress at one    *)
(* time.  A call may stop after any statement (a restart), and an invite   *)
(* that expires is one nobody uses.                                        *)
(***************************************************************************)
EXTENDS Naturals, FiniteSets

CONSTANTS
  People,      (* persons                                                    *)
  Teams,       (* rows of teams                                              *)
  Invites,     (* rows of team_invites                                       *)
  Calls,       (* calls in progress at one time                              *)
  MaxMembers,  (* MAX_MEMBERS                                     (12)       *)
  None

ASSUME TeamsAssumption ==
  /\ IsFiniteSet(People) /\ IsFiniteSet(Teams) /\ None \notin Teams
  /\ IsFiniteSet(Calls) /\ Calls # {}
  /\ MaxMembers \in Nat \ {0}

VARIABLES
  founded,     (* teams inserted                                             *)
  members,     (* team_members rows with left_at null                        *)
  invite,      (* the team of each invite, None before it is made            *)
  used,        (* invites with used_at set                                   *)
  call,        (* the calls in progress                                      *)
  joins,       (* history: memberships each invite gave                      *)
  late         (* history: facts a person has added since they last left, to *)
               (* a team they were not in                                    *)

teamVars == <<founded, members, invite, used, call, joins, late>>

NoCall == [pc |-> "idle", person |-> None, team |-> None, invite |-> None]

TeamsOf(p)     == {t \in Teams : p \in members[t]}
Step(c, pc)    == call' = [call EXCEPT ![c].pc = pc]
Return(c)      == call' = [call EXCEPT ![c] = NoCall]
Begin(c, pc, p, t, i) ==
  /\ call[c] = NoCall
  /\ call' = [call EXCEPT ![c] = [pc |-> pc, person |-> p, team |-> t, invite |-> i]]

-----------------------------------------------------------------------------
(* createTeam: refused to a member; three inserts, no transaction.           *)
New(c, p) ==
  /\ TeamsOf(p) = {}
  /\ Begin(c, "found", p, None, None)
  /\ UNCHANGED <<founded, members, invite, used, joins, late>>

FoundTeam(c, t) ==
  /\ call[c].pc = "found"
  /\ t \notin founded
  /\ founded' = founded \cup {t}
  /\ call' = [call EXCEPT ![c].pc = "enrol", ![c].team = t]
  /\ UNCHANGED <<members, invite, used, joins, late>>

Enrol(c) ==
  /\ call[c].pc = "enrol"
  /\ members' = [members EXCEPT ![call[c].team] = @ \cup {call[c].person}]
  /\ Step(c, "invite")
  /\ UNCHANGED <<founded, invite, used, joins, late>>

(* inviteToTeam, at the end of createTeam or by a member.                    *)
InviteStarts(c, p, t) ==
  /\ t \in TeamsOf(p)
  /\ Begin(c, "invite", p, t, None)
  /\ UNCHANGED <<founded, members, invite, used, joins, late>>

InviteMade(c, i) ==
  /\ call[c].pc = "invite"
  /\ invite[i] = None
  /\ invite' = [invite EXCEPT ![i] = call[c].team]
  /\ Return(c)
  /\ UNCHANGED <<founded, members, used, joins, late>>

-----------------------------------------------------------------------------
(* joinTeam: the invite is unused ...                                        *)
Join(c, p, i) ==
  /\ invite[i] # None /\ i \notin used
  /\ Begin(c, "free", p, invite[i], i)
  /\ UNCHANGED <<founded, members, invite, used, joins, late>>

(* ... the person is in no team ...                                          *)
CheckFree(c) ==
  /\ call[c].pc = "free"
  /\ IF TeamsOf(call[c].person) = {} THEN Step(c, "room") ELSE Return(c)
  /\ UNCHANGED <<founded, members, invite, used, joins, late>>

(* ... there is room ...                                                     *)
(* Mutant: off by one.                                                       *)
CheckRoom_AtLimit(c) ==
  /\ call[c].pc = "room"
  /\ IF Cardinality(members[call[c].team]) <= MaxMembers THEN Step(c, "join") ELSE Return(c)
  /\ UNCHANGED <<founded, members, invite, used, joins, late>>

CheckRoom(c) ==
  /\ call[c].pc = "room"
  /\ IF Cardinality(members[call[c].team]) < MaxMembers THEN Step(c, "join") ELSE Return(c)
  /\ UNCHANGED <<founded, members, invite, used, joins, late>>

(* ... and one transaction enrols them, or revives an earlier stay, and      *)
(* marks the invite used, whatever it is by now.                             *)
Joined(c) ==
  /\ call[c].pc = "join"
  /\ members' = [members EXCEPT ![call[c].team] = @ \cup {call[c].person}]
  /\ used' = used \cup {call[c].invite}
  /\ joins' = [joins EXCEPT ![call[c].invite] = @ \cup {call[c].person}]
  /\ Return(c)
  /\ UNCHANGED <<founded, invite, late>>

(* leaveTeam: currentTeam, then left_at is set on every open membership.     *)
LeaveStarts(c, p) ==
  /\ TeamsOf(p) # {}
  /\ Begin(c, "leave", p, None, None)
  /\ UNCHANGED <<founded, members, invite, used, joins, late>>

Left(c) ==
  /\ call[c].pc = "leave"
  /\ members' = [t \in Teams |-> members[t] \ {call[c].person}]
  /\ late' = [late EXCEPT ![call[c].person] = 0]
  /\ Return(c)
  /\ UNCHANGED <<founded, invite, used, joins>>

(* rememberTeamFact: currentTeam names the team, then the port writes to it. *)
(* Mutant: any team will do.                                                 *)
RememberStarts_AnyTeam(c, p, t) ==
  /\ t \in founded
  /\ Begin(c, "remember", p, t, None)
  /\ UNCHANGED <<founded, members, invite, used, joins, late>>

RememberStarts(c, p, t) ==
  /\ t \in TeamsOf(p)
  /\ Begin(c, "remember", p, t, None)
  /\ UNCHANGED <<founded, members, invite, used, joins, late>>

Remembered(c) ==
  /\ call[c].pc = "remember"
  /\ late' = IF call[c].person \in members[call[c].team] THEN late
             ELSE [late EXCEPT ![call[c].person] = @ + 1]
  /\ Return(c)
  /\ UNCHANGED <<founded, members, invite, used, joins>>

(* The server restarts in the middle of a call.                              *)
Abandon(c) ==
  /\ call[c] # NoCall
  /\ Return(c)
  /\ UNCHANGED <<founded, members, invite, used, joins, late>>

-----------------------------------------------------------------------------
TeamsInit ==
  /\ founded = {}
  /\ members = [t \in Teams |-> {}]
  /\ invite = [i \in Invites |-> None] /\ used = {}
  /\ call = [c \in Calls |-> NoCall]
  /\ joins = [i \in Invites |-> {}] /\ late = [p \in People |-> 0]

TeamsNext ==
  \E c \in Calls :
    \/ Enrol(c) \/ CheckFree(c) \/ CheckRoom(c) \/ Joined(c) \/ Left(c) \/ Remembered(c)
    \/ Abandon(c)
    \/ \E p \in People : New(c, p) \/ LeaveStarts(c, p)
    \/ \E t \in Teams : FoundTeam(c, t)
    \/ \E i \in Invites : InviteMade(c, i)
    \/ \E p \in People, t \in Teams : InviteStarts(c, p, t) \/ RememberStarts(c, p, t)
    \/ \E p \in People, i \in Invites : Join(c, p, i)

TeamsSpec == TeamsInit /\ [][TeamsNext]_teamVars

-----------------------------------------------------------------------------
TypeOK ==
  /\ founded \in SUBSET Teams
  /\ members \in [Teams -> SUBSET People]
  /\ \A t \in Teams \ founded : members[t] = {}
  /\ invite \in [Invites -> founded \cup {None}]
  /\ used \in SUBSET {i \in Invites : invite[i] # None}
  /\ call \in [Calls -> [pc : {"idle", "found", "enrol", "invite", "free", "room", "join", "leave",
                               "remember"},
                         person : People \cup {None}, team : Teams \cup {None},
                         invite : Invites \cup {None}]]
  /\ joins \in [Invites -> SUBSET People]
  /\ late \in [People -> Nat]

(***************************************************************************)
(* The rules of a team (docs/evidence/team-memory: "One team per person,   *)
(* twelve members, invite codes of six characters that last ten minutes    *)
(* and work once").  Each is checked at the start of a call and written at *)
(* its end, so that calls which overlap may overstep it: by one for each   *)
(* other call in progress and never by more, whatever they are and         *)
(* wherever they are cut off.  With one call at a time they are the rules  *)
(* as they are written.                                                    *)
(***************************************************************************)
Others == Cardinality(Calls) - 1

OneTeamEach     == \A p \in People : Cardinality(TeamsOf(p)) <= 1 + Others
MembersCapped   == \A t \in Teams : Cardinality(members[t]) <= MaxMembers + Others
InviteWorksOnce == \A i \in Invites : Cardinality(joins[i]) <= 1 + Others

TeamRules == OneTeamEach /\ MembersCapped /\ InviteWorksOnce

(***************************************************************************)
(* /team leave: "I will not read or write its memory for you any more."    *)
(* A fact can reach a team after its writer has left, when the membership  *)
(* was read before; those that do are the ones that were under way when    *)
(* they left, so that there are fewer than calls in progress, and none     *)
(* with one call at a time.  Nobody else writes to a team they are not in. *)
(***************************************************************************)
LeaversFallSilent == \A p \in People : late[p] <= Others
=============================================================================
