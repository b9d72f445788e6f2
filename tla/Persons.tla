------------------------------- MODULE Persons -------------------------------
(***************************************************************************)
(* Who is who (apps/server/src/identity/persons.ts): the people table, the *)
(* channel_identities that name them, and what hangs off a person.         *)
(* mergePersons is a transaction of several statements at READ COMMITTED:  *)
(* it moves the identities, then the delegate_keys, then memory_index, and *)
(* deletes the person last.  What comes to the person after the statement  *)
(* that would have moved it goes with them, ON DELETE CASCADE, as do the   *)
(* rows in `held` (web_sessions, connect_tokens, documents, team_members), *)
(* which no statement moves.                                               *)
(***************************************************************************)
EXTENDS Naturals, FiniteSets

CONSTANTS
  People,     (* person ids, never reused                                    *)
  Externals,  (* channel identities: a chat account, a browser's guest cookie*)
  Wallets,    (* wallet addresses, the identities of channel "wallet"        *)
  Keys,       (* rows of delegate_keys                                       *)
  Memories,   (* rows of memory_index                                        *)
  Things,     (* rows that reference a person and stay behind in a merge     *)
  NoOne

Identities == Externals \cup Wallets
Owned      == Keys \cup Memories
Anyone     == People \cup {NoOne}

ASSUME PersonsAssumption ==
  /\ NoOne \notin People
  /\ Externals \cap Wallets = {} /\ Keys \cap Memories = {}
  /\ Identities \cap Owned = {} /\ Things \cap (Identities \cup Owned) = {}

VARIABLES
  people,     (* the people table                                            *)
  born,       (* ids handed out so far                                       *)
  identity,   (* channel_identities: whose each identity is                  *)
  owner,      (* person_id of delegate_keys and memory_index                 *)
  held,       (* person_id of every other row                                *)
  merge,      (* the merge of each person into another, in progress: the     *)
              (* statement it is at, the rows it has moved, and in `late`    *)
              (* (history) those that came too late for it                   *)
  gone        (* history: rows that went with a person, having come too late *)

tables == <<people, born, identity, owner, held, merge, gone>>

HasMemories(p) == \E m \in Memories : owner[m] = p
Whose(r)       == IF r \in Identities THEN identity[r] ELSE owner[r]

(* The statements of a merge, and the table that each one updates.           *)
Statements == {"identities", "keys", "memories"}
Table(at)  == CASE at = "identities" -> Identities
                [] at = "keys"       -> Keys
                [] at = "memories"   -> Memories

NoMerge    == [into |-> NoOne, at |-> "none", rows |-> {}, late |-> {}]
Merging(p) == merge[p] # NoMerge

(* A row that a merge has updated is locked until it ends.                   *)
Locked(r) == \E p \in People : r \in merge[p].rows

(* With the foreign keys: every row is somebody's who is there.              *)
PersonsTypeOK ==
  /\ people \in SUBSET born /\ born \in SUBSET People
  /\ identity \in [Identities -> people \cup {NoOne}]
  /\ owner \in [Owned -> people \cup {NoOne}]
  /\ held \in [Things -> people \cup {NoOne}]
  /\ merge \in [People -> [into : Anyone, at : Statements \cup {"none"},
                           rows : SUBSET (Identities \cup Owned),
                           late : SUBSET (Identities \cup Owned)]]
  /\ gone \in SUBSET (Identities \cup Owned)

PersonsInit ==
  /\ people = {} /\ born = {}
  /\ identity = [x \in Identities |-> NoOne]
  /\ owner = [r \in Owned |-> NoOne]
  /\ held = [t \in Things |-> NoOne]
  /\ merge = [p \in People |-> NoMerge] /\ gone = {}

-----------------------------------------------------------------------------
(* The statement that would have moved a row has run already.                *)
Passed(p, r) ==
  \/ merge[p].at = "identities" /\ r \in Identities
  \/ merge[p].at = "keys"       /\ r \in Identities \cup Keys
  \/ merge[p].at = "memories"   /\ r \in Identities \cup Owned

(* History: rows come to a person.                                           *)
Comes(mg, p, R) == [mg EXCEPT ![p].late = @ \cup {r \in R : Passed(p, r)}]

(* The transaction of resolvePerson: a person and the identity naming it.    *)
Create(x, p) ==
  /\ p \in People \ born
  /\ people' = people \cup {p} /\ born' = born \cup {p}
  /\ identity' = [identity EXCEPT ![x] = p]
  /\ UNCHANGED <<owner, held, merge, gone>>

(* The insert-or-do-nothing and the address update of attachWallet.  The     *)
(* insert needs a live person; an identity that exists is left alone.        *)
AttachFails(w, p) == identity[w] = NoOne /\ p \notin people

Attach(w, p) ==
  /\ ~AttachFails(w, p)
  /\ IF identity[w] = NoOne
       THEN identity' = [identity EXCEPT ![w] = p] /\ merge' = Comes(merge, p, {w})
       ELSE UNCHANGED <<identity, merge>>
  /\ UNCHANGED <<people, born, owner, held, gone>>

(* A delegate key or a memory is inserted for somebody who is there.         *)
Insert(r, p) ==
  /\ p \in people
  /\ owner' = [owner EXCEPT ![r] = p] /\ merge' = Comes(merge, p, {r})

-----------------------------------------------------------------------------
(* mergePersons(w, l).  It does nothing when the loser is the winner or is   *)
(* gone, and fails on the foreign key of the loser's identities (there is    *)
(* one: NobodyUnreachable) when the winner is.                               *)
MergeSkips(w, l) == w = l \/ l \notin people
MergeFails(w, l) == ~MergeSkips(w, l) /\ w \notin people

(* Mutants: a table is forgotten.                                            *)
Moves_NoMemories(l, at) == {r \in Table(at) : Whose(r) = l /\ at # "memories"}
Moves_NoKeys(l, at)     == {r \in Table(at) : Whose(r) = l /\ at # "keys"}

(* The update of one table.  Nobody sees what it did before the merge ends.  *)
Moves(l, at) == {r \in Table(at) : Whose(r) = l}

(* A second merge of the same person waits for the identities' locks; from   *)
(* here on nobody deletes the winner.                                        *)
MergeBegins(w, l) ==
  /\ ~MergeSkips(w, l) /\ ~MergeFails(w, l) /\ ~Merging(l)
  /\ merge' = [merge EXCEPT ![l] = [into |-> w, at |-> "identities",
                                    rows |-> Moves(l, "identities"), late |-> {}]]
  /\ UNCHANGED <<people, born, identity, owner, held, gone>>

MergeMoves(l) ==
  /\ Merging(l) /\ merge[l].at # "memories"
  /\ LET next == IF merge[l].at = "identities" THEN "keys" ELSE "memories"
     IN  merge' = [merge EXCEPT ![l].at = next, ![l].rows = @ \cup Moves(l, next)]
  /\ UNCHANGED <<people, born, identity, owner, held, gone>>

(* The delete, which waits for a merge into the loser, and the commit: what  *)
(* was moved is the winner's, and whatever else is still the loser's goes.   *)
AfterMerge(f, l) ==
  [r \in DOMAIN f |-> CASE r \in merge[l].rows                  -> merge[l].into
                       [] r \notin merge[l].rows /\ f[r] = l -> NoOne
                       [] OTHER                               -> f[r]]

(* Mutant: the person is not deleted.                                        *)
MergeEnds_KeepsLoser(l) ==
  /\ Merging(l) /\ merge[l].at = "memories" /\ \A q \in People : merge[q].into # l
  /\ identity' = AfterMerge(identity, l) /\ owner' = AfterMerge(owner, l)
  /\ held' = AfterMerge(held, l)
  /\ merge' = [Comes(merge, merge[l].into, merge[l].rows) EXCEPT ![l] = NoMerge]
  /\ gone' = gone \cup merge[l].late
  /\ UNCHANGED <<people, born>>

MergeEnds(l) ==
  /\ Merging(l) /\ merge[l].at = "memories" /\ \A q \in People : merge[q].into # l
  /\ identity' = AfterMerge(identity, l) /\ owner' = AfterMerge(owner, l)
  /\ held' = AfterMerge(held, l)
  /\ people' = people \ {l}
  /\ merge' = [Comes(merge, merge[l].into, merge[l].rows) EXCEPT ![l] = NoMerge]
  /\ gone' = gone \cup merge[l].late
  /\ UNCHANGED born

(* A deadlock or a restart: nothing has happened.                            *)
MergeRollsBack(l) ==
  /\ Merging(l)
  /\ merge' = [merge EXCEPT ![l] = NoMerge]
  /\ UNCHANGED <<people, born, identity, owner, held, gone>>

(***************************************************************************)
(* persons.ts, resolvePerson: "no orphan person is left".  Everybody can   *)
(* be reached by some identity, whoever raced to create or fold them.      *)
(***************************************************************************)
NobodyUnreachable == \A p \in people : \E x \in Identities : identity[x] = p
=============================================================================
